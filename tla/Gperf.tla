-------------------------------- MODULE Gperf --------------------------------
(***************************************************************************)
(* lib/Perfect/Hash/Gperf.pm: a program makes Gperf objects and saves them. *)
(* new writes the keys into the one file pperf_keys.tmp of the directory    *)
(* (or is given a key file of the user's); save_c forks a perl that puts    *)
(* itself in a process group of its own and runs "gperf keys >prefix.c"     *)
(* through a shell, polls it once a second, and kills the group when        *)
(* -max-time seconds are over.  With -max-time 0 save_c runs gperf itself.  *)
(* Bob.pm repeats the same protocol for bob/perfect.                        *)
(*                                                                         *)
(* A dictionary is a value of Dicts; a file is what it was made from.       *)
(* gperf is external: it may take for ever and may reject a dictionary.     *)
(***************************************************************************)
EXTENDS Integers, Sequences

CONSTANTS
    Dicts,        \* the dictionaries the program has
    Nothing,      \* a file that does not exist
    Partial,      \* a file that was opened for writing and not written to the end
    MaxTime,      \* -max-time in seconds, of the objects that do not disable it with 0
    Uses          \* the ways in which programs call the class and are scheduled, with
                  \* bounds on their calls

ASSUME GperfAssumption ==
    /\ MaxTime \in Nat \ {0}
    /\ Nothing \notin Dicts /\ Partial \notin Dicts /\ Nothing # Partial
    /\ Uses \subseteq [fresh : BOOLEAN, prompt : BOOLEAN, objects : Nat, calls : Nat]

VARIABLES
    use,       \* what is known of this program and its children, from its beginning on
    keyfile,   \* pperf_keys.tmp
    output,    \* $fileprefix.c
    objects,   \* the Gperf objects: dictionary, whether its keys are in pperf_keys.tmp,
               \* and whether there is a time limit
    groups,    \* the process started by each call of save_c, with the gperf below it
    pc,        \* where the program is
    secs,      \* seconds slept in this call
    status     \* $? : 0, an error of gperf (1), or -1 after a waitpid that reaped nothing

vars == <<use, keyfile, output, objects, groups, pc, secs, status>>

call == Len(groups)                       \* the current call of save_c, or the last one
group == groups[call]
Object(i) == objects[groups[i].object]
Keys(i) == IF Object(i).tmp THEN keyfile ELSE Object(i).dict

\* The program saves only the object it made last, and only once.
SaveFresh == use.fresh
\* A forked perl runs setpgrp before its parent's first second is over.
PromptChild == use.prompt
MaxObjects == use.objects    \* bound on the calls of new
MaxCalls == use.calls        \* bound on the calls of save_c

Running == {"opened", "loaded"}
Ended == {"done", "nokeys", "rejected"}

Init ==
    /\ use \in Uses
    /\ keyfile = Nothing /\ output = Nothing
    /\ objects = <<>> /\ groups = <<>>
    /\ pc = "idle" /\ secs = 0 /\ status = 0

(* a mutant: a key file that is already there is used again *)
New_KeepFile(d, tmp, timed) ==
    /\ pc = "idle" /\ Len(objects) < MaxObjects
    /\ objects' = Append(objects, [dict |-> d, tmp |-> tmp, timed |-> timed])
    /\ keyfile' = IF tmp /\ keyfile = Nothing THEN d ELSE keyfile
    /\ UNCHANGED <<output, groups, pc, secs, status>>

(* new: an array or a hash is written to pperf_keys.tmp, a key file is only read. *)
New(d, tmp, timed) ==
    /\ pc = "idle" /\ Len(objects) < MaxObjects
    /\ objects' = Append(objects, [dict |-> d, tmp |-> tmp, timed |-> timed])
    /\ keyfile' = IF tmp THEN d ELSE keyfile
    /\ UNCHANGED <<output, groups, pc, secs, status>>

(* save_c up to the fork, or up to the call of system when there is no time limit. *)
SaveC(o) ==
    /\ pc = "idle" /\ call < MaxCalls
    /\ SaveFresh => o = Len(objects) /\ \A i \in DOMAIN groups : groups[i].object # o
    /\ groups' = Append(groups, [object |-> o, gperf |-> "none", keys |-> Nothing,
                                 child |-> IF objects[o].timed THEN "forked" ELSE "none"])
    /\ pc' = IF objects[o].timed THEN "sleep" ELSE "system"
    /\ secs' = 0
    /\ UNCHANGED <<keyfile, output, objects, status>>

-----------------------------------------------------------------------------
(* The parent's polling loop. *)

(* a mutant: the loop only looks whether the child has ended *)
Poll_NoLimit ==
    /\ pc = "sleep"
    /\ PromptChild => group.child # "forked"
    /\ secs' = IF secs < MaxTime THEN secs + 1 ELSE secs
    /\ IF group.child = "zombie"
       THEN /\ groups' = [groups EXCEPT ![call].child = "gone"]
            /\ status' = 0 /\ pc' = "reap"
       ELSE status' = -1 /\ UNCHANGED <<groups, pc>>
    /\ UNCHANGED <<keyfile, output, objects>>

(* a mutant: one second too late *)
Poll_OneMore ==
    /\ pc = "sleep"
    /\ PromptChild => group.child # "forked"
    /\ secs' = secs + 1
    /\ IF group.child = "zombie"
       THEN /\ groups' = [groups EXCEPT ![call].child = "gone"]
            /\ status' = 0 /\ pc' = "reap"
       ELSE /\ status' = -1 /\ UNCHANGED groups
            /\ pc' = IF secs' > MaxTime THEN "reap" ELSE "sleep"
    /\ UNCHANGED <<keyfile, output, objects>>

(* sleep 1, then waitpid(WNOHANG) on the forked perl: a perl that has exited *)
(* is reaped here. *)
Poll ==
    /\ pc = "sleep"
    /\ PromptChild => group.child # "forked"
    /\ secs' = secs + 1
    /\ IF group.child = "zombie"
       THEN /\ groups' = [groups EXCEPT ![call].child = "gone"]
            /\ status' = 0 /\ pc' = "reap"
       ELSE /\ status' = -1 /\ UNCHANGED groups
            /\ pc' = IF secs' >= MaxTime THEN "reap" ELSE "sleep"
    /\ UNCHANGED <<keyfile, output, objects>>

(* a mutant: a waitpid that finds no child (-1) is taken for a running one *)
Reap_KillMissing ==
    /\ pc = "reap"
    /\ IF group.child = "zombie"
       THEN /\ groups' = [groups EXCEPT ![call].child = "gone"]
            /\ status' = 0 /\ pc' = "return"
       ELSE status' = -1 /\ pc' = "kill" /\ UNCHANGED groups
    /\ UNCHANGED <<keyfile, output, objects, secs>>

(* The waitpid after the loop: 0 means that the perl is still running, -1 *)
(* that the loop has reaped it already. *)
Reap ==
    /\ pc = "reap"
    /\ IF group.child = "zombie"
       THEN /\ groups' = [groups EXCEPT ![call].child = "gone"]
            /\ status' = 0 /\ pc' = "return"
       ELSE /\ status' = -1 /\ UNCHANGED groups
            /\ pc' = IF group.child = "gone" THEN "return" ELSE "kill"
    /\ UNCHANGED <<keyfile, output, objects, secs>>

(* a mutant: kill 9, $pid *)
Kill_PerlOnly ==
    /\ pc = "kill" /\ pc' = "return"
    /\ groups' = IF group.child = "grouped"
                 THEN [groups EXCEPT ![call].child = "killed"] ELSE groups
    /\ UNCHANGED <<keyfile, output, objects, secs, status>>

(* kill 9, -$pid: every process of the group, which exists only once the    *)
(* forked perl has called setpgrp.  A killed perl is not reaped any more.   *)
Kill ==
    /\ pc = "kill" /\ pc' = "return"
    /\ groups' = IF group.child = "grouped"
                 THEN [groups EXCEPT ![call].child = "killed",
                                     ![call].gperf = IF @ \in Ended THEN @ ELSE "killed"]
                 ELSE groups
    /\ UNCHANGED <<keyfile, output, objects, secs, status>>

(* a mutant: the exit status of gperf is lost, as it is in the forked perl *)
SystemReturns_Exit0 ==
    /\ pc = "system" /\ group.gperf \in Ended
    /\ status' = 0
    /\ pc' = "return"
    /\ UNCHANGED <<keyfile, output, objects, groups, secs>>

(* No time limit: system waits for gperf and sets $? to its exit status. *)
SystemReturns ==
    /\ pc = "system" /\ group.gperf \in Ended
    /\ status' = IF group.gperf = "done" THEN 0 ELSE 1
    /\ pc' = "return"
    /\ UNCHANGED <<keyfile, output, objects, groups, secs>>

(* $errcode = $? >> 8; pperf_keys.tmp is removed when it is 0. *)
Return ==
    /\ pc = "return" /\ pc' = "idle"
    /\ keyfile' = IF Object(call).tmp /\ status = 0 THEN Nothing ELSE keyfile
    /\ UNCHANGED <<output, objects, groups, secs, status>>

-----------------------------------------------------------------------------
(* The forked perl of call i, and gperf. *)

SetGroup(i) ==
    /\ groups[i].child = "forked"
    /\ groups' = [groups EXCEPT ![i].child = "grouped"]
    /\ UNCHANGED <<keyfile, output, objects, pc, secs, status>>

(* The shell opens the output file and starts gperf. *)
StartGperf(i) ==
    /\ groups[i].gperf = "none" /\ groups[i].child \in {"grouped", "none"}
    /\ groups' = [groups EXCEPT ![i].gperf = "opened"]
    /\ output' = Partial
    /\ UNCHANGED <<keyfile, objects, pc, secs, status>>

LoadKeys(i) ==
    /\ groups[i].gperf = "opened"
    /\ groups' = [groups EXCEPT ![i].keys = Keys(i),
                                ![i].gperf = IF Keys(i) = Nothing THEN "nokeys" ELSE "loaded"]
    /\ UNCHANGED <<keyfile, output, objects, pc, secs, status>>

WriteTable(i) ==
    /\ groups[i].gperf = "loaded"
    /\ groups' = [groups EXCEPT ![i].gperf = "done"]
    /\ output' = groups[i].keys
    /\ UNCHANGED <<keyfile, objects, pc, secs, status>>

(* gperf finds no hash function for these keys. *)
RejectKeys(i) ==
    /\ groups[i].gperf = "loaded"
    /\ groups' = [groups EXCEPT ![i].gperf = "rejected"]
    /\ UNCHANGED <<keyfile, output, objects, pc, secs, status>>

(* exit(0), whatever gperf's exit status was *)
ChildExits(i) ==
    /\ groups[i].child = "grouped" /\ groups[i].gperf \in Ended
    /\ groups' = [groups EXCEPT ![i].child = "zombie"]
    /\ UNCHANGED <<keyfile, output, objects, pc, secs, status>>

-----------------------------------------------------------------------------
Parent == Poll \/ Reap \/ Kill \/ SystemReturns \/ Return

Program ==
    \/ \E d \in Dicts, tmp, timed \in BOOLEAN : New(d, tmp, timed)
    \/ \E o \in DOMAIN objects : SaveC(o)

Gperf(i) == StartGperf(i) \/ LoadKeys(i) \/ WriteTable(i) \/ RejectKeys(i)

Next ==
    /\ \/ Program \/ Parent
       \/ \E i \in DOMAIN groups : SetGroup(i) \/ Gperf(i) \/ ChildExits(i)
    /\ UNCHANGED use

(* The parent keeps running, and a forked perl is scheduled at some time;   *)
(* nothing is assumed of gperf.                                             *)
Fairness ==
    /\ WF_vars(Parent /\ UNCHANGED use)
    /\ WF_vars((\E i \in DOMAIN groups : SetGroup(i)) /\ UNCHANGED use)

Spec == Init /\ [][Next]_vars /\ Fairness

-----------------------------------------------------------------------------
Group == [object : DOMAIN objects, keys : Dicts \cup {Nothing},
          child : {"none", "forked", "grouped", "zombie", "gone", "killed"},
          gperf : {"none", "killed"} \cup Running \cup Ended]

(* The types of the state; no call sleeps longer than -max-time (Gperf.pm:142-147). *)
TypeOK ==
    /\ use \in Uses
    /\ keyfile \in Dicts \cup {Nothing}
    /\ output \in Dicts \cup {Nothing, Partial}
    /\ objects \in Seq([dict : Dicts, tmp : BOOLEAN, timed : BOOLEAN])
    /\ groups \in Seq(Group)
    /\ pc \in {"idle", "sleep", "reap", "kill", "system", "return"}
    /\ pc # "idle" => call > 0
    /\ secs \in 0..MaxTime
    /\ status \in {-1, 0, 1}

(* Process i may still open or write the output file. *)
MayWrite(i) ==
    \/ groups[i].gperf \in Running
    \/ groups[i].gperf = "none" /\ groups[i].child \in {"forked", "grouped", "none"}

(* Once save_c has returned, nothing it started writes the output file any  *)
(* more: the timeout kills "the group", shell and gperf included            *)
(* (Gperf.pm:150-153), so that a later call has the file for itself; unless *)
(* the kill comes before a child's setpgrp.                                 *)
NoStrayWriter ==
    PromptChild => \A i \in DOMAIN groups : MayWrite(i) => i = call /\ pc # "idle"

(* A signal is sent only after -max-time seconds, and only while the pid    *)
(* still belongs to the forked perl, that is before it is reaped: a reaped  *)
(* child's pid may be another process's (Gperf.pm:144-153).                 *)
KillIsOwn ==
    pc = "kill" => secs = MaxTime /\ group.child \notin {"gone", "none"}

(* When gperf was not stopped and did not reject the keys, save_c returns   *)
(* with the output generated from the dictionary of its object              *)
(* (Gperf.pm:106-108), the one perfecthash looks keys up in.                *)
GeneratesTable ==
    pc = "return" /\ group.gperf \in {"done", "nokeys"} => output = Object(call).dict

(* GeneratesTable holds when each object is saved once, before the next one *)
(* is made, and no child of an earlier call is late (Gperf.pm:61-104).      *)
GeneratesFreshTable == SaveFresh /\ PromptChild => GeneratesTable

(* Without a time limit the returned code is to be believed: 0 means that   *)
(* the output is the table of this object, and only then is the key file    *)
(* removed (Gperf.pm:161-166), under the same two conditions.               *)
TrustErrcode ==
    SaveFresh /\ PromptChild /\ pc = "return" /\ status = 0 /\ ~Object(call).timed =>
        output = Object(call).dict

(* What the program is done with stays done: the gperf of a child that was  *)
(* reaped or killed does not write, so that only a child which the kill has *)
(* missed, because it had no group yet, can write later (Gperf.pm:148-158). *)
ReapedOrKilledIsQuiet ==
    \A i \in DOMAIN groups : groups[i].child \in {"gone", "killed"} => ~MayWrite(i)

(* Every call of save_c with a time limit returns, even when gperf never    *)
(* ends: "We need to time out after 60 seconds" (Gperf.pm:20).              *)
SaveReturns == pc \in {"sleep", "reap", "kill"} ~> pc = "idle"
=============================================================================
