---------------------------- MODULE Gperf_proofs ----------------------------
(***************************************************************************)
(* Proofs about Gperf for every time limit, every set of dictionaries and   *)
(* any number of objects and calls: type correctness, that a signal only    *)
(* reaches the process it is meant for, that a child which was reaped or    *)
(* killed stays quiet, and, when a forked perl has its group by the first   *)
(* second, that no call leaves a writer behind and that the output is the   *)
(* table of the object saved.                                               *)
(***************************************************************************)
EXTENDS Gperf, SequenceTheorems, TLAPS

USE GperfAssumption

(* What is known of the processes of call i. *)
ProcessOK(i) ==
    /\ groups[i].child = "forked" => groups[i].gperf = "none"
    /\ groups[i].child \in {"zombie", "gone"} => groups[i].gperf \in Ended
    /\ groups[i].child = "killed" => groups[i].gperf \in Ended \cup {"killed"}

(* What the program knows of its current call at each place of save_c. *)
CallOK ==
    /\ pc = "sleep" => secs < MaxTime /\ group.child \notin {"none", "killed", "gone"}
    /\ pc = "reap" => /\ group.child \notin {"none", "killed"}
                      /\ group.child = "gone" \/ secs = MaxTime
    /\ pc = "kill" => /\ group.child \notin {"none", "killed", "gone"}
                      /\ secs = MaxTime
    /\ pc = "system" => group.child = "none"

GroupInv == TypeOK /\ CallOK /\ \A i \in DOMAIN groups : ProcessOK(i)

(* A forked perl that is in its group by the first poll, and no process     *)
(* that may write once the outcome of the call is known.                    *)
QuietInv ==
    /\ pc \in {"reap", "kill"} => group.child # "forked"
    /\ \A i \in DOMAIN groups : MayWrite(i) => i = call /\ pc \notin {"idle", "return"}

-----------------------------------------------------------------------------
\* Changing the entry of one call keeps the type of groups and the other entries.
LEMMA UpdateGroup ==
    ASSUME groups \in Seq(Group), NEW i \in DOMAIN groups, NEW g \in Group,
           groups' = [groups EXCEPT ![i] = g]
    PROVE  /\ groups' \in Seq(Group)
           /\ DOMAIN groups' = DOMAIN groups
           /\ Len(groups') = Len(groups)
           /\ groups'[i] = g
           /\ \A j \in DOMAIN groups : j # i => groups'[j] = groups[j]
<1>1. i \in 1 .. Len(groups) /\ DOMAIN groups = 1 .. Len(groups)
  OBVIOUS
<1>2. groups' \in Seq(Group)
  BY <1>1, ExceptSeq
<1>3. /\ Len(groups') = Len(groups)
      /\ \A j \in 1 .. Len(groups) : groups'[j] = IF j = i THEN g ELSE groups[j]
  BY <1>1, ExceptSeq
<1>4. DOMAIN groups' = 1 .. Len(groups')
  BY <1>2
<1> QED
  BY <1>1, <1>2, <1>3, <1>4

LEMMA InitInv == Init => GroupInv /\ QuietInv
<1> SUFFICES ASSUME Init PROVE GroupInv /\ QuietInv
  OBVIOUS
<1>1. groups = <<>> /\ DOMAIN groups = {} /\ groups \in Seq(Group)
  BY DEF Init
<1>2. objects \in Seq([dict : Dicts, tmp : BOOLEAN, timed : BOOLEAN])
  BY DEF Init
<1>3. TypeOK
  BY <1>1, <1>2 DEF Init, TypeOK
<1> QED
  BY <1>1, <1>3 DEF Init, GroupInv, CallOK, QuietInv

-----------------------------------------------------------------------------
\* The new entry of call i, and where the program is then: enough for both invariants.
LEMMA OneGroup ==
    ASSUME GroupInv, use' = use, NEW i \in DOMAIN groups, NEW g \in Group,
           groups' = [groups EXCEPT ![i] = g],
           objects' = objects,
           keyfile' \in Dicts \cup {Nothing}, output' \in Dicts \cup {Nothing, Partial},
           pc' \in {"idle", "sleep", "reap", "kill", "system", "return"},
           pc' # "idle" => pc # "idle",
           secs' \in 0 .. MaxTime, status' \in {-1, 0, 1},
           g.child = "forked" => g.gperf = "none",
           g.child \in {"zombie", "gone"} => g.gperf \in Ended,
           g.child = "killed" => g.gperf \in Ended \cup {"killed"}
    PROVE  TypeOK' /\ (\A j \in DOMAIN groups' : ProcessOK(j)') /\ call' = call
<1>1. groups \in Seq(Group)
  BY DEF GroupInv, TypeOK
<1>2. /\ groups' \in Seq(Group)
      /\ DOMAIN groups' = DOMAIN groups
      /\ Len(groups') = Len(groups)
      /\ groups'[i] = g
      /\ \A j \in DOMAIN groups : j # i => groups'[j] = groups[j]
  BY <1>1, UpdateGroup
<1>3. Group' = Group
  BY DEF Group
<1>4. TypeOK'
  BY <1>2, <1>3 DEF GroupInv, TypeOK, call
<1>5. ASSUME NEW j \in DOMAIN groups' PROVE ProcessOK(j)'
  BY <1>2, <1>5 DEF GroupInv, ProcessOK
<1> QED
  BY <1>2, <1>4, <1>5 DEF call

\* The entry of the current call, when there is one.
LEMMA CurrentGroup ==
    ASSUME GroupInv, pc # "idle"
    PROVE  call \in DOMAIN groups /\ group \in Group /\ ProcessOK(call)
<1>1. groups \in Seq(Group) /\ call \in Nat \ {0} /\ call = Len(groups)
  BY DEF GroupInv, TypeOK, call
<1>2. call \in DOMAIN groups
  BY <1>1
<1> QED
  BY <1>1, <1>2 DEF group, GroupInv

\* new changes no process and leaves the types of the calls as they are.
LEMMA NewKeeps ==
    ASSUME GroupInv, use' = use, NEW d \in Dicts, NEW tmp \in BOOLEAN, NEW timed \in BOOLEAN,
           New(d, tmp, timed)
    PROVE  GroupInv' /\ (QuietInv => QuietInv')
<1>1. objects \in Seq([dict : Dicts, tmp : BOOLEAN, timed : BOOLEAN]) /\ groups \in Seq(Group)
  BY DEF GroupInv, TypeOK
<1>2. /\ objects' \in Seq([dict : Dicts, tmp : BOOLEAN, timed : BOOLEAN])
      /\ DOMAIN objects \subseteq DOMAIN objects'
  BY <1>1 DEF New
<1>3. Group \subseteq Group'
  BY <1>2 DEF Group
<1>4. groups' = groups /\ groups' \in Seq(Group')
  BY <1>1, <1>3 DEF New
<1>5. TypeOK'
  BY <1>2, <1>4 DEF GroupInv, TypeOK, New, call
<1>6. CallOK' /\ \A i \in DOMAIN groups' : ProcessOK(i)'
  BY <1>4 DEF GroupInv, CallOK, ProcessOK, New, call, group
<1>7. QuietInv => QuietInv'
  BY <1>4 DEF QuietInv, MayWrite, New, call, group
<1> QED
  BY <1>5, <1>6, <1>7 DEF GroupInv

\* save_c adds the entry of a new call.
LEMMA SaveCKeeps ==
    ASSUME GroupInv, use' = use, NEW o \in DOMAIN objects, SaveC(o)
    PROVE  GroupInv' /\ (QuietInv => QuietInv')
<1> DEFINE g == [object |-> o, gperf |-> "none", keys |-> Nothing,
                 child |-> IF objects[o].timed THEN "forked" ELSE "none"]
<1>1. g \in Group
  BY DEF Group
<1>2. groups \in Seq(Group) /\ groups' = Append(groups, g)
  BY DEF GroupInv, TypeOK, SaveC
<1>3. /\ groups' \in Seq(Group)
      /\ Len(groups') = Len(groups) + 1
      /\ \A i \in 1 .. Len(groups) : groups'[i] = groups[i]
      /\ groups'[Len(groups) + 1] = g
  BY <1>1, <1>2, AppendProperties
<1> HIDE DEF g
<1>4. /\ DOMAIN groups = 1 .. Len(groups)
      /\ DOMAIN groups' = 1 .. Len(groups) + 1
      /\ Len(groups) \in Nat
  BY <1>2, <1>3
<1>5. Group' = Group
  BY DEF Group, SaveC
<1>6. TypeOK'
  BY <1>3, <1>4, <1>5 DEF GroupInv, TypeOK, SaveC, call
<1>7. group' = g
  BY <1>3 DEF group, call
<1>8. g.gperf = "none" /\ g.child = IF objects[o].timed THEN "forked" ELSE "none"
  BY DEF g
<1>9. CallOK'
  BY <1>7, <1>8 DEF CallOK, SaveC
<1>10. ASSUME NEW i \in DOMAIN groups' PROVE ProcessOK(i)'
  <2>1. CASE i = Len(groups) + 1
    BY <2>1, <1>3, <1>8 DEF ProcessOK
  <2>2. CASE i # Len(groups) + 1
    <3>1. i \in DOMAIN groups /\ groups'[i] = groups[i]
      BY <2>2, <1>3, <1>4
    <3> QED
      BY <3>1 DEF GroupInv, ProcessOK
  <2> QED
    BY <2>1, <2>2
<1>11. ASSUME QuietInv PROVE QuietInv'
  <2>1. pc = "idle" /\ pc' \in {"sleep", "system"} /\ call' = Len(groups) + 1
    BY <1>3 DEF SaveC, call
  <2>2. ASSUME NEW i \in DOMAIN groups', i # Len(groups) + 1 PROVE ~MayWrite(i)'
    <3>1. i \in DOMAIN groups /\ groups'[i] = groups[i]
      BY <2>2, <1>3, <1>4
    <3> QED
      BY <3>1, <2>1, <1>11 DEF QuietInv, MayWrite
  <2> QED
    BY <2>1, <2>2 DEF QuietInv
<1> QED
  BY <1>6, <1>9, <1>10, <1>11 DEF GroupInv

\* An entry that changes keeps the quiet part when it may not write more than before.
LEMMA OneGroupQuiet ==
    ASSUME GroupInv, QuietInv, NEW i \in DOMAIN groups, NEW g \in Group,
           groups' = [groups EXCEPT ![i] = g],
           pc' \in {"idle", "return"} => pc \in {"idle", "return"} \/ i = call,
           (\/ g.gperf \in Running
            \/ g.gperf = "none" /\ g.child \in {"forked", "grouped", "none"})
               => i = call /\ pc' \notin {"idle", "return"},
           pc' \in {"reap", "kill"} /\ i = call => g.child # "forked",
           pc' \in {"reap", "kill"} /\ i # call => pc \in {"reap", "kill"}
    PROVE  QuietInv'
<1>1. groups \in Seq(Group)
  BY DEF GroupInv, TypeOK
<1>2. /\ DOMAIN groups' = DOMAIN groups
      /\ Len(groups') = Len(groups)
      /\ groups'[i] = g
      /\ \A j \in DOMAIN groups : j # i => groups'[j] = groups[j]
  BY <1>1, UpdateGroup
<1>3. call' = call
  BY <1>2 DEF call
<1>4. ASSUME NEW j \in DOMAIN groups', MayWrite(j)'
      PROVE  j = call' /\ pc' \notin {"idle", "return"}
  <2>1. CASE j = i
    BY <2>1, <1>2, <1>3, <1>4 DEF MayWrite
  <2>2. CASE j # i
    <3>1. groups'[j] = groups[j] /\ j \in DOMAIN groups
      BY <2>2, <1>2
    <3>2. MayWrite(j)
      BY <3>1, <1>4 DEF MayWrite
    <3>3. j = call /\ pc \notin {"idle", "return"}
      BY <3>1, <3>2 DEF QuietInv
    <3> QED
      BY <3>3, <2>2, <1>3
  <2> QED
    BY <2>1, <2>2
<1>5. ASSUME pc' \in {"reap", "kill"} PROVE group'.child # "forked"
  <2>1. CASE i = call
    BY <2>1, <1>2, <1>3, <1>5 DEF group, call
  <2>2. CASE i # call
    <3>1. call \in DOMAIN groups
      BY <2>2, <1>5, CurrentGroup
    <3>2. group' = group
      BY <3>1, <2>2, <1>2, <1>3 DEF group, call
    <3> QED
      BY <3>2, <2>2, <1>5 DEF QuietInv
  <2> QED
    BY <2>1, <2>2
<1> QED
  BY <1>4, <1>5 DEF QuietInv

\* The current entry after a step that changes entry i.
LEMMA GroupAfter ==
    ASSUME GroupInv, NEW i \in DOMAIN groups, NEW g \in Group,
           groups' = [groups EXCEPT ![i] = g], pc # "idle"
    PROVE  group' = IF i = call THEN g ELSE group
<1>1. groups \in Seq(Group) /\ call \in DOMAIN groups
  BY CurrentGroup DEF GroupInv, TypeOK
<1> QED
  BY <1>1, UpdateGroup DEF group, call

-----------------------------------------------------------------------------
\* The polling loop and what follows it.

\* waitpid reaps the forked perl, which has exited: gperf has ended.
LEMMA Reaping ==
    ASSUME GroupInv, use' = use, pc # "idle", group.child = "zombie",
           groups' = [groups EXCEPT ![call].child = "gone"],
           objects' = objects, keyfile' = keyfile, output' = output,
           pc' \in {"reap", "return"}, secs' \in 0 .. MaxTime, status' = 0
    PROVE  GroupInv' /\ (QuietInv => QuietInv')
<1> DEFINE g == [group EXCEPT !.child = "gone"]
<1>1. call \in DOMAIN groups /\ group \in Group /\ ProcessOK(call)
  BY CurrentGroup
<1>2. g \in Group /\ g.child = "gone" /\ g.gperf \in Ended
  BY <1>1 DEF Group, ProcessOK, group
<1>3. groups' = [groups EXCEPT ![call] = g]
  BY DEF group
<1> HIDE DEF g
<1>4. keyfile \in Dicts \cup {Nothing} /\ output \in Dicts \cup {Nothing, Partial}
  BY DEF GroupInv, TypeOK
<1>5. TypeOK' /\ (\A j \in DOMAIN groups' : ProcessOK(j)') /\ call' = call
  BY <1>1, <1>2, <1>3, <1>4, OneGroup
<1>6. group' = g
  BY <1>1, <1>2, <1>3, GroupAfter
<1>7. CallOK'
  BY <1>2, <1>6 DEF CallOK
<1>8. QuietInv => QuietInv'
  <2>1. g.gperf \notin Running /\ g.gperf # "none"
    BY <1>2 DEF Running, Ended
  <2> QED
    BY <2>1, <1>1, <1>2, <1>3, OneGroupQuiet
<1> QED
  BY <1>5, <1>7, <1>8 DEF GroupInv

LEMMA PollKeeps ==
    ASSUME GroupInv, use' = use, Poll
    PROVE  GroupInv' /\ (PromptChild /\ QuietInv => QuietInv')
<1>1. /\ pc = "sleep" /\ secs < MaxTime /\ group.child \notin {"none", "killed", "gone"}
      /\ secs \in 0 .. MaxTime
  BY DEF Poll, GroupInv, CallOK, TypeOK
<1>2. secs' \in 0 .. MaxTime /\ secs' = secs + 1
  BY <1>1 DEF Poll
<1>3. CASE group.child = "zombie"
  BY <1>1, <1>2, <1>3, Reaping DEF Poll
<1>4. CASE group.child # "zombie"
  <2>1. /\ groups' = groups /\ status' = -1
        /\ pc' = IF secs' >= MaxTime THEN "reap" ELSE "sleep"
        /\ UNCHANGED <<keyfile, output, objects>>
    BY <1>4 DEF Poll
  <2>2. TypeOK'
    BY <2>1, <1>1, <1>2 DEF GroupInv, TypeOK, call, Group
  <2>3. group' = group /\ call' = call
    BY <2>1 DEF group, call
  <2>4. CallOK'
    BY <2>1, <2>3, <1>1, <1>2 DEF CallOK
  <2>5. \A j \in DOMAIN groups' : ProcessOK(j)'
    BY <2>1 DEF GroupInv, ProcessOK
  <2>6. PromptChild /\ QuietInv => QuietInv'
    BY <2>1, <2>3, <1>1 DEF QuietInv, MayWrite, Poll
  <2> QED
    BY <2>2, <2>4, <2>5, <2>6 DEF GroupInv
<1> QED
  BY <1>3, <1>4

LEMMA ReapKeeps ==
    ASSUME GroupInv, use' = use, Reap
    PROVE  GroupInv' /\ (QuietInv => QuietInv')
<1>1. /\ pc = "reap" /\ group.child \notin {"none", "killed"}
      /\ group.child = "gone" \/ secs = MaxTime
      /\ secs \in 0 .. MaxTime
  BY DEF Reap, GroupInv, CallOK, TypeOK
<1>2. CASE group.child = "zombie"
  BY <1>1, <1>2, Reaping DEF Reap
<1>3. CASE group.child # "zombie"
  <2>1. /\ groups' = groups /\ status' = -1
        /\ pc' = IF group.child = "gone" THEN "return" ELSE "kill"
        /\ UNCHANGED <<keyfile, output, objects, secs>>
    BY <1>3 DEF Reap
  <2>2. TypeOK'
    BY <2>1, <1>1 DEF GroupInv, TypeOK, call, Group
  <2>3. group' = group /\ call' = call
    BY <2>1 DEF group, call
  <2>4. CallOK'
    BY <2>1, <2>3, <1>1 DEF CallOK
  <2>5. \A j \in DOMAIN groups' : ProcessOK(j)'
    BY <2>1 DEF GroupInv, ProcessOK
  <2>6. ASSUME QuietInv PROVE QuietInv'
    <3>1. group.child = "gone" => ~MayWrite(call)
      BY CurrentGroup, <1>1 DEF ProcessOK, MayWrite, group, Running, Ended
    <3> QED
      BY <2>1, <2>3, <2>6, <1>1, <3>1 DEF QuietInv, MayWrite
  <2> QED
    BY <2>2, <2>4, <2>5, <2>6 DEF GroupInv
<1> QED
  BY <1>2, <1>3

LEMMA KillKeeps ==
    ASSUME GroupInv, use' = use, Kill
    PROVE  GroupInv' /\ (QuietInv => QuietInv')
<1>1. /\ pc = "kill" /\ pc' = "return" /\ group.child \notin {"none", "killed", "gone"}
      /\ UNCHANGED <<keyfile, output, objects, secs, status>>
  BY DEF Kill, GroupInv, CallOK
<1>2. call \in DOMAIN groups /\ group \in Group /\ ProcessOK(call)
  BY <1>1, CurrentGroup
<1>3. CASE group.child = "grouped"
  <2> DEFINE g == [group EXCEPT !.child = "killed",
                                !.gperf = IF @ \in Ended THEN @ ELSE "killed"]
  <2>1. g \in Group /\ g.child = "killed" /\ g.gperf \in Ended \cup {"killed"}
    BY <1>2 DEF Group
  <2>2. groups' = [groups EXCEPT ![call] = g]
    BY <1>3 DEF Kill, group
  <2> HIDE DEF g
  <2>3. TypeOK' /\ (\A j \in DOMAIN groups' : ProcessOK(j)') /\ call' = call
    BY <1>1, <1>2, <2>1, <2>2, OneGroup DEF GroupInv, TypeOK
  <2>4. CallOK'
    BY <1>1 DEF CallOK
  <2>5. g.gperf \notin Running /\ g.gperf # "none"
    BY <2>1 DEF Running, Ended
  <2>6. QuietInv => QuietInv'
    BY <1>1, <1>2, <2>1, <2>2, <2>5, OneGroupQuiet
  <2> QED
    BY <2>3, <2>4, <2>6 DEF GroupInv
<1>4. CASE group.child # "grouped"
  <2>1. groups' = groups
    BY <1>4 DEF Kill
  <2>2. TypeOK'
    BY <1>1, <2>1 DEF GroupInv, TypeOK, call, Group
  <2>3. group' = group /\ call' = call
    BY <2>1 DEF group, call
  <2>4. CallOK' /\ \A j \in DOMAIN groups' : ProcessOK(j)'
    BY <1>1, <2>1 DEF CallOK, GroupInv, ProcessOK
  <2>5. ASSUME QuietInv PROVE QuietInv'
    <3>1. group.child = "zombie"
      BY <1>1, <1>2, <1>4, <2>5 DEF QuietInv, Group
    <3>2. ~MayWrite(call)
      BY <3>1, <1>2 DEF ProcessOK, MayWrite, group, Running, Ended
    <3> QED
      BY <2>1, <2>3, <2>5, <1>1, <3>2 DEF QuietInv, MayWrite
  <2> QED
    BY <2>2, <2>4, <2>5 DEF GroupInv
<1> QED
  BY <1>3, <1>4

\* Without a time limit the call waits until gperf has ended.
LEMMA SystemReturnsKeeps ==
    ASSUME GroupInv, use' = use, SystemReturns
    PROVE  GroupInv' /\ (QuietInv => QuietInv')
<1>1. /\ pc = "system" /\ pc' = "return" /\ group.gperf \in Ended
      /\ status' \in {0, 1} /\ UNCHANGED <<keyfile, output, objects, groups, secs>>
  BY DEF SystemReturns
<1>2. TypeOK'
  BY <1>1 DEF GroupInv, TypeOK, call, Group
<1>3. CallOK' /\ \A j \in DOMAIN groups' : ProcessOK(j)'
  BY <1>1 DEF CallOK, GroupInv, ProcessOK
<1>4. ~MayWrite(call)
  BY <1>1 DEF MayWrite, group, Running, Ended
<1>5. QuietInv => QuietInv'
  BY <1>1, <1>4 DEF QuietInv, MayWrite, call, group
<1> QED
  BY <1>2, <1>3, <1>5 DEF GroupInv

LEMMA ReturnKeeps ==
    ASSUME GroupInv, use' = use, Return
    PROVE  GroupInv' /\ (QuietInv => QuietInv')
<1>1. /\ pc = "return" /\ pc' = "idle"
      /\ UNCHANGED <<output, objects, groups, secs, status>>
  BY DEF Return
<1>2. keyfile' \in Dicts \cup {Nothing}
  BY DEF Return, GroupInv, TypeOK
<1>3. TypeOK'
  BY <1>1, <1>2 DEF GroupInv, TypeOK, call, Group
<1>4. CallOK' /\ \A j \in DOMAIN groups' : ProcessOK(j)'
  BY <1>1 DEF CallOK, GroupInv, ProcessOK
<1>5. QuietInv => QuietInv'
  BY <1>1 DEF QuietInv, MayWrite, call, group
<1> QED
  BY <1>3, <1>4, <1>5 DEF GroupInv

-----------------------------------------------------------------------------
\* The forked perl and gperf: a step of theirs changes the entry of one call,
\* and the program stays where it is.
LEMMA ProcessStep ==
    ASSUME GroupInv, use' = use, NEW i \in DOMAIN groups, NEW g \in Group,
           groups' = [groups EXCEPT ![i] = g],
           UNCHANGED <<keyfile, objects, pc, secs, status>>,
           output' \in Dicts \cup {Nothing, Partial},
           g.child \in {groups[i].child, "grouped", "zombie"},
           groups[i].child \in {"forked", "grouped"} \/ g.child = groups[i].child,
           g.child = "forked" => g.gperf = "none",
           g.child \in {"zombie", "gone"} => g.gperf \in Ended,
           g.child = "killed" => g.gperf \in Ended \cup {"killed"},
           (\/ g.gperf \in Running
            \/ g.gperf = "none" /\ g.child \in {"forked", "grouped", "none"})
               => MayWrite(i)
    PROVE  GroupInv' /\ (QuietInv => QuietInv')
<1>1. /\ keyfile \in Dicts \cup {Nothing} /\ secs \in 0 .. MaxTime
      /\ pc \in {"idle", "sleep", "reap", "kill", "system", "return"}
      /\ status \in {-1, 0, 1}
  BY DEF GroupInv, TypeOK
<1>2. TypeOK' /\ (\A j \in DOMAIN groups' : ProcessOK(j)') /\ call' = call
  BY <1>1, OneGroup
<1>3. pc # "idle" => group' = IF i = call THEN g ELSE group
  BY GroupAfter
<1>4. CallOK'
  <2>1. CASE i # call
    BY <2>1, <1>3 DEF GroupInv, CallOK
  <2>2. CASE i = call
    <3>1. pc # "idle" => group' = g
      BY <2>2, <1>3
    <3>2. group.child = groups[i].child
      BY <2>2 DEF group
    <3> QED
      BY <3>1, <3>2 DEF GroupInv, CallOK
  <2> QED
    BY <2>1, <2>2
<1>5. ASSUME QuietInv PROVE QuietInv'
  <2>1. MayWrite(i) => i = call /\ pc' \notin {"idle", "return"}
    BY <1>5 DEF QuietInv
  <2>2. pc' \in {"reap", "kill"} /\ i = call => g.child # "forked"
    BY <1>5 DEF QuietInv, group
  <2> QED
    BY <2>1, <2>2, <1>5, OneGroupQuiet
<1> QED
  BY <1>2, <1>4, <1>5 DEF GroupInv

LEMMA ChildKeeps ==
    ASSUME GroupInv, use' = use, NEW i \in DOMAIN groups,
           SetGroup(i) \/ Gperf(i) \/ ChildExits(i)
    PROVE  GroupInv' /\ (QuietInv => QuietInv')
<1>1. groups[i] \in Group /\ ProcessOK(i) /\ output \in Dicts \cup {Nothing, Partial}
  BY DEF GroupInv, TypeOK
<1>2. CASE SetGroup(i)
  <2> DEFINE g == [groups[i] EXCEPT !.child = "grouped"]
  <2>1. g \in Group /\ g.child = "grouped" /\ g.gperf = "none" /\ MayWrite(i)
    BY <1>1, <1>2 DEF SetGroup, Group, ProcessOK, MayWrite
  <2>2. groups' = [groups EXCEPT ![i] = g]
    BY <1>2 DEF SetGroup
  <2> HIDE DEF g
  <2> QED
    BY <1>1, <1>2, <2>1, <2>2, ProcessStep DEF SetGroup
<1>3. CASE StartGperf(i)
  <2> DEFINE g == [groups[i] EXCEPT !.gperf = "opened"]
  <2>1. g \in Group /\ g.child = groups[i].child /\ g.child \in {"grouped", "none"} /\ MayWrite(i)
    BY <1>1, <1>3 DEF StartGperf, Group, Running, MayWrite
  <2>2. groups' = [groups EXCEPT ![i] = g]
    BY <1>3 DEF StartGperf
  <2> HIDE DEF g
  <2> QED
    BY <1>1, <1>3, <2>1, <2>2, ProcessStep DEF StartGperf
<1>4. CASE LoadKeys(i)
  <2> DEFINE g == [groups[i] EXCEPT !.keys = Keys(i),
                         !.gperf = IF Keys(i) = Nothing THEN "nokeys" ELSE "loaded"]
  <2>1. Object(i) \in [dict : Dicts, tmp : BOOLEAN, timed : BOOLEAN]
    <3>1. objects \in Seq([dict : Dicts, tmp : BOOLEAN, timed : BOOLEAN])
      BY DEF GroupInv, TypeOK
    <3>2. groups[i].object \in DOMAIN objects
      BY <1>1 DEF Group
    <3>3. DOMAIN objects = 1 .. Len(objects)
      BY <3>1
    <3> QED
      BY <3>1, <3>2, <3>3, ElementOfSeq DEF Object
  <2>2. Keys(i) \in Dicts \cup {Nothing}
    BY <2>1 DEF Keys, GroupInv, TypeOK
  <2>3. g \in Group /\ g.child = groups[i].child
    BY <1>1, <2>2 DEF Group, Running, Ended
  <2>4. g.child \notin {"forked", "zombie", "gone", "killed"} /\ MayWrite(i)
    BY <1>1, <1>4 DEF LoadKeys, ProcessOK, MayWrite, Running, Ended
  <2>5. groups' = [groups EXCEPT ![i] = g]
    BY <1>4 DEF LoadKeys
  <2> HIDE DEF g
  <2> QED
    BY <1>1, <1>4, <2>3, <2>4, <2>5, ProcessStep DEF LoadKeys
<1>5. CASE WriteTable(i)
  <2> DEFINE g == [groups[i] EXCEPT !.gperf = "done"]
  <2>1. g \in Group /\ g.child = groups[i].child /\ g.gperf \in Ended /\ g.gperf = "done"
    BY <1>1 DEF Group, Ended
  <2>2. g.child # "forked" /\ g.gperf \notin Running
    BY <1>1, <1>5, <2>1 DEF WriteTable, ProcessOK, Running
  <2>3. groups' = [groups EXCEPT ![i] = g] /\ output' \in Dicts \cup {Nothing, Partial}
    BY <1>1, <1>5 DEF WriteTable, Group
  <2> HIDE DEF g
  <2> QED
    BY <1>1, <1>5, <2>1, <2>2, <2>3, ProcessStep DEF WriteTable
<1>6. CASE RejectKeys(i)
  <2> DEFINE g == [groups[i] EXCEPT !.gperf = "rejected"]
  <2>1. g \in Group /\ g.child = groups[i].child /\ g.gperf \in Ended /\ g.gperf = "rejected"
    BY <1>1 DEF Group, Ended
  <2>2. g.child # "forked" /\ g.gperf \notin Running
    BY <1>1, <1>6, <2>1 DEF RejectKeys, ProcessOK, Running
  <2>3. groups' = [groups EXCEPT ![i] = g]
    BY <1>6 DEF RejectKeys
  <2> HIDE DEF g
  <2> QED
    BY <1>1, <1>6, <2>1, <2>2, <2>3, ProcessStep DEF RejectKeys
<1>7. CASE ChildExits(i)
  <2> DEFINE g == [groups[i] EXCEPT !.child = "zombie"]
  <2>1. g \in Group /\ g.child = "zombie" /\ g.gperf \in Ended /\ g.gperf \notin Running
    BY <1>1, <1>7 DEF ChildExits, Group, Ended, Running
  <2>2. groups' = [groups EXCEPT ![i] = g] /\ groups[i].child = "grouped"
    BY <1>7 DEF ChildExits
  <2> HIDE DEF g
  <2> QED
    BY <1>1, <1>7, <2>1, <2>2, ProcessStep DEF ChildExits
<1> QED
  BY <1>2, <1>3, <1>4, <1>5, <1>6, <1>7 DEF Gperf

-----------------------------------------------------------------------------
LEMMA NextKeeps ==
    ASSUME GroupInv, [Next]_vars
    PROVE  GroupInv' /\ (PromptChild /\ QuietInv => QuietInv')
<1>1. CASE Next
  BY <1>1, NewKeeps, SaveCKeeps, PollKeeps, ReapKeeps, KillKeeps, SystemReturnsKeeps,
     ReturnKeeps, ChildKeeps DEF Next, Program, Parent
<1>2. CASE UNCHANGED vars
  <2>1. TypeOK'
    BY <1>2 DEF vars, GroupInv, TypeOK, call, Group
  <2> QED
    BY <1>2, <2>1 DEF vars, GroupInv, CallOK, ProcessOK, QuietInv, MayWrite, call, group
<1> QED
  BY <1>1, <1>2

LEMMA SpecGroupInv == Spec => []GroupInv
<1>1. Init => GroupInv
  BY InitInv
<1>2. GroupInv /\ [Next]_vars => GroupInv'
  BY NextKeeps
<1> QED
  BY <1>1, <1>2, PTL DEF Spec

\* The state of the program, its files and its processes keep their types, and
\* no call sleeps longer than -max-time (Gperf.pm:142-147), for every MaxTime.
THEOREM TypeCorrect == Spec => []TypeOK
<1>1. GroupInv => TypeOK
  BY DEF GroupInv
<1> QED
  BY <1>1, SpecGroupInv, PTL

\* The signal of the timeout is sent only when -max-time seconds are over and
\* while the pid is still the forked perl's (Gperf.pm:144-153).
THEOREM SignalIsOwn == Spec => []KillIsOwn
<1>1. GroupInv => KillIsOwn
  BY DEF GroupInv, CallOK, KillIsOwn
<1> QED
  BY <1>1, SpecGroupInv, PTL

\* The program and the machine stay what they are.
LEMMA UseStays ==
    ASSUME [Next]_vars
    PROVE  PromptChild' = PromptChild /\ SaveFresh' = SaveFresh
  BY DEF Next, vars, PromptChild, SaveFresh

\* If a forked perl has its process group before its parent's first second is
\* over, then no call of save_c that has returned leaves a process behind that
\* may write the output file (Gperf.pm:150-162), with or without a time limit.
THEOREM NobodyLeftWriting == Spec => []NoStrayWriter
<1> DEFINE Quiet == PromptChild => QuietInv
<1>1. Init => Quiet
  BY InitInv
<1>2. GroupInv /\ Quiet /\ [Next]_vars => Quiet'
  BY NextKeeps, UseStays
<1>3. Quiet => NoStrayWriter
  BY DEF QuietInv, NoStrayWriter
<1> QED
  BY <1>1, <1>2, <1>3, SpecGroupInv, PTL DEF Spec

\* What a child that was reaped or killed has started has ended, or was killed
\* with it: only a child without a group of its own escapes the kill
\* (Gperf.pm:148-158).
THEOREM ReapedOrKilledStaysQuiet == Spec => []ReapedOrKilledIsQuiet
<1>1. GroupInv => ReapedOrKilledIsQuiet
  BY DEF GroupInv, ProcessOK, ReapedOrKilledIsQuiet, MayWrite, Ended, Running
<1> QED
  BY <1>1, SpecGroupInv, PTL

-----------------------------------------------------------------------------
(* The key file is that of the object made last until its call returns, and *)
(* what gperf reads and writes in this call comes from it.                  *)
last == Len(objects)
LastObject == objects[last]
Fresh == \A i \in DOMAIN groups : groups[i].object # last

OwnKeysOK ==
    /\ last > 0 /\ LastObject.tmp /\ (pc # "idle" \/ Fresh) => keyfile = LastObject.dict
    /\ pc # "idle" =>
        /\ group.object = last
        /\ group.child = "none" <=> ~LastObject.timed
        /\ group.gperf # "nokeys"
        /\ group.gperf \in {"loaded", "done", "rejected"} => group.keys = LastObject.dict
        /\ group.gperf = "done" => output = LastObject.dict
        /\ pc = "return" /\ group.child = "none" /\ status = 0 => group.gperf = "done"

Owned == GroupInv /\ QuietInv /\ OwnKeysOK

\* A call uses an object of the program.
LEMMA LastObjectType ==
    ASSUME GroupInv
    PROVE  /\ last \in Nat
           /\ last > 0 => LastObject \in [dict : Dicts, tmp : BOOLEAN, timed : BOOLEAN]
<1>1. objects \in Seq([dict : Dicts, tmp : BOOLEAN, timed : BOOLEAN])
  BY DEF GroupInv, TypeOK
<1>2. last \in Nat /\ (last > 0 => last \in 1 .. Len(objects))
  BY <1>1 DEF last
<1> QED
  BY <1>1, <1>2, ElementOfSeq DEF LastObject

LEMMA NewOwns ==
    ASSUME Owned, NEW d \in Dicts, NEW tmp \in BOOLEAN, NEW timed \in BOOLEAN,
           New(d, tmp, timed)
    PROVE  OwnKeysOK'
<1> DEFINE o == [dict |-> d, tmp |-> tmp, timed |-> timed]
<1>1. objects \in Seq([dict : Dicts, tmp : BOOLEAN, timed : BOOLEAN])
  BY DEF Owned, GroupInv, TypeOK
<1>2. objects' = Append(objects, o) /\ o \in [dict : Dicts, tmp : BOOLEAN, timed : BOOLEAN]
  BY DEF New
<1>3. last' = Len(objects) + 1 /\ LastObject' = o
  BY <1>1, <1>2, AppendProperties DEF last, LastObject
<1>4. keyfile' = IF tmp THEN d ELSE keyfile
  BY DEF New
<1>5. pc' = "idle"
  BY DEF New
<1>6. LastObject'.tmp => keyfile' = LastObject'.dict
  BY <1>3, <1>4
<1> QED
  BY <1>5, <1>6 DEF OwnKeysOK

LEMMA SaveCOwns ==
    ASSUME SaveFresh, Owned, NEW o \in DOMAIN objects, SaveC(o)
    PROVE  OwnKeysOK'
<1> DEFINE g == [object |-> o, gperf |-> "none", keys |-> Nothing,
                 child |-> IF objects[o].timed THEN "forked" ELSE "none"]
<1>1. pc = "idle" /\ o = last /\ Fresh
  BY DEF SaveC, last, Fresh
<1>2. groups \in Seq(Group) /\ g \in Group /\ groups' = Append(groups, g)
  BY DEF Owned, GroupInv, TypeOK, SaveC, Group
<1>3. group' = g
  BY <1>2, AppendProperties DEF group, call
<1>4. objects' = objects /\ keyfile' = keyfile /\ last' = last /\ LastObject' = LastObject
  BY DEF SaveC, last, LastObject
<1>5. last \in Nat /\ last > 0
  <2>1. last \in Nat /\ objects \in Seq([dict : Dicts, tmp : BOOLEAN, timed : BOOLEAN])
    BY LastObjectType DEF Owned, GroupInv, TypeOK
  <2> QED
    BY <2>1, <1>1 DEF last
<1>6. LastObject.tmp => keyfile = LastObject.dict
  BY <1>1, <1>5 DEF Owned, OwnKeysOK
<1>7. /\ g.object = last /\ g.gperf = "none"
      /\ g.child = IF LastObject.timed THEN "forked" ELSE "none"
  BY <1>1 DEF LastObject
<1>8. pc' # "return"
  BY DEF SaveC
<1> HIDE DEF g
<1> QED
  BY <1>3, <1>4, <1>6, <1>7, <1>8 DEF OwnKeysOK

\* A step of the current call, which the program stays in.
LEMMA CallOwns ==
    ASSUME Owned, pc # "idle", pc' # "idle", UNCHANGED <<keyfile, objects>>,
           NEW g \in Group, groups' = [groups EXCEPT ![call] = g],
           g.object = group.object,
           g.child = "none" <=> group.child = "none",
           g.gperf # "nokeys",
           g.gperf \in {"loaded", "done", "rejected"} => g.keys = LastObject.dict,
           g.gperf = "done" => output' = LastObject.dict,
           pc' = "return" /\ g.child = "none" /\ status' = 0 => g.gperf = "done"
    PROVE  OwnKeysOK'
<1>1. GroupInv /\ call \in DOMAIN groups
  BY CurrentGroup DEF Owned
<1>2. group' = g
  BY <1>1, GroupAfter
<1>3. last' = last /\ LastObject' = LastObject
  BY DEF last, LastObject
<1>4. /\ last > 0 /\ LastObject.tmp => keyfile = LastObject.dict
      /\ group.object = last /\ (group.child = "none" <=> ~LastObject.timed)
  BY DEF Owned, OwnKeysOK
<1> QED
  BY <1>2, <1>3, <1>4 DEF OwnKeysOK
\* The parent's steps: none of them touches what gperf has read or written.
LEMMA ParentOwns ==
    ASSUME Owned, Poll \/ Reap \/ Kill \/ SystemReturns
    PROVE  OwnKeysOK'
<1>1. pc # "idle" /\ pc' # "idle" /\ UNCHANGED <<keyfile, output, objects>>
  BY DEF Poll, Reap, Kill, SystemReturns
<1>2. GroupInv /\ call \in DOMAIN groups /\ group \in Group /\ groups \in Seq(Group) /\ CallOK
  BY <1>1, CurrentGroup DEF Owned, GroupInv, TypeOK
<1>3. /\ group.gperf # "nokeys"
      /\ group.gperf \in {"loaded", "done", "rejected"} => group.keys = LastObject.dict
      /\ group.gperf = "done" => output = LastObject.dict
  BY <1>1 DEF Owned, OwnKeysOK
<1>4. CASE groups' = [groups EXCEPT ![call].child = "gone"] /\ group.child = "zombie"
  <2> DEFINE g == [group EXCEPT !.child = "gone"]
  <2>1. /\ g \in Group /\ g.object = group.object /\ g.child = "gone"
        /\ g.gperf = group.gperf /\ g.keys = group.keys
    BY <1>2 DEF Group
  <2>2. groups' = [groups EXCEPT ![call] = g]
    BY <1>4 DEF group
  <2> HIDE DEF g
  <2> QED
    BY <1>1, <1>3, <1>4, <2>1, <2>2, CallOwns
<1>5. CASE Kill /\ group.child = "grouped"
  <2> DEFINE g == [group EXCEPT !.child = "killed",
                                !.gperf = IF @ \in Ended THEN @ ELSE "killed"]
  <2>1. /\ g \in Group /\ g.object = group.object /\ g.child = "killed"
        /\ g.gperf \in {group.gperf, "killed"} /\ g.keys = group.keys
    BY <1>2 DEF Group
  <2>2. groups' = [groups EXCEPT ![call] = g]
    BY <1>5 DEF group, Kill
  <2> HIDE DEF g
  <2> QED
    BY <1>1, <1>3, <1>5, <2>1, <2>2, CallOwns
<1>6. CASE groups' = groups
  <2>1. groups' = [groups EXCEPT ![call] = group]
    BY <1>2, <1>6 DEF group
  <2>2. pc' = "return" /\ group.child = "none" /\ status' = 0 => group.gperf = "done"
    BY <1>2 DEF Poll, Reap, Kill, SystemReturns, CallOK
  <2> QED
    BY <1>1, <1>2, <1>3, <2>1, <2>2, CallOwns
<1> QED
  BY <1>4, <1>5, <1>6 DEF Poll, Reap, Kill, SystemReturns

\* The key file that Return may remove is not needed any more.
LEMMA ReturnOwns ==
    ASSUME Owned, Return
    PROVE  OwnKeysOK'
<1>1. pc = "return" /\ pc' = "idle" /\ UNCHANGED <<objects, groups>>
  BY DEF Return
<1>2. call \in DOMAIN groups /\ groups[call].object = last
  BY <1>1, CurrentGroup DEF Owned, OwnKeysOK, group
<1>3. ~Fresh'
  BY <1>1, <1>2 DEF Fresh, last
<1> QED
  BY <1>1, <1>3 DEF OwnKeysOK

\* The child of an earlier call only exits; a step of the current one reads and
\* writes what belongs to its object.
LEMMA ChildOwns ==
    ASSUME Owned, NEW i \in DOMAIN groups, SetGroup(i) \/ Gperf(i) \/ ChildExits(i)
    PROVE  OwnKeysOK'
<1>1. /\ GroupInv /\ groups \in Seq(Group) /\ groups[i] \in Group /\ ProcessOK(i)
      /\ UNCHANGED <<keyfile, objects, pc, secs, status>>
      /\ last' = last /\ LastObject' = LastObject
  BY DEF Owned, GroupInv, TypeOK, SetGroup, Gperf, StartGperf, LoadKeys, WriteTable,
         RejectKeys, ChildExits, last, LastObject
<1>2. CASE ChildExits(i) /\ (i # call \/ pc = "idle")
  <2> DEFINE g == [groups[i] EXCEPT !.child = "zombie"]
  <2>1. g \in Group /\ g.object = groups[i].object /\ groups' = [groups EXCEPT ![i] = g]
    BY <1>1, <1>2 DEF ChildExits, Group
  <2>2. output' = output
    BY <1>2 DEF ChildExits
  <2> HIDE DEF g
  <2>3. /\ DOMAIN groups' = DOMAIN groups /\ Len(groups') = Len(groups) /\ groups'[i] = g
        /\ \A j \in DOMAIN groups : j # i => groups'[j] = groups[j]
    BY <1>1, <2>1, UpdateGroup
  <2>4. Fresh' = Fresh
    BY <1>1, <2>1, <2>3 DEF Fresh
  <2>5. pc # "idle" => group' = group
    BY <1>1, <1>2, <2>3, CurrentGroup DEF group, call
  <2> QED
    BY <1>1, <2>2, <2>4, <2>5 DEF Owned, OwnKeysOK
<1>3. CASE ~(ChildExits(i) /\ (i # call \/ pc = "idle"))
  <2>1. i = call /\ pc # "idle"
    <3>1. CASE ChildExits(i)
      BY <1>3, <3>1
    <3>2. CASE SetGroup(i) \/ Gperf(i)
      <4>1. MayWrite(i)
        BY <3>2, <1>1 DEF SetGroup, Gperf, StartGperf, LoadKeys, WriteTable, RejectKeys,
                          ProcessOK, MayWrite, Running
      <4> QED
        BY <4>1 DEF Owned, QuietInv
    <3> QED
      BY <3>1, <3>2
  <2>2. /\ group = groups[i] /\ group.object = last
        /\ last > 0 /\ LastObject.tmp => keyfile = LastObject.dict
        /\ group.gperf # "nokeys"
        /\ group.gperf \in {"loaded", "done", "rejected"} => group.keys = LastObject.dict
        /\ group.gperf = "done" => output = LastObject.dict
        /\ pc = "return" /\ group.child = "none" /\ status = 0 => group.gperf = "done"
    BY <2>1 DEF Owned, OwnKeysOK, group
  <2>3. Object(i) = LastObject
    BY <2>2 DEF Object, LastObject
  <2>4. last > 0 /\ LastObject.dict \in Dicts
    <3>1. last \in DOMAIN objects /\ objects \in Seq([dict : Dicts, tmp : BOOLEAN, timed : BOOLEAN])
      BY <1>1, <2>2 DEF Group, GroupInv, TypeOK
    <3>2. last \in Nat /\ last > 0
      BY <3>1 DEF last
    <3> QED
      BY <3>2, <1>1, LastObjectType
  <2>5. Keys(i) = LastObject.dict /\ Keys(i) # Nothing
    BY <2>2, <2>3, <2>4 DEF Keys
  <2>6. PICK g \in Group :
          /\ groups' = [groups EXCEPT ![i] = g]
          /\ g.object = group.object /\ (g.child = "none" <=> group.child = "none")
          /\ \/ g.gperf = group.gperf /\ g.keys = group.keys /\ output' = output
             \/ g.gperf \in {"opened", "rejected"} /\ pc # "return"
                /\ (g.gperf = "rejected" => g.keys = LastObject.dict)
             \/ g.gperf = "loaded" /\ g.keys = LastObject.dict /\ pc # "return"
             \/ g.gperf = "done" /\ g.keys = LastObject.dict /\ output' = LastObject.dict
    <3>1. CASE SetGroup(i)
      <4> DEFINE g == [group EXCEPT !.child = "grouped"]
      <4>1. g \in Group /\ groups' = [groups EXCEPT ![i] = g] /\ g.gperf = group.gperf /\ g.keys = group.keys
        BY <3>1, <1>1, <2>2 DEF SetGroup, Group
      <4> QED
        BY <4>1, <3>1, <1>1, <2>2 DEF SetGroup, Group
    <3>2. CASE ChildExits(i)
      <4> DEFINE g == [group EXCEPT !.child = "zombie"]
      <4>1. g \in Group /\ groups' = [groups EXCEPT ![i] = g] /\ g.gperf = group.gperf /\ g.keys = group.keys
        BY <3>2, <1>1, <2>2 DEF ChildExits, Group
      <4> QED
        BY <4>1, <3>2, <1>1, <2>2 DEF ChildExits, Group
    <3>3. CASE StartGperf(i) \/ LoadKeys(i) \/ WriteTable(i) \/ RejectKeys(i)
      <4>0. pc # "return"
        <5>1. MayWrite(i)
          BY <3>3, <1>1 DEF StartGperf, LoadKeys, WriteTable, RejectKeys, MayWrite, Running
        <5> QED
          BY <5>1 DEF Owned, QuietInv
      <4>1. CASE StartGperf(i)
        <5> DEFINE g == [group EXCEPT !.gperf = "opened"]
        <5>1. g \in Group /\ groups' = [groups EXCEPT ![i] = g]
          BY <4>1, <1>1, <2>2 DEF StartGperf, Group, Running
        <5> QED
          BY <5>1, <4>0, <1>1, <2>2 DEF Group
      <4>2. CASE LoadKeys(i)
        <5> DEFINE g == [group EXCEPT !.keys = LastObject.dict, !.gperf = "loaded"]
        <5>1. g \in Group /\ groups' = [groups EXCEPT ![i] = g]
          BY <4>2, <1>1, <2>2, <2>4, <2>5 DEF LoadKeys, Group, Running
        <5> QED
          BY <5>1, <4>0, <1>1, <2>2 DEF Group
      <4>3. CASE WriteTable(i)
        <5> DEFINE g == [group EXCEPT !.gperf = "done"]
        <5>1. /\ g \in Group /\ groups' = [groups EXCEPT ![i] = g]
              /\ g.keys = LastObject.dict /\ output' = LastObject.dict
          BY <4>3, <1>1, <2>2 DEF WriteTable, Group, Ended
        <5> QED
          BY <5>1, <1>1, <2>2 DEF Group
      <4>4. CASE RejectKeys(i)
        <5> DEFINE g == [group EXCEPT !.gperf = "rejected"]
        <5>1. /\ g \in Group /\ groups' = [groups EXCEPT ![i] = g]
              /\ g.keys = LastObject.dict
          BY <4>4, <1>1, <2>2 DEF RejectKeys, Group, Ended
        <5> QED
          BY <5>1, <4>0, <1>1, <2>2 DEF Group
      <4> QED
        BY <3>3, <4>1, <4>2, <4>3, <4>4
    <3> QED
      BY <3>1, <3>2, <3>3 DEF Gperf
  <2> QED
    BY <1>1, <2>1, <2>2, <2>6, CallOwns
<1> QED
  BY <1>2, <1>3
LEMMA NextOwns ==
    ASSUME SaveFresh, PromptChild, Owned, [Next]_vars
    PROVE  Owned'
<1>1. GroupInv' /\ QuietInv'
  BY NextKeeps DEF Owned
<1>2. CASE Next
  <2>1. OwnKeysOK'
    BY <1>2, NewOwns, SaveCOwns, ParentOwns, ReturnOwns, ChildOwns
       DEF Next, Program, Parent
  <2> QED
    BY <2>1, <1>1 DEF Owned
<1>3. CASE UNCHANGED vars
  <2>1. OwnKeysOK'
    BY <1>3 DEF Owned, OwnKeysOK, vars, last, LastObject, Fresh, group, call
  <2> QED
    BY <2>1, <1>1 DEF Owned
<1> QED
  BY <1>2, <1>3

\* Owned is an invariant of the programs and machines that it is about.
OwnedInFreshUse == SaveFresh /\ PromptChild => Owned

LEMMA SpecOwned == Spec => []OwnedInFreshUse
<1>1. Init => OwnedInFreshUse
  <2> SUFFICES ASSUME Init PROVE Owned
    BY DEF OwnedInFreshUse
  <2>1. GroupInv /\ QuietInv
    BY InitInv
  <2>2. last = 0 /\ pc = "idle"
    BY DEF Init, last
  <2> QED
    BY <2>1, <2>2 DEF Owned, OwnKeysOK
<1>2. OwnedInFreshUse /\ [Next]_vars => OwnedInFreshUse'
  BY NextOwns, UseStays DEF OwnedInFreshUse
<1> QED
  BY <1>1, <1>2, PTL DEF Spec

\* If each object is saved once, before the next is made, and a forked perl has
\* its process group in its parent's first second, then a call whose gperf was
\* not stopped and did not reject the keys ends with the output made from the
\* dictionary of its own object (Gperf.pm:106-108).
THEOREM OutputIsOwn == Spec => []GeneratesFreshTable
<1>1. Owned => GeneratesTable
  BY DEF Owned, OwnKeysOK, GeneratesTable, group, Object, LastObject
<1>2. OwnedInFreshUse => GeneratesFreshTable
  BY <1>1 DEF OwnedInFreshUse, GeneratesFreshTable
<1> QED
  BY <1>2, SpecOwned, PTL

\* Under the same conditions an error code of 0 from a call without a time
\* limit can be believed (Gperf.pm:161-166).
THEOREM ErrcodeIsTrue == Spec => []TrustErrcode
<1>1. OwnedInFreshUse => TrustErrcode
  BY DEF OwnedInFreshUse, Owned, OwnKeysOK, TrustErrcode, group, Object, LastObject
<1> QED
  BY <1>1, SpecOwned, PTL
==============================================================================
