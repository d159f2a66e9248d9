-------------------------------- MODULE MPHF ---------------------------------
(***************************************************************************)
(* What cmph promises its callers: a function gives a number below its     *)
(* size to each key, no number to more than load keys, and, when it is     *)
(* minimal, there are as many numbers as keys.  All its copies - as built, *)
(* as loaded from a file, as packed - give the same answers, whatever the  *)
(* order in which they are made and asked.                                 *)
(***************************************************************************)
EXTENDS Naturals, FiniteSets

CONSTANTS
    Copies,    \* the copies of the function
    None       \* not asked yet

VARIABLES
    keys,      \* the keys that are answered
    nkeys,     \* how many keys there are
    load,      \* how many keys may have the same number
    minimal,   \* whether size is the number of keys
    size,      \* the size of the function
    answers    \* the number of each key, as told by each copy

Good(f) ==
    /\ DOMAIN f = keys
    /\ \A k \in keys : f[k] \in 0 .. size - 1
    /\ \A k \in keys : Cardinality({j \in keys : f[j] = f[k]}) <= load
    /\ minimal => size = nkeys

Init == answers = [c \in Copies |-> None]

\* A copy is asked for the number of every key.
Answer(c) ==
    /\ answers[c] = None /\ answers'[c] # None
    /\ Good(answers'[c])
    /\ \A d \in Copies : answers[d] # None => answers'[c] = answers[d]
    /\ answers' = [answers EXCEPT ![c] = answers'[c]]

Next == \E c \in Copies : Answer(c)

Spec == Init /\ [][Next]_answers
=============================================================================
