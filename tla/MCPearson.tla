------------------------------ MODULE MCPearson ------------------------------
(***************************************************************************)
(* Pearson for TLC with tables of four entries (MinBits = 2) and keys of    *)
(* one or two bytes below 4, so that every table that the shuffle can make  *)
(* is tried.  PadUnit = 3 gives the dictionaries of three keys a dummy key. *)
(* Besides all sets of two to four of six keys as arrays there are          *)
(* hashrefs, a key given twice, a single key, and four keys that some table *)
(* puts into one slot: with a char of two bits their number does not fit    *)
(* (in the code 256 keys with one of eight bits).  Each for both classes.   *)
(***************************************************************************)
EXTENDS PearsonC, Bitwise, SequencesExt

MCEmpty == << >>

MCXor(a, b) == a ^^ b

Dictionary(ks, vs, fp) ==
    {[keys |-> ks, values |-> vs, fp |-> fp, np |-> np] : np \in BOOLEAN}

MCKeys == << <<1>>, <<2>>, <<2, 1>>, <<1, 2>>, <<3, 1>>, <<3, 3>> >>

MCAbsent == Range(MCKeys) \cup { <<3>>, <<2, 2>>, <<3, 1, 2>>, << >> }

Chosen(S) == [p \in 1 .. Cardinality(S) |-> MCKeys[SetToSortSeq(S, <)[p]]]

Arrays ==
    UNION {Dictionary(Chosen(S), << >>, fp) :
        S \in {T \in SUBSET (1 .. 6) : Cardinality(T) \in 2 .. 4}, fp \in BOOLEAN}

MCDict ==
    Arrays
    \cup Dictionary(<< <<1>>, <<1, 1>>, <<3>> >>, <<7, 0, 5>>, TRUE)
    \cup Dictionary(<< <<1>>, <<2>> >>, <<0, 1>>, FALSE)
    \cup Dictionary(<< <<1>>, <<2>>, <<3, 1>> >>, <<0, 1, 2>>, FALSE)
    \cup Dictionary(<< <<2>> >>, << >>, FALSE)
    \cup Dictionary(<< <<1>>, <<1, 3>>, <<2, 1>>, <<3, 2>> >>, << >>, FALSE)
    \cup Dictionary(<< <<0>>, <<1>>, <<0, 1>>, <<3, 3>> >>, << >>, FALSE)
    \cup Dictionary(<< <<1>>, <<2>>, <<1>>, <<3, 1>> >>, << >>, FALSE)
=============================================================================
