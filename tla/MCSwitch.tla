------------------------------ MODULE MCSwitch ------------------------------
(***************************************************************************)
(* Switch for TLC: all sets of the eight words of three bytes over two     *)
(* bytes, runs of the 27 words over three bytes, sets of words of several  *)
(* lengths, and long keys that are compared in many words or by memcmp.    *)
(* The function is called with every word up to length 3, and with strings *)
(* that differ from a long key in one byte.                                *)
(***************************************************************************)
EXTENDS Switch

Word(n, size) == [1 .. n -> 1 .. size]

\* A dictionary that numbers the keys of a set.
Numbered(S) == LET q == Listed(S) IN [k \in S |-> CHOOSE p \in 1 .. Len(q) : q[p] = k]

Code(w) == 9 * w[1] + 3 * w[2] + w[3]

Runs == {{w \in Word(3, 3) : Code(w) \in a .. b} : a \in 13 .. 39, b \in 13 .. 39}

Sieves == {{w \in Word(3, 3) : (w[1] + a * w[2] + b * w[3]) % 3 < 2} : a, b \in 0 .. 2}

Long(n) == [p \in 1 .. n |-> p % 7]
LongKeys == {Long(n) : n \in {4, 5, 7, 8, 12, 15, 16, 17, 24, 31, 36, 37}}
LongTwins == {[Long(n) EXCEPT ![n] = 9] : n \in {15, 31, 36, 37}}

MCDicts ==
    {Numbered(S) : S \in (SUBSET Word(3, 2)) \cup Runs \cup Sieves
                    \cup {UNION {Word(l, 2) : l \in L} : L \in SUBSET (0 .. 3)}
                    \cup {LongKeys, LongKeys \cup LongTwins}}

MCArguments ==
    UNION {Word(l, 3) : l \in 0 .. 3} \cup LongKeys \cup LongTwins
    \cup {[k EXCEPT ![p] = 8] : k \in LongKeys, p \in {1, 3, 4}}
    \cup {[Long(n) EXCEPT ![n - 1] = 8] : n \in {5, 7, 8, 15, 17, 31, 37}}
=============================================================================
