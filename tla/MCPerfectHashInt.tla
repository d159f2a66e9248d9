-------------------------- MODULE MCPerfectHashInt ---------------------------
(***************************************************************************)
(* PerfectHashInt on four kinds of key lists: integers ($int_keys),        *)
(* strings with case_fold and without under the code's own hash, and pairs *)
(* of numbers that an artificial hash takes for the ends of their edges,   *)
(* so that every small graph is tried, self-loops, parallel edges and      *)
(* cycles included.  The modulus is 2^17 instead of 2^32: the largest that *)
(* TLC's integers allow with a multiplier of 8191.  Strings of three bytes *)
(* wrap around as they do in the code with five.  Element types and the    *)
(* number of seeds are scaled down, so that all of them and both ways to   *)
(* give up occur.                                                          *)
(***************************************************************************)
EXTENDS PerfectHashInt

CONSTANTS SmallKeys, MaxInts, MaxWords, Point, MaxEdges

PairKey(p) == [kind |-> "pair", code |-> p]

\* All lists of up to n different members of S.
Lists(S, n) ==
    UNION {{s \in [1 .. k -> S] : \A i, j \in 1 .. k : i # j => s[i] # s[j]} : k \in 0 .. n}

IntKeys(s) == [i \in DOMAIN s |-> IntKey(s[i])]
WordKeys(s) == [i \in DOMAIN s |-> WordKey(s[i])]
TextKeys(s) == [i \in DOMAIN s |-> TextKey(s[i])]
PairKeys(s) == [i \in DOMAIN s |-> PairKey(s[i])]

MCWords == {<<>>, <<97>>, <<65>>, <<98, 97>>, <<66, 65>>, <<95, 48>>,
            <<116, 104, 101>>, <<84, 72, 69>>, <<101, 110, 100>>}

\* Two stars joined by an edge, numbered so that the leaves of both are peeled
\* before the joining edge.
TwoStars == <<<<0, 4>>, <<1, 5>>, <<4, 2>>, <<5, 3>>, <<4, 5>>>>

MCKeySeqs ==
    {IntKeys(s) : s \in Lists(SmallKeys, MaxInts)
        \cup {[i \in 1 .. 8 |-> i + 64],        \* bumped to 18 for mult2 = 17
              [i \in 1 .. 9 |-> 3 * i],         \* too wide
              <<4, 3, 19, 11, 22, 31>>,
              <<65, 228, 246, 252, 223>>}}      \* a few code points
    \cup {WordKeys(s) : s \in Lists(Words, MaxWords)}
    \cup {TextKeys(s) : s \in Lists({<<97>>, <<65>>, <<66, 65>>}, MaxWords)}
    \cup {PairKeys(s) : s \in UNION {[1 .. n -> Point \X Point] : n \in 1 .. MaxEdges} \cup {TwoStars}}

\* Sets of integers alone, some of which are congruent modulo 2n + 1.
MCIntegers == {IntKeys(<<1, 9>>), IntKeys(<<0, 5>>), IntKeys(<<9, 6, 1>>)}

MCKey == UNION {{s[i] : i \in DOMAIN s} : s \in MCKeySeqs}

PairHash(p, mult, seed) ==
    IF mult = Mult1 THEN p[1] + seed * p[2] ELSE p[2] + 2 * seed + (mult % 5)

MCHash(k, mult, seed) ==
    CASE k.kind = "int"  -> IntHash(k.code[1], mult, seed)
      [] k.kind = "word" -> FoldedHash(k.code, mult, seed)
      [] k.kind = "text" -> StringHash(k.code, mult, seed)
      [] k.kind = "pair" -> PairHash(k.code, mult, seed)

MCMult2s == <<17, 31, 127, 8191>>

MCWidths == <<[type |-> "int8",  lim |-> 3,  flag |-> 3],
              [type |-> "int16", lim |-> 6,  flag |-> 6],
              [type |-> "int32", lim |-> 12, flag |-> 8]>>

\* The element types of the code (PerfectHashInt.pm:366-396).
CodeWidths == <<[type |-> "int8",  lim |-> 127, flag |-> 127],
                [type |-> "int16", lim |-> 32767, flag |-> 32767],
                [type |-> "int32", lim |-> 2147483647, flag |-> 1073741823]>>
=============================================================================
