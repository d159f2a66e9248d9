------------------------------- MODULE MCMphMap ------------------------------
(***************************************************************************)
(* MphMap with the functions that MphIndex makes, for three keys and two   *)
(* seeds.                                                                  *)
(***************************************************************************)
EXTENDS MphMap, MphIndex

MCKey == 1 .. 3
MCSeeds == {1, 3}
MCHash128 ==
    [s \in MCSeeds |-> [k \in MCKey |->
        <<(7 * s * s + 13 * k * k + 29 * s * k + 5 * k + 3) % 251,
          (11 * s * s + 31 * k * k + 17 * s * k + 23 * s + 1) % 241,
          (3 * s * s + 37 * k * k + 41 * s * k + 19 * k + 2) % 239>>]]

\* The order in which the elements lie is not told apart.
InOrder(S) ==
    CHOOSE s \in [1 .. Cardinality(S) -> S] : \A i, j \in DOMAIN s : i < j => s[i] < s[j]

Resets == {<<f, S, ResetIndex(f, InOrder(S))>> : f \in Flavors, S \in (SUBSET MCKey) \ {{}}}

MCReset(f, S) == UNION {t[3] : t \in {u \in Resets : u[1] = f /\ u[2] = S}}
MCHash(k) == k
=============================================================================
