---------------------------- MODULE MCHanovTables ----------------------------
(***************************************************************************)
(* HanovPP with both forms in which its finished tables are used: the      *)
(* generated C function and the packed bit vector (HanovLookups).          *)
(* Dictionaries of one to nine slots, padded at multiples of four, under a *)
(* few arithmetic hash functions, and one under which some buckets have no *)
(* working seed.  C types of 2, 4 and 8 bits and bytes of 4 bits make tables of    *)
(* nine keys reach the bounds that tables of 128 and 256 keys reach with   *)
(* types of 8 and 16 bits.                                                 *)
(***************************************************************************)
EXTENDS HanovLookups

CONSTANTS Mixers, Sizes

MCKey == 0 .. 10

Mix(a, k, s) == (a * k * k + 17 * (s + 1) * k + 7 * s * s + k * s * s + a * s) % 101

Mixed == {[k \in MCKey |-> [s \in 0 .. MaxSeed |-> Mix(a, k, s)]] : a \in Mixers}

\* Three classes of keys that no seed tells apart.
Coarse == [k \in MCKey |-> [s \in 0 .. MaxSeed |-> (k % 3) + s]]

MCHashes == Mixed \cup {Coarse}

UpTo(n) == [j \in 1 .. n |-> j]

Dictionary(kind, ks, vs, fp) ==
    [kind |-> kind, keys |-> ks, values |-> vs, fp |-> fp]

MCDict ==
    {Dictionary("ARRAY", UpTo(n), << >>, fp) : n \in Sizes, fp \in BOOLEAN}
    \cup {Dictionary("HASH", UpTo(n), [j \in 1 .. n |-> n - j], TRUE) : n \in Sizes}
    \cup {Dictionary("HASH", UpTo(8), [j \in 1 .. 8 |-> j - 1], FALSE),
          Dictionary("FILE", <<3, 0, 5, 1, 9, 2>>, << >>, FALSE)}

\* Two different keys, one of them the empty string: with PadUnit = 2 they are padded with
\* the dummy key.
EmptyKeyDict == {Dictionary("ARRAY", <<0, 1>>, << >>, FALSE)}
=============================================================================
