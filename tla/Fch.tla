--------------------------------- MODULE Fch ---------------------------------
(***************************************************************************)
(* cmph-2.0/src/fch.c and fch_buckets.c: the keys are spread over b        *)
(* buckets, most of them over the first 0.3 b; the buckets, the largest    *)
(* first, are placed as a whole, each moved by a g of its own.             *)
(***************************************************************************)
EXTENDS CmphStructs

CONSTANTS
    FchTries,       \* iterations, 100
    FchRounds,      \* searching_iterations, 10
    FchH2Tries      \* iteration_to_generate_h2, 1000

ASSUME FchAssumption == FchTries > 0 /\ FchRounds > 0 /\ FchH2Tries > 0

fch_calc_b(c, n) == CeilDiv(c[1] * n * 1000, c[2] * (Log2[n] + 1000))
fch_calc_p1(n) == CeilDiv(55 * n, 100)
fch_calc_p2(b) == CeilDiv(3 * b, 10)

mixh10h11h12(b, p1, p2, index) ==
    IF index < p1 THEN index % p2
    ELSE IF index % b < p2 THEN (index % b) + p2 ELSE index % b

\* fch_buckets.c: the keys of each bucket, in the order of the key source.
fch_buckets_insert(buckets, i, k) == [buckets EXCEPT ![i] = Append(@, k)]

fch_mapping(h1, b, p1, p2) ==
    Fold(LAMBDA buckets, k :
                fch_buckets_insert(buckets, mixh10h11h12(b, p1, p2, hash(h1, k) % m), k),
             [i \in 0 .. b - 1 |-> << >>], mph.keys)

\* The larger bucket first, of two of the same size the one with the lower number.
fch_buckets_get_indexes_sorted_by_size(buckets) ==
    Concat([i \in 1 .. m + 1 |->
        SelectSeq(Upto(Cardinality(DOMAIN buckets)), LAMBDA j : Len(buckets[j]) = m + 1 - i)])

check_for_collisions_h2(h2, buckets) ==
    \E i \in DOMAIN buckets : \E j, l \in DOMAIN buckets[i] :
        j < l /\ hash(h2, buckets[i][j]) % m = hash(h2, buckets[i][l]) % m

\* permut: every order of the values can come out.
permut == {t \in [0 .. m - 1 -> 0 .. m - 1] : \A i, j \in 0 .. m - 1 : t[i] = t[j] => i = j}

-----------------------------------------------------------------------------
(* One round of the searching step.  The values of table (random_table)    *)
(* before filled are taken; map_table is the inverse of table.             *)

PlaceKey(t, k, h2, g) ==
    LET index == (hash(h2, k) + g) % m
        y == CHOOSE i \in DOMAIN t.table : t.table[i] = index
    IN  IF t.restart THEN t
        ELSE IF y >= t.filled
        THEN [t EXCEPT !.table[y] = t.table[t.filled], !.table[t.filled] = index, !.filled = @ + 1]
        ELSE [t EXCEPT !.restart = TRUE]

\* The z-th of the free values for the first key of bucket i: the others follow.
PlaceBucketAt(t, i, bucket, h2, z) ==
    LET g == (m + t.table[t.filled + z] - (hash(h2, bucket[1]) % m)) % m
        placed == Fold(LAMBDA s, k : PlaceKey(s, k, h2, g), [t EXCEPT !.restart = FALSE], bucket)
    IN  [placed EXCEPT !.g[i] = g, !.filled = IF placed.restart THEN t.filled ELSE @]

\* The table keeps the order that attempts without success have given it.
PlaceBucket(t, i, bucket, h2) ==
    Fold(LAMBDA s, z : IF s.restart THEN PlaceBucketAt(s, i, bucket, h2, z) ELSE s,
             [t EXCEPT !.restart = TRUE], Upto(m - t.filled))

\* Up to the first empty bucket.
searching(table, h2, buckets, sorted) ==
    Fold(LAMBDA t, i : IF t.restart \/ buckets[i] = << >> THEN t
                           ELSE PlaceBucket(t, i, buckets[i], h2),
             [table |-> table, filled |-> 0, g |-> [i \in DOMAIN buckets |-> 0],
              restart |-> check_for_collisions_h2(h2, buckets)],
             sorted)

-----------------------------------------------------------------------------
FchNew ==
    /\ Starts("fch")
    /\ data' = [c |-> IF mph.c[1] <= 2 * mph.c[2] THEN <<26, 10>> ELSE mph.c,
                iterations |-> FchTries]
    /\ pc' = "map"
    /\ UNCHANGED mphf /\ Keeps

\* The mapping and the ordering step, and the table the searching step starts with.
FchMap ==
    /\ pc = "map" /\ mph.algo = "fch"
    /\ LET b == fch_calc_b(data.c, m)
           p1 == fch_calc_p1(m)
           p2 == fch_calc_p2(b)
       IN  \E h1 \in hash_state_new(m), table \in permut :
              LET buckets == fch_mapping(h1, b, p1, p2)
              IN  data' = [c |-> data.c, b |-> b, p1 |-> p1, p2 |-> p2, h1 |-> h1,
                           buckets |-> buckets,
                           sorted |-> fch_buckets_get_indexes_sorted_by_size(buckets),
                           table |-> table, rounds |-> 0, h2tries |-> 0,
                           iterations |-> data.iterations]
    /\ pc' = "search" /\ UNCHANGED mphf
    /\ Keeps

\* A round with a new h2.  A function found in the last of the iterations is dropped.
FchRound ==
    /\ pc = "search" /\ mph.algo = "fch"
    /\ \E h2 \in hash_state_new(m) :
          LET t == searching(data.table, h2, data.buckets, data.sorted)
              collides == check_for_collisions_h2(h2, data.buckets)
              rounds == IF collides THEN data.rounds ELSE data.rounds + 1
              h2tries == IF collides THEN data.h2tries + 1 ELSE 0
          IN  IF t.restart /\ rounds < FchRounds /\ h2tries < FchH2Tries
              THEN /\ data' = [data EXCEPT !.table = t.table, !.rounds = rounds, !.h2tries = h2tries]
                   /\ UNCHANGED <<pc, mphf>>
              ELSE IF data.iterations = 1 THEN GiveUp
              ELSE IF t.restart
              THEN /\ data' = [c |-> data.c, iterations |-> data.iterations - 1]
                   /\ pc' = "map" /\ UNCHANGED mphf
              ELSE Finish([g |-> t.g, h1 |-> data.h1, h2 |-> h2, p1 |-> data.p1, p2 |-> data.p2,
                           b |-> data.b, c |-> data.c, m |-> m], m)
    /\ Keeps

-----------------------------------------------------------------------------
FchSearch(d, k) ==
    LET h1 == mixh10h11h12(d.b, d.p1, d.p2, hash(d.h1, k) % d.m)
    IN  Rem(Plus(hash(d.h2, k) % d.m, CellOf(d.g, h1)), d.m)

FchDump(f) ==
    cmph_dump_head(f) \o hash_state_dump(f.data.h1) \o hash_state_dump(f.data.h2)
        \o W(4, f.data.m) \o W(8, f.data.c) \o W(4, f.data.b) \o W(8, f.data.p1) \o W(8, f.data.p2)
        \o Array(4, f.data.b, f.data.g)

FchLoad(f) ==
    [h1 |-> hash_state_load(f, 3), h2 |-> hash_state_load(f, 5), m |-> Read(f, 7, 4),
     c |-> Read(f, 8, 8), b |-> Read(f, 9, 4), p1 |-> Read(f, 10, 8), p2 |-> Read(f, 11, 8),
     g |-> ReadArray(f, 12, Read(f, 9, 4), 4)]

\* p1 and p2, whole numbers, are packed as such.
FchPack(d) ==
    W(4, "jenkins") \o hash_state_pack(d.h1) \o W(4, "jenkins") \o hash_state_pack(d.h2)
        \o W(4, d.m) \o W(4, d.b) \o W(8, d.p1) \o W(8, d.p2) \o Array(4, d.b, d.g)

FchPackedSize(d) == 4 + 2 * hash_state_packed_size + 4 * 4 + 2 * 8 + 4 * d.b

FchSearchPacked(mem, k) ==
    LET n == At(mem, 16, 4)
        h1 == mixh10h11h12(At(mem, 20, 4), At(mem, 24, 8), At(mem, 32, 8), hash(At(mem, 4, 4), k) % n)
    IN  Rem(Plus(hash(At(mem, 12, 4), k) % n, At(mem, 40 + 4 * h1, 4)), n)
=============================================================================
