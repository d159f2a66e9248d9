------------------------------- MODULE ChdPh --------------------------------
(***************************************************************************)
(* cmph-2.0/src/chd_ph.c and miller_rabin.c: a key has a bucket g and two  *)
(* numbers f and h; with the displacement <<d0, d1>> of its bucket it goes *)
(* to bin (f + h * d0 + d1) % n.  The buckets of the same size are tried   *)
(* with one displacement after the other, the largest size first.  A bin   *)
(* takes keys_per_bin keys.                                                *)
(***************************************************************************)
EXTENDS BitTables

CONSTANTS
    MappingTries,    \* mapping_iterations, 1000
    ChdTries         \* iterations, 100

\* miller_rabin.c: the witnesses 2, 7 and 61 are right for all 32-bit numbers.
int_pow(a, d, n) == Fold(LAMBDA res, i : (res * a) % n, 1, Upto(d))
\* n - 1 = 2^s * d: one of a^d, a^2d, ... is -1, or the first is 1.
check_witness(a, d, s, n) ==
    \/ int_pow(a, d, n) = 1
    \/ \E i \in 0 .. s - 1 : int_pow(a, d * 2 ^ i, n) = n - 1
\* The divisors tried first refuse themselves.
check_primality(n) ==
    /\ \A p \in {2, 3, 5, 7} : n % p # 0
    /\ LET s == CHOOSE e \in 1 .. Word : (n - 1) % 2 ^ e = 0 /\ (n - 1) % 2 ^ (e + 1) # 0
       IN  \A a \in {2, 7, 61} : check_witness(a, (n - 1) \div 2 ^ s, s, n)

\* A load factor from 0.5 to 0.99.
LoadFactor(c) ==
    IF 2 * c[1] < c[2] THEN <<1, 2>> ELSE IF 100 * c[1] >= 99 * c[2] THEN <<99, 100>> ELSE c

\* The number of bins before the next prime is looked for: odd.
Bins(c, keys_per_bin, nkeys) ==
    LET n == (nkeys * LoadFactor(c)[2]) \div (keys_per_bin * LoadFactor(c)[1]) + 1
    IN  IF n % 2 = 0 THEN n + 1 ELSE n
NextPrime(n) == n + 2 * (CHOOSE i \in 0 .. n + 11 :
                    check_primality(n + 2 * i) /\ \A j \in 0 .. i - 1 : ~ check_primality(n + 2 * j))

\* log2(m) / 20 of 2^20.
max_probes == (Log2[m] * 524288) \div 10000

chd_ph_config_set_b(b) == IF b < 1 \/ b >= 15 THEN 4 ELSE b
chd_ph_config_set_keys_per_bin(k) == IF k <= 1 \/ k >= 128 THEN 1 ELSE k

\* There is always a prime that NextPrime can find: one between n and 2n, or 11 or 13.
ASSUME ChdPhAssumption ==
    \A r \in Requests : \A k \in {1, chd_ph_config_set_keys_per_bin(r.keys_per_bin)} :
        LET n == Bins(r.c, k, r.source.nkeys)
        IN  r.algo \in {"chd_ph", "chd"} /\ n # 1 =>
            \E i \in 0 .. n + 11 :
                check_primality(n + 2 * i) /\ \A j \in 0 .. i - 1 : ~ check_primality(n + 2 * j)

-----------------------------------------------------------------------------
Item(seed, k, nbuckets, n) ==
    LET hl == hash_vector(seed, k)
    IN  [g |-> hl[1] % nbuckets, f |-> hl[2] % n, h |-> (hl[3] % (n - 1)) + 1]

chd_ph_bucket_insert(buckets, item) ==
    [buckets EXCEPT ![item.g] = Append(@, <<item.f, item.h>>)]

\* The items of each bucket, or Null when two of a bucket are alike.
chd_ph_mapping(seed, nbuckets, n) ==
    LET items == [i \in 1 .. m |-> Item(seed, mph.keys[i], nbuckets, n)]
    IN  IF \E i, j \in 1 .. m : i < j /\ items[i] = items[j] THEN Null
        ELSE Fold(chd_ph_bucket_insert, [g \in 0 .. nbuckets - 1 |-> << >>], items)

\* The buckets of each size, by number.
chd_ph_ordering(buckets) ==
    [size \in 1 .. m |-> Filter(Upto(Cardinality(DOMAIN buckets)), LAMBDA g : Len(buckets[g]) = size)]

Position(item, p0, p1, n) == (item[1] + item[2] * p0 + p1) % n

\* The table with the keys of a bucket placed, or Null, the table as it was.
place_bucket_probe(occup, items, p0, p1, keys_per_bin) ==
    Fold(LAMBDA t, item :
                LET position == Position(item, p0, p1, Cardinality(DOMAIN occup))
                IN  IF t = Null THEN Null
                    ELSE IF t[position] >= keys_per_bin THEN Null
                    ELSE [t EXCEPT ![position] = @ + 1],
             occup, items)

\* One pass over the buckets of a size that are left.
Pass(t, buckets, left, p0, p1, keys_per_bin) ==
    Fold(LAMBDA s, g :
                LET occup == place_bucket_probe(s.occup, buckets[g], p0, p1, keys_per_bin)
                IN  IF occup = Null THEN [s EXCEPT !.left = Append(@, g)]
                    ELSE [s EXCEPT !.occup = occup,
                                   !.disp[g] = p0 + p1 * Cardinality(DOMAIN occup)],
             [t EXCEPT !.left = << >>], left)

\* All passes for one size.  The limit also counts when the last bucket was just placed.
PlaceSize(t, buckets, list, keys_per_bin) ==
    LET n == Cardinality(DOMAIN t.occup)
        Probe(s, p0, p1) ==
            IF s.left = << >> \/ ~ s.ok THEN s
            ELSE LET probe_num == p0 + p1 * n
                 IN  [Pass(s, buckets, s.left, p0, p1, keys_per_bin)
                        EXCEPT !.ok = probe_num + 1 < max_probes /\ probe_num + 1 < n * n]
    IN  Fold(LAMBDA s, p1 : Fold(LAMBDA r, p0 : Probe(r, p0, p1), s, Upto(n)),
             [t EXCEPT !.left = list], Upto(n))

\* occup_table and disp_table; ok: all buckets are placed.  The displacements of an
\* attempt that failed stay in the table.
place_buckets2(buckets, lists, disp, n, keys_per_bin) ==
    Fold(LAMBDA t, i : IF t.ok THEN PlaceSize(t, buckets, lists[m - i], keys_per_bin) ELSE t,
             [occup |-> [p \in 0 .. n - 1 |-> 0], disp |-> disp, left |-> << >>, ok |-> TRUE],
             Upto(m))

-----------------------------------------------------------------------------
\* With a single bin the search for a prime does not end.
ChdPhStart(nextpc) ==
    LET n == Bins(mph.c, mph.keys_per_bin, m)
    IN  IF n = 1
        THEN pc' = "loops" /\ UNCHANGED <<data, mphf>>
        ELSE LET nbuckets == (m \div mph.b) + 1
             IN  /\ data' = [n |-> NextPrime(n), nbuckets |-> nbuckets,
                             disp |-> [g \in 0 .. nbuckets - 1 |-> 0],
                             iterations |-> ChdTries, mapping |-> MappingTries]
                 /\ pc' = nextpc /\ UNCHANGED mphf

ChdPhNew == Starts("chd_ph") /\ ChdPhStart("map") /\ Keeps

\* Seeds until no bucket has two items alike.
ChdPhMapWith(nextpc) ==
    \E seed \in hash_state_new(m) :
       LET buckets == chd_ph_mapping(seed, data.nbuckets, data.n)
       IN  IF buckets # Null
           THEN /\ pc' = nextpc /\ UNCHANGED mphf
                /\ data' = [n |-> data.n, nbuckets |-> data.nbuckets, disp |-> data.disp,
                            iterations |-> data.iterations, hl |-> seed, buckets |-> buckets]
           ELSE IF data.mapping > 1
           THEN data' = [data EXCEPT !.mapping = @ - 1] /\ UNCHANGED <<pc, mphf>>
           ELSE GiveUp

ChdPhMap == pc = "map" /\ mph.algo = "chd_ph" /\ ChdPhMapWith("search") /\ Keeps

\* The ordering and the searching step: what is placed.
Placed ==
    place_buckets2(data.buckets, chd_ph_ordering(data.buckets), data.disp, data.n, mph.keys_per_bin)

ChdPhData(t) ==
    [cs |-> compressed_seq_generate(t.disp, data.nbuckets), hl |-> data.hl,
     n |-> data.n, nbuckets |-> data.nbuckets]

(* a mutant: an attempt that failed does not count *)
ChdPhAgain_Uncounted(t) ==
    /\ data' = [n |-> data.n, nbuckets |-> data.nbuckets, disp |-> t.disp,
                iterations |-> data.iterations, mapping |-> MappingTries]
    /\ pc' = "map" /\ UNCHANGED mphf

ChdPhAgain(t) ==
    IF data.iterations > 1
    THEN /\ data' = [n |-> data.n, nbuckets |-> data.nbuckets, disp |-> t.disp,
                     iterations |-> data.iterations - 1, mapping |-> MappingTries]
         /\ pc' = "map" /\ UNCHANGED mphf
    ELSE GiveUp

ChdPhSearchStep ==
    /\ pc = "search" /\ mph.algo = "chd_ph"
    /\ \E t \in {Placed} : IF t.ok THEN Finish(ChdPhData(t), data.n) ELSE ChdPhAgain(t)
    /\ Keeps

-----------------------------------------------------------------------------
\* The bin of a key, from its item and the displacement of its bucket.
BinOf(item, disp, n) == IF disp = Wild THEN Wild ELSE Position(<<item.f, item.h>>, disp % n, disp \div n, n)

ChdPhSearch(d, k) ==
    LET item == Item(d.hl, k, d.nbuckets, d.n)
    IN  BinOf(item, compressed_seq_query(d.cs, item.g), d.n)

ChdPhDump(f) ==
    cmph_dump_head(f) \o hash_state_dump(f.data.hl)
        \o W(4, compressed_seq_packed_size(f.data.cs))
        \o W(compressed_seq_packed_size(f.data.cs), compressed_seq_dump(f.data.cs))
        \o W(4, f.data.n) \o W(4, f.data.nbuckets)

ChdPhLoad(f) ==
    [hl |-> hash_state_load(f, 3), cs |-> compressed_seq_load(Read(f, 6, Read(f, 5, 4)), 0),
     n |-> Read(f, 7, 4), nbuckets |-> Read(f, 8, 4)]

ChdPhPack(d) ==
    W(4, "jenkins") \o hash_state_pack(d.hl) \o W(4, d.n) \o W(4, d.nbuckets)
        \o compressed_seq_pack(d.cs)

ChdPhPackedSize(d) == 4 + hash_state_packed_size + compressed_seq_packed_size(d.cs) + 3 * 4

ChdPhSearchPacked(mem, k) ==
    LET n == At(mem, 8, 4)
        item == Item(At(mem, 4, 4), k, At(mem, 12, 4), n)
    IN  BinOf(item, compressed_seq_query_packed(mem, 16, item.g), n)

-----------------------------------------------------------------------------
(***************************************************************************)
(* cmph-2.0/src/chd.c: chd_ph, and a compressed rank of the bins that stay *)
(* empty: a key's value is its bin less the empty bins below.  Both parts  *)
(* are kept packed.                                                        *)
(***************************************************************************)

\* The config that chd_config_new makes for chd_ph gets c, b and keys_per_bin.
ChdNew == Starts("chd") /\ ChdPhStart("map") /\ Keeps
ChdMap == pc = "map" /\ mph.algo = "chd" /\ ChdPhMapWith("search") /\ Keeps

\* The bins whose bit in occup_table is not set.
EmptyBins(occup, nbins) == Filter(Upto(nbins), LAMBDA p : occup[p] = 0)

\* cmph_pack of the chd_ph function, and the rank.
ChdData(t) ==
    LET phf == W(4, "chd_ph") \o ChdPhPack(ChdPhData(t))
        empty == EmptyBins(t.occup, data.n)
        nvals == data.n - m
        vals_table == [i \in 0 .. nvals - 1 |-> IF i < Len(empty) THEN empty[i + 1] ELSE 0]
        cr == compressed_rank_generate(vals_table, nvals)
    IN  [packed_chd_phf |-> phf, packed_chd_phf_size |-> 4 + Size(ChdPhPack(ChdPhData(t))),
         packed_cr |-> compressed_rank_pack(cr), packed_cr_size |-> compressed_rank_packed_size(cr)]

\* With more keys in a bin the bytes of occup_table are read as bits: there are more
\* zeros than room in vals_table.
ChdSearchStep ==
    /\ pc = "search" /\ mph.algo = "chd"
    /\ \E t \in {Placed} :
           IF ~ t.ok THEN ChdPhAgain(t)
           ELSE IF mph.keys_per_bin > 1 THEN pc' = "overflow" /\ UNCHANGED <<data, mphf>>
           ELSE Finish(ChdData(t), m)
    /\ Keeps

-----------------------------------------------------------------------------
chd_search_in(phf, mem, off, k) ==
    With(ChdPhSearchPacked(From(phf, 4), k), LAMBDA bin_idx :
        IF bin_idx = Wild THEN Wild
        ELSE With(compressed_rank_query_packed(mem, off, bin_idx), LAMBDA below :
                IF below = Wild THEN Wild ELSE U32(bin_idx - below)))

ChdSearch(d, k) == chd_search_in(d.packed_chd_phf, d.packed_cr, 0, k)

ChdDump(f) ==
    cmph_dump_head(f)
        \o W(4, f.data.packed_chd_phf_size) \o W(f.data.packed_chd_phf_size, f.data.packed_chd_phf)
        \o W(4, f.data.packed_cr_size) \o W(f.data.packed_cr_size, f.data.packed_cr)

ChdLoad(f) ==
    [packed_chd_phf_size |-> Read(f, 3, 4), packed_chd_phf |-> Read(f, 4, Read(f, 3, 4)),
     packed_cr_size |-> Read(f, 5, 4), packed_cr |-> Read(f, 6, Read(f, 5, 4))]

\* The rank comes first.
ChdPack(d) ==
    W(4, d.packed_cr_size) \o d.packed_cr \o W(4, d.packed_chd_phf_size) \o d.packed_chd_phf

ChdPackedSize(d) == 4 + 2 * 4 + d.packed_cr_size + d.packed_chd_phf_size

ChdSearchPacked(mem, k) ==
    chd_search_in(From(mem, 8 + At(mem, 0, 4)), mem, 4, k)
=============================================================================
