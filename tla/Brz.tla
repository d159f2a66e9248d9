--------------------------------- MODULE Brz ---------------------------------
(***************************************************************************)
(* cmph-2.0/src/brz.c, with buffer_manager.c and buffer_entry.c: the keys  *)
(* are spread over k buckets by h0 and sorted by bucket in memory, as much *)
(* of them at a time as the memory takes; what was sorted goes to a        *)
(* temporary file.  The files are merged, and cmph_new makes a function of *)
(* each bucket, with fch or bmz8, which is written to the file of the      *)
(* function at once: it is only complete in memory after it was loaded.    *)
(*                                                                         *)
(* The keys in memory and in the temporary files take their length and     *)
(* four bytes for it.                                                      *)
(***************************************************************************)
EXTENDS Fch

CONSTANTS
    KeyLength,       \* KeyLength[key], in bytes
    BrzTries,        \* iterations, 20
    BrzFlushes,      \* temporary files at most, 1024
    BrzB, BrzBLow, BrzBHigh,    \* the default of b, 128, and what it must be between
    BrzMB            \* bytes in a MB, the unit and the default of memory_availability

ASSUME BrzAssumption == BrzB \in Nat \ {0} /\ BrzBLow \in Nat

MAX_BUCKET_SIZE == 2 ^ Byte - 1
UINT_MAX == 2 ^ Word - 1

Bucket(h0, k, buckets) == hash(h0, k) % buckets
Bytes4(k) == 4 + KeyLength[k]
FileSize(keys) == Fold(LAMBDA sum, k : sum + Bytes4(k), 0, keys)

\* ceil(c * size) cells of g in a bucket of bmz8, fch_calc_b in one of fch.
BucketCells(algo, c, size) ==
    IF size = 0 THEN 0 ELSE IF algo = "fch" THEN fch_calc_b(c, size) ELSE CeilTimes(c, size)

brz_config_set_b(b) == IF b <= BrzBLow \/ b >= BrzBHigh THEN BrzB ELSE b
brz_config_set_memory_availability(mb, old) == IF mb > 0 THEN U32(mb * BrzMB) ELSE old

-----------------------------------------------------------------------------
(* buffer_entry.c: a window of capacity bytes on a temporary file; read is *)
(* the number of bytes loaded so far.  next is the index of the key that   *)
(* follows in the file.                                                    *)

buffer_entry_new(capacity) ==
    [keys |-> << >>, next |-> 1, capacity |-> capacity, nbytes |-> capacity, pos |-> capacity,
     eof |-> FALSE, read |-> 0]
buffer_entry_open(entry, keys) == [entry EXCEPT !.keys = keys]

buffer_entry_load(entry) ==
    LET left == FileSize(entry.keys) - entry.read
        got == IF left < entry.capacity THEN left ELSE entry.capacity
    IN  [entry EXCEPT !.nbytes = got, !.pos = 0, !.read = @ + got, !.eof = @ \/ got # entry.capacity]

\* The next bytes, with one load at most.
Take(entry, bytes) ==
    LET copied == entry.nbytes - entry.pos
    IN  IF bytes <= copied THEN [entry EXCEPT !.pos = @ + bytes]
        ELSE [buffer_entry_load(entry) EXCEPT !.pos = bytes - copied]

\* The next key, Null at the end, or Wild where memory outside of a buffer is used:
\* when a length is split by the end of the window (its second part is stored at the
\* wrong address), when the file ends with the window (eof is not known yet), and when
\* a key is longer than two windows.
buffer_entry_read_key(entry) ==
    LET split == entry.nbytes - entry.pos
        l == Take(entry, 4)
        k == Take(l, KeyLength[entry.keys[entry.next]])
    IN  IF entry.eof /\ split = 0 THEN [entry |-> entry, key |-> Null]
        ELSE IF split \in 1 .. 3 \/ l.pos > l.nbytes THEN [entry |-> l, key |-> Wild]
        ELSE IF k.pos > k.nbytes THEN [entry |-> k, key |-> Wild]
        ELSE [entry |-> [k EXCEPT !.next = @ + 1], key |-> entry.keys[entry.next]]

(* buffer_manager.c: the capacity of an entry that is at its end goes to   *)
(* the next entry that is read.                                            *)

buffer_manager_new(memory, files) ==
    [entries |-> [i \in DOMAIN files |->
                    buffer_entry_open(buffer_entry_new((memory \div Len(files)) + 1), files[i])],
     avail |-> << >>]

buffer_manager_read_key(bm, i) ==
    LET n == Len(bm.avail)
        entry == IF n = 0 THEN bm.entries[i]
                 ELSE [bm.entries[i] EXCEPT !.capacity = @ + bm.avail[n]]
        rest == IF n = 0 THEN bm.avail ELSE SubSeq(bm.avail, 1, n - 1)
    IN  With(buffer_entry_read_key(entry), LAMBDA r :
            [key |-> r.key,
             bm |-> [entries |-> [bm.entries EXCEPT ![i] = r.entry],
                     avail |-> IF r.key = Null THEN Append(rest, entry.capacity) ELSE rest]])

-----------------------------------------------------------------------------
(* Partitioning.  p: the keys in memory and their bytes, the temporary     *)
(* files, the sizes of the buckets, and whether a bucket got too large.    *)

\* The keys in memory by bucket; of a bucket, as they were read.
brz_flush(p, h0, k) ==
    [p EXCEPT !.buffer = << >>, !.usage = 0,
              !.files = Append(@, Concat([b \in 1 .. k |->
                            SelectSeq(p.buffer, LAMBDA key : Bucket(h0, key, k) = b - 1)]))]

\* A bucket of bmz8 must stay small enough for the vertices of its graph, too.
TooLarge(size) ==
    \/ size = MAX_BUCKET_SIZE
    \/ /\ data.algo = "bmz8" /\ data.c[1] >= data.c[2]
       /\ Unsigned((data.c[1] * size) \div data.c[2], Byte) < size

brz_partition(size0, h0) ==
    LET k == data.k
        Put(p, key) ==
            LET f == IF p.usage + Bytes4(key) > mph.memory THEN brz_flush(p, h0, k) ELSE p
            IN  IF p.failed THEN p
                ELSE IF TooLarge(p.size[Bucket(h0, key, k)]) THEN [f EXCEPT !.failed = TRUE]
                ELSE [f EXCEPT !.buffer = Append(@, key), !.usage = @ + Bytes4(key),
                               !.size[Bucket(h0, key, k)] = @ + 1]
        all == Fold(Put, [buffer |-> << >>, usage |-> 0, files |-> << >>, size |-> size0,
                          failed |-> FALSE], mph.keys)
    IN  IF all.failed \/ all.usage = 0 THEN all ELSE brz_flush(all, h0, k)

-----------------------------------------------------------------------------
BrzNew ==
    /\ Starts("brz")
    /\ LET algo == IF mph.c[1] >= 2 * mph.c[2] THEN "fch" ELSE "bmz8"
           k == CeilDiv(m, mph.b)
       IN  data' = [algo |-> algo, k |-> k, iterations |-> BrzTries, size |-> [b \in 0 .. k - 1 |-> 0],
                    c |-> IF algo = "fch" THEN (IF mph.c[1] <= 2 * mph.c[2] THEN <<26, 10>> ELSE mph.c)
                          ELSE IF mph.c[1] = 0 THEN <<1, 1>> ELSE mph.c]
    /\ pc' = "partition"
    /\ UNCHANGED mphf /\ Keeps

\* brz_gen_mphf has failed with these sizes, which stay.
BrzAgain(size) ==
    IF data.iterations > 1
    THEN /\ pc' = "partition" /\ UNCHANGED mphf
         /\ data' = [algo |-> data.algo, k |-> data.k, c |-> data.c, size |-> size,
                     iterations |-> data.iterations - 1]
    ELSE GiveUp

\* What is written before the functions of the buckets.
BrzHead(size) ==
    W(NameBytes["brz"], "brz") \o W(4, m) \o W(8, data.c) \o W(4, data.algo) \o W(4, data.k)
        \o Array(1, data.k, size)

\* Partitioning, the head of the file, and the first key of each temporary file.
BrzPartition ==
    /\ pc = "partition" /\ mph.algo = "brz"
    /\ UNCHANGED <<mph, packed, outer, answers>>
    /\ \E h0 \in hash_state_new(data.k) :
       \E p \in {brz_partition(data.size, h0)} :
          IF \E i \in 1 .. m : Bytes4(mph.keys[i]) > mph.memory
          THEN Undefined /\ UNCHANGED file
          ELSE IF p.failed \/ Len(p.files) > BrzFlushes
          THEN BrzAgain(p.size) /\ UNCHANGED file
          ELSE IF ~ mph.mphf_fd
          THEN Undefined /\ UNCHANGED file
          ELSE LET Open(s, i) ==
                       With(buffer_manager_read_key(s.bm, i + 1),
                            LAMBDA r : [bm |-> r.bm, held |-> Append(s.held, r.key)])
                   s0 == Fold(Open, [bm |-> buffer_manager_new(mph.memory, p.files), held |-> << >>],
                              Upto(Len(p.files)))
               IN  /\ file' = file \o BrzHead(p.size)
                   /\ IF \E i \in DOMAIN s0.held : s0.held[i] = Wild
                      THEN Undefined
                      ELSE /\ pc' = "merge" /\ UNCHANGED mphf
                           /\ data' = [algo |-> data.algo, k |-> data.k, c |-> data.c,
                                       iterations |-> data.iterations, size |-> p.size, h0 |-> h0,
                                       bm |-> s0.bm, held |-> s0.held, keys_vd |-> << >>, e |-> 0,
                                       buffer_h0 |-> [i \in DOMAIN s0.held |->
                                                        Bucket(h0, s0.held[i], data.k)]]

brz_min_index(vector) ==
    CHOOSE i \in DOMAIN vector : \A j \in DOMAIN vector :
        vector[i] < vector[j] \/ (vector[i] = vector[j] /\ i <= j)

\* The keys of file i in the bucket of the key that is held for it: up to the first
\* key of another bucket, or the end.
SameBucket(d, i) ==
    LET NextKey(bm, vd) == With(buffer_manager_read_key(bm, i),
                                LAMBDA r : [bm |-> r.bm, keys_vd |-> vd, key |-> r.key])
        More(s, j) == IF s.key \in {Null, Wild} THEN s
                      ELSE IF Bucket(d.h0, s.key, d.k) # d.buffer_h0[i] THEN s
                      ELSE NextKey(s.bm, Append(s.keys_vd, s.key))
    IN  Fold(More, NextKey(d.bm, d.keys_vd), Upto(m))

\* The config with which cmph_new is called for a bucket.
BucketConfig(keys) ==
    [mph EXCEPT !.algo = data.algo, !.c = data.c, !.b = 0, !.keys_per_bin = 1,
                !.keys = Keys(cmph_io_byte_vector_adapter(keys))]

\* A round of the merge; when the bucket has its keys, cmph_new is called.
BrzMerge ==
    /\ pc = "merge" /\ mph.algo = "brz" /\ data.e < m
    /\ \E i \in {brz_min_index(data.buffer_h0)} : \E s \in {SameBucket(data, i)} :
          LET cur == data.buffer_h0[i]
              keys_vd == Append(s.keys_vd, data.held[i])
              d == [data EXCEPT !.bm = s.bm, !.keys_vd = keys_vd, !.held[i] = s.key,
                                !.e = @ + Len(keys_vd) - Len(data.keys_vd),
                                !.buffer_h0[i] = IF s.key = Null THEN UINT_MAX
                                                 ELSE Bucket(data.h0, s.key, data.k)]
          IN  IF s.key = Wild \/ cur \notin DOMAIN data.size
              THEN Undefined /\ UNCHANGED <<mph, outer>>
              ELSE IF Len(s.keys_vd) >= data.size[cur] THEN Abort /\ UNCHANGED <<mph, outer>>
              ELSE IF Len(keys_vd) < data.size[cur]
              THEN data' = d /\ UNCHANGED <<pc, mphf, mph, outer>>
              ELSE /\ outer' = <<[mph |-> mph, data |-> [d EXCEPT !.keys_vd = << >>], bucket |-> cur]>>
                   /\ mph' = BucketConfig(keys_vd)
                   /\ pc' = "new" /\ data' = Null /\ UNCHANGED mphf
    /\ UNCHANGED <<file, packed, answers>>

\* brz_copy_partial_fch_mphf and brz_copy_partial_bmz8_mphf: the cells of g as bytes.
GBytes(g, n) ==
    Array(1, n, [v \in 0 .. n - 1 |-> IF CellOf(g, v) = Wild THEN Wild ELSE Unsigned(g[v], Byte)])
brz_copy_partial_fch_mphf(d) ==
    hash_state_dump(d.h1) \o hash_state_dump(d.h2) \o GBytes(d.g, d.b)
brz_copy_partial_bmz8_mphf(d, n) ==
    hash_state_dump(d.hashes[1]) \o hash_state_dump(d.hashes[2]) \o GBytes(d.g, n)

\* cmph_new has returned: the function of the bucket is written.  Without one
\* everything starts again, with another h0 and what is in the file.
BrzBucket ==
    /\ outer # << >> /\ pc \in {"built", "failed"}
    /\ outer' = << >> /\ mph' = outer[1].mph /\ mphf' = Null
    /\ LET d == outer[1].data
           n == BucketCells(d.algo, d.c, d.size[outer[1].bucket])
       IN  IF pc = "built"
           THEN /\ file' = file \o IF d.algo = "fch" THEN brz_copy_partial_fch_mphf(mphf.data)
                                   ELSE brz_copy_partial_bmz8_mphf(mphf.data, n)
                /\ data' = d /\ pc' = "merge"
           ELSE /\ UNCHANGED file
                /\ IF d.iterations > 1
                   THEN /\ pc' = "partition"
                        /\ data' = [algo |-> d.algo, k |-> d.k, c |-> d.c, size |-> d.size,
                                    iterations |-> d.iterations - 1]
                   ELSE pc' = "failed" /\ data' = Null
    /\ UNCHANGED <<packed, answers>>

\* How many keys the buckets before have.
Offsets(size) ==
    [b \in DOMAIN size |-> Fold(LAMBDA sum, a : IF a < b THEN sum + size[a] ELSE sum, 0,
                                Upto(Cardinality(DOMAIN size)))]

BrzFinish ==
    /\ pc = "merge" /\ mph.algo = "brz" /\ data.e >= m
    /\ Finish([g |-> Null, h1 |-> Null, h2 |-> Null, h0 |-> data.h0, size |-> data.size,
               offset |-> Offsets(data.size), k |-> data.k, c |-> data.c, m |-> m,
               algo |-> data.algo], m)
    /\ Keeps

-----------------------------------------------------------------------------
\* The value of a key: a byte, and the offset of its bucket.
BucketValue(value, offset) ==
    IF Wild \in {value, offset} THEN Wild ELSE U32(Unsigned(value, Byte) + offset)

\* In a bucket of bmz8: s1 and s2 are its hashes, g(i) its cells.
BmzBucket(k, n, s1, s2, g(_)) ==
    LET h1 == HashOf(s1, k)
        h2 == HashOf(s2, k)
        i2 == IF h1 % n # h2 % n THEN h2 % n ELSE IF (h2 % n) + 1 >= n THEN 0 ELSE (h2 % n) + 1
    IN  IF n = 0 THEN Wild ELSE IF Wild \in {h1, h2} THEN Wild ELSE Plus(g(h1 % n), g(i2))

\* In a bucket of fch of size n.
FchBucket(k, n, c, s1, s2, g(_)) ==
    LET b == fch_calc_b(c, n)
        h1 == HashOf(s1, k)
        h2 == HashOf(s2, k)
    IN  IF n = 0 THEN Wild ELSE IF Wild \in {h1, h2} THEN Wild
        ELSE Rem(Plus(h2 % n, g(mixh10h11h12(b, fch_calc_p1(n), fch_calc_p2(b), h1 % n))), n)

brz_bmz8_search(d, k) ==
    LET b == Bucket(d.h0, k, d.k)
        G(i) == CellOf(d.g[b], i)
    IN  BucketValue(BmzBucket(k, BucketCells("bmz8", d.c, d.size[b]), d.h1[b], d.h2[b], G), d.offset[b])
brz_fch_search(d, k) ==
    LET b == Bucket(d.h0, k, d.k)
        G(i) == CellOf(d.g[b], i)
    IN  BucketValue(FchBucket(k, d.size[b], d.c, d.h1[b], d.h2[b], G), d.offset[b])

BrzSearch(d, k) ==
    IF d.h0 = Wild THEN Wild
    ELSE IF d.algo = "fch" THEN brz_fch_search(d, k) ELSE brz_bmz8_search(d, k)

\* What the file does not have yet.
BrzDump(f) == hash_state_dump(f.data.h0) \o W(4, f.data.m) \o Array(4, f.data.k, f.data.offset)

\* The buckets one after the other: nothing is known of what follows an unknown length.
BrzLoad(f) ==
    LET c == Read(f, 3, 8)
        algo == Read(f, 4, 4)
        k == Read(f, 5, 4)
        size == ReadArray(f, 6, k, 1)
        Skip(at, n) == IF at = Wild THEN Wild ELSE IF Read(f, at, 4) = Wild THEN Wild ELSE at + n
        LoadBucket(s, b) ==
            LET at2 == Skip(s.at, 2)
                at3 == Skip(at2, 2)
                n == BucketCells(algo, c, size[b])
            IN  [h1 |-> Append(s.h1, IF s.at = Wild THEN Wild ELSE hash_state_load(f, s.at)),
                 h2 |-> Append(s.h2, IF at2 = Wild THEN Wild ELSE hash_state_load(f, at2)),
                 g |-> Append(s.g, IF at3 = Wild THEN << >> ELSE ReadArray(f, at3, n, 1)),
                 at |-> IF at3 = Wild THEN Wild ELSE at3 + n]
        s == Fold(LoadBucket, [h1 |-> << >>, h2 |-> << >>, g |-> << >>, at |-> 6 + k], Upto(k))
        Buckets(x) == [b \in 0 .. k - 1 |-> x[b + 1]]
        at4 == Skip(s.at, 2)
    IN  [c |-> c, algo |-> algo, k |-> k, size |-> size,
         h1 |-> Buckets(s.h1), h2 |-> Buckets(s.h2), g |-> Buckets(s.g),
         h0 |-> IF s.at = Wild THEN Wild ELSE hash_state_load(f, s.at),
         m |-> IF at4 = Wild THEN Wild ELSE Read(f, at4, 4),
         offset |-> IF at4 = Wild THEN [b \in 0 .. k - 1 |-> Wild] ELSE ReadArray(f, at4 + 1, k, 4)]

\* Where the hashes and the cells of bucket b start: after the pointers to them.
BucketStart(d, b) ==
    36 + 13 * d.k +
    Fold(LAMBDA sum, a : IF a < b THEN sum + 8 + BucketCells(d.algo, d.c, d.size[a]) ELSE sum, 0, Upto(d.k))

\* The hashes and the cells of the buckets, one bucket behind the other.
BucketsPack(d) ==
    Fold(LAMBDA s, b : s \o hash_state_pack(d.h1[b]) \o hash_state_pack(d.h2[b])
                         \o GBytes(d.g[b], BucketCells(d.algo, d.c, d.size[b])),
         << >>, Upto(d.k))
BucketsSize(d) ==
    Fold(LAMBDA sum, b : sum + 2 * hash_state_packed_size + BucketCells(d.algo, d.c, d.size[b]), 0, Upto(d.k))

\* c is packed as a whole number.  A pointer is the place in the block itself, with
\* the algorithm that cmph_pack puts in front.
BrzPack(d) ==
    W(4, d.algo) \o W(4, "jenkins") \o hash_state_pack(d.h0) \o W(4, d.k) \o W(8, d.c[1] \div d.c[2])
        \o W(4, "jenkins") \o W(4, "jenkins")
        \o Array(1, d.k, d.size) \o Array(4, d.k, d.offset)
        \o Array(8, d.k, [b \in 0 .. d.k - 1 |-> BucketStart(d, b)])
        \o BucketsPack(d)

(* a mutant: a pointer counts as four bytes *)
BrzPackedSize_Pointers4(d) ==
    2 * 4 + 3 * 4 + hash_state_packed_size + 4 + 8 + 9 * d.k + BucketsSize(d)

BrzPackedSize(d) ==
    2 * 4 + 3 * 4 + hash_state_packed_size + 4 + 8 + 13 * d.k + BucketsSize(d)

\* mem: the whole block.  The functions of the buckets are reached by the pointers.
brz_bmz8_search_packed(mem, k) ==
    LET buckets == At(mem, 16, 4)
        b == Bucket(At(mem, 12, 4), k, buckets)
        at == At(mem, 36 + 5 * buckets + 8 * b, 8)
        G(i) == At(mem, at + 8 + i, 1)
    IN  BucketValue(BmzBucket(k, BucketCells("bmz8", <<At(mem, 20, 8), 1>>, At(mem, 36 + b, 1)),
                              At(mem, at, 4), At(mem, at + 4, 4), G),
                    At(mem, 36 + buckets + 4 * b, 4))
brz_fch_search_packed(mem, k) ==
    LET buckets == At(mem, 16, 4)
        b == Bucket(At(mem, 12, 4), k, buckets)
        at == At(mem, 36 + 5 * buckets + 8 * b, 8)
        G(i) == At(mem, at + 8 + i, 1)
    IN  BucketValue(FchBucket(k, At(mem, 36 + b, 1), <<At(mem, 20, 8), 1>>,
                              At(mem, at, 4), At(mem, at + 4, 4), G),
                    At(mem, 36 + buckets + 4 * b, 4))

BrzSearchPacked(mem, k) ==
    IF At(mem, 12, 4) = Wild THEN Wild
    ELSE IF At(mem, 4, 4) = "fch" THEN brz_fch_search_packed(mem, k) ELSE brz_bmz8_search_packed(mem, k)
=============================================================================
