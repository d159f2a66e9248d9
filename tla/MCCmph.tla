-------------------------------- MODULE MCCmph -------------------------------
(***************************************************************************)
(* Instances of Cmph, and what its callers rely on.                        *)
(***************************************************************************)
EXTENDS Cmph

CONSTANTS
    MCAlgos      \* the algorithms tried

\* The keys are numbers.  Seventeen of them are too many for bmz8, and for fifteen its
\* number of vertices, 18, does not fit into a byte; the last eight keys are the edges
\* of two triangles with a common vertex, and two more, in the graph of the seeds 0 and 1.
MCKeys == 1 .. 25
Seventeen == [i \in 1 .. 17 |-> i]
Fifteen == [i \in 1 .. 15 |-> i]
Bowtie == [i \in 1 .. 8 |-> i + 17]
BowtieEdges == <<<<0, 4>>, <<0, 2>>, <<0, 3>>, <<0, 1>>, <<1, 2>>, <<3, 4>>, <<5, 6>>, <<7, 8>>>>

\* Some hash: three values for each seed and key.
MCJenkins ==
    [s \in 0 .. 14 |-> [k \in MCKeys |->
        <<(7 * s * s + 13 * k * k + 29 * s * k + 5 * k + 3) % 251,
          (11 * s * s + 31 * k * k + 17 * s * k + 23 * s + 1) % 241,
          IF k \in 18 .. 25 /\ s < 2 THEN BowtieEdges[k - 17][s + 1]
          ELSE (3 * s * s + 37 * k * k + 41 * s * k + 19 * k + 2) % 239>>]]

\* log2 in thousandths; above eight a straight line from each power of two to the next.
MCLog2 ==
    [n \in 1 .. 255 |->
        IF n <= 8 THEN <<0, 1000, 1585, 2000, 2322, 2585, 2807, 3000>>[n]
        ELSE LET e == CHOOSE e \in 3 .. 7 : 2 ^ e <= n /\ n < 2 ^ (e + 1)
             IN  1000 * e + ((n - 2 ^ e) * 1000) \div 2 ^ e]

MCKeyLength == [k \in MCKeys |-> 3]

Default(a, keys) == [algo |-> a, c |-> <<0, 1>>, b |-> 0, keys_per_bin |-> 0, memory |-> 0,
                     mphf_fd |-> a = "brz", source |-> cmph_io_vector_adapter(keys)]

\* Three keys, one of them twice (no function exists), and a single key.
MCKeySeqs == {<<1, 2, 3>>, <<5, 4, 4>>, <<9>>, <<11, 3, 14, 7, 10, 2>>}

\* So few keys and so many in a bin that one bin is enough.
SingleBin == [Default("chd_ph", <<1, 2, 3>>) EXCEPT !.c = <<9, 10>>, !.keys_per_bin = 4]
MCSingleBin == {SingleBin}

\* The defaults, and parameters that make a difference: the heuristic of bmz, small
\* steps of the ranks of bdz, a function that need not be minimal with two keys in a
\* bin, ...
MCRequests ==
    {r \in {Default(a, s) : a \in MCAlgos \ {"fch", "brz"}, s \in MCKeySeqs}
        \cup {Default("fch", s) : s \in {<<1, 2, 3>>, <<5, 4, 4>>, <<9>>, <<11, 3, 14, 7>>}}
        \cup {[Default("bmz", s) EXCEPT !.c = <<11, 10>>] : s \in MCKeySeqs}
        \cup {[Default("fch", <<1, 2, 3>>) EXCEPT !.c = <<4, 1>>],
              [Default("bdz", <<11, 3, 14, 7, 10, 2>>) EXCEPT !.b = 3],
              [Default("chd_ph", <<11, 3, 14, 7, 10, 2>>) EXCEPT !.b = 2, !.keys_per_bin = 2],
              SingleBin,
              [Default("chd", <<11, 3, 14, 7, 10, 2>>) EXCEPT !.keys_per_bin = 2],
              [Default("chd", <<11, 3, 14, 7, 10, 2>>) EXCEPT !.c = <<9, 10>>, !.b = 2],
              [Default("bmz", Bowtie) EXCEPT !.c = <<11, 10>>],
              [Default("chm", << >>) EXCEPT !.source = cmph_io_nlfile_adapter(<<1, 2, 3>>, FALSE)],
              [Default("bdz", << >>) EXCEPT !.source = cmph_io_nlfile_adapter(<<1, 2, 3>>, TRUE)],
              [Default("chd", << >>) EXCEPT !.source = cmph_io_nlnkfile_adapter(<<5, 4, 4>>, TRUE, 2)],
              [Default("bmz", << >>) EXCEPT !.source = cmph_io_nlnkfile_adapter(<<5, 4>>, FALSE, 2)],
              [Default("bdz_ph", << >>) EXCEPT !.source = cmph_io_struct_vector_adapter(<<1, 2, 3>>)],
              Default("bmz8", Seventeen), Default("bmz8", Fifteen), Default("brz", Seventeen),
              [Default("bmz8", Fifteen) EXCEPT !.c = <<16, 15>>],
              Default("brz", <<1, 2, 3>>),
              [Default("brz", <<1, 2, 3>>) EXCEPT !.memory = 13],
              [Default("brz", <<11, 3, 14, 7, 10, 2>>) EXCEPT !.c = <<5, 4>>, !.b = 4],
              [Default("brz", <<11, 3, 14, 7, 10, 2>>) EXCEPT !.c = <<5, 4>>, !.b = 4, !.memory = 2],
              [Default("brz", <<11, 3, 14, 7>>) EXCEPT !.c = <<3, 1>>, !.b = 2],
              [Default("brz", <<1, 2, 3, 4>>) EXCEPT !.c = <<5, 4>>, !.b = 2]} : r.algo \in MCAlgos}

-----------------------------------------------------------------------------
\* bmz and bmz8 do not answer a key whose hashes both give the last vertex (see
\* LastVertexWraps).
LastVertexTwice(k) ==
    /\ mphf # Null /\ mphf.algo \in {"bmz", "bmz8"}
    /\ \A i \in 1 .. 2 : hash(mphf.data.hashes[i], k) % mphf.data.n = mphf.data.n - 1

\* brz answers nothing after a try that failed (the sizes are not reset, and a head may
\* have been written), nor when a bucket is empty (nothing is written for it).
BrzStraight ==
    LET size == mphf.data.size
    IN  /\ \A b \in DOMAIN size : size[b] # 0
        /\ Fold(LAMBDA sum, b : sum + size[b], 0, Upto(mphf.data.k)) = m
        /\ Cardinality({i \in DOMAIN file : file[i].bytes = NameBytes["brz"]}) = 1

Answered ==
    IF mphf # Null /\ mphf.algo = "brz"
    THEN IF BrzStraight THEN 1 .. m ELSE {}
    ELSE {i \in 1 .. m : ~ LastVertexTwice(mph.keys[i])}

\* brz_pack cuts c to a whole number: its packed function is right for such a c only.
Tells_(c) == ~ (c = "packed" /\ mphf # Null /\ mphf.algo = "brz" /\ mphf.data.c[1] % mphf.data.c[2] # 0)

Promise == INSTANCE MPHF WITH
    Copies <- {"built", "loaded", "packed"}, None <- Null,
    keys <- Answered, nkeys <- m, load <- mph.keys_per_bin,
    minimal <- mph.algo \notin {"bdz_ph", "chd_ph"},
    size <- IF mphf = Null THEN 0 ELSE mphf.size,
    answers <- [c \in DOMAIN answers |->
        IF answers[c] = Null \/ ~ Tells_(c) THEN Null ELSE [i \in Answered |-> answers[c][i]]]

(* Refinement: what cmph_search and cmph_search_packed tell of the keys,    *)
(* before and after the function went through a file, is what MPHF         *)
(* promises; except for the keys and the functions above, which the code   *)
(* gets wrong.                                                             *)
KeepsPromise == Promise!Spec

\* With a single bin chd_ph looks for a prime between 0 and 1.
Loops == /\ mph.algo \in {"chd_ph", "chd"} /\ Bins(mph.c, mph.keys_per_bin, m) = 1
\* bmz8 divides by its number of vertices, which has wrapped to 0.
Divides == mph.algo = "bmz8" /\ pc = "undefined"

Returned == outer = << >> /\ pc \in {"failed", "built"}
\* The process ends: the buffers of brz, an assertion, or 256 edges at a vertex of bdz.
Crashed == pc \in {"overflow", "abort"} \/ (mph.algo = "brz" /\ pc = "undefined")

(* cmph_new returns, also for keys that have no perfect function: every     *)
(* loop of every algorithm counts its tries, those of brz for its buckets   *)
(* included, and what is left over from a try ends no other one.  Nothing   *)
(* else happens but the three crashes above, the search of chd_ph for a     *)
(* prime below 2 and the division of bmz8 by 0.                             *)
Returns == pc = "new" ~> (Returned \/ Crashed \/ Loops \/ Divides)

\* Spec with the weak fairness as such, for a small instance: Fairness of Cmph has
\* Working where TLC computes ENABLED Algorithm here.
FairSpec == CmphInit /\ [][Next]_vars /\ WF_vars(Algorithm)

(* cmph_new returns for any number of keys in a bin from 1 to 128, which is *)
(* what the usage of cmph allows (main.c:60-63, README:289-292).            *)
AlwaysReturns == pc = "new" ~> (Returned \/ Crashed)

-----------------------------------------------------------------------------
SeqTables == UNION {[0 .. n - 1 -> {0, 1, 2, 6}] : n \in 1 .. 3}
                \cup {[i \in 0 .. 17 |-> (i * a) % 7] : a \in 1 .. 6}

\* When no number is above 1 the Select has none, and select.c:128 reads one all the same.
RankTables == {t \in UNION {[0 .. n - 1 -> 0 .. 5] : n \in 1 .. 3} :
                   /\ \A i, j \in DOMAIN t : i < j => t[i] < t[j]
                   /\ t[Cardinality(DOMAIN t) - 1] > 1}
                \cup {[i \in 0 .. 11 |-> a * i + (i \div 3)] : a \in 1 .. 5}

SeqExact(t) ==
    \A cs \in {compressed_seq_generate(t, Cardinality(DOMAIN t))} :
        \A mem \in {compressed_seq_pack(cs)} : \A i \in DOMAIN t :
            /\ compressed_seq_query(cs, i) = t[i]
            /\ compressed_seq_query_packed(mem, 0, i) = t[i]

RankExact(t) ==
    \A cr \in {compressed_rank_generate(t, Cardinality(DOMAIN t))} :
        \A mem \in {compressed_rank_pack(cr)} : \A x \in 0 .. cr.max_val + 1 :
            \A below \in {Cardinality({i \in DOMAIN t : t[i] < x})} :
                /\ compressed_rank_query(cr, x) = below
                /\ compressed_rank_query_packed(mem, 0, x) = below

(* The bit strings of compressed_seq.c and compressed_rank.c, with select.c *)
(* below them, answer what the plain tables say, as built and as packed:    *)
(* also at the ends of words and steps, and for numbers of no bits.         *)
TablesExact ==
    pc = "config" /\ data.request = Default("chd", <<9>>) =>
        /\ \A t \in SeqTables : SeqExact(t)
        /\ \A t \in RankTables : RankExact(t)
=============================================================================
