---------------------------- MODULE CmphStructs -----------------------------
(***************************************************************************)
(* cmph-2.0/src: what the algorithms of the library share.  A caller makes *)
(* a config (cmph_structs.c) for its keys and an algorithm; the algorithm  *)
(* works in data and leaves a cmph_t in mphf, which can be dumped to a     *)
(* file, loaded again, and packed into one block of memory.                *)
(*                                                                         *)
(* A hash state is its seed (jenkins_hash.c); the hash itself is a         *)
(* parameter.  Files and packed memory are sequences of tokens, each a     *)
(* value and the number of bytes it takes: what is read with another size  *)
(* or from another place than it was written is Wild.  A cmph_uint32 has   *)
(* Word bits and a cmph_uint8 has Byte bits; sizes in bytes are not        *)
(* scaled.                                                                 *)
(***************************************************************************)
EXTENDS CTypes, Sequences, FiniteSets

CONSTANTS
    NoKey,       \* the key of no bytes
    Jenkins,     \* Jenkins[seed][key]: the three hash values of a key
    Requests,    \* what callers may choose: the source of the keys and the algorithm, and
                 \* c, b, keys_per_bin, memory and mphf_fd, 0 or FALSE for what they leave
    Word, Byte,  \* bits of cmph_uint32 and cmph_uint8: 32 and 8
    Log2,        \* Log2[n]: log2 of a number n, in thousandths
    Null         \* no function: NULL

VARIABLES
    mph,      \* the cmph_config_t: algorithm, c, keys
    data,     \* mph->data, while a function is made
    mphf,     \* the cmph_t, or Null
    pc,       \* what the library is doing
    file,     \* what cmph_dump has written
    packed,   \* the block that cmph_pack has filled
    outer,    \* the call of brz_new that has called cmph_new for a bucket, if there is one
    answers   \* what the callers were told by the function as it was built, as it was
              \* loaded, and by the packed one: a number for each key, or Null

cmphVars == <<mph, data, mphf, pc, file, packed, outer, answers>>

m == Len(mph.keys)     \* mph->key_source->nkeys

U32(x) == Unsigned(x, Word)
Number == 0 .. 2 ^ Word - 1

\* Arithmetic on what was read: nothing is known of a sum with an unknown number.
Plus(a, b) == IF Wild \in {a, b} THEN Wild ELSE U32(a + b)
Rem(a, b)  == IF Wild \in {a, b} \/ b = 0 THEN Wild ELSE a % b
CellOf(array, i) == IF i \in DOMAIN array THEN array[i] ELSE Wild

CeilDiv(a, b) == (a + b - 1) \div b
CeilTimes(c, k) == CeilDiv(c[1] * k, c[2])       \* ceil(c * k) of a rational c

\* op over a sequence from left to right.  (FoldLeft of SequencesExt compares all
\* indices with each other at every step.  What is so far is bound by \in, so that
\* TLC evaluates it once.)
Fold(op(_, _), base, seq) ==
    LET f[i \in 0 .. Len(seq)] ==
            IF i = 0 THEN base
            ELSE CHOOSE r \in {op(sofar, seq[i]) : sofar \in {f[i - 1]}} : r = r
    IN  f[Len(seq)]

\* op of a value, which TLC evaluates once.
With(value, op(_)) == CHOOSE r \in {op(x) : x \in {value}} : r = r

Upto(n) == [i \in 1 .. n |-> i - 1]              \* for (i = 0; i < n; ++i)

\* Those of a sequence that pass, in its order.  (Of SelectSeq the provers know nothing.)
Filter(seq, Passes(_)) == Fold(LAMBDA q, x : IF Passes(x) THEN Append(q, x) ELSE q, << >>, seq)

Concat(seqs) == Fold(LAMBDA q, s : q \o s, << >>, seqs)

-----------------------------------------------------------------------------
(* cmph.c: where the keys come from.  An adapter reads one key after the   *)
(* other from the caller's data, knows how many there are, and can be      *)
(* rewound; every pass of an algorithm over the keys starts with a rewind. *)
(* The caller's data is a sequence of keys: the elements of a vector, or   *)
(* the lines of a file, of which the last may lack its newline.  fgets     *)
(* reads a long line in pieces, which are put together again.              *)

\* The keys of a file end with a newline: what follows the last one is not counted.
count_nlfile_keys(lines, ended) == IF ended THEN Len(lines) ELSE Len(lines) - 1

cmph_io_nlfile_adapter(lines, ended) ==
    [kind |-> "file", vector |-> lines, ended |-> ended, position |-> 1,
     nkeys |-> count_nlfile_keys(lines, ended)]
\* The caller says how many keys there are.
cmph_io_nlnkfile_adapter(lines, ended, nkeys) ==
    [kind |-> "file", vector |-> lines, ended |-> ended, position |-> 1, nkeys |-> nkeys]
cmph_io_vector_adapter(vector) ==
    [kind |-> "vector", vector |-> vector, ended |-> TRUE, position |-> 1, nkeys |-> Len(vector)]
cmph_io_byte_vector_adapter(vector) ==
    [cmph_io_vector_adapter(vector) EXCEPT !.kind = "byte_vector"]
cmph_io_struct_vector_adapter(vector) ==
    [cmph_io_vector_adapter(vector) EXCEPT !.kind = "struct_vector"]

\* The next key; at the end of a file it is NULL and has no bytes.
key_nlfile_read(source) ==
    IF source.position <= count_nlfile_keys(source.vector, source.ended)
    THEN source.vector[source.position] ELSE NoKey
key_vector_read(source) == source.vector[source.position]
key_byte_vector_read(source) == source.vector[source.position]
key_struct_vector_read(source) == source.vector[source.position]

read(source) ==
    CASE source.kind = "file" -> key_nlfile_read(source)
      [] source.kind = "vector" -> key_vector_read(source)
      [] source.kind = "byte_vector" -> key_byte_vector_read(source)
      [] source.kind = "struct_vector" -> key_struct_vector_read(source)

key_nlfile_rewind(source) == [source EXCEPT !.position = 1]
key_vector_rewind(source) == [source EXCEPT !.position = 1]
rewind(source) ==
    IF source.kind = "file" THEN key_nlfile_rewind(source) ELSE key_vector_rewind(source)

\* A pass over the keys: every read goes on by one.
Keys(source) ==
    LET start == rewind(source)
    IN  [i \in 1 .. source.nkeys |-> read([start EXCEPT !.position = @ + i - 1])]

-----------------------------------------------------------------------------
(* hash.c and jenkins_hash.c *)

hash_state_new(size) == 0 .. size - 1            \* rand() % size
hash_vector(seed, k) == Jenkins[seed][k]
hash(seed, k) == Jenkins[seed][k][3]

(* cmph_structs.c and the tokens *)

W(bytes, v) == <<[bytes |-> bytes, val |-> v]>>
Array(bytes, n, cell) == [i \in 1 .. n |-> [bytes |-> bytes, val |-> cell[i - 1]]]

Size(mem) == Fold(LAMBDA sum, t : sum + t.bytes, 0, mem)

\* The i-th item of a file, read with the size given.
Read(f, i, bytes) ==
    IF i \in DOMAIN f /\ f[i].bytes = bytes THEN f[i].val ELSE Wild
ReadArray(f, i, n, bytes) ==
    IF n \in Number THEN [j \in 0 .. n - 1 |-> Read(f, i + j, bytes)] ELSE << >>

\* What is at a byte offset of packed memory; Seek: the first token at or after it.
Seek(mem, off) ==
    Fold(LAMBDA x, t : IF x.off >= off THEN x ELSE [i |-> x.i + 1, off |-> x.off + t.bytes],
         [i |-> 1, off |-> 0], mem)
At(mem, off, bytes) ==
    LET x == Seek(mem, off)
    IN  IF x.off = off /\ x.i <= Len(mem) /\ mem[x.i].bytes = bytes THEN mem[x.i].val ELSE Wild

\* The memory from a byte offset on.
From(mem, off) ==
    LET x == Seek(mem, off)
    IN  IF x.off = off THEN SubSeq(mem, x.i, Len(mem)) ELSE << >>

hash_state_packed_size == 4
hash_state_dump(seed) == W(4, 12) \o W(12, <<"jenkins", seed>>)
hash_state_load(f, i) ==
    LET state == Read(f, i + 1, 12)
    IN  IF Read(f, i, 4) = 12 /\ state # Wild THEN state[2] ELSE Wild
hash_state_pack(seed) == W(4, seed)
HashOf(seed, k) == IF seed = Wild THEN Wild ELSE hash(seed, k)

\* strlen of the name (the byte that ends it is left out), then the size.
NameBytes == [chm |-> 3, bmz |-> 3, bmz8 |-> 4, brz |-> 3, fch |-> 3,
              bdz |-> 3, bdz_ph |-> 6, chd_ph |-> 6, chd |-> 3]

\* Wild and Null are values of their own, every key has its hashes for every seed, and
\* the numbers of a request are those that the types of the code can hold.
ASSUME StructsAssumption ==
    /\ Byte \in Nat \ {0} /\ Word \in Nat /\ Byte <= Word
    /\ Null \notin Int \cup [algo : DOMAIN NameBytes, size : Int]
    /\ Wild \notin DOMAIN NameBytes \cup ({"jenkins"} \X Int)
    /\ Jenkins \in [DOMAIN Jenkins -> [DOMAIN Jenkins[0] -> Number \X Number \X Number]]
    /\ \A n \in Number \ {0} : Log2[n] \in Nat
    /\ \A r \in Requests : /\ r.b \in Nat /\ r.keys_per_bin \in Nat
                           /\ r.c \in Nat \X (Nat \ {0}) /\ r.source.nkeys \in Number \ {0}
                           /\ Keys(r.source) \in Seq(DOMAIN Jenkins[0])

cmph_dump_head(f) == W(NameBytes[f.algo], f.algo) \o W(4, f.size)

\* The name must be one of cmph_names; the data is loaded by the algorithm.
cmph_load_head(f) ==
    LET algos == {a \in DOMAIN NameBytes : Read(f, 1, NameBytes[a]) = a}
    IN  IF algos = {} THEN Null
        ELSE [algo |-> CHOOSE a \in algos : TRUE, size |-> Read(f, 2, 4)]

-----------------------------------------------------------------------------

Starts(algo) == pc = "new" /\ mph.algo = algo
Keeps == UNCHANGED <<mph, file, packed, outer, answers>>

\* The algorithm gives up and cmph_new returns NULL.
GiveUp == pc' = "failed" /\ data' = Null /\ UNCHANGED mphf

\* The algorithm returns a function.
Finish(d, size) ==
    /\ mphf' = [algo |-> mph.algo, size |-> size, data |-> d]
    /\ pc' = "built" /\ data' = Null

\* An assertion of the code fails.
Abort == pc' = "abort" /\ UNCHANGED <<data, mphf>>

\* Memory that is not the program's is used, or a file that is NULL, or a seed is
\* rand() % 0.
Undefined == pc' = "undefined" /\ UNCHANGED <<data, mphf>>

-----------------------------------------------------------------------------
(***************************************************************************)
(* cmph-2.0/src/graph.c: the graphs of chm, bmz and bmz8.  The linked list *)
(* of a vertex, first and next, is the sequence of its edges, the last one *)
(* added first; edge e joins ends[e][1] and ends[e][2].  The algorithms    *)
(* never add a self-loop, so that an edge is once in the list of each of   *)
(* its ends.                                                               *)
(***************************************************************************)

Nodes(g) == DOMAIN g.list
EdgesOf(g) == DOMAIN g.ends
FirstFree(g) == Cardinality(EdgesOf(g))      \* cedges

graph_new(nnodes) == [ends |-> << >>, list |-> [v \in 0 .. nnodes - 1 |-> << >>]]

graph_add_edge(g, v1, v2) ==
    LET e == FirstFree(g)
    IN  [ends |-> [d \in EdgesOf(g) \cup {e} |-> IF d = e THEN <<v1, v2>> ELSE g.ends[d]],
         list |-> [g.list EXCEPT ![v1] = <<e>> \o @, ![v2] = <<e>> \o @]]

check_edge(g, e, v1, v2) == g.ends[e] \in {<<v1, v2>>, <<v2, v1>>}

\* The first edge of the list of v1 that leads to v2.
graph_edge_id(g, v1, v2) ==
    LET l == g.list[v1]
        hits == {i \in DOMAIN l : check_edge(g, l[i], v1, v2)}
    IN  l[CHOOSE i \in hits : \A j \in hits : i <= j]

graph_contains_edge(g, v1, v2) ==
    \E i \in DOMAIN g.list[v1] : check_edge(g, g.list[v1][i], v1, v2)

\* graph_vertex_id: edges[e] is the second end of the edge, edges[e + nedges] the first.
graph_vertex_id(g, e, id) == g.ends[e][2 - id]

OtherEnd(g, e, v) == IF g.ends[e][2] = v THEN g.ends[e][1] ELSE g.ends[e][2]

\* What graph_next_neighbor gives until GRAPH_NO_NEIGHBOR.
Neighbors(g, v) == [i \in DOMAIN g.list[v] |-> OtherEnd(g, g.list[v][i], v)]

-----------------------------------------------------------------------------
(* The 2-core: edges at a vertex of degree one are deleted, one after the  *)
(* other along a path, from every vertex in turn.                          *)

Live(g, v, deleted) == {g.list[v][i] : i \in DOMAIN g.list[v]} \ deleted

\* The edges that find_degree1_edge finds: one or none.
find_degree1_edge(g, v, deleted) ==
    IF Cardinality(Live(g, v, deleted)) = 1 THEN Live(g, v, deleted) ELSE {}

\* The vertex that is looked at and the edges deleted so far: x.
DeleteEdge(g, x) ==
    LET found == find_degree1_edge(g, x[1], x[2])
        e == CHOOSE e \in found : TRUE
    IN  IF found = {} THEN x ELSE <<OtherEnd(g, e, x[1]), x[2] \cup {e}>>

\* From v along a path; each round of the loop deletes one edge.
cyclic_del_edge(g, v, deleted) ==
    LET at[i \in 0 .. FirstFree(g)] ==
            IF i = 0 THEN <<v, deleted>>
            ELSE CHOOSE next \in {DeleteEdge(g, x) : x \in {at[i - 1]}} : next = next
    IN  at[FirstFree(g)][2]

Core(g) ==
    EdgesOf(g) \ Fold(LAMBDA d, v : cyclic_del_edge(g, v, d), {}, Upto(Cardinality(Nodes(g))))

graph_is_cyclic(g) == Core(g) # {}

\* graph_obtain_critical_nodes: the ends of the edges of the 2-core.
CriticalNodes(g) == UNION {{g.ends[e][1], g.ends[e][2]} : e \in Core(g)}
=============================================================================
