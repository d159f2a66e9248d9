--------------------------------- MODULE Chm ---------------------------------
(***************************************************************************)
(* cmph-2.0/src/chm.c: an edge for each key; when the graph is acyclic the *)
(* vertices get numbers whose sum at the ends of edge e is e.  The         *)
(* function keeps the order of the keys.                                   *)
(***************************************************************************)
EXTENDS CmphStructs

CONSTANT
    ChmTries     \* iterations of chm_new, 20

Unset == Null

\* The vertices for k keys: ceil(c * k), with 2.09 for c when it was not set.
ChmVertices(c, k) == CeilTimes(IF c[1] = 0 THEN <<209, 100>> ELSE c, k)

\* They can be counted, and are the seeds to choose from.
ASSUME ChmAssumption ==
    /\ ChmTries \in Nat
    /\ \A r \in Requests : r.algo = "chm" =>
          LET n == ChmVertices(r.c, r.source.nkeys)
          IN  n \in Number /\ 0 .. n - 1 \subseteq DOMAIN Jenkins

\* h2 moves on when it equals h1; with one vertex the self-loop stays.
ChmEnds(k, s1, s2, n) ==
    LET h1 == hash(s1, k) % n
        h2 == hash(s2, k) % n
    IN  <<h1, IF h1 = h2 THEN (h2 + 1) % n ELSE h2>>

\* The graph, or Null for a self-loop or a cycle.
chm_gen_edges(s1, s2, n) ==
    LET ends == [i \in 1 .. m |-> ChmEnds(mph.keys[i], s1, s2, n)]
        g == Fold(LAMBDA gr, e : graph_add_edge(gr, e[1], e[2]), graph_new(n), ends)
    IN  IF \E i \in 1 .. m : ends[i][1] = ends[i][2] THEN Null
        ELSE IF graph_is_cyclic(g) THEN Null ELSE g

\* Depth first; a vertex is visited when it has a number.  From v, with the numbers g0,
\* to its neighbors; visit[<<u, g>>] goes on from u.
ChmNeighbors(graph, visit, v, g0) ==
    Fold(LAMBDA g, u :
             IF g[u] # Unset THEN g
             ELSE visit[<<u, [g EXCEPT ![u] = U32(graph_edge_id(graph, v, u) - g[v])]>>],
         g0, Neighbors(graph, v))

\* Visit[d][<<v, g>>]: from v, which has a number.  The recursion is never deeper than
\* there are vertices.
chm_traverse(graph, v0, g0) ==
    LET Cells == [Nodes(graph) -> Number \cup {Unset}]
        Started == {x \in Nodes(graph) \X Cells : x[2][x[1]] # Unset}
        Visit[d \in 0 .. Cardinality(Nodes(graph))] ==
            [x \in Started |-> IF d = 0 THEN x[2] ELSE ChmNeighbors(graph, Visit[d - 1], x[1], x[2])]
    IN  Visit[Cardinality(Nodes(graph))][<<v0, g0>>]

\* The assignment step.
ChmNumbers(graph) ==
    Fold(LAMBDA g, v :
                IF g[v] # Unset THEN g ELSE chm_traverse(graph, v, [g EXCEPT ![v] = 0]),
             [v \in Nodes(graph) |-> Unset], Upto(Cardinality(Nodes(graph))))

-----------------------------------------------------------------------------
ChmNew ==
    /\ Starts("chm")
    /\ data' = [n |-> ChmVertices(mph.c, m), iterations |-> ChmTries]
    /\ pc' = "map"
    /\ UNCHANGED mphf /\ Keeps

\* One round of the mapping step: new seeds and a new graph.
ChmMap ==
    /\ pc = "map" /\ mph.algo = "chm"
    /\ \E s1, s2 \in hash_state_new(data.n) :
          LET g == chm_gen_edges(s1, s2, data.n)
          IN  IF g # Null
              THEN /\ pc' = "assign" /\ UNCHANGED mphf
                   /\ data' = [n |-> data.n, hashes |-> <<s1, s2>>, graph |-> g]
              ELSE IF data.iterations > 1
              THEN data' = [data EXCEPT !.iterations = @ - 1] /\ UNCHANGED <<pc, mphf>>
              ELSE GiveUp
    /\ Keeps

ChmAssign ==
    /\ pc = "assign" /\ mph.algo = "chm"
    /\ Finish([g |-> ChmNumbers(data.graph), hashes |-> data.hashes, n |-> data.n, m |-> m], m)
    /\ Keeps

-----------------------------------------------------------------------------
\* The two cells of g that a lookup adds.
GSum(g, h1, h2) == Plus(CellOf(g, h1), CellOf(g, h2))

ChmSearch(d, k) ==
    LET ends == ChmEnds(k, d.hashes[1], d.hashes[2], d.n)
    IN  Rem(GSum(d.g, ends[1], ends[2]), d.m)

ChmDump(f) ==
    cmph_dump_head(f) \o W(4, 2) \o hash_state_dump(f.data.hashes[1])
        \o hash_state_dump(f.data.hashes[2])
        \o W(4, f.data.n) \o W(4, f.data.m) \o Array(4, f.data.n, f.data.g)

(* a mutant: m is read before n *)
ChmLoad_MFirst(f) ==
    [hashes |-> [i \in 1 .. Read(f, 3, 4) |-> hash_state_load(f, 2 + 2 * i)],
     n |-> Read(f, 9, 4), m |-> Read(f, 8, 4), g |-> ReadArray(f, 10, Read(f, 9, 4), 4)]

\* After the name and the size: the number of hashes, the hashes, n, m and g.
ChmLoad(f) ==
    [hashes |-> [i \in 1 .. Read(f, 3, 4) |-> hash_state_load(f, 2 + 2 * i)],
     n |-> Read(f, 8, 4), m |-> Read(f, 9, 4), g |-> ReadArray(f, 10, Read(f, 8, 4), 4)]

ChmPack(d) ==
    W(4, "jenkins") \o hash_state_pack(d.hashes[1])
        \o W(4, "jenkins") \o hash_state_pack(d.hashes[2])
        \o W(4, d.n) \o W(4, d.m) \o Array(4, d.n, d.g)

ChmPackedSize(d) == 4 + 2 * hash_state_packed_size + 4 * 4 + 4 * d.n

ChmSearchPacked(mem, k) ==
    LET n == At(mem, 16, 4)
        ends == ChmEnds(k, At(mem, 4, 4), At(mem, 12, 4), n)
    IN  Rem(Plus(At(mem, 24 + 4 * ends[1], 4), At(mem, 24 + 4 * ends[2], 4)), At(mem, 20, 4))
=============================================================================
