-------------------------------- MODULE Bdz ---------------------------------
(***************************************************************************)
(* cmph-2.0/src/bdz.c: three vertices for each key, one in each third of   *)
(* the vertices; when the edges can be peeled off, one after the other at  *)
(* a vertex that no other edge has, g tells for each key which of its      *)
(* vertices is its own.  The rank of the vertex among the assigned ones is *)
(* the value of the key.                                                   *)
(***************************************************************************)
EXTENDS BitTables

CONSTANT
    BdzTries     \* iterations of bdz_new, 1000

UNASSIGNED == 3

BdzVertices(seed, k, r) ==
    LET hl == hash_vector(seed, k) IN <<hl[1] % r, (hl[2] % r) + r, (hl[3] % r) + 2 * r>>

\* edges: the vertices of each edge; live: the edges not removed.  A degree has a
\* byte; the list of a vertex starts with the edge added last.
EdgesAt(edges, live, v) == {e \in live : \E i \in 1 .. 3 : edges[e][i] = v}
vert_degree(edges, live, v) == Unsigned(Cardinality(EdgesAt(edges, live, v)), Byte)
first_edge(edges, live, v) ==
    CHOOSE e \in EdgesAt(edges, live, v) : \A d \in EdgesAt(edges, live, v) : d <= e

\* The queue: first the edges with a vertex of degree one, then, as an edge is
\* removed, those that remain alone at one of its vertices.
bdz_generate_queue(edges) ==
    LET all == DOMAIN edges
        start == SelectSeq(Upto(Cardinality(all)), LAMBDA e :
                    \E i \in 1 .. 3 : vert_degree(edges, all, edges[e][i]) = 1)
        Removed(queue, tail) == all \ {queue[i] : i \in 1 .. tail}
        Peel(queue, tail) ==
            LET v == edges[queue[tail]]
                live == Removed(queue, tail)
            IN  Fold(LAMBDA q, i :
                            IF vert_degree(edges, live, v[i]) # 1 THEN q
                            ELSE LET e == first_edge(edges, live, v[i])
                                 IN  IF \E j \in DOMAIN q : q[j] = e THEN q ELSE Append(q, e),
                         queue, <<1, 2, 3>>)
    IN  Fold(LAMBDA q, i : IF i + 1 > Len(q) THEN q ELSE Peel(q, i + 1),
                 start, Upto(Cardinality(all)))

\* The edges by number, and the queue if all of them are in it, or Null.
bdz_mapping(seed, r) ==
    LET edges == [e \in 0 .. m - 1 |-> BdzVertices(seed, mph.keys[e + 1], r)]
        queue == bdz_generate_queue(edges)
    IN  IF Len(queue) = m THEN [edges |-> edges, queue |-> queue] ELSE Null

\* The last edge removed comes first: its first vertex without a mark becomes its
\* own.  To set UNASSIGNED in an array of ones changes nothing.
assigning(graph, n) ==
    LET Own(t, after) ==
            LET v == graph.edges[graph.queue[Len(graph.queue) - after]]
                i == IF v[1] \notin t.marked THEN 1 ELSE IF v[2] \notin t.marked THEN 2 ELSE 3
                others == {v[1], v[2], v[3]} \ {v[i]}
                sum == Fold(LAMBDA s, u : IF u \in others THEN s + GETVALUE(t.g, u) ELSE s, 0, v)
            IN  [g |-> SETVALUE1(t.g, v[i], (5 + i - sum) % 3),
                 marked |-> t.marked \cup {v[1], v[2], v[3]}]
    IN  Fold(Own, [g |-> Bytes(n, UNASSIGNED), marked |-> {}], Upto(Len(graph.queue))).g

\* bdz_lookup_table: how many cells of a byte are assigned.
bdz_lookup_table(byte) == Cardinality({p \in 1 .. 4 : byte[p] # UNASSIGNED})
Assigned(g, from, to) ==
    Fold(LAMBDA s, j : s + bdz_lookup_table(g[from + j]), 0, Upto(to - from))

\* Every k vertices the number of those before that are assigned.
ranking(g, k, ranktablesize) == [i \in 0 .. ranktablesize - 1 |-> Assigned(g, 0, i * (k \div 4))]

-----------------------------------------------------------------------------
bdz_config_set_b(b) == IF b <= 2 \/ b > 10 THEN 7 ELSE b

BdzNew ==
    /\ Starts("bdz")
    /\ LET third == CeilTimes(IF mph.c[1] = 0 THEN <<123, 300>> ELSE <<mph.c[1], 3 * mph.c[2]>>, m)
           r == IF third % 2 = 0 THEN third + 1 ELSE third
       IN  data' = [r |-> r, n |-> 3 * r, b |-> mph.b, k |-> 2 ^ mph.b,
                    ranktablesize |-> CeilDiv(3 * r, 2 ^ mph.b), iterations |-> BdzTries]
    /\ pc' = "map"
    /\ UNCHANGED mphf /\ Keeps

BdzMap ==
    /\ pc = "map" /\ mph.algo = "bdz"
    /\ \E seed \in hash_state_new(15) :
          LET graph == bdz_mapping(seed, data.r)
          IN  IF graph # Null
              THEN /\ pc' = "assign" /\ UNCHANGED mphf
                   /\ data' = [r |-> data.r, n |-> data.n, b |-> data.b, k |-> data.k,
                               ranktablesize |-> data.ranktablesize, hl |-> seed, graph |-> graph]
              ELSE IF data.iterations > 1
              THEN data' = [data EXCEPT !.iterations = @ - 1] /\ UNCHANGED <<pc, mphf>>
              ELSE GiveUp
    /\ Keeps

\* The assigning and the ranking step.
BdzAssign ==
    /\ pc = "assign" /\ mph.algo = "bdz"
    /\ LET g == assigning(data.graph, data.n)
       IN  Finish([g |-> g, hl |-> data.hl, ranktable |-> ranking(g, data.k, data.ranktablesize),
                   ranktablesize |-> data.ranktablesize, k |-> data.k, b |-> data.b,
                   n |-> data.n, m |-> m, r |-> data.r], m)
    /\ Keeps

-----------------------------------------------------------------------------
(* a mutant: the cells of the last byte are not looked at *)
rank_WholeBytes(b, ranktable, g, vertex) ==
    LET index == vertex \div 2 ^ b
        whole == Assigned(g, (index * 2 ^ b) \div 4, vertex \div 4)
    IN  Plus(CellOf(ranktable, index), whole)

\* The entry of the table, then whole bytes, then the cells before the vertex.
rank(b, ranktable, g, vertex) ==
    LET index == vertex \div 2 ^ b
        whole == Assigned(g, (index * 2 ^ b) \div 4, vertex \div 4)
        cells == {v \in 4 * (vertex \div 4) .. vertex - 1 : GETVALUE(g, v) # UNASSIGNED}
    IN  Plus(CellOf(ranktable, index), whole + Cardinality(cells))

\* The vertex that g chooses for a key.
OwnVertex(g, v) ==
    LET values == [i \in 1 .. 3 |-> GETVALUE(g, v[i])]
    IN  IF Wild \in {values[1], values[2], values[3]} THEN Wild
        ELSE v[((values[1] + values[2] + values[3]) % 3) + 1]

BdzSearch(d, k) ==
    LET vertex == OwnVertex(d.g, BdzVertices(d.hl, k, d.r))
    IN  IF vertex = Wild THEN Wild ELSE rank(d.b, d.ranktable, d.g, vertex)

BdzDump(f) ==
    cmph_dump_head(f) \o hash_state_dump(f.data.hl)
        \o W(4, f.data.n) \o W(4, f.data.m) \o W(4, f.data.r)
        \o Array(1, CeilDiv(f.data.n, 4), f.data.g)
        \o W(4, f.data.k) \o W(1, f.data.b) \o W(4, f.data.ranktablesize)
        \o Array(4, f.data.ranktablesize, f.data.ranktable)

BdzLoad(f) ==
    LET n == Read(f, 5, 4)
        sizeg == CeilDiv(n, 4)
        at == 8 + sizeg
    IN  [hl |-> hash_state_load(f, 3), n |-> n, m |-> Read(f, 6, 4), r |-> Read(f, 7, 4),
         g |-> ReadArray(f, 8, sizeg, 1), k |-> Read(f, at, 4), b |-> Read(f, at + 1, 1),
         ranktablesize |-> Read(f, at + 2, 4),
         ranktable |-> ReadArray(f, at + 3, Read(f, at + 2, 4), 4)]

BdzPack(d) ==
    W(4, "jenkins") \o hash_state_pack(d.hl) \o W(4, d.r) \o W(4, d.ranktablesize)
        \o Array(4, d.ranktablesize, d.ranktable) \o W(1, d.b) \o Array(1, CeilDiv(d.n, 4), d.g)

BdzPackedSize(d) ==
    4 + hash_state_packed_size + 3 * 4 + 4 * d.ranktablesize + 1 + CeilDiv(d.n, 4)

BdzSearchPacked(mem, k) ==
    LET r == At(mem, 8, 4)
        size == At(mem, 12, 4)
        ranktable == [i \in 0 .. size - 1 |-> At(mem, 16 + 4 * i, 4)]
        g == [j \in 0 .. CeilDiv(3 * r, 4) - 1 |-> At(mem, 17 + 4 * size + j, 1)]
        vertex == OwnVertex(g, BdzVertices(At(mem, 4, 4), k, r))
    IN  IF vertex = Wild THEN Wild ELSE rank(At(mem, 16 + 4 * size, 1), ranktable, g, vertex)

-----------------------------------------------------------------------------
(***************************************************************************)
(* cmph-2.0/src/bdz_ph.c: bdz without the rank.  The value of a key is its *)
(* own vertex, a number below n; there is no UNASSIGNED, and five cells of *)
(* g are packed into a byte.                                               *)
(***************************************************************************)

CONSTANT
    BdzPhTries     \* iterations of bdz_ph_new, 100

\* The same graph as in bdz.
bdz_ph_generate_queue(edges) == bdz_generate_queue(edges)
bdz_ph_mapping(seed, r) == bdz_mapping(seed, r)

bdz_ph_assigning(graph, n) ==
    LET Own(t, after) ==
            LET v == graph.edges[graph.queue[Len(graph.queue) - after]]
                i == IF v[1] \notin t.marked THEN 1 ELSE IF v[2] \notin t.marked THEN 2 ELSE 3
                others == {v[1], v[2], v[3]} \ {v[i]}
                sum == Fold(LAMBDA s, u : IF u \in others THEN s + GETVALUE(t.g, u) ELSE s, 0, v)
            IN  [g |-> SETVALUE0(t.g, v[i], (5 + i - sum) % 3),
                 marked |-> t.marked \cup {v[1], v[2], v[3]}]
    IN  Fold(Own, [g |-> Bytes(n, 0), marked |-> {}], Upto(Len(graph.queue))).g

\* Five values of base three in a byte of eight bits.
bdz_ph_optimization(g, n) ==
    [j \in 0 .. CeilDiv(n, 5) - 1 |->
        Unsigned(Fold(LAMBDA byte, p : IF 5 * j + p < n THEN byte + GETVALUE(g, 5 * j + p) * 3 ^ p
                                           ELSE byte, 0, Upto(5)), 8)]

-----------------------------------------------------------------------------
BdzPhNew ==
    /\ Starts("bdz_ph")
    /\ LET third == CeilTimes(IF mph.c[1] = 0 THEN <<123, 300>> ELSE <<mph.c[1], 3 * mph.c[2]>>, m)
           r == IF third % 2 = 0 THEN third + 1 ELSE third
       IN  data' = [r |-> r, n |-> 3 * r, iterations |-> BdzPhTries]
    /\ pc' = "map"
    /\ UNCHANGED mphf /\ Keeps

BdzPhMap ==
    /\ pc = "map" /\ mph.algo = "bdz_ph"
    /\ \E seed \in hash_state_new(15) :
          LET graph == bdz_ph_mapping(seed, data.r)
          IN  IF graph # Null
              THEN /\ pc' = "assign" /\ UNCHANGED mphf
                   /\ data' = [r |-> data.r, n |-> data.n, hl |-> seed, graph |-> graph]
              ELSE IF data.iterations > 1
              THEN data' = [data EXCEPT !.iterations = @ - 1] /\ UNCHANGED <<pc, mphf>>
              ELSE GiveUp
    /\ Keeps

\* The assigning and the optimization step.
BdzPhAssign ==
    /\ pc = "assign" /\ mph.algo = "bdz_ph"
    /\ LET g == bdz_ph_assigning(data.graph, data.n)
       IN  Finish([g |-> bdz_ph_optimization(g, data.n), hl |-> data.hl,
                   n |-> data.n, m |-> m, r |-> data.r], data.n)
    /\ Keeps

-----------------------------------------------------------------------------
\* lookup_table[p][byte]: digit p of a byte.
lookup_table(p, byte) == (byte \div 3 ^ p) % 3

Digits(g, v) ==
    LET digit == [i \in 1 .. 3 |-> LET byte == CellOf(g, v[i] \div 5)
                                   IN IF byte = Wild THEN Wild ELSE lookup_table(v[i] % 5, byte)]
    IN  IF Wild \in {digit[1], digit[2], digit[3]} THEN Wild
        ELSE v[((digit[1] + digit[2] + digit[3]) % 3) + 1]

BdzPhSearch(d, k) == Digits(d.g, BdzVertices(d.hl, k, d.r))

BdzPhDump(f) ==
    cmph_dump_head(f) \o hash_state_dump(f.data.hl)
        \o W(4, f.data.n) \o W(4, f.data.m) \o W(4, f.data.r)
        \o Array(1, CeilDiv(f.data.n, 5), f.data.g)

BdzPhLoad(f) ==
    LET n == Read(f, 5, 4)
    IN  [hl |-> hash_state_load(f, 3), n |-> n, m |-> Read(f, 6, 4), r |-> Read(f, 7, 4),
         g |-> ReadArray(f, 8, CeilDiv(n, 5), 1)]

BdzPhPack(d) ==
    W(4, "jenkins") \o hash_state_pack(d.hl) \o W(4, d.r) \o Array(1, CeilDiv(d.n, 5), d.g)

BdzPhPackedSize(d) == 4 + hash_state_packed_size + 2 * 4 + CeilDiv(d.n, 5)

BdzPhSearchPacked(mem, k) ==
    LET r == At(mem, 8, 4)
        g == [j \in 0 .. CeilDiv(3 * r, 5) - 1 |-> At(mem, 12 + j, 1)]
    IN  Digits(g, BdzVertices(At(mem, 4, 4), k, r))
=============================================================================
