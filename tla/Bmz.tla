--------------------------------- MODULE Bmz ---------------------------------
(***************************************************************************)
(* cmph-2.0/src/bmz.c, and with numbers of one byte bmz8.c (see Bmz8): an  *)
(* edge for each key in a graph that may have cycles.  The critical        *)
(* vertices, those of the 2-core, get numbers breadth first, with a        *)
(* lookahead that avoids sums in use; a sum that is too large restarts the *)
(* mapping step.  The other vertices get the sums that are left.           *)
(***************************************************************************)
EXTENDS CmphStructs

CONSTANTS
    Algo,           \* "bmz" or "bmz8"
    Width,          \* bits of n, m and the cells of g
    MapTries,       \* iterations, 100
    Restarts,       \* iterations_map, 20
    RoomPlus,       \* room in the queue: ncritical_nodes and this more
    RoomHalf        \* the heuristic's queue has room for half of that, plus one

Num(x) == Unsigned(x, Width)

BmzRatio == IF mph.c[1] = 0 THEN <<115, 100>> ELSE mph.c
BmzHeuristic == 100 * BmzRatio[1] <= 114 * BmzRatio[2]      \* not c > 1.14

BmzEnds(k, s1, s2, n) ==
    LET h1 == hash(s1, k) % n
        h2 == hash(s2, k) % n
    IN  <<h1, IF h1 = h2 THEN (h2 + 1) % n ELSE h2>>

\* The graph, or Null as soon as there is a self-loop or an edge comes twice.
bmz_gen_edges(s1, s2, n) ==
    Fold(LAMBDA g, k :
                LET e == BmzEnds(k, s1, s2, n)
                IN  IF g = Null \/ e[1] = e[2] THEN Null
                    ELSE IF graph_contains_edge(g, e[1], e[2]) THEN Null
                    ELSE graph_add_edge(g, e[1], e[2]),
             graph_new(n), mph.keys)

-----------------------------------------------------------------------------
(* The critical vertices.  t: the numbers g, the vertices that have one,   *)
(* the sums in use, the largest number and sum so far, the queue, the      *)
(* numbers that the heuristic keeps for later, and whether to stop.        *)

Sums(graph, t, crit, u, x) ==
    LET lav == SelectSeq(Neighbors(graph, u), LAMBDA w : w \in crit /\ w \in t.visited)
    IN  [i \in DOMAIN lav |-> x + t.g[lav[i]]]

\* What the lookahead says of x: the first neighbour that objects decides.
Outcome(graph, t, crit, u, x) ==
    LET s == Sums(graph, t, crit, u, x)
        bad == {i \in DOMAIN s : s[i] >= m \/ s[i] \in t.used}
    IN  IF bad = {} THEN "fits"
        ELSE IF s[CHOOSE i \in bad : \A j \in bad : i <= j] >= m THEN "restart"
        ELSE "collision"

Smallest(S) == CHOOSE x \in S : \A y \in S : x <= y

\* biggest_g_value + 1, and so on while it collides.
NextG(graph, t, crit, u) ==
    LET from == t.biggest_g + 1
    IN  Smallest({x \in from .. from + m : Outcome(graph, t, crit, u, x) # "collision"})

\* The number x for u marks the edges to the visited neighbours as used.
SetG(graph, t, crit, u, x, unused) ==
    LET s == Sums(graph, t, crit, u, x)
        sums == {s[i] : i \in DOMAIN s}
    IN  [t EXCEPT !.g[u] = x, !.visited = @ \cup {u}, !.used = @ \cup sums,
                  !.biggest_g = IF x > @ THEN x ELSE @,
                  !.biggest_edge = CHOOSE b \in sums \cup {@} :
                                       \A y \in sums \cup {@} : y <= b,
                  !.unused = unused,
                  !.queue = Append(@, u),
                  !.stop = IF Len(t.queue) < t.room THEN "no" ELSE "full"]

Label(graph, t, crit, u) ==
    LET x == NextG(graph, t, crit, u)
    IN  IF Outcome(graph, t, crit, u, x) = "restart" THEN [t EXCEPT !.stop = "restart"]
        ELSE SetG(graph, t, crit, u, x, t.unused)

\* First the numbers kept for later; a number that collides is kept, and the last
\* one fills the place of the number used.
LabelHeuristic(graph, t, crit, u) ==
    LET kept == {i \in DOMAIN t.unused :
                    Outcome(graph, t, crit, u, t.unused[i]) # "collision"}
        i == Smallest(kept)
        last == Len(t.unused)
        x == IF kept # {} THEN t.unused[i] ELSE NextG(graph, t, crit, u)
        passed == [j \in 1 .. x - t.biggest_g - 1 |-> t.biggest_g + j]
    IN  IF Outcome(graph, t, crit, u, x) = "restart" THEN [t EXCEPT !.stop = "restart"]
        ELSE SetG(graph, t, crit, u, x,
                  IF kept # {} THEN SubSeq([t.unused EXCEPT ![i] = t.unused[last]], 1, last - 1)
                  ELSE t.unused \o passed)

LabelNeighbors(graph, t, crit) ==
    LET v == Head(t.queue)
    IN  Fold(LAMBDA s, u :
                    IF s.stop # "no" \/ u \notin crit \/ u \in s.visited THEN s
                    ELSE IF BmzHeuristic THEN LabelHeuristic(graph, s, crit, u)
                    ELSE Label(graph, s, crit, u),
                 [t EXCEPT !.queue = Tail(@)], Neighbors(graph, v))

\* From a critical vertex v that has no number yet: breadth first.
bmz_traverse_critical_nodes(graph, t, crit, v) ==
    LET room == IF BmzHeuristic /\ RoomHalf THEN Cardinality(crit) \div 2 + 1
                ELSE Cardinality(crit) + RoomPlus
        start == [t EXCEPT !.g[v] = CeilDiv(t.biggest_edge, 2) - 1,
                           !.visited = @ \cup {v}, !.queue = <<v>>,
                           !.unused = << >>, !.room = room]
    IN  Fold(LAMBDA s, i : IF s.stop # "no" \/ s.queue = << >> THEN s
                               ELSE LabelNeighbors(graph, s, crit),
                 start, Upto(Cardinality(crit)))

CriticalNumbers(graph) ==
    LET crit == CriticalNodes(graph)
        none == [g |-> [v \in Nodes(graph) |-> 0], visited |-> {}, used |-> {},
                 biggest_g |-> 0, biggest_edge |-> 1,
                 queue |-> << >>, unused |-> << >>, room |-> 0, stop |-> "no"]
    IN  Fold(LAMBDA t, v : IF t.stop # "no" \/ v \notin crit \/ v \in t.visited THEN t
                               ELSE bmz_traverse_critical_nodes(graph, t, crit, v),
                 none, Upto(Cardinality(Nodes(graph))))

-----------------------------------------------------------------------------
(* The other vertices.  r: g, the vertices that have a number, and         *)
(* unused_edge_index; an index of m + 1 stands for the failed assertion    *)
(* that there is an edge left.                                             *)

(* a mutant: the search starts one edge too late *)
next_unused_edge_After(used, i) ==
    LET free == {e \in i + 1 .. m - 1 : e \notin used} IN IF free = {} THEN m + 1 ELSE Smallest(free)

next_unused_edge(used, i) ==
    LET free == {e \in i .. m - 1 : e \notin used} IN IF free = {} THEN m + 1 ELSE Smallest(free)

bmz_traverse(graph, used, v0, r0) ==
    LET Rest == [g : [Nodes(graph) -> Number], visited : SUBSET Nodes(graph), edge : 0 .. m + 1]
        Visit[x \in Nodes(graph) \X Rest] ==
            Fold(LAMBDA r, u :
                        LET e == next_unused_edge(used, r.edge)
                        IN  IF u \in r.visited THEN r
                            ELSE IF e > m THEN [r EXCEPT !.edge = e]
                            ELSE Visit[<<u, [g |-> [r.g EXCEPT ![u] = Num(e - r.g[x[1]])],
                                             visited |-> r.visited \cup {u},
                                             edge |-> e + 1]>>],
                     x[2], Neighbors(graph, x[1]))
    IN  Visit[<<v0, r0>>]

\* First from the edges with one numbered end, then from every vertex without a number.
bmz_traverse_non_critical_nodes(graph, t) ==
    LET start == [g |-> t.g, visited |-> t.visited, edge |-> 0]
        FromEdge(r, e) ==
            LET v1 == graph_vertex_id(graph, e, 0)
                v2 == graph_vertex_id(graph, e, 1)
            IN  IF (v1 \in r.visited) = (v2 \in r.visited) THEN r
                ELSE bmz_traverse(graph, t.used, IF v1 \in r.visited THEN v1 ELSE v2, r)
        FromVertex(r, v) ==
            IF v \in r.visited THEN r
            ELSE bmz_traverse(graph, t.used, v,
                              [r EXCEPT !.g[v] = 0, !.visited = @ \cup {v}])
    IN  Fold(FromVertex, Fold(FromEdge, start, Upto(m)), Upto(Cardinality(Nodes(graph))))

-----------------------------------------------------------------------------
BmzNew ==
    /\ Starts(Algo)
    /\ data' = [n |-> Num(CeilTimes(BmzRatio, m)), iterations |-> MapTries, restarts |-> Restarts,
                restart_mapping |-> FALSE]
    /\ pc' = "map"
    /\ UNCHANGED mphf /\ Keeps

BmzMap ==
    /\ pc = "map" /\ mph.algo = Algo
    /\ IF data.n = 0 THEN Undefined
       ELSE \E s1, s2 \in hash_state_new(data.n) :
          LET g == bmz_gen_edges(s1, s2, data.n)
          IN  IF g # Null
              THEN /\ pc' = "order" /\ UNCHANGED mphf
                   /\ data' = [n |-> data.n, restarts |-> data.restarts,
                               restart_mapping |-> data.restart_mapping,
                               hashes |-> <<s1, s2>>, graph |-> g]
              ELSE IF data.iterations > 1
              THEN data' = [data EXCEPT !.iterations = @ - 1] /\ UNCHANGED <<pc, mphf>>
              ELSE GiveUp
    /\ Keeps

\* restart_mapping after the traversal of the critical vertices: a graph that has none
\* leaves it as the last graph left it.
RestartMapping(graph, t, before) ==
    IF CriticalNodes(graph) = {} THEN before ELSE t.stop = "restart"

\* The ordering step and the critical part of the searching step.
BmzOrder ==
    /\ pc = "order" /\ mph.algo = Algo
    /\ LET t == CriticalNumbers(data.graph)
       IN  IF t.stop = "full" THEN Abort
           ELSE IF ~ RestartMapping(data.graph, t, data.restart_mapping)
           THEN /\ pc' = "search" /\ UNCHANGED mphf
                /\ data' = [n |-> data.n, hashes |-> data.hashes, graph |-> data.graph,
                            g |-> t.g, visited |-> t.visited, used |-> t.used]
           ELSE IF data.restarts > 1
           THEN /\ pc' = "map" /\ UNCHANGED mphf
                /\ data' = [n |-> data.n, iterations |-> MapTries, restarts |-> data.restarts - 1,
                            restart_mapping |-> TRUE]
           ELSE GiveUp
    /\ Keeps

\* The rest of the searching step.
BmzSearchStep ==
    /\ pc = "search" /\ mph.algo = Algo
    /\ LET r == bmz_traverse_non_critical_nodes(data.graph, data)
       IN  IF r.edge > m THEN Abort
           ELSE Finish([g |-> r.g, hashes |-> data.hashes, n |-> data.n, m |-> m], m)
    /\ Keeps

-----------------------------------------------------------------------------
\* Unlike the edges, a lookup sets h2 back to 0 only when it is beyond n.
BmzSearch(d, k) ==
    LET h1 == hash(d.hashes[1], k) % d.n
        h2 == hash(d.hashes[2], k) % d.n
        i2 == IF h1 # h2 THEN h2 ELSE IF h2 + 1 > d.n THEN 0 ELSE h2 + 1
        a == CellOf(d.g, h1)
        b == CellOf(d.g, i2)
    IN  IF Wild \in {a, b} THEN Wild ELSE Num(a + b)

\* num: bytes of n, m and the cells of g.
BmzDumpWith(f, num) ==
    cmph_dump_head(f) \o W(num, 2) \o hash_state_dump(f.data.hashes[1])
        \o hash_state_dump(f.data.hashes[2])
        \o W(num, f.data.n) \o W(num, f.data.m) \o Array(num, f.data.n, f.data.g)

BmzLoadWith(f, num) ==
    [hashes |-> [i \in 1 .. Read(f, 3, num) |-> hash_state_load(f, 2 + 2 * i)],
     n |-> Read(f, 8, num), m |-> Read(f, 9, num),
     g |-> ReadArray(f, 10, Read(f, 8, num), num)]

BmzPackWith(d, num) ==
    W(4, "jenkins") \o hash_state_pack(d.hashes[1])
        \o W(4, "jenkins") \o hash_state_pack(d.hashes[2])
        \o W(num, d.n) \o Array(num, d.n, d.g)

BmzSearchPackedWith(mem, k, num) ==
    LET n == At(mem, 16, num)
        h1 == hash(At(mem, 4, 4), k) % n
        h2 == hash(At(mem, 12, 4), k) % n
        i2 == IF h1 # h2 THEN h2 ELSE IF h2 + 1 > n THEN 0 ELSE h2 + 1
        a == At(mem, 16 + num + num * h1, num)
        b == At(mem, 16 + num + num * i2, num)
    IN  IF Wild \in {a, b} THEN Wild ELSE Num(a + b)

BmzDump(f) == BmzDumpWith(f, 4)
BmzLoad(f) == BmzLoadWith(f, 4)
BmzPack(d) == BmzPackWith(d, 4)
BmzPackedSize(d) == 4 + 2 * hash_state_packed_size + 3 * 4 + 4 * d.n
BmzSearchPacked(mem, k) == BmzSearchPackedWith(mem, k, 4)
=============================================================================
