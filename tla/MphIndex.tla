------------------------------- MODULE MphIndex ------------------------------
(***************************************************************************)
(* cmph-2.0/cxxmph/mph_index.h, mph_index.cc, trigraph.cc and mph_bits.h:  *)
(* the perfect hash function below the C++ maps.  Each key is an edge of   *)
(* three vertices; when all edges can be peeled off, two bits for each     *)
(* vertex choose one vertex of each edge.  FlexibleMPHIndex answers the    *)
(* vertex ("unordered"; "dense", with a power of two instead of a          *)
(* remainder) or its rank among the chosen ones ("sparse").                *)
(***************************************************************************)
EXTENDS Integers, FiniteSets, Sequences

CONSTANTS
    IndexKey,     \* the keys that may be hashed
    Seeds,        \* the values of random()
    Hash128,      \* Hash128[seed][key]: three words of the hash of the key
    RankBits,     \* b_, 7: bits of the step of the rank table
    DegreeBits    \* 8: bits of the degree of a vertex

ASSUME IndexAssumption ==
    /\ Hash128 \in [Seeds -> [IndexKey -> [1 .. 3 -> Nat]]]
    /\ RankBits \in Nat /\ DegreeBits \in Nat \ {0}

kUnassigned == 3

CeilOf(a, b) == (a + b - 1) \div b
PowersOfTwo == {2 ^ i : i \in 0 .. 30}
nextpoweroftwo(k) == CHOOSE p \in PowersOfTwo : p >= k /\ \A q \in PowersOfTwo : q >= k => p <= q

\* The vertices of each of the three parts, for m keys.
PartSize(square, m) ==
    LET third == CeilOf(123 * m, 300)
        r == IF third % 2 = 0 THEN third + 1 ELSE third
    IN  IF square THEN nextpoweroftwo(r) ELSE r

Edge(seed, k, r) == [i \in 1 .. 3 |-> (Hash128[seed][k][i] % r) + (i - 1) * r]

-----------------------------------------------------------------------------
\* TriGraph: edges are numbered as they are added; live are those not removed.  The
\* list of a vertex begins with the edge added last.
EdgesOf(edges, live, v) == {e \in live : \E i \in 1 .. 3 : edges[e][i] = v}
vertex_degree(edges, live, v) == Cardinality(EdgesOf(edges, live, v)) % 2 ^ DegreeBits
first_edge(edges, live, v) ==
    CHOOSE e \in EdgesOf(edges, live, v) : \A d \in EdgesOf(edges, live, v) : d <= e

\* The edges with a vertex that no other edge has begin the queue.
Started(edges) ==
    LET start[e \in 0 .. Len(edges)] ==
            IF e = 0 THEN << >>
            ELSE IF \E i \in 1 .. 3 : vertex_degree(edges, DOMAIN edges, edges[e][i]) = 1
                 THEN Append(start[e - 1], e) ELSE start[e - 1]
    IN  start[Len(edges)]

\* The one edge left at vertex v is queued, unless it is already.
Loose(edges, queue, live, v) ==
    IF vertex_degree(edges, live, v) # 1 THEN queue
    ELSE LET e == first_edge(edges, live, v)
         IN  IF \E p \in DOMAIN queue : queue[p] = e THEN queue ELSE Append(queue, e)

\* The edge queue[tail] is removed.
Peel(edges, queue, tail) ==
    IF tail > Len(queue) THEN queue
    ELSE LET live == DOMAIN edges \ {queue[p] : p \in 1 .. tail}
             v == edges[queue[tail]]
             OneLoose == Loose(edges, queue, live, v[1])
             TwoLoose == Loose(edges, OneLoose, live, v[2])
         IN  Loose(edges, TwoLoose, live, v[3])

\* The edges in the order in which they can be removed: each has a vertex that none
\* of the later ones touches.  Shorter than edges when some cannot be.
GenerateQueue(edges) ==
    LET peeled[tail \in 0 .. Len(edges)] ==
            IF tail = 0 THEN Started(edges) ELSE Peel(edges, peeled[tail - 1], tail)
    IN  peeled[Len(edges)]

\* The first vertex of edge e that no edge before it touched is made its own.
Own(edges, t, e) ==
    LET v == edges[e]
        i == IF v[1] \notin t.marked THEN 1 ELSE IF v[2] \notin t.marked THEN 2 ELSE 3
        others == IF i = 1 THEN t.g[v[2]] + t.g[v[3]]
                  ELSE IF i = 2 THEN t.g[v[1]] + t.g[v[3]] ELSE t.g[v[1]] + t.g[v[2]]
    IN  [g |-> [t.g EXCEPT ![v[i]] = (5 + i - others) % 3],
         marked |-> t.marked \cup {v[1], v[2], v[3]}]

\* g_: two bits for each vertex, with the padding of the last byte, all ones at first.
Blank(n) == [g |-> [v \in 0 .. 4 * CeilOf(n, 4) - 1 |-> kUnassigned], marked |-> {}]

\* The edges get their own vertices in the opposite order of their removal.
Assigning(n, edges, queue) ==
    LET done[i \in 0 .. Len(queue)] ==
            IF i = 0 THEN Blank(n) ELSE Own(edges, done[i - 1], queue[Len(queue) + 1 - i])
    IN  done[Len(queue)].g

AssignedIn(g, from, to) == Cardinality({v \in from .. to - 1 : g[v] # kUnassigned})

\* Every 2^b_ vertices, how many of those before are assigned.
Ranking(n, g) ==
    [i \in 0 .. CeilOf(n, 2 ^ RankBits) - 1 |-> AssignedIn(g, 0, i * 2 ^ RankBits)]

(* a mutant: the cells of the last byte are not looked at *)
Rank_WholeBytes(ranktable, g, vertex) ==
    LET i == vertex \div 2 ^ RankBits
    IN  ranktable[i] + AssignedIn(g, i * 2 ^ RankBits, 4 * (vertex \div 4))

Rank(ranktable, g, vertex) ==
    LET i == vertex \div 2 ^ RankBits
    IN  ranktable[i] + AssignedIn(g, i * 2 ^ RankBits, vertex)

-----------------------------------------------------------------------------
\* The seed whose graph can be peeled: Mapping, Assigning and Ranking.
Mapped(seed, keys, r) ==
    LET edges == [e \in DOMAIN keys |-> Edge(seed, keys[e], r)]
    IN  Len(GenerateQueue(edges)) = Len(keys)

perfect_hash(seed, r, g, k) ==
    LET v == Edge(seed, k, r)
    IN  v[((g[v[1]] + g[v[2]] + g[v[3]]) % 3) + 1]

\* size() and index() of a FlexibleMPHIndex, after Reset with this seed.  The numbers
\* begin with 1.
Function(class, seed, keys) ==
    LET r == PartSize(class = "dense", Len(keys))
        n == 3 * r
        edges == [e \in DOMAIN keys |-> Edge(seed, keys[e], r)]
        g == Assigning(n, edges, GenerateQueue(edges))
        ranktable == Ranking(n, g)
        vertex == [k \in IndexKey |-> perfect_hash(seed, r, g, k)]
    IN  IF class = "sparse"
        THEN [n |-> Len(keys), id |-> [k \in IndexKey |-> Rank(ranktable, g, vertex[k]) + 1]]
        ELSE [n |-> n, id |-> [k \in IndexKey |-> vertex[k] + 1]]

\* What Reset can make of the keys, in the order in which it meets them: a function for
\* each seed whose graph can be peeled.  Without such a seed all tries fail.
ResetIndex(class, keys) ==
    LET r == PartSize(class = "dense", Len(keys))
    IN  {Function(class, s, keys) : s \in {t \in Seeds : Mapped(t, keys, r)}}
=============================================================================
