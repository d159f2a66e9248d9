----------------------------- MODULE Chm_proofs -----------------------------
(***************************************************************************)
(* chm of cmph: what chm_new makes of an acyclic graph, and that it is     *)
(* found again in the function, in its file and in its packed block.       *)
(*                                                                         *)
(*   loops     a function over the rounds of a loop exists and keeps what  *)
(*             its rounds keep (Runs, Loop)                                *)
(*   graph     graph_add_edge makes the edges of the keys (GraphBuilt);    *)
(*             when the peeling leaves none the graph is a forest          *)
(*             (CoreIs, AcyclicIsForest), and so is each part of it: a set *)
(*             of vertices has fewer edges inside than vertices            *)
(*             (ForestCount)                                               *)
(*   numbers   the search from a vertex numbers a tree: a neighbor that    *)
(*             has a number already is the one the search came from, for   *)
(*             another edge would close a cycle (AddChild); so the two     *)
(*             numbers of each edge add up to it (NumbersRight)            *)
(*   file      the tokens that chm_dump writes, one by one, are those that *)
(*             chm_load reads (ChmDumpIs, ChmLoadIs)                       *)
(*   packed    the same for chm_pack and chm_search_packed (ChmPackIs,     *)
(*             ChmPackedFinds), where bytes are counted (SeekIs)           *)
(***************************************************************************)
EXTENDS Chm, Induction

\* The one element of a set is chosen.
LEMMA OnlyOne ==
    ASSUME NEW w, NEW T, T = {w}
    PROVE  (CHOOSE r \in T : r = r) = w
  OBVIOUS

Runs(f, n, b, S, step) ==
    /\ DOMAIN f = 0 .. n /\ f = [i \in 0 .. n |-> f[i]]
    /\ f[0] = b
    /\ \A i \in 1 .. n : f[i] = step[<<f[i - 1], i>>]
    /\ \A i \in 0 .. n : f[i] \in S[i]

\* A loop whose rounds stay in the sets S[i] is a function.
LEMMA Loop ==
    ASSUME NEW n \in Nat, NEW b, NEW S, NEW step, b \in S[0],
           \A i \in 1 .. n : \A x \in S[i - 1] : step[<<x, i>>] \in S[i]
    PROVE  \E f : Runs(f, n, b, S, step)
<1> DEFINE V == UNION {S[i] : i \in 0 .. n} \cup {b}
           V2 == V \cup {step[p] : p \in V \X (1 .. n)}
           st == [p \in V2 \X (1 .. n) |-> IF p[1] \in V THEN step[<<p[1], p[2]>>] ELSE b]
<1>1. st \in [V2 \X (1 .. n) -> V2]
  <2> SUFFICES ASSUME NEW p \in V2 \X (1 .. n) PROVE st[p] \in V2
    OBVIOUS
  <2>1. p[1] \in V2 /\ p[2] \in 1 .. n
    OBVIOUS
  <2>0. b \in V2 /\ \A q \in V \X (1 .. n) : step[q] \in V2
    OBVIOUS
  <2> HIDE DEF V2, V
  <2>2. CASE p[1] \in V
    <3>1. <<p[1], p[2]>> \in V \X (1 .. n)
      BY <2>1, <2>2
    <3> QED
      BY <2>0, <2>2, <3>1
  <2>3. CASE p[1] \notin V
    BY <2>0, <2>3
  <2> QED
    BY <2>2, <2>3
<1>2. b \in V2 /\ b \in V
  OBVIOUS
<1> HIDE DEF V2, st
<1>3. PICK f : IsLoop(f, n, V2, b, st)
  BY <1>1, <1>2, Rounds
<1>4. f \in [0 .. n -> V2] /\ f[0] = b /\ \A i \in 1 .. n : f[i] = st[<<f[i - 1], i>>]
  BY <1>3 DEF IsLoop
<1>5. ASSUME NEW i \in 1 .. n, f[i - 1] \in S[i - 1]
      PROVE  f[i] = step[<<f[i - 1], i>>] /\ f[i] \in S[i]
  <2>1. f[i - 1] \in V /\ f[i - 1] \in V2
    <3>1. i - 1 \in 0 .. n
      OBVIOUS
    <3> QED
      BY <1>4, <1>5, <3>1
  <2>2. f[i] = step[<<f[i - 1], i>>]
    <3>1. <<f[i - 1], i>> \in V2 \X (1 .. n)
      BY <2>1
    <3>2. st[<<f[i - 1], i>>] = step[<<f[i - 1], i>>]
      BY <2>1, <3>1 DEF st
    <3> QED
      BY <1>4, <3>2
  <2> QED
    BY <1>5, <2>2
<1>6. \A i \in 0 .. n : f[i] \in S[i]
  <2>1. \A i \in 1 .. n : f[i - 1] \in S[i - 1] => f[i] \in S[i]
    BY <1>5
  <2>2. f[0] \in S[0]
    BY <1>4
  <2> QED
    BY <2>1, <2>2, RoundsKeep
<1>7. \A i \in 1 .. n : f[i] = step[<<f[i - 1], i>>]
  <2> SUFFICES ASSUME NEW i \in 1 .. n PROVE f[i] = step[<<f[i - 1], i>>]
    OBVIOUS
  <2>1. i - 1 \in 0 .. n
    OBVIOUS
  <2> QED
    BY <1>5, <1>6, <2>1
<1>8. DOMAIN f = 0 .. n /\ f = [i \in 0 .. n |-> f[i]]
  BY <1>4
<1> QED
  BY <1>4, <1>6, <1>7, <1>8 DEF Runs
-----------------------------------------------------------------------------
Ends(g, e) == {g.ends[e][1], g.ends[e][2]}

Has_(s, x) == \E i \in DOMAIN s : s[i] = x

\* A graph on the vertices V with k edges.
IsGraph(g, V, k) ==
    /\ g.ends \in [0 .. k - 1 -> V \X V]
    /\ g.list \in [V -> Seq(0 .. k - 1)]
    /\ \A v \in V, e \in 0 .. k - 1 : Has_(g.list[v], e) <=> v \in Ends(g, e)

\* An edge in front of the list of a vertex.
LEMMA Prepend ==
    ASSUME NEW k \in Nat, NEW s \in Seq(0 .. k)
    PROVE  /\ <<k>> \o s \in Seq(0 .. k)
           /\ \A e : Has_(<<k>> \o s, e) <=> e = k \/ Has_(s, e)
<1> DEFINE t == <<k>> \o s
<1>1. t \in Seq(0 .. k) /\ Len(t) = Len(s) + 1 /\ DOMAIN t = 1 .. Len(s) + 1 /\ DOMAIN s = 1 .. Len(s)
  OBVIOUS
<1>2. t[1] = k /\ \A i \in 1 .. Len(s) : t[i + 1] = s[i]
  OBVIOUS
<1> HIDE DEF t
<1>3. \A i \in 2 .. Len(s) + 1 : i - 1 \in 1 .. Len(s) /\ t[i] = s[i - 1]
  <2> TAKE i \in 2 .. Len(s) + 1
  <2>1. i - 1 \in 1 .. Len(s) /\ (i - 1) + 1 = i
    BY <1>1
  <2> QED
    BY <1>2, <2>1
<1>4. ASSUME NEW e, Has_(t, e) PROVE e = k \/ Has_(s, e)
  <2>1. PICK i \in 1 .. Len(s) + 1 : t[i] = e
    BY <1>1, <1>4 DEF Has_
  <2>2. i = 1 \/ i \in 2 .. Len(s) + 1
    BY <1>1, <2>1
  <2> QED
    BY <1>1, <1>2, <1>3, <2>1, <2>2 DEF Has_
<1>5. ASSUME NEW e, e = k \/ Has_(s, e) PROVE Has_(t, e)
  <2>1. CASE e = k
    <3>1. 1 \in DOMAIN t
      BY <1>1
    <3> QED
      BY <1>2, <2>1, <3>1 DEF Has_
  <2>2. CASE Has_(s, e)
    <3>1. PICK i \in 1 .. Len(s) : s[i] = e
      BY <1>1, <2>2 DEF Has_
    <3>2. i + 1 \in DOMAIN t /\ t[i + 1] = e
      BY <1>1, <1>2, <3>1
    <3> QED
      BY <3>2 DEF Has_
  <2> QED
    BY <1>5, <2>1, <2>2
<1> QED
  BY <1>1, <1>4, <1>5 DEF t

\* h has the edges of g and one more, number k.
OneMore(h, g, k, v1, v2) == h.ends[k] = <<v1, v2>> /\ \A e \in 0 .. k - 1 : h.ends[e] = g.ends[e]

\* graph_add_edge keeps the lists and the ends of a graph in step.
LEMMA AddEdge ==
    ASSUME NEW V, NEW k \in Nat, NEW g, IsGraph(g, V, k), NEW v1 \in V, NEW v2 \in V, v1 # v2
    PROVE  /\ IsGraph(graph_add_edge(g, v1, v2), V, k + 1)
           /\ OneMore(graph_add_edge(g, v1, v2), g, k, v1, v2)
<1> DEFINE h == graph_add_edge(g, v1, v2)
<1>1. EdgesOf(g) = 0 .. k - 1 /\ FirstFree(g) = k
  <2>1. EdgesOf(g) = 0 .. k - 1
    BY DEF IsGraph, EdgesOf
  <2>2. Cardinality(0 .. k - 1) = IF 0 > k - 1 THEN 0 ELSE k - 1 - 0 + 1
    BY FS_Interval
  <2> QED
    BY <2>1, <2>2 DEF FirstFree
<1>2. /\ h.ends = [d \in 0 .. k |-> IF d = k THEN <<v1, v2>> ELSE g.ends[d]]
      /\ h.list = [g.list EXCEPT ![v1] = <<k>> \o @, ![v2] = <<k>> \o @]
  <2>1. (0 .. k - 1) \cup {k} = 0 .. k
    OBVIOUS
  <2> QED
    BY <1>1, <2>1 DEF graph_add_edge
<1> HIDE DEF h
<1>3. h.ends \in [0 .. (k + 1) - 1 -> V \X V] /\ EdgesOf(h) = 0 .. k
  BY <1>2 DEF IsGraph, EdgesOf
<1>5. g.list \in [V -> Seq(0 .. k)]
  <2>1. \A s \in Seq(0 .. k - 1) : s \in Seq(0 .. k)
    OBVIOUS
  <2> QED
    BY <2>1 DEF IsGraph
<1>4. \A s \in Seq(0 .. k) : /\ <<k>> \o s \in Seq(0 .. k)
                            /\ \A e : Has_(<<k>> \o s, e) <=> e = k \/ Has_(s, e)
  BY Prepend
<1>6. h.list \in [V -> Seq(0 .. (k + 1) - 1)]
  <2> SUFFICES ASSUME NEW v \in V PROVE h.list[v] \in Seq(0 .. k)
    <3>1. (k + 1) - 1 = k
      OBVIOUS
    <3>2. h.list = [v \in V |-> h.list[v]]
      BY <1>2, <1>5
    <3> QED
      BY <3>1, <3>2
  <2>1. h.list[v] = g.list[v] \/ h.list[v] = <<k>> \o g.list[v]
    BY <1>2, <1>5
  <2> QED
    BY <1>4, <1>5, <2>1
<1>7. ASSUME NEW v \in V, NEW e \in 0 .. k PROVE Has_(h.list[v], e) <=> v \in Ends(h, e)
  <2>2. Has_(h.list[v], e) <=> Has_(g.list[v], e) \/ (e = k /\ v \in {v1, v2})
    <3>1. CASE v \notin {v1, v2}
      <4>1. h.list[v] = g.list[v]
        BY <1>2, <1>5, <3>1
      <4> QED
        BY <3>1, <4>1
    <3>2. CASE v \in {v1, v2}
      <4>1. h.list[v] = <<k>> \o g.list[v]
        BY <1>2, <1>5, <3>2
      <4> QED
        BY <3>2, <4>1, <1>4, <1>5
    <3> QED
      BY <3>1, <3>2
  <2>3. e # k => Ends(h, e) = Ends(g, e) /\ e \in 0 .. k - 1
    BY <1>2 DEF Ends
  <2>4. e = k => Ends(h, e) = {v1, v2}
    BY <1>2 DEF Ends
  <2>5. ~ Has_(g.list[v], k)
    <3>1. g.list[v] \in Seq(0 .. k - 1)
      BY DEF IsGraph
    <3>2. k \notin 0 .. k - 1
      OBVIOUS
    <3> QED
      BY <3>1, <3>2 DEF Has_
  <2>6. e # k => (Has_(g.list[v], e) <=> v \in Ends(g, e))
    BY <2>3 DEF IsGraph
  <2> QED
    BY <2>2, <2>3, <2>4, <2>5, <2>6
<1>8. h.ends[k] = <<v1, v2>> /\ \A e \in 0 .. k - 1 : h.ends[e] = g.ends[e]
  BY <1>2
<1>9. IsGraph(h, V, k + 1)
  <2>1. (k + 1) - 1 = k
    OBVIOUS
  <2> QED
    BY <1>3, <1>6, <1>7, <2>1 DEF IsGraph
<1> QED
  BY <1>8, <1>9 DEF h, OneMore
\* The graphs on V with k edges.
Graphs_(V, k) ==
    {g \in [ends : [0 .. k - 1 -> V \X V], list : [V -> Seq(0 .. k - 1)]] : IsGraph(g, V, k)}

GraphOf(n, s) == Fold(LAMBDA gr, e : graph_add_edge(gr, e[1], e[2]), graph_new(n), s)

\* The graph that was built has the edges that were added, by number.
LEMMA GraphBuilt ==
    ASSUME NEW n \in Nat, NEW s \in Seq((0 .. n - 1) \X (0 .. n - 1)),
           \A i \in 1 .. Len(s) : s[i][1] # s[i][2]
    PROVE  /\ IsGraph(GraphOf(n, s), 0 .. n - 1, Len(s))
           /\ \A i \in 1 .. Len(s) : GraphOf(n, s).ends[i - 1] = s[i]
<1> DEFINE V == 0 .. n - 1
           k == Len(s)
           Body(f) == [i \in 0 .. k |-> IF i = 0 THEN graph_new(n)
                          ELSE CHOOSE r \in {graph_add_edge(x, s[i][1], s[i][2]) : x \in {f[i - 1]}} : r = r]
           F == CHOOSE f : f = Body(f)
           S == [i \in 0 .. k |-> {g \in Graphs_(V, i) : \A j \in 1 .. i : g.ends[j - 1] = s[j]}]
           step == [p \in (UNION {S[i] : i \in 0 .. k}) \X (1 .. k) |->
                        graph_add_edge(p[1], s[p[2]][1], s[p[2]][2])]
<1>1. GraphOf(n, s) = F[k]
  BY DEF Fold, GraphOf
<1>2. k \in Nat /\ (\A i \in 1 .. k : s[i] \in V \X V) /\ (\A i \in 1 .. k : s[i][1] # s[i][2])
  OBVIOUS
<1>3. ASSUME NEW f PROVE Body(f) = [i \in 0 .. k |-> IF i = 0 THEN graph_new(n)
                          ELSE graph_add_edge(f[i - 1], s[i][1], s[i][2])]
  BY OnlyOne
<1> HIDE DEF Body, k
<1>4. graph_new(n) \in S[0]
  <2>1. graph_new(n) \in Graphs_(V, 0)
    <3>1. graph_new(n).ends \in [0 .. 0 - 1 -> V \X V]
      BY DEF graph_new
    <3>2. graph_new(n).list \in [V -> Seq(0 .. 0 - 1)]
      BY DEF graph_new
    <3>3. graph_new(n) \in [ends : [0 .. 0 - 1 -> V \X V], list : [V -> Seq(0 .. 0 - 1)]]
      BY <3>1, <3>2 DEF graph_new
    <3> QED
      BY <3>1, <3>2, <3>3 DEF Graphs_, IsGraph
  <2> QED
    BY <1>2, <2>1
<1>5. ASSUME NEW i \in 1 .. k, NEW x \in S[i - 1]
      PROVE  graph_add_edge(x, s[i][1], s[i][2]) \in S[i]
  <2> DEFINE h == graph_add_edge(x, s[i][1], s[i][2])
  <2>1. x \in Graphs_(V, i - 1) /\ \A j \in 1 .. i - 1 : x.ends[j - 1] = s[j]
    BY <1>2
  <2>2. IsGraph(x, V, i - 1) /\ i - 1 \in Nat /\ (i - 1) + 1 = i
    BY <1>2, <2>1 DEF Graphs_
  <2>3. s[i][1] \in V /\ s[i][2] \in V /\ s[i][1] # s[i][2] /\ s[i] = <<s[i][1], s[i][2]>>
    BY <1>2
  <2> HIDE DEF S, step, V
  <2>4. /\ IsGraph(h, V, (i - 1) + 1) /\ h.ends[i - 1] = <<s[i][1], s[i][2]>>
        /\ \A e \in 0 .. (i - 1) - 1 : h.ends[e] = x.ends[e]
    <3> DEFINE v1 == s[i][1]
               v2 == s[i][2]
               j == i - 1
    <3>1. v1 \in V /\ v2 \in V /\ v1 # v2 /\ j \in Nat /\ IsGraph(x, V, j)
      BY <2>2, <2>3
    <3> HIDE DEF v1, v2, j
    <3>2. IsGraph(graph_add_edge(x, v1, v2), V, j + 1)
      BY <3>1, AddEdge
    <3>3. OneMore(graph_add_edge(x, v1, v2), x, j, v1, v2)
      BY <3>1, AddEdge
    <3> QED
      BY <3>2, <3>3 DEF v1, v2, j, OneMore
  <2>5. h \in [ends : [0 .. i - 1 -> V \X V], list : [V -> Seq(0 .. i - 1)]]
    <3>1. h = [ends |-> h.ends, list |-> h.list]
      BY DEF graph_add_edge
    <3> HIDE DEF h
    <3> QED
      BY <2>2, <2>4, <3>1 DEF IsGraph
  <2> HIDE DEF h
  <2> USE DEF S
  <2>6. ASSUME NEW j \in 1 .. i PROVE h.ends[j - 1] = s[j]
    <3>1. CASE j = i
      BY <2>3, <2>4, <3>1
    <3>2. CASE j # i
      <4>1. j \in 1 .. i - 1 /\ j - 1 \in 0 .. (i - 1) - 1
        BY <1>2, <3>2
      <4> QED
        BY <2>1, <2>4, <4>1
    <3> QED
      BY <3>1, <3>2
  <2>7. h \in Graphs_(V, i)
    BY <2>2, <2>4, <2>5 DEF Graphs_
  <2>8. h \in S[i]
    <3>1. S[i] = {q \in Graphs_(V, i) : \A j \in 1 .. i : q.ends[j - 1] = s[j]}
      BY <1>2
    <3> HIDE DEF S
    <3> QED
      BY <2>6, <2>7, <3>1
  <2> QED
    BY <2>8 DEF h
<1> HIDE DEF V
<1>6. \A i \in 1 .. k : \A x \in S[i - 1] : step[<<x, i>>] \in S[i]
  <2> TAKE i \in 1 .. k
  <2> TAKE x \in S[i - 1]
  <2>1. x \in UNION {S[j] : j \in 0 .. k}
    BY <1>2
  <2> HIDE DEF S
  <2>2. step[<<x, i>>] = graph_add_edge(x, s[i][1], s[i][2])
    BY <2>1
  <2> QED
    BY <1>5, <2>2
<1>7. \A i \in 1 .. k : \A x \in S[i - 1] : step[<<x, i>>] = graph_add_edge(x, s[i][1], s[i][2])
  <2> TAKE i \in 1 .. k
  <2> TAKE x \in S[i - 1]
  <2>1. x \in UNION {S[j] : j \in 0 .. k}
    BY <1>2
  <2> HIDE DEF S
  <2> QED
    BY <2>1
<1> HIDE DEF S, step
<1>8. PICK f : /\ DOMAIN f = 0 .. k /\ f = [i \in 0 .. k |-> f[i]]
               /\ f[0] = graph_new(n)
               /\ \A i \in 1 .. k : f[i] = step[<<f[i - 1], i>>]
               /\ \A i \in 0 .. k : f[i] \in S[i]
  <2> DEFINE b == graph_new(n)
  <2>1. k \in Nat /\ b \in S[0]
    BY <1>2, <1>4
  <2> HIDE DEF b, F
  <2>2. \E f : Runs(f, k, b, S, step)
    BY <2>1, <1>6, Loop
  <2> QED
    BY <2>2 DEF b, Runs
<1>9. f = Body(f)
  <2>1. ASSUME NEW i \in 1 .. k PROVE f[i] = graph_add_edge(f[i - 1], s[i][1], s[i][2])
    <3>1. f[i - 1] \in S[i - 1]
      BY <1>2, <1>8
    <3> QED
      BY <1>7, <1>8, <3>1
  <2>2. ASSUME NEW i \in 0 .. k
        PROVE  f[i] = IF i = 0 THEN graph_new(n) ELSE graph_add_edge(f[i - 1], s[i][1], s[i][2])
    <3>1. i = 0 \/ i \in 1 .. k
      BY <1>2
    <3> QED
      BY <1>8, <2>1, <3>1
  <2> QED
    BY <1>3, <1>8, <2>2
<1>10. F = Body(F)
  BY <1>9
<1> HIDE DEF F
<1>11. F[0] = graph_new(n) /\ \A i \in 1 .. k : F[i] = graph_add_edge(F[i - 1], s[i][1], s[i][2])
  BY <1>2, <1>3, <1>10
<1>12. \A i \in 1 .. k : F[i - 1] \in S[i - 1] => F[i] \in S[i]
  BY <1>5, <1>11
<1>13. F[k] \in S[k]
  <2>0. k \in Nat /\ F[0] \in S[0]
    BY <1>2, <1>4, <1>11
  <2>1. \A i \in 0 .. k : F[i] \in S[i]
    BY <2>0, <1>12, RoundsKeep
  <2> QED
    BY <2>0, <2>1
<1> QED
  <2>1. IsGraph(F[k], V, k) /\ \A i \in 1 .. k : F[k].ends[i - 1] = s[i]
    BY <1>2, <1>13 DEF S, Graphs_
  <2> QED
    BY <1>1, <2>1 DEF k, V
-----------------------------------------------------------------------------
\* What the deletion of edges at vertices of degree one keeps: every set of edges with
\* a deleted one has a vertex with one edge of the set, and at one end of a deleted
\* edge all edges are deleted.
Peeled(g, V, k, d) ==
    /\ d \in SUBSET (0 .. k - 1)
    /\ \A S \in SUBSET (0 .. k - 1) : S \cap d # {} =>
          \E v \in V, e \in S : v \in Ends(g, e) /\ \A f \in S : v \in Ends(g, f) => f = e
    /\ \A e \in d : \E v \in Ends(g, e) : \A f \in 0 .. k - 1 : v \in Ends(g, f) => f \in d

\* What delete_edge takes was the last edge at one of its ends.
LEMMA DeleteKeepsPeeled ==
    ASSUME NEW V, NEW k \in Nat, NEW g, IsGraph(g, V, k), NEW x,
           x[1] \in V, Peeled(g, V, k, x[2])
    PROVE  /\ DeleteEdge(g, x)[1] \in V
           /\ Peeled(g, V, k, DeleteEdge(g, x)[2])
<1> DEFINE v == x[1]
           d == x[2]
           found == find_degree1_edge(g, v, d)
           e == CHOOSE e \in found : TRUE
<1>1. CASE found = {}
  BY <1>1 DEF DeleteEdge
<1>2. CASE found # {}
  <2>1. DeleteEdge(g, x) = <<OtherEnd(g, e, v), d \cup {e}>>
    BY <1>2 DEF DeleteEdge
  <2>2. found = Live(g, v, d) /\ Cardinality(Live(g, v, d)) = 1
    BY <1>2 DEF find_degree1_edge
  <2>3. Live(g, v, d) = {f \in 0 .. k - 1 : v \in Ends(g, f)} \ d
    <3>1. g.list[v] \in Seq(0 .. k - 1)
      BY DEF IsGraph
    <3>2. \A f \in 0 .. k - 1 : (\E i \in DOMAIN g.list[v] : g.list[v][i] = f) <=> v \in Ends(g, f)
      BY DEF IsGraph, Has_
    <3>3. \A i \in DOMAIN g.list[v] : g.list[v][i] \in 0 .. k - 1
      BY <3>1
    <3> QED
      BY <3>2, <3>3 DEF Live
  <2>4. PICK y : Live(g, v, d) = {y}
    <3>1. IsFiniteSet(Live(g, v, d))
      <4>1. Live(g, v, d) \subseteq 0 .. k - 1
        BY <2>3
      <4>2. IsFiniteSet(0 .. k - 1)
        BY FS_Interval
      <4> QED
        BY <4>1, <4>2, FS_Subset
    <3> QED
      BY <2>2, <3>1, FS_Singleton
  <2>5. e = y
    BY <2>2, <2>4
  <2>6. e \in 0 .. k - 1 /\ v \in Ends(g, e) /\ \A f \in 0 .. k - 1 : v \in Ends(g, f) => f \in d \/ f = e
    BY <2>3, <2>4, <2>5
  <2> HIDE DEF e, found
  <2>7. OtherEnd(g, e, v) \in V
    BY <2>6 DEF OtherEnd, IsGraph
  <2>8. Peeled(g, V, k, d \cup {e})
    <3>1. d \cup {e} \in SUBSET (0 .. k - 1)
      BY <2>6 DEF Peeled
    <3>2. ASSUME NEW S \in SUBSET (0 .. k - 1), S \cap (d \cup {e}) # {}
          PROVE  \E u \in V, a \in S : u \in Ends(g, a) /\ \A f \in S : u \in Ends(g, f) => f = a
      <4>1. CASE S \cap d # {}
        BY <4>1 DEF Peeled
      <4>2. CASE S \cap d = {}
        <5>1. e \in S
          BY <3>2, <4>2
        <5>2. \A f \in S : v \in Ends(g, f) => f = e
          BY <2>6, <4>2
        <5> QED
          BY <2>6, <5>1, <5>2
      <4> QED
        BY <4>1, <4>2
    <3>3. ASSUME NEW a \in d \cup {e}
          PROVE  \E u \in Ends(g, a) : \A f \in 0 .. k - 1 : u \in Ends(g, f) => f \in d \cup {e}
      <4>1. CASE a \in d
        BY <4>1 DEF Peeled
      <4>2. CASE a = e
        BY <2>6, <4>2
      <4> QED
        BY <3>3, <4>1, <4>2
    <3> QED
      BY <3>1, <3>2, <3>3 DEF Peeled
  <2> QED
    BY <2>1, <2>7, <2>8
<1> QED
  BY <1>1, <1>2

\* The deletions along a path.
LEMMA PathKeepsPeeled ==
    ASSUME NEW V, NEW k \in Nat, NEW g, IsGraph(g, V, k), NEW v \in V, NEW d, Peeled(g, V, k, d)
    PROVE  Peeled(g, V, k, cyclic_del_edge(g, v, d))
<1> DEFINE K == FirstFree(g)
           Body(f) == [i \in 0 .. K |-> IF i = 0 THEN <<v, d>>
                          ELSE CHOOSE next \in {DeleteEdge(g, x) : x \in {f[i - 1]}} : next = next]
           F == CHOOSE f : f = Body(f)
           P == {y \in V \X SUBSET (0 .. k - 1) : Peeled(g, V, k, y[2])}
           S == [i \in 0 .. K |-> P]
           step == [p \in P \X (1 .. K) |-> DeleteEdge(g, p[1])]
           b == <<v, d>>
<1>1. cyclic_del_edge(g, v, d) = F[K][2]
  BY DEF cyclic_del_edge
<1>2. K = k
  <2>1. EdgesOf(g) = 0 .. k - 1
    BY DEF IsGraph, EdgesOf
  <2>2. Cardinality(0 .. k - 1) = IF 0 > k - 1 THEN 0 ELSE k - 1 - 0 + 1
    BY FS_Interval
  <2> QED
    BY <2>1, <2>2 DEF FirstFree
<1>3. ASSUME NEW f PROVE Body(f) = [i \in 0 .. K |-> IF i = 0 THEN <<v, d>> ELSE DeleteEdge(g, f[i - 1])]
  BY OnlyOne
<1> HIDE DEF Body, K
<1>4. b \in P /\ b \in S[0]
  <2>1. d \in SUBSET (0 .. k - 1)
    BY DEF Peeled
  <2>2. b \in V \X SUBSET (0 .. k - 1) /\ b[2] = d
    BY <2>1
  <2>3. b \in P
    BY <2>2
  <2>4. 0 \in 0 .. K
    BY <1>2
  <2> HIDE DEF b, P
  <2> QED
    BY <2>3, <2>4
<1>5. ASSUME NEW x \in P PROVE DeleteEdge(g, x) \in P
  <2> DEFINE y == DeleteEdge(g, x)
  <2>1. y[1] \in V /\ Peeled(g, V, k, y[2])
    BY DeleteKeepsPeeled
  <2>2. y[2] \in SUBSET (0 .. k - 1)
    BY <2>1 DEF Peeled
  <2>3. y = <<y[1], y[2]>>
    <3>1. x = <<x[1], x[2]>>
      OBVIOUS
    <3>2. y = x \/ \E e, d1 : y = <<e, d1>>
      BY DEF DeleteEdge
    <3> QED
      BY <3>1, <3>2
  <2> HIDE DEF y
  <2>4. y \in P
    BY <2>1, <2>2, <2>3
  <2> QED
    BY <2>4 DEF y
<1> HIDE DEF P
<1>6. \A i \in 1 .. K : \A x \in S[i - 1] : step[<<x, i>>] \in S[i]
  BY <1>2, <1>5
<1>7. \A i \in 0 .. K : S[i] = P
  OBVIOUS
<1>8. \A i \in 1 .. K : \A x \in P : step[<<x, i>>] = DeleteEdge(g, x)
  OBVIOUS
<1> HIDE DEF S, step, b, F
<1>9. PICK f : Runs(f, K, b, S, step)
  BY <1>2, <1>4, <1>6, Loop
<1>10. f = Body(f)
  <2>1. ASSUME NEW i \in 1 .. K PROVE f[i] = DeleteEdge(g, f[i - 1])
    <3>1. f[i - 1] \in P
      BY <1>2, <1>7, <1>9 DEF Runs
    <3> QED
      BY <1>8, <1>9, <3>1 DEF Runs
  <2>2. ASSUME NEW i \in 0 .. K PROVE f[i] = IF i = 0 THEN <<v, d>> ELSE DeleteEdge(g, f[i - 1])
    <3>1. i = 0 \/ i \in 1 .. K
      BY <1>2
    <3> QED
      BY <1>9, <2>1, <3>1 DEF Runs, b
  <2> QED
    BY <1>3, <1>9, <2>2 DEF Runs
<1>11. F = Body(F)
  BY <1>10 DEF F
<1>12. F[0] = b /\ \A i \in 1 .. K : F[i] = DeleteEdge(g, F[i - 1])
  BY <1>2, <1>3, <1>11 DEF b
<1>13. \A i \in 1 .. K : F[i - 1] \in S[i - 1] => F[i] \in S[i]
  <2> TAKE i \in 1 .. K
  <2>1. i - 1 \in 0 .. K /\ i \in 0 .. K
    BY <1>2
  <2> QED
    BY <1>5, <1>7, <1>12, <2>1
<1>14. F[K] \in P
  <2>0. K \in Nat /\ F[0] \in S[0]
    BY <1>2, <1>4, <1>12
  <2>1. \A i \in 0 .. K : F[i] \in S[i]
    BY <2>0, <1>13, RoundsKeep
  <2> QED
    BY <2>0, <2>1, <1>7
<1> QED
  BY <1>1, <1>14 DEF P

\* The core is what the peeling has left.
LEMMA CoreIs ==
    ASSUME NEW n \in Nat, NEW k \in Nat, NEW g, IsGraph(g, 0 .. n - 1, k)
    PROVE  \E d : Peeled(g, 0 .. n - 1, k, d) /\ Core(g) = (0 .. k - 1) \ d
<1> DEFINE V == 0 .. n - 1
           s == Upto(n)
           Body(f) == [i \in 0 .. Len(s) |-> IF i = 0 THEN {}
                          ELSE CHOOSE r \in {cyclic_del_edge(g, s[i], d) : d \in {f[i - 1]}} : r = r]
           F == CHOOSE f : f = Body(f)
           P == {d \in SUBSET (0 .. k - 1) : Peeled(g, V, k, d)}
           S == [i \in 0 .. n |-> P]
           step == [p \in P \X (1 .. n) |-> cyclic_del_edge(g, s[p[2]], p[1])]
           b == {}
<1>1. Cardinality(Nodes(g)) = n /\ EdgesOf(g) = 0 .. k - 1
  <2>1. Nodes(g) = 0 .. n - 1 /\ EdgesOf(g) = 0 .. k - 1
    BY DEF IsGraph, EdgesOf, Nodes
  <2>2. Cardinality(0 .. n - 1) = IF 0 > n - 1 THEN 0 ELSE n - 1 - 0 + 1
    BY FS_Interval
  <2> QED
    BY <2>1, <2>2
<1>2. Core(g) = (0 .. k - 1) \ F[Len(s)]
  BY <1>1 DEF Core, Fold
<1>3. Len(s) = n /\ \A i \in 1 .. n : s[i] \in V
  BY DEF Upto
<1>4. ASSUME NEW f PROVE Body(f) = [i \in 0 .. n |-> IF i = 0 THEN {} ELSE cyclic_del_edge(g, s[i], f[i - 1])]
  BY <1>3, OnlyOne
<1> HIDE DEF Body, s
<1>5. b \in P /\ 0 \in 0 .. n
  BY DEF Peeled
<1>6. ASSUME NEW i \in 1 .. n, NEW d \in P PROVE cyclic_del_edge(g, s[i], d) \in P
  <2> DEFINE v == s[i]
  <2>1. v \in V /\ Peeled(g, V, k, d)
    BY <1>3
  <2> HIDE DEF v, V
  <2>2. Peeled(g, V, k, cyclic_del_edge(g, v, d))
    BY <2>1, PathKeepsPeeled DEF V
  <2>3. cyclic_del_edge(g, v, d) \in SUBSET (0 .. k - 1)
    BY <2>2 DEF Peeled
  <2> QED
    BY <2>2, <2>3 DEF v
<1> HIDE DEF P
<1>7. \A i \in 1 .. n : \A x \in S[i - 1] : step[<<x, i>>] \in S[i]
  BY <1>6
<1>8. \A i \in 0 .. n : S[i] = P
  OBVIOUS
<1>9. \A i \in 1 .. n : \A x \in P : step[<<x, i>>] = cyclic_del_edge(g, s[i], x)
  OBVIOUS
<1> HIDE DEF S, step, b, F
<1>10. b \in S[0]
  BY <1>5, <1>8
<1>11. PICK f : Runs(f, n, b, S, step)
  BY <1>7, <1>10, Loop
<1>12. f = Body(f)
  <2>1. ASSUME NEW i \in 1 .. n PROVE f[i] = cyclic_del_edge(g, s[i], f[i - 1])
    <3>1. f[i - 1] \in P
      BY <1>8, <1>11 DEF Runs
    <3> QED
      BY <1>9, <1>11, <3>1 DEF Runs
  <2>2. ASSUME NEW i \in 0 .. n PROVE f[i] = IF i = 0 THEN {} ELSE cyclic_del_edge(g, s[i], f[i - 1])
    <3>1. i = 0 \/ i \in 1 .. n
      OBVIOUS
    <3> QED
      BY <1>11, <2>1, <3>1 DEF Runs, b
  <2> QED
    BY <1>4, <1>11, <2>2 DEF Runs
<1>13. F = Body(F)
  BY <1>12 DEF F
<1>14. F[0] = b /\ \A i \in 1 .. n : F[i] = cyclic_del_edge(g, s[i], F[i - 1])
  BY <1>4, <1>13 DEF b
<1>15. \A i \in 1 .. n : F[i - 1] \in S[i - 1] => F[i] \in S[i]
  <2> TAKE i \in 1 .. n
  <2>1. i - 1 \in 0 .. n /\ i \in 0 .. n
    OBVIOUS
  <2> QED
    BY <1>6, <1>8, <1>14, <2>1
<1>16. F[n] \in P
  <2>0. n \in Nat /\ F[0] \in S[0]
    BY <1>10, <1>14
  <2>1. \A i \in 0 .. n : F[i] \in S[i]
    BY <2>0, <1>15, RoundsKeep
  <2> QED
    BY <2>0, <2>1, <1>8
<1> QED
  BY <1>2, <1>3, <1>16 DEF P, V

-----------------------------------------------------------------------------
\* The edges with both ends in C, and a graph without cycles.
Inside(g, k, C) == {e \in 0 .. k - 1 : Ends(g, e) \subseteq C}

Forest(g, V, k) ==
    /\ \A e \in 0 .. k - 1 : g.ends[e][1] # g.ends[e][2]
    /\ \A S \in SUBSET (0 .. k - 1) : S # {} =>
          \E v \in V, e \in S : v \in Ends(g, e) /\ \A f \in S : v \in Ends(g, f) => f = e

\* A graph of which the peeling leaves nothing is a forest.
LEMMA AcyclicIsForest ==
    ASSUME NEW n \in Nat, NEW k \in Nat, NEW g, IsGraph(g, 0 .. n - 1, k), ~ graph_is_cyclic(g),
           \A e \in 0 .. k - 1 : g.ends[e][1] # g.ends[e][2]
    PROVE  Forest(g, 0 .. n - 1, k)
<1> DEFINE V == 0 .. n - 1
<1>1. PICK d : Peeled(g, V, k, d) /\ Core(g) = (0 .. k - 1) \ d
  BY CoreIs
<1>2. d = 0 .. k - 1
  BY <1>1 DEF graph_is_cyclic, Peeled
<1> HIDE DEF V
<1>3. ASSUME NEW S \in SUBSET (0 .. k - 1), S # {}
      PROVE  \E v \in V, e \in S : v \in Ends(g, e) /\ \A f \in S : v \in Ends(g, f) => f = e
  <2>1. S \cap d # {}
    BY <1>2, <1>3
  <2> QED
    BY <1>1, <2>1 DEF Peeled
<1> QED
  BY <1>3 DEF Forest, V

\* A forest has fewer edges than vertices, in every part of it.
LEMMA ForestCount ==
    ASSUME NEW V, IsFiniteSet(V), NEW k \in Nat, NEW g, IsGraph(g, V, k), Forest(g, V, k),
           NEW C \in SUBSET V, C # {}
    PROVE  Cardinality(Inside(g, k, C)) \in Nat /\ Cardinality(Inside(g, k, C)) < Cardinality(C)
<1> DEFINE T == {j \in Nat : \A D \in SUBSET V : Cardinality(D) = j + 1 =>
                    Cardinality(Inside(g, k, D)) <= j}
<1>0. \A D \in SUBSET V : /\ IsFiniteSet(D) /\ Cardinality(D) \in Nat
                          /\ IsFiniteSet(Inside(g, k, D)) /\ Cardinality(Inside(g, k, D)) \in Nat
  <2> TAKE D \in SUBSET V
  <2>1. IsFiniteSet(D)
    BY FS_Subset
  <2>2. IsFiniteSet(0 .. k - 1) /\ Inside(g, k, D) \subseteq 0 .. k - 1
    BY FS_Interval DEF Inside
  <2>3. IsFiniteSet(Inside(g, k, D))
    BY <2>2, FS_Subset
  <2> QED
    BY <2>1, <2>3, FS_CardinalityType
<1>1. ASSUME NEW D \in SUBSET V, Inside(g, k, D) # {}
      PROVE  \E v \in D, e \in Inside(g, k, D) :
                /\ Inside(g, k, D \ {v}) = Inside(g, k, D) \ {e}
                /\ Cardinality(D \ {v}) = Cardinality(D) - 1
                /\ Cardinality(Inside(g, k, D \ {v})) = Cardinality(Inside(g, k, D)) - 1
                /\ D \ {v} # {}
  <2>1. Inside(g, k, D) \in SUBSET (0 .. k - 1)
    BY DEF Inside
  <2>2. PICK v \in V, e \in Inside(g, k, D) :
            v \in Ends(g, e) /\ \A f \in Inside(g, k, D) : v \in Ends(g, f) => f = e
    BY <1>1, <2>1 DEF Forest
  <2>3. v \in D
    BY <2>2 DEF Inside
  <2>4. Inside(g, k, D \ {v}) = Inside(g, k, D) \ {e}
    BY <2>2 DEF Inside
  <2>5. Cardinality(D \ {v}) = Cardinality(D) - 1
    BY <1>0, <2>3, FS_RemoveElement
  <2>6. Cardinality(Inside(g, k, D) \ {e}) = Cardinality(Inside(g, k, D)) - 1
    BY <1>0, <2>2, FS_RemoveElement
  <2>7. g.ends[e][1] # g.ends[e][2] /\ g.ends[e][1] \in D /\ g.ends[e][2] \in D
    BY <2>2 DEF Forest, Inside, Ends
  <2>8. D \ {v} # {}
    BY <2>7
  <2> QED
    BY <2>2, <2>3, <2>4, <2>5, <2>6, <2>8
<1>2. 0 \in T
  <2> SUFFICES ASSUME NEW D \in SUBSET V, Cardinality(D) = 1
               PROVE  Cardinality(Inside(g, k, D)) <= 0
    OBVIOUS
  <2>1. CASE Inside(g, k, D) = {}
    BY <2>1, FS_EmptySet
  <2>2. CASE Inside(g, k, D) # {}
    <3>1. PICK v \in D : Cardinality(D \ {v}) = Cardinality(D) - 1 /\ D \ {v} # {}
      BY <1>1, <2>2
    <3>2. Cardinality(D \ {v}) = 0 /\ IsFiniteSet(D \ {v})
      BY <1>0, <3>1
    <3>3. D \ {v} = {}
      BY <3>2, FS_EmptySet
    <3> QED
      BY <3>1, <3>3
  <2> QED
    BY <2>1, <2>2
<1>3. \A j \in Nat : j \in T => j + 1 \in T
  <2> SUFFICES ASSUME NEW j \in T, NEW D \in SUBSET V, Cardinality(D) = (j + 1) + 1
               PROVE  Cardinality(Inside(g, k, D)) <= j + 1
    OBVIOUS
  <2>1. CASE Inside(g, k, D) = {}
    <3>1. Cardinality({}) = 0
      BY FS_EmptySet
    <3> QED
      BY <2>1, <3>1
  <2>2. CASE Inside(g, k, D) # {}
    <3>1. PICK v \in D : /\ Cardinality(D \ {v}) = Cardinality(D) - 1
                         /\ Cardinality(Inside(g, k, D \ {v})) = Cardinality(Inside(g, k, D)) - 1
      BY <1>1, <2>2
    <3>2. D \ {v} \in SUBSET V /\ Cardinality(D \ {v}) = j + 1
      BY <3>1
    <3>3. Cardinality(Inside(g, k, D \ {v})) <= j
      BY <3>2
    <3> QED
      BY <1>0, <3>1, <3>3
  <2> QED
    BY <2>1, <2>2
<1> HIDE DEF T
<1>4. Nat \subseteq T
  BY <1>2, <1>3, SetInduction
<1>5. Cardinality(C) # 0
  BY <1>0, FS_EmptySet
<1>6. Cardinality(C) - 1 \in Nat
  BY <1>0, <1>5
<1>7. Cardinality(C) - 1 \in T
  BY <1>4, <1>6
<1>8. Cardinality(Inside(g, k, C)) <= Cardinality(C) - 1
  <2>1. Cardinality(C) = (Cardinality(C) - 1) + 1
    BY <1>0
  <2> QED
    BY <1>7, <2>1 DEF T
<1> QED
  BY <1>0, <1>8
-----------------------------------------------------------------------------
(* Numbers of Word bits. *)

\* The numbers of a word.
LEMMA NumberIs ==
    /\ 2 ^ Word \in Nat \ {0}
    /\ Number = 0 .. 2 ^ Word - 1
  BY StructsAssumption, PowerOfTwo DEF Number

\* What is stored in a word is a number of a word.
LEMMA U32Type ==
    ASSUME NEW x \in Int
    PROVE  U32(x) \in Number
<1> DEFINE M == 2 ^ Word
<1>1. M \in Nat \ {0} /\ Number = 0 .. M - 1 /\ U32(x) = x % M
  BY NumberIs DEF U32, Unsigned
<1> HIDE DEF M
<1> QED
  BY <1>1

\* A number of a word is stored as it is.
LEMMA U32Small ==
    ASSUME NEW x \in Number
    PROVE  U32(x) = x
<1> DEFINE M == 2 ^ Word
<1>1. M \in Nat \ {0} /\ Number = 0 .. M - 1 /\ U32(x) = x % M
  BY NumberIs DEF U32, Unsigned
<1> HIDE DEF M
<1>2. x \in 0 .. M - 1 /\ x = M * 0 + x
  BY <1>1
<1>3. x % M = x
  BY <1>1, <1>2, ModUnique
<1> QED
  BY <1>1, <1>3

\* The number that a vertex gets solves the equation of the edge that led to it.
LEMMA Solves ==
    ASSUME NEW a \in Number, NEW e \in Number
    PROVE  U32(U32(e - a) + a) = e /\ U32(a + U32(e - a)) = e
<1> DEFINE M == 2 ^ Word
<1>1. M \in Nat \ {0} /\ Number = 0 .. M - 1 /\ \A x : U32(x) = x % M
  BY NumberIs DEF U32, Unsigned
<1> HIDE DEF M
<1>2. a \in 0 .. M - 1 /\ e \in 0 .. M - 1
  BY <1>1
<1>3. CASE a <= e
  <2> DEFINE x == e - a
  <2>1. x \in Int /\ x \in 0 .. M - 1 /\ x = M * 0 + x
    BY <1>1, <1>2, <1>3
  <2> HIDE DEF x
  <2>2. x % M = x
    BY <1>1, <2>1, ModUnique
  <2>3. x + a = e /\ a + x = e
    BY <1>2 DEF x
  <2>4. e \in Int /\ e = M * 0 + e
    BY <1>1, <1>2
  <2>5. e % M = e
    BY <1>1, <1>2, <2>4, ModUnique
  <2> QED
    BY <1>1, <2>2, <2>3, <2>5 DEF x
<1>4. CASE ~ a <= e
  <2> DEFINE x == e - a
             y == (e - a) + M
             z == e + M
  <2>1. x \in Int /\ y \in 0 .. M - 1 /\ x = M * (0 - 1) + y
    BY <1>1, <1>2, <1>4
  <2>2. y + a = z /\ a + y = z /\ z \in Int /\ z = M * 1 + e
    BY <1>1, <1>2
  <2> HIDE DEF x, y, z
  <2>3. x % M = y
    BY <1>1, <2>1, ModUnique
  <2>4. z % M = e
    BY <1>1, <1>2, <2>2, ModUnique
  <2> QED
    BY <1>1, <2>2, <2>3, <2>4 DEF x
<1> QED
  BY <1>3, <1>4

-----------------------------------------------------------------------------
(* The depth first search of chm. *)

Cells(V) == [V -> Number \cup {Null}]
Marked(V, g) == {v \in V : g[v] # Null}
Equation(gr, g, e) == U32(g[gr.ends[e][1]] + g[gr.ends[e][2]]) = e

\* No edge leaves B.
Closed(gr, k, B) == \A e \in 0 .. k - 1 : Ends(gr, e) \cap B # {} => Ends(gr, e) \subseteq B
\* Every edge at w leads into D.
Inward(gr, k, w, D) == \A e \in 0 .. k - 1 : w \in Ends(gr, e) => Ends(gr, e) \subseteq D

\* What was marked since B is a tree whose edges have their equations.
Tree(gr, V, k, B, g) ==
    LET C == Marked(V, g) \ B
    IN  /\ B \subseteq Marked(V, g) /\ C # {}
        /\ Cardinality(Inside(gr, k, C)) = Cardinality(C) - 1
        /\ \A e \in Inside(gr, k, C) : Equation(gr, g, e)

\* A graph that chm goes through.
Acyclic(gr, V, k) ==
    /\ IsFiniteSet(V) /\ k \in Nat /\ 0 .. k - 1 \subseteq Number
    /\ IsGraph(gr, V, k) /\ Forest(gr, V, k)

\* A neighbor is the other end of an edge, and graph_edge_id finds the edge.
LEMMA NeighborIs ==
    ASSUME NEW V, NEW k, NEW gr, Acyclic(gr, V, k), NEW v \in V, NEW i \in DOMAIN gr.list[v]
    PROVE  LET u == Neighbors(gr, v)[i]
           IN  /\ u \in V /\ u # v
               /\ Ends(gr, gr.list[v][i]) = {v, u}
               /\ graph_edge_id(gr, v, u) \in 0 .. k - 1
               /\ Ends(gr, graph_edge_id(gr, v, u)) = {v, u}
<1> DEFINE l == gr.list[v]
           u == OtherEnd(gr, l[i], v)
           hits == {j \in DOMAIN l : check_edge(gr, l[j], v, u)}
<1>1. /\ k \in Nat /\ l \in Seq(0 .. k - 1) /\ l[i] \in 0 .. k - 1
      /\ \A j \in DOMAIN l : l[j] \in 0 .. k - 1 /\ v \in Ends(gr, l[j])
  <2>1. l \in Seq(0 .. k - 1) /\ k \in Nat
    BY DEF Acyclic, IsGraph
  <2>2. \A j \in DOMAIN l : l[j] \in 0 .. k - 1
    BY <2>1
  <2>3. \A j \in DOMAIN l : v \in Ends(gr, l[j])
    BY <2>2 DEF Acyclic, IsGraph, Has_
  <2> QED
    BY <2>1, <2>2, <2>3
<1>2. \A e \in 0 .. k - 1 : gr.ends[e] \in V \X V /\ gr.ends[e][1] # gr.ends[e][2]
  BY DEF Acyclic, IsGraph, Forest
<1>3. Neighbors(gr, v)[i] = u
  BY DEF Neighbors
<1>4. u \in V /\ u # v /\ Ends(gr, l[i]) = {v, u} /\ check_edge(gr, l[i], v, u)
  <2> DEFINE e == l[i]
  <2>1. e \in 0 .. k - 1 /\ gr.ends[e] \in V \X V /\ gr.ends[e][1] # gr.ends[e][2] /\ v \in Ends(gr, e)
    BY <1>1, <1>2
  <2>2. u = IF gr.ends[e][2] = v THEN gr.ends[e][1] ELSE gr.ends[e][2]
    BY DEF OtherEnd
  <2>3. gr.ends[e] = <<gr.ends[e][1], gr.ends[e][2]>>
    BY <2>1
  <2> HIDE DEF e, u
  <2>4. u \in V /\ u # v /\ Ends(gr, e) = {v, u} /\ check_edge(gr, e, v, u)
    BY <2>1, <2>2, <2>3 DEF Ends, check_edge
  <2> QED
    BY <2>4 DEF e
<1>5. hits \subseteq Nat /\ hits # {}
  BY <1>1, <1>4
<1>6. PICK j \in hits : \A j2 \in hits : j <= j2
  <2> HIDE DEF hits
  <2> QED
    BY <1>5, Smallest
<1> DEFINE c == CHOOSE a \in hits : \A b \in hits : a <= b
<1>7. c \in hits
  <2> HIDE DEF hits
  <2> QED
    BY <1>6
<1>8. graph_edge_id(gr, v, u) = l[c]
  BY DEF graph_edge_id
<1>9. l[c] \in 0 .. k - 1 /\ check_edge(gr, l[c], v, u)
  BY <1>1, <1>7
<1> HIDE DEF c, u, l
<1>10. Ends(gr, l[c]) = {v, u}
  BY <1>9 DEF check_edge, Ends
<1> QED
  BY <1>3, <1>4, <1>8, <1>9, <1>10 DEF l

\* A neighbor without a number joins the tree.
LEMMA AddChild ==
    ASSUME NEW V, NEW k, NEW gr, Acyclic(gr, V, k), NEW g \in Cells(V), NEW B \in SUBSET V,
           Tree(gr, V, k, B, g), NEW x \in Marked(V, g) \ B, NEW u \in V, g[u] = Null,
           NEW e \in 0 .. k - 1, Ends(gr, e) = {x, u}
    PROVE  Tree(gr, V, k, B, [g EXCEPT ![u] = U32(e - g[x])])
<1> DEFINE h == [g EXCEPT ![u] = U32(e - g[x])]
           C == Marked(V, g) \ B
           D == Marked(V, h) \ B
<1>1. Null \notin Int /\ Number \subseteq Int
  BY StructsAssumption, NumberIs
<1>2. g[x] \in Number /\ e \in Number /\ x \in V /\ x # u /\ U32(e - g[x]) \in Number
  <2>1. g[x] \in Number /\ e \in Number /\ x \in V /\ x # u
    BY DEF Cells, Marked, Acyclic
  <2>2. e - g[x] \in Int
    <3> DEFINE a == g[x]
    <3>1. a \in Int /\ e \in Int
      BY <1>1, <2>1
    <3> HIDE DEF a
    <3>2. e - a \in Int
      BY <3>1
    <3> QED
      BY <3>2 DEF a
  <2>3. U32(e - g[x]) \in Number
    BY <2>2, U32Type
  <2> QED
    BY <2>1, <2>3
<1>3. h[u] = U32(e - g[x]) /\ h[u] # Null /\ \A w \in V : w # u => h[w] = g[w]
  BY <1>1, <1>2 DEF Cells
<1> HIDE DEF h
<1>4. Marked(V, h) = Marked(V, g) \cup {u} /\ u \notin Marked(V, g)
  BY <1>3 DEF Marked
<1>5. B \subseteq Marked(V, g) /\ C # {} /\ Cardinality(Inside(gr, k, C)) = Cardinality(C) - 1
      /\ \A f \in Inside(gr, k, C) : Equation(gr, g, f)
  BY DEF Tree
<1>6. D = C \cup {u} /\ u \notin C /\ C \in SUBSET V /\ D \in SUBSET V /\ x \in C
  BY <1>4, <1>5 DEF Marked
<1> HIDE DEF C, D
<1>7. IsFiniteSet(C) /\ IsFiniteSet(D) /\ Cardinality(C) \in Nat /\ Cardinality(D) = Cardinality(C) + 1
  BY <1>6, FS_Subset, FS_AddElement, FS_CardinalityType DEF Acyclic
<1>8. e \in Inside(gr, k, D) /\ e \notin Inside(gr, k, C) /\ Inside(gr, k, C) \subseteq Inside(gr, k, D)
  BY <1>6 DEF Inside
<1>9. /\ Cardinality(Inside(gr, k, D)) \in Nat
      /\ Cardinality(Inside(gr, k, D)) < Cardinality(D)
  <2>1. D # {} /\ IsFiniteSet(V) /\ k \in Nat /\ IsGraph(gr, V, k) /\ Forest(gr, V, k)
    BY <1>6 DEF Acyclic
  <2> QED
    BY <1>6, <2>1, ForestCount
<1>10. Inside(gr, k, D) = Inside(gr, k, C) \cup {e}
  <2>1. IsFiniteSet(Inside(gr, k, D))
    <3>1. Inside(gr, k, D) \subseteq 0 .. k - 1 /\ IsFiniteSet(0 .. k - 1)
      BY FS_Interval DEF Inside, Acyclic
    <3> QED
      BY <3>1, FS_Subset
  <2>2. IsFiniteSet(Inside(gr, k, C))
    BY <1>8, <2>1, FS_Subset
  <2>3. Cardinality(Inside(gr, k, C) \cup {e}) = Cardinality(Inside(gr, k, C)) + 1
    BY <1>8, <2>2, FS_AddElement
  <2>4. Inside(gr, k, C) \cup {e} \subseteq Inside(gr, k, D)
    BY <1>8
  <2>5. Cardinality(Inside(gr, k, C) \cup {e}) <= Cardinality(Inside(gr, k, D))
    BY <2>1, <2>4, FS_Subset
  <2>6. Cardinality(Inside(gr, k, C) \cup {e}) = Cardinality(Inside(gr, k, D))
    BY <1>5, <1>7, <1>9, <2>3, <2>5
  <2> QED
    BY <2>1, <2>4, <2>6, FS_Subset
<1>11. Cardinality(Inside(gr, k, D)) = Cardinality(D) - 1
  <2>1. IsFiniteSet(Inside(gr, k, C))
    <3>1. Inside(gr, k, C) \subseteq 0 .. k - 1 /\ IsFiniteSet(0 .. k - 1)
      BY FS_Interval DEF Inside, Acyclic
    <3> QED
      BY <3>1, FS_Subset
  <2>2. Cardinality(Inside(gr, k, C) \cup {e}) = Cardinality(Inside(gr, k, C)) + 1
    BY <1>8, <2>1, FS_AddElement
  <2> QED
    BY <1>5, <1>7, <1>10, <2>2
<1>12. ASSUME NEW f \in Inside(gr, k, D) PROVE Equation(gr, h, f)
  <2>1. CASE f = e
    <3>1. \/ gr.ends[e][1] = x /\ gr.ends[e][2] = u
          \/ gr.ends[e][1] = u /\ gr.ends[e][2] = x
      <4>1. gr.ends[e][1] # gr.ends[e][2]
        BY DEF Acyclic, Forest
      <4> QED
        BY <4>1 DEF Ends
    <3>2. h[x] = g[x]
      BY <1>2, <1>3
    <3> DEFINE a == g[x]
    <3>3. a \in Number /\ e \in Number /\ h[x] = a /\ h[u] = U32(e - a)
      BY <1>2, <1>3, <3>2
    <3> HIDE DEF a
    <3>4. U32(U32(e - a) + a) = e /\ U32(a + U32(e - a)) = e
      BY <3>3, Solves
    <3> QED
      BY <2>1, <3>1, <3>3, <3>4 DEF Equation
  <2>2. CASE f \in Inside(gr, k, C)
    <3>1. gr.ends[f][1] \in C /\ gr.ends[f][2] \in C
      BY <2>2 DEF Inside, Ends
    <3>2. h[gr.ends[f][1]] = g[gr.ends[f][1]] /\ h[gr.ends[f][2]] = g[gr.ends[f][2]]
      BY <1>3, <1>6, <3>1
    <3> QED
      BY <1>5, <2>2, <3>2 DEF Equation
  <2> QED
    BY <1>10, <1>12, <2>1, <2>2
<1>13. B \subseteq Marked(V, h) /\ D # {}
  BY <1>4, <1>5, <1>6
<1>14. Tree(gr, V, k, B, h)
  BY <1>11, <1>12, <1>13 DEF Tree, D
<1> QED
  BY <1>14 DEF h
\* What the search may start from: a vertex that has its number.
Starts_(V) == {x \in V \X Cells(V) : x[2][x[1]] # Null}
Extends_(V, g0, g) == \A w \in V : g0[w] # Null => g[w] = g0[w]

\* From v, with the numbers g and at most d vertices without one; B was searched before.
Before(gr, V, k, B, v, g, d) ==
    Closed(gr, k, B) /\ Tree(gr, V, k, B, g) /\ v \notin B /\ Cardinality(V \ Marked(V, g)) <= d
\* The numbers became g; all that is new was searched.
After(gr, V, k, B, g0, g) ==
    /\ Tree(gr, V, k, B, g)
    /\ \A w \in Marked(V, g) \ Marked(V, g0) : Inward(gr, k, w, Marked(V, g))

Visits(gr, V, k, d, h, x) ==
    /\ h[x] \in Cells(V) /\ Extends_(V, x[2], h[x])
    /\ \A B \in SUBSET V : Before(gr, V, k, B, x[1], x[2], d) =>
          After(gr, V, k, B, x[2], h[x]) /\ Inward(gr, k, x[1], Marked(V, h[x]))

GoodVisit(gr, V, k, d, h) ==
    h \in [Starts_(V) -> Cells(V)] /\ \A x \in Starts_(V) : Visits(gr, V, k, d, h, x)

OneNeighbor(gr, h, v, g, u) ==
    IF g[u] # Null THEN g ELSE h[<<u, [g EXCEPT ![u] = U32(graph_edge_id(gr, v, u) - g[v])]>>]

\* The numbers when the first i neighbors of v were looked at.
Looked(gr, V, k, d, v, g0, i) ==
    {g \in Cells(V) : /\ Extends_(V, g0, g)
                      /\ \A j \in 1 .. i : g[Neighbors(gr, v)[j]] # Null
                      /\ \A B \in SUBSET V : Before(gr, V, k, B, v, g0, d + 1) => After(gr, V, k, B, g0, g)}

\* Looking at one neighbor more: it gets its number, or had the number already from which the search came.
LEMMA OneMoreLooked ==
    ASSUME NEW V, NEW k, NEW gr, Acyclic(gr, V, k), NEW d \in Nat, NEW h, GoodVisit(gr, V, k, d, h),
           NEW v \in V, NEW g0 \in Cells(V), g0[v] # Null, NEW i \in DOMAIN gr.list[v],
           NEW g \in Looked(gr, V, k, d, v, g0, i - 1)
    PROVE  OneNeighbor(gr, h, v, g, Neighbors(gr, v)[i]) \in Looked(gr, V, k, d, v, g0, i)
<1> DEFINE u == Neighbors(gr, v)[i]
           e == graph_edge_id(gr, v, u)
           g1 == [g EXCEPT ![u] = U32(e - g[v])]
           r == h[<<u, g1>>]
<1>1. /\ g \in Cells(V) /\ Extends_(V, g0, g)
      /\ \A j \in 1 .. i - 1 : g[Neighbors(gr, v)[j]] # Null
      /\ \A B \in SUBSET V : Before(gr, V, k, B, v, g0, d + 1) => After(gr, V, k, B, g0, g)
  BY DEF Looked
<1>2. u \in V /\ u # v /\ e \in 0 .. k - 1 /\ Ends(gr, e) = {v, u}
  BY NeighborIs
<1>3. i \in Nat \ {0} /\ \A j \in 1 .. i : j \in 1 .. i - 1 \/ j = i
  <2>1. gr.list[v] \in Seq(0 .. k - 1)
    BY DEF Acyclic, IsGraph
  <2> QED
    BY <2>1
<1>4. CASE g[u] # Null
  <2>1. \A j \in 1 .. i : g[Neighbors(gr, v)[j]] # Null
    BY <1>1, <1>3, <1>4
  <2>2. g \in Looked(gr, V, k, d, v, g0, i)
    BY <1>1, <2>1 DEF Looked
  <2> QED
    BY <1>4, <2>2 DEF OneNeighbor
<1>5. CASE g[u] = Null
  <2> HIDE DEF e, u
  <2>0. Null \notin Int /\ Number \subseteq Int /\ 0 .. k - 1 \subseteq Number
    BY StructsAssumption, NumberIs DEF Acyclic
  <2>1. g[v] = g0[v] /\ g[v] \in Number /\ e \in Number
    BY <1>1, <1>2, <2>0 DEF Extends_, Cells
  <2>2. U32(e - g[v]) \in Number
    <3> DEFINE a == g[v]
    <3>1. a \in Int /\ e \in Int
      BY <2>0, <2>1
    <3> HIDE DEF a
    <3>2. e - a \in Int
      BY <3>1
    <3> QED
      BY <3>2, U32Type DEF a
  <2>3. /\ g1 \in Cells(V) /\ g1[u] # Null /\ g1[u] \in Number
        /\ \A w \in V : w # u => g1[w] = g[w]
    BY <1>1, <1>2, <2>0, <2>2 DEF Cells
  <2> HIDE DEF g1
  <2>4. <<u, g1>> \in Starts_(V)
    BY <1>2, <2>3 DEF Starts_
  <2>5. /\ r \in Cells(V) /\ Extends_(V, g1, r)
        /\ \A B \in SUBSET V : Before(gr, V, k, B, u, g1, d) =>
              After(gr, V, k, B, g1, r) /\ Inward(gr, k, u, Marked(V, r))
    <3> DEFINE x == <<u, g1>>
    <3>1. Visits(gr, V, k, d, h, x) /\ x[1] = u /\ x[2] = g1
      BY <2>4 DEF GoodVisit
    <3> HIDE DEF x
    <3> QED
      BY <3>1 DEF Visits, x
  <2> HIDE DEF r
  <2>6. Extends_(V, g0, r) /\ Extends_(V, g, r)
    <3>1. Extends_(V, g, r)
      BY <1>5, <2>3, <2>5 DEF Extends_
    <3> QED
      BY <1>1, <3>1 DEF Extends_
  <2>7. \A j \in 1 .. i : r[Neighbors(gr, v)[j]] # Null
    <3>1. r[u] # Null
      BY <1>2, <2>3, <2>5 DEF Extends_
    <3>2. ASSUME NEW j \in 1 .. i - 1 PROVE r[Neighbors(gr, v)[j]] # Null
      <4>1. gr.list[v] \in Seq(0 .. k - 1)
        BY DEF Acyclic, IsGraph
      <4>2. j \in DOMAIN gr.list[v]
        BY <1>3, <4>1
      <4>3. Neighbors(gr, v)[j] \in V
        BY <4>2, NeighborIs
      <4> QED
        BY <1>1, <2>6, <4>3 DEF Extends_
    <3> QED
      BY <1>3, <3>1, <3>2 DEF u
  <2>8. ASSUME NEW B \in SUBSET V, Before(gr, V, k, B, v, g0, d + 1)
        PROVE  After(gr, V, k, B, g0, r)
    <3>1. After(gr, V, k, B, g0, g)
      BY <1>1, <2>8
    <3>2. v \in Marked(V, g) \ B
      BY <2>0, <2>1, <2>8 DEF Before, Marked
    <3>3. Tree(gr, V, k, B, g1)
      BY <1>1, <1>2, <1>5, <3>1, <3>2, AddChild DEF After, g1
    <3>4. Marked(V, g1) = Marked(V, g) \cup {u} /\ u \notin Marked(V, g)
      BY <1>2, <1>5, <2>3 DEF Marked
    <3>5. u \notin B
      BY <1>5, <3>1 DEF After, Tree, Marked
    <3>6. Cardinality(V \ Marked(V, g1)) <= d
      <4>1. V \ Marked(V, g1) = (V \ Marked(V, g)) \ {u} /\ u \in V \ Marked(V, g)
        BY <1>2, <3>4
      <4>2. IsFiniteSet(V \ Marked(V, g0)) /\ IsFiniteSet(V \ Marked(V, g))
        BY FS_Subset DEF Acyclic
      <4>3. V \ Marked(V, g) \subseteq V \ Marked(V, g0)
        BY <1>1 DEF Extends_, Marked
      <4>4. Cardinality(V \ Marked(V, g)) <= Cardinality(V \ Marked(V, g0))
        BY <4>2, <4>3, FS_Subset
      <4>5. Cardinality(V \ Marked(V, g1)) = Cardinality(V \ Marked(V, g)) - 1
        <5> DEFINE A == V \ Marked(V, g)
                   A1 == V \ Marked(V, g1)
        <5>1. IsFiniteSet(A) /\ u \in A /\ A1 = A \ {u}
          BY <4>1, <4>2
        <5> HIDE DEF A, A1
        <5>2. Cardinality(A1) = Cardinality(A) - 1
          BY <5>1, FS_RemoveElement
        <5> QED
          BY <5>2 DEF A, A1
      <4>6. Cardinality(V \ Marked(V, g0)) <= d + 1
        BY <2>8 DEF Before
      <4> DEFINE c0 == Cardinality(V \ Marked(V, g0))
                 c == Cardinality(V \ Marked(V, g))
                 c1 == Cardinality(V \ Marked(V, g1))
      <4>7. c0 \in Nat /\ c \in Nat /\ c <= c0 /\ c1 = c - 1 /\ c0 <= d + 1
        BY <4>2, <4>4, <4>5, <4>6, FS_CardinalityType
      <4> HIDE DEF c0, c, c1
      <4>8. c1 <= d
        BY <4>7
      <4> QED
        BY <4>8 DEF c1
    <3>7. Before(gr, V, k, B, u, g1, d)
      BY <2>8, <3>3, <3>5, <3>6 DEF Before
    <3>8. After(gr, V, k, B, g1, r) /\ Inward(gr, k, u, Marked(V, r))
      BY <2>5, <3>7
    <3>9. Marked(V, g) \subseteq Marked(V, r)
      BY <2>6 DEF Extends_, Marked
    <3>10. ASSUME NEW w \in Marked(V, r) \ Marked(V, g0) PROVE Inward(gr, k, w, Marked(V, r))
      <4>1. CASE w \in Marked(V, g)
        <5>1. Inward(gr, k, w, Marked(V, g))
          BY <3>1, <3>10, <4>1 DEF After
        <5> QED
          BY <3>9, <5>1 DEF Inward
      <4>2. CASE w \notin Marked(V, g)
        BY <3>4, <3>8, <3>10, <4>2 DEF After
      <4> QED
        BY <4>1, <4>2
    <3> QED
      BY <3>8, <3>10 DEF After
  <2>9. r \in Looked(gr, V, k, d, v, g0, i)
    BY <2>5, <2>6, <2>7, <2>8 DEF Looked
  <2> QED
    BY <1>5, <2>9 DEF OneNeighbor, r, g1, e, u
<1> QED
  BY <1>4, <1>5

\* When all neighbors were looked at, all vertices behind them have right numbers.
LEMMA NeighborsVisited ==
    ASSUME NEW V, NEW k, NEW gr, Acyclic(gr, V, k), NEW d \in Nat, NEW h, GoodVisit(gr, V, k, d, h),
           NEW v \in V, NEW g0 \in Cells(V), g0[v] # Null
    PROVE  /\ ChmNeighbors(gr, h, v, g0) \in Cells(V)
           /\ Extends_(V, g0, ChmNeighbors(gr, h, v, g0))
           /\ \A B \in SUBSET V : Before(gr, V, k, B, v, g0, d + 1) =>
                 /\ After(gr, V, k, B, g0, ChmNeighbors(gr, h, v, g0))
                 /\ Inward(gr, k, v, Marked(V, ChmNeighbors(gr, h, v, g0)))
<1> DEFINE s == Neighbors(gr, v)
           n == Len(gr.list[v])
           Body(f) == [i \in 0 .. Len(s) |-> IF i = 0 THEN g0
                          ELSE CHOOSE r \in {OneNeighbor(gr, h, v, g, s[i]) : g \in {f[i - 1]}} : r = r]
           F == CHOOSE f : f = Body(f)
           S == [i \in 0 .. n |-> Looked(gr, V, k, d, v, g0, i)]
           step == [p \in Cells(V) \X (1 .. n) |-> OneNeighbor(gr, h, v, p[1], s[p[2]])]
<1>1. ChmNeighbors(gr, h, v, g0) = F[Len(s)]
  BY DEF ChmNeighbors, Fold, OneNeighbor, Unset
<1>2. n \in Nat /\ DOMAIN gr.list[v] = 1 .. n /\ gr.list[v] \in Seq(0 .. k - 1)
  BY DEF Acyclic, IsGraph
<1>3. Len(s) = n
  BY <1>2 DEF Neighbors
<1>4. ASSUME NEW f PROVE Body(f) = [i \in 0 .. n |-> IF i = 0 THEN g0 ELSE OneNeighbor(gr, h, v, f[i - 1], s[i])]
  BY <1>3, OnlyOne
<1> HIDE DEF Body, n, F
<1>5. g0 \in Looked(gr, V, k, d, v, g0, 0)
  BY DEF Looked, Extends_, Before, After
<1>6. ASSUME NEW i \in 1 .. n, NEW g \in Looked(gr, V, k, d, v, g0, i - 1)
      PROVE  OneNeighbor(gr, h, v, g, s[i]) \in Looked(gr, V, k, d, v, g0, i)
  BY <1>2, OneMoreLooked
<1> HIDE DEF s
<1>7. \A i \in 1 .. n : \A g \in Looked(gr, V, k, d, v, g0, i - 1) : g \in Cells(V)
  BY DEF Looked
<1>8. \A i \in 1 .. n : \A g \in Cells(V) : step[<<g, i>>] = OneNeighbor(gr, h, v, g, s[i])
  OBVIOUS
<1> HIDE DEF step
<1>9. \A i \in 0 .. n : S[i] = Looked(gr, V, k, d, v, g0, i)
  OBVIOUS
<1> HIDE DEF S
<1>10. \A i \in 1 .. n : i \in 0 .. n /\ i - 1 \in 0 .. n
  BY <1>2
<1>11. \A i \in 1 .. n : \A x \in S[i - 1] : step[<<x, i>>] \in S[i]
  <2> TAKE i \in 1 .. n
  <2>1. S[i - 1] = Looked(gr, V, k, d, v, g0, i - 1) /\ S[i] = Looked(gr, V, k, d, v, g0, i)
    BY <1>9, <1>10
  <2> TAKE x \in S[i - 1]
  <2>2. x \in Looked(gr, V, k, d, v, g0, i - 1)
    BY <2>1
  <2>3. step[<<x, i>>] = OneNeighbor(gr, h, v, x, s[i])
    BY <1>7, <1>8, <2>2
  <2> QED
    BY <1>6, <2>1, <2>2, <2>3
<1>12. g0 \in S[0] /\ 0 \in 0 .. n /\ n \in 0 .. n
  BY <1>2, <1>5, <1>9
<1>13. PICK f : Runs(f, n, g0, S, step)
  BY <1>2, <1>11, <1>12, Loop
<1>14. f = Body(f)
  <2>1. ASSUME NEW i \in 1 .. n PROVE f[i] = OneNeighbor(gr, h, v, f[i - 1], s[i])
    <3>1. f[i - 1] \in Cells(V)
      BY <1>7, <1>9, <1>10, <1>13 DEF Runs
    <3> QED
      BY <1>8, <1>13, <3>1 DEF Runs
  <2>2. ASSUME NEW i \in 0 .. n PROVE f[i] = IF i = 0 THEN g0 ELSE OneNeighbor(gr, h, v, f[i - 1], s[i])
    <3>1. i = 0 \/ i \in 1 .. n
      BY <1>2
    <3> QED
      BY <1>13, <2>1, <3>1 DEF Runs
  <2> QED
    BY <1>4, <1>13, <2>2 DEF Runs
<1>15. F = Body(F)
  BY <1>14 DEF F
<1>16. F[0] = g0 /\ \A i \in 1 .. n : F[i] = OneNeighbor(gr, h, v, F[i - 1], s[i])
  BY <1>4, <1>10, <1>12, <1>15
<1>17. \A i \in 1 .. n : F[i - 1] \in S[i - 1] => F[i] \in S[i]
  <2> TAKE i \in 1 .. n
  <2>1. F[i] = OneNeighbor(gr, h, v, F[i - 1], s[i])
    BY <1>16
  <2>2. S[i - 1] = Looked(gr, V, k, d, v, g0, i - 1) /\ S[i] = Looked(gr, V, k, d, v, g0, i)
    BY <1>9, <1>10
  <2> QED
    BY <1>6, <2>1, <2>2
<1>18. F[n] \in Looked(gr, V, k, d, v, g0, n)
  <2>0. n \in Nat /\ F[0] \in S[0]
    BY <1>2, <1>12, <1>16
  <2>1. \A i \in 0 .. n : F[i] \in S[i]
    BY <2>0, <1>17, RoundsKeep
  <2> QED
    BY <1>9, <1>12, <2>1
<1> DEFINE r == F[n]
<1>19. ChmNeighbors(gr, h, v, g0) = r
  BY <1>1, <1>3
<1>20. /\ r \in Cells(V) /\ Extends_(V, g0, r)
       /\ \A j \in 1 .. n : r[Neighbors(gr, v)[j]] # Null
       /\ \A B \in SUBSET V : Before(gr, V, k, B, v, g0, d + 1) => After(gr, V, k, B, g0, r)
  BY <1>18 DEF Looked
<1> HIDE DEF r
<1>21. Inward(gr, k, v, Marked(V, r))
  <2> SUFFICES ASSUME NEW e \in 0 .. k - 1, v \in Ends(gr, e) PROVE Ends(gr, e) \subseteq Marked(V, r)
    BY DEF Inward
  <2>1. PICK j \in 1 .. n : gr.list[v][j] = e
    BY <1>2 DEF Acyclic, IsGraph, Has_
  <2>2. Neighbors(gr, v)[j] \in V /\ Ends(gr, e) = {v, Neighbors(gr, v)[j]}
    <3>1. j \in DOMAIN gr.list[v]
      BY <1>2
    <3> DEFINE u == Neighbors(gr, v)[j]
    <3>2. u \in V /\ Ends(gr, gr.list[v][j]) = {v, u}
      BY <3>1, NeighborIs
    <3> QED
      BY <2>1, <3>2
  <2>3. r[v] # Null
    BY <1>20 DEF Extends_
  <2> QED
    BY <1>20, <2>2, <2>3 DEF Marked
<1> QED
  BY <1>19, <1>20, <1>21

\* chm_traverse gives right numbers to the tree of a vertex.
LEMMA Traversed ==
    ASSUME NEW V, NEW k, NEW gr, Acyclic(gr, V, k),
           NEW v \in V, NEW g0 \in Cells(V), g0[v] # Null
    PROVE  /\ chm_traverse(gr, v, g0) \in Cells(V)
           /\ Extends_(V, g0, chm_traverse(gr, v, g0))
           /\ \A B \in SUBSET V : Closed(gr, k, B) /\ Tree(gr, V, k, B, g0) /\ v \notin B =>
                 /\ After(gr, V, k, B, g0, chm_traverse(gr, v, g0))
                 /\ Inward(gr, k, v, Marked(V, chm_traverse(gr, v, g0)))
<1> DEFINE n == Cardinality(V)
           X == Starts_(V)
           Step(h) == [x \in X |-> ChmNeighbors(gr, h, x[1], x[2])]
           b == [x \in X |-> x[2]]
           Body(f) == [d \in 0 .. n |-> [x \in X |-> IF d = 0 THEN x[2] ELSE ChmNeighbors(gr, f[d - 1], x[1], x[2])]]
           F == CHOOSE f : f = Body(f)
           G == [X -> Cells(V)]
           S == [d \in 0 .. n |-> {h \in G : GoodVisit(gr, V, k, d, h)}]
           step == [p \in G \X (1 .. n) |-> Step(p[1])]
<1>1. chm_traverse(gr, v, g0) = F[n][<<v, g0>>]
  <2>1. Nodes(gr) = V
    BY DEF Nodes, Acyclic, IsGraph
  <2> QED
    BY <2>1 DEF chm_traverse, Starts_, Cells, Unset
<1>2. n \in Nat
  BY FS_CardinalityType DEF Acyclic
<1>3. ASSUME NEW f PROVE Body(f) = [d \in 0 .. n |-> IF d = 0 THEN b ELSE Step(f[d - 1])]
  OBVIOUS
<1> HIDE DEF Body, n, F
<1>4. b \in S[0] /\ 0 \in 0 .. n /\ n \in 0 .. n
  <2>1. b \in G
    BY DEF Starts_
  <2>2. ASSUME NEW x \in X PROVE Visits(gr, V, k, 0, b, x)
    <3>1. b[x] = x[2] /\ b[x] \in Cells(V) /\ x[1] \in V
      BY DEF Starts_
    <3> HIDE DEF b
    <3>2. ASSUME NEW B \in SUBSET V, Before(gr, V, k, B, x[1], x[2], 0)
          PROVE  After(gr, V, k, B, x[2], b[x]) /\ Inward(gr, k, x[1], Marked(V, b[x]))
      <4>1. IsFiniteSet(V \ Marked(V, x[2]))
        BY FS_Subset DEF Acyclic
      <4>2. Cardinality(V \ Marked(V, x[2])) = 0
        BY <3>2, <4>1, FS_CardinalityType DEF Before
      <4>3. V \ Marked(V, x[2]) = {}
        BY <4>1, <4>2, FS_EmptySet
      <4>4. Marked(V, x[2]) = V
        BY <4>3 DEF Marked
      <4>5. Inward(gr, k, x[1], V)
        BY DEF Inward, Ends, Acyclic, IsGraph
      <4> QED
        BY <3>1, <3>2, <4>4, <4>5 DEF Before, After
    <3> QED
      BY <3>1, <3>2 DEF Visits, Extends_
  <2>3. GoodVisit(gr, V, k, 0, b)
    BY <2>1, <2>2 DEF GoodVisit
  <2>4. 0 \in 0 .. n /\ n \in 0 .. n
    BY <1>2
  <2> HIDE DEF G, b
  <2> QED
    BY <2>1, <2>3, <2>4
<1>5. ASSUME NEW d \in 1 .. n, NEW h \in G, GoodVisit(gr, V, k, d - 1, h)
      PROVE  Step(h) \in G /\ GoodVisit(gr, V, k, d, Step(h))
  <2> DEFINE r == Step(h)
  <2>1. ASSUME NEW x \in X
        PROVE  r[x] \in Cells(V) /\ Visits(gr, V, k, d, r, x)
    <3> DEFINE w == x[1]
               g1 == x[2]
               d1 == d - 1
    <3>1. w \in V /\ g1 \in Cells(V) /\ g1[w] # Null /\ d1 \in Nat /\ d1 + 1 = d /\ GoodVisit(gr, V, k, d1, h)
      BY <1>2, <1>5 DEF Starts_
    <3>2. r[x] = ChmNeighbors(gr, h, w, g1)
      OBVIOUS
    <3> HIDE DEF r, w, g1, d1
    <3>3. /\ ChmNeighbors(gr, h, w, g1) \in Cells(V)
          /\ Extends_(V, g1, ChmNeighbors(gr, h, w, g1))
          /\ \A B \in SUBSET V : Before(gr, V, k, B, w, g1, d1 + 1) =>
                /\ After(gr, V, k, B, g1, ChmNeighbors(gr, h, w, g1))
                /\ Inward(gr, k, w, Marked(V, ChmNeighbors(gr, h, w, g1)))
      BY <3>1, NeighborsVisited
    <3> QED
      BY <3>1, <3>2, <3>3 DEF Visits, w, g1
  <2>2. r \in G
    BY <2>1
  <2> HIDE DEF r
  <2>3. GoodVisit(gr, V, k, d, r)
    BY <2>1, <2>2 DEF GoodVisit
  <2> QED
    BY <2>2, <2>3 DEF r
<1> HIDE DEF Step, b
<1>6. \A d \in 1 .. n : \A h \in G : step[<<h, d>>] = Step(h)
  OBVIOUS
<1> HIDE DEF step
<1>7. \A d \in 0 .. n : S[d] = {h \in G : GoodVisit(gr, V, k, d, h)}
  OBVIOUS
<1> HIDE DEF S
<1>8. \A d \in 1 .. n : d \in 0 .. n /\ d - 1 \in 0 .. n
  BY <1>2
<1>9. ASSUME NEW d \in 1 .. n, NEW h \in S[d - 1] PROVE h \in G /\ Step(h) \in S[d]
  <2>1. d \in 0 .. n /\ d - 1 \in 0 .. n
    BY <1>8
  <2>2. h \in G /\ GoodVisit(gr, V, k, d - 1, h)
    BY <1>7, <2>1
  <2> HIDE DEF G
  <2> QED
    BY <1>5, <1>7, <2>1, <2>2
<1> HIDE DEF G
<1>10. \A d \in 1 .. n : \A h \in S[d - 1] : step[<<h, d>>] \in S[d]
  BY <1>6, <1>9
<1>11. PICK f : Runs(f, n, b, S, step)
  BY <1>2, <1>4, <1>10, Loop
<1>12. f = Body(f)
  <2>1. ASSUME NEW d \in 1 .. n PROVE f[d] = Step(f[d - 1])
    <3>1. f[d - 1] \in S[d - 1]
      BY <1>8, <1>11 DEF Runs
    <3>2. f[d - 1] \in G
      BY <1>9, <3>1
    <3> QED
      BY <1>6, <1>11, <3>2 DEF Runs
  <2>2. ASSUME NEW d \in 0 .. n PROVE f[d] = IF d = 0 THEN b ELSE Step(f[d - 1])
    <3>1. d = 0 \/ d \in 1 .. n
      BY <1>2
    <3> QED
      BY <1>11, <2>1, <3>1 DEF Runs
  <2> QED
    BY <1>3, <1>11, <2>2 DEF Runs
<1>13. F = Body(F)
  BY <1>12 DEF F
<1>14. F[0] = b /\ \A d \in 1 .. n : F[d] = Step(F[d - 1])
  BY <1>3, <1>4, <1>8, <1>13
<1>15. \A d \in 1 .. n : F[d - 1] \in S[d - 1] => F[d] \in S[d]
  BY <1>9, <1>14
<1>16. F[n] \in S[n]
  <2>0. n \in Nat /\ F[0] \in S[0]
    BY <1>2, <1>4, <1>14
  <2>1. \A d \in 0 .. n : F[d] \in S[d]
    BY <2>0, <1>15, RoundsKeep
  <2> QED
    BY <1>4, <2>1
<1>17. GoodVisit(gr, V, k, n, F[n])
  BY <1>4, <1>7, <1>16
<1> DEFINE x == <<v, g0>>
           r == F[n][x]
<1>18. x \in X /\ x[1] = v /\ x[2] = g0
  BY DEF Starts_
<1>19. Visits(gr, V, k, n, F[n], x)
  BY <1>17, <1>18 DEF GoodVisit
<1> HIDE DEF x
<1>20. /\ r \in Cells(V) /\ Extends_(V, g0, r)
       /\ \A B \in SUBSET V : Before(gr, V, k, B, v, g0, n) =>
             After(gr, V, k, B, g0, r) /\ Inward(gr, k, v, Marked(V, r))
  BY <1>18, <1>19 DEF Visits
<1>21. chm_traverse(gr, v, g0) = r
  BY <1>1 DEF x
<1> HIDE DEF r
<1>22. Cardinality(V \ Marked(V, g0)) <= n
  BY FS_Subset DEF Acyclic, n
<1> QED
  BY <1>20, <1>21, <1>22 DEF Before
\* The numbers when the search was begun at the first i vertices.
Numbered(gr, n, k, i) ==
    {g \in Cells(0 .. n - 1) :
        /\ Closed(gr, k, Marked(0 .. n - 1, g))
        /\ \A v \in 0 .. i - 1 : g[v] # Null
        /\ \A e \in Inside(gr, k, Marked(0 .. n - 1, g)) : Equation(gr, g, e)}

NumberFrom(gr, g, v) == IF g[v] # Null THEN g ELSE chm_traverse(gr, v, [g EXCEPT ![v] = 0])

\* The outer loop of chm_new: one vertex more as a start.
LEMMA OneMoreNumbered ==
    ASSUME NEW n \in Nat, NEW k, NEW gr, Acyclic(gr, 0 .. n - 1, k), NEW i \in 0 .. n - 1,
           NEW g \in Numbered(gr, n, k, i)
    PROVE  NumberFrom(gr, g, i) \in Numbered(gr, n, k, i + 1)
<1> DEFINE V == 0 .. n - 1
           B == Marked(V, g)
           g1 == [g EXCEPT ![i] = 0]
           r == chm_traverse(gr, i, g1)
<1>0. i \in V
  OBVIOUS
<1> HIDE DEF V
<1>1. /\ g \in Cells(V) /\ Closed(gr, k, B)
      /\ \A v \in 0 .. i - 1 : g[v] # Null
      /\ \A e \in Inside(gr, k, B) : Equation(gr, g, e)
      /\ Acyclic(gr, V, k)
  BY DEF Numbered, V
<1>2. \A v \in 0 .. (i + 1) - 1 : v \in 0 .. i - 1 \/ v = i
  OBVIOUS
<1>3. CASE g[i] # Null
  BY <1>1, <1>2, <1>3 DEF Numbered, NumberFrom, V
<1>4. CASE g[i] = Null
  <2>1. 0 \in Number /\ Null \notin Int /\ Number \subseteq Int
    BY NumberIs, StructsAssumption
  <2>2. g1 \in Cells(V) /\ g1[i] # Null /\ \A w \in V : w # i => g1[w] = g[w]
    BY <1>0, <1>1, <2>1 DEF Cells
  <2> HIDE DEF g1
  <2>3. Marked(V, g1) = B \cup {i} /\ i \notin B /\ B \in SUBSET V
    BY <1>0, <1>4, <2>2 DEF Marked
  <2> HIDE DEF B
  <2>4. Tree(gr, V, k, B, g1)
    <3>1. Marked(V, g1) \ B = {i}
      BY <2>3
    <3>2. Inside(gr, k, {i}) = {}
      <4>1. \A e \in 0 .. k - 1 : gr.ends[e][1] # gr.ends[e][2]
        BY <1>1 DEF Acyclic, Forest
      <4> QED
        BY <4>1 DEF Inside, Ends
    <3>3. Cardinality({i}) = 1 /\ Cardinality({}) = 0
      BY FS_Singleton, FS_EmptySet
    <3> DEFINE C == Marked(V, g1) \ B
    <3>4. C = {i} /\ B \subseteq Marked(V, g1)
      BY <2>3, <3>1
    <3> HIDE DEF C
    <3>5. C # {} /\ Inside(gr, k, C) = {} /\ Cardinality(Inside(gr, k, C)) = Cardinality(C) - 1
      <4>1. C # {} /\ Inside(gr, k, C) = {}
        BY <3>2, <3>4
      <4>2. Cardinality(Inside(gr, k, C)) = 0
        BY <3>3, <4>1
      <4>3. Cardinality(C) = 1
        BY <3>3, <3>4
      <4> QED
        BY <4>1, <4>2, <4>3
    <3>6. \A e \in Inside(gr, k, C) : Equation(gr, g1, e)
      BY <3>5
    <3> QED
      BY <3>4, <3>5, <3>6 DEF Tree, C
  <2>5. /\ r \in Cells(V) /\ Extends_(V, g1, r)
        /\ After(gr, V, k, B, g1, r) /\ Inward(gr, k, i, Marked(V, r))
    <3>1. /\ chm_traverse(gr, i, g1) \in Cells(V)
          /\ Extends_(V, g1, chm_traverse(gr, i, g1))
          /\ \A D \in SUBSET V : Closed(gr, k, D) /\ Tree(gr, V, k, D, g1) /\ i \notin D =>
                 /\ After(gr, V, k, D, g1, chm_traverse(gr, i, g1))
                 /\ Inward(gr, k, i, Marked(V, chm_traverse(gr, i, g1)))
      BY <1>0, <1>1, <2>2, Traversed
    <3> QED
      BY <1>1, <2>3, <2>4, <3>1
  <2> HIDE DEF r
  <2>6. \A w \in V : g[w] # Null => r[w] = g[w]
    BY <1>4, <2>2, <2>5 DEF Extends_
  <2>7. r[i] # Null
    BY <1>0, <2>2, <2>5 DEF Extends_
  <2>8. \A v \in 0 .. (i + 1) - 1 : r[v] # Null
    <3>1. 0 .. i - 1 \subseteq V
      BY DEF V
    <3> QED
      BY <1>1, <1>2, <2>6, <2>7, <3>1
  <2>9. B \subseteq Marked(V, r)
    BY <2>6 DEF Marked, B
  <2>10. Closed(gr, k, Marked(V, r))
    <3> SUFFICES ASSUME NEW e \in 0 .. k - 1, NEW w \in Ends(gr, e) \cap Marked(V, r)
                 PROVE  Ends(gr, e) \subseteq Marked(V, r)
      BY DEF Closed
    <3>1. CASE w \in B
      BY <1>1, <2>9, <3>1 DEF Closed
    <3>2. CASE w \notin B
      BY <2>3, <2>5, <3>2 DEF After, Inward
    <3> QED
      BY <3>1, <3>2
  <2>11. ASSUME NEW e \in Inside(gr, k, Marked(V, r)) PROVE Equation(gr, r, e)
    <3>1. e \in 0 .. k - 1 /\ Ends(gr, e) \subseteq Marked(V, r)
      BY DEF Inside
    <3>2. CASE Ends(gr, e) \cap B # {}
      <4>1. Ends(gr, e) \subseteq B
        BY <1>1, <3>1, <3>2 DEF Closed
      <4>2. Equation(gr, g, e) /\ gr.ends[e][1] \in B /\ gr.ends[e][2] \in B
        BY <1>1, <3>1, <4>1 DEF Inside, Ends
      <4>3. \A w \in B : r[w] = g[w]
        BY <2>6 DEF B, Marked
      <4> QED
        BY <4>2, <4>3 DEF Equation
    <3>3. CASE Ends(gr, e) \cap B = {}
      <4>1. e \in Inside(gr, k, Marked(V, r) \ B)
        BY <3>1, <3>3 DEF Inside
      <4> QED
        BY <2>5, <4>1 DEF After, Tree
    <3> QED
      BY <3>2, <3>3
  <2>12. r \in Numbered(gr, n, k, i + 1)
    BY <2>5, <2>8, <2>10, <2>11 DEF Numbered, V
  <2> QED
    BY <1>4, <2>12 DEF NumberFrom, r, g1
<1> QED
  BY <1>3, <1>4

\* The assignment of chm solves the equations of all edges.
LEMMA NumbersRight ==
    ASSUME NEW n \in Nat, NEW k, NEW gr, Acyclic(gr, 0 .. n - 1, k)
    PROVE  /\ ChmNumbers(gr) \in [0 .. n - 1 -> Number]
           /\ \A e \in 0 .. k - 1 : Equation(gr, ChmNumbers(gr), e)
<1> DEFINE V == 0 .. n - 1
           s == Upto(Cardinality(Nodes(gr)))
           b == [v \in Nodes(gr) |-> Null]
           Body(f) == [i \in 0 .. Len(s) |-> IF i = 0 THEN b
                          ELSE CHOOSE r \in {NumberFrom(gr, g, s[i]) : g \in {f[i - 1]}} : r = r]
           F == CHOOSE f : f = Body(f)
           S == [i \in 0 .. n |-> Numbered(gr, n, k, i)]
           step == [p \in Cells(V) \X (1 .. n) |-> NumberFrom(gr, p[1], p[2] - 1)]
<1>1. Nodes(gr) = V /\ Cardinality(Nodes(gr)) = n
  <2>1. Nodes(gr) = 0 .. n - 1
    BY DEF Nodes, Acyclic, IsGraph
  <2>2. Cardinality(0 .. n - 1) = IF 0 > n - 1 THEN 0 ELSE n - 1 - 0 + 1
    BY FS_Interval
  <2> QED
    BY <2>1, <2>2
<1>2. ChmNumbers(gr) = F[Len(s)]
  BY DEF ChmNumbers, Fold, NumberFrom, Unset
<1>3. Len(s) = n /\ \A i \in 1 .. n : s[i] = i - 1
  BY <1>1 DEF Upto
<1>4. ASSUME NEW f PROVE Body(f) = [i \in 0 .. n |-> IF i = 0 THEN b ELSE NumberFrom(gr, f[i - 1], i - 1)]
  BY <1>3, OnlyOne
<1> HIDE DEF Body, s, F
<1>5. b \in Numbered(gr, n, k, 0)
  <2>1. b \in Cells(V) /\ Marked(V, b) = {}
    BY <1>1 DEF Cells, Marked
  <2>2. Inside(gr, k, {}) = {}
    BY DEF Inside, Ends
  <2>3. Closed(gr, k, {})
    BY DEF Closed
  <2> HIDE DEF b
  <2> QED
    BY <2>1, <2>2, <2>3 DEF Numbered
<1>6. ASSUME NEW i \in 1 .. n, NEW g \in Numbered(gr, n, k, i - 1)
      PROVE  NumberFrom(gr, g, i - 1) \in Numbered(gr, n, k, i)
  <2> DEFINE j == i - 1
  <2>1. j \in 0 .. n - 1 /\ j + 1 = i
    OBVIOUS
  <2> HIDE DEF j
  <2>2. NumberFrom(gr, g, j) \in Numbered(gr, n, k, j + 1)
    <3>1. g \in Numbered(gr, n, k, j)
      BY DEF j
    <3> QED
      BY <2>1, <3>1, OneMoreNumbered
  <2> QED
    BY <2>1, <2>2 DEF j
<1>7. \A i \in 0 .. n : \A g \in Numbered(gr, n, k, i) : g \in Cells(V)
  BY DEF Numbered
<1> HIDE DEF V, b
<1>8. \A i \in 1 .. n : \A g \in Cells(V) : step[<<g, i>>] = NumberFrom(gr, g, i - 1)
  OBVIOUS
<1>9. \A i \in 0 .. n : S[i] = Numbered(gr, n, k, i)
  OBVIOUS
<1> HIDE DEF S, step
<1>10. ASSUME NEW i \in 1 .. n, NEW g \in S[i - 1]
       PROVE  g \in Cells(V) /\ step[<<g, i>>] = NumberFrom(gr, g, i - 1) /\ step[<<g, i>>] \in S[i]
  <2>1. i \in 0 .. n /\ i - 1 \in 0 .. n
    OBVIOUS
  <2>2. g \in Numbered(gr, n, k, i - 1)
    BY <1>9, <2>1
  <2>3. g \in Cells(V)
    BY <1>7, <2>1, <2>2
  <2> QED
    BY <1>6, <1>8, <1>9, <2>1, <2>2, <2>3
<1>11. b \in S[0]
  BY <1>5, <1>9
<1>12. \A i \in 1 .. n : \A g \in S[i - 1] : step[<<g, i>>] \in S[i]
  BY <1>10
<1>13. PICK f : Runs(f, n, b, S, step)
  BY <1>11, <1>12, Loop
<1>14. f = Body(f)
  <2>1. ASSUME NEW i \in 1 .. n PROVE f[i] = NumberFrom(gr, f[i - 1], i - 1)
    <3>1. i - 1 \in 0 .. n
      OBVIOUS
    <3>2. f[i - 1] \in S[i - 1]
      BY <1>13, <3>1 DEF Runs
    <3> QED
      BY <1>10, <1>13, <3>2 DEF Runs
  <2>2. ASSUME NEW i \in 0 .. n PROVE f[i] = IF i = 0 THEN b ELSE NumberFrom(gr, f[i - 1], i - 1)
    <3>1. i = 0 \/ i \in 1 .. n
      OBVIOUS
    <3> QED
      BY <1>13, <2>1, <3>1 DEF Runs
  <2> QED
    BY <1>4, <1>13, <2>2 DEF Runs
<1>15. F = Body(F)
  BY <1>14 DEF F
<1>16. F[0] = b /\ \A i \in 1 .. n : F[i] = NumberFrom(gr, F[i - 1], i - 1)
  BY <1>4, <1>15
<1>17. \A i \in 1 .. n : F[i - 1] \in S[i - 1] => F[i] \in S[i]
  BY <1>10, <1>16
<1> DEFINE r == F[n]
<1>18. r \in Numbered(gr, n, k, n)
  <2>0. F[0] \in S[0]
    BY <1>11, <1>16
  <2>1. \A i \in 0 .. n : F[i] \in S[i]
    BY <2>0, <1>17, RoundsKeep
  <2> QED
    BY <1>9, <2>1
<1> HIDE DEF r
<1>19. /\ r \in Cells(V) /\ \A v \in V : r[v] # Null
       /\ \A e \in Inside(gr, k, Marked(V, r)) : Equation(gr, r, e)
  BY <1>18 DEF Numbered, V
<1>20. r \in [V -> Number] /\ Marked(V, r) = V
  BY <1>19 DEF Cells, Marked
<1>21. Inside(gr, k, V) = 0 .. k - 1
  BY DEF Inside, Ends, Acyclic, IsGraph, V
<1>22. ChmNumbers(gr) = r
  BY <1>2, <1>3 DEF r
<1> QED
  BY <1>19, <1>20, <1>21, <1>22 DEF V
-----------------------------------------------------------------------------
(* The edges of the keys. *)

\* Keys that can be hashed, and seeds for n vertices.
Hashable(keys) == keys \in Seq(DOMAIN Jenkins[0]) /\ Len(keys) \in Number \ {0}
Seeds(n) == n \in Number \ {0} /\ 0 .. n - 1 \subseteq DOMAIN Jenkins

\* A hash is a number of a word.
LEMMA HashIs ==
    ASSUME NEW s \in DOMAIN Jenkins, NEW k \in DOMAIN Jenkins[0]
    PROVE  hash(s, k) \in Number /\ hash(s, k) \in Nat
<1>1. Jenkins[s] \in [DOMAIN Jenkins[0] -> Number \X Number \X Number]
  BY StructsAssumption
<1>2. Jenkins[s][k] \in Number \X Number \X Number
  BY <1>1
<1>3. Number \subseteq Nat
  BY NumberIs
<1> QED
  BY <1>2, <1>3 DEF hash

\* The ends of a key are vertices.
LEMMA EndsAre ==
    ASSUME NEW n, Seeds(n), NEW s1 \in 0 .. n - 1, NEW s2 \in 0 .. n - 1, NEW k \in DOMAIN Jenkins[0]
    PROVE  ChmEnds(k, s1, s2, n) \in (0 .. n - 1) \X (0 .. n - 1)
<1> DEFINE h1 == hash(s1, k)
           h2 == hash(s2, k)
<1>1. n \in Nat \ {0} /\ h1 \in Nat /\ h2 \in Nat
  BY HashIs, NumberIs DEF Seeds
<1>2. ChmEnds(k, s1, s2, n) = <<h1 % n, IF h1 % n = h2 % n THEN ((h2 % n) + 1) % n ELSE h2 % n>>
  BY DEF ChmEnds
<1> HIDE DEF h1, h2
<1>3. h1 % n \in 0 .. n - 1 /\ h2 % n \in 0 .. n - 1
  BY <1>1, ModType
<1>4. (h2 % n) + 1 \in Nat
  BY <1>1, <1>3
<1>5. ((h2 % n) + 1) % n \in 0 .. n - 1
  BY <1>1, <1>4, ModType
<1> QED
  BY <1>2, <1>3, <1>5

\* A graph that chm takes.
EdgesOfKeys(gr, keys, s1, s2, n) ==
    /\ Acyclic(gr, 0 .. n - 1, Len(keys))
    /\ \A i \in 1 .. Len(keys) : gr.ends[i - 1] = ChmEnds(keys[i], s1, s2, n)

\* A graph that chm_gen_edges accepts has the edges of the keys and no cycle.
LEMMA GraphTaken ==
    ASSUME Hashable(mph.keys), NEW n, Seeds(n), NEW s1 \in 0 .. n - 1, NEW s2 \in 0 .. n - 1,
           chm_gen_edges(s1, s2, n) # Null
    PROVE  EdgesOfKeys(chm_gen_edges(s1, s2, n), mph.keys, s1, s2, n)
<1> DEFINE ends == [i \in 1 .. m |-> ChmEnds(mph.keys[i], s1, s2, n)]
           gr == GraphOf(n, ends)
           V == 0 .. n - 1
<1>1. m \in Number \ {0} /\ m \in Nat /\ n \in Nat /\ m = Len(mph.keys)
  BY NumberIs DEF Hashable, Seeds, m
<1>2. ASSUME NEW i \in 1 .. m PROVE ChmEnds(mph.keys[i], s1, s2, n) \in V \X V
  <2> DEFINE key == mph.keys[i]
  <2>1. key \in DOMAIN Jenkins[0]
    BY <1>1 DEF Hashable
  <2> HIDE DEF key
  <2>2. ChmEnds(key, s1, s2, n) \in V \X V
    BY <2>1, EndsAre
  <2> QED
    BY <2>2 DEF key
<1>3. ends \in Seq(V \X V) /\ Len(ends) = m
  BY <1>1, <1>2
<1>4. chm_gen_edges(s1, s2, n) = IF \E i \in 1 .. m : ends[i][1] = ends[i][2] THEN Null
                                 ELSE IF graph_is_cyclic(gr) THEN Null ELSE gr
  BY DEF chm_gen_edges, GraphOf
<1>5. /\ \A i \in 1 .. m : ends[i][1] # ends[i][2]
      /\ ~ graph_is_cyclic(gr)
      /\ chm_gen_edges(s1, s2, n) = gr
  BY <1>4
<1>6. \A i \in 1 .. m : ends[i] = ChmEnds(mph.keys[i], s1, s2, n)
  OBVIOUS
<1> HIDE DEF ends
<1>7. IsGraph(gr, V, m) /\ \A i \in 1 .. m : gr.ends[i - 1] = ends[i]
  <2>1. /\ IsGraph(GraphOf(n, ends), 0 .. n - 1, Len(ends))
        /\ \A i \in 1 .. Len(ends) : GraphOf(n, ends).ends[i - 1] = ends[i]
    BY <1>1, <1>3, <1>5, GraphBuilt
  <2> QED
    BY <1>3, <2>1
<1> HIDE DEF gr
<1>8. \A e \in 0 .. m - 1 : gr.ends[e][1] # gr.ends[e][2]
  <2> TAKE e \in 0 .. m - 1
  <2>1. e + 1 \in 1 .. m /\ (e + 1) - 1 = e
    BY <1>1
  <2>2. gr.ends[e] = ends[e + 1]
    BY <1>7, <2>1
  <2> QED
    BY <1>5, <2>1, <2>2
<1>9. Forest(gr, V, m)
  BY <1>1, <1>5, <1>7, <1>8, AcyclicIsForest
<1>10. IsFiniteSet(V) /\ 0 .. m - 1 \subseteq Number
  <2>1. IsFiniteSet(0 .. n - 1)
    BY <1>1, FS_Interval
  <2> DEFINE M == 2 ^ Word
             k == m
  <2>2. k \in 0 .. M - 1 /\ Number = 0 .. M - 1 /\ M \in Nat
    BY <1>1, NumberIs
  <2> HIDE DEF M, k
  <2>3. 0 .. k - 1 \subseteq Number
    BY <2>2
  <2> QED
    BY <2>1, <2>3 DEF k
<1> QED
  BY <1>1, <1>5, <1>6, <1>7, <1>9, <1>10 DEF EdgesOfKeys, Acyclic

\* The data of a function of chm that gives every key its place.
ChmRight(d, keys) ==
    /\ d.n \in Number \ {0} /\ d.m \in Number \ {0} /\ d.m = Len(keys)
    /\ \E s1, s2 \in Number : d.hashes = <<s1, s2>>
    /\ d.g \in [0 .. d.n - 1 -> Number]
    /\ d = [g |-> d.g, hashes |-> d.hashes, n |-> d.n, m |-> d.m]
    /\ \A i \in 1 .. Len(keys) :
          LET ends == ChmEnds(keys[i], d.hashes[1], d.hashes[2], d.n)
          IN  /\ ends[1] \in 0 .. d.n - 1 /\ ends[2] \in 0 .. d.n - 1
              /\ U32(d.g[ends[1]] + d.g[ends[2]]) = i - 1

\* The two numbers of the ends of a key add up to the place of the key.
LEMMA ChmIsRight ==
    ASSUME NEW keys, Hashable(keys), NEW n, Seeds(n), NEW s1 \in 0 .. n - 1, NEW s2 \in 0 .. n - 1,
           NEW gr, EdgesOfKeys(gr, keys, s1, s2, n)
    PROVE  ChmRight([g |-> ChmNumbers(gr), hashes |-> <<s1, s2>>, n |-> n, m |-> Len(keys)], keys)
<1> DEFINE g == ChmNumbers(gr)
           k == Len(keys)
<1>1. g \in [0 .. n - 1 -> Number] /\ \A e \in 0 .. k - 1 : Equation(gr, g, e)
  BY NumbersRight, NumberIs DEF EdgesOfKeys, Seeds
<1> HIDE DEF g
<1>2. n \in Number \ {0} /\ k \in Number \ {0} /\ Number \subseteq Nat /\ s1 \in Number /\ s2 \in Number
  BY NumberIs DEF Hashable, Seeds
<1>3. ASSUME NEW i \in 1 .. k
      PROVE  LET ends == ChmEnds(keys[i], s1, s2, n)
             IN  /\ ends[1] \in 0 .. n - 1 /\ ends[2] \in 0 .. n - 1
                 /\ U32(g[ends[1]] + g[ends[2]]) = i - 1
  <2> DEFINE ends == ChmEnds(keys[i], s1, s2, n)
  <2>1. keys[i] \in DOMAIN Jenkins[0]
    BY <1>2 DEF Hashable
  <2>2. ends \in (0 .. n - 1) \X (0 .. n - 1)
    BY <2>1, EndsAre
  <2>3. gr.ends[i - 1] = ends /\ i - 1 \in 0 .. k - 1
    BY <1>2 DEF EdgesOfKeys
  <2> HIDE DEF ends
  <2>4. U32(g[ends[1]] + g[ends[2]]) = i - 1
    BY <1>1, <2>3 DEF Equation
  <2> QED
    BY <2>2, <2>4 DEF ends
<1> QED
  BY <1>1, <1>2, <1>3 DEF ChmRight, g

\* A lookup in it, given what it reads of g.
LEMMA SumIs ==
    ASSUME NEW d, NEW keys, ChmRight(d, keys), NEW i \in 1 .. Len(keys)
    PROVE  LET ends == ChmEnds(keys[i], d.hashes[1], d.hashes[2], d.n)
           IN  Rem(Plus(d.g[ends[1]], d.g[ends[2]]), d.m) = i - 1
<1> DEFINE ends == ChmEnds(keys[i], d.hashes[1], d.hashes[2], d.n)
           a == d.g[ends[1]]
           b == d.g[ends[2]]
           k == d.m
           r == i - 1
<1>1. a \in Number /\ b \in Number /\ U32(a + b) = r /\ k \in Number \ {0} /\ k = Len(keys)
  BY DEF ChmRight
<1>2. Number \subseteq Nat /\ Wild \notin Int
  BY NumberIs, WildAssumption
<1> HIDE DEF a, b, k
<1>3. Plus(a, b) = r
  BY <1>1, <1>2 DEF Plus
<1>4. k \in Nat \ {0} /\ r \in Int /\ r \in 0 .. k - 1 /\ r = k * 0 + r
  BY <1>1, <1>2
<1> HIDE DEF r
<1>5. r % k = r
  BY <1>4, ModUnique
<1>6. Rem(Plus(a, b), k) = r
  BY <1>2, <1>3, <1>4, <1>5 DEF Rem
<1> QED
  BY <1>6 DEF a, b, k, r

\* So chm_search finds the place.
LEMMA ChmFinds ==
    ASSUME NEW d, NEW keys, ChmRight(d, keys), NEW i \in 1 .. Len(keys)
    PROVE  ChmSearch(d, keys[i]) = i - 1
<1> DEFINE ends == ChmEnds(keys[i], d.hashes[1], d.hashes[2], d.n)
<1>1. ends[1] \in DOMAIN d.g /\ ends[2] \in DOMAIN d.g
  BY DEF ChmRight
<1>2. Rem(Plus(d.g[ends[1]], d.g[ends[2]]), d.m) = i - 1
  BY SumIs
<1>3. ChmSearch(d, keys[i]) = Rem(GSum(d.g, ends[1], ends[2]), d.m)
  BY DEF ChmSearch
<1> HIDE DEF ends
<1> QED
  BY <1>1, <1>2, <1>3 DEF GSum, CellOf
-----------------------------------------------------------------------------
(* Files and packed memory. *)

Token_ == [bytes : Nat, val : Int \cup {"chm", "jenkins"} \cup ({"jenkins"} \X Int)]

\* s is the first a tokens of text.
Spells(s, text, a) ==
    a \in Nat /\ s \in Seq(Token_) /\ Len(s) = a /\ \A i \in 1 .. a : s[i] = text[i]

\* Two sequences, one behind the other.
LEMMA Joined ==
    ASSUME NEW T, NEW s \in Seq(T), NEW t \in Seq(T)
    PROVE  /\ s \o t \in Seq(T) /\ Len(s \o t) = Len(s) + Len(t)
           /\ \A i \in 1 .. Len(s) : (s \o t)[i] = s[i]
           /\ \A i \in 1 .. Len(t) : (s \o t)[Len(s) + i] = t[i]
  OBVIOUS

\* The next tokens of a text.
LEMMA SpellsMore ==
    ASSUME NEW s, NEW text, NEW a, Spells(s, text, a), NEW t \in Seq(Token_),
           \A i \in 1 .. Len(t) : t[i] = text[a + i]
    PROVE  Spells(s \o t, text, a + Len(t))
<1> DEFINE q == s \o t
           b == Len(t)
<1>1. /\ a \in Nat /\ b \in Nat /\ s \in Seq(Token_) /\ Len(s) = a
      /\ \A i \in 1 .. a : s[i] = text[i]
  BY DEF Spells
<1>2. /\ q \in Seq(Token_) /\ Len(q) = a + b
      /\ \A i \in 1 .. a : q[i] = s[i]
      /\ \A i \in 1 .. b : q[a + i] = t[i]
  BY <1>1
<1>3. \A i \in 1 .. b : q[a + i] = text[a + i]
  BY <1>2
<1> HIDE DEF q, b
<1>4. ASSUME NEW i \in 1 .. a + b PROVE q[i] = text[i]
  <2>1. CASE i \in 1 .. a
    BY <1>1, <1>2, <2>1
  <2>2. CASE i \notin 1 .. a
    <3>1. i - a \in 1 .. b /\ a + (i - a) = i
      BY <1>1, <2>2
    <3> QED
      BY <1>3, <3>1
  <2> QED
    BY <2>1, <2>2
<1>5. Spells(q, text, a + b)
  BY <1>1, <1>2, <1>4 DEF Spells
<1> QED
  BY <1>5 DEF q, b

\* The next token of a text.
LEMMA SpellsOne ==
    ASSUME NEW s, NEW text, NEW a, Spells(s, text, a), NEW n \in Nat, NEW v,
           [bytes |-> n, val |-> v] \in Token_, text[a + 1] = [bytes |-> n, val |-> v]
    PROVE  Spells(s \o W(n, v), text, a + 1)
<1> DEFINE t == W(n, v)
<1>1. t \in Seq(Token_) /\ Len(t) = 1 /\ \A i \in 1 .. 1 : t[i] = text[a + i]
  <2>1. t = <<[bytes |-> n, val |-> v]>>
    BY DEF W
  <2> QED
    BY <2>1
<1> HIDE DEF t
<1>2. Spells(s \o t, text, a + 1)
  <2>1. \A i \in 1 .. Len(t) : t[i] = text[a + i]
    BY <1>1
  <2> QED
    BY <1>1, <2>1, SpellsMore
<1> QED
  BY <1>2 DEF t

\* The dump of a hash function: two tokens.
LEMMA SpellsHash ==
    ASSUME NEW s, NEW text, NEW a, Spells(s, text, a), NEW seed \in Int,
           text[a + 1] = [bytes |-> 4, val |-> 12],
           text[a + 2] = [bytes |-> 12, val |-> <<"jenkins", seed>>]
    PROVE  Spells(s \o hash_state_dump(seed), text, a + 2)
<1> DEFINE t1 == W(4, 12)
           t2 == W(12, <<"jenkins", seed>>)
           t == t1 \o t2
<1>1. /\ t1 \in Seq(Token_) /\ Len(t1) = 1 /\ t1[1] = [bytes |-> 4, val |-> 12]
      /\ t2 \in Seq(Token_) /\ Len(t2) = 1 /\ t2[1] = [bytes |-> 12, val |-> <<"jenkins", seed>>]
  BY DEF W, Token_
<1> HIDE DEF t1, t2
<1>2. t \in Seq(Token_) /\ Len(t) = 2 /\ t[1] = t1[1] /\ t[2] = t2[1]
  <2>1. /\ t \in Seq(Token_) /\ Len(t) = Len(t1) + Len(t2)
        /\ \A i \in 1 .. Len(t1) : t[i] = t1[i]
        /\ \A i \in 1 .. Len(t2) : t[Len(t1) + i] = t2[i]
    <3> HIDE DEF Token_
    <3>1. t1 \in Seq(Token_) /\ t2 \in Seq(Token_)
      BY <1>1
    <3> QED
      BY <3>1, Joined
  <2> HIDE DEF t
  <2>2. 1 \in 1 .. Len(t1) /\ 1 \in 1 .. Len(t2) /\ Len(t1) + 1 = 2
    BY <1>1
  <2> QED
    BY <1>1, <2>1, <2>2
<1>3. t = hash_state_dump(seed) /\ a \in Nat
  BY DEF hash_state_dump, t1, t2, Spells
<1> HIDE DEF t
<1>4. \A i \in 1 .. Len(t) : t[i] = text[a + i]
  BY <1>1, <1>2
<1>5. Spells(s \o t, text, a + Len(t))
  BY <1>2, <1>4, SpellsMore
<1> QED
  BY <1>2, <1>3, <1>5

\* The next cells of an array.
LEMMA SpellsArray ==
    ASSUME NEW s, NEW text, NEW a, Spells(s, text, a), NEW n \in Nat, NEW bytes \in Nat,
           NEW cell, \A i \in 0 .. n - 1 : cell[i] \in Int,
           \A i \in 1 .. n : text[a + i] = [bytes |-> bytes, val |-> cell[i - 1]]
    PROVE  Spells(s \o Array(bytes, n, cell), text, a + n)
<1> DEFINE t == Array(bytes, n, cell)
<1>1. ASSUME NEW i \in 1 .. n PROVE [bytes |-> bytes, val |-> cell[i - 1]] \in Token_
  <2>1. i - 1 \in 0 .. n - 1
    OBVIOUS
  <2> QED
    BY <2>1 DEF Token_
<1>2. t \in Seq(Token_) /\ Len(t) = n /\ \A i \in 1 .. n : t[i] = text[a + i]
  BY <1>1 DEF Array
<1> HIDE DEF t
<1>3. \A i \in 1 .. Len(t) : t[i] = text[a + i]
  BY <1>2
<1>4. Spells(s \o t, text, a + Len(t))
  BY <1>2, <1>3, SpellsMore
<1> QED
  BY <1>2, <1>4 DEF t

\* The file of a function of chm, token by token.
ChmText(d, size) ==
    [i \in 1 .. 9 + d.n |->
        CASE i = 1 -> [bytes |-> 3, val |-> "chm"]
          [] i = 2 -> [bytes |-> 4, val |-> size]
          [] i = 3 -> [bytes |-> 4, val |-> 2]
          [] i = 4 -> [bytes |-> 4, val |-> 12]
          [] i = 5 -> [bytes |-> 12, val |-> <<"jenkins", d.hashes[1]>>]
          [] i = 6 -> [bytes |-> 4, val |-> 12]
          [] i = 7 -> [bytes |-> 12, val |-> <<"jenkins", d.hashes[2]>>]
          [] i = 8 -> [bytes |-> 4, val |-> d.n]
          [] i = 9 -> [bytes |-> 4, val |-> d.m]
          [] OTHER -> [bytes |-> 4, val |-> d.g[i - 10]]]

\* chm_dump writes this text.
LEMMA ChmDumpIs ==
    ASSUME NEW d, NEW keys, ChmRight(d, keys), NEW size \in Number
    PROVE  Spells(ChmDump([algo |-> "chm", size |-> size, data |-> d]), ChmText(d, size), 9 + d.n)
<1> DEFINE f == [algo |-> "chm", size |-> size, data |-> d]
           text == ChmText(d, size)
           n == d.n
           k == d.m
           s1 == d.hashes[1]
           s2 == d.hashes[2]
           p1 == W(NameBytes["chm"], "chm")
           p2 == p1 \o W(4, size)
           p3 == p2 \o W(4, 2)
           p4 == p3 \o hash_state_dump(s1)
           p5 == p4 \o hash_state_dump(s2)
           p6 == p5 \o W(4, n)
           p7 == p6 \o W(4, k)
           p8 == p7 \o Array(4, n, d.g)
<1>1. ChmDump(f) = p8
  BY DEF ChmDump, cmph_dump_head
<1>2. /\ n \in Nat \ {0} /\ n \in Int /\ k \in Int /\ s1 \in Int /\ s2 \in Int /\ size \in Int
      /\ \A i \in 0 .. n - 1 : d.g[i] \in Int
  BY NumberIs DEF ChmRight
<1>3. /\ text[1] = [bytes |-> 3, val |-> "chm"] /\ text[2] = [bytes |-> 4, val |-> size]
      /\ text[3] = [bytes |-> 4, val |-> 2]
      /\ text[4] = [bytes |-> 4, val |-> 12] /\ text[5] = [bytes |-> 12, val |-> <<"jenkins", s1>>]
      /\ text[6] = [bytes |-> 4, val |-> 12] /\ text[7] = [bytes |-> 12, val |-> <<"jenkins", s2>>]
      /\ text[8] = [bytes |-> 4, val |-> n] /\ text[9] = [bytes |-> 4, val |-> k]
  BY <1>2 DEF ChmText
<1>4. \A i \in 1 .. n : text[9 + i] = [bytes |-> 4, val |-> d.g[i - 1]]
  <2> TAKE i \in 1 .. n
  <2> DEFINE j == 9 + i
  <2>1. j \in 10 .. 9 + n /\ j - 10 = i - 1 /\ j \in 1 .. 9 + n
    BY <1>2
  <2> HIDE DEF j
  <2>2. text[j] = [bytes |-> 4, val |-> d.g[j - 10]]
    BY <2>1 DEF ChmText
  <2> QED
    BY <2>1, <2>2 DEF j
<1> HIDE DEF text, f
<1>5. Spells(p1, text, 1)
  <2>1. p1 = <<[bytes |-> 3, val |-> "chm"]>>
    BY DEF W, NameBytes
  <2>2. p1 \in Seq(Token_) /\ Len(p1) = 1 /\ \A i \in 1 .. 1 : p1[i] = text[i]
    <3>1. [bytes |-> 3, val |-> "chm"] \in Token_
      <4>1. "chm" \in Int \cup {"chm", "jenkins"} \cup ({"jenkins"} \X Int)
        OBVIOUS
      <4> QED
        BY <4>1 DEF Token_
    <3> HIDE DEF p1
    <3> QED
      BY <1>3, <2>1, <3>1
  <2> QED
    BY <2>2 DEF Spells
<1> HIDE DEF p1, n, k, s1, s2
<1>6. Spells(p2, text, 2)
  <2>1. [bytes |-> 4, val |-> size] \in Token_
    BY <1>2 DEF Token_
  <2>2. text[1 + 1] = [bytes |-> 4, val |-> size]
    BY <1>3
  <2>3. Spells(p2, text, 1 + 1)
    BY <1>5, <2>1, <2>2, SpellsOne
  <2> QED
    BY <2>3
<1> HIDE DEF p2
<1>7. Spells(p3, text, 3)
  <2>1. [bytes |-> 4, val |-> 2] \in Token_
    BY <1>2 DEF Token_
  <2>2. text[2 + 1] = [bytes |-> 4, val |-> 2]
    BY <1>3
  <2>3. Spells(p3, text, 2 + 1)
    BY <1>6, <2>1, <2>2, SpellsOne
  <2> QED
    BY <2>3
<1> HIDE DEF p3
<1>8. Spells(p4, text, 5)
  <2>1. Spells(p4, text, 3 + 2)
    BY <1>2, <1>3, <1>7, SpellsHash
  <2> QED
    BY <2>1
<1> HIDE DEF p4
<1>9. Spells(p5, text, 7)
  <2>1. Spells(p5, text, 5 + 2)
    BY <1>2, <1>3, <1>8, SpellsHash
  <2> QED
    BY <2>1
<1> HIDE DEF p5
<1>10. Spells(p6, text, 8)
  <2>1. [bytes |-> 4, val |-> n] \in Token_
    BY <1>2 DEF Token_
  <2>2. text[7 + 1] = [bytes |-> 4, val |-> n]
    BY <1>3
  <2>3. Spells(p6, text, 7 + 1)
    BY <1>9, <2>1, <2>2, SpellsOne
  <2> QED
    BY <2>3
<1> HIDE DEF p6
<1>11. Spells(p7, text, 9)
  <2>1. [bytes |-> 4, val |-> k] \in Token_
    BY <1>2 DEF Token_
  <2>2. text[8 + 1] = [bytes |-> 4, val |-> k]
    BY <1>3
  <2>3. Spells(p7, text, 8 + 1)
    BY <1>10, <2>1, <2>2, SpellsOne
  <2> QED
    BY <2>3
<1> HIDE DEF p7
<1>12. Spells(p8, text, 9 + n)
  <2> DEFINE g == d.g
  <2>1. \A i \in 0 .. n - 1 : g[i] \in Int
    BY <1>2
  <2>2. \A i \in 1 .. n : text[9 + i] = [bytes |-> 4, val |-> g[i - 1]]
    BY <1>4
  <2> HIDE DEF g
  <2>3. n \in Nat /\ 4 \in Nat
    BY <1>2
  <2>4. Spells(p7 \o Array(4, n, g), text, 9 + n)
    BY <1>11, <2>1, <2>2, <2>3, SpellsArray
  <2> QED
    BY <2>4 DEF g
<1> QED
  BY <1>1, <1>12 DEF f, n, text

\* What is read from a text.
LEMMA ReadIs ==
    ASSUME NEW f, NEW text, NEW n, Spells(f, text, n), NEW i \in 1 .. n, NEW bytes
    PROVE  Read(f, i, bytes) = IF text[i].bytes = bytes THEN text[i].val ELSE Wild
  BY DEF Spells, Read

\* chm_load makes the function again that was dumped.
LEMMA ChmLoadIs ==
    ASSUME NEW d, NEW keys, ChmRight(d, keys), NEW size \in Number,
           NEW f, Spells(f, ChmText(d, size), 9 + d.n)
    PROVE  ChmLoad(f) = d /\ cmph_load_head(f) = [algo |-> "chm", size |-> size]
<1> DEFINE text == ChmText(d, size)
           n == d.n
           k == d.m
           s1 == d.hashes[1]
           s2 == d.hashes[2]
<1>1. /\ n \in Nat \ {0} /\ n \in Number /\ k \in Int /\ s1 \in Int /\ s2 \in Int
      /\ d.hashes = <<s1, s2>> /\ d.g \in [0 .. n - 1 -> Number]
      /\ d = [g |-> d.g, hashes |-> d.hashes, n |-> n, m |-> k]
  <2>1. PICK t1 \in Number, t2 \in Number : d.hashes = <<t1, t2>>
    BY DEF ChmRight
  <2> QED
    BY <2>1, NumberIs DEF ChmRight
<1>2. /\ text[1] = [bytes |-> 3, val |-> "chm"] /\ text[2] = [bytes |-> 4, val |-> size]
      /\ text[3] = [bytes |-> 4, val |-> 2]
      /\ text[4] = [bytes |-> 4, val |-> 12] /\ text[5] = [bytes |-> 12, val |-> <<"jenkins", s1>>]
      /\ text[6] = [bytes |-> 4, val |-> 12] /\ text[7] = [bytes |-> 12, val |-> <<"jenkins", s2>>]
      /\ text[8] = [bytes |-> 4, val |-> n] /\ text[9] = [bytes |-> 4, val |-> k]
  BY <1>1 DEF ChmText
<1>3. \A i \in 0 .. n - 1 : text[10 + i] = [bytes |-> 4, val |-> d.g[i]]
  <2> TAKE i \in 0 .. n - 1
  <2> DEFINE j == 10 + i
  <2>1. j \in 10 .. 9 + n /\ j - 10 = i /\ j \in 1 .. 9 + n
    BY <1>1
  <2> HIDE DEF j
  <2>2. text[j] = [bytes |-> 4, val |-> d.g[j - 10]]
    BY <2>1 DEF ChmText
  <2> QED
    BY <2>1, <2>2 DEF j
<1> HIDE DEF text
<1>4. \A i \in 1 .. 9 + n : \A bytes :
          Read(f, i, bytes) = IF text[i].bytes = bytes THEN text[i].val ELSE Wild
  BY ReadIs DEF text
<1>5. \A i \in 1 .. 9 : i \in 1 .. 9 + n
  BY <1>1
<1>6. /\ Read(f, 2, 4) = size /\ Read(f, 3, 4) = 2 /\ Read(f, 8, 4) = n /\ Read(f, 9, 4) = k
      /\ Read(f, 4, 4) = 12 /\ Read(f, 5, 12) = <<"jenkins", s1>>
      /\ Read(f, 6, 4) = 12 /\ Read(f, 7, 12) = <<"jenkins", s2>>
  <2>1. 2 \in 1 .. 9 /\ 3 \in 1 .. 9 /\ 4 \in 1 .. 9 /\ 5 \in 1 .. 9 /\ 6 \in 1 .. 9 /\ 7 \in 1 .. 9
        /\ 8 \in 1 .. 9 /\ 9 \in 1 .. 9
    OBVIOUS
  <2> QED
    BY <1>2, <1>4, <1>5, <2>1
<1>7. hash_state_load(f, 4) = s1 /\ hash_state_load(f, 6) = s2
  <2>1. <<"jenkins", s1>> # Wild /\ <<"jenkins", s2>> # Wild
    <3>1. <<"jenkins", s1>> \in {"jenkins"} \X Int /\ <<"jenkins", s2>> \in {"jenkins"} \X Int
      BY <1>1
    <3> QED
      BY <3>1, StructsAssumption
  <2>2. Read(f, 4 + 1, 12) = <<"jenkins", s1>> /\ Read(f, 6 + 1, 12) = <<"jenkins", s2>>
    BY <1>6
  <2>3. <<"jenkins", s1>>[2] = s1 /\ <<"jenkins", s2>>[2] = s2
    OBVIOUS
  <2> QED
    BY <1>6, <2>1, <2>2, <2>3 DEF hash_state_load
<1>8. [i \in 1 .. 2 |-> hash_state_load(f, 2 + 2 * i)] = d.hashes
  <2>1. \A i \in 1 .. 2 : hash_state_load(f, 2 + 2 * i) = d.hashes[i]
    <3> TAKE i \in 1 .. 2
    <3>1. CASE i = 1
      <4>1. 2 + 2 * i = 4
        BY <3>1
      <4> QED
        BY <1>1, <1>7, <3>1, <4>1
    <3>2. CASE i = 2
      <4>1. 2 + 2 * i = 6
        BY <3>2
      <4> QED
        BY <1>1, <1>7, <3>2, <4>1
    <3> QED
      BY <3>1, <3>2
  <2> DEFINE h == [i \in 1 .. 2 |-> hash_state_load(f, 2 + 2 * i)]
  <2>2. h = [i \in 1 .. 2 |-> d.hashes[i]]
    BY <2>1
  <2>3. d.hashes = [i \in 1 .. 2 |-> d.hashes[i]]
    <3> DEFINE q == d.hashes
    <3>1. q = <<s1, s2>>
      BY <1>1
    <3> HIDE DEF q, s1, s2
    <3>2. q = [i \in 1 .. 2 |-> q[i]]
      BY <3>1
    <3> QED
      BY <3>2 DEF q
  <2> QED
    BY <2>2, <2>3
<1>9. ReadArray(f, 10, n, 4) = d.g
  <2>1. ReadArray(f, 10, n, 4) = [j \in 0 .. n - 1 |-> Read(f, 10 + j, 4)]
    BY <1>1 DEF ReadArray
  <2>2. ASSUME NEW j \in 0 .. n - 1 PROVE Read(f, 10 + j, 4) = d.g[j]
    <3> DEFINE x == 10 + j
    <3>1. x \in 1 .. 9 + n
      BY <1>1
    <3>2. text[x] = [bytes |-> 4, val |-> d.g[j]]
      BY <1>3
    <3> HIDE DEF x
    <3>3. Read(f, x, 4) = IF text[x].bytes = 4 THEN text[x].val ELSE Wild
      BY <1>4, <3>1
    <3>4. text[x].bytes = 4 /\ text[x].val = d.g[j]
      BY <3>2
    <3> QED
      BY <3>3, <3>4 DEF x
  <2>3. [j \in 0 .. n - 1 |-> Read(f, 10 + j, 4)] = [j \in 0 .. n - 1 |-> d.g[j]]
    BY <2>2
  <2> QED
    BY <1>1, <2>1, <2>3
<1>10. ChmLoad(f) = d
  <2>1. ChmLoad(f) = [hashes |-> [i \in 1 .. Read(f, 3, 4) |-> hash_state_load(f, 2 + 2 * i)],
                      n |-> Read(f, 8, 4), m |-> Read(f, 9, 4), g |-> ReadArray(f, 10, Read(f, 8, 4), 4)]
    BY DEF ChmLoad
  <2>2. ChmLoad(f) = [hashes |-> [i \in 1 .. 2 |-> hash_state_load(f, 2 + 2 * i)],
                      n |-> n, m |-> k, g |-> ReadArray(f, 10, n, 4)]
    BY <1>6, <2>1
  <2>3. ChmLoad(f) = [hashes |-> d.hashes, n |-> n, m |-> k, g |-> d.g]
    BY <1>8, <1>9, <2>2
  <2> HIDE DEF n, k
  <2> QED
    BY <1>1, <2>3
<1>11. cmph_load_head(f) = [algo |-> "chm", size |-> size]
  <2> DEFINE algos == {a \in DOMAIN NameBytes : Read(f, 1, NameBytes[a]) = a}
  <2>1. "chm" \in DOMAIN NameBytes /\ NameBytes["chm"] = 3
    BY DEF NameBytes
  <2>2. \A bytes : Read(f, 1, bytes) = IF bytes = 3 THEN "chm" ELSE Wild
    BY <1>2, <1>4, <1>5
  <2>3. \A a \in DOMAIN NameBytes : a # Wild
    BY StructsAssumption
  <2>4. algos = {"chm"}
    BY <2>1, <2>2, <2>3
  <2>5. cmph_load_head(f) = IF algos = {} THEN Null
                            ELSE [algo |-> CHOOSE a \in algos : TRUE, size |-> Read(f, 2, 4)]
    BY DEF cmph_load_head
  <2> HIDE DEF algos
  <2>6. (CHOOSE a \in algos : TRUE) = "chm"
    BY <2>4
  <2> QED
    BY <1>6, <2>4, <2>5, <2>6
<1> QED
  BY <1>10, <1>11

-----------------------------------------------------------------------------
\* In a block of tokens of four bytes, every fourth byte begins one.
Fours(mem, n) == Len(mem) = n /\ \A i \in 1 .. n : mem[i].bytes = 4
FourBytes(mem, n) == mem \in Seq(Token_) /\ Fours(mem, n)

\* In a block of words, byte 4 j is at token j + 1.
LEMMA SeekIs ==
    ASSUME NEW n \in Nat, NEW mem, Fours(mem, n), NEW j \in 0 .. n
    PROVE  Seek(mem, 4 * j) = [i |-> j + 1, off |-> 4 * j]
<1> DEFINE off == 4 * j
           b == [i |-> 1, off |-> 0]
           Next_(x, t) == IF x.off >= off THEN x ELSE [i |-> x.i + 1, off |-> x.off + t.bytes]
           Body(f) == [i \in 0 .. Len(mem) |-> IF i = 0 THEN b
                          ELSE CHOOSE r \in {Next_(x, mem[i]) : x \in {f[i - 1]}} : r = r]
           F == CHOOSE f : f = Body(f)
           at == [i \in 0 .. n |-> IF i <= j THEN [i |-> i + 1, off |-> 4 * i]
                                   ELSE [i |-> j + 1, off |-> 4 * j]]
<1>1. Seek(mem, off) = F[Len(mem)]
  BY DEF Seek, Fold
<1>2. Len(mem) = n /\ \A i \in 1 .. n : mem[i].bytes = 4
  BY DEF Fours
<1>3. ASSUME NEW f PROVE Body(f) = [i \in 0 .. n |-> IF i = 0 THEN b ELSE Next_(f[i - 1], mem[i])]
  BY <1>2, OnlyOne
<1> HIDE DEF Body, F
<1>4. at[0] = b
  OBVIOUS
<1>5. ASSUME NEW i \in 1 .. n PROVE Next_(at[i - 1], mem[i]) = at[i]
  <2>1. i - 1 \in 0 .. n /\ i \in 0 .. n
    OBVIOUS
  <2>2. CASE i <= j
    <3> DEFINE x == at[i - 1]
    <3>1. x = [i |-> (i - 1) + 1, off |-> 4 * (i - 1)] /\ at[i] = [i |-> i + 1, off |-> 4 * i]
      BY <2>1, <2>2
    <3>2. x.i = i /\ x.off = 4 * (i - 1) /\ ~ (x.off >= off)
      BY <2>2, <3>1
    <3> HIDE DEF x, at
    <3>3. Next_(x, mem[i]) = [i |-> x.i + 1, off |-> x.off + mem[i].bytes]
      BY <3>2
    <3>4. x.off + mem[i].bytes = 4 * i
      BY <1>2, <3>2
    <3>5. Next_(x, mem[i]) = at[i]
      BY <3>1, <3>2, <3>3, <3>4
    <3> QED
      BY <3>5 DEF x
  <2>3. CASE ~ i <= j
    <3> DEFINE x == at[i - 1]
    <3>1. x = [i |-> j + 1, off |-> 4 * j]
      <4>1. CASE i - 1 <= j
        <5>1. i - 1 = j
          BY <2>3, <4>1
        <5> QED
          BY <2>1, <5>1
      <4>2. CASE ~ (i - 1 <= j)
        BY <2>1, <4>2
      <4> QED
        BY <4>1, <4>2
    <3>2. at[i] = [i |-> j + 1, off |-> 4 * j]
      BY <2>1, <2>3
    <3> HIDE DEF x, at
    <3>3. Next_(x, mem[i]) = x
      BY <3>1
    <3> QED
      BY <3>1, <3>2, <3>3 DEF x
  <2> QED
    BY <2>2, <2>3
<1>6. at = Body(at)
  <2>1. ASSUME NEW i \in 0 .. n PROVE at[i] = IF i = 0 THEN b ELSE Next_(at[i - 1], mem[i])
    <3>1. i = 0 \/ i \in 1 .. n
      OBVIOUS
    <3> HIDE DEF at, Next_
    <3> QED
      BY <1>4, <1>5, <3>1
  <2>2. at = [i \in 0 .. n |-> at[i]]
    OBVIOUS
  <2> HIDE DEF at, Next_, b
  <2> QED
    BY <1>3, <2>1, <2>2
<1>7. F = Body(F)
  BY <1>6 DEF F
<1> HIDE DEF Next_, b
<1>8. F[0] = b /\ \A i \in 1 .. n : F[i] = Next_(F[i - 1], mem[i])
  BY <1>3, <1>7
<1> DEFINE S == [i \in 0 .. n |-> {at[i]}]
<1>9. \A i \in 0 .. n : S[i] = {at[i]}
  OBVIOUS
<1> HIDE DEF S
<1>10. \A i \in 1 .. n : F[i - 1] \in S[i - 1] => F[i] \in S[i]
  <2> TAKE i \in 1 .. n
  <2>1. i - 1 \in 0 .. n /\ i \in 0 .. n
    OBVIOUS
  <2> HIDE DEF at
  <2> QED
    BY <1>5, <1>8, <1>9, <2>1
<1>11. \A i \in 0 .. n : F[i] \in S[i]
  <2>1. F[0] \in S[0]
    BY <1>4, <1>8, <1>9
  <2> QED
    BY <1>10, <2>1, RoundsKeep
<1>12. F[n] = at[n]
  BY <1>9, <1>11
<1>13. at[n] = [i |-> j + 1, off |-> 4 * j]
  <2>1. CASE n <= j
    <3>1. n = j
      BY <2>1
    <3> QED
      BY <3>1
  <2>2. CASE ~ n <= j
    BY <2>2
  <2> QED
    BY <2>1, <2>2
<1> QED
  BY <1>1, <1>2, <1>12, <1>13

\* A word of such a block.
LEMMA AtIs ==
    ASSUME NEW n \in Nat, NEW mem, Fours(mem, n), NEW j \in 0 .. n - 1
    PROVE  At(mem, 4 * j, 4) = mem[j + 1].val
<1> DEFINE x == Seek(mem, 4 * j)
<1>1. x = [i |-> j + 1, off |-> 4 * j]
  BY SeekIs
<1>2. Len(mem) = n /\ mem[j + 1].bytes = 4
  BY DEF Fours
<1>3. At(mem, 4 * j, 4) = IF x.off = 4 * j /\ x.i <= Len(mem) /\ mem[x.i].bytes = 4 THEN mem[x.i].val ELSE Wild
  BY DEF At
<1> HIDE DEF x
<1>4. x.i = j + 1 /\ x.off = 4 * j /\ j + 1 <= n
  BY <1>1
<1> QED
  BY <1>2, <1>3, <1>4
\* The packed data of a function of chm, token by token.
ChmPackText(d) ==
    [i \in 1 .. 6 + d.n |->
        CASE i = 1 -> [bytes |-> 4, val |-> "jenkins"]
          [] i = 2 -> [bytes |-> 4, val |-> d.hashes[1]]
          [] i = 3 -> [bytes |-> 4, val |-> "jenkins"]
          [] i = 4 -> [bytes |-> 4, val |-> d.hashes[2]]
          [] i = 5 -> [bytes |-> 4, val |-> d.n]
          [] i = 6 -> [bytes |-> 4, val |-> d.m]
          [] OTHER -> [bytes |-> 4, val |-> d.g[i - 7]]]

\* chm_pack writes this text.
LEMMA ChmPackIs ==
    ASSUME NEW d, NEW keys, ChmRight(d, keys)
    PROVE  Spells(ChmPack(d), ChmPackText(d), 6 + d.n)
<1> DEFINE text == ChmPackText(d)
           n == d.n
           k == d.m
           s1 == d.hashes[1]
           s2 == d.hashes[2]
           p1 == W(4, "jenkins")
           p2 == p1 \o W(4, s1)
           p3 == p2 \o W(4, "jenkins")
           p4 == p3 \o W(4, s2)
           p5 == p4 \o W(4, n)
           p6 == p5 \o W(4, k)
           p7 == p6 \o Array(4, n, d.g)
<1>1. ChmPack(d) = p7
  BY DEF ChmPack, hash_state_pack
<1>2. /\ n \in Nat \ {0} /\ n \in Int /\ k \in Int /\ s1 \in Int /\ s2 \in Int
      /\ \A i \in 0 .. n - 1 : d.g[i] \in Int
  BY NumberIs DEF ChmRight
<1>3. /\ text[1] = [bytes |-> 4, val |-> "jenkins"] /\ text[2] = [bytes |-> 4, val |-> s1]
      /\ text[3] = [bytes |-> 4, val |-> "jenkins"] /\ text[4] = [bytes |-> 4, val |-> s2]
      /\ text[5] = [bytes |-> 4, val |-> n] /\ text[6] = [bytes |-> 4, val |-> k]
  BY <1>2 DEF ChmPackText
<1>4. \A i \in 1 .. n : text[6 + i] = [bytes |-> 4, val |-> d.g[i - 1]]
  <2> TAKE i \in 1 .. n
  <2> DEFINE j == 6 + i
  <2>1. j \in 7 .. 6 + n /\ j - 7 = i - 1 /\ j \in 1 .. 6 + n
    BY <1>2
  <2> HIDE DEF j
  <2>2. text[j] = [bytes |-> 4, val |-> d.g[j - 7]]
    BY <2>1 DEF ChmPackText
  <2> QED
    BY <2>1, <2>2 DEF j
<1> HIDE DEF text
<1>5. [bytes |-> 4, val |-> "jenkins"] \in Token_
  <2>1. "jenkins" \in Int \cup {"chm", "jenkins"} \cup ({"jenkins"} \X Int)
    OBVIOUS
  <2> QED
    BY <2>1 DEF Token_
<1>6. Spells(p1, text, 1)
  <2>1. p1 = <<[bytes |-> 4, val |-> "jenkins"]>>
    BY DEF W
  <2>2. p1 \in Seq(Token_) /\ Len(p1) = 1 /\ \A i \in 1 .. 1 : p1[i] = text[i]
    <3> HIDE DEF p1
    <3> QED
      BY <1>3, <1>5, <2>1
  <2> QED
    BY <2>2 DEF Spells
<1> HIDE DEF p1, n, k, s1, s2
<1>7. Spells(p2, text, 2)
  <2>1. [bytes |-> 4, val |-> s1] \in Token_
    BY <1>2 DEF Token_
  <2>2. text[1 + 1] = [bytes |-> 4, val |-> s1]
    BY <1>3
  <2>3. Spells(p2, text, 1 + 1)
    BY <1>6, <2>1, <2>2, SpellsOne
  <2> QED
    BY <2>3
<1> HIDE DEF p2
<1>8. Spells(p3, text, 3)
  <2>1. text[2 + 1] = [bytes |-> 4, val |-> "jenkins"]
    BY <1>3
  <2>2. Spells(p3, text, 2 + 1)
    BY <1>5, <1>7, <2>1, SpellsOne
  <2> QED
    BY <2>2
<1> HIDE DEF p3
<1>9. Spells(p4, text, 4)
  <2>1. [bytes |-> 4, val |-> s2] \in Token_
    BY <1>2 DEF Token_
  <2>2. text[3 + 1] = [bytes |-> 4, val |-> s2]
    BY <1>3
  <2>3. Spells(p4, text, 3 + 1)
    BY <1>8, <2>1, <2>2, SpellsOne
  <2> QED
    BY <2>3
<1> HIDE DEF p4
<1>10. Spells(p5, text, 5)
  <2>1. [bytes |-> 4, val |-> n] \in Token_
    BY <1>2 DEF Token_
  <2>2. text[4 + 1] = [bytes |-> 4, val |-> n]
    BY <1>3
  <2>3. Spells(p5, text, 4 + 1)
    BY <1>9, <2>1, <2>2, SpellsOne
  <2> QED
    BY <2>3
<1> HIDE DEF p5
<1>11. Spells(p6, text, 6)
  <2>1. [bytes |-> 4, val |-> k] \in Token_
    BY <1>2 DEF Token_
  <2>2. text[5 + 1] = [bytes |-> 4, val |-> k]
    BY <1>3
  <2>3. Spells(p6, text, 5 + 1)
    BY <1>10, <2>1, <2>2, SpellsOne
  <2> QED
    BY <2>3
<1> HIDE DEF p6
<1>12. Spells(p7, text, 6 + n)
  <2> DEFINE g == d.g
  <2>1. \A i \in 0 .. n - 1 : g[i] \in Int
    BY <1>2
  <2>2. \A i \in 1 .. n : text[6 + i] = [bytes |-> 4, val |-> g[i - 1]]
    BY <1>4
  <2> HIDE DEF g
  <2>3. n \in Nat /\ 4 \in Nat
    BY <1>2
  <2>4. Spells(p6 \o Array(4, n, g), text, 6 + n)
    BY <1>11, <2>1, <2>2, <2>3, SpellsArray
  <2> QED
    BY <2>4 DEF g
<1> QED
  BY <1>1, <1>12 DEF n, text

\* The packed data: its cells, and what a lookup makes of them.
LEMMA ChmPackCells ==
    ASSUME NEW d, NEW keys, ChmRight(d, keys), NEW mem, Spells(mem, ChmPackText(d), 6 + d.n)
    PROVE  /\ d.n \in Nat \ {0} /\ FourBytes(mem, 6 + d.n)
           /\ mem[2].val = d.hashes[1] /\ mem[4].val = d.hashes[2] /\ mem[5].val = d.n /\ mem[6].val = d.m
           /\ \A h \in 0 .. d.n - 1 : mem[7 + h].val = d.g[h]
<1> DEFINE text == ChmPackText(d)
           n == d.n
<1>1. n \in Nat \ {0} /\ mem \in Seq(Token_) /\ Len(mem) = 6 + n /\ \A i \in 1 .. 6 + n : mem[i] = text[i]
  BY NumberIs DEF ChmRight, Spells
<1>2. \A i \in 1 .. 6 + n : text[i].bytes = 4
  BY DEF ChmPackText
<1>3. /\ text[2].val = d.hashes[1] /\ text[4].val = d.hashes[2]
      /\ text[5].val = n /\ text[6].val = d.m
  BY <1>1 DEF ChmPackText
<1>4. ASSUME NEW h \in 0 .. n - 1 PROVE text[7 + h].val = d.g[h]
  <2> DEFINE j == 7 + h
  <2>1. j \in 7 .. 6 + n /\ j - 7 = h /\ j \in 1 .. 6 + n
    BY <1>1
  <2> HIDE DEF j
  <2>2. text[j].val = d.g[j - 7]
    BY <2>1 DEF ChmPackText
  <2> QED
    BY <2>1, <2>2 DEF j
<1> HIDE DEF text
<1>5. FourBytes(mem, 6 + n)
  BY <1>1, <1>2 DEF FourBytes, Fours
<1>6. 2 \in 1 .. 6 + n /\ 4 \in 1 .. 6 + n /\ 5 \in 1 .. 6 + n /\ 6 \in 1 .. 6 + n
      /\ \A h \in 0 .. n - 1 : 7 + h \in 1 .. 6 + n
  BY <1>1
<1> HIDE DEF n
<1>7. \A h \in 0 .. n - 1 : mem[7 + h].val = d.g[h]
  BY <1>1, <1>4, <1>6
<1>8. mem[2].val = d.hashes[1] /\ mem[4].val = d.hashes[2] /\ mem[5].val = n /\ mem[6].val = d.m
  BY <1>1, <1>3, <1>6
<1> QED
  BY <1>1, <1>5, <1>7, <1>8 DEF n

\* chm_search_packed finds the place of a key, too.
LEMMA ChmPackedFinds ==
    ASSUME NEW d, NEW keys, ChmRight(d, keys), NEW mem, Spells(mem, ChmPackText(d), 6 + d.n),
           NEW i \in 1 .. Len(keys)
    PROVE  ChmSearchPacked(mem, keys[i]) = i - 1
<1> DEFINE n == d.n
           key == keys[i]
           ends == ChmEnds(key, d.hashes[1], d.hashes[2], n)
           h1 == ends[1]
           h2 == ends[2]
<1>1. n \in Nat \ {0} /\ FourBytes(mem, 6 + n)
  BY ChmPackCells
<1>2. ASSUME NEW j \in 0 .. 5 + n PROVE At(mem, 4 * j, 4) = mem[j + 1].val
  <2>1. 6 + n \in Nat /\ j \in 0 .. (6 + n) - 1
    BY <1>1
  <2> QED
    BY <1>1, <2>1, AtIs DEF FourBytes
<1>3. /\ At(mem, 4, 4) = d.hashes[1] /\ At(mem, 12, 4) = d.hashes[2]
      /\ At(mem, 16, 4) = n /\ At(mem, 20, 4) = d.m
  <2>1. 1 \in 0 .. 5 + n /\ 3 \in 0 .. 5 + n /\ 4 \in 0 .. 5 + n /\ 5 \in 0 .. 5 + n
    BY <1>1
  <2>2. At(mem, 4 * 1, 4) = mem[1 + 1].val /\ At(mem, 4 * 3, 4) = mem[3 + 1].val
        /\ At(mem, 4 * 4, 4) = mem[4 + 1].val /\ At(mem, 4 * 5, 4) = mem[5 + 1].val
    BY <1>2, <2>1
  <2>3. mem[2].val = d.hashes[1] /\ mem[4].val = d.hashes[2] /\ mem[5].val = n /\ mem[6].val = d.m
    BY ChmPackCells
  <2>4. At(mem, 4, 4) = mem[2].val /\ At(mem, 12, 4) = mem[4].val
        /\ At(mem, 16, 4) = mem[5].val /\ At(mem, 20, 4) = mem[6].val
    BY <2>2
  <2> QED
    BY <2>3, <2>4
<1>4. ASSUME NEW h \in 0 .. n - 1 PROVE At(mem, 24 + 4 * h, 4) = d.g[h]
  <2> DEFINE j == 6 + h
  <2>1. j \in 0 .. 5 + n /\ 4 * j = 24 + 4 * h /\ j + 1 = 7 + h
    BY <1>1
  <2> HIDE DEF j
  <2>2. At(mem, 4 * j, 4) = mem[j + 1].val
    BY <1>2, <2>1
  <2>3. mem[7 + h].val = d.g[h]
    BY ChmPackCells
  <2> QED
    BY <2>1, <2>2, <2>3
<1>5. h1 \in 0 .. n - 1 /\ h2 \in 0 .. n - 1
  BY DEF ChmRight
<1>6. ChmSearchPacked(mem, key) = Rem(Plus(At(mem, 24 + 4 * h1, 4), At(mem, 24 + 4 * h2, 4)), d.m)
  BY <1>3 DEF ChmSearchPacked
<1>7. Rem(Plus(d.g[h1], d.g[h2]), d.m) = i - 1
  BY SumIs
<1> HIDE DEF h1, h2
<1>8. At(mem, 24 + 4 * h1, 4) = d.g[h1] /\ At(mem, 24 + 4 * h2, 4) = d.g[h2]
  BY <1>4, <1>5
<1> QED
  BY <1>6, <1>7, <1>8

\* The data behind the name of the algorithm.
LEMMA PackedTail ==
    ASSUME NEW n \in Nat, NEW p, FourBytes(p, n), NEW mem, mem = W(4, "chm") \o p
    PROVE  FourBytes(mem, n + 1) /\ At(mem, 0, 4) = "chm" /\ From(mem, 4) = p
<1> DEFINE t == [bytes |-> 4, val |-> "chm"]
           w == W(4, "chm")
<1>1. w = <<t>>
  BY DEF W
<1>2. t \in Token_
  <2>1. "chm" \in Int \cup {"chm", "jenkins"} \cup ({"jenkins"} \X Int)
    OBVIOUS
  <2> QED
    BY <2>1 DEF Token_
<1>3. p \in Seq(Token_) /\ Len(p) = n /\ \A i \in 1 .. n : p[i].bytes = 4
  BY DEF FourBytes, Fours
<1>4. t.bytes = 4 /\ t.val = "chm"
  OBVIOUS
<1> HIDE DEF t, w
<1>5. w \in Seq(Token_) /\ Len(w) = 1 /\ w[1] = t
  BY <1>1, <1>2
<1>6. /\ mem \in Seq(Token_) /\ Len(mem) = n + 1 /\ mem[1] = t
      /\ \A i \in 1 .. n : mem[1 + i] = p[i]
  <2>1. /\ mem \in Seq(Token_) /\ Len(mem) = Len(w) + Len(p)
        /\ \A i \in 1 .. Len(w) : mem[i] = w[i]
        /\ \A i \in 1 .. Len(p) : mem[Len(w) + i] = p[i]
    <3>1. mem = w \o p
      BY DEF w
    <3>2. w \in Seq(Token_) /\ p \in Seq(Token_)
      BY <1>3, <1>5
    <3>3. /\ w \o p \in Seq(Token_) /\ Len(w \o p) = Len(w) + Len(p)
          /\ \A i \in 1 .. Len(w) : (w \o p)[i] = w[i]
          /\ \A i \in 1 .. Len(p) : (w \o p)[Len(w) + i] = p[i]
      BY <3>2, Joined
    <3> QED
      BY <3>1, <3>3
  <2> QED
    BY <1>3, <1>5, <2>1
<1>7. FourBytes(mem, n + 1)
  <2>1. ASSUME NEW i \in 1 .. n + 1 PROVE mem[i].bytes = 4
    <3>1. CASE i = 1
      BY <1>4, <1>6, <3>1
    <3>2. CASE i # 1
      <4> DEFINE j == i - 1
      <4>1. j \in 1 .. n /\ i = 1 + j
        BY <3>2
      <4> HIDE DEF j
      <4> QED
        BY <1>3, <1>6, <4>1
    <3> QED
      BY <3>1, <3>2
  <2> QED
    BY <1>6, <2>1 DEF FourBytes, Fours
<1>8. At(mem, 0, 4) = "chm"
  <2>1. n + 1 \in Nat /\ 0 \in 0 .. (n + 1) - 1
    OBVIOUS
  <2> DEFINE j == 0
  <2>2. j \in 0 .. (n + 1) - 1 /\ 4 * j = 0 /\ j + 1 = 1
    OBVIOUS
  <2> HIDE DEF j
  <2>3. At(mem, 0, 4) = mem[1].val
    <3>1. At(mem, 4 * j, 4) = mem[j + 1].val
      BY <1>7, <2>1, <2>2, AtIs DEF FourBytes
    <3> QED
      BY <2>2, <3>1
  <2> QED
    BY <1>4, <1>6, <2>3
<1>9. From(mem, 4) = p
  <2> DEFINE x == Seek(mem, 4)
  <2>1. x = [i |-> 2, off |-> 4]
    <3>1. n + 1 \in Nat /\ 1 \in 0 .. n + 1
      OBVIOUS
    <3>2. Seek(mem, 4 * 1) = [i |-> 1 + 1, off |-> 4 * 1]
      BY <1>7, <3>1, SeekIs DEF FourBytes
    <3> QED
      BY <3>2
  <2>2. From(mem, 4) = IF x.off = 4 THEN SubSeq(mem, x.i, Len(mem)) ELSE << >>
    BY DEF From
  <2> HIDE DEF x
  <2>3. From(mem, 4) = SubSeq(mem, 2, n + 1)
    BY <1>6, <2>1, <2>2
  <2> DEFINE q == SubSeq(mem, 2, n + 1)
  <2>4. q = [i \in 1 .. n |-> mem[i + 1]]
    BY <1>6
  <2>5. p = [i \in 1 .. n |-> p[i]]
    BY <1>3
  <2> HIDE DEF q
  <2>6. \A i \in 1 .. n : mem[i + 1] = p[i]
    BY <1>6
  <2>7. q = p
    BY <2>4, <2>5, <2>6
  <2> QED
    BY <2>3, <2>7 DEF q
<1> QED
  BY <1>7, <1>8, <1>9
==============================================================================
