------------------------ MODULE PerfectHashInt_proofs ------------------------
(***************************************************************************)
(* Proofs about PerfectHashInt for every hash function, every list of keys *)
(* and all multipliers, seeds and element types: type correctness, that    *)
(* peeling decides whether the graph is acyclic, that the "oops" of the    *)
(* assignment is unreachable, that the table is a perfect hash which       *)
(* rejects unused entries, and that the search ends with the first         *)
(* parameters that work.  With the hashes of the code: keys that they      *)
(* cannot tell apart get no table, and case_fold folds the case.           *)
(***************************************************************************)
EXTENDS PerfectHashInt, Induction

-----------------------------------------------------------------------------
LEMMA MultsType ==
    /\ Mult1 \in Mults
    /\ \A i \in 1 .. Len(Mult2s) : Mult2s[i] \in Mults /\ Mult2s[i] \in Nat \ {0, 1}
  BY MultAssumption DEF Mults

\* An edge joins vertices of the table.
LEMMA EdgeOfType ==
    ASSUME NEW k \in Key, NEW s1 \in 0 .. SeedLimit - 1, NEW s2 \in 0 .. SeedLimit - 1,
           NEW i \in 1 .. Len(Mult2s), NEW size \in Nat \ {0}
    PROVE  EdgeOf(k, s1, s2, Mult2s[i], size)
              \in [left : 0 .. size - 1, right : 0 .. size - 1]
<1>1. CalcHash(k, Mult1, s1) \in Nat /\ CalcHash(k, Mult2s[i], s2) \in Nat
  BY HashAssumption, MultsType
<1>2. /\ CalcHash(k, Mult1, s1) % size \in 0 .. size - 1
      /\ CalcHash(k, Mult2s[i], s2) % size \in 0 .. size - 1
  BY <1>1, ModType
<1> QED
  BY <1>2 DEF EdgeOf

-----------------------------------------------------------------------------
(***************************************************************************)
(* The size adjustment stops below low + 4, as GoodSize takes for granted. *)
(***************************************************************************)
LEMMA ModNext ==
    ASSUME NEW a \in Nat \ {0, 1}, NEW t \in Nat, t % a = 0
    PROVE  (t + 1) % a # 0
<1> SUFFICES ASSUME (t + 1) % a = 0 PROVE FALSE
  OBVIOUS
<1>1. PICK q \in Int : t = a * q
  OBVIOUS
<1>2. PICK r \in Int : t + 1 = a * r
  OBVIOUS
<1>3. a * (r - q) = 1
  BY <1>1, <1>2
<1> QED
  BY <1>3

LEMMA ModAfterNext ==
    ASSUME NEW a \in Nat \ {0, 1}, NEW t \in Nat, t % a = 0, (t + 2) % a = 0
    PROVE  a = 2
<1>1. PICK q \in Int : t = a * q
  OBVIOUS
<1>2. PICK r \in Int : t + 2 = a * r
  OBVIOUS
<1>3. a * (r - q) = 2
  BY <1>1, <1>2
<1> QED
  BY <1>3

LEMMA FourNeighbours ==
    ASSUME NEW b \in Nat \ {0, 1}, NEW t \in Nat
    PROVE  \E s \in t .. t + 3 : ~BadSize(s, b)
<1> DEFINE a == Mult1
<1>0. a \in Nat \ {0, 1}
  BY MultAssumption
<1> SUFFICES ASSUME \A s \in t .. t + 3 : s % a = 0 \/ s % b = 0
             PROVE  FALSE
  BY DEF BadSize
<1> HIDE DEF a
<1>1. /\ t % a = 0 \/ t % b = 0
      /\ (t + 1) % a = 0 \/ (t + 1) % b = 0
      /\ (t + 2) % a = 0 \/ (t + 2) % b = 0
      /\ (t + 3) % a = 0 \/ (t + 3) % b = 0
  <2>1. t \in t .. t + 3 /\ t + 1 \in t .. t + 3 /\ t + 2 \in t .. t + 3 /\ t + 3 \in t .. t + 3
    OBVIOUS
  <2> QED
    BY <2>1
<1>2. \A x \in {a, b}, s \in Nat : s % x = 0 => (s + 1) % x # 0
  BY <1>0, ModNext
<1>3. \A x \in {a, b}, s \in Nat : s % x = 0 /\ (s + 2) % x = 0 => x = 2
  BY <1>0, ModAfterNext
<1>4. t + 1 \in Nat /\ t + 2 \in Nat /\ (t + 1) + 1 = t + 2 /\ (t + 2) + 1 = t + 3 /\ (t + 1) + 2 = t + 3
  OBVIOUS
<1>5. a = 2 /\ b = 2
  BY <1>1, <1>2, <1>3, <1>4
<1>6. t % 2 = 0 /\ (t + 1) % 2 = 0
  BY <1>1, <1>5
<1> QED
  BY <1>6

-----------------------------------------------------------------------------
\* A graph has been built, a table is being filled or is finished.
Built == pc \in {"peel", "assign", "done", "oops", "wide"}
Assigned == pc \in {"assign", "done", "wide"}

\* @E is the graph of the parameters in force, with no edge from a vertex to
\* itself.
GraphOK ==
    Built =>
        /\ ~BadSize(nverts, Mult2s[m])
        /\ E = NewE
        /\ \A e \in Edge : E[e].left # E[e].right

Typed == TypeOK /\ keys \in Seq(Key) /\ GraphOK

\* Sizes derived from the keys and the table.
LEMMA Sizes ==
    ASSUME Typed
    PROVE  /\ nedges \in Nat /\ nverts \in Nat \ {0} /\ nverts >= 2 * nedges + 1
           /\ \A e \in Edge : e \in Nat /\ e + 1 \in 1 .. nedges /\ keys[e + 1] \in Key
           /\ m \in 1 .. Len(Mult2s) /\ Len(Mult2s) \in Nat
           /\ seed1 \in 0 .. SeedLimit - 1 /\ seed2 \in 0 .. SeedLimit - 1
<1>1. keys \in Seq(Key) /\ nverts \in Nat /\ nverts >= 2 * nedges + 1
  BY DEF Typed, TypeOK
<1>2. nedges \in Nat
  BY <1>1 DEF nedges
<1>3. nverts \in Nat \ {0}
  BY <1>1, <1>2
<1>4. ASSUME NEW e \in Edge
      PROVE  e \in Nat /\ e + 1 \in 1 .. nedges /\ keys[e + 1] \in Key
  <2>1. e \in Nat /\ e + 1 \in 1 .. nedges
    BY <1>2, <1>4 DEF Edge
  <2> QED
    BY <1>1, <2>1 DEF nedges
<1>5. m \in 1 .. Len(Mult2s) /\ seed1 \in 0 .. SeedLimit - 1 /\ seed2 \in 0 .. SeedLimit - 1
  BY DEF Typed, TypeOK
<1>6. Len(Mult2s) \in Nat
  BY MultAssumption
<1> QED
  BY <1>1, <1>2, <1>3, <1>4, <1>5, <1>6

\* The keys never change.
LEMMA KeysFixed ==
    ASSUME [Next]_vars
    PROVE  keys' = keys /\ nedges' = nedges /\ Edge' = Edge
<1>1. keys' = keys
  BY DEF Next, vars, params, BumpSize, SelfLoop, BuildGraph, RemoveEdge, NextStart,
         Cyclic, Acyclic, Assign, ChooseWidth, TooWide, Terminating, Retry
<1> QED
  BY <1>1 DEF nedges, Edge

LEMMA NewEType ==
    ASSUME Typed
    PROVE  NewE \in [Edge -> [left : Vertex, right : Vertex]]
<1> SUFFICES ASSUME NEW e \in Edge
             PROVE  EdgeOf(keys[e + 1], seed1, seed2, Mult2s[m], nverts)
                       \in [left : Vertex, right : Vertex]
  BY DEF NewE
<1> QED
  BY Sizes, EdgeOfType DEF Vertex

\* The two ends of an edge, and the other end seen from one of them.
LEMMA EndsType ==
    ASSUME Typed, Built, NEW e \in Edge
    PROVE  /\ E[e].left \in Vertex /\ E[e].right \in Vertex
           /\ E[e].left # E[e].right
           /\ Ends(e) = {E[e].left, E[e].right}
           /\ \A u \in Ends(e) : /\ OtherEnd(e, u) \in Vertex
                                 /\ OtherEnd(e, u) # u
                                 /\ Ends(e) = {u, OtherEnd(e, u)}
<1>1. E[e] \in [left : Vertex, right : Vertex]
  BY DEF Typed, TypeOK, Built
<1>2. E[e].left # E[e].right
  BY DEF Typed, GraphOK
<1> QED
  BY <1>1, <1>2 DEF Ends, OtherEnd

-----------------------------------------------------------------------------
LEMMA InitTyped == Init => Typed
<1> SUFFICES ASSUME Init PROVE Typed
  OBVIOUS
<1>1. keys \in Seq(Key)
  BY KeyAssumption DEF Init
<1>2. Len(keys) \in Nat
  BY <1>1
<1>3. 0 \in 0 .. SeedLimit - 1 /\ 1 \in 1 .. Len(Mult2s)
  BY MultAssumption
<1>4. TypeOK
  <2>1. nverts \in Nat /\ nverts >= 2 * nedges + 1
    BY <1>2 DEF Init, nedges
  <2>2. /\ seed1 = 0 /\ seed2 = 0 /\ m = 1 /\ startv = 0 /\ next = 1
        /\ elemtype = "none" /\ pc = "size"
    BY DEF Init
  <2>3. /\ seed1 \in 0 .. SeedLimit - 1 /\ seed2 \in 0 .. SeedLimit - 1
        /\ m \in 1 .. Len(Mult2s) /\ startv \in Nat /\ next \in Nat \ {0}
    BY <1>3, <2>2
  <2>4. elemtype \in {"none"} \cup {Widths[i].type : i \in 1 .. Len(Widths)}
    BY <2>2
  <2>5. /\ pc \in {"size", "peel", "assign", "done", "failed", "oops", "wide"}
        /\ pc \notin {"peel", "assign", "done", "oops", "wide"}
        /\ pc \notin {"assign", "done", "oops", "wide"}
    BY <2>2
  <2> QED
    BY <2>1, <2>3, <2>4, <2>5 DEF TypeOK
<1>5. GraphOK
  BY DEF Init, GraphOK, Built
<1> QED
  BY <1>1, <1>4, <1>5 DEF Typed

\* The next parameters are within the bounds of the loops.
LEMMA RetryTyped ==
    ASSUME Typed, Retry, UNCHANGED <<E, peel, table>>
    PROVE  Typed'
<1>1. /\ nedges \in Nat /\ nverts \in Nat /\ nverts >= 2 * nedges + 1
      /\ m \in 1 .. Len(Mult2s) /\ Len(Mult2s) \in Nat
      /\ seed1 \in 0 .. SeedLimit - 1 /\ seed2 \in 0 .. SeedLimit - 1
      /\ SeedLimit \in Nat \ {0}
  BY Sizes, MultAssumption
<1>2. keys' = keys /\ nedges' = nedges /\ Len(Mult2s) > 0
  BY MultAssumption DEF Retry, nedges, params
<1>3. pc' \in {"size", "failed"} /\ nverts' \in Nat /\ nverts' >= 2 * nedges + 1
  BY <1>1 DEF Retry
<1>4. /\ m' \in 1 .. Len(Mult2s)
      /\ seed1' \in 0 .. SeedLimit - 1 /\ seed2' \in 0 .. SeedLimit - 1
  BY <1>1, <1>2 DEF Retry, NextParams, params
<1>5. startv' = startv /\ next' = next /\ elemtype' = elemtype
  BY DEF peel, table
<1>6. TypeOK'
  BY <1>2, <1>3, <1>4, <1>5 DEF Typed, TypeOK
<1>7. GraphOK'
  BY <1>3 DEF GraphOK, Built
<1> QED
  BY <1>2, <1>6, <1>7 DEF Typed

LEMMA BuildGraphTyped ==
    ASSUME Typed, BuildGraph
    PROVE  Typed'
<1>1. /\ NewE \in [Edge -> [left : Vertex, right : Vertex]] /\ E' = NewE
      /\ \A e \in Edge : NewE[e].left # NewE[e].right
  BY NewEType DEF BuildGraph
<1>2. /\ UNCHANGED <<params, nverts, table>>
      /\ nedges' = nedges /\ Edge' = Edge /\ Vertex' = Vertex /\ NewE' = NewE
  BY DEF BuildGraph, params, nedges, Edge, Vertex, NewE
<1>3. /\ startv' = 0 /\ v' = 0 /\ order' = << >> /\ pc' = "peel"
      /\ 0 <= nverts /\ 0 \in 0 .. nverts /\ 0 < nverts /\ 0 \in Nat
  BY Sizes DEF BuildGraph
<1>4. V' \in [Vertex -> SUBSET Edge]
  BY DEF BuildGraph
<1>5. TypeOK'
  BY <1>1, <1>2, <1>3, <1>4 DEF Typed, TypeOK, params, table
<1>6. GraphOK'
  BY <1>1, <1>2 DEF GraphOK, BuildGraph, params
<1> QED
  BY <1>2, <1>5, <1>6 DEF Typed, params

LEMMA RemoveEdgeTyped ==
    ASSUME Typed, RemoveEdge
    PROVE  Typed'
<1>1. /\ UNCHANGED <<params, graph, startv, table, pc>>
      /\ nedges' = nedges /\ Edge' = Edge /\ Vertex' = Vertex /\ NewE' = NewE
  BY DEF RemoveEdge, params, graph, nedges, Edge, Vertex, NewE
<1>2. Built /\ v \in Vertex /\ V \in [Vertex -> SUBSET Edge] /\ order \in Seq(Edge)
  BY Sizes DEF RemoveEdge, Built, Typed, TypeOK, Vertex
<1>3. PICK e \in V[v] :
        /\ V' = [V EXCEPT ![v] = @ \ {e}, ![OtherEnd(e, v)] = @ \ {e}]
        /\ order' = <<e>> \o order
        /\ v' = OtherEnd(e, v)
  BY DEF RemoveEdge
<1>4. e \in Edge
  BY <1>2, <1>3
<1>5. OtherEnd(e, v) \in Vertex
  BY <1>2, <1>4, EndsType DEF OtherEnd
<1>6. V' \in [Vertex -> SUBSET Edge] /\ order' \in Seq(Edge)
  <2>1. order' \in Seq(Edge)
    BY <1>2, <1>3, <1>4
  <2>2. V' \in [Vertex -> SUBSET Edge]
    <3> DEFINE w == OtherEnd(e, v)
    <3>1. V' = [V EXCEPT ![v] = @ \ {e}, ![w] = @ \ {e}] /\ w \in Vertex
      BY <1>3, <1>5
    <3> HIDE DEF w
    <3> QED
      BY <1>2, <3>1
  <2> QED
    BY <2>1, <2>2
<1>7. v' \in 0 .. nverts /\ v' < nverts
  BY <1>3, <1>5, Sizes DEF Vertex
<1>8. TypeOK'
  BY <1>1, <1>6, <1>7 DEF Typed, TypeOK, params, graph, table
<1>9. GraphOK'
  BY <1>1 DEF Typed, GraphOK, Built, params, graph, BadSize
<1> QED
  BY <1>1, <1>8, <1>9 DEF Typed, params
LEMMA NextStartTyped ==
    ASSUME Typed, NextStart
    PROVE  Typed'
<1>1. /\ UNCHANGED <<params, graph, V, order, table, pc>>
      /\ nedges' = nedges /\ Edge' = Edge /\ Vertex' = Vertex /\ NewE' = NewE
  BY DEF NextStart, params, graph, nedges, Edge, Vertex, NewE
<1>2. startv \in Nat /\ nverts \in Nat /\ startv < nverts
  BY Sizes DEF NextStart, Typed, TypeOK
<1>3. /\ startv' = startv + 1 /\ v' = startv + 1
      /\ startv' \in Nat /\ startv' <= nverts /\ v' \in 0 .. nverts
      /\ startv' < nverts => v' < nverts
  BY <1>2 DEF NextStart
<1>4. TypeOK'
  BY <1>1, <1>3 DEF Typed, TypeOK, params, graph, table
<1>5. GraphOK'
  BY <1>1 DEF Typed, GraphOK, Built, params, graph, BadSize
<1> QED
  BY <1>1, <1>4, <1>5 DEF Typed, params

\* What the steps after the peeling leave alone.
LEMMA GraphKept ==
    ASSUME Typed, Built, UNCHANGED <<params, graph, peel>>,
           next' \in Nat \ {0}, hashtab' \in [Vertex -> Int], visited' \subseteq Vertex,
           elemtype' \in {"none"} \cup {Widths[i].type : i \in 1 .. Len(Widths)},
           pc' \in {"assign", "done", "oops", "wide"}
    PROVE  Typed'
<1>1. nedges' = nedges /\ Edge' = Edge /\ Vertex' = Vertex /\ NewE' = NewE
  BY DEF params, graph, nedges, Edge, Vertex, NewE
<1>2. Typed /\ pc \in {"peel", "assign", "done", "oops", "wide"}
  BY DEF Built
<1>3. TypeOK'
  BY <1>1, <1>2 DEF Typed, TypeOK, params, graph, peel
<1>4. GraphOK'
  BY <1>1 DEF Typed, GraphOK, Built, params, graph, BadSize
<1> QED
  BY <1>3, <1>4 DEF Typed, params

LEMMA AcyclicTyped ==
    ASSUME Typed, Acyclic
    PROVE  Typed'
<1>1. Built /\ UNCHANGED <<params, graph, peel>>
  BY DEF Acyclic, PeelEnded, Built
<1>2. /\ next' \in Nat \ {0} /\ hashtab' \in [Vertex -> Int] /\ visited' \subseteq Vertex
      /\ pc' \in {"assign", "done", "oops", "wide"}
  BY DEF Acyclic
<1>3. elemtype' \in {"none"} \cup {Widths[i].type : i \in 1 .. Len(Widths)}
  BY DEF Acyclic, Typed, TypeOK
<1> QED
  BY <1>1, <1>2, <1>3, GraphKept

LEMMA AssignTyped ==
    ASSUME Typed, Assign
    PROVE  Typed'
<1> DEFINE e == order[next]
           l == E[e].left
           r == E[e].right
<1>1. Built /\ UNCHANGED <<params, graph, peel, elemtype>>
  BY DEF Assign, Built
<1>2. /\ next \in Nat \ {0} /\ order \in Seq(Edge) /\ next <= Len(order)
      /\ hashtab \in [Vertex -> Int] /\ visited \subseteq Vertex
      /\ elemtype \in {"none"} \cup {Widths[i].type : i \in 1 .. Len(Widths)}
  BY DEF Assign, Typed, TypeOK
<1>3. e \in Edge
  BY <1>2
<1>4. l \in Vertex /\ r \in Vertex /\ e \in Int
  BY <1>1, <1>3, EndsType, Sizes
<1>5. /\ \/ hashtab' = [hashtab EXCEPT ![l] = e - hashtab[r]]
         \/ hashtab' = [hashtab EXCEPT ![r] = e - hashtab[l]]
      /\ visited' = visited \cup {l, r} /\ next' = next + 1
      /\ pc' \in {"assign", "oops"}
  BY DEF Assign
<1>6. hashtab' \in [Vertex -> Int]
  <2> HIDE DEF e, l, r
  <2>1. e - hashtab[r] \in Int /\ e - hashtab[l] \in Int
    BY <1>2, <1>4
  <2> QED
    BY <1>2, <1>4, <1>5, <2>1
<1>7. next' \in Nat \ {0} /\ visited' \subseteq Vertex
  BY <1>2, <1>4, <1>5
<1> QED
  BY <1>1, <1>2, <1>5, <1>6, <1>7, GraphKept

LEMMA ChooseWidthTyped ==
    ASSUME Typed, ChooseWidth
    PROVE  Typed'
<1>1. Built /\ UNCHANGED <<params, graph, peel, visited, next>> /\ pc' = "done"
  BY DEF ChooseWidth, Built
<1>2. next \in Nat \ {0} /\ hashtab \in [Vertex -> Int] /\ visited \subseteq Vertex
  BY DEF ChooseWidth, Typed, TypeOK
<1>3. PICK i \in 1 .. Len(Widths) :
        /\ elemtype' = Widths[i].type
        /\ hashtab' = [u \in Vertex |-> IF u \in visited THEN hashtab[u]
                                                         ELSE Widths[i].flag]
  BY DEF ChooseWidth
<1>4. Widths[i].flag \in Int
  <2>1. \A S : Widths \in Seq(S) => Widths[i] \in S
    BY <1>3
  <2>2. Widths[i] \in [type : STRING, lim : Nat, flag : Nat]
    BY <2>1, WidthAssumption
  <2> QED
    BY <2>2
<1>5. hashtab' \in [Vertex -> Int]
  BY <1>2, <1>3, <1>4
<1> QED
  BY <1>1, <1>2, <1>3, <1>5, GraphKept

LEMMA TooWideTyped ==
    ASSUME Typed, TooWide
    PROVE  Typed'
<1>1. Built /\ UNCHANGED <<params, graph, peel, table>> /\ pc' = "wide"
  BY DEF TooWide, Built
<1>2. /\ next \in Nat \ {0} /\ hashtab \in [Vertex -> Int] /\ visited \subseteq Vertex
      /\ elemtype \in {"none"} \cup {Widths[i].type : i \in 1 .. Len(Widths)}
  BY DEF TooWide, Typed, TypeOK
<1> QED
  BY <1>1, <1>2, GraphKept DEF table

LEMMA BumpSizeTyped ==
    ASSUME Typed, BumpSize
    PROVE  Typed'
<1>1. UNCHANGED <<params, E, peel, table, pc>> /\ pc = "size" /\ nverts' = nverts + 1
  BY DEF BumpSize
<1>2. nedges' = nedges
  BY <1>1 DEF params, nedges
<1>3. nverts' \in Nat /\ nverts' >= 2 * nedges + 1
  BY <1>1, Sizes
<1>4. TypeOK'
  BY <1>1, <1>2, <1>3 DEF Typed, TypeOK, params, peel, table
<1>5. GraphOK'
  BY <1>1 DEF GraphOK, Built
<1> QED
  BY <1>1, <1>4, <1>5 DEF Typed, params

LEMMA StepTyped == Typed /\ [Next]_vars => Typed'
<1> SUFFICES ASSUME Typed, [Next]_vars PROVE Typed'
  OBVIOUS
<1>1. CASE BumpSize    BY <1>1, BumpSizeTyped
<1>2. CASE SelfLoop    BY <1>2, RetryTyped DEF SelfLoop
<1>3. CASE BuildGraph  BY <1>3, BuildGraphTyped
<1>4. CASE RemoveEdge  BY <1>4, RemoveEdgeTyped
<1>5. CASE NextStart   BY <1>5, NextStartTyped
<1>6. CASE Cyclic      BY <1>6, RetryTyped DEF Cyclic
<1>7. CASE Acyclic     BY <1>7, AcyclicTyped
<1>8. CASE Assign      BY <1>8, AssignTyped
<1>9. CASE ChooseWidth BY <1>9, ChooseWidthTyped
<1>10. CASE TooWide    BY <1>10, TooWideTyped
<1>11. CASE UNCHANGED vars
  <2>1. UNCHANGED <<params, nverts, E, peel, table, pc>>
    BY <1>11 DEF vars, graph
  <2>2. nedges' = nedges /\ Edge' = Edge /\ Vertex' = Vertex /\ NewE' = NewE
    BY <2>1 DEF params, nedges, Edge, Vertex, NewE
  <2>3. TypeOK'
    BY <2>1, <2>2 DEF Typed, TypeOK, params, peel, table
  <2>4. GraphOK'
    BY <2>1, <2>2 DEF Typed, GraphOK, Built, params, BadSize
  <2> QED
    BY <2>1, <2>3, <2>4 DEF Typed, params
<1> QED
  BY <1>1, <1>2, <1>3, <1>4, <1>5, <1>6, <1>7, <1>8, <1>9, <1>10, <1>11
     DEF Next, Terminating

(***************************************************************************)
(* The variables of _construct_hash_table and of the loops around it keep  *)
(* their types.                                                            *)
(***************************************************************************)
THEOREM TypeCorrect == Spec => []TypeOK
<1>1. Typed => TypeOK
  BY DEF Typed
<1> QED
  BY InitTyped, StepTyped, <1>1, PTL DEF Spec
-----------------------------------------------------------------------------
(***************************************************************************)
(* The peeling: @V holds the edges that are left; the edges removed so far *)
(* are all different, and each has an end that no edge before it in the    *)
(* output order and no edge that is left touches.                          *)
(***************************************************************************)
Removed == {order[i] : i \in 1 .. Len(order)}

FreeEnd(i) ==
    \E u \in Ends(order[i]) :
        /\ V[u] = {}
        /\ \A j \in 1 .. i - 1 : u \notin Ends(order[j])

OrderOK ==
    Built =>
        /\ \A i, j \in 1 .. Len(order) : order[i] = order[j] => i = j
        /\ \A u \in Vertex : V[u] = {e \in Edge \ Removed : u \in Ends(e)}
        /\ \A i \in 1 .. Len(order) : FreeEnd(i)

\* The start vertices behind the loop have been left for good, except for the
\* one that the inner loop has come back to.
ScanOK ==
    Built =>
        /\ \A u \in Vertex : u <= startv /\ u # v => \A e \in V[u] : V[u] # {e}
        /\ startv = nverts => v = nverts

Peeled == Typed /\ OrderOK /\ ScanOK

\* What a step of the peeling does to @V and to the output order.
LEMMA RemoveEdgeEffect ==
    ASSUME Peeled, RemoveEdge
    PROVE  \E e \in Edge \ Removed :
                /\ v \in Ends(e) /\ v \in Vertex /\ v' \in Ends(e) /\ V[v] = {e}
                /\ Ends(e) = {v, v'}
                /\ order' = <<e>> \o order
                /\ \A u \in Vertex : V'[u] = V[u] \ {e}
                /\ V'[v] = {}
<1>1. Typed /\ Built /\ startv < nverts /\ OrderOK
  BY DEF RemoveEdge, Built, Peeled
<1>2. v \in Vertex /\ V \in [Vertex -> SUBSET Edge]
  BY <1>1, Sizes DEF Typed, TypeOK, Built, Vertex
<1>3. PICK e \in V[v] :
        /\ V[v] = {e}
        /\ V' = [V EXCEPT ![v] = @ \ {e}, ![OtherEnd(e, v)] = @ \ {e}]
        /\ order' = <<e>> \o order
        /\ v' = OtherEnd(e, v)
  BY DEF RemoveEdge
<1>4. e \in Edge \ Removed /\ v \in Ends(e)
  BY <1>1, <1>2, <1>3 DEF OrderOK
<1> DEFINE w == OtherEnd(e, v)
<1>5. w \in Vertex /\ w # v /\ Ends(e) = {v, w}
  BY <1>1, <1>4, EndsType
<1>6. V' = [V EXCEPT ![v] = @ \ {e}, ![w] = @ \ {e}] /\ v' = w
  BY <1>3
<1>7. \A u \in Vertex : e \in V[u] => u \in Ends(e)
  BY <1>1 DEF OrderOK
<1> HIDE DEF w
<1>8. \A u \in Vertex : V'[u] = V[u] \ {e}
  <2> SUFFICES ASSUME NEW u \in Vertex PROVE V'[u] = V[u] \ {e}
    OBVIOUS
  <2>1. CASE u = v \/ u = w
    BY <2>1, <1>2, <1>5, <1>6
  <2>2. CASE u # v /\ u # w
    <3>1. V'[u] = V[u]
      BY <2>2, <1>2, <1>5, <1>6
    <3>2. e \notin V[u]
      BY <2>2, <1>5, <1>7
    <3> QED
      BY <3>1, <3>2
  <2> QED
    BY <2>1, <2>2
<1>9. V'[v] = {}
  BY <1>2, <1>3, <1>8
<1> QED
  BY <1>2, <1>3, <1>4, <1>5, <1>6, <1>8, <1>9

LEMMA RemoveEdgePeeled ==
    ASSUME Peeled, RemoveEdge
    PROVE  Peeled'
<1>1. Typed /\ Typed' /\ Built /\ OrderOK /\ ScanOK /\ order \in Seq(Edge)
  BY RemoveEdgeTyped DEF Peeled, RemoveEdge, Built, Typed, TypeOK
<1>2. PICK e \in Edge \ Removed :
        /\ v \in Ends(e) /\ v \in Vertex /\ v' \in Ends(e) /\ V[v] = {e}
        /\ Ends(e) = {v, v'}
        /\ order' = <<e>> \o order
        /\ \A u \in Vertex : V'[u] = V[u] \ {e}
        /\ V'[v] = {}
  BY RemoveEdgeEffect
<1>3. /\ UNCHANGED <<params, graph, startv, table, pc>>
      /\ Edge' = Edge /\ Vertex' = Vertex /\ (\A f : Ends(f)' = Ends(f))
  BY DEF RemoveEdge, params, graph, nedges, Edge, Vertex, Ends
<1>4. /\ Len(order) \in Nat /\ Len(order') = Len(order) + 1
      /\ order'[1] = e
      /\ \A i \in 1 .. Len(order) : order'[i + 1] = order[i] /\ order[i] \in Edge
      /\ \A i \in 1 .. Len(order')  :
            i # 1 => i - 1 \in 1 .. Len(order) /\ order'[i] = order[i - 1]
  BY <1>1, <1>2
<1>5. Removed' = Removed \cup {e}
  <2>1. ASSUME NEW f \in Removed' PROVE f \in Removed \cup {e}
    <3>1. PICK i \in 1 .. Len(order') : f = order'[i]
      BY <2>1 DEF Removed
    <3> QED
      BY <3>1, <1>4 DEF Removed
  <2>2. ASSUME NEW f \in Removed PROVE f \in Removed'
    <3>1. PICK i \in 1 .. Len(order) : f = order[i]
      BY <2>2 DEF Removed
    <3>2. i + 1 \in 1 .. Len(order') /\ order'[i + 1] = f
      BY <3>1, <1>4
    <3> QED
      BY <3>2 DEF Removed
  <2>3. e \in Removed'
    <3>1. 1 \in 1 .. Len(order') /\ order'[1] = e
      BY <1>4
    <3> QED
      BY <3>1 DEF Removed
  <2> QED
    BY <2>1, <2>2, <2>3
<1>6. \A i \in 1 .. Len(order) : order[i] # e
  BY <1>2 DEF Removed
<1>7. \A i, j \in 1 .. Len(order') : order'[i] = order'[j] => i = j
  <2> SUFFICES ASSUME NEW i \in 1 .. Len(order'), NEW j \in 1 .. Len(order'), order'[i] = order'[j]
               PROVE  i = j
    OBVIOUS
  <2>1. CASE i = 1 \/ j = 1
    BY <2>1, <1>4, <1>6
  <2>2. CASE i # 1 /\ j # 1
    <3>1. i - 1 \in 1 .. Len(order) /\ j - 1 \in 1 .. Len(order) /\ order[i - 1] = order[j - 1]
      BY <2>2, <1>4
    <3>2. i - 1 = j - 1
      BY <3>1, <1>1 DEF OrderOK
    <3> QED
      BY <3>2
  <2> QED
    BY <2>1, <2>2
<1>8. \A u \in Vertex : V'[u] = {f \in Edge \ Removed' : u \in Ends(f)}
  <2>1. \A u \in Vertex : V[u] = {f \in Edge \ Removed : u \in Ends(f)}
    BY <1>1 DEF OrderOK
  <2> QED
    BY <2>1, <1>2, <1>5
<1>9. \A i \in 1 .. Len(order') : FreeEnd(i)'
  <2> SUFFICES ASSUME NEW i \in 1 .. Len(order') PROVE FreeEnd(i)'
    OBVIOUS
  <2>1. CASE i = 1
    <3>1. v \in Ends(order'[i]) /\ V'[v] = {} /\ 1 .. i - 1 = {}
      BY <2>1, <1>2, <1>4
    <3> QED
      BY <3>1, <1>3 DEF FreeEnd
  <2>2. CASE i # 1
    <3>1. i - 1 \in 1 .. Len(order) /\ order'[i] = order[i - 1]
      BY <2>2, <1>4
    <3>2. FreeEnd(i - 1)
      BY <3>1, <1>1 DEF OrderOK
    <3>3. PICK u \in Ends(order[i - 1]) :
            /\ V[u] = {}
            /\ \A j \in 1 .. i - 2 : u \notin Ends(order[j])
      <4>1. (i - 1) - 1 = i - 2
        BY <3>1
      <4> QED
        BY <3>2, <4>1 DEF FreeEnd
    <3>4. u \in Vertex
      BY <3>1, <3>3, <1>1, <1>4, EndsType
    <3>5. V'[u] = {}
      BY <3>3, <3>4, <1>2
    <3>6. u \notin Ends(e)
      BY <3>3, <3>4, <1>1, <1>2 DEF OrderOK
    <3>7. ASSUME NEW j \in 1 .. i - 1 PROVE u \notin Ends(order'[j])
      <4>1. CASE j = 1
        BY <4>1, <3>6, <1>4
      <4>2. CASE j # 1
        <5>1. j \in 1 .. Len(order') /\ j - 1 \in 1 .. i - 2
          BY <4>2, <3>1, <1>4
        <5>2. order'[j] = order[j - 1]
          BY <5>1, <4>2, <1>4
        <5> QED
          BY <5>1, <5>2, <3>3
      <4> QED
        BY <4>1, <4>2
    <3> QED
      BY <3>1, <3>3, <3>5, <3>7, <1>3 DEF FreeEnd
  <2> QED
    BY <2>1, <2>2
<1>10. OrderOK'
  BY <1>3, <1>7, <1>8, <1>9 DEF OrderOK
<1>11. ScanOK'
  <2>1. /\ \A u \in Vertex : u <= startv /\ u # v => \A f \in V[u] : V[u] # {f}
        /\ startv < nverts /\ startv \in Nat /\ nverts \in Nat
    BY <1>1, Sizes DEF ScanOK, RemoveEdge, Typed, TypeOK
  <2>2. ASSUME NEW u \in Vertex, u <= startv, u # v', NEW f \in V'[u]
        PROVE  V'[u] # {f}
    <3>1. CASE u = v
      BY <3>1, <2>2, <1>2
    <3>2. CASE u # v
      <4>1. u \notin Ends(e)
        BY <3>2, <2>2, <1>2
      <4>2. e \notin V[u]
        BY <4>1, <1>1 DEF OrderOK
      <4>3. V'[u] = V[u] \ {e}
        BY <2>2, <1>2
      <4> QED
        BY <4>2, <4>3, <3>2, <2>1, <2>2
    <3> QED
      BY <3>1, <3>2
  <2>3. startv' # nverts'
    BY <2>1, <1>3 DEF graph
  <2>4. \A u \in Vertex' : u <= startv' /\ u # v' => \A f \in V'[u] : V'[u] # {f}
    BY <2>2, <1>3
  <2> QED
    BY <2>3, <2>4 DEF ScanOK
<1> QED
  BY <1>1, <1>10, <1>11 DEF Peeled
LEMMA BuildGraphPeeled ==
    ASSUME Peeled, BuildGraph
    PROVE  Peeled'
<1>1. Typed' /\ nverts \in Nat \ {0}
  BY BuildGraphTyped, Sizes DEF Peeled
<1>2. /\ order' = << >> /\ Len(order') = 0 /\ startv' = 0 /\ v' = 0
      /\ Vertex' = Vertex /\ Edge' = Edge /\ nverts' = nverts /\ E' = NewE
      /\ V' = [u \in Vertex |-> {e \in Edge : u \in {NewE[e].left, NewE[e].right}}]
  BY DEF BuildGraph, params, nedges, Edge, Vertex
<1>3. Removed' = {}
  BY <1>2 DEF Removed
<1>4. \A e : Ends(e)' = {NewE[e].left, NewE[e].right}
  BY <1>2 DEF Ends
<1>5. \A u \in Vertex : V'[u] = {e \in Edge \ Removed' : u \in Ends(e)'}
  BY <1>2, <1>3, <1>4
<1>6. OrderOK'
  BY <1>2, <1>5 DEF OrderOK
<1>7. ScanOK'
  BY <1>1, <1>2 DEF ScanOK, Vertex
<1> QED
  BY <1>1, <1>6, <1>7 DEF Peeled

LEMMA NextStartPeeled ==
    ASSUME Peeled, NextStart
    PROVE  Peeled'
<1>1. Typed /\ Typed' /\ Built /\ OrderOK /\ ScanOK
  BY NextStartTyped DEF Peeled, NextStart, Built
<1>2. /\ UNCHANGED <<params, graph, V, order, table, pc>>
      /\ Edge' = Edge /\ Vertex' = Vertex /\ (\A f : Ends(f)' = Ends(f))
      /\ startv' = startv + 1 /\ v' = startv + 1
      /\ \A e \in V[v] : V[v] # {e}
  BY DEF NextStart, params, graph, nedges, Edge, Vertex, Ends
<1>3. Removed' = Removed /\ (\A i : FreeEnd(i)' = FreeEnd(i))
  BY <1>2 DEF Removed, FreeEnd
<1>4. OrderOK'
  BY <1>1, <1>2, <1>3 DEF OrderOK
<1>5. startv \in Nat
  BY <1>1 DEF Typed, TypeOK
<1>6. ASSUME NEW u \in Vertex, u <= startv + 1, u # startv + 1, NEW e \in V[u]
      PROVE  V[u] # {e}
  <2>1. u <= startv
    <3>1. u \in Nat
      BY <1>6 DEF Vertex
    <3> QED
      BY <3>1, <1>5, <1>6
  <2> QED
    BY <2>1, <1>1, <1>2, <1>6 DEF ScanOK
<1>7. ScanOK'
  BY <1>2, <1>6 DEF ScanOK
<1> QED
  BY <1>1, <1>4, <1>7 DEF Peeled

\* The peeling is over: its variables stay.
LEMMA PeeledKept ==
    ASSUME Peeled, Typed', Built, UNCHANGED <<params, graph, peel>>
    PROVE  Peeled'
<1>1. Edge' = Edge /\ Vertex' = Vertex /\ (\A f : Ends(f)' = Ends(f))
  BY DEF params, graph, nedges, Edge, Vertex, Ends
<1>2. Removed' = Removed /\ (\A i : FreeEnd(i)' = FreeEnd(i))
  BY <1>1 DEF Removed, FreeEnd, peel
<1>3. OrderOK /\ ScanOK
  BY DEF Peeled
<1>4. OrderOK'
  BY <1>1, <1>2, <1>3 DEF OrderOK, peel
<1>5. ScanOK'
  BY <1>1, <1>3 DEF ScanOK, peel, graph
<1> QED
  BY <1>4, <1>5 DEF Peeled

LEMMA InitPeeled == Init => Peeled
  BY InitTyped DEF Init, Peeled, OrderOK, ScanOK, Built

LEMMA StepPeeled == Peeled /\ [Next]_vars => Peeled'
<1> SUFFICES ASSUME Peeled, [Next]_vars PROVE Peeled'
  OBVIOUS
<1>0. Typed'
  BY StepTyped DEF Peeled
<1>1. CASE ~Built'
  BY <1>0, <1>1 DEF Peeled, OrderOK, ScanOK
<1>2. CASE BuildGraph
  BY <1>2, BuildGraphPeeled
<1>3. CASE RemoveEdge
  BY <1>3, RemoveEdgePeeled
<1>4. CASE NextStart
  BY <1>4, NextStartPeeled
<1>5. CASE Built /\ UNCHANGED <<params, graph, peel>>
  BY <1>0, <1>5, PeeledKept
<1>6. CASE BumpSize \/ SelfLoop \/ Cyclic
  BY <1>1, <1>6 DEF BumpSize, SelfLoop, Cyclic, Retry, Built
<1>7. CASE Acyclic \/ Assign \/ ChooseWidth \/ TooWide
  BY <1>5, <1>7 DEF Acyclic, PeelEnded, Assign, ChooseWidth, TooWide, Built
<1>8. CASE UNCHANGED vars
  <2>1. Built' = Built /\ UNCHANGED <<params, graph, peel>>
    BY <1>8 DEF vars, Built
  <2> QED
    BY <2>1, <1>1, <1>5
<1> QED
  BY <1>2, <1>3, <1>4, <1>6, <1>7, <1>8 DEF Next, Terminating

-----------------------------------------------------------------------------
\* Counting: the output order holds all edges when it is as long as them.
LEMMA OrderCount ==
    ASSUME Peeled, Built
    PROVE  Len(order) = nedges <=> Removed = Edge
<1>1. /\ order \in Seq(Edge) /\ nedges \in Nat
      /\ \A i, j \in 1 .. Len(order) : order[i] = order[j] => i = j
  BY Sizes DEF Peeled, OrderOK, Typed, TypeOK, Built
<1>2. Len(order) \in Nat /\ \A i \in 1 .. Len(order) : order[i] \in Edge
  BY <1>1
<1>3. Removed \subseteq Edge
  BY <1>2 DEF Removed
<1>4. IsFiniteSet(Edge) /\ Cardinality(Edge) = nedges
  <2>1. 0 \in Int /\ nedges - 1 \in Int
    BY <1>1
  <2>2. /\ IsFiniteSet(0 .. nedges - 1)
        /\ Cardinality(0 .. nedges - 1) = IF 0 > nedges - 1 THEN 0 ELSE (nedges - 1) - 0 + 1
    BY <2>1, FS_Interval
  <2> QED
    BY <2>2, <1>1 DEF Edge
<1>5. IsFiniteSet(1 .. Len(order)) /\ Cardinality(1 .. Len(order)) = Len(order)
  <2>1. /\ IsFiniteSet(1 .. Len(order))
        /\ Cardinality(1 .. Len(order)) = IF 1 > Len(order) THEN 0 ELSE Len(order) - 1 + 1
    BY <1>2, FS_Interval
  <2> QED
    BY <2>1, <1>2
<1> DEFINE f == [i \in 1 .. Len(order) |-> order[i]]
<1>6. f \in Bijection(1 .. Len(order), Removed)
  <2>1. f \in [1 .. Len(order) -> Removed]
    BY DEF Removed
  <2>2. \A i, j \in 1 .. Len(order) : f[i] = f[j] => i = j
    BY <1>1
  <2>3. \A x \in Removed : \E i \in 1 .. Len(order) : f[i] = x
    BY DEF Removed
  <2> QED
    BY <2>1, <2>2, <2>3 DEF Bijection, Injection, Surjection, IsInjective
<1>7. IsFiniteSet(Removed) /\ Cardinality(Removed) = Len(order)
  <2>1. ExistsBijection(1 .. Len(order), Removed)
    BY <1>6 DEF ExistsBijection
  <2> QED
    BY <2>1, <1>5, FS_Bijection
<1>8. Cardinality(Removed) = Cardinality(Edge) => Removed = Edge
  BY <1>3, <1>4, FS_Subset
<1> QED
  BY <1>4, <1>7, <1>8
\* When no edge is left there is no cycle: of the edges of a cycle, the one
\* furthest back in the output order has an end that no other one touches.
LEMMA GoneAcyclic ==
    ASSUME Peeled, Built, Removed = Edge
    PROVE  ~HasCycle(E)
<1>1. /\ DOMAIN E = Edge /\ order \in Seq(Edge) /\ OrderOK
      /\ \A e : EndsIn(E, e) = Ends(e)
  BY DEF Peeled, Typed, TypeOK, Built, EndsIn, Ends
<1> SUFFICES ASSUME NEW S \in SUBSET Edge, S # {},
                    \A e \in S : \A u \in Ends(e) : \E f \in S \ {e} : u \in Ends(f)
             PROVE  FALSE
  BY <1>1 DEF HasCycle
<1> DEFINE T == {i \in 1 .. Len(order) : order[i] \in S}
<1>2. Len(order) \in Nat
  BY <1>1
<1>3. \A f \in S : \E i \in T : order[i] = f
  BY DEF Removed
<1>4. T \subseteq 0 .. Len(order) /\ T # {}
  BY <1>3
<1>5. PICK i \in T : \A j \in T : j <= i
  <2> HIDE DEF T
  <2> QED
    BY <1>2, <1>4, LargestNumber
<1>6. PICK u \in Ends(order[i]) : \A j \in 1 .. i - 1 : u \notin Ends(order[j])
  BY <1>1, <1>5 DEF OrderOK, FreeEnd
<1>7. PICK f \in S \ {order[i]} : u \in Ends(f)
  BY <1>5, <1>6
<1>8. PICK j \in T : order[j] = f
  BY <1>3, <1>7
<1>9. j \in 1 .. i - 1
  <2>1. j <= i /\ j # i /\ i \in 1 .. Len(order) /\ j \in 1 .. Len(order)
    BY <1>5, <1>7, <1>8
  <2> QED
    BY <2>1, <1>2
<1> QED
  BY <1>6, <1>7, <1>8, <1>9

\* When the scan is over, an edge that is left has another one at each end.
LEMMA LeftCyclic ==
    ASSUME Peeled, PeelEnded, Removed # Edge
    PROVE  HasCycle(E)
<1>1. Built /\ startv = nverts /\ Typed /\ OrderOK /\ ScanOK
  BY DEF PeelEnded, Built, Peeled
<1>2. DOMAIN E = Edge /\ order \in Seq(Edge) /\ (\A e : EndsIn(E, e) = Ends(e))
  BY <1>1 DEF Typed, TypeOK, Built, EndsIn, Ends
<1> DEFINE S == Edge \ Removed
<1>3. S \in SUBSET DOMAIN E
  BY <1>2
<1>4. S # {}
  <2>1. Removed \subseteq Edge
    BY <1>2 DEF Removed
  <2> QED
    BY <2>1
<1>5. ASSUME NEW e \in S, NEW u \in Ends(e)
      PROVE  \E f \in S \ {e} : u \in Ends(f)
  <2>1. u \in Vertex
    BY <1>1, <1>5, EndsType
  <2>2. u <= startv /\ u # v
    <3>1. u \in Nat /\ u < nverts /\ nverts \in Nat /\ v = nverts
      BY <1>1, <2>1, Sizes DEF Vertex, ScanOK
    <3> QED
      BY <3>1, <1>1
  <2>3. V[u] = {f \in S : u \in Ends(f)} /\ e \in V[u]
    BY <1>1, <1>5, <2>1 DEF OrderOK
  <2>4. V[u] # {e}
    BY <1>1, <2>1, <2>2, <2>3 DEF ScanOK
  <2> QED
    BY <2>3, <2>4
<1>6. \A e \in S : \A u \in EndsIn(E, e) : \E f \in S \ {e} : u \in EndsIn(E, f)
  BY <1>2, <1>5
<1> HIDE DEF S
<1> QED
  BY <1>3, <1>4, <1>6 DEF HasCycle

(***************************************************************************)
(* One pass over the start vertices, each followed to the other end of its *)
(* edge, removes all edges iff the graph is acyclic.                       *)
(***************************************************************************)
THEOREM PeelingDecides == Spec => []PeelExact
<1>1. Peeled => PeelExact
  BY OrderCount, GoneAcyclic, LeftCyclic DEF PeelExact, PeelEnded, Built
<1> QED
  BY InitPeeled, StepPeeled, <1>1, PTL DEF Spec

-----------------------------------------------------------------------------
(***************************************************************************)
(* The assignment: the values at the two ends of each edge that was        *)
(* handled add up to its number, and a vertex that was not visited has     *)
(* kept its 0 until the flag replaces it.                                  *)
(***************************************************************************)
Sum(e) == hashtab[E[e].left] + hashtab[E[e].right]

TableOK ==
    /\ pc # "oops"
    /\ Assigned =>
        /\ Removed = Edge
        /\ next <= Len(order) + 1
        /\ pc = "assign" \/ next = Len(order) + 1
        /\ \A u \in Vertex :
                u \in visited <=> \E j \in 1 .. next - 1 : u \in Ends(order[j])
        /\ \A j \in 1 .. next - 1 : Sum(order[j]) = order[j]
        /\ pc = "assign" => \A u \in Vertex \ visited : hashtab[u] = 0

Tabled == Peeled /\ TableOK /\ UnusedRejected

LEMMA AcyclicTabled ==
    ASSUME Tabled, Acyclic
    PROVE  TableOK'
<1>1. Peeled /\ Built /\ Removed = Edge /\ order \in Seq(Edge)
  BY OrderCount DEF Tabled, Acyclic, PeelEnded, Built, Peeled, Typed, TypeOK
<1>2. UNCHANGED <<params, graph, peel>> /\ Vertex' = Vertex /\ Edge' = Edge /\ Removed' = Removed
  BY DEF Acyclic, params, graph, peel, nedges, Edge, Vertex, Removed
<1>3. /\ pc' = "assign" /\ next' = 1 /\ visited' = {} /\ 1 .. 1 - 1 = {}
      /\ \A u \in Vertex : hashtab'[u] = 0
      /\ 1 <= Len(order) + 1
  BY <1>1 DEF Acyclic
<1>4. order' = order
  BY <1>2 DEF peel
<1> QED
  BY <1>1, <1>2, <1>3, <1>4 DEF TableOK

LEMMA AssignTabled ==
    ASSUME Tabled, Assign
    PROVE  TableOK'
<1> DEFINE e == order[next]
           l == E[e].left
           r == E[e].right
<1>1. Peeled /\ Typed /\ Built /\ Assigned /\ TableOK /\ OrderOK /\ pc = "assign"
  BY DEF Tabled, Peeled, Assign, Built, Assigned
<1>2. /\ next \in Nat \ {0} /\ order \in Seq(Edge) /\ Len(order) \in Nat
      /\ next <= Len(order) /\ next \in 1 .. Len(order)
      /\ hashtab \in [Vertex -> Int]
  BY <1>1 DEF Assign, Typed, TypeOK
<1>3. \A i \in 1 .. Len(order) : order[i] \in Edge
  BY <1>2
<1>4. /\ e \in Edge /\ e \in Int /\ l \in Vertex /\ r \in Vertex /\ l # r
      /\ Ends(e) = {l, r}
  <2>1. e \in Edge
    BY <1>2, <1>3
  <2>2. e \in Int
    BY <2>1, <1>1, Sizes
  <2> QED
    BY <2>1, <2>2, <1>1, EndsType
<1>5. /\ UNCHANGED <<params, graph, peel>> /\ Vertex' = Vertex /\ Edge' = Edge
      /\ Removed' = Removed /\ E' = E /\ order' = order
      /\ \A f : Ends(f)' = Ends(f)
  BY DEF Assign, params, graph, peel, nedges, Edge, Vertex, Removed, Ends
<1>6. next' = next + 1 /\ visited' = visited \cup {l, r}
  BY DEF Assign
<1>7. /\ \A u \in Vertex : u \in visited <=> \E j \in 1 .. next - 1 : u \in Ends(order[j])
      /\ \A j \in 1 .. next - 1 : Sum(order[j]) = order[j]
      /\ \A u \in Vertex \ visited : hashtab[u] = 0
  BY <1>1 DEF TableOK
<1>8. l \notin visited \/ r \notin visited
  <2>1. \E u \in Ends(e) : \A j \in 1 .. next - 1 : u \notin Ends(order[j])
    BY <1>1, <1>2 DEF OrderOK, FreeEnd
  <2> QED
    BY <2>1, <1>4, <1>7
<1>9. PICK w \in {l, r} :
        /\ w \notin visited
        /\ hashtab' = [hashtab EXCEPT ![w] = e - hashtab[OtherEnd(e, w)]]
        /\ pc' = "assign"
  <2>1. OtherEnd(e, l) = r /\ OtherEnd(e, r) = l
    BY <1>4 DEF OtherEnd
  <2>2. CASE l \notin visited /\ hashtab' = [hashtab EXCEPT ![l] = e - hashtab[r]] /\ pc' = pc
    BY <2>1, <2>2, <1>1
  <2>3. CASE /\ l \in visited
             /\ hashtab' = [hashtab EXCEPT ![r] = e - hashtab[l]]
             /\ pc' = IF r \in visited THEN "oops" ELSE pc
    BY <2>1, <2>3, <1>1, <1>8
  <2> QED
    BY <2>2, <2>3 DEF Assign
<1> DEFINE x == OtherEnd(e, w)
<1>10. x \in Vertex /\ w \in Vertex /\ x # w /\ {l, r} = {w, x}
  BY <1>4, <1>9 DEF OtherEnd
<1>11. hashtab' = [hashtab EXCEPT ![w] = e - hashtab[x]]
  BY <1>9
<1> HIDE DEF x
<1>12. /\ hashtab'[w] = e - hashtab[x] /\ hashtab'[x] = hashtab[x]
       /\ \A u \in Vertex : u # w => hashtab'[u] = hashtab[u]
       /\ hashtab[x] \in Int
  BY <1>2, <1>10, <1>11
<1>13. hashtab'[l] + hashtab'[r] = e
  <2>1. hashtab'[w] + hashtab'[x] = e /\ hashtab'[x] + hashtab'[w] = e
    BY <1>4, <1>12
  <2> QED
    BY <2>1, <1>4, <1>10
<1>14. ASSUME NEW j \in 1 .. next PROVE Sum(order[j])' = order[j]
  <2>1. CASE j = next
    BY <2>1, <1>5, <1>13 DEF Sum
  <2>2. CASE j # next
    <3>1. j \in 1 .. next - 1 /\ order[j] \in Edge
      BY <2>2, <1>2, <1>3
    <3>2. w \notin Ends(order[j])
      BY <3>1, <1>7, <1>9, <1>10
    <3>3. /\ Ends(order[j]) = {E[order[j]].left, E[order[j]].right}
          /\ E[order[j]].left \in Vertex /\ E[order[j]].right \in Vertex
      BY <3>1, <1>1, EndsType
    <3>4. /\ hashtab'[E[order[j]].left] = hashtab[E[order[j]].left]
          /\ hashtab'[E[order[j]].right] = hashtab[E[order[j]].right]
      BY <3>2, <3>3, <1>12
    <3>5. Sum(order[j]) = order[j]
      BY <3>1, <1>7
    <3> QED
      BY <3>4, <3>5, <1>5 DEF Sum
  <2> QED
    BY <2>1, <2>2
<1>15. ASSUME NEW u \in Vertex
       PROVE  u \in visited' <=> \E j \in 1 .. next : u \in Ends(order[j])
  <2>1. \A j \in 1 .. next : j = next \/ j \in 1 .. next - 1
    BY <1>2
  <2>2. next \in 1 .. next /\ 1 .. next - 1 \subseteq 1 .. next
    BY <1>2
  <2> QED
    BY <2>1, <2>2, <1>4, <1>6, <1>7
<1>16. \A u \in Vertex \ visited' : hashtab'[u] = 0
  BY <1>6, <1>7, <1>9, <1>12
<1>17. next' <= Len(order) + 1 /\ next' - 1 = next
  BY <1>2, <1>6
<1>18. Removed = Edge
  BY <1>1 DEF TableOK
<1> HIDE DEF e, l, r
<1> QED
  BY <1>5, <1>9, <1>14, <1>15, <1>16, <1>17, <1>18 DEF TableOK
LEMMA ChooseWidthTabled ==
    ASSUME Tabled, ChooseWidth
    PROVE  TableOK' /\ UnusedRejected'
<1>1. Peeled /\ Typed /\ Built /\ Assigned /\ TableOK /\ pc = "assign"
  BY DEF Tabled, Peeled, ChooseWidth, Built, Assigned
<1>2. /\ next \in Nat /\ order \in Seq(Edge) /\ Len(order) \in Nat
      /\ next = Len(order) + 1 /\ hashtab \in [Vertex -> Int]
      /\ nedges \in Nat
  <2>1. /\ next \in Nat /\ order \in Seq(Edge) /\ hashtab \in [Vertex -> Int]
        /\ nedges \in Nat
    BY <1>1, Sizes DEF Typed, TypeOK
  <2>2. Len(order) \in Nat /\ next > Len(order) /\ next <= Len(order) + 1
    BY <2>1, <1>1 DEF ChooseWidth, TableOK
  <2> QED
    BY <2>1, <2>2
<1>3. /\ UNCHANGED <<params, graph, peel, visited, next>> /\ pc' = "done"
      /\ Vertex' = Vertex /\ Edge' = Edge /\ nedges' = nedges
      /\ Removed' = Removed /\ E' = E /\ order' = order
      /\ \A f : Ends(f)' = Ends(f)
  BY DEF ChooseWidth, params, graph, peel, nedges, Edge, Vertex, Removed, Ends
<1>4. /\ \A u \in Vertex : u \in visited <=> \E j \in 1 .. next - 1 : u \in Ends(order[j])
      /\ \A j \in 1 .. next - 1 : Sum(order[j]) = order[j]
      /\ \A u \in Vertex \ visited : hashtab[u] = 0
      /\ Removed = Edge
  BY <1>1 DEF TableOK
<1>5. PICK i \in 1 .. Len(Widths) :
        /\ Narrowest(i)
        /\ hashtab' = [u \in Vertex |-> IF u \in visited THEN hashtab[u]
                                                         ELSE Widths[i].flag]
  BY DEF ChooseWidth
<1> DEFINE flag == Widths[i].flag
<1>6. flag \in Nat
  <2>1. \A S : Widths \in Seq(S) => Widths[i] \in S
    BY <1>5
  <2>2. Widths[i] \in [type : STRING, lim : Nat, flag : Nat]
    BY <2>1, WidthAssumption
  <2> QED
    BY <2>2
<1>7. \A u \in Vertex : hashtab[u] + flag >= nedges
  BY <1>5 DEF Narrowest, Fits
<1>8. /\ \A u \in visited : u \in Vertex => hashtab'[u] = hashtab[u]
      /\ \A u \in Vertex \ visited : hashtab'[u] = flag
  BY <1>5
<1> HIDE DEF flag
<1>9. ASSUME NEW j \in 1 .. next - 1 PROVE Sum(order[j])' = order[j]
  <2>1. order[j] \in Edge
    BY <1>2, <1>9
  <2>2. /\ E[order[j]].left \in Vertex /\ E[order[j]].right \in Vertex
        /\ E[order[j]].left \in visited /\ E[order[j]].right \in visited
    BY <2>1, <1>1, <1>4, <1>9, EndsType
  <2>3. Sum(order[j]) = order[j]
    BY <1>4, <1>9
  <2> QED
    BY <2>2, <2>3, <1>3, <1>8 DEF Sum
<1>10. TableOK'
  BY <1>2, <1>3, <1>4, <1>9 DEF TableOK
<1>11. ASSUME NEW u \in Vertex \ visited, NEW x \in Vertex
       PROVE  hashtab'[u] + hashtab'[x] >= nedges
  <2>1. hashtab'[u] = flag /\ hashtab[u] = 0 /\ flag >= nedges
    BY <1>2, <1>4, <1>6, <1>7, <1>8
  <2>2. CASE x \in visited
    <3>1. hashtab'[x] = hashtab[x] /\ hashtab[x] \in Int /\ hashtab[x] + flag >= nedges
      BY <2>2, <1>2, <1>7, <1>8
    <3> QED
      BY <2>1, <3>1, <1>2, <1>6
  <2>3. CASE x \notin visited
    BY <2>1, <2>3, <1>2, <1>6, <1>8
  <2> QED
    BY <2>2, <2>3
<1>12. UnusedRejected'
  BY <1>3, <1>11 DEF UnusedRejected
<1> QED
  BY <1>10, <1>12

\* Steps that keep the table.
LEMMA TabledKept ==
    ASSUME Tabled, UNCHANGED <<params, graph, peel, table>>,
           \/ pc' = pc
           \/ pc = "assign" /\ next > Len(order) /\ pc' = "wide"
    PROVE  TableOK' /\ UnusedRejected'
<1>1. /\ Vertex' = Vertex /\ Edge' = Edge /\ nedges' = nedges
      /\ Removed' = Removed /\ E' = E /\ order' = order /\ next' = next
      /\ visited' = visited /\ hashtab' = hashtab
      /\ (\A f : Ends(f)' = Ends(f)) /\ (\A f : Sum(f)' = Sum(f))
  BY DEF params, graph, peel, table, nedges, Edge, Vertex, Removed, Ends, Sum
<1>2. UnusedRejected'
  BY <1>1 DEF Tabled, UnusedRejected
<1>3. CASE pc' = pc
  BY <1>1, <1>2, <1>3 DEF Tabled, TableOK, Assigned
<1>4. CASE pc = "assign" /\ next > Len(order) /\ pc' = "wide"
  <2>1. next \in Nat /\ order \in Seq(Edge) /\ Len(order) \in Nat /\ TableOK
    BY <1>4 DEF Tabled, Peeled, Typed, TypeOK
  <2>2. next = Len(order) + 1
    BY <2>1, <1>4 DEF TableOK, Assigned
  <2> QED
    BY <2>1, <2>2, <1>1, <1>2, <1>4 DEF TableOK, Assigned
<1> QED
  BY <1>3, <1>4

LEMMA InitTabled == Init => Tabled
  BY InitPeeled DEF Init, Tabled, TableOK, Assigned, UnusedRejected

LEMMA StepTabled == Tabled /\ [Next]_vars => Tabled'
<1> SUFFICES ASSUME Tabled, [Next]_vars PROVE Tabled'
  OBVIOUS
<1>0. Peeled' /\ pc # "oops"
  BY StepPeeled DEF Tabled, TableOK
<1>1. CASE pc' \in {"size", "failed", "peel"}
  <2>1. pc' # "oops" /\ pc' # "done" /\ ~Assigned'
    BY <1>1 DEF Assigned
  <2>2. TableOK' /\ UnusedRejected'
    BY <2>1 DEF TableOK, UnusedRejected
  <2> QED
    BY <2>2, <1>0 DEF Tabled
<1>2. CASE Acyclic
  BY <1>0, <1>2, AcyclicTabled DEF Tabled, UnusedRejected, Acyclic
<1>3. CASE Assign
  <2>1. pc' # "done"
    BY <1>3 DEF Assign
  <2> QED
    BY <2>1, <1>0, <1>3, AssignTabled DEF Tabled, UnusedRejected
<1>4. CASE ChooseWidth
  BY <1>0, <1>4, ChooseWidthTabled DEF Tabled
<1>5. CASE TooWide
  BY <1>0, <1>5, TabledKept DEF Tabled, TooWide
<1>6. CASE UNCHANGED vars
  <2>1. UNCHANGED <<params, graph, peel, table>> /\ pc' = pc
    BY <1>6 DEF vars
  <2>2. TableOK' /\ UnusedRejected'
    BY <2>1, TabledKept
  <2> QED
    BY <2>2, <1>0 DEF Tabled
<1>7. CASE BumpSize \/ SelfLoop \/ BuildGraph \/ RemoveEdge \/ NextStart \/ Cyclic
  <2>1. pc' \in {"size", "failed", "peel"}
    BY <1>7 DEF BumpSize, SelfLoop, BuildGraph, RemoveEdge, NextStart, Cyclic, PeelEnded, Retry
  <2> QED
    BY <2>1, <1>1
<1> QED
  BY <1>2, <1>3, <1>4, <1>5, <1>6, <1>7 DEF Next, Terminating

\* The edge of a key is the one with the key's number.
LEMMA TableIsPerfect == Tabled => Perfect
<1> SUFFICES ASSUME Tabled, pc = "done", NEW i \in 1 .. nedges
             PROVE  Lookup(keys[i]) = i - 1
  BY DEF Perfect
<1> DEFINE e == i - 1
<1>1. Peeled /\ Typed /\ Built /\ Assigned /\ TableOK /\ nedges \in Nat
  BY Sizes DEF Tabled, Peeled, Built, Assigned
<1>2. e \in Edge /\ e + 1 = i
  BY <1>1 DEF Edge
<1>3. E = NewE
  BY <1>1 DEF Typed, GraphOK
<1>4. E[e] = EdgeOf(keys[i], seed1, seed2, Mult2s[m], nverts)
  BY <1>2, <1>3 DEF NewE
<1>5. /\ Removed = Edge /\ next = Len(order) + 1 /\ Len(order) \in Nat
      /\ \A j \in 1 .. next - 1 : Sum(order[j]) = order[j]
  <2>1. order \in Seq(Edge) /\ Len(order) \in Nat
    BY <1>1, Sizes DEF Typed, TypeOK
  <2> QED
    BY <2>1, <1>1 DEF TableOK
<1>6. Sum(e) = e
  <2>1. PICK j \in 1 .. Len(order) : e = order[j]
    BY <1>2, <1>5 DEF Removed
  <2> QED
    BY <2>1, <1>5
<1> QED
  BY <1>4, <1>6 DEF Lookup, Sum

(***************************************************************************)
(* The die "oops, doubly used hashtab entry" is unreachable.               *)
(***************************************************************************)
THEOREM OopsUnreachable == Spec => []NeverOops
<1>1. Tabled => NeverOops
  BY DEF Tabled, TableOK, NeverOops
<1> QED
  BY InitTabled, StepTabled, <1>1, PTL DEF Spec

(***************************************************************************)
(* The generated function returns the index of every key it was made for.  *)
(***************************************************************************)
THEOREM TablesArePerfect == Spec => []Perfect
  BY InitTabled, StepTabled, TableIsPerfect, PTL DEF Spec

(***************************************************************************)
(* A probe that touches an unused entry gives an index out of range.       *)
(***************************************************************************)
THEOREM FlagRejects == Spec => []UnusedRejected
<1>1. Tabled => UnusedRejected
  BY DEF Tabled
<1> QED
  BY InitTabled, StepTabled, <1>1, PTL DEF Spec
-----------------------------------------------------------------------------
(***************************************************************************)
(* The search: the sizes passed over were bad, the size in use is the one  *)
(* of the reference definition, and the parameters before those in force   *)
(* do not work.                                                            *)
(***************************************************************************)
SearchOK ==
    /\ pc = "size" =>
        \A t \in 2 * nedges + 1 .. nverts - 1 : BadSize(t, Mult2s[m])
    /\ Built => nverts = GoodSize(Mult2s[m])
    /\ \A p \in Params : Before(p, <<seed1, seed2, m>>) => ~Works(p[1], p[2], p[3])
    /\ Assigned => Works(seed1, seed2, m)
    /\ pc = "failed" => \A p \in Params : ~Works(p[1], p[2], p[3])

Searched == Tabled /\ SearchOK

\* Whether parameters work depends on the keys alone.
LEMMA WorksFixed ==
    ASSUME keys' = keys
    PROVE  \A s1, s2, i : Works(s1, s2, i)' = Works(s1, s2, i)
  BY DEF Works, GoodSize, nedges, Edge

\* The loop of the size adjustment ends at GoodSize.
LEMMA LoopFindsGoodSize ==
    ASSUME Typed, ~BadSize(nverts, Mult2s[m]),
           \A t \in 2 * nedges + 1 .. nverts - 1 : BadSize(t, Mult2s[m])
    PROVE  nverts = GoodSize(Mult2s[m])
<1> DEFINE low == 2 * nedges + 1
           b == Mult2s[m]
           Fit(s) == ~BadSize(s, b) /\ \A t \in low .. s - 1 : BadSize(t, b)
<1>1. /\ low \in Nat /\ nverts \in Nat /\ nverts >= low
      /\ b \in Nat \ {0, 1}
  BY Sizes, MultsType
<1>2. PICK s \in low .. low + 3 : ~BadSize(s, b)
  BY <1>1, FourNeighbours
<1> HIDE DEF low, b
<1>3. /\ ~BadSize(nverts, b) /\ \A t \in low .. nverts - 1 : BadSize(t, b)
  BY DEF low, b
<1>4. nverts <= s
  <2>1. CASE s < nverts
    <3>1. s \in low .. nverts - 1
      BY <2>1, <1>1, <1>2
    <3> QED
      BY <3>1, <1>2, <1>3
  <2> QED
    BY <2>1, <1>1, <1>2
<1>5. nverts \in low .. low + 3 /\ Fit(nverts)
  BY <1>1, <1>2, <1>3, <1>4
<1>6. ASSUME NEW t \in low .. low + 3, Fit(t) PROVE t = nverts
  <2>1. CASE t < nverts
    <3>1. t \in low .. nverts - 1
      BY <2>1, <1>1
    <3> QED
      BY <3>1, <1>3, <1>6
  <2>2. CASE nverts < t
    <3>1. nverts \in low .. t - 1
      BY <2>2, <1>1
    <3> QED
      BY <3>1, <1>3, <1>6
  <2> QED
    BY <2>1, <2>2, <1>1
<1>7. GoodSize(b) = CHOOSE t \in low .. low + 3 : Fit(t)
  BY DEF GoodSize, low
<1> HIDE DEF Fit
<1> QED
  BY <1>5, <1>6, <1>7 DEF b

\* What the code finds out about the parameters in force.
LEMMA WorksNow ==
    ASSUME Typed, nverts = GoodSize(Mult2s[m])
    PROVE  Works(seed1, seed2, m) <=> /\ \A e \in Edge : NewE[e].left # NewE[e].right
                                      /\ ~HasCycle(NewE)
  BY DEF Works, NewE

LEMMA RetrySearched ==
    ASSUME Searched, Retry, ~Works(seed1, seed2, m)
    PROVE  SearchOK'
<1>1. /\ seed1 \in 0 .. SeedLimit - 1 /\ seed2 \in 0 .. SeedLimit - 1
      /\ m \in 1 .. Len(Mult2s) /\ Len(Mult2s) \in Nat /\ SeedLimit \in Nat \ {0}
      /\ nedges \in Nat
  BY Sizes, MultAssumption DEF Searched, Tabled, Peeled
<1>2. keys' = keys /\ nedges' = nedges /\ pc' \in {"size", "failed"}
  BY DEF Retry, params, nedges
<1> DEFINE now == <<seed1, seed2, m>>
           Fails(p) == ~Works(p[1], p[2], p[3])
<1>3. \A p \in Params : Fails(p)' = Fails(p)
  BY <1>2, WorksFixed
<1>4. \A p \in Params : Before(p, now) \/ p = now => Fails(p)
  BY DEF Searched, SearchOK
<1>5. ASSUME NEW p \in Params
      PROVE  /\ p = <<p[1], p[2], p[3]>>
             /\ p[1] \in 0 .. SeedLimit - 1 /\ p[2] \in 0 .. SeedLimit - 1
             /\ p[3] \in 1 .. Len(Mult2s)
  BY DEF Params
<1>6. CASE NextParams /\ pc' = "size" /\ nverts' = 2 * nedges + 1
  <2>1. ASSUME NEW p \in Params, Before(p, now') PROVE Fails(p)
    <3>1. Before(p, now) \/ p = now
      BY <1>1, <1>5, <1>6, <2>1 DEF Before, NextParams
    <3> QED
      BY <3>1, <1>4
  <2>2. 2 * nedges' + 1 .. nverts' - 1 = {}
    BY <1>1, <1>2, <1>6
  <2> HIDE DEF Fails
  <2>3. \A p \in Params : Before(p, now') => Fails(p)'
    BY <2>1, <1>3
  <2> QED
    BY <2>2, <2>3, <1>6 DEF SearchOK, Built, Assigned, Fails
<1>7. CASE Exhausted /\ pc' = "failed" /\ UNCHANGED <<params, nverts>>
  <2>1. ASSUME NEW p \in Params PROVE Fails(p)
    <3>1. Before(p, now) \/ p = now
      BY <1>1, <1>5, <1>7 DEF Before, Exhausted
    <3> QED
      BY <3>1, <1>4
  <2> HIDE DEF Fails
  <2>2. \A p \in Params : Fails(p)'
    BY <2>1, <1>3
  <2> QED
    BY <2>2, <1>7 DEF SearchOK, Built, Assigned, Fails
<1> QED
  BY <1>6, <1>7 DEF Retry
\* Steps that keep the parameters.
LEMMA SearchKept ==
    ASSUME Searched, UNCHANGED params,
           pc' = "size" =>
              \A t \in 2 * nedges + 1 .. nverts' - 1 : BadSize(t, Mult2s[m]),
           Built' => nverts' = GoodSize(Mult2s[m]),
           Assigned' => Works(seed1, seed2, m),
           pc' = "failed" => pc = "failed"
    PROVE  SearchOK'
<1>1. /\ keys' = keys /\ seed1' = seed1 /\ seed2' = seed2 /\ m' = m /\ nedges' = nedges
      /\ \A s : BadSize(s, Mult2s[m])' = BadSize(s, Mult2s[m])
      /\ GoodSize(Mult2s[m])' = GoodSize(Mult2s[m])
  BY DEF params, nedges, BadSize, GoodSize
<1>2. /\ \A p \in Params : Works(p[1], p[2], p[3])' = Works(p[1], p[2], p[3])
      /\ Works(seed1, seed2, m)' = Works(seed1, seed2, m)
  <2>1. Works(seed1, seed2, m)' = Works(seed1, seed2, m)
    BY <1>1 DEF Works, GoodSize, nedges, Edge
  <2> QED
    BY <2>1, <1>1, WorksFixed
<1>3. /\ \A p \in Params : Before(p, <<seed1, seed2, m>>) => ~Works(p[1], p[2], p[3])
      /\ pc = "failed" => \A p \in Params : ~Works(p[1], p[2], p[3])
  BY DEF Searched, SearchOK
<1>4. pc' = "size" =>
        \A t \in 2 * nedges' + 1 .. nverts' - 1 : BadSize(t, Mult2s[m])'
  BY <1>1
<1>5. Built' => nverts' = GoodSize(Mult2s[m])'
  BY <1>1
<1> QED
  BY <1>1, <1>2, <1>3, <1>4, <1>5 DEF SearchOK

LEMMA BumpSizeSearched == Searched /\ BumpSize => SearchOK'
<1> SUFFICES ASSUME Searched, BumpSize PROVE SearchOK'
  OBVIOUS
<1>1. /\ UNCHANGED params /\ pc = "size" /\ pc' = "size" /\ nverts' = nverts + 1
      /\ BadSize(nverts, Mult2s[m])
      /\ \A t \in 2 * nedges + 1 .. nverts - 1 : BadSize(t, Mult2s[m])
  BY DEF BumpSize, Searched, SearchOK
<1>2. nverts \in Nat /\ nedges \in Nat
  BY Sizes DEF Searched, Tabled, Peeled
<1>3. ASSUME NEW t \in 2 * nedges + 1 .. nverts' - 1 PROVE BadSize(t, Mult2s[m])
  <2>1. t = nverts \/ t \in 2 * nedges + 1 .. nverts - 1
    BY <1>1, <1>2
  <2> QED
    BY <2>1, <1>1
<1> QED
  BY <1>1, <1>3, SearchKept DEF Built, Assigned

LEMMA SelfLoopSearched == Searched /\ SelfLoop => SearchOK'
<1> SUFFICES ASSUME Searched, SelfLoop PROVE SearchOK'
  OBVIOUS
<1>1. Typed /\ nverts = GoodSize(Mult2s[m])
  BY LoopFindsGoodSize DEF Searched, Tabled, Peeled, SearchOK, SelfLoop
<1> QED
  BY <1>1, WorksNow, RetrySearched DEF SelfLoop

LEMMA BuildGraphSearched == Searched /\ BuildGraph => SearchOK'
<1> SUFFICES ASSUME Searched, BuildGraph PROVE SearchOK'
  OBVIOUS
<1>1. nverts = GoodSize(Mult2s[m])
  BY LoopFindsGoodSize DEF Searched, Tabled, Peeled, SearchOK, BuildGraph
<1>2. UNCHANGED params /\ nverts' = nverts /\ pc' = "peel"
  BY DEF BuildGraph
<1> QED
  BY <1>1, <1>2, SearchKept DEF Assigned

\* The verdict of the peeling is the one of the reference definition.
LEMMA PeelEndedWorks ==
    ASSUME Searched, PeelEnded
    PROVE  Works(seed1, seed2, m) <=> Len(order) = nedges
<1>1. Peeled /\ Typed /\ Built /\ nverts = GoodSize(Mult2s[m])
  BY DEF Searched, Tabled, Peeled, SearchOK, PeelEnded, Built
<1>2. E = NewE /\ \A e \in Edge : NewE[e].left # NewE[e].right
  BY <1>1 DEF Typed, GraphOK
<1>3. ~HasCycle(E) <=> Len(order) = nedges
  BY <1>1, OrderCount, GoneAcyclic, LeftCyclic
<1> QED
  BY <1>1, <1>2, <1>3, WorksNow

LEMMA StepSearched == Searched /\ [Next]_vars => Searched'
<1> SUFFICES ASSUME Searched, [Next]_vars PROVE Searched'
  OBVIOUS
<1>0. Tabled' /\ SearchOK
  BY StepTabled DEF Searched
<1> SUFFICES SearchOK'
  BY <1>0 DEF Searched
<1>1. CASE BumpSize   BY <1>1, BumpSizeSearched
<1>2. CASE SelfLoop   BY <1>2, SelfLoopSearched
<1>3. CASE BuildGraph BY <1>3, BuildGraphSearched
<1>4. CASE Cyclic
  BY <1>4, PeelEndedWorks, RetrySearched DEF Cyclic
<1>5. CASE Acyclic
  <2>1. Works(seed1, seed2, m) /\ nverts = GoodSize(Mult2s[m])
    BY <1>0, <1>5, PeelEndedWorks DEF SearchOK, Acyclic, PeelEnded, Built
  <2>2. UNCHANGED params /\ nverts' = nverts /\ pc' = "assign"
    BY <1>5 DEF Acyclic, graph
  <2> QED
    BY <2>1, <2>2, SearchKept
<1>6. CASE RemoveEdge \/ NextStart
  <2>1. /\ UNCHANGED params /\ nverts' = nverts /\ pc = "peel" /\ pc' = "peel"
    BY <1>6 DEF RemoveEdge, NextStart, graph
  <2> QED
    BY <2>1, <1>0, SearchKept DEF SearchOK, Built, Assigned
<1>7. CASE Assign \/ ChooseWidth \/ TooWide
  <2>1. /\ UNCHANGED params /\ nverts' = nverts /\ pc = "assign"
        /\ pc' \in {"assign", "oops", "done", "wide"}
    BY <1>7 DEF Assign, ChooseWidth, TooWide, graph
  <2> QED
    BY <2>1, <1>0, SearchKept DEF SearchOK, Built, Assigned
<1>8. CASE UNCHANGED vars
  <2>1. UNCHANGED params /\ nverts' = nverts /\ pc' = pc
    BY <1>8 DEF vars, graph
  <2> QED
    BY <2>1, <1>0, SearchKept DEF SearchOK, Built, Assigned
<1> QED
  BY <1>1, <1>2, <1>3, <1>4, <1>5, <1>6, <1>7, <1>8 DEF Next, Terminating

LEMMA InitSearched == Init => Searched
<1> SUFFICES ASSUME Init PROVE Searched
  OBVIOUS
<1>1. Tabled /\ nedges \in Nat /\ Len(Mult2s) \in Nat /\ SeedLimit \in Nat
  BY InitTabled, Sizes, MultAssumption DEF Tabled, Peeled
<1>2. /\ seed1 = 0 /\ seed2 = 0 /\ m = 1 /\ nverts = 2 * nedges + 1 /\ pc = "size"
  BY DEF Init, nedges
<1>3. 2 * nedges + 1 .. nverts - 1 = {}
  BY <1>1, <1>2
<1>4. ASSUME NEW p \in Params PROVE ~Before(p, <<seed1, seed2, m>>)
  <2>1. p[1] >= 0 /\ p[2] >= 0 /\ p[3] >= 1 /\ p[1] \in Int /\ p[2] \in Int /\ p[3] \in Int
    BY <1>1 DEF Params
  <2> QED
    BY <2>1, <1>2 DEF Before
<1>5. SearchOK
  BY <1>2, <1>3, <1>4 DEF SearchOK, Built, Assigned
<1> QED
  BY <1>1, <1>5 DEF Searched

(***************************************************************************)
(* The search ends with the first parameters, in the order of the loops,   *)
(* whose graph has neither loops nor cycles, and gives up only if there    *)
(* are none.                                                               *)
(***************************************************************************)
THEOREM SearchIsComplete == Spec => []FirstWorking
<1>1. Searched => FirstWorking
  BY DEF Searched, SearchOK, FirstWorking, Assigned
<1> QED
  BY InitSearched, StepSearched, <1>1, PTL DEF Spec
-----------------------------------------------------------------------------
(***************************************************************************)
(* The hashes of the code.  Keys are integers or lists of bytes, and the   *)
(* hash is that of _calc_hash; integers are so small that seed * mult + key *)
(* does not wrap around.                                                   *)
(***************************************************************************)
Coded == Key \cup {WordKey(w) : w \in Words}

CodeHash ==
    \A k \in Coded :
        /\ k.kind = "word" => k.code \in Seq(Nat)
        /\ k.kind = "int" => k.code[1] \in Nat
        /\ \A mult \in Mults, seed \in 0 .. SeedLimit - 1 :
            /\ k.kind = "word" => CalcHash(k, mult, seed) = FoldedHash(k.code, mult, seed)
            /\ k.kind = "int" => CalcHash(k, mult, seed) = IntHash(k.code[1], mult, seed)

NoWrap ==
    \A k \in Key, mult \in Mults, seed \in 0 .. SeedLimit - 1 :
        k.kind = "int" => seed * mult + k.code[1] < HashModulus

\* Bytes that are the same letter in some case are folded to one.
LEMMA FoldSame ==
    ASSUME NEW c \in Letter, NEW b \in Letter, c \in {b + 32, b - 32}
    PROVE  FoldCase(c) = FoldCase(b)
<1>1. \A x \in 65 .. 90 : FoldCase(x) = x + 32
  BY DEF FoldCase
<1>2. \A x \in 97 .. 122 : FoldCase(x) = x
  BY DEF FoldCase
<1> QED
  BY <1>1, <1>2 DEF Letter

\* Spellings of one string have one hash: the rounds of the loop are the same.
LEMMA FoldedSame ==
    ASSUME NEW s \in Seq(Nat), NEW t \in Seq(Nat), SameFolded(s, t), NEW mult, NEW seed
    PROVE  FoldedHash(s, mult, seed) = FoldedHash(t, mult, seed)
<1> DEFINE Loop(f, k) == [n \in 0 .. Len(k) |->
               IF n = 0 THEN seed ELSE (f[n - 1] * mult + FoldCase(k[n])) % HashModulus]
<1>1. Len(s) = Len(t)
  BY DEF SameFolded
<1>2. \A n \in 1 .. Len(s) : FoldCase(s[n]) = FoldCase(t[n])
  BY FoldSame DEF SameFolded
<1>3. \A f : Loop(f, s) = Loop(f, t)
  <2> SUFFICES ASSUME NEW f PROVE Loop(f, s) = Loop(f, t)
    OBVIOUS
  <2>1. \A n \in 0 .. Len(s) : n # 0 => n \in 1 .. Len(s)
    OBVIOUS
  <2> QED
    BY <1>1, <1>2, <2>1
<1>4. (CHOOSE f : f = Loop(f, s)) = (CHOOSE f : f = Loop(f, t))
  <2> HIDE DEF Loop
  <2> QED
    BY <1>3
<1> QED
  BY <1>1, <1>4 DEF FoldedHash

\* The keys and the parameters in force.
LEMMA InForce ==
    ASSUME Typed
    PROVE  /\ \A i \in 1 .. nedges : keys[i] \in Key
           /\ nverts \in Nat \ {0} /\ SeedLimit \in Nat
           /\ seed1 \in 0 .. SeedLimit - 1 /\ seed2 \in 0 .. SeedLimit - 1
           /\ Mult1 \in Mults /\ Mult2s[m] \in Mults /\ Mults \subseteq Nat
<1>1. keys \in Seq(Key)
  BY DEF Typed
<1>2. \A i \in 1 .. nedges : keys[i] \in Key
  BY <1>1 DEF nedges
<1>3. Mults \subseteq Nat
  BY MultsType, MultAssumption DEF Mults
<1> QED
  BY <1>2, <1>3, Sizes, MultsType, MultAssumption

\* Numbers with one remainder keep that in common when the same is added.
LEMMA SumMod ==
    ASSUME NEW a \in Nat, NEW b \in Nat, NEW c \in Nat, NEW n \in Nat \ {0}, a % n = b % n
    PROVE  (c + a) % n = (c + b) % n
<1> DEFINE p == a \div n
           q == b \div n
           u == (c + b) \div n
           r == (c + b) % n
<1>1. /\ p \in Int /\ q \in Int /\ a = n * p + (a % n) /\ b = n * q + (b % n)
      /\ a % n \in Int
  OBVIOUS
<1>2. u \in Int /\ r \in 0 .. n - 1 /\ c + b = n * u + r
  OBVIOUS
<1> HIDE DEF p, q, u, r
<1>3. c + a = n * (u + p - q) + r
  BY <1>1, <1>2
<1>4. (c + a) % n = r
  <2> DEFINE x == c + a
             y == u + p - q
  <2>1. x \in Nat /\ y \in Int /\ x = n * y + r
    BY <1>1, <1>2, <1>3
  <2> HIDE DEF x, y
  <2>2. x % n = r
    BY <2>1, <1>2, ModUnique
  <2> QED
    BY <2>2 DEF x
<1> QED
  BY <1>4 DEF r

\* Keys with one edge are looked up in the same place.
LEMMA WordsLookUpAlike ==
    ASSUME CodeHash, Typed, NEW k \in Coded, NEW l \in Coded, k.kind = "word", l.kind = "word",
           SameFolded(k.code, l.code)
    PROVE  Lookup(k) = Lookup(l)
<1>1. \A mult \in Mults, seed \in 0 .. SeedLimit - 1 :
          CalcHash(k, mult, seed) = CalcHash(l, mult, seed)
  BY FoldedSame DEF CodeHash
<1> QED
  BY <1>1, InForce DEF Lookup, EdgeOf

LEMMA IntsLookUpAlike ==
    ASSUME CodeHash, NoWrap, Typed, NEW k \in Key, NEW l \in Key, k.kind = "int", l.kind = "int",
           k.code[1] % nverts = l.code[1] % nverts
    PROVE  Lookup(k) = Lookup(l)
<1>1. nverts \in Nat \ {0} /\ seed1 \in 0 .. SeedLimit - 1 /\ seed2 \in 0 .. SeedLimit - 1
      /\ Mult2s[m] \in Mults /\ Mult1 \in Mults /\ Mults \subseteq Nat /\ SeedLimit \in Nat
  BY InForce
<1>2. k.code[1] \in Nat /\ l.code[1] \in Nat
  BY DEF CodeHash, Coded
<1>3. ASSUME NEW mult \in Mults, NEW seed \in 0 .. SeedLimit - 1
      PROVE  CalcHash(k, mult, seed) % nverts = CalcHash(l, mult, seed) % nverts
  <2> DEFINE c == seed * mult
  <2>1. c \in Nat
    BY <1>1
  <2>2. c + k.code[1] < HashModulus /\ c + l.code[1] < HashModulus
    BY DEF NoWrap
  <2>3. /\ CalcHash(k, mult, seed) = (c + k.code[1]) % HashModulus
        /\ CalcHash(l, mult, seed) = (c + l.code[1]) % HashModulus
    BY DEF CodeHash, Coded, IntHash
  <2> HIDE DEF c
  <2>4. /\ CalcHash(k, mult, seed) = c + k.code[1]
        /\ CalcHash(l, mult, seed) = c + l.code[1]
    BY <1>2, <2>1, <2>2, <2>3, ModulusAssumption
  <2>5. \A a, b \in Nat : a % nverts = b % nverts => (c + a) % nverts = (c + b) % nverts
    <3> SUFFICES ASSUME NEW a \in Nat, NEW b \in Nat, a % nverts = b % nverts
                 PROVE  (c + a) % nverts = (c + b) % nverts
      OBVIOUS
    <3>1. nverts \in Nat \ {0}
      BY <1>1
    <3> QED
      BY <2>1, <3>1, SumMod, Zenon
  <2> QED
    BY <1>2, <2>4, <2>5
<1> QED
  BY <1>1, <1>3 DEF Lookup, EdgeOf

(***************************************************************************)
(* case_fold: every spelling of a key finds its index.                     *)
(***************************************************************************)
THEOREM CaseIsFolded == ASSUME CodeHash PROVE Spec => []CaseInsensitive
<1>1. Tabled => CaseInsensitive
  <2> SUFFICES ASSUME Tabled, pc = "done", NEW i \in 1 .. nedges, NEW w \in Words,
                      keys[i].kind = "word", SameFolded(keys[i].code, w)
               PROVE  Lookup(WordKey(w)) = i - 1
    BY DEF CaseInsensitive
  <2>1. keys[i] \in Coded /\ Typed /\ Lookup(keys[i]) = i - 1
    BY TableIsPerfect, InForce DEF Perfect, Coded, Tabled, Peeled
  <2>2. WordKey(w) \in Coded /\ WordKey(w).kind = "word" /\ WordKey(w).code = w
    BY DEF Coded, WordKey
  <2> QED
    BY <2>1, <2>2, WordsLookUpAlike
<1> QED
  BY <1>1, InitTabled, StepTabled, PTL DEF Spec

(***************************************************************************)
(* Keys that no parameters tell apart get no table.                        *)
(***************************************************************************)
THEOREM TwinsGetNoTable == ASSUME CodeHash, NoWrap PROVE Spec => []TwinsRefused
<1>1. Tabled => TwinsRefused
  <2> SUFFICES ASSUME Tabled, pc = "done", NEW i \in 1 .. nedges, NEW j \in 1 .. nedges, i # j
               PROVE  /\ keys[i].kind = "word" /\ keys[j].kind = "word" =>
                            ~SameFolded(keys[i].code, keys[j].code)
                      /\ keys[i].kind = "int" /\ keys[j].kind = "int" =>
                            keys[i].code[1] % nverts # keys[j].code[1] % nverts
    BY DEF TwinsRefused
  <2>1. keys[i] \in Key /\ keys[j] \in Key /\ i \in Int /\ j \in Int /\ Typed
    BY InForce DEF Tabled, Peeled
  <2>2. Lookup(keys[i]) # Lookup(keys[j])
    BY <2>1, TableIsPerfect DEF Perfect
  <2> QED
    BY <2>1, <2>2, WordsLookUpAlike, IntsLookUpAlike DEF Coded
<1> QED
  BY <1>1, InitTabled, StepTabled, PTL DEF Spec
==============================================================================
