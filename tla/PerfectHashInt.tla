--------------------------- MODULE PerfectHashInt ---------------------------
(***************************************************************************)
(* lib/Perfect/PerfectHashInt.pm: the Czech-Havas-Majewski construction of *)
(* a minimal perfect hash.  generate_hash_function walks over the hash     *)
(* parameters (seed1, seed2, mult2) in a fixed order; for each of them     *)
(* _construct_hash_table builds a graph with one edge per key, peels it    *)
(* edge by edge, and when the graph was acyclic gives every vertex a value *)
(* such that the values at the two ends of edge e add up to e.             *)
(*                                                                         *)
(* The model is sequential, as the code is: one action per loop iteration. *)
(***************************************************************************)
EXTENDS Integers, Sequences, FiniteSets

CONSTANTS
    Key,                \* the keys a caller may pass
    KeySeqs,            \* the key lists generate_hash_function is called with
    CalcHash(_, _, _),  \* _calc_hash(key, mult, seed): IntHash, StringHash or FoldedHash below
    HashModulus,        \* 4294967296 in the code; smaller where TLC needs it
    Words,              \* strings that a function made with case_fold is given
    Mult1,              \* $hash_mult1, 257
    Mult2s,             \* the list of $hash_mult2, <<17, 31, 127, 8191>>
    SeedLimit,          \* both seeds run over 0 .. SeedLimit-1, 10
    Widths              \* the element types, narrowest first

ASSUME KeyAssumption == KeySeqs \subseteq Seq(Key)

Mults == {Mult1} \cup {Mult2s[i] : i \in 1 .. Len(Mult2s)}

ASSUME HashAssumption ==
    \A k \in Key, mult \in Mults, seed \in 0 .. SeedLimit - 1 :
        CalcHash(k, mult, seed) \in Nat

ASSUME ModulusAssumption == HashModulus \in Nat \ {0}

\* A multiplier of 0 or 1 would make the size adjustment fail or never end.
ASSUME MultAssumption ==
    /\ Mult1 \in Nat \ {0, 1}
    /\ Mult2s \in Seq(Nat \ {0, 1})
    /\ Len(Mult2s) > 0
    /\ SeedLimit \in Nat \ {0}

ASSUME WidthAssumption ==
    Widths \in Seq([type : STRING, lim : Nat, flag : Nat])

VARIABLES
    keys,       \* @keys
    seed1,      \* $hash_seed1
    seed2,      \* $hash_seed2
    m,          \* position of $hash_mult2 in Mult2s
    nverts,     \* $nverts
    E,          \* @E, a function from edge numbers to [left, right]
    V,          \* @V, a function from vertices to their sets of edges
    startv,     \* $startv
    v,          \* $v of the inner loop
    order,      \* @output_order
    hashtab,    \* @hashtab
    visited,    \* the vertices with $visited set
    next,       \* position of the assignment loop in order
    elemtype,   \* $elemtype
    pc          \* what the code does next

params == <<keys, seed1, seed2, m>>
graph  == <<nverts, E>>
peel   == <<V, startv, v, order>>
table  == <<hashtab, visited, next, elemtype>>
vars   == <<params, graph, peel, table, pc>>

nedges == Len(keys)
Edge   == 0 .. nedges - 1
Vertex == 0 .. nverts - 1

Ends(e) == {E[e].left, E[e].right}

\* The mapping from a key to an edge, for given parameters and table size.
EdgeOf(k, s1, s2, mult2, size) ==
    [left  |-> CalcHash(k, Mult1, s1) % size,
     right |-> CalcHash(k, mult2, s2) % size]

-----------------------------------------------------------------------------
(* _calc_hash, for integer keys (naturals) and for string keys (sequences  *)
(* of bytes) with case_fold and without; the generated C function computes *)
(* the same in its unsigned a and b.                                       *)

(* A key with what _calc_hash knows of it: $int_keys, $case_fold or neither. *)
IntKey(n) == [kind |-> "int", code |-> <<n>>]
WordKey(w) == [kind |-> "word", code |-> w]
TextKey(w) == [kind |-> "text", code |-> w]

IntHash(key, mult, seed) == (seed * mult + key) % HashModulus

\* Mutant of FoldCase: the case is kept.
FoldCase_None(c) == c

\* $cn |= 0x20
FoldCase(c) == IF (c \div 32) % 2 = 0 THEN c + 32 ELSE c

\* for my $c (split //, $key), without case_fold and with it.
StringHash(key, mult, seed) ==
    LET result[n \in 0 .. Len(key)] ==
            IF n = 0 THEN seed ELSE (result[n - 1] * mult + key[n]) % HashModulus
    IN  result[Len(key)]

FoldedHash(key, mult, seed) ==
    LET result[n \in 0 .. Len(key)] ==
            IF n = 0 THEN seed ELSE (result[n - 1] * mult + FoldCase(key[n])) % HashModulus
    IN  result[Len(key)]

-----------------------------------------------------------------------------
Init ==
    /\ keys \in KeySeqs
    /\ seed1 = 0 /\ seed2 = 0 /\ m = 1
    /\ nverts = 2 * Len(keys) + 1
    /\ E = << >> /\ V = << >> /\ startv = 0 /\ v = 0 /\ order = << >>
    /\ hashtab = << >> /\ visited = {} /\ next = 1 /\ elemtype = "none"
    /\ pc = "size"

\* Mutants of the next definition: the seeds run one too far, mult2 is not
\* reset with a new seed, seed1 is never advanced.
NextParams_PastLimit ==
    \/ m < Len(Mult2s) /\ m' = m + 1 /\ UNCHANGED <<seed1, seed2>>
    \/ m = Len(Mult2s) /\ seed2 < SeedLimit /\ m' = 1 /\ seed2' = seed2 + 1
       /\ UNCHANGED seed1

NextParams_KeepMult ==
    \/ m < Len(Mult2s) /\ m' = m + 1 /\ UNCHANGED <<seed1, seed2>>
    \/ m = Len(Mult2s) /\ seed2 + 1 < SeedLimit /\ seed2' = seed2 + 1
       /\ UNCHANGED <<m, seed1>>
    \/ m = Len(Mult2s) /\ seed2 + 1 = SeedLimit /\ seed1 + 1 < SeedLimit
       /\ seed2' = 0 /\ seed1' = seed1 + 1 /\ UNCHANGED m

NextParams_KeepSeed1 ==
    \/ m < Len(Mult2s) /\ m' = m + 1 /\ UNCHANGED <<seed1, seed2>>
    \/ m = Len(Mult2s) /\ seed2 + 1 < SeedLimit /\ m' = 1 /\ seed2' = seed2 + 1
       /\ UNCHANGED seed1
    \/ m = Len(Mult2s) /\ seed2 + 1 = SeedLimit /\ seed1 + 1 < SeedLimit
       /\ m' = 1 /\ seed2' = 0 /\ UNCHANGED seed1

(***************************************************************************)
(* _construct_hash_table returned (): the next parameters of the three     *)
(* nested loops, mult2 innermost, or "failed to generate perfect hash".    *)
(***************************************************************************)
NextParams ==
    \/ /\ m < Len(Mult2s)
       /\ m' = m + 1
       /\ UNCHANGED <<seed1, seed2>>
    \/ /\ m = Len(Mult2s) /\ seed2 + 1 < SeedLimit
       /\ m' = 1 /\ seed2' = seed2 + 1
       /\ UNCHANGED seed1
    \/ /\ m = Len(Mult2s) /\ seed2 + 1 = SeedLimit /\ seed1 + 1 < SeedLimit
       /\ m' = 1 /\ seed2' = 0 /\ seed1' = seed1 + 1

Exhausted == m = Len(Mult2s) /\ seed2 + 1 = SeedLimit /\ seed1 + 1 = SeedLimit

Retry ==
    \/ /\ NextParams
       /\ pc' = "size"
       /\ nverts' = 2 * nedges + 1
       /\ UNCHANGED keys
    \/ /\ Exhausted
       /\ pc' = "failed"
       /\ UNCHANGED <<params, nverts>>

\* while ($nverts % $hash_mult1 == 0 || $nverts % $hash_mult2 == 0)
BadSize(size, mult2) == size % Mult1 = 0 \/ size % mult2 = 0

BumpSize ==
    /\ pc = "size"
    /\ BadSize(nverts, Mult2s[m])
    /\ nverts' = nverts + 1
    /\ UNCHANGED <<params, E, peel, table, pc>>

NewE == [e \in Edge |-> EdgeOf(keys[e + 1], seed1, seed2, Mult2s[m], nverts)]

\* A key whose two hashes agree: this edge would itself be a cycle.
SelfLoop ==
    /\ pc = "size"
    /\ ~BadSize(nverts, Mult2s[m])
    /\ \E e \in Edge : NewE[e].left = NewE[e].right
    /\ Retry
    /\ UNCHANGED <<E, peel, table>>

\* The arrays @E and @V, and the start of the peeling loop.
BuildGraph ==
    /\ pc = "size"
    /\ ~BadSize(nverts, Mult2s[m])
    /\ \A e \in Edge : NewE[e].left # NewE[e].right
    /\ E' = NewE
    /\ V' = [u \in Vertex |-> {e \in Edge : u \in {NewE[e].left, NewE[e].right}}]
    /\ startv' = 0 /\ v' = 0 /\ order' = << >>
    /\ pc' = "peel"
    /\ UNCHANGED <<params, nverts, table>>

OtherEnd(e, u) == IF E[e].left = u THEN E[e].right ELSE E[e].left

\* Mutants of RemoveEdge: push instead of unshift; the other end not followed.
RemoveEdge_Push ==
    /\ pc = "peel" /\ startv < nverts
    /\ \E e \in V[v] :
        /\ V[v] = {e}
        /\ V' = [V EXCEPT ![v] = @ \ {e}, ![OtherEnd(e, v)] = @ \ {e}]
        /\ order' = order \o <<e>>
        /\ v' = OtherEnd(e, v)
    /\ UNCHANGED <<params, graph, startv, table, pc>>

RemoveEdge_NoFollow ==
    /\ pc = "peel" /\ startv < nverts
    /\ \E e \in V[v] :
        /\ V[v] = {e}
        /\ V' = [V EXCEPT ![v] = @ \ {e}, ![OtherEnd(e, v)] = @ \ {e}]
        /\ order' = <<e>> \o order
    /\ UNCHANGED <<params, graph, startv, v, table, pc>>

\* One iteration of the inner loop: v has degree 1, so its edge goes.
RemoveEdge ==
    /\ pc = "peel" /\ startv < nverts
    /\ \E e \in V[v] :
        /\ V[v] = {e}
        /\ V' = [V EXCEPT ![v] = @ \ {e}, ![OtherEnd(e, v)] = @ \ {e}]
        /\ order' = <<e>> \o order
        /\ v' = OtherEnd(e, v)
    /\ UNCHANGED <<params, graph, startv, table, pc>>

\* The inner loop ends at a vertex of degree 0, 2 or more.
NextStart ==
    /\ pc = "peel" /\ startv < nverts
    /\ \A e \in V[v] : V[v] # {e}
    /\ startv' = startv + 1
    /\ v' = startv + 1
    /\ UNCHANGED <<params, graph, V, order, table, pc>>

PeelEnded == pc = "peel" /\ startv = nverts

Cyclic ==
    /\ PeelEnded
    /\ Len(order) # nedges
    /\ Retry
    /\ UNCHANGED <<E, peel, table>>

Acyclic ==
    /\ PeelEnded
    /\ Len(order) = nedges
    /\ hashtab' = [u \in Vertex |-> 0]
    /\ visited' = {}
    /\ next' = 1
    /\ pc' = "assign"
    /\ UNCHANGED <<params, graph, peel, elemtype>>

-----------------------------------------------------------------------------
\* foreach my $e (@output_order): the left end first, else the right one.
Assign ==
    /\ pc = "assign" /\ next <= Len(order)
    /\ LET e == order[next]
           l == E[e].left
           r == E[e].right
       IN  /\ \/ /\ l \notin visited
                 /\ hashtab' = [hashtab EXCEPT ![l] = e - hashtab[r]]
                 /\ pc' = pc
              \/ /\ l \in visited
                 /\ hashtab' = [hashtab EXCEPT ![r] = e - hashtab[l]]
                 \* die "oops, doubly used hashtab entry"
                 /\ pc' = IF r \in visited THEN "oops" ELSE pc
           /\ visited' = visited \cup {l, r}
    /\ next' = next + 1
    /\ UNCHANGED <<params, graph, peel, elemtype>>

\* Mutant of Fits: no room for the unused flag is asked for.
Fits_NoFlag(w) ==
    \A u \in Vertex : -w.lim <= hashtab[u] /\ hashtab[u] <= w.lim

(***************************************************************************)
(* $hmin and $hmax are the extremes of hashtab, so the three tests on them *)
(* are tests on every entry.  The tests of int8, int16 and int32 differ    *)
(* only in their limits.                                                   *)
(***************************************************************************)
Fits(w) ==
    \A u \in Vertex : /\ -w.lim <= hashtab[u]
                      /\ hashtab[u] <= w.lim
                      /\ hashtab[u] + w.flag >= nedges

Narrowest(i) == Fits(Widths[i]) /\ \A j \in 1 .. i - 1 : ~Fits(Widths[j])

\* Mutant of ChooseWidth: an entry is taken for unused when it is 0.
ChooseWidth_ZeroUnused ==
    /\ pc = "assign" /\ next > Len(order)
    /\ \E i \in 1 .. Len(Widths) :
        /\ Narrowest(i)
        /\ elemtype' = Widths[i].type
        /\ hashtab' = [u \in Vertex |-> IF hashtab[u] # 0 THEN hashtab[u]
                                                          ELSE Widths[i].flag]
    /\ pc' = "done"
    /\ UNCHANGED <<params, graph, peel, visited, next>>

ChooseWidth ==
    /\ pc = "assign" /\ next > Len(order)
    /\ \E i \in 1 .. Len(Widths) :
        /\ Narrowest(i)
        /\ elemtype' = Widths[i].type
        /\ hashtab' = [u \in Vertex |-> IF u \in visited THEN hashtab[u]
                                                         ELSE Widths[i].flag]
    /\ pc' = "done"
    /\ UNCHANGED <<params, graph, peel, visited, next>>

\* die "hash table values too wide"
TooWide ==
    /\ pc = "assign" /\ next > Len(order)
    /\ \A i \in 1 .. Len(Widths) : ~Fits(Widths[i])
    /\ pc' = "wide"
    /\ UNCHANGED <<params, graph, peel, table>>

Terminated == pc \in {"done", "failed", "oops", "wide"}

\* The script has its result, or died.
Terminating == Terminated /\ UNCHANGED vars

Next ==
    \/ BumpSize \/ SelfLoop \/ BuildGraph
    \/ RemoveEdge \/ NextStart \/ Cyclic \/ Acyclic
    \/ Assign \/ ChooseWidth \/ TooWide
    \/ Terminating

Spec == Init /\ [][Next]_vars /\ WF_vars(Next)

-----------------------------------------------------------------------------
(***************************************************************************)
(* The generated C function: h[a % nhash] + h[b % nhash].                  *)
(***************************************************************************)
Lookup(k) ==
    LET edge == EdgeOf(k, seed1, seed2, Mult2s[m], nverts)
    IN  hashtab[edge.left] + hashtab[edge.right]

-----------------------------------------------------------------------------
(***************************************************************************)
(* Type correctness of all that changes (keys never does).                 *)
(***************************************************************************)
TypeOK ==
    /\ seed1 \in 0 .. SeedLimit - 1
    /\ seed2 \in 0 .. SeedLimit - 1
    /\ m \in 1 .. Len(Mult2s)
    /\ nverts \in Nat /\ nverts >= 2 * nedges + 1
    /\ startv \in Nat
    /\ next \in Nat \ {0}
    /\ elemtype \in {"none"} \cup {Widths[i].type : i \in 1 .. Len(Widths)}
    /\ pc \in {"size", "peel", "assign", "done", "failed", "oops", "wide"}
    /\ pc \in {"peel", "assign", "done", "oops", "wide"} =>
        /\ E \in [Edge -> [left : Vertex, right : Vertex]]
        /\ V \in [Vertex -> SUBSET Edge]
        /\ startv <= nverts
        /\ v \in 0 .. nverts
        /\ startv < nverts => v < nverts
        /\ order \in Seq(Edge)
    /\ pc \in {"assign", "done", "oops", "wide"} =>
        /\ hashtab \in [Vertex -> Int]
        /\ visited \subseteq Vertex

(***************************************************************************)
(* The generated function returns the index of every key it was made for   *)
(* ("it will return the key's index in the set", header of the file).      *)
(***************************************************************************)
Perfect == pc = "done" => \A i \in 1 .. nedges : Lookup(keys[i]) = i - 1

(***************************************************************************)
(* The die "oops, doubly used hashtab entry" is unreachable: peeling always *)
(* leaves an order in which each edge still has an unvisited end.          *)
(***************************************************************************)
NeverOops == pc # "oops"

(***************************************************************************)
(* A probe that touches an unused entry is rejected: "adding any other     *)
(* entry value to the flag gives an out-of-range result", also when both   *)
(* entries are unused.                                                     *)
(***************************************************************************)
UnusedRejected ==
    pc = "done" =>
        \A u \in Vertex \ visited, x \in Vertex :
            hashtab[u] + hashtab[x] >= nedges

-----------------------------------------------------------------------------
(***************************************************************************)
(* Reference definitions, independent of the peeling: a set of edges G     *)
(* contains a cycle iff some nonempty part of it leaves no edge with an    *)
(* end of its own.                                                         *)
(***************************************************************************)
EndsIn(G, e) == {G[e].left, G[e].right}

HasCycle(G) ==
    \E S \in SUBSET DOMAIN G :
        /\ S # {}
        /\ \A e \in S : \A u \in EndsIn(G, e) :
                \E f \in S \ {e} : u \in EndsIn(G, f)

GoodSize(mult2) ==
    LET low == 2 * nedges + 1       \* of four neighbours one is never bad
    IN  CHOOSE s \in low .. low + 3 :
            ~BadSize(s, mult2) /\ \A t \in low .. s - 1 : BadSize(t, mult2)

Works(s1, s2, i) ==
    LET size == GoodSize(Mult2s[i])
        G == [e \in Edge |-> EdgeOf(keys[e + 1], s1, s2, Mult2s[i], size)]
    IN  /\ \A e \in Edge : G[e].left # G[e].right
        /\ ~HasCycle(G)

Params == (0 .. SeedLimit - 1) \X (0 .. SeedLimit - 1) \X (1 .. Len(Mult2s))

Before(p, q) ==
    \/ p[1] < q[1]
    \/ p[1] = q[1] /\ p[2] < q[2]
    \/ p[1] = q[1] /\ p[2] = q[2] /\ p[3] < q[3]

(***************************************************************************)
(* When the outer loop of the peeling ends, all edges are gone iff the     *)
(* graph was acyclic: one pass over the start vertices, each followed to   *)
(* the other end, misses no edge.                                          *)
(***************************************************************************)
PeelExact == PeelEnded => (Len(order) = nedges <=> ~HasCycle(E))

(***************************************************************************)
(* The search is complete and reproducible: it ends with the first         *)
(* parameters, in the order of the loops, whose graph is acyclic, and      *)
(* gives up only if there are none.                                        *)
(***************************************************************************)
FirstWorking ==
    /\ pc \in {"done", "wide"} =>
        /\ Works(seed1, seed2, m)
        /\ \A p \in Params : Before(p, <<seed1, seed2, m>>) =>
                                ~Works(p[1], p[2], p[3])
    /\ pc = "failed" => \A p \in Params : ~Works(p[1], p[2], p[3])

(***************************************************************************)
(* Every call ends: the size adjustment, the peeling and the walk over the *)
(* parameters all stop.                                                    *)
(***************************************************************************)
Termination == <>Terminated

-----------------------------------------------------------------------------
Letter == (65 .. 90) \cup (97 .. 122)

SameFolded(s, t) ==
    /\ Len(s) = Len(t)
    /\ \A i \in DOMAIN s : \/ s[i] = t[i]
                           \/ /\ {s[i], t[i]} \subseteq Letter
                              /\ s[i] \in {t[i] + 32, t[i] - 32}

(***************************************************************************)
(* case_fold makes the generated function case-insensitive: any spelling   *)
(* of a key in upper and lower case finds the key's index                  *)
(* (PerfectHashInt.pm:176-181).                                            *)
(***************************************************************************)
CaseInsensitive ==
    pc = "done" => \A i \in 1 .. nedges, w \in Words :
        keys[i].kind = "word" /\ SameFolded(keys[i].code, w) => Lookup(WordKey(w)) = i - 1

(***************************************************************************)
(* Keys that the hash cannot tell apart never get a table, as it would     *)
(* have a wrong entry: strings that differ only in case, and integers      *)
(* congruent modulo the table size, whose edges are parallel for all       *)
(* parameters (PerfectHashInt.pm:98-111, 313-314).                         *)
(***************************************************************************)
TwinsRefused ==
    pc = "done" => \A i, j \in 1 .. nedges : i # j =>
        /\ keys[i].kind = "word" /\ keys[j].kind = "word" =>
                ~SameFolded(keys[i].code, keys[j].code)
        /\ keys[i].kind = "int" /\ keys[j].kind = "int" =>
                keys[i].code[1] % nverts # keys[j].code[1] % nverts

(***************************************************************************)
(* "They can be any set of Perl integers or strings; it is caller's        *)
(* responsibility that there not be any duplicates"                        *)
(* (PerfectHashInt.pm:55-57): generate_hash_function gives up only on a    *)
(* list in which a key is repeated.                                        *)
(***************************************************************************)
AnySetGetsTable ==
    pc = "failed" => \E i, j \in 1 .. nedges : i # j /\ keys[i] = keys[j]
=============================================================================
