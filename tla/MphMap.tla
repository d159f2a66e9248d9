------------------------------- MODULE MphMap --------------------------------
(***************************************************************************)
(* cmph-2.0/cxxmph/mph_map.h and hollow_iterator.h: the C++ maps.  The     *)
(* elements are in a vector with holes; those that the perfect hash        *)
(* function knows are at the place that it gives them, those inserted      *)
(* since the last pack at the end, and slack_ tells where.  An erased      *)
(* element leaves a hole, but its place stays in slack_.                   *)
(***************************************************************************)
EXTENDS Integers, Sequences, FiniteSets

CONSTANTS
    UserKey,      \* the keys that the callers use
    DefaultKey,   \* Key(), what is left of the key of an erased element
    Data,
    DefaultData,  \* data_type()
    Flavors,      \* of "unordered", "dense" and "sparse"
    hash128(_),   \* the hash of a key with seed 0, for slack_
    Reset(_, _),  \* the functions [n, id] that index_.Reset may make of a set of keys
    PackAbove,    \* 256: a full vector not longer than this is not packed
    NotFound      \* end()

ASSUME DataAssumption == DefaultData \in Data /\ NotFound \notin Data
ASSUME HashAssumption == \A k, l \in UserKey : hash128(k) = hash128(l) => k = l
ASSUME PackAssumption == PackAbove \in Nat

VARIABLES
    flavor,       \* the class template; never changes
    values,       \* the vector values_ of [key, data]; positions begin with 1
    present,      \* present_
    slack,        \* slack_: the position for each hash, 0 when it has none
    index,        \* index_: [n, id], size() and the position that index(k) gives
    size,         \* size_
    cap,          \* values_.capacity()
    result,       \* what the last call returned
    status        \* "ok"; "exited" after exit(-1); "undefined" after a read out of bounds

arrays == <<values, present, slack, index, cap>>
vars == <<flavor, values, present, slack, index, size, cap, result, status>>

Hashes == {hash128(k) : k \in UserKey}
NoSlack == [h \in Hashes |-> 0]
Value(k, d) == [key |-> k, data |-> d]
Hole == Value(DefaultKey, DefaultData)
KeysOf(vals, pres) == {vals[i].key : i \in {j \in DOMAIN vals : pres[j]}}
Keys == KeysOf(values, present)
Answer(op, k, a) == [call |-> op, key |-> k, answer |-> a]

\* A vector that grows by one element.
Grown(c, len) == IF len < c THEN c ELSE IF len = 0 THEN 1 ELSE 2 * len

-----------------------------------------------------------------------------
\* index(k): the place where k is if it is anywhere, or 0 (for -1).
InSlack(sl, k) == sl[hash128(k)] # 0
Beyond(vals, sl, ix, k) == ~ InSlack(sl, k) /\ ix.n # 0 /\ ix.id[k] > Len(vals)
Place(vals, pres, sl, ix, k) ==
    IF InSlack(sl, k) THEN sl[hash128(k)]
    ELSE IF ix.n # 0 /\ ix.id[k] <= Len(vals) /\ pres[ix.id[k]] THEN ix.id[k]
    ELSE 0

\* find(k): a place of values_ where k is, or 0 (for end()).
Find(vals, pres, sl, ix, k) ==
    LET p == Place(vals, pres, sl, ix, k)
    IN  IF p # 0 /\ vals[p].key = k THEN p ELSE 0

At(k) == Find(values, present, slack, index, k)

\* What pack() leaves with the function ix: the elements at their places.
Packed(vals, pres, ix) ==
    LET Of(p) == {i \in DOMAIN vals : pres[i] /\ ix.id[vals[i].key] = p}
    IN  [values |-> [p \in 1 .. ix.n |-> IF Of(p) = {} THEN Hole ELSE vals[CHOOSE i \in Of(p) : TRUE]],
         present |-> [p \in 1 .. ix.n |-> Of(p) # {}],
         slack |-> NoSlack, index |-> ix, cap |-> 2 * ix.n]

\* index_.clear() drops the rank table only: n stays, and every rank becomes 0.
Cleared(ix) == IF flavor = "sparse" THEN [ix EXCEPT !.id = [k \in UserKey |-> 1]] ELSE ix

\* The arrays that pack() may leave, none when it exits.
PackOutcomes(st) ==
    IF st.values = << >> THEN {st}
    ELSE IF KeysOf(st.values, st.present) = {} THEN {Packed(st.values, st.present, Cleared(st.index))}
    ELSE {Packed(st.values, st.present, ix) : ix \in Reset(flavor, KeysOf(st.values, st.present))}

-----------------------------------------------------------------------------
Arrays == [values |-> values, present |-> present, slack |-> slack, index |-> index, cap |-> cap]
SetArrays(st, capacity) ==
    /\ values' = st.values /\ present' = st.present /\ slack' = st.slack
    /\ index' = st.index /\ cap' = capacity

Init ==
    /\ flavor \in Flavors
    /\ values = << >> /\ present = << >> /\ slack = NoSlack
    /\ index = [n |-> 0, id |-> [k \in UserKey |-> 1]]
    /\ size = 0 /\ cap = 0
    /\ result = Answer("new", NotFound, NotFound) /\ status = "ok"

\* A read past the end of present_ takes an arbitrary bit: it may be as if the bit was
\* not set, or the program goes on with an element that does not exist.
Undefined(k) ==
    /\ status = "ok" /\ Beyond(values, slack, index, k)
    /\ status' = "undefined"
    /\ UNCHANGED <<flavor, arrays, size, result>>

\* exit(-1) in pack, with n elements.
Exits(n) == status' = "exited" /\ size' = n /\ UNCHANGED <<flavor, arrays, result>>

(* a mutant: a key that was erased and comes back is given a second place *)
ShouldPack_Full(k) == cap = Len(values) /\ Len(values) > PackAbove

\* The vector is full and long, or an erased element has left its place in slack_.
ShouldPack(k) == (cap = Len(values) /\ Len(values) > PackAbove) \/ InSlack(slack, k)

\* push_back, the entry in slack_ unless there is one for the hash, and pack.
PushOutcomes(k, d) ==
    LET h == hash128(k)
        pushed == [values |-> Append(values, Value(k, d)), present |-> Append(present, TRUE),
                   slack |-> IF InSlack(slack, k) THEN slack
                             ELSE [slack EXCEPT ![h] = Len(values) + 1],
                   index |-> index, cap |-> Grown(cap, Len(values))]
    IN  IF ShouldPack(k) THEN PackOutcomes(pushed) ELSE {pushed}

FoundIn(st, k) ==
    LET p == Find(st.values, st.present, st.slack, st.index, k)
    IN  IF p = 0 THEN NotFound ELSE st.values[p].data

\* insert of a key that find does not find; it is looked for again, for the iterator.
Push(k, d) ==
    \E outcomes \in {PushOutcomes(k, d)} :
        \/ outcomes = {} /\ Exits(size + 1)
        \/ \E st \in outcomes :
              /\ SetArrays(st, st.cap)
              /\ size' = size + 1
              /\ result' = Answer("insert", k, <<FoundIn(st, k), TRUE>>)
              /\ UNCHANGED <<flavor, status>>

\* insert; m[k] is the insert of k with data_type().
Insert(k, d) ==
    /\ status = "ok"
    /\ IF At(k) = 0 THEN Push(k, d)
       ELSE /\ result' = Answer("insert", k, <<values[At(k)].data, FALSE>>)
            /\ UNCHANGED <<flavor, arrays, size, status>>

\* An assignment through what find or the subscript returned.
Assign(k, d) ==
    /\ status = "ok" /\ At(k) # 0
    /\ values' = [values EXCEPT ![At(k)].data = d]
    /\ result' = Answer("=", NotFound, NotFound)
    /\ UNCHANGED <<flavor, present, slack, index, size, cap, status>>

FindKey(k) ==
    /\ status = "ok"
    /\ result' = Answer("find", k, FoundIn(Arrays, k))
    /\ UNCHANGED <<flavor, arrays, size, status>>

(* a mutant: the element stays below its hole *)
Erased_Keeps(p) == values

Erased(p) == [values EXCEPT ![p] = Hole]

\* erase(k), and erase of what find returned.
Erase(k) ==
    /\ status = "ok"
    /\ IF At(k) = 0 THEN UNCHANGED <<values, present, size>>
       ELSE /\ present' = [present EXCEPT ![At(k)] = FALSE]
            /\ values' = Erased(At(k))
            /\ size' = size - 1
    /\ result' = Answer("erase", NotFound, NotFound)
    /\ UNCHANGED <<flavor, slack, index, cap, status>>

Clear ==
    /\ status = "ok"
    /\ values' = << >> /\ present' = << >> /\ slack' = NoSlack
    /\ index' = Cleared(index) /\ size' = 0
    /\ result' = Answer("clear", NotFound, NotFound)
    /\ UNCHANGED <<flavor, cap, status>>

\* rehash(n): pack, and vectors of just the size.
Rehash ==
    /\ status = "ok"
    /\ \E outcomes \in {PackOutcomes(Arrays)} :
          \/ outcomes = {} /\ Exits(size)
          \/ \E st \in outcomes :
                /\ SetArrays(st, Len(st.values))
                /\ result' = Answer("rehash", NotFound, NotFound)
                /\ UNCHANGED <<flavor, size, status>>

\* size(), and the elements from begin() to end(), where holes are skipped.
Iterate ==
    /\ status = "ok"
    /\ result' = [call |-> "iterate", size |-> size,
                  elements |-> {values[i] : i \in {j \in DOMAIN values : present[j]}}]
    /\ UNCHANGED <<flavor, arrays, size, status>>

\* The process is over, or nothing more is known of it.
Stopped == status # "ok" /\ UNCHANGED vars

Next ==
    \/ \E k \in UserKey, d \in Data : Insert(k, d) \/ Assign(k, d)
    \/ \E k \in UserKey : FindKey(k) \/ Erase(k) \/ Undefined(k)
    \/ Clear \/ Rehash \/ Iterate \/ Stopped

Spec == Init /\ [][Next]_vars

-----------------------------------------------------------------------------
\* The map that the arrays stand for.
ContentOf(vals, pres) == [k \in UserKey |->
    IF k \in KeysOf(vals, pres)
    THEN vals[CHOOSE i \in DOMAIN vals : pres[i] /\ vals[i].key = k].data
    ELSE NotFound]
Content == ContentOf(values, present)

M == INSTANCE StdMap WITH Key <- UserKey, Absent <- NotFound, content <- Content

(* Refinement: until it exits or reads out of bounds, a map of mph_map.h    *)
(* answers every call as the map that it replaces: whatever packs, holes of *)
(* erased elements and stale entries of slack_ lie between two calls.       *)
ImplementsMap == M!Spec

\* An element is where slack_ or, only when slack_ says nothing of its hash, the index
\* tells; so that no key has two.  A hole keeps no key.
Reached(vals, sl, ix, i) ==
    LET k == vals[i].key
    IN  \/ sl[hash128(k)] = i
        \/ sl[hash128(k)] = 0 /\ ix.n # 0 /\ ix.id[k] = i

Sound(vals, pres, sl, ix) ==
    /\ vals \in Seq([key : UserKey \cup {DefaultKey}, data : Data])
    /\ pres \in Seq(BOOLEAN) /\ Len(pres) = Len(vals)
    /\ sl \in [Hashes -> 0 .. Len(vals)]
    /\ ix = [n |-> ix.n, id |-> ix.id] /\ ix.n \in Nat /\ ix.id \in [UserKey -> Nat \ {0}]
    /\ \A i \in 1 .. Len(vals) :
          IF pres[i] THEN vals[i].key \in UserKey /\ Reached(vals, sl, ix, i)
          ELSE vals[i].key = DefaultKey

(* What makes find right, for all that pack, erase and clear leave behind;  *)
(* and size_ counts the elements.                                           *)
MapInv ==
    /\ flavor \in Flavors
    /\ Sound(values, present, slack, index)
    /\ cap \in Nat /\ cap >= Len(values)
    /\ status \in {"ok", "exited", "undefined"}
    /\ status # "exited" => size = Cardinality(Keys)

\* Reset gives functions that are perfect on their keys: within the size, and no
\* position twice; other keys have positions too.
PerfectFunctions ==
    \A f \in Flavors : \A S \in (SUBSET UserKey) \ {{}} : \A ix \in Reset(f, S) :
        /\ ix = [n |-> ix.n, id |-> ix.id]
        /\ ix.n \in Nat \ {0} /\ ix.id \in [UserKey -> Nat \ {0}]
        /\ \A k \in S : ix.id[k] <= ix.n
        /\ \A k, l \in S : ix.id[k] = ix.id[l] => k = l
        /\ f = "sparse" => ix.n = Cardinality(S)

(* BDZ as mph_index.h builds it: whatever the keys and the seed, a function *)
(* that Reset reports as built is perfect on its keys (and as small as they *)
(* are many, for a sparse map).                                             *)
ResetPerfect == result.call = "new" => PerfectFunctions

(* A map never ends the process of its caller: the classes are a "drop-in   *)
(* replacement for the popular classes with the same names"                *)
(* (mph_map.h:9-10).                                                        *)
NeverExits == status # "exited"
=============================================================================
