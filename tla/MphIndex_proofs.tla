--------------------------- MODULE MphIndex_proofs ---------------------------
(***************************************************************************)
(* The maps of mph_map.h keep MapInv and implement StdMap, for every set   *)
(* of keys that does not have Key() in it, every perfect function that     *)
(* Reset may make and every order of the calls.  The functions of          *)
(* mph_index.h are perfect, for every set of keys and every seed, and the  *)
(* maps over them implement StdMap.  The three loops of the index are      *)
(* recursive functions in MphIndex; Rounds and RoundsKeep of Induction     *)
(* take them apart.                                                        *)
(***************************************************************************)
EXTENDS MphIndex, MphMap, Induction

Elem == [key : UserKey \cup {DefaultKey}, data : Data]

\* What the theorems assume: of Reset (the run checks it, for the functions of MphIndex)
\* and of the callers.
Trusted == PerfectFunctions /\ DefaultKey \notin UserKey /\ IsFiniteSet(UserKey)

LEMMA FunctionIsSeq ==
    ASSUME NEW S, NEW n \in Nat, NEW f \in [1 .. n -> S]
    PROVE  f \in Seq(S) /\ Len(f) = n
  OBVIOUS

LEMMA AppendAt ==
    ASSUME NEW S, NEW s \in Seq(S), NEW e \in S, NEW i \in 1 .. Len(s)
    PROVE  Append(s, e)[i] = s[i]
  OBVIOUS

\* The elements of sound arrays, one by one.
LEMMA SoundAt ==
    ASSUME NEW vals, NEW pres, NEW sl, NEW ix, Sound(vals, pres, sl, ix),
           NEW i \in 1 .. Len(vals)
    PROVE  /\ DOMAIN vals = 1 .. Len(vals) /\ Len(vals) \in Nat
           /\ vals[i] \in Elem /\ pres[i] \in BOOLEAN
           /\ vals[i] = Value(vals[i].key, vals[i].data)
           /\ pres[i] => vals[i].key \in UserKey /\ Reached(vals, sl, ix, i)
           /\ ~ pres[i] => vals[i].key = DefaultKey
<1>1. vals \in Seq(Elem) /\ pres \in Seq(BOOLEAN) /\ Len(pres) = Len(vals)
  BY DEF Sound, Elem
<1>2. DOMAIN vals = 1 .. Len(vals) /\ Len(vals) \in Nat /\ vals[i] \in Elem
  BY <1>1
<1>3. pres[i] \in BOOLEAN
  BY <1>1
<1>4. vals[i] = Value(vals[i].key, vals[i].data)
  BY <1>2 DEF Elem, Value
<1>. QED
  BY <1>2, <1>3, <1>4 DEF Sound

LEMMA SoundDomain ==
    ASSUME NEW vals, NEW pres, NEW sl, NEW ix, Sound(vals, pres, sl, ix)
    PROVE  DOMAIN vals = 1 .. Len(vals) /\ DOMAIN pres = 1 .. Len(vals) /\ Len(vals) \in Nat
  BY DEF Sound

\* An element can only be where Place says that its key is.
LEMMA OnlyPlace ==
    ASSUME NEW vals, NEW pres, NEW sl, NEW ix, Sound(vals, pres, sl, ix),
           NEW i \in 1 .. Len(vals), pres[i]
    PROVE  i = Place(vals, pres, sl, ix, vals[i].key)
<1>1. DOMAIN vals = 1 .. Len(vals) /\ Len(vals) \in Nat /\ Reached(vals, sl, ix, i)
  BY SoundAt
<1>. QED
  BY <1>1 DEF Reached, Place, InSlack

\* find finds an element of the key, if there is one.
LEMMA FindCorrect ==
    ASSUME NEW vals, NEW pres, NEW sl, NEW ix, Sound(vals, pres, sl, ix),
           DefaultKey \notin UserKey, NEW k \in UserKey
    PROVE  LET p == Find(vals, pres, sl, ix, k)
           IN  /\ p = 0 => k \notin KeysOf(vals, pres)
               /\ p # 0 => p \in 1 .. Len(vals) /\ pres[p] /\ vals[p].key = k
               /\ \A i \in 1 .. Len(vals) : pres[i] /\ vals[i].key = k => i = p
<1>. DEFINE p == Find(vals, pres, sl, ix, k)
            q == Place(vals, pres, sl, ix, k)
<1>1. \A i \in 1 .. Len(vals) : pres[i] /\ vals[i].key = k => i = q
  BY OnlyPlace
<1>2. \A i \in 1 .. Len(vals) : pres[i] /\ vals[i].key = k => i = p
  BY <1>1 DEF Find
<1>3. q \in 0 .. Len(vals)
  <2>1. hash128(k) \in Hashes
    BY DEF Hashes
  <2>2. sl[hash128(k)] \in 0 .. Len(vals) /\ ix.id[k] \in Nat \ {0} /\ Len(vals) \in Nat
    BY <2>1 DEF Sound
  <2>. QED
    BY <2>2 DEF Place, InSlack
<1>4. p # 0 => p \in 1 .. Len(vals) /\ pres[p] /\ vals[p].key = k
  <2>. SUFFICES ASSUME p # 0 PROVE p \in 1 .. Len(vals) /\ pres[p] /\ vals[p].key = k
    OBVIOUS
  <2>1. p = q /\ vals[p].key = k
    BY DEF Find
  <2>2. p \in 1 .. Len(vals)
    BY <2>1, <1>3
  <2>. QED
    BY <2>1, <2>2, SoundAt
<1>5. p = 0 => k \notin KeysOf(vals, pres)
  BY <1>2, SoundDomain DEF KeysOf
<1>. QED
  BY <1>2, <1>4, <1>5

\* Arrays in which no key has two elements, whether they can be found or not.
Plain(vals, pres) ==
    /\ vals \in Seq(Elem) /\ pres \in Seq(BOOLEAN) /\ Len(pres) = Len(vals)
    /\ \A i \in 1 .. Len(vals) : pres[i] => vals[i].key \in UserKey
    /\ \A i, j \in 1 .. Len(vals) : pres[i] /\ pres[j] /\ vals[i].key = vals[j].key => i = j

LEMMA SoundIsPlain ==
    ASSUME NEW vals, NEW pres, NEW sl, NEW ix, Sound(vals, pres, sl, ix)
    PROVE  Plain(vals, pres)
<1>1. \A i, j \in 1 .. Len(vals) : pres[i] /\ pres[j] /\ vals[i].key = vals[j].key => i = j
  BY OnlyPlace
<1>2. \A i \in 1 .. Len(vals) : pres[i] => vals[i].key \in UserKey
  BY SoundAt
<1>. QED
  BY <1>1, <1>2 DEF Sound, Plain, Elem

LEMMA PlainDomain ==
    ASSUME NEW vals, NEW pres, Plain(vals, pres)
    PROVE  /\ DOMAIN vals = 1 .. Len(vals) /\ DOMAIN pres = 1 .. Len(vals) /\ Len(vals) \in Nat
           /\ \A i \in 1 .. Len(vals) : vals[i] \in Elem /\ pres[i] \in BOOLEAN
  BY DEF Plain

\* The data of a key is that of its one element.
LEMMA ContentAt ==
    ASSUME NEW vals, NEW pres, Plain(vals, pres),
           NEW i \in 1 .. Len(vals), pres[i]
    PROVE  /\ vals[i].key \in UserKey
           /\ ContentOf(vals, pres)[vals[i].key] = vals[i].data
           /\ vals[i].data \in Data
<1>. DEFINE k == vals[i].key
            j == CHOOSE e \in DOMAIN vals : pres[e] /\ vals[e].key = k
<1>1. k \in UserKey /\ vals[i] \in Elem /\ DOMAIN vals = 1 .. Len(vals)
  BY PlainDomain DEF Plain
<1>2. k \in KeysOf(vals, pres)
  BY <1>1 DEF KeysOf
<1>3. j \in 1 .. Len(vals) /\ pres[j] /\ vals[j].key = k
  BY <1>1
<1>4. j = i
  BY <1>1, <1>3 DEF Plain
<1>5. ContentOf(vals, pres)[k] = vals[j].data
  BY <1>1, <1>2 DEF ContentOf
<1>. QED
  BY <1>1, <1>4, <1>5 DEF Elem

LEMMA KeysAreUser ==
    ASSUME NEW vals, NEW pres, Plain(vals, pres)
    PROVE  /\ KeysOf(vals, pres) \subseteq UserKey
           /\ \A k \in UserKey : k \in KeysOf(vals, pres)
                <=> \E i \in 1 .. Len(vals) : pres[i] /\ vals[i].key = k
  BY PlainDomain DEF KeysOf, Plain

\* Two arrays with the same elements are the same map.
LEMMA SameElements ==
    ASSUME NEW vals, NEW pres, Plain(vals, pres),
           NEW vals2, NEW pres2, Plain(vals2, pres2),
           \A i \in 1 .. Len(vals) : pres[i] =>
               \E j \in 1 .. Len(vals2) : pres2[j] /\ vals2[j] = vals[i],
           \A j \in 1 .. Len(vals2) : pres2[j] =>
               \E i \in 1 .. Len(vals) : pres[i] /\ vals[i] = vals2[j]
    PROVE  /\ KeysOf(vals2, pres2) = KeysOf(vals, pres)
           /\ ContentOf(vals2, pres2) = ContentOf(vals, pres)
<1>0. DOMAIN vals = 1 .. Len(vals) /\ DOMAIN vals2 = 1 .. Len(vals2)
  BY PlainDomain
<1>1. KeysOf(vals2, pres2) = KeysOf(vals, pres)
  <2>1. ASSUME NEW k \in KeysOf(vals, pres) PROVE k \in KeysOf(vals2, pres2)
    <3>1. PICK i \in 1 .. Len(vals) : pres[i] /\ vals[i].key = k
      BY <1>0 DEF KeysOf
    <3>2. PICK j \in 1 .. Len(vals2) : pres2[j] /\ vals2[j] = vals[i]
      BY <3>1
    <3>. QED
      BY <1>0, <3>1, <3>2 DEF KeysOf
  <2>2. ASSUME NEW k \in KeysOf(vals2, pres2) PROVE k \in KeysOf(vals, pres)
    <3>1. PICK j \in 1 .. Len(vals2) : pres2[j] /\ vals2[j].key = k
      BY <1>0 DEF KeysOf
    <3>2. PICK i \in 1 .. Len(vals) : pres[i] /\ vals[i] = vals2[j]
      BY <3>1
    <3>. QED
      BY <1>0, <3>1, <3>2 DEF KeysOf
  <2>. QED
    BY <2>1, <2>2
<1>2. ASSUME NEW k \in UserKey
      PROVE  ContentOf(vals2, pres2)[k] = ContentOf(vals, pres)[k]
  <2>1. CASE k \notin KeysOf(vals, pres)
    BY <1>1, <2>1 DEF ContentOf
  <2>2. CASE k \in KeysOf(vals, pres)
    <3>1. PICK i \in 1 .. Len(vals) : pres[i] /\ vals[i].key = k
      BY <2>2, PlainDomain DEF KeysOf
    <3>2. PICK j \in 1 .. Len(vals2) : pres2[j] /\ vals2[j] = vals[i]
      BY <3>1
    <3>3. ContentOf(vals, pres)[vals[i].key] = vals[i].data
      BY <3>1, ContentAt
    <3>4. ContentOf(vals2, pres2)[vals2[j].key] = vals2[j].data
      BY <3>2, ContentAt
    <3>. QED
      BY <3>1, <3>2, <3>3, <3>4
  <2>. QED
    BY <2>1, <2>2
<1>. QED
  BY <1>1, <1>2 DEF ContentOf

-----------------------------------------------------------------------------
\* pack() with a function that is perfect on the keys.
LEMMA PackedSound ==
    ASSUME NEW vals, NEW pres, Plain(vals, pres),
           NEW ix, ix = [n |-> ix.n, id |-> ix.id], ix.n \in Nat, ix.id \in [UserKey -> Nat \ {0}],
           \A k \in KeysOf(vals, pres) : ix.id[k] <= ix.n,
           \A k, l \in KeysOf(vals, pres) : ix.id[k] = ix.id[l] => k = l
    PROVE  LET p == Packed(vals, pres, ix)
           IN  /\ Sound(p.values, p.present, p.slack, p.index)
               /\ KeysOf(p.values, p.present) = KeysOf(vals, pres)
               /\ ContentOf(p.values, p.present) = ContentOf(vals, pres)
               /\ p.cap \in Nat /\ p.cap >= Len(p.values)
<1>. DEFINE p == Packed(vals, pres, ix)
            Of(e) == {i \in DOMAIN vals : pres[i] /\ ix.id[vals[i].key] = e}
            v2 == [e \in 1 .. ix.n |-> IF Of(e) = {} THEN Hole ELSE vals[CHOOSE i \in Of(e) : TRUE]]
            p2 == [e \in 1 .. ix.n |-> Of(e) # {}]
<1>1. p = [values |-> v2, present |-> p2, slack |-> NoSlack, index |-> ix, cap |-> 2 * ix.n]
  BY DEF Packed
<1>2. DOMAIN vals = 1 .. Len(vals) /\ Len(vals) \in Nat
  BY PlainDomain
\* At the position of an element is that element.
<1>3. ASSUME NEW i \in 1 .. Len(vals), pres[i]
      PROVE  LET e == ix.id[vals[i].key] IN e \in 1 .. ix.n /\ p2[e] /\ v2[e] = vals[i]
  <2>. DEFINE e == ix.id[vals[i].key]
              j == CHOOSE d \in Of(e) : TRUE
  <2>1. vals[i].key \in UserKey /\ vals[i].key \in KeysOf(vals, pres)
    BY <1>2, <1>3 DEF KeysOf, Plain
  <2>2. e \in 1 .. ix.n
    <3>1. e \in Nat \ {0} /\ e <= ix.n
      BY <2>1
    <3>. QED
      BY <3>1
  <2>3. i \in Of(e)
    BY <1>2, <1>3
  <2>4. j \in Of(e)
    BY <2>3
  <2>5. j \in 1 .. Len(vals) /\ pres[j] /\ ix.id[vals[j].key] = e
    BY <2>4, <1>2
  <2>6. vals[j].key \in KeysOf(vals, pres)
    BY <2>5, <1>2 DEF KeysOf
  <2>7. vals[j].key = vals[i].key
    BY <2>1, <2>5, <2>6
  <2>8. j = i
    BY <2>5, <2>7, <1>3 DEF Plain
  <2>. QED
    BY <2>2, <2>3, <2>8
\* And there is no other element.
<1>4. ASSUME NEW e \in 1 .. ix.n, p2[e]
      PROVE  \E i \in 1 .. Len(vals) : pres[i] /\ vals[i] = v2[e] /\ ix.id[vals[i].key] = e
  <2>1. PICK i \in Of(e) : TRUE
    BY <1>4
  <2>2. i \in 1 .. Len(vals) /\ pres[i] /\ ix.id[vals[i].key] = e
    BY <2>1, <1>2
  <2>. QED
    BY <2>2, <1>3
<1>5. ASSUME NEW e \in 1 .. ix.n, ~ p2[e]
      PROVE  v2[e] = Hole
  BY <1>5
<1>6. v2 \in [1 .. ix.n -> Elem] /\ p2 \in [1 .. ix.n -> BOOLEAN]
  <2>1. ASSUME NEW e \in 1 .. ix.n PROVE v2[e] \in Elem
    <3>1. CASE p2[e]
      BY <1>4, <3>1, PlainDomain
    <3>2. CASE ~ p2[e]
      BY <1>5, <3>2, DataAssumption DEF Hole, Value, Elem
    <3>. QED
      BY <3>1, <3>2
  <2>. QED
    BY <2>1
<1>7. v2 \in Seq(Elem) /\ Len(v2) = ix.n /\ p2 \in Seq(BOOLEAN) /\ Len(p2) = ix.n
  <2>. HIDE DEF v2, p2
  <2>. QED
    BY <1>6, FunctionIsSeq
<1>8. Sound(v2, p2, NoSlack, ix)
  <2>. HIDE DEF v2, p2
  <2>1. NoSlack \in [Hashes -> 0 .. Len(v2)]
    BY <1>7 DEF NoSlack
  <2>2. ASSUME NEW e \in 1 .. Len(v2)
        PROVE  IF p2[e] THEN v2[e].key \in UserKey /\ Reached(v2, NoSlack, ix, e)
               ELSE v2[e].key = DefaultKey
    <3>1. CASE p2[e]
      <4>1. PICK i \in 1 .. Len(vals) : pres[i] /\ vals[i] = v2[e] /\ ix.id[vals[i].key] = e
        BY <3>1, <1>4, <1>7
      <4>2. v2[e].key \in UserKey
        BY <4>1 DEF Plain
      <4>3. hash128(v2[e].key) \in Hashes
        BY <4>2 DEF Hashes
      <4>4. NoSlack[hash128(v2[e].key)] = 0
        BY <4>3 DEF NoSlack
      <4>5. ix.n # 0
        BY <1>7
      <4>. QED
        BY <3>1, <4>1, <4>2, <4>4, <4>5 DEF Reached
    <3>2. CASE ~ p2[e]
      <4>1. v2[e] = Hole
        BY <3>2, <1>5, <1>7
      <4>. QED
        BY <3>2, <4>1 DEF Hole, Value
    <3>. QED
      BY <3>1, <3>2
  <2>. QED
    BY <1>7, <2>1, <2>2 DEF Sound, Elem
<1>9. KeysOf(v2, p2) = KeysOf(vals, pres) /\ ContentOf(v2, p2) = ContentOf(vals, pres)
  <2>1. \A i \in 1 .. Len(vals) : pres[i] => \E j \in 1 .. Len(v2) : p2[j] /\ v2[j] = vals[i]
    BY <1>3, <1>7
  <2>2. \A j \in 1 .. Len(v2) : p2[j] => \E i \in 1 .. Len(vals) : pres[i] /\ vals[i] = v2[j]
    BY <1>4, <1>7
  <2>. HIDE DEF v2, p2
  <2>. QED
    BY <2>1, <2>2, <1>8, SoundIsPlain, SameElements
<1>. HIDE DEF v2, p2
<1>10. p.values = v2 /\ p.present = p2 /\ p.slack = NoSlack /\ p.index = ix /\ p.cap = 2 * ix.n
  BY <1>1
<1>11. p.cap \in Nat /\ p.cap >= Len(p.values)
  BY <1>7, <1>10
<1>. QED
  BY <1>8, <1>9, <1>10, <1>11

\* pack(): whatever function Reset makes, the same map.
LEMMA PackKeeps ==
    ASSUME NEW st, Plain(st.values, st.present),
           st.index = [n |-> st.index.n, id |-> st.index.id], st.index.n \in Nat,
           st.index.id \in [UserKey -> Nat \ {0}],
           Trusted, flavor \in Flavors, st.values # << >>, NEW o \in PackOutcomes(st)
    PROVE  /\ Sound(o.values, o.present, o.slack, o.index)
           /\ KeysOf(o.values, o.present) = KeysOf(st.values, st.present)
           /\ ContentOf(o.values, o.present) = ContentOf(st.values, st.present)
           /\ o.cap \in Nat /\ o.cap >= Len(o.values)
<1>. DEFINE S == KeysOf(st.values, st.present)
<1>0. S \subseteq UserKey
  BY KeysAreUser
<1>1. CASE S = {}
  <2>. DEFINE ix == Cleared(st.index)
  <2>1. o = Packed(st.values, st.present, ix)
    BY <1>1 DEF PackOutcomes
  <2>2. ix = [n |-> ix.n, id |-> ix.id] /\ ix.n \in Nat /\ ix.id \in [UserKey -> Nat \ {0}]
    <3>1. CASE flavor = "sparse"
      <4>1. ix = [n |-> st.index.n, id |-> [k \in UserKey |-> 1]]
        BY <3>1 DEF Cleared
      <4>. QED
        BY <4>1
    <3>2. CASE flavor # "sparse"
      BY <3>2 DEF Cleared
    <3>. QED
      BY <3>1, <3>2
  <2>. HIDE DEF ix
  <2>. QED
    BY <1>1, <2>1, <2>2, PackedSound
<1>2. CASE S # {}
  <2>1. PICK ix \in Reset(flavor, S) : o = Packed(st.values, st.present, ix)
    BY <1>2 DEF PackOutcomes
  <2>2. /\ ix = [n |-> ix.n, id |-> ix.id]
        /\ ix.n \in Nat \ {0} /\ ix.id \in [UserKey -> Nat \ {0}]
        /\ \A k \in S : ix.id[k] <= ix.n
        /\ \A k, l \in S : ix.id[k] = ix.id[l] => k = l
    BY <1>0, <1>2 DEF Trusted, PerfectFunctions
  <2>. QED
    BY <2>1, <2>2, PackedSound
<1>. QED
  BY <1>1, <1>2

\* push_back of an element whose key has none.
IsPush(vals, pres, k, d, v2, p2) == v2 = Append(vals, Value(k, d)) /\ p2 = Append(pres, TRUE)

AddsOne(vals, pres, k, d, v2, p2) ==
    /\ Plain(v2, p2) /\ Len(v2) = Len(vals) + 1
    /\ \A i \in 1 .. Len(vals) : v2[i] = vals[i] /\ p2[i] = pres[i]
    /\ v2[Len(vals) + 1] = Value(k, d) /\ p2[Len(vals) + 1] = TRUE
    /\ KeysOf(v2, p2) = KeysOf(vals, pres) \cup {k}
    /\ ContentOf(v2, p2) = [ContentOf(vals, pres) EXCEPT ![k] = d]

LEMMA Appended ==
    ASSUME NEW vals, NEW pres, Plain(vals, pres), NEW k \in UserKey, NEW d \in Data,
           k \notin KeysOf(vals, pres),
           NEW v2, NEW p2, IsPush(vals, pres, k, d, v2, p2)
    PROVE  AddsOne(vals, pres, k, d, v2, p2)
<1>. DEFINE n == Len(vals)
<1>1. vals \in Seq(Elem) /\ pres \in Seq(BOOLEAN) /\ Len(pres) = n /\ n \in Nat
  BY DEF Plain
<1>2. Value(k, d) \in Elem /\ Value(k, d).key = k /\ Value(k, d).data = d
  BY DEF Value, Elem
<1>3. v2 \in Seq(Elem) /\ Len(v2) = n + 1 /\ p2 \in Seq(BOOLEAN) /\ Len(p2) = n + 1
  BY <1>1, <1>2 DEF IsPush
<1>4. v2[n + 1] = Value(k, d) /\ p2[n + 1] = TRUE
  BY <1>1, <1>2 DEF IsPush
<1>5. \A i \in 1 .. n : v2[i] = vals[i] /\ p2[i] = pres[i]
  <2>1. ASSUME NEW i \in 1 .. Len(vals) PROVE Append(vals, Value(k, d))[i] = vals[i]
    BY <1>1, <1>2, AppendAt
  <2>2. ASSUME NEW i \in 1 .. Len(pres) PROVE Append(pres, TRUE)[i] = pres[i]
    BY <1>1, AppendAt
  <2>. QED
    BY <1>1, <2>1, <2>2 DEF IsPush
<1>6. \A i \in 1 .. n + 1 : i \in 1 .. n \/ i = n + 1
  BY <1>1
<1>7. ASSUME NEW i \in 1 .. n, pres[i] PROVE vals[i].key # k /\ vals[i].key \in UserKey
  BY <1>7, PlainDomain DEF KeysOf, Plain
<1>8. Plain(v2, p2)
  <2>1. \A i \in 1 .. Len(v2) : p2[i] => v2[i].key \in UserKey
    BY <1>2, <1>3, <1>4, <1>5, <1>6, <1>7
  <2>2. ASSUME NEW i \in 1 .. Len(v2), NEW j \in 1 .. Len(v2), p2[i], p2[j], v2[i].key = v2[j].key
        PROVE  i = j
    <3>1. CASE i \in 1 .. n /\ j \in 1 .. n
      BY <2>2, <3>1, <1>5 DEF Plain
    <3>2. CASE i = n + 1
      BY <2>2, <3>2, <1>2, <1>3, <1>4, <1>5, <1>6, <1>7
    <3>3. CASE j = n + 1
      BY <2>2, <3>3, <1>2, <1>3, <1>4, <1>5, <1>6, <1>7
    <3>. QED
      BY <1>3, <1>6, <3>1, <3>2, <3>3
  <2>. QED
    BY <1>3, <2>1, <2>2 DEF Plain
<1>9. KeysOf(v2, p2) \subseteq UserKey /\ KeysOf(vals, pres) \subseteq UserKey
  BY <1>8, KeysAreUser
<1>10. KeysOf(v2, p2) = KeysOf(vals, pres) \cup {k}
  <2>1. ASSUME NEW l \in UserKey PROVE l \in KeysOf(v2, p2) <=> l \in KeysOf(vals, pres) \/ l = k
    <3>1. l \in KeysOf(v2, p2) <=> \E i \in 1 .. n + 1 : p2[i] /\ v2[i].key = l
      BY <1>3, <1>8, KeysAreUser
    <3>2. l \in KeysOf(vals, pres) <=> \E i \in 1 .. n : pres[i] /\ vals[i].key = l
      BY KeysAreUser
    <3>3. n + 1 \in 1 .. n + 1 /\ \A i \in 1 .. n : i \in 1 .. n + 1
      BY <1>1
    <3>. QED
      BY <3>1, <3>2, <3>3, <1>2, <1>4, <1>5, <1>6
  <2>. QED
    BY <1>9, <2>1
<1>11. ASSUME NEW l \in UserKey
       PROVE  ContentOf(v2, p2)[l] = IF l = k THEN d ELSE ContentOf(vals, pres)[l]
  <2>1. CASE l = k
    <3>1. n + 1 \in 1 .. Len(v2)
      BY <1>1, <1>3
    <3>2. ContentOf(v2, p2)[v2[n + 1].key] = v2[n + 1].data
      BY <3>1, <1>4, <1>8, ContentAt
    <3>. QED
      BY <2>1, <3>2, <1>2, <1>4
  <2>2. CASE l # k /\ l \in KeysOf(vals, pres)
    <3>1. PICK i \in 1 .. n : pres[i] /\ vals[i].key = l
      BY <2>2, KeysAreUser
    <3>2. ContentOf(vals, pres)[vals[i].key] = vals[i].data
      BY <3>1, ContentAt
    <3>3. i \in 1 .. Len(v2) /\ p2[i] /\ v2[i] = vals[i]
      BY <3>1, <1>1, <1>3, <1>5
    <3>4. ContentOf(v2, p2)[v2[i].key] = v2[i].data
      BY <3>3, <1>8, ContentAt
    <3>. QED
      BY <2>2, <3>1, <3>2, <3>3, <3>4
  <2>3. CASE l # k /\ l \notin KeysOf(vals, pres)
    BY <2>3, <1>10 DEF ContentOf
  <2>. QED
    BY <2>1, <2>2, <2>3
<1>12. ContentOf(v2, p2) = [ContentOf(vals, pres) EXCEPT ![k] = d]
  <2>1. ContentOf(v2, p2) = [l \in UserKey |-> ContentOf(v2, p2)[l]]
    BY DEF ContentOf
  <2>2. DOMAIN ContentOf(vals, pres) = UserKey
    BY DEF ContentOf
  <2>. QED
    BY <1>11, <2>1, <2>2
<1>. QED
  BY <1>3, <1>4, <1>5, <1>8, <1>10, <1>12 DEF AddsOne

\* An insert that finds no element adds one, and finds it.
LEMMA PushKeeps ==
    ASSUME Trusted, MapInv, NEW k \in UserKey, NEW d \in Data, At(k) = 0,
           NEW o \in PushOutcomes(k, d)
    PROVE  /\ Sound(o.values, o.present, o.slack, o.index)
           /\ k \notin Keys
           /\ KeysOf(o.values, o.present) = Keys \cup {k}
           /\ ContentOf(o.values, o.present) = [Content EXCEPT ![k] = d]
           /\ o.cap \in Nat /\ o.cap >= Len(o.values)
           /\ FoundIn(o, k) = d
<1>0. PICK v2, p2 : IsPush(values, present, k, d, v2, p2)
  BY DEF IsPush
<1>. DEFINE n == Len(values)
            s2 == IF InSlack(slack, k) THEN slack ELSE [slack EXCEPT ![hash128(k)] = n + 1]
            c2 == Grown(cap, n)
            pushed == [values |-> v2, present |-> p2, slack |-> s2, index |-> index, cap |-> c2]
<1>1. Sound(values, present, slack, index) /\ flavor \in Flavors /\ cap \in Nat /\ cap >= n
  BY DEF MapInv
<1>2. DefaultKey \notin UserKey
  BY DEF Trusted
<1>3. k \notin Keys
  BY <1>1, <1>2, FindCorrect DEF At, Keys
<1>4. Plain(values, present) /\ n \in Nat
  BY <1>1, SoundIsPlain, SoundDomain
<1>5. /\ Plain(v2, p2) /\ Len(v2) = n + 1
      /\ \A i \in 1 .. n : v2[i] = values[i] /\ p2[i] = present[i]
      /\ v2[n + 1] = Value(k, d) /\ p2[n + 1] = TRUE
      /\ KeysOf(v2, p2) = Keys \cup {k}
      /\ ContentOf(v2, p2) = [Content EXCEPT ![k] = d]
  <2>1. k \notin KeysOf(values, present)
    BY <1>3 DEF Keys
  <2>2. AddsOne(values, present, k, d, v2, p2)
    BY <1>0, <1>4, <2>1, Appended
  <2>. QED
    BY <2>2 DEF AddsOne, Keys, Content
<1>6. c2 \in Nat /\ c2 >= n + 1
  BY <1>1, <1>4 DEF Grown
<1>7. o \in IF ShouldPack(k) THEN PackOutcomes(pushed) ELSE {pushed}
  BY <1>0 DEF PushOutcomes, IsPush
<1>. HIDE DEF c2
<1>8. /\ Sound(o.values, o.present, o.slack, o.index)
      /\ KeysOf(o.values, o.present) = KeysOf(v2, p2)
      /\ ContentOf(o.values, o.present) = ContentOf(v2, p2)
      /\ o.cap \in Nat /\ o.cap >= Len(o.values)
  <2>1. CASE ShouldPack(k)
    <3>1. /\ index = [n |-> index.n, id |-> index.id] /\ index.n \in Nat
          /\ index.id \in [UserKey -> Nat \ {0}]
      BY <1>1 DEF Sound
    <3>2. v2 # << >>
      BY <1>4, <1>5
    <3>3. pushed.values = v2 /\ pushed.present = p2 /\ pushed.index = index
      OBVIOUS
    <3>4. o \in PackOutcomes(pushed)
      BY <1>7, <2>1
    <3>. HIDE DEF pushed
    <3>. QED
      BY <1>1, <1>5, <3>1, <3>2, <3>3, <3>4, PackKeeps
  <2>2. CASE ~ ShouldPack(k)
    <3>1. o = pushed
      BY <1>7, <2>2
    <3>2. ~ InSlack(slack, k)
      BY <2>2 DEF ShouldPack
    <3>3. s2 = [slack EXCEPT ![hash128(k)] = n + 1]
      BY <3>2
    <3>4. slack \in [Hashes -> 0 .. n] /\ hash128(k) \in Hashes
      BY <1>1 DEF Sound, Hashes
    <3>5. s2 \in [Hashes -> 0 .. n + 1]
      BY <1>4, <3>3, <3>4
    <3>6. ASSUME NEW i \in 1 .. n + 1
          PROVE  IF p2[i] THEN v2[i].key \in UserKey /\ Reached(v2, s2, index, i)
                 ELSE v2[i].key = DefaultKey
      <4>1. CASE i = n + 1
        <5>1. v2[i].key = k /\ s2[hash128(k)] = i
          BY <4>1, <1>5, <3>3, <3>4 DEF Value
        <5>. QED
          BY <4>1, <5>1, <1>5 DEF Reached
      <4>2. CASE i \in 1 .. n /\ present[i]
        <5>1. v2[i] = values[i] /\ p2[i] = present[i]
          BY <4>2, <1>5
        <5>2. values[i].key \in UserKey /\ Reached(values, slack, index, i)
          BY <4>2, <1>1, SoundAt
        <5>3. values[i].key # k
          BY <4>2, <1>3, <1>4, PlainDomain DEF Keys, KeysOf
        <5>4. hash128(values[i].key) # hash128(k)
          BY <5>2, <5>3, HashAssumption
        <5>5. s2[hash128(values[i].key)] = slack[hash128(values[i].key)]
          BY <5>2, <5>4, <3>3, <3>4 DEF Hashes
        <5>. HIDE DEF s2
        <5>. QED
          BY <4>2, <5>1, <5>2, <5>5 DEF Reached
      <4>3. CASE i \in 1 .. n /\ ~ present[i]
        <5>1. v2[i] = values[i] /\ p2[i] = present[i]
          BY <4>3, <1>5
        <5>. QED
          BY <4>3, <5>1, <1>1, SoundAt
      <4>. QED
        BY <1>4, <4>1, <4>2, <4>3
    <3>. HIDE DEF s2
    <3>7. Sound(v2, p2, s2, index)
      BY <1>1, <1>5, <3>5, <3>6 DEF Sound, Plain, Elem
    <3>. QED
      BY <1>5, <1>6, <3>1, <3>7
  <2>. QED
    BY <2>1, <2>2
\* What is inserted is found.
<1>9. FoundIn(o, k) = d
  <2>. DEFINE p == Find(o.values, o.present, o.slack, o.index, k)
  <2>1. k \in KeysOf(o.values, o.present)
    BY <1>5, <1>8
  <2>2. p \in 1 .. Len(o.values) /\ o.present[p] /\ o.values[p].key = k /\ p # 0
    BY <1>2, <1>8, <2>1, FindCorrect
  <2>. HIDE DEF p
  <2>3. ContentOf(o.values, o.present)[k] = o.values[p].data
    BY <1>8, <2>2, ContentAt, SoundIsPlain
  <2>4. ContentOf(v2, p2)[k] = d
    BY <1>5 DEF Content, ContentOf
  <2>. QED
    BY <1>8, <2>2, <2>3, <2>4 DEF FoundIn, p
<1>. QED
  BY <1>3, <1>5, <1>8, <1>9

-----------------------------------------------------------------------------
\* What the abstract map sees.
LEMMA ContentType ==
    ASSUME MapInv, Trusted
    PROVE  /\ Keys \subseteq UserKey /\ IsFiniteSet(Keys)
           /\ DOMAIN Content = UserKey
           /\ \A k \in Keys : Content[k] \in Data
           /\ \A k \in UserKey : Content[k] = NotFound <=> k \notin Keys
           /\ M!Stored = Keys
<1>1. Sound(values, present, slack, index) /\ Plain(values, present)
  BY SoundIsPlain DEF MapInv
<1>2. Keys \subseteq UserKey
  BY <1>1, KeysAreUser DEF Keys
<1>3. IsFiniteSet(Keys)
  BY <1>2, FS_Subset DEF Trusted
<1>4. DOMAIN Content = UserKey
  BY DEF Content, ContentOf
<1>5. ASSUME NEW k \in Keys PROVE Content[k] \in Data
  <2>1. PICK i \in 1 .. Len(values) : present[i] /\ values[i].key = k
    BY <1>1, <1>2, KeysAreUser DEF Keys
  <2>2. ContentOf(values, present)[values[i].key] = values[i].data /\ values[i].data \in Data
    BY <1>1, <2>1, ContentAt
  <2>. QED
    BY <2>1, <2>2 DEF Content
<1>6. \A k \in UserKey : k \notin Keys => Content[k] = NotFound
  BY DEF Content, ContentOf, Keys
<1>7. \A k \in UserKey : Content[k] = NotFound <=> k \notin Keys
  BY <1>5, <1>6, DataAssumption
<1>. QED
  BY <1>2, <1>3, <1>4, <1>5, <1>7 DEF M!Stored

LEMMA FoundNow ==
    ASSUME MapInv, Trusted, NEW k \in UserKey
    PROVE  /\ At(k) = 0 <=> k \notin Keys
           /\ At(k) # 0 => /\ At(k) \in 1 .. Len(values) /\ present[At(k)]
                           /\ values[At(k)].key = k /\ values[At(k)].data = Content[k]
           /\ \A i \in 1 .. Len(values) : present[i] /\ values[i].key = k => i = At(k)
<1>1. Sound(values, present, slack, index) /\ DefaultKey \notin UserKey /\ Plain(values, present)
  BY SoundIsPlain DEF MapInv, Trusted
<1>2. /\ At(k) = 0 => k \notin Keys
      /\ At(k) # 0 => At(k) \in 1 .. Len(values) /\ present[At(k)] /\ values[At(k)].key = k
      /\ \A i \in 1 .. Len(values) : present[i] /\ values[i].key = k => i = At(k)
  BY <1>1, FindCorrect DEF At, Keys
<1>3. ASSUME At(k) # 0 PROVE k \in Keys /\ values[At(k)].data = Content[k]
  <2>1. ContentOf(values, present)[values[At(k)].key] = values[At(k)].data
    BY <1>1, <1>2, <1>3, ContentAt
  <2>2. k \in Keys
    BY <1>1, <1>2, <1>3, KeysAreUser DEF Keys
  <2>. QED
    BY <1>2, <1>3, <2>1, <2>2 DEF Content
<1>. QED
  BY <1>2, <1>3

\* A call that changes no element.
LEMMA Unchanged ==
    ASSUME MapInv, UNCHANGED <<flavor, arrays, size>>, status' \in {"ok", "undefined"},
           status = "ok"
    PROVE  MapInv' /\ Content' = Content
  BY DEF MapInv, Content, Keys, arrays

LEMMA InitStep ==
    ASSUME Init, Trusted
    PROVE  MapInv /\ M!Init
<1>1. values = << >> /\ present = << >> /\ Len(values) = 0
  BY DEF Init
<1>2. Sound(values, present, slack, index)
  BY <1>1 DEF Init, Sound, NoSlack
<1>3. Keys = {} /\ \A k \in UserKey : Content[k] = NotFound
  BY <1>1 DEF Keys, KeysOf, Content, ContentOf
<1>4. Cardinality(Keys) = 0
  BY <1>3, FS_EmptySet
<1>5. Content = [k \in UserKey |-> NotFound]
  BY <1>3 DEF Content, ContentOf
<1>. QED
  BY <1>1, <1>2, <1>4, <1>5 DEF Init, MapInv, M!Init, M!Answer, Answer

LEMMA InsertStep ==
    ASSUME MapInv, Trusted, NEW k \in UserKey, NEW d \in Data, Insert(k, d)
    PROVE  MapInv' /\ (M!Insert(k, d) \/ UNCHANGED <<Content, result>>)
<1>0. status = "ok"
  BY DEF Insert
<1>1. CASE At(k) # 0
  <2>1. MapInv' /\ Content' = Content
    BY <1>0, <1>1, Unchanged DEF Insert
  <2>2. result' = Answer("insert", k, <<Content[k], FALSE>>)
    BY <1>1, FoundNow DEF Insert
  <2>3. Content[k] # NotFound
    BY <1>1, FoundNow, ContentType
  <2>. QED
    BY <2>1, <2>2, <2>3 DEF M!Insert, M!Answer, Answer
<1>2. CASE At(k) = 0
  <2>0. Push(k, d)
    BY <1>2 DEF Insert
  <2>1. CASE Exits(size + 1)
    <3>1. Content' = Content /\ result' = result /\ Keys' = Keys
      BY <2>1 DEF Exits, arrays, Content, Keys
    <3>2. MapInv'
      BY <2>1 DEF MapInv, Exits, arrays
    <3>. QED
      BY <3>1, <3>2
  <2>2. CASE \E st \in PushOutcomes(k, d) :
                /\ SetArrays(st, st.cap) /\ size' = size + 1
                /\ result' = Answer("insert", k, <<FoundIn(st, k), TRUE>>)
                /\ UNCHANGED <<flavor, status>>
    <3>1. PICK st \in PushOutcomes(k, d) :
                /\ SetArrays(st, st.cap) /\ size' = size + 1
                /\ result' = Answer("insert", k, <<FoundIn(st, k), TRUE>>)
                /\ UNCHANGED <<flavor, status>>
      BY <2>2
    <3>2. /\ Sound(st.values, st.present, st.slack, st.index)
          /\ k \notin Keys
          /\ KeysOf(st.values, st.present) = Keys \cup {k}
          /\ ContentOf(st.values, st.present) = [Content EXCEPT ![k] = d]
          /\ st.cap \in Nat /\ st.cap >= Len(st.values)
          /\ FoundIn(st, k) = d
      BY <1>2, PushKeeps
    <3>3. Keys' = Keys \cup {k} /\ Content' = [Content EXCEPT ![k] = d]
      BY <3>1, <3>2 DEF SetArrays, Keys, Content
    <3>4. size' = Cardinality(Keys')
      <4>1. size = Cardinality(Keys)
        BY <1>0 DEF MapInv
      <4>2. Cardinality(Keys \cup {k}) = Cardinality(Keys) + 1
        BY <3>2, ContentType, FS_AddElement
      <4>. QED
        BY <3>1, <3>3, <4>1, <4>2
    <3>5. Sound(values', present', slack', index') /\ cap' \in Nat /\ cap' >= Len(values')
      BY <3>1, <3>2 DEF SetArrays
    <3>6. MapInv'
      BY <1>0, <3>1, <3>4, <3>5 DEF MapInv
    <3>7. Content[k] = NotFound
      BY <3>2, ContentType
    <3>. QED
      BY <3>1, <3>2, <3>3, <3>6, <3>7 DEF M!Insert, M!Answer, Answer
  <2>. QED
    BY <2>0, <2>1, <2>2 DEF Push
<1>. QED
  BY <1>1, <1>2

\* An element is given other contents, at its place.
IsReplace(vals, pres, v2, p2, p, e, b) ==
    /\ v2 = [vals EXCEPT ![p] = e] /\ p2 = [pres EXCEPT ![p] = b]
    /\ IF b THEN e.key = vals[p].key ELSE e.key = DefaultKey
ReplacesOne(vals, pres, v2, p2, p, e, b) ==
    /\ Len(v2) = Len(vals)
    /\ v2[p] = e /\ p2[p] = b
    /\ \A i \in 1 .. Len(vals) : i # p => v2[i] = vals[i] /\ p2[i] = pres[i]

LEMMA Replaced ==
    ASSUME NEW vals, NEW pres, NEW sl, NEW ix, Sound(vals, pres, sl, ix),
           NEW p \in 1 .. Len(vals), pres[p], NEW e \in Elem, NEW b \in BOOLEAN,
           NEW v2, NEW p2, IsReplace(vals, pres, v2, p2, p, e, b)
    PROVE  Sound(v2, p2, sl, ix) /\ ReplacesOne(vals, pres, v2, p2, p, e, b)
<1>. USE DEF IsReplace
<1>1. vals \in Seq(Elem) /\ pres \in Seq(BOOLEAN) /\ Len(pres) = Len(vals) /\ Len(vals) \in Nat
  BY SoundDomain DEF Sound, Elem
<1>2. v2 \in Seq(Elem) /\ p2 \in Seq(BOOLEAN) /\ Len(v2) = Len(vals) /\ Len(p2) = Len(vals)
  BY <1>1
<1>3. v2[p] = e /\ p2[p] = b
  BY <1>1
<1>4. \A i \in 1 .. Len(vals) : i # p => v2[i] = vals[i] /\ p2[i] = pres[i]
  BY <1>1
<1>5. ASSUME NEW i \in 1 .. Len(v2)
      PROVE  IF p2[i] THEN v2[i].key \in UserKey /\ Reached(v2, sl, ix, i)
             ELSE v2[i].key = DefaultKey
  <2>1. CASE i = p
    <3>1. vals[p].key \in UserKey /\ Reached(vals, sl, ix, p)
      BY SoundAt
    <3>. QED
      BY <2>1, <3>1, <1>3 DEF Reached
  <2>2. CASE i # p
    <3>1. v2[i] = vals[i] /\ p2[i] = pres[i] /\ i \in 1 .. Len(vals)
      BY <2>2, <1>2, <1>4
    <3>2. IF pres[i] THEN vals[i].key \in UserKey /\ Reached(vals, sl, ix, i)
          ELSE vals[i].key = DefaultKey
      BY <3>1, SoundAt
    <3>. QED
      BY <3>1, <3>2 DEF Reached
  <2>. QED
    BY <2>1, <2>2
<1>. QED
  BY <1>2, <1>3, <1>4, <1>5 DEF Sound, Elem, ReplacesOne

LEMMA AssignStep ==
    ASSUME MapInv, Trusted, NEW k \in UserKey, NEW d \in Data, Assign(k, d)
    PROVE  MapInv' /\ M!Assign(k, d)
<1>. DEFINE p == At(k)
            e == Value(k, d)
<1>1. /\ p \in 1 .. Len(values) /\ present[p] /\ values[p].key = k /\ k \in Keys
      /\ \A i \in 1 .. Len(values) : present[i] /\ values[i].key = k => i = p
  BY FoundNow DEF Assign
<1>2. Sound(values, present, slack, index) /\ status = "ok"
  BY DEF MapInv, Assign
<1>3. e \in Elem /\ e.key = k /\ e.data = d
  BY DEF Value, Elem
<1>4. values[p] = Value(k, values[p].data)
  BY <1>1, <1>2, SoundAt
<1>5. values' = [values EXCEPT ![p] = e]
  <2>1. [values[p] EXCEPT !.data = d] = e
    BY <1>4 DEF Value
  <2>2. values' = [values EXCEPT ![p] = [values[p] EXCEPT !.data = d]]
    BY DEF Assign
  <2>. QED
    BY <2>1, <2>2
<1>6. present' = [present EXCEPT ![p] = TRUE]
  <2>1. present \in Seq(BOOLEAN) /\ present[p] = TRUE
    BY <1>1, <1>2 DEF Sound
  <2>. QED
    BY <2>1 DEF Assign
<1>. HIDE DEF p, e
<1>7. /\ Sound(values', present', slack, index) /\ Len(values') = Len(values)
      /\ values'[p] = e /\ present'[p] = TRUE
      /\ \A i \in 1 .. Len(values) : i # p => values'[i] = values[i] /\ present'[i] = present[i]
  <2>1. IsReplace(values, present, values', present', p, e, TRUE)
    BY <1>1, <1>3, <1>5, <1>6 DEF IsReplace
  <2>2. Sound(values', present', slack, index) /\ ReplacesOne(values, present, values', present', p, e, TRUE)
    BY <1>1, <1>2, <1>3, <2>1, Replaced
  <2>. QED
    BY <2>2 DEF ReplacesOne
<1>8. Plain(values, present) /\ Plain(values', present') /\ DOMAIN Content = UserKey
  BY <1>2, <1>7, SoundIsPlain DEF Content, ContentOf
<1>9. Keys' = Keys
  <2>1. ASSUME NEW l \in UserKey PROVE l \in Keys' <=> l \in Keys
    <3>1. l \in Keys' <=> \E i \in 1 .. Len(values) : present'[i] /\ values'[i].key = l
      BY <1>7, <1>8, KeysAreUser DEF Keys
    <3>2. l \in Keys <=> \E i \in 1 .. Len(values) : present[i] /\ values[i].key = l
      BY <1>8, KeysAreUser DEF Keys
    <3>. QED
      BY <3>1, <3>2, <1>1, <1>3, <1>7
  <2>2. Keys \subseteq UserKey /\ Keys' \subseteq UserKey
    BY <1>8, KeysAreUser DEF Keys
  <2>. QED
    BY <2>1, <2>2
<1>10. ASSUME NEW l \in UserKey PROVE Content'[l] = IF l = k THEN d ELSE Content[l]
  <2>1. CASE l = k
    <3>1. ContentOf(values', present')[values'[p].key] = values'[p].data
      BY <1>1, <1>7, <1>8, ContentAt
    <3>. QED
      BY <2>1, <3>1, <1>3, <1>7 DEF Content
  <2>2. CASE l # k /\ l \in Keys
    <3>1. PICK i \in 1 .. Len(values) : present[i] /\ values[i].key = l
      BY <2>2, <1>8, KeysAreUser DEF Keys
    <3>2. i # p /\ values'[i] = values[i] /\ present'[i] /\ i \in 1 .. Len(values')
      BY <2>2, <3>1, <1>1, <1>7
    <3>3. ContentOf(values, present)[values[i].key] = values[i].data
      BY <3>1, <1>8, ContentAt
    <3>4. ContentOf(values', present')[values'[i].key] = values'[i].data
      BY <3>2, <1>8, ContentAt
    <3>. QED
      BY <2>2, <3>1, <3>2, <3>3, <3>4 DEF Content
  <2>3. CASE l # k /\ l \notin Keys
    BY <2>3, <1>9 DEF Content, ContentOf, Keys
  <2>. QED
    BY <2>1, <2>2, <2>3
<1>11. Content' = [Content EXCEPT ![k] = d]
  <2>1. Content' = [l \in UserKey |-> Content'[l]]
    BY DEF Content, ContentOf
  <2>. QED
    BY <1>8, <1>10, <2>1
<1>12. MapInv'
  BY <1>2, <1>7, <1>9 DEF MapInv, Assign
<1>13. Content[k] # NotFound
  BY <1>1, ContentType
<1>. QED
  BY <1>11, <1>12, <1>13 DEF Assign, M!Assign, M!Answer, Answer

LEMMA EraseStep ==
    ASSUME MapInv, Trusted, NEW k \in UserKey, Erase(k)
    PROVE  MapInv' /\ M!Erase(k)
<1>. DEFINE p == At(k)
<1>0. status = "ok" /\ size = Cardinality(Keys) /\ DOMAIN Content = UserKey /\ IsFiniteSet(Keys)
  BY ContentType DEF MapInv, Erase
<1>1. CASE p = 0
  <2>1. MapInv' /\ Content' = Content
    BY <1>0, <1>1, Unchanged DEF Erase, arrays
  <2>2. Content[k] = NotFound
    BY <1>1, FoundNow, ContentType
  <2>3. [Content EXCEPT ![k] = NotFound] = Content
    BY <2>2 DEF Content, ContentOf
  <2>. QED
    BY <2>1, <2>3 DEF Erase, M!Erase, M!Answer, Answer
<1>2. CASE p # 0
  <2>1. /\ p \in 1 .. Len(values) /\ present[p] /\ values[p].key = k /\ k \in Keys
        /\ \A i \in 1 .. Len(values) : present[i] /\ values[i].key = k => i = p
    BY <1>2, FoundNow
  <2>2. Sound(values, present, slack, index)
    BY DEF MapInv
  <2>3. Hole \in Elem /\ Hole.key = DefaultKey
    BY DataAssumption DEF Hole, Value, Elem
  <2>4. IsReplace(values, present, values', present', p, Hole, FALSE)
    BY <1>2, <2>3 DEF Erase, Erased, IsReplace
  <2>. HIDE DEF p
  <2>5. /\ Sound(values', present', slack, index) /\ Len(values') = Len(values)
        /\ present'[p] = FALSE
        /\ \A i \in 1 .. Len(values) : i # p => values'[i] = values[i] /\ present'[i] = present[i]
    <3>1. Sound(values', present', slack, index)
          /\ ReplacesOne(values, present, values', present', p, Hole, FALSE)
      BY <2>1, <2>2, <2>3, <2>4, Replaced
    <3>. QED
      BY <3>1 DEF ReplacesOne
  <2>6. Plain(values, present) /\ Plain(values', present')
    BY <2>2, <2>5, SoundIsPlain
  <2>7. Keys' = Keys \ {k}
    <3>1. ASSUME NEW l \in UserKey PROVE l \in Keys' <=> l \in Keys /\ l # k
      <4>1. l \in Keys' <=> \E i \in 1 .. Len(values) : present'[i] /\ values'[i].key = l
        BY <2>5, <2>6, KeysAreUser DEF Keys
      <4>2. l \in Keys <=> \E i \in 1 .. Len(values) : present[i] /\ values[i].key = l
        BY <2>6, KeysAreUser DEF Keys
      <4>. QED
        BY <4>1, <4>2, <2>1, <2>5
    <3>2. Keys \subseteq UserKey /\ Keys' \subseteq UserKey
      BY <2>6, KeysAreUser DEF Keys
    <3>. QED
      BY <3>1, <3>2
  <2>8. ASSUME NEW l \in UserKey PROVE Content'[l] = IF l = k THEN NotFound ELSE Content[l]
    <3>1. CASE l # k /\ l \in Keys
      <4>1. PICK i \in 1 .. Len(values) : present[i] /\ values[i].key = l
        BY <3>1, <2>6, KeysAreUser DEF Keys
      <4>2. i # p /\ values'[i] = values[i] /\ present'[i] /\ i \in 1 .. Len(values')
        BY <3>1, <4>1, <2>1, <2>5
      <4>3. ContentOf(values, present)[values[i].key] = values[i].data
        BY <4>1, <2>6, ContentAt
      <4>4. ContentOf(values', present')[values'[i].key] = values'[i].data
        BY <4>2, <2>6, ContentAt
      <4>. QED
        BY <3>1, <4>1, <4>2, <4>3, <4>4 DEF Content
    <3>2. CASE l = k \/ l \notin Keys
      BY <3>2, <2>7 DEF Content, ContentOf, Keys
    <3>. QED
      BY <3>1, <3>2
  <2>9. Content' = [Content EXCEPT ![k] = NotFound]
    <3>1. Content' = [l \in UserKey |-> Content'[l]]
      BY DEF Content, ContentOf
    <3>. QED
      BY <1>0, <2>8, <3>1
  <2>10. size' = Cardinality(Keys')
    <3>1. Cardinality(Keys \ {k}) = Cardinality(Keys) - 1
      BY <1>0, <2>1, FS_RemoveElement
    <3>2. size' = size - 1
      BY <1>2 DEF Erase, p
    <3>. QED
      BY <1>0, <2>7, <3>1, <3>2
  <2>11. MapInv'
    BY <2>5, <2>10 DEF MapInv, Erase
  <2>. QED
    BY <2>9, <2>11 DEF Erase, M!Erase, M!Answer, Answer
<1>. QED
  BY <1>1, <1>2

LEMMA ClearStep ==
    ASSUME MapInv, Trusted, Clear
    PROVE  MapInv' /\ M!Clear
<1>1. values' = << >> /\ present' = << >> /\ Len(values') = 0 /\ slack' = NoSlack
  BY DEF Clear
<1>2. /\ index' = [n |-> index'.n, id |-> index'.id] /\ index'.n \in Nat
      /\ index'.id \in [UserKey -> Nat \ {0}]
  <2>1. /\ index = [n |-> index.n, id |-> index.id] /\ index.n \in Nat
        /\ index.id \in [UserKey -> Nat \ {0}]
    BY DEF MapInv, Sound
  <2>2. CASE flavor = "sparse"
    <3>1. index' = [n |-> index.n, id |-> [k \in UserKey |-> 1]]
      BY <2>1, <2>2 DEF Clear, Cleared
    <3>. QED
      BY <2>1, <3>1
  <2>3. CASE flavor # "sparse"
    BY <2>1, <2>3 DEF Clear, Cleared
  <2>. QED
    BY <2>2, <2>3
<1>3. Sound(values', present', slack', index')
  BY <1>1, <1>2 DEF Sound, NoSlack
<1>4. Keys' = {} /\ \A k \in UserKey : Content'[k] = NotFound
  BY <1>1 DEF Keys, KeysOf, Content, ContentOf
<1>5. Cardinality(Keys') = 0
  BY <1>4, FS_EmptySet
<1>6. Content' = [k \in UserKey |-> NotFound]
  BY <1>4 DEF Content, ContentOf
<1>7. MapInv'
  BY <1>1, <1>3, <1>5 DEF MapInv, Clear
<1>. QED
  BY <1>6, <1>7 DEF Clear, M!Clear, M!Answer, Answer

LEMMA RehashStep ==
    ASSUME MapInv, Trusted, Rehash
    PROVE  MapInv' /\ (M!Rehash \/ UNCHANGED <<Content, result>>)
<1>1. CASE Exits(size)
  <2>1. Content' = Content /\ result' = result /\ Keys' = Keys
    BY <1>1 DEF Exits, arrays, Content, Keys
  <2>2. MapInv'
    BY <1>1 DEF MapInv, Exits, arrays
  <2>. QED
    BY <2>1, <2>2
<1>2. CASE \E st \in PackOutcomes(Arrays) :
              /\ SetArrays(st, Len(st.values))
              /\ result' = Answer("rehash", NotFound, NotFound)
              /\ UNCHANGED <<flavor, size, status>>
  <2>1. PICK st \in PackOutcomes(Arrays) :
              /\ SetArrays(st, Len(st.values))
              /\ result' = Answer("rehash", NotFound, NotFound)
              /\ UNCHANGED <<flavor, size, status>>
    BY <1>2
  <2>2. Sound(values, present, slack, index) /\ status = "ok" /\ size = Cardinality(Keys)
    BY DEF MapInv, Rehash
  <2>3. /\ Sound(st.values, st.present, st.slack, st.index)
        /\ KeysOf(st.values, st.present) = Keys
        /\ ContentOf(st.values, st.present) = Content
    <3>1. CASE values = << >>
      <4>1. st = Arrays
        BY <2>1, <3>1 DEF PackOutcomes, Arrays
      <4>. QED
        BY <2>2, <4>1 DEF Arrays, Keys, Content
    <3>2. CASE values # << >>
      <4>. DEFINE a == Arrays
      <4>1. a.values = values /\ a.present = present /\ a.index = index /\ st \in PackOutcomes(a)
        BY <2>1 DEF Arrays
      <4>. HIDE DEF a
      <4>2. Plain(values, present) /\ flavor \in Flavors
        BY <2>2, SoundIsPlain DEF MapInv
      <4>3. /\ index = [n |-> index.n, id |-> index.id] /\ index.n \in Nat
            /\ index.id \in [UserKey -> Nat \ {0}]
        BY <2>2 DEF Sound
      <4>. QED
        BY <3>2, <4>1, <4>2, <4>3, PackKeeps DEF Keys, Content
    <3>. QED
      BY <3>1, <3>2
  <2>4. Keys' = Keys /\ Content' = Content
    BY <2>1, <2>3 DEF SetArrays, Keys, Content
  <2>5. Sound(values', present', slack', index') /\ cap' = Len(values')
    BY <2>1, <2>3 DEF SetArrays
  <2>6. cap' \in Nat /\ cap' >= Len(values')
    BY <2>5, SoundDomain
  <2>7. MapInv'
    BY <2>1, <2>2, <2>4, <2>5, <2>6 DEF MapInv
  <2>. QED
    BY <2>1, <2>4, <2>7 DEF M!Rehash, M!Answer, Answer
<1>. QED
  BY <1>1, <1>2 DEF Rehash

\* The calls that only look.
LEMMA LookSteps ==
    ASSUME MapInv, Trusted
    PROVE  /\ \A k \in UserKey : FindKey(k) => MapInv' /\ M!Find(k)
           /\ \A k \in UserKey : Undefined(k) => MapInv' /\ UNCHANGED <<Content, result>>
           /\ Iterate => MapInv' /\ M!Iterate
<1>1. ASSUME NEW k \in UserKey, FindKey(k) PROVE MapInv' /\ M!Find(k)
  <2>1. MapInv' /\ Content' = Content
    BY <1>1, Unchanged DEF FindKey
  <2>2. FoundIn(Arrays, k) = Content[k]
    <3>1. FoundIn(Arrays, k) = IF At(k) = 0 THEN NotFound ELSE values[At(k)].data
      BY DEF FoundIn, Arrays, At
    <3>. QED
      BY <3>1, FoundNow, ContentType
  <2>. QED
    BY <1>1, <2>1, <2>2 DEF FindKey, M!Find, M!Answer, Answer
<1>2. ASSUME NEW k \in UserKey, Undefined(k) PROVE MapInv' /\ UNCHANGED <<Content, result>>
  BY <1>2, Unchanged DEF Undefined
<1>3. ASSUME Iterate PROVE MapInv' /\ M!Iterate
  <2>1. MapInv' /\ Content' = Content
    BY <1>3, Unchanged DEF Iterate
  <2>. DEFINE Shown == {values[i] : i \in {j \in DOMAIN values : present[j]}}
              Held == {[key |-> k, data |-> Content[k]] : k \in Keys}
  <2>2. Sound(values, present, slack, index) /\ Plain(values, present) /\ size = Cardinality(Keys)
    BY <1>3, SoundIsPlain DEF MapInv, Iterate
  <2>3. ASSUME NEW i \in 1 .. Len(values), present[i]
        PROVE  /\ values[i].key \in Keys
               /\ values[i] = [key |-> values[i].key, data |-> Content[values[i].key]]
    <3>1. values[i].key \in UserKey /\ ContentOf(values, present)[values[i].key] = values[i].data
      BY <2>2, <2>3, ContentAt
    <3>2. values[i] = Value(values[i].key, values[i].data)
      BY <2>2, SoundAt
    <3>3. values[i].key \in Keys
      BY <2>2, <2>3, <3>1, KeysAreUser DEF Keys
    <3>. QED
      BY <3>1, <3>2, <3>3 DEF Value, Content
  <2>4. DOMAIN values = 1 .. Len(values)
    BY <2>2, SoundDomain
  <2>5. Shown \subseteq Held
    BY <2>3, <2>4
  <2>6. ASSUME NEW k \in Keys PROVE [key |-> k, data |-> Content[k]] \in Shown
    <3>1. PICK i \in 1 .. Len(values) : present[i] /\ values[i].key = k
      BY <2>2, ContentType, KeysAreUser DEF Keys
    <3>. QED
      BY <2>3, <2>4, <3>1
  <2>7. Shown = Held
    BY <2>5, <2>6
  <2>8. M!Stored = Keys
    BY ContentType
  <2>9. result' = [call |-> "iterate", size |-> size, elements |-> Shown]
    BY <1>3 DEF Iterate
  <2>10. result' = [call |-> "iterate", size |-> Cardinality(Keys), elements |-> Held]
    BY <2>2, <2>7, <2>9
  <2>11. /\ size = Cardinality(M!Stored)
         /\ Held = {[key |-> k, data |-> Content[k]] : k \in M!Stored}
    BY <2>2, <2>8
  <2>. HIDE DEF Held
  <2>12. M!Cardinality(M!Stored) = Cardinality(M!Stored)
    BY DEF M!Cardinality, Cardinality
  <2>13. M!Iterate
    BY <2>1, <2>8, <2>10, <2>11, <2>12 DEF M!Iterate
  <2>. QED
    BY <2>1, <2>13
<1>. QED
  BY <1>1, <1>2, <1>3

-----------------------------------------------------------------------------
LEMMA StepKeeps ==
    ASSUME MapInv, Trusted, [Next]_vars
    PROVE  MapInv' /\ [M!Next]_<<Content, result>>
<1>1. CASE UNCHANGED vars
  <2>1. Content' = Content /\ Keys' = Keys
    BY <1>1 DEF vars, arrays, Content, Keys
  <2>. QED
    BY <1>1, <2>1 DEF vars, arrays, MapInv
<1>2. ASSUME NEW k \in UserKey, NEW d \in Data, Insert(k, d)
      PROVE  MapInv' /\ [M!Next]_<<Content, result>>
  BY <1>2, InsertStep DEF M!Next
<1>3. ASSUME NEW k \in UserKey, NEW d \in Data, Assign(k, d)
      PROVE  MapInv' /\ [M!Next]_<<Content, result>>
  BY <1>3, AssignStep DEF M!Next
<1>4. ASSUME NEW k \in UserKey, FindKey(k) \/ Undefined(k)
      PROVE  MapInv' /\ [M!Next]_<<Content, result>>
  BY <1>4, LookSteps DEF M!Next
<1>5. ASSUME NEW k \in UserKey, Erase(k)
      PROVE  MapInv' /\ [M!Next]_<<Content, result>>
  BY <1>5, EraseStep DEF M!Next
<1>6. ASSUME Clear PROVE MapInv' /\ [M!Next]_<<Content, result>>
  BY <1>6, ClearStep DEF M!Next
<1>7. ASSUME Rehash PROVE MapInv' /\ [M!Next]_<<Content, result>>
  BY <1>7, RehashStep DEF M!Next
<1>8. ASSUME Iterate PROVE MapInv' /\ [M!Next]_<<Content, result>>
  BY <1>8, LookSteps DEF M!Next
<1>9. CASE Stopped
  BY <1>1, <1>9 DEF Stopped
<1>. QED
  BY <1>1, <1>2, <1>3, <1>4, <1>5, <1>6, <1>7, <1>8, <1>9 DEF Next

\* The places of the elements are those that find looks at, after every sequence of calls of
\* mph_map.h, and size_ is their number: for every set of keys, every set of data, every
\* limit of the first pack and every functions that are perfect.
THEOREM MapInvHolds ==
    ASSUME Trusted
    PROVE  Spec => []MapInv
<1>1. Init => MapInv
  BY InitStep
<1>2. MapInv /\ [Next]_vars => MapInv'
  BY StepKeeps
<1>. QED
  BY <1>1, <1>2, PTL DEF Spec

\* Each call of a map of mph_map.h answers what the container answers that StdMap describes.
THEOREM MapImplements ==
    ASSUME Trusted
    PROVE  Spec => ImplementsMap
<1>1. Init => M!Init
  BY InitStep
<1>2. MapInv /\ [Next]_vars => [M!Next]_<<Content, result>>
  BY StepKeeps
<1>3. Spec => []MapInv
  BY MapInvHolds
<1>. QED
  BY <1>1, <1>2, <1>3, PTL DEF Spec, ImplementsMap, M!Spec
-----------------------------------------------------------------------------
(***************************************************************************)
(* The queue.                                                              *)
(***************************************************************************)
Graph == Seq([1 .. 3 -> Nat])

Touches(edges, e, v) == \E i \in 1 .. 3 : edges[e][i] = v

\* The degree of no vertex wraps around.
DegreesFit(edges) ==
    \A v \in Nat : Cardinality(EdgesOf(edges, DOMAIN edges, v)) <= 2 ^ DegreeBits

\* An edge in the queue has a vertex that only edges before it touch.
Free(edges, queue, p) ==
    \E i \in 1 .. 3 : \A d \in DOMAIN edges :
        d # queue[p] /\ Touches(edges, d, edges[queue[p]][i])
            => \E q \in 1 .. p - 1 : queue[q] = d

GoodQueue(edges, queue) ==
    /\ queue \in Seq(DOMAIN edges)
    /\ \A p, q \in 1 .. Len(queue) : p # q => queue[p] # queue[q]
    /\ \A p \in 1 .. Len(queue) : Free(edges, queue, p)

LEMMA EdgeIn ==
    ASSUME NEW edges \in Graph, NEW e \in DOMAIN edges
    PROVE  edges[e] \in [1 .. 3 -> Nat]
BY DEF Graph

LEMMA DegreeOne ==
    ASSUME NEW edges \in Graph, DegreesFit(edges), NEW live \in SUBSET DOMAIN edges,
           NEW v \in Nat, vertex_degree(edges, live, v) = 1
    PROVE  /\ EdgesOf(edges, live, v) = {first_edge(edges, live, v)}
           /\ first_edge(edges, live, v) \in live
           /\ Touches(edges, first_edge(edges, live, v), v)
<1> DEFINE E == EdgesOf(edges, live, v)
           A == EdgesOf(edges, DOMAIN edges, v)
           c == Cardinality(E)
<1>1. IsFiniteSet(A) /\ E \subseteq A
  <2>1. DOMAIN edges = 1 .. Len(edges) /\ Len(edges) \in Nat
    BY DEF Graph
  <2>2. IsFiniteSet(DOMAIN edges)
    BY <2>1, FS_Interval
  <2>3. A \in SUBSET DOMAIN edges /\ E \subseteq A
    BY DEF EdgesOf
  <2> QED
    BY <2>2, <2>3, FS_Subset
<1>2. IsFiniteSet(E) /\ c \in Nat /\ c <= 2 ^ DegreeBits
  <2>1. IsFiniteSet(E) /\ Cardinality(E) <= Cardinality(A)
    BY <1>1, FS_Subset
  <2>2. c \in Nat /\ Cardinality(A) \in Nat
    BY <1>1, <2>1, FS_CardinalityType
  <2>3. Cardinality(A) <= 2 ^ DegreeBits /\ 2 ^ DegreeBits \in Nat
    BY IndexAssumption, PowerOfTwo DEF DegreesFit
  <2> HIDE DEF A, c
  <2> QED
    BY <2>1, <2>2, <2>3 DEF c
<1>3. c = 1
  <2>1. 2 ^ DegreeBits \in Nat /\ 2 ^ DegreeBits > 1
    <3> DEFINE n == DegreeBits - 1
    <3>1. n \in Nat /\ n + 1 = DegreeBits
      BY IndexAssumption
    <3> HIDE DEF n
    <3>2. 2 ^ n \in Nat \ {0} /\ 2 ^ DegreeBits = 2 * 2 ^ n
      BY <3>1, PowerOfTwo
    <3> QED
      BY <3>2
  <2>2. c % 2 ^ DegreeBits = 1
    BY DEF vertex_degree
  <2> HIDE DEF c
  <2> DEFINE P == 2 ^ DegreeBits
  <2>3. P \in Nat /\ P > 1 /\ c % P = 1 /\ c <= P
    BY <1>2, <2>1, <2>2
  <2> HIDE DEF P
  <2>4. CASE c < P
    <3>1. c % P = c
      BY <1>2, <2>3, <2>4
    <3> QED
      BY <3>1, <2>3
  <2>5. CASE c = P
    BY <2>3, <2>5
  <2> QED
    BY <1>2, <2>3, <2>4, <2>5
<1>4. PICK e : E = {e}
  BY <1>2, <1>3, FS_Singleton
<1>5. e \in live /\ e \in Nat /\ Touches(edges, e, v)
  <2>1. e \in E
    BY <1>4
  <2>2. DOMAIN edges \subseteq Nat
    BY DEF Graph
  <2> QED
    BY <2>1, <2>2 DEF EdgesOf, Touches
<1>6. first_edge(edges, live, v) = e
  BY <1>4, <1>5 DEF first_edge
<1> QED
  BY <1>4, <1>5, <1>6

LEMMA QueueGrows ==
    ASSUME NEW edges \in Graph, NEW queue, GoodQueue(edges, queue), NEW e \in DOMAIN edges,
           \A p \in 1 .. Len(queue) : queue[p] # e,
           NEW i \in 1 .. 3,
           \A d \in DOMAIN edges : d # e /\ Touches(edges, d, edges[e][i])
                                       => \E q \in 1 .. Len(queue) : queue[q] = d
    PROVE  /\ GoodQueue(edges, Append(queue, e))
           /\ Len(Append(queue, e)) = Len(queue) + 1
<1> DEFINE longer == Append(queue, e)
           n == Len(queue)
<1>1. /\ longer \in Seq(DOMAIN edges) /\ Len(longer) = n + 1 /\ n \in Nat
      /\ \A p \in 1 .. n : longer[p] = queue[p]
      /\ longer[n + 1] = e
  BY DEF GoodQueue
<1> HIDE DEF longer
<1>2. \A p, q \in 1 .. n + 1 : p # q => longer[p] # longer[q]
  <2>1. \A p \in 1 .. n + 1 : p \in 1 .. n \/ p = n + 1
    BY <1>1
  <2> QED
    BY <1>1, <2>1 DEF GoodQueue
<1>3. ASSUME NEW p \in 1 .. n + 1 PROVE Free(edges, longer, p)
  <2>1. CASE p \in 1 .. n
    <3>1. Free(edges, queue, p)
      BY <2>1 DEF GoodQueue
    <3>2. (\A q \in 1 .. p - 1 : longer[q] = queue[q]) /\ longer[p] = queue[p]
      <4>1. \A q \in 1 .. p - 1 : q \in 1 .. n
        BY <1>1, <2>1
      <4> QED
        BY <1>1, <2>1, <4>1
    <3>3. PICK j \in 1 .. 3 : \A d \in DOMAIN edges :
              d # queue[p] /\ Touches(edges, d, edges[queue[p]][j])
                  => \E q \in 1 .. p - 1 : queue[q] = d
      BY <3>1 DEF Free
    <3>4. \A d \in DOMAIN edges :
              d # longer[p] /\ Touches(edges, d, edges[longer[p]][j])
                  => \E q \in 1 .. p - 1 : longer[q] = d
      BY <3>2, <3>3, Zenon
    <3> QED
      BY <3>4, Zenon DEF Free
  <2>2. CASE p = n + 1
    <3>1. p - 1 = n
      BY <1>1, <2>2
    <3> QED
      BY <1>1, <2>2, <3>1 DEF Free
  <2> QED
    BY <1>1, <2>1, <2>2
<1> QED
  BY <1>1, <1>2, <1>3 DEF GoodQueue, longer

\* The edges left when the first ones of the queue are removed.
LiveAfter(edges, queue, tail) == DOMAIN edges \ {queue[p] : p \in 1 .. tail}

LEMMA LooseKeeps ==
    ASSUME NEW edges \in Graph, DegreesFit(edges),
           NEW queue, GoodQueue(edges, queue), NEW tail \in 1 .. Len(queue),
           NEW live, live = LiveAfter(edges, queue, tail),
           NEW v \in Nat, NEW longer, longer = Loose(edges, queue, live, v)
    PROVE  /\ GoodQueue(edges, longer) /\ Len(longer) >= Len(queue)
           /\ \A p \in 1 .. tail : longer[p] = queue[p]
<1>0. queue \in Seq(DOMAIN edges) /\ Len(queue) \in Nat /\ DOMAIN queue = 1 .. Len(queue)
  BY DEF GoodQueue
<1> DEFINE e == first_edge(edges, live, v)
<1>1. CASE vertex_degree(edges, live, v) # 1 \/ \E p \in DOMAIN queue : queue[p] = e
  <2>1. longer = queue
    BY <1>1 DEF Loose
  <2>2. GoodQueue(edges, longer)
    BY <2>1
  <2>3. Len(longer) >= Len(queue)
    BY <2>1, <1>0
  <2> QED
    BY <2>1, <2>2, <2>3
<1>2. CASE /\ vertex_degree(edges, live, v) = 1
           /\ ~ \E p \in DOMAIN queue : queue[p] = e
  <2>1. longer = Append(queue, e)
    BY <1>2 DEF Loose
  <2>2. /\ EdgesOf(edges, live, v) = {e} /\ e \in live /\ e \in DOMAIN edges
        /\ Touches(edges, e, v)
    <3>1. live \in SUBSET DOMAIN edges
      BY DEF LiveAfter
    <3>2. /\ EdgesOf(edges, live, v) = {e} /\ e \in live
          /\ Touches(edges, e, v)
      BY <1>2, <3>1, DegreeOne
    <3> QED
      BY <3>1, <3>2
  <2> HIDE DEF e
  <2>3. PICK i \in 1 .. 3 : edges[e][i] = v
    BY <2>2 DEF Touches
  <2>4. ASSUME NEW d \in DOMAIN edges, d # e, Touches(edges, d, edges[e][i])
        PROVE  \E q \in 1 .. Len(queue) : queue[q] = d
    <3>1. d \notin live
      BY <2>2, <2>3, <2>4 DEF EdgesOf, Touches
    <3>2. PICK q \in 1 .. tail : queue[q] = d
      BY <3>1 DEF LiveAfter
    <3> QED
      BY <3>2, <1>0
  <2>5. \A p \in 1 .. Len(queue) : queue[p] # e
    BY <1>0, <1>2
  <2>6. GoodQueue(edges, Append(queue, e)) /\ Len(Append(queue, e)) = Len(queue) + 1
    BY <2>2, <2>4, <2>5, QueueGrows
  <2>7. \A p \in 1 .. tail : Append(queue, e)[p] = queue[p]
    BY <1>0, <2>2
  <2>8. GoodQueue(edges, longer)
    BY <2>1, <2>6
  <2>9. Len(longer) >= Len(queue)
    BY <2>1, <2>6, <1>0
  <2> QED
    BY <2>1, <2>7, <2>8, <2>9
<1> QED
  BY <1>1, <1>2

LEMMA PeelKeeps ==
    ASSUME NEW edges \in Graph, DegreesFit(edges),
           NEW queue, GoodQueue(edges, queue), NEW tail \in Nat \ {0}
    PROVE  GoodQueue(edges, Peel(edges, queue, tail))
<1>0. queue \in Seq(DOMAIN edges) /\ Len(queue) \in Nat
  BY DEF GoodQueue
<1>1. CASE tail > Len(queue)
  BY <1>1 DEF Peel
<1>2. CASE tail \in 1 .. Len(queue)
  <2> DEFINE live == DOMAIN edges \ {queue[p] : p \in 1 .. tail}
             v == edges[queue[tail]]
             one == Loose(edges, queue, live, v[1])
             two == Loose(edges, one, live, v[2])
  <2>1. v[1] \in Nat /\ v[2] \in Nat /\ v[3] \in Nat
    <3>1. queue[tail] \in DOMAIN edges
      BY <1>0, <1>2
    <3>2. v \in [1 .. 3 -> Nat]
      BY <3>1 DEF Graph
    <3> QED
      BY <3>2
  <2>2. Peel(edges, queue, tail) = Loose(edges, two, live, v[3])
    BY <1>0, <1>2 DEF Peel
  <2>a. /\ live = LiveAfter(edges, queue, tail)
        /\ one = Loose(edges, queue, live, v[1])
        /\ two = Loose(edges, one, live, v[2])
    BY DEF LiveAfter
  <2> HIDE DEF v, one, two, live
  <2>3. /\ GoodQueue(edges, one) /\ Len(one) >= Len(queue)
        /\ \A p \in 1 .. tail : one[p] = queue[p]
    BY <1>2, <2>1, <2>a, LooseKeeps
  <2>4. live = LiveAfter(edges, one, tail)
    BY <2>3, <2>a DEF LiveAfter
  <2>5. Len(one) \in Nat /\ tail \in 1 .. Len(one)
    BY <1>0, <1>2, <2>3 DEF GoodQueue
  <2>b. /\ GoodQueue(edges, one) /\ tail \in 1 .. Len(one)
        /\ v[2] \in Nat /\ two = Loose(edges, one, live, v[2])
    BY <2>1, <2>3, <2>5, <2>a
  <2>6. /\ GoodQueue(edges, two) /\ Len(two) >= Len(one)
        /\ \A p \in 1 .. tail : two[p] = one[p]
    BY <2>4, <2>b, LooseKeeps
  <2>7. live = LiveAfter(edges, two, tail)
    BY <2>4, <2>6 DEF LiveAfter
  <2>8. Len(two) \in Nat /\ tail \in 1 .. Len(two)
    BY <2>5, <2>6 DEF GoodQueue
  <2> QED
    BY <2>1, <2>2, <2>6, <2>7, <2>8, LooseKeeps
<1> QED
  BY <1>0, <1>1, <1>2
StartsWith(edges, e) ==
    \E i \in 1 .. 3 : vertex_degree(edges, DOMAIN edges, edges[e][i]) = 1

StartStep(edges, queue, e) == IF StartsWith(edges, e) THEN Append(queue, e) ELSE queue

LEMMA StartedIsGood ==
    ASSUME NEW edges \in Graph, DegreesFit(edges)
    PROVE  GoodQueue(edges, Started(edges))
<1> DEFINE m == Len(edges)
           F(f) == [e \in 0 .. m |->
               IF e = 0 THEN << >>
               ELSE IF \E i \in 1 .. 3 : vertex_degree(edges, DOMAIN edges, edges[e][i]) = 1
                    THEN Append(f[e - 1], e) ELSE f[e - 1]]
           Q == Seq(1 .. m)
           step == [x \in Q \X (1 .. m) |-> StartStep(edges, x[1], x[2])]
           start == CHOOSE f : f = F(f)
<1>0. m \in Nat /\ DOMAIN edges = 1 .. m
  BY DEF Graph
<1>1. \E f : f = F(f)
  <2>1. ASSUME NEW q \in Q, NEW e \in 1 .. m PROVE StartStep(edges, q, e) \in Q
    <3>1. Append(q, e) \in Q
      OBVIOUS
    <3> QED
      BY <3>1 DEF StartStep
  <2>2. << >> \in Q
    OBVIOUS
  <2> HIDE DEF Q
  <2>3. step \in [Q \X (1 .. m) -> Q]
    BY <2>1
  <2>4. \A q \in Q : \A e \in 1 .. m : step[<<q, e>>] = StartStep(edges, q, e)
    OBVIOUS
  <2> HIDE DEF step
  <2>5. PICK f : /\ f \in [0 .. m -> Q] /\ f[0] = << >>
                 /\ \A e \in 1 .. m : f[e] = step[<<f[e - 1], e>>]
    <3> HIDE DEF m
    <3>1. \E f : IsLoop(f, m, Q, << >>, step)
      BY <1>0, <2>2, <2>3, Rounds
    <3> QED
      BY <3>1 DEF IsLoop
  <2>6. ASSUME NEW e \in 1 .. m PROVE f[e] = StartStep(edges, f[e - 1], e)
    <3>1. f[e - 1] \in Q
      BY <1>0, <2>5
    <3> QED
      BY <3>1, <2>4, <2>5
  <2>7. F(f) = [e \in 0 .. m |-> IF e = 0 THEN << >> ELSE StartStep(edges, f[e - 1], e)]
    BY DEF StartStep, StartsWith
  <2>8. f = F(f)
    <3> HIDE DEF F
    <3>1. \A e \in 0 .. m : e = 0 \/ e \in 1 .. m
      BY <1>0
    <3> QED
      BY <1>0, <2>5, <2>6, <2>7, <3>1
  <2> QED
    BY <2>8
<1>2. start = F(start)
  BY <1>1
<1>3. Started(edges) = start[m]
  BY Zenon DEF Started
<1> HIDE DEF start
<1>4. start[0] = << >>
  BY <1>0, <1>2
<1>5. \A e \in 1 .. m : start[e] = StartStep(edges, start[e - 1], e)
  <2>1. F(start) = [e \in 0 .. m |-> IF e = 0 THEN << >> ELSE StartStep(edges, start[e - 1], e)]
    BY DEF StartStep, StartsWith
  <2> HIDE DEF F
  <2> QED
    BY <1>0, <1>2, <2>1
<1> HIDE DEF m, F
<1> DEFINE S == [e \in 0 .. m |-> {q \in Seq(1 .. m) : /\ GoodQueue(edges, q)
                                                       /\ \A p \in 1 .. Len(q) : q[p] <= e}]
<1>6. start[0] \in S[0]
  BY <1>0, <1>4 DEF GoodQueue
<1>7. ASSUME NEW e \in 1 .. m, start[e - 1] \in S[e - 1] PROVE start[e] \in S[e]
  <2> DEFINE q == start[e - 1]
  <2>1. q \in Seq(1 .. m) /\ GoodQueue(edges, q) /\ \A p \in 1 .. Len(q) : q[p] <= e - 1
    BY <1>0, <1>7
  <2>2. \A p \in 1 .. Len(q) : q[p] \in 1 .. m /\ q[p] <= e /\ q[p] # e
    BY <1>0, <2>1
  <2>3. start[e] = IF StartsWith(edges, e) THEN Append(q, e) ELSE q
    BY <1>5 DEF StartStep
  <2> HIDE DEF q
  <2>4. CASE ~StartsWith(edges, e)
    <3>1. start[e] = q /\ q \in Q
      BY <2>1, <2>3, <2>4
    <3>2. S[e] = {p \in Q : /\ GoodQueue(edges, p)
                           /\ \A j \in 1 .. Len(p) : p[j] <= e}
      BY <1>0
    <3> HIDE DEF S
    <3> QED
      BY <2>1, <2>2, <3>1, <3>2
  <2>5. CASE StartsWith(edges, e)
    <3>1. PICK i \in 1 .. 3 : vertex_degree(edges, DOMAIN edges, edges[e][i]) = 1
      BY <2>5 DEF StartsWith
    <3> DEFINE v == edges[e][i]
    <3>2. v \in Nat
      BY <1>0 DEF Graph
    <3>3. PICK d : EdgesOf(edges, DOMAIN edges, v) = {d}
      <4>1. DOMAIN edges \in SUBSET DOMAIN edges /\ vertex_degree(edges, DOMAIN edges, v) = 1
        BY <3>1
      <4> HIDE DEF v
      <4>2. EdgesOf(edges, DOMAIN edges, v) = {first_edge(edges, DOMAIN edges, v)}
        BY <3>2, <4>1, DegreeOne
      <4> QED
        BY <4>2
    <3>4. e \in EdgesOf(edges, DOMAIN edges, v)
      BY <1>0 DEF EdgesOf
    <3>5. \A c \in DOMAIN edges : Touches(edges, c, v) => c = e
      BY <3>3, <3>4 DEF EdgesOf, Touches
    <3>6. GoodQueue(edges, Append(q, e))
      BY <1>0, <2>1, <2>2, <3>5, QueueGrows
    <3>7. Append(q, e) \in Seq(1 .. m)
      BY <2>1
    <3>8. \A p \in 1 .. Len(Append(q, e)) : Append(q, e)[p] <= e
      BY <1>0, <2>1, <2>2
    <3>9. S[e] = {p \in Q : /\ GoodQueue(edges, p)
                           /\ \A j \in 1 .. Len(p) : p[j] <= e}
      BY <1>0
    <3> HIDE DEF S
    <3> QED
      BY <2>3, <2>5, <3>6, <3>7, <3>8, <3>9
  <2> QED
    BY <2>4, <2>5
<1> HIDE DEF S
<1>8. \A e \in 0 .. m : start[e] \in S[e]
  BY <1>0, <1>6, <1>7, RoundsKeep
<1>9. start[m] \in S[m]
  BY <1>0, <1>8
<1> QED
  BY <1>0, <1>3, <1>9 DEF S

\* The edges are queued so that each has a vertex of its own when it is removed.
LEMMA QueueIsGood ==
    ASSUME NEW edges \in Graph, DegreesFit(edges)
    PROVE  GoodQueue(edges, GenerateQueue(edges))
<1> DEFINE m == Len(edges)
           F(f) == [tail \in 0 .. m |->
               IF tail = 0 THEN Started(edges) ELSE Peel(edges, f[tail - 1], tail)]
           Good == {q \in Seq(1 .. m) : GoodQueue(edges, q)}
           step == [x \in Good \X (1 .. m) |-> Peel(edges, x[1], x[2])]
           peeled == CHOOSE f : f = F(f)
<1>0. m \in Nat /\ DOMAIN edges = 1 .. m
  BY DEF Graph
<1>1. \A q : GoodQueue(edges, q) <=> q \in Good
  BY <1>0 DEF GoodQueue
<1>2. Started(edges) \in Good
  BY <1>1, StartedIsGood
<1> HIDE DEF Good
<1>3. \A q \in Good : \A tail \in 1 .. m : Peel(edges, q, tail) \in Good
  <2> SUFFICES ASSUME NEW q \in Good, NEW tail \in 1 .. m PROVE GoodQueue(edges, Peel(edges, q, tail))
    BY <1>1
  <2>1. GoodQueue(edges, q) /\ tail \in Nat \ {0}
    BY <1>0, <1>1
  <2> QED
    BY <2>1, PeelKeeps
<1>4. step \in [Good \X (1 .. m) -> Good]
  BY <1>3
<1> HIDE DEF step
<1>5. PICK f : /\ f \in [0 .. m -> Good] /\ f[0] = Started(edges)
               /\ \A tail \in 1 .. m : f[tail] = step[<<f[tail - 1], tail>>]
  <2> HIDE DEF m
  <2>1. \E f : IsLoop(f, m, Good, Started(edges), step)
    BY <1>0, <1>2, <1>4, Rounds
  <2> QED
    BY <2>1 DEF IsLoop
<1>6. ASSUME NEW tail \in 1 .. m
      PROVE  step[<<f[tail - 1], tail>>] = Peel(edges, f[tail - 1], tail)
  <2>1. <<f[tail - 1], tail>> \in Good \X (1 .. m)
    BY <1>0, <1>5
  <2> QED
    BY <2>1 DEF step
<1>7. f = F(f)
  <2>1. \A tail \in 0 .. m : tail = 0 \/ tail \in 1 .. m
    BY <1>0
  <2> QED
    BY <1>0, <1>5, <1>6, <2>1
<1>8. peeled = F(peeled)
  BY <1>7
<1>9. GenerateQueue(edges) = peeled[m]
  BY Zenon DEF GenerateQueue
<1> HIDE DEF peeled
<1> DEFINE S == [tail \in 0 .. m |-> Good]
<1>10. peeled[0] \in S[0]
  BY <1>0, <1>2, <1>8
<1>11. ASSUME NEW tail \in 1 .. m, peeled[tail - 1] \in S[tail - 1] PROVE peeled[tail] \in S[tail]
  <2>1. peeled[tail] = Peel(edges, peeled[tail - 1], tail)
    BY <1>0, <1>8
  <2>2. peeled[tail - 1] \in Good
    BY <1>0, <1>11
  <2> QED
    BY <1>3, <2>1, <2>2
<1> HIDE DEF S, m
<1>12. \A tail \in 0 .. m : peeled[tail] \in S[tail]
  BY <1>0, <1>10, <1>11, RoundsKeep
<1>13. peeled[m] \in Good
  BY <1>0, <1>12 DEF S
<1> QED
  BY <1>1, <1>9, <1>13
-----------------------------------------------------------------------------
(***************************************************************************)
(* The assignment.                                                         *)
(***************************************************************************)
\* Edges of three different vertices each.
ProperGraph(edges, cells) ==
    /\ edges \in Graph /\ cells \subseteq Nat
    /\ \A e \in DOMAIN edges : \A i, j \in 1 .. 3 :
          edges[e][i] \in cells /\ (i # j => edges[e][i] # edges[e][j])

\* The vertex that the cells g choose among those of v.
Chosen(g, v) == v[((g[v[1]] + g[v[2]] + g[v[3]]) % 3) + 1]

\* After i edges: those vertices are marked that they touch, each edge has one of its
\* own, and no other cell is assigned.
Assigned(edges, cells, queue, t, i) ==
    LET Past == Len(queue) + 1 - i .. Len(queue)
        Vertex(p) == Chosen(t.g, edges[queue[p]])
    IN  /\ t.g \in [cells -> 0 .. 3]
        /\ \A v \in cells : v \in t.marked <=> \E p \in Past : Touches(edges, queue[p], v)
        /\ \A p \in Past : t.g[Vertex(p)] # kUnassigned
        /\ \A p, q \in Past : p # q => Vertex(p) # Vertex(q)
        /\ \A v \in cells : t.g[v] # kUnassigned => \E p \in Past : v = Vertex(p)

\* A sum of the cells that an edge has for itself is made to choose its vertex.
OthersOf(g, v, k) == IF k = 1 THEN g[v[2]] + g[v[3]]
                     ELSE IF k = 2 THEN g[v[1]] + g[v[3]] ELSE g[v[1]] + g[v[2]]
OwnCell(g, v, k) == [g EXCEPT ![v[k]] = (5 + k - OthersOf(g, v, k)) % 3]

LEMMA OwnChosen ==
    ASSUME NEW cells, NEW g \in [cells -> 0 .. 3], NEW v \in [1 .. 3 -> cells],
           \A i, j \in 1 .. 3 : i # j => v[i] # v[j],
           NEW k \in 1 .. 3, OthersOf(g, v, k) \in 0 .. 6,
           NEW h, h = OwnCell(g, v, k)
    PROVE  /\ h \in [cells -> 0 .. 3] /\ h[v[k]] # 3
           /\ Chosen(h, v) = v[k]
           /\ \A c \in cells : c # v[k] => h[c] = g[c]
<1> DEFINE others == OthersOf(g, v, k)
           x == (5 + k - others) % 3
<1>a. others = IF k = 1 THEN g[v[2]] + g[v[3]]
               ELSE IF k = 2 THEN g[v[1]] + g[v[3]] ELSE g[v[1]] + g[v[2]]
  BY DEF OthersOf
<1>b. h = [g EXCEPT ![v[k]] = (5 + k - others) % 3]
  BY DEF OwnCell
<1> HIDE DEF others
<1>1. x \in 0 .. 2 /\ (others + x) % 3 = k - 1
  BY DEF others
<1>2. /\ v[1] \in cells /\ v[2] \in cells /\ v[3] \in cells
      /\ v[1] # v[2] /\ v[1] # v[3] /\ v[2] # v[3]
      /\ v[k] \in cells
  OBVIOUS
<1>3. h = [g EXCEPT ![v[k]] = x]
  BY <1>b
<1> HIDE DEF x
<1>4. /\ h \in [cells -> 0 .. 3] /\ h[v[k]] = x
      /\ \A c \in cells : c # v[k] => h[c] = g[c]
  BY <1>1, <1>2, <1>3
<1>5. h[v[1]] + h[v[2]] + h[v[3]] = others + x
  <2>0. \A a, b, y \in Int : a + y + b = a + b + y /\ y + a + b = a + b + y
    OBVIOUS
  <2>1. g[v[1]] \in 0 .. 3 /\ g[v[2]] \in 0 .. 3 /\ g[v[3]] \in 0 .. 3
    BY <1>2
  <2>2. CASE k = 1
    <3>1. h[v[1]] = x /\ h[v[2]] = g[v[2]] /\ h[v[3]] = g[v[3]] /\ others = g[v[2]] + g[v[3]]
      BY <1>a, <1>2, <1>4, <2>2
    <3> QED
      BY <1>1, <2>1, <3>1
  <2>3. CASE k = 2
    <3>1. h[v[2]] = x /\ h[v[1]] = g[v[1]] /\ h[v[3]] = g[v[3]] /\ others = g[v[1]] + g[v[3]]
      BY <1>a, <1>2, <1>4, <2>3
    <3> QED
      BY <1>1, <2>0, <2>1, <3>1
  <2>4. CASE k = 3
    <3>1. h[v[3]] = x /\ h[v[1]] = g[v[1]] /\ h[v[2]] = g[v[2]] /\ others = g[v[1]] + g[v[2]]
      BY <1>a, <1>2, <1>4, <2>4
    <3> QED
      BY <1>1, <2>0, <2>1, <3>1
  <2> QED
    BY <2>2, <2>3, <2>4
<1>6. Chosen(h, v) = v[(k - 1) + 1]
  BY <1>1, <1>5 DEF Chosen
<1> QED
  BY <1>1, <1>4, <1>6

LEMMA ChosenIsOne ==
    ASSUME NEW cells, NEW g \in [cells -> 0 .. 3], NEW v \in [1 .. 3 -> cells]
    PROVE  \E i \in 1 .. 3 : Chosen(g, v) = v[i]
<1> DEFINE s == g[v[1]] + g[v[2]] + g[v[3]]
<1>1. s \in Nat
  <2>1. g[v[1]] \in 0 .. 3 /\ g[v[2]] \in 0 .. 3 /\ g[v[3]] \in 0 .. 3
    OBVIOUS
  <2> QED
    BY <2>1
<1> HIDE DEF s
<1>2. (s % 3) + 1 \in 1 .. 3
  BY <1>1
<1> QED
  BY <1>2 DEF Chosen, s

LEMMA OwnKeeps ==
    ASSUME NEW edges, NEW cells, ProperGraph(edges, cells), NEW queue, GoodQueue(edges, queue),
           NEW i \in 1 .. Len(queue), NEW t, Assigned(edges, cells, queue, t, i - 1)
    PROVE  Assigned(edges, cells, queue, Own(edges, t, queue[Len(queue) + 1 - i]), i)
<1> DEFINE m == Len(queue)
           c == m + 1 - i
           e == queue[c]
           v == edges[e]
           k == IF v[1] \notin t.marked THEN 1 ELSE IF v[2] \notin t.marked THEN 2 ELSE 3
           others == IF k = 1 THEN t.g[v[2]] + t.g[v[3]]
                     ELSE IF k = 2 THEN t.g[v[1]] + t.g[v[3]] ELSE t.g[v[1]] + t.g[v[2]]
           h == [t.g EXCEPT ![v[k]] = (5 + k - others) % 3]
           marked == t.marked \cup {v[1], v[2], v[3]}
           Past == c + 1 .. m
           Vertex(p) == Chosen(t.g, edges[queue[p]])
<1>0. /\ m \in Nat /\ c \in 1 .. m /\ c \in Nat /\ m + 1 - (i - 1) = c + 1
      /\ queue \in Seq(DOMAIN edges) /\ e \in DOMAIN edges
  BY DEF GoodQueue
<1>1. Own(edges, t, e) = [g |-> h, marked |-> marked]
  BY DEF Own
<1>2. /\ t.g \in [cells -> 0 .. 3]
      /\ \A u \in cells : u \in t.marked <=> \E p \in Past : Touches(edges, queue[p], u)
      /\ \A p \in Past : t.g[Vertex(p)] # 3
      /\ \A p, q \in Past : p # q => Vertex(p) # Vertex(q)
      /\ \A u \in cells : t.g[u] # 3 => \E p \in Past : u = Vertex(p)
  BY <1>0 DEF Assigned, kUnassigned
<1>3. /\ v \in [1 .. 3 -> cells]
      /\ \A a, b \in 1 .. 3 : a # b => v[a] # v[b]
  <2>1. v \in [1 .. 3 -> Nat]
    <3>1. edges \in Graph /\ e \in DOMAIN edges
      BY <1>0 DEF ProperGraph
    <3> HIDE DEF e
    <3> QED
      BY <3>1, EdgeIn
  <2> QED
    BY <1>0, <2>1 DEF ProperGraph
<1>4. \E j \in 1 .. 3 : v[j] \notin t.marked
  <2>1. PICK j \in 1 .. 3 : \A d \in DOMAIN edges :
            d # e /\ Touches(edges, d, v[j]) => \E q \in 1 .. c - 1 : queue[q] = d
    BY <1>0 DEF GoodQueue, Free
  <2>2. ASSUME NEW p \in Past, Touches(edges, queue[p], v[j]) PROVE FALSE
    <3>1. p \in 1 .. m /\ p # c /\ queue[p] \in DOMAIN edges
      BY <1>0
    <3>2. queue[p] # e
      BY <1>0, <3>1 DEF GoodQueue
    <3>3. PICK q \in 1 .. c - 1 : queue[q] = queue[p]
      BY <2>1, <2>2, <3>1, <3>2
    <3>4. q \in 1 .. m /\ q # p
      BY <1>0
    <3> QED
      BY <3>1, <3>3, <3>4 DEF GoodQueue
  <2>3. v[j] \in cells
    BY <1>3
  <2> QED
    BY <1>2, <2>2, <2>3
<1>5. k \in 1 .. 3 /\ v[k] \notin t.marked /\ v[k] \in cells
  <2>1. k \in 1 .. 3 /\ v[k] \notin t.marked
    BY <1>4
  <2> QED
    BY <1>3, <2>1
<1>6. others \in 0 .. 6
  <2>1. v[1] \in cells /\ v[2] \in cells /\ v[3] \in cells
    BY <1>3
  <2>2. t.g[v[1]] \in 0 .. 3 /\ t.g[v[2]] \in 0 .. 3 /\ t.g[v[3]] \in 0 .. 3
    BY <1>2, <2>1
  <2> QED
    BY <2>2
<1> HIDE DEF k
<1>7. /\ h \in [cells -> 0 .. 3] /\ h[v[k]] # 3
      /\ Chosen(h, v) = v[k]
      /\ \A u \in cells : u # v[k] => h[u] = t.g[u]
  <2> DEFINE g == t.g
  <2>1. g \in [cells -> 0 .. 3] /\ OthersOf(g, v, k) \in 0 .. 6 /\ h = OwnCell(g, v, k)
    BY <1>2, <1>6 DEF OthersOf, OwnCell
  <2>a. v \in [1 .. 3 -> cells] /\ k \in 1 .. 3
    BY <1>3, <1>5
  <2>b. \A a, b \in 1 .. 3 : a # b => v[a] # v[b]
    BY <1>3
  <2> HIDE DEF g, others, h, v
  <2>2. /\ h \in [cells -> 0 .. 3] /\ h[v[k]] # 3
        /\ Chosen(h, v) = v[k]
        /\ \A u \in cells : u # v[k] => h[u] = g[u]
    BY <2>a, <2>b, <2>1, OwnChosen
  <2> QED
    BY <2>2 DEF g
<1> HIDE DEF others, h
<1>8. \A p \in Past : Chosen(h, edges[queue[p]]) = Vertex(p) /\ Vertex(p) \in cells /\ Vertex(p) # v[k]
  <2> SUFFICES ASSUME NEW p \in Past
               PROVE  Chosen(h, edges[queue[p]]) = Vertex(p) /\ Vertex(p) \in cells /\ Vertex(p) # v[k]
    OBVIOUS
  <2> DEFINE w == edges[queue[p]]
  <2>1. queue[p] \in DOMAIN edges
    BY <1>0
  <2>2. w \in [1 .. 3 -> cells]
    <3>1. w \in [1 .. 3 -> Nat]
      <4>1. edges \in Graph
        BY DEF ProperGraph
      <4> QED
        BY <2>1, <4>1, EdgeIn
    <3> QED
      BY <2>1, <3>1 DEF ProperGraph
  <2>3. \A a \in 1 .. 3 : w[a] \in cells /\ w[a] # v[k]
    <3>1. \A a \in 1 .. 3 : w[a] \in cells /\ Touches(edges, queue[p], w[a])
      BY <2>2 DEF Touches
    <3> HIDE DEF w
    <3> QED
      BY <1>2, <1>5, <3>1
  <2>4. \A a \in 1 .. 3 : h[w[a]] = t.g[w[a]]
    BY <1>7, <2>3
  <2>5. Chosen(h, w) = Chosen(t.g, w)
    BY <2>4 DEF Chosen
  <2>6. \E a \in 1 .. 3 : Chosen(t.g, w) = w[a]
    <3> DEFINE g == t.g
    <3>1. g \in [cells -> 0 .. 3]
      BY <1>2
    <3> HIDE DEF g, w
    <3>2. \E a \in 1 .. 3 : Chosen(g, w) = w[a]
      BY <2>2, <3>1, ChosenIsOne
    <3> QED
      BY <3>2 DEF g
  <2> QED
    BY <2>3, <2>5, <2>6
<1> DEFINE Now == c .. m
           New(p) == Chosen(h, edges[queue[p]])
<1>9. /\ \A p \in Now : p = c \/ p \in Past
      /\ \A p \in Past : New(p) = Vertex(p) /\ Vertex(p) # v[k] /\ p \in Now
      /\ New(c) = v[k] /\ c \in Now
  BY <1>0, <1>7, <1>8
<1>10. \A u \in cells : u \in marked <=> \E p \in Now : Touches(edges, queue[p], u)
  <2>1. \A u \in cells : u \in {v[1], v[2], v[3]} <=> Touches(edges, queue[c], u)
    BY DEF Touches
  <2> HIDE DEF v
  <2> QED
    BY <1>2, <1>9, <2>1
<1>11. \A p \in Now : h[New(p)] # 3
  BY <1>2, <1>7, <1>8, <1>9
<1>12. \A p, q \in Now : p # q => New(p) # New(q)
  <2> HIDE DEF New, Vertex, Now, Past
  <2> QED
    BY <1>2, <1>9
<1>13. \A u \in cells : h[u] # 3 => \E p \in Now : u = New(p)
  <2> HIDE DEF New, Vertex, Now, Past
  <2> QED
    BY <1>2, <1>7, <1>9
<1>14. m + 1 - i .. m = Now
  OBVIOUS
<1> DEFINE r == [g |-> h, marked |-> marked]
<1>15. r.g = h /\ r.marked = marked
  OBVIOUS
<1> HIDE DEF v, marked, r
<1>16. Assigned(edges, cells, queue, r, i)
  BY <1>7, <1>10, <1>11, <1>12, <1>13, <1>14, <1>15 DEF Assigned, kUnassigned
<1> QED
  BY <1>1, <1>16 DEF r
LEMMA AssigningIsGood ==
    ASSUME NEW n \in Nat, NEW edges, NEW cells, cells = 0 .. 4 * CeilOf(n, 4) - 1,
           ProperGraph(edges, cells), NEW queue, GoodQueue(edges, queue)
    PROVE  \E t : /\ Assigning(n, edges, queue) = t.g
                  /\ Assigned(edges, cells, queue, t, Len(queue))
<1> DEFINE m == Len(queue)
           F(f) == [i \in 0 .. m |->
               IF i = 0 THEN Blank(n) ELSE Own(edges, f[i - 1], queue[m + 1 - i])]
           State == [g : [cells -> 0 .. 3], marked : SUBSET Nat]
           step == [x \in State \X (1 .. m) |-> Own(edges, x[1], queue[m + 1 - x[2]])]
           done == CHOOSE f : f = F(f)
<1>0. /\ m \in Nat /\ queue \in Seq(DOMAIN edges) /\ DOMAIN edges = 1 .. Len(edges)
      /\ cells \subseteq Nat
  BY DEF GoodQueue, ProperGraph, Graph
<1>1. Blank(n) \in State /\ Assigned(edges, cells, queue, Blank(n), 0)
  <2>1. Blank(n) = [g |-> [v \in cells |-> 3], marked |-> {}]
    BY DEF Blank, kUnassigned
  <2>2. Blank(n).g = [v \in cells |-> 3] /\ Blank(n).marked = {}
    BY <2>1
  <2>3. m + 1 - 0 .. m = {}
    BY <1>0
  <2> QED
    BY <2>1, <2>2, <2>3 DEF Assigned, kUnassigned
<1>2. ASSUME NEW t \in State, NEW i \in 1 .. m PROVE Own(edges, t, queue[m + 1 - i]) \in State
  <2> DEFINE e == queue[m + 1 - i]
             v == edges[e]
             k == IF v[1] \notin t.marked THEN 1 ELSE IF v[2] \notin t.marked THEN 2 ELSE 3
             g == t.g
             others == OthersOf(g, v, k)
             h == [g EXCEPT ![v[k]] = (5 + k - others) % 3]
  <2>1. e \in DOMAIN edges
    <3>1. m + 1 - i \in 1 .. m
      BY <1>0
    <3> QED
      BY <1>0, <3>1
  <2>2. v[1] \in cells /\ v[2] \in cells /\ v[3] \in cells
    BY <2>1 DEF ProperGraph
  <2>3. Own(edges, t, e) = [g |-> h, marked |-> t.marked \cup {v[1], v[2], v[3]}]
    BY DEF Own, OthersOf
  <2>4. k \in 1 .. 3
    OBVIOUS
  <2>5. others \in 0 .. 6
    <3>1. g[v[1]] \in 0 .. 3 /\ g[v[2]] \in 0 .. 3 /\ g[v[3]] \in 0 .. 3
      BY <2>2
    <3> HIDE DEF k, v, g
    <3> QED
      BY <2>4, <3>1 DEF OthersOf
  <2> HIDE DEF others, k
  <2>6. (5 + k - others) % 3 \in 0 .. 3
    BY <2>4, <2>5
  <2>7. g \in [cells -> 0 .. 3]
    OBVIOUS
  <2>8. h \in [cells -> 0 .. 3]
    BY <2>6, <2>7
  <2>9. t.marked \cup {v[1], v[2], v[3]} \in SUBSET Nat
    BY <1>0, <2>2
  <2> HIDE DEF h, v, e
  <2> QED
    BY <2>3, <2>8, <2>9 DEF e
<1> HIDE DEF State
<1>3. step \in [State \X (1 .. m) -> State]
  BY <1>2
<1>4. \A t \in State, i \in 1 .. m : step[<<t, i>>] = Own(edges, t, queue[m + 1 - i])
  OBVIOUS
<1> HIDE DEF step
<1>5. PICK f : /\ f \in [0 .. m -> State] /\ f[0] = Blank(n)
               /\ \A i \in 1 .. m : f[i] = step[<<f[i - 1], i>>]
  <2> HIDE DEF m
  <2>1. \E f : IsLoop(f, m, State, Blank(n), step)
    BY <1>0, <1>1, <1>3, Rounds
  <2> QED
    BY <2>1 DEF IsLoop
<1>6. ASSUME NEW i \in 1 .. m PROVE f[i] = Own(edges, f[i - 1], queue[m + 1 - i])
  <2>1. f[i - 1] \in State
    BY <1>0, <1>5
  <2> QED
    BY <2>1, <1>4, <1>5
<1>7. f = F(f)
  <2>1. \A i \in 0 .. m : i = 0 \/ i \in 1 .. m
    BY <1>0
  <2> QED
    BY <1>0, <1>5, <1>6, <2>1
<1>8. done = F(done)
  BY <1>7
<1>9. Assigning(n, edges, queue) = done[m].g
  BY Zenon DEF Assigning
<1> HIDE DEF done
<1> DEFINE S == [i \in 0 .. m |-> {t \in {done[j] : j \in 0 .. m} : Assigned(edges, cells, queue, t, i)}]
<1>10. done[0] \in S[0]
  <2>1. done[0] = Blank(n)
    BY <1>0, <1>8
  <2> QED
    BY <1>0, <1>1, <2>1
<1>11. ASSUME NEW i \in 1 .. m, done[i - 1] \in S[i - 1] PROVE done[i] \in S[i]
  <2>1. done[i] = Own(edges, done[i - 1], queue[m + 1 - i])
    <3>1. i \in 0 .. m /\ i # 0
      BY <1>0
    <3>2. F(done)[i] = Own(edges, done[i - 1], queue[m + 1 - i])
      BY <3>1
    <3> HIDE DEF F
    <3> QED
      BY <1>8, <3>2
  <2>2. Assigned(edges, cells, queue, done[i - 1], i - 1)
    BY <1>0, <1>11
  <2>3. Assigned(edges, cells, queue, done[i], i)
    BY <2>1, <2>2, OwnKeeps
  <2> QED
    BY <1>0, <2>3
<1> HIDE DEF S, m
<1>12. \A i \in 0 .. m : done[i] \in S[i]
  BY <1>0, <1>10, <1>11, RoundsKeep
<1>13. Assigned(edges, cells, queue, done[m], m)
  BY <1>0, <1>12 DEF S
<1> QED
  BY <1>9, <1>13 DEF m

-----------------------------------------------------------------------------
(***************************************************************************)
(* The ranks.                                                              *)
(***************************************************************************)
LEMMA Quotient ==
    ASSUME NEW a \in Nat, NEW P \in Nat \ {0}
    PROVE  /\ a \div P \in Nat
           /\ (a \div P) * P <= a
           /\ a < (a \div P) * P + P
  OBVIOUS

LEMMA StepOf ==
    ASSUME NEW n \in Nat, NEW a \in 0 .. n - 1, NEW P \in Nat \ {0}
    PROVE  a \div P \in 0 .. CeilOf(n, P) - 1
<1> DEFINE i == a \div P
           q == (n + P - 1) \div P
<1>1. i \in Nat /\ i * P <= a
  BY Quotient
<1>2. n + P - 1 \in Nat /\ q \in Nat /\ n + P - 1 < q * P + P
  <2>1. n + P - 1 \in Nat
    OBVIOUS
  <2> QED
    BY <2>1, Quotient
<1> HIDE DEF i, q
<1>3. i < q
  <2> SUFFICES ASSUME q <= i PROVE FALSE
    BY <1>1, <1>2
  <2>1. q * P <= i * P
    BY <1>1, <1>2
  <2>2. q * P \in Int /\ i * P \in Int
    BY <1>1, <1>2
  <2> QED
    BY <1>1, <1>2, <2>1, <2>2
<1> QED
  BY <1>1, <1>2, <1>3 DEF i, q, CeilOf

LEMMA AssignedInType ==
    ASSUME NEW g, NEW a \in Nat, NEW b \in Nat
    PROVE  AssignedIn(g, a, b) \in Nat
<1> DEFINE A == {v \in a .. b - 1 : g[v] # kUnassigned}
<1>1. IsFiniteSet(a .. b - 1) /\ A \in SUBSET (a .. b - 1)
  BY FS_Interval
<1>2. IsFiniteSet(A)
  BY <1>1, FS_Subset
<1>3. Cardinality(A) \in Nat
  BY <1>2, FS_CardinalityType
<1> QED
  BY <1>3 DEF AssignedIn

LEMMA AssignedInIs ==
    ASSUME NEW g, NEW a \in Nat, NEW b \in Nat, NEW c \in Nat, a <= b, b <= c
    PROVE  /\ AssignedIn(g, a, b) \in Nat
           /\ AssignedIn(g, a, c) = AssignedIn(g, a, b) + AssignedIn(g, b, c)
           /\ b < c /\ g[b] # kUnassigned => AssignedIn(g, a, b) < AssignedIn(g, a, c)
<1> DEFINE In(x, y) == {v \in x .. y - 1 : g[v] # kUnassigned}
<1>1. \A x, y \in Nat : IsFiniteSet(In(x, y)) /\ Cardinality(In(x, y)) \in Nat
  <2> SUFFICES ASSUME NEW x \in Nat, NEW y \in Nat
               PROVE  IsFiniteSet(In(x, y)) /\ Cardinality(In(x, y)) \in Nat
    OBVIOUS
  <2>1. IsFiniteSet(x .. y - 1)
    BY FS_Interval
  <2>2. In(x, y) \in SUBSET (x .. y - 1)
    OBVIOUS
  <2>3. IsFiniteSet(In(x, y))
    BY <2>1, <2>2, FS_Subset
  <2> QED
    BY <2>3, FS_CardinalityType
<1>2. In(a, c) = In(a, b) \cup In(b, c) /\ In(a, b) \cap In(b, c) = {}
  OBVIOUS
<1>3. Cardinality(In(a, c)) = Cardinality(In(a, b)) + Cardinality(In(b, c))
  <2> DEFINE L == In(a, b)
             R == In(b, c)
  <2>1. IsFiniteSet(L) /\ IsFiniteSet(R) /\ Cardinality(L) \in Nat /\ Cardinality(R) \in Nat
    BY <1>1
  <2>2. L \cap R = {} /\ In(a, c) = L \cup R
    BY <1>2
  <2> HIDE DEF L, R
  <2>3. Cardinality(L \cup R) = Cardinality(L) + Cardinality(R) - Cardinality(L \cap R)
    BY <2>1, FS_Union
  <2>4. Cardinality(L \cup R) = Cardinality(L) + Cardinality(R)
    BY <2>1, <2>2, <2>3, FS_EmptySet
  <2> QED
    BY <2>2, <2>4 DEF L, R
<1>4. ASSUME b < c, g[b] # kUnassigned PROVE Cardinality(In(b, c)) # 0
  <2>1. b \in In(b, c)
    BY <1>4
  <2> QED
    BY <1>1, <2>1, FS_EmptySet
<1>5. /\ AssignedIn(g, a, b) = Cardinality(In(a, b))
      /\ AssignedIn(g, b, c) = Cardinality(In(b, c))
      /\ AssignedIn(g, a, c) = Cardinality(In(a, c))
  BY DEF AssignedIn
<1>6. Cardinality(In(a, b)) \in Nat /\ Cardinality(In(b, c)) \in Nat
  BY <1>1
<1> HIDE DEF In
<1> QED
  BY <1>3, <1>4, <1>5, <1>6

\* The rank of a vertex counts the assigned vertices before it, whatever the steps.
LEMMA RankCounts ==
    ASSUME NEW n \in Nat, NEW g, NEW v \in 0 .. n - 1
    PROVE  Rank(Ranking(n, g), g, v) = AssignedIn(g, 0, v)
<1> DEFINE P == 2 ^ RankBits
           i == v \div P
<1>1. P \in Nat \ {0}
  BY IndexAssumption, PowerOfTwo
<1>a. /\ Ranking(n, g) = [j \in 0 .. CeilOf(n, P) - 1 |-> AssignedIn(g, 0, j * P)]
      /\ Rank(Ranking(n, g), g, v) = Ranking(n, g)[i] + AssignedIn(g, i * P, v)
  BY DEF Ranking, Rank
<1> HIDE DEF P
<1>2. i \in 0 .. CeilOf(n, P) - 1
  BY <1>1, StepOf
<1>3. i \in Nat /\ i * P \in Nat /\ i * P <= v /\ v \in Nat
  <2>1. v \in Nat
    OBVIOUS
  <2>2. i \in Nat /\ i * P <= v
    BY <1>1, <2>1, Quotient
  <2> HIDE DEF i
  <2> QED
    BY <1>1, <2>1, <2>2
<1> HIDE DEF i
<1>4. Ranking(n, g)[i] = AssignedIn(g, 0, i * P)
  BY <1>2, <1>a
<1> DEFINE b == i * P
<1>5. b \in Nat /\ 0 <= b /\ b <= v /\ v \in Nat
  BY <1>3
<1> HIDE DEF b
<1>6. AssignedIn(g, 0, v) = AssignedIn(g, 0, b) + AssignedIn(g, b, v)
  <2> DEFINE z == 0
  <2>1. z \in Nat /\ z <= b
    BY <1>5
  <2> HIDE DEF z
  <2>2. AssignedIn(g, z, v) = AssignedIn(g, z, b) + AssignedIn(g, b, v)
    BY <1>5, <2>1, AssignedInIs
  <2> QED
    BY <2>2 DEF z
<1> QED
  BY <1>4, <1>6, <1>a DEF b
-----------------------------------------------------------------------------
(***************************************************************************)
(* The functions.                                                          *)
(***************************************************************************)
\* The graph has as many vertices in a part as it has keys at most, but at least one.
LEMMA PartSizeType ==
    ASSUME NEW m \in Nat \ {0}, m <= 2 ^ 30, NEW square \in BOOLEAN
    PROVE  PartSize(square, m) \in Nat \ {0}
<1> DEFINE third == CeilOf(123 * m, 300)
           r == IF third % 2 = 0 THEN third + 1 ELSE third
<1>1. r \in Nat \ {0} /\ r <= m
  <2>1. third \in Nat \ {0} /\ (third + 1 <= m \/ (third % 2 = 1 /\ third <= m))
    BY DEF CeilOf
  <2> HIDE DEF third
  <2> QED
    BY <2>1
<1>2. PartSize(square, m) = IF square THEN nextpoweroftwo(r) ELSE r
  BY DEF PartSize
<1> HIDE DEF r
<1> DEFINE U == {p \in PowersOfTwo : p >= r}
<1>3. PowersOfTwo \subseteq Nat
  BY PowerOfTwo DEF PowersOfTwo
<1>4. 2 ^ 30 \in PowersOfTwo
  BY DEF PowersOfTwo
<1>5. 2 ^ 30 \in U
  BY <1>1, <1>3, <1>4
<1>6. PICK p \in U : \A q \in U : p <= q
  <2>1. U \subseteq Nat /\ U # {}
    BY <1>3, <1>5
  <2> HIDE DEF U
  <2> QED
    BY <2>1, Smallest
<1>7. \E x : x \in PowersOfTwo /\ x >= r /\ \A q \in PowersOfTwo : q >= r => x <= q
  BY <1>6
<1>8. nextpoweroftwo(r) \in PowersOfTwo /\ nextpoweroftwo(r) >= r
  BY <1>7 DEF nextpoweroftwo
<1>9. nextpoweroftwo(r) \in Nat \ {0}
  <2> DEFINE power == nextpoweroftwo(r)
  <2>1. power \in Nat
    BY <1>3, <1>8
  <2>2. power >= r
    BY <1>8
  <2> HIDE DEF power
  <2>3. power # 0
    BY <1>1, <2>1, <2>2
  <2> QED
    BY <2>1, <2>3 DEF power
<1> QED
  BY <1>1, <1>2, <1>9

LEMMA EdgeType ==
    ASSUME NEW seed \in Seeds, NEW k \in IndexKey, NEW r \in Nat \ {0}
    PROVE  /\ Edge(seed, k, r) \in [1 .. 3 -> 0 .. 3 * r - 1]
           /\ \A i, j \in 1 .. 3 : i # j => Edge(seed, k, r)[i] # Edge(seed, k, r)[j]
<1> DEFINE E == Edge(seed, k, r)
           h == Hash128[seed][k]
<1>1. h \in [1 .. 3 -> Nat]
  BY IndexAssumption
<1> HIDE DEF h
<1>2. \A i \in 1 .. 3 : h[i] % r \in 0 .. r - 1
  BY <1>1
<1>3. E = [i \in 1 .. 3 |-> (h[i] % r) + (i - 1) * r]
  BY DEF Edge, h
<1> HIDE DEF E
<1>4. /\ E[1] = h[1] % r /\ E[2] = (h[2] % r) + r /\ E[3] = (h[3] % r) + 2 * r
  <2>1. /\ E[1] = (h[1] % r) + (1 - 1) * r
        /\ E[2] = (h[2] % r) + (2 - 1) * r
        /\ E[3] = (h[3] % r) + (3 - 1) * r
    BY <1>3
  <2>2. h[1] % r \in Int /\ h[2] % r \in Int
    BY <1>2
  <2> QED
    BY <2>1, <2>2
<1>5. E[1] \in 0 .. r - 1 /\ E[2] \in r .. 2 * r - 1 /\ E[3] \in 2 * r .. 3 * r - 1
  BY <1>2, <1>4
<1>6. E[1] \in 0 .. 3 * r - 1 /\ E[2] \in 0 .. 3 * r - 1 /\ E[3] \in 0 .. 3 * r - 1
  BY <1>5
<1>7. E[1] # E[2] /\ E[1] # E[3] /\ E[2] # E[3]
  BY <1>5
<1>8. E \in [1 .. 3 -> 0 .. 3 * r - 1]
  <2>1. \A i \in 1 .. 3 : i = 1 \/ i = 2 \/ i = 3
    OBVIOUS
  <2>2. \A i \in 1 .. 3 : E[i] \in 0 .. 3 * r - 1
    BY <1>6, <2>1
  <2> QED
    BY <1>3, <2>2
<1>9. \A i, j \in 1 .. 3 : i # j => E[i] # E[j]
  <2>1. \A i \in 1 .. 3 : i = 1 \/ i = 2 \/ i = 3
    OBVIOUS
  <2> QED
    BY <1>7, <2>1
<1> QED
  BY <1>8, <1>9 DEF E

\* The keys in the order in which Reset meets them.
Orders(S) == {keys \in [1 .. Cardinality(S) -> S] :
                 \A i, j \in 1 .. Cardinality(S) : i # j => keys[i] # keys[j]}

EdgesFor(seed, keys, r) == [e \in DOMAIN keys |-> Edge(seed, keys[e], r)]

LEMMA OrderOf ==
    ASSUME NEW S, IsFiniteSet(S), NEW keys \in Orders(S)
    PROVE  /\ Len(keys) = Cardinality(S) /\ DOMAIN keys = 1 .. Cardinality(S)
           /\ Cardinality(S) \in Nat
           /\ \A k \in S : \E e \in 1 .. Cardinality(S) : keys[e] = k
<1> DEFINE n == Cardinality(S)
<1>1. n \in Nat
  BY FS_CardinalityType
<1>2. keys \in [1 .. n -> S] /\ \A i, j \in 1 .. n : i # j => keys[i] # keys[j]
  BY DEF Orders
<1> HIDE DEF n
<1>3. keys \in Injection(1 .. n, S)
  BY <1>2, Zenon DEF Injection, IsInjective
<1>4. IsFiniteSet(1 .. n) /\ Cardinality(1 .. n) = n
  BY <1>1, FS_Interval
<1>5. keys \in Surjection(1 .. n, S)
  BY <1>3, <1>4, FS_Injection DEF n
<1>6. \A k \in S : \E e \in 1 .. n : keys[e] = k
  BY <1>5 DEF Surjection
<1>7. Len(keys) = n /\ DOMAIN keys = 1 .. n
  BY <1>1, <1>2, FunctionIsSeq
<1> QED
  BY <1>1, <1>6, <1>7 DEF n

Whole(edges, queue) == \A e \in DOMAIN edges : \E p \in 1 .. Len(queue) : queue[p] = e

LEMMA WholeQueue ==
    ASSUME NEW edges \in Graph, NEW queue, GoodQueue(edges, queue), Len(queue) = Len(edges)
    PROVE  Whole(edges, queue)
<1> DEFINE m == Len(queue)
<1>1. m \in Nat /\ DOMAIN edges = 1 .. m /\ queue \in [1 .. m -> 1 .. m]
  <2>1. Len(edges) \in Nat /\ DOMAIN edges = 1 .. Len(edges)
    BY DEF Graph
  <2>2. queue \in Seq(DOMAIN edges)
    BY DEF GoodQueue
  <2>3. DOMAIN queue = 1 .. m /\ \A p \in 1 .. m : queue[p] \in DOMAIN edges
    BY <2>2
  <2>4. queue \in [1 .. m -> DOMAIN edges]
    BY <2>2
  <2> QED
    BY <2>1, <2>4
<1>2. \A i, j \in 1 .. m : i # j => queue[i] # queue[j]
  BY DEF GoodQueue
<1> HIDE DEF m
<1>3. queue \in Injection(1 .. m, 1 .. m)
  BY <1>1, <1>2, Zenon DEF Injection, IsInjective
<1>4. IsFiniteSet(1 .. m)
  BY <1>1, FS_Interval
<1>5. queue \in Surjection(1 .. m, 1 .. m)
  BY <1>3, <1>4, FS_Injection
<1> QED
  BY <1>1, <1>5 DEF Surjection, m, Whole
\* What PerfectFunctions says of one function.
PerfectOn(f, S, ix) ==
    /\ ix = [n |-> ix.n, id |-> ix.id]
    /\ ix.n \in Nat \ {0} /\ ix.id \in [IndexKey -> Nat \ {0}]
    /\ \A k \in S : ix.id[k] <= ix.n
    /\ \A k, l \in S : ix.id[k] = ix.id[l] => k = l
    /\ f = "sparse" => ix.n = Cardinality(S)

LEMMA FunctionIsPerfect ==
    ASSUME NEW S \in SUBSET IndexKey, S # {}, IsFiniteSet(S), Cardinality(S) <= 2 ^ 30,
           NEW f, NEW keys \in Orders(S), NEW seed \in Seeds,
           NEW r, r = PartSize(f = "dense", Len(keys)),
           Mapped(seed, keys, r), DegreesFit(EdgesFor(seed, keys, r))
    PROVE  PerfectOn(f, S, Function(f, seed, keys))
<1> DEFINE m == Cardinality(S)
           n == 3 * r
           cells == 0 .. 4 * CeilOf(n, 4) - 1
           edges == EdgesFor(seed, keys, r)
           queue == GenerateQueue(edges)
           g == Assigning(n, edges, queue)
           vertex == [k \in IndexKey |-> perfect_hash(seed, r, g, k)]
           table == Ranking(n, g)
           Vertex(p) == Chosen(g, edges[queue[p]])
<1>1. /\ Len(keys) = m /\ DOMAIN keys = 1 .. m /\ m \in Nat \ {0}
      /\ \A k \in S : \E e \in 1 .. m : keys[e] = k
      /\ keys \in [1 .. m -> S]
  BY OrderOf, FS_EmptySet DEF Orders
<1>2. r \in Nat \ {0}
  <2> DEFINE square == f = "dense"
  <2>1. square \in BOOLEAN /\ m <= 2 ^ 30 /\ r = PartSize(square, m)
    BY <1>1
  <2> HIDE DEF square, m
  <2>2. PartSize(square, m) \in Nat \ {0}
    BY <1>1, <2>1, PartSizeType
  <2> QED
    BY <2>1, <2>2
<1>3. n \in Nat \ {0} /\ cells \subseteq Nat /\ 0 .. n - 1 \subseteq cells
  <2>1. n \in Nat \ {0}
    BY <1>2
  <2> HIDE DEF n
  <2>2. n <= 4 * CeilOf(n, 4) /\ CeilOf(n, 4) \in Nat
    BY <2>1 DEF CeilOf
  <2> QED
    BY <2>1, <2>2
<1>4. \A e \in 1 .. m : /\ edges[e] = Edge(seed, keys[e], r)
                        /\ edges[e] \in [1 .. 3 -> 0 .. n - 1]
                        /\ \A i, j \in 1 .. 3 : i # j => edges[e][i] # edges[e][j]
  <2> SUFFICES ASSUME NEW e \in 1 .. m
               PROVE  /\ edges[e] = Edge(seed, keys[e], r)
                      /\ edges[e] \in [1 .. 3 -> 0 .. n - 1]
                      /\ \A i, j \in 1 .. 3 : i # j => edges[e][i] # edges[e][j]
    OBVIOUS
  <2> DEFINE k == keys[e]
  <2>1. k \in IndexKey /\ edges[e] = Edge(seed, k, r)
    BY <1>1 DEF EdgesFor
  <2> HIDE DEF k, edges
  <2>2. /\ Edge(seed, k, r) \in [1 .. 3 -> 0 .. 3 * r - 1]
        /\ \A i, j \in 1 .. 3 : i # j => Edge(seed, k, r)[i] # Edge(seed, k, r)[j]
    BY <1>2, <2>1, EdgeType
  <2> QED
    BY <2>1, <2>2 DEF k
<1>5. ProperGraph(edges, cells) /\ edges \in Graph /\ Len(edges) = m /\ DOMAIN edges = 1 .. m
  <2>1. edges = [e \in 1 .. m |-> edges[e]]
    BY <1>1 DEF EdgesFor
  <2> HIDE DEF edges, cells, m
  <2>2. \A e \in 1 .. m : edges[e] \in [1 .. 3 -> Nat]
    BY <1>3, <1>4
  <2>3. edges \in [1 .. m -> [1 .. 3 -> Nat]]
    BY <2>1, <2>2
  <2>4. edges \in Seq([1 .. 3 -> Nat]) /\ Len(edges) = m
    BY <1>1, <2>3, FunctionIsSeq
  <2>5. DOMAIN edges = 1 .. m
    BY <2>1
  <2> QED
    BY <1>3, <1>4, <2>4, <2>5 DEF ProperGraph, Graph
<1> HIDE DEF edges, cells
<1>6. GoodQueue(edges, queue) /\ Len(queue) = m
  <2>1. edges = [e \in DOMAIN keys |-> Edge(seed, keys[e], r)] /\ DegreesFit(edges)
    BY DEF edges, EdgesFor
  <2>2. Len(queue) = Len(keys)
    BY <2>1 DEF Mapped
  <2> QED
    BY <1>1, <1>5, <2>1, <2>2, QueueIsGood
<1> HIDE DEF queue, m
<1>7. PICK t : g = t.g /\ Assigned(edges, cells, queue, t, Len(queue))
  <2>1. cells = 0 .. 4 * CeilOf(n, 4) - 1
    BY DEF cells
  <2>2. n \in Nat
    BY <1>3
  <2> HIDE DEF n
  <2> QED
    BY <1>5, <1>6, <2>1, <2>2, AssigningIsGood
<1> HIDE DEF g
<1>8. /\ g \in [cells -> 0 .. 3]
      /\ \A p \in 1 .. m : g[Vertex(p)] # kUnassigned
      /\ \A p, q \in 1 .. m : p # q => Vertex(p) # Vertex(q)
      /\ \A v \in cells : g[v] # kUnassigned => \E p \in 1 .. m : v = Vertex(p)
  <2>1. Len(queue) + 1 - Len(queue) = 1
    BY <1>1, <1>6
  <2> QED
    BY <1>6, <1>7, <2>1 DEF Assigned
<1>9. \A p \in 1 .. m : Vertex(p) \in 0 .. n - 1
  <2> SUFFICES ASSUME NEW p \in 1 .. m PROVE Vertex(p) \in 0 .. n - 1
    OBVIOUS
  <2> DEFINE v == edges[queue[p]]
  <2>1. v \in [1 .. 3 -> 0 .. n - 1]
    <3>1. queue \in Seq(1 .. m)
      BY <1>5, <1>6 DEF GoodQueue
    <3>2. queue[p] \in 1 .. m
      BY <1>6, <3>1
    <3> QED
      BY <1>4, <3>2
  <2>2. v \in [1 .. 3 -> cells]
    BY <1>3, <2>1
  <2> HIDE DEF v
  <2>3. PICK i \in 1 .. 3 : Chosen(g, v) = v[i]
    BY <1>8, <2>2, ChosenIsOne
  <2> QED
    BY <2>1, <2>3 DEF v
<1>10. \A k \in IndexKey : vertex[k] = Chosen(g, Edge(seed, k, r)) /\ vertex[k] \in 0 .. n - 1
  <2> SUFFICES ASSUME NEW k \in IndexKey
               PROVE  vertex[k] = Chosen(g, Edge(seed, k, r)) /\ vertex[k] \in 0 .. n - 1
    OBVIOUS
  <2>1. vertex[k] = Chosen(g, Edge(seed, k, r))
    BY DEF perfect_hash, Chosen
  <2> DEFINE v == Edge(seed, k, r)
  <2>2. v \in [1 .. 3 -> 0 .. n - 1]
    BY <1>2, EdgeType
  <2>3. v \in [1 .. 3 -> cells]
    BY <1>3, <2>2
  <2> HIDE DEF v
  <2>4. PICK i \in 1 .. 3 : Chosen(g, v) = v[i]
    BY <1>8, <2>3, ChosenIsOne
  <2> QED
    BY <2>1, <2>2, <2>4 DEF v
<1> HIDE DEF vertex
\* Every key has a place p in the queue, and another key another one.
<1>11. \A k \in S : \E p \in 1 .. m : keys[queue[p]] = k /\ vertex[k] = Vertex(p)
  <2> SUFFICES ASSUME NEW k \in S
               PROVE  \E p \in 1 .. m : keys[queue[p]] = k /\ vertex[k] = Vertex(p)
    OBVIOUS
  <2>1. PICK e \in 1 .. m : keys[e] = k
    BY <1>1
  <2>2. PICK p \in 1 .. m : queue[p] = e
    <3>1. Len(queue) = Len(edges)
      BY <1>5, <1>6
    <3>2. Whole(edges, queue)
      BY <1>5, <1>6, <3>1, WholeQueue
    <3> QED
      BY <1>5, <1>6, <2>1, <3>2 DEF Whole
  <2>3. Vertex(p) = Chosen(g, Edge(seed, k, r))
    BY <1>4, <2>1, <2>2
  <2> QED
    BY <1>10, <2>1, <2>2, <2>3
<1>12. \A k, l \in S : vertex[k] = vertex[l] => k = l
  <2> SUFFICES ASSUME NEW k \in S, NEW l \in S, vertex[k] = vertex[l] PROVE k = l
    OBVIOUS
  <2>1. PICK p \in 1 .. m : keys[queue[p]] = k /\ vertex[k] = Vertex(p)
    BY <1>11
  <2>2. PICK q \in 1 .. m : keys[queue[q]] = l /\ vertex[l] = Vertex(q)
    BY <1>11
  <2>3. p = q
    BY <1>8, <2>1, <2>2
  <2> QED
    BY <2>1, <2>2, <2>3
<1>13. \A k \in S : g[vertex[k]] # kUnassigned
  BY <1>8, <1>11
<1>14. CASE f # "sparse"
  <2> DEFINE ix == [n |-> n, id |-> [k \in IndexKey |-> vertex[k] + 1]]
  <2>1. Function(f, seed, keys) = ix
    BY <1>14 DEF Function, vertex, g, queue, edges, EdgesFor
  <2>2. ix.n = n /\ ix.id = [k \in IndexKey |-> vertex[k] + 1]
    OBVIOUS
  <2>3. ix.id \in [IndexKey -> Nat \ {0}] /\ \A k \in IndexKey : ix.id[k] = vertex[k] + 1
    BY <1>3, <1>10
  <2>4. \A k \in S : ix.id[k] <= n
    BY <1>3, <1>10, <2>3
  <2>5. \A k, l \in S : ix.id[k] = ix.id[l] => k = l
    <3> SUFFICES ASSUME NEW k \in S, NEW l \in S, ix.id[k] = ix.id[l] PROVE k = l
      OBVIOUS
    <3>1. vertex[k] \in Nat /\ vertex[l] \in Nat /\ vertex[k] + 1 = vertex[l] + 1
      BY <1>3, <1>10, <2>3
    <3> QED
      BY <1>12, <3>1
  <2> HIDE DEF n
  <2>6. ix = [n |-> ix.n, id |-> ix.id]
    OBVIOUS
  <2> HIDE DEF ix
  <2> QED
    BY <1>3, <1>14, <2>1, <2>2, <2>3, <2>4, <2>5, <2>6 DEF PerfectOn
<1>15. CASE f = "sparse"
  <2> DEFINE Count(v) == AssignedIn(g, 0, v)
             ix == [n |-> Len(keys), id |-> [k \in IndexKey |-> Rank(table, g, vertex[k]) + 1]]
  <2>1. Function(f, seed, keys) = ix
    BY <1>15 DEF Function, vertex, g, queue, edges, EdgesFor
  <2>2. \A k \in IndexKey : vertex[k] \in Nat /\ Count(vertex[k]) \in Nat
                            /\ Rank(table, g, vertex[k]) = Count(vertex[k])
    <3> SUFFICES ASSUME NEW k \in IndexKey
                 PROVE  vertex[k] \in Nat /\ Count(vertex[k]) \in Nat
                            /\ Rank(table, g, vertex[k]) = Count(vertex[k])
      OBVIOUS
    <3> DEFINE v == vertex[k]
    <3>1. v \in 0 .. n - 1 /\ v \in Nat /\ n \in Nat
      BY <1>3, <1>10
    <3> HIDE DEF v, n
    <3>2. Rank(Ranking(n, g), g, v) = AssignedIn(g, 0, v)
      BY <3>1, RankCounts
    <3>3. AssignedIn(g, 0, v) \in Nat
      BY <3>1, AssignedInType
    <3> QED
      BY <3>1, <3>2, <3>3 DEF v, n
  <2>3. ix.n = m /\ ix.id = [k \in IndexKey |-> Rank(table, g, vertex[k]) + 1]
    BY <1>1
  <2>4. ix.id \in [IndexKey -> Nat \ {0}] /\ \A k \in IndexKey : ix.id[k] = Count(vertex[k]) + 1
    BY <2>2
  <2>5. ASSUME NEW u \in Nat, NEW v \in Nat, u < v, g[u] # kUnassigned PROVE Count(u) < Count(v)
    <3> DEFINE z == 0
    <3>1. z \in Nat /\ z <= u /\ u <= v
      BY <2>5
    <3> HIDE DEF z
    <3>2. AssignedIn(g, z, u) < AssignedIn(g, z, v)
      BY <2>5, <3>1, AssignedInIs
    <3> QED
      BY <3>2 DEF z
  <2>6. \A k, l \in S : ix.id[k] = ix.id[l] => k = l
    <3> SUFFICES ASSUME NEW k \in S, NEW l \in S, ix.id[k] = ix.id[l] PROVE vertex[k] = vertex[l]
      BY <1>12
    <3>1. /\ vertex[k] \in Nat /\ vertex[l] \in Nat
          /\ Count(vertex[k]) \in Nat /\ Count(vertex[l]) \in Nat
          /\ Count(vertex[k]) = Count(vertex[l])
      BY <2>2, <2>4
    <3>2. ~ (vertex[k] < vertex[l])
      BY <1>13, <2>5, <3>1
    <3>3. ~ (vertex[l] < vertex[k])
      BY <1>13, <2>5, <3>1
    <3> QED
      BY <3>1, <3>2, <3>3
  <2>7. Count(n) <= m
    <3> DEFINE A == {v \in 0 .. n - 1 : g[v] # kUnassigned}
               own == [p \in 1 .. m |-> Vertex(p)]
    <3>1. A \subseteq {own[p] : p \in 1 .. m}
      BY <1>3, <1>8
    <3>2. IsFiniteSet(1 .. m) /\ Cardinality(1 .. m) = m
      BY <1>1, FS_Interval
    <3> HIDE DEF own
    <3> DEFINE B == {own[p] : p \in 1 .. m}
    <3>3. IsFiniteSet(B) /\ Cardinality(B) <= m
      <4>1. own \in Surjection(1 .. m, B)
        BY DEF own, Surjection
      <4> HIDE DEF B
      <4> QED
        BY <3>2, <4>1, FS_Surjection
    <3> HIDE DEF A, B
    <3>4. IsFiniteSet(A) /\ Cardinality(A) <= Cardinality(B)
      BY <3>1, <3>3, FS_Subset DEF B
    <3>5. Cardinality(A) \in Nat /\ Cardinality(B) \in Nat
      BY <3>3, <3>4, FS_CardinalityType
    <3>6. Count(n) = Cardinality(A)
      BY DEF AssignedIn, A
    <3> QED
      BY <1>1, <3>3, <3>4, <3>5, <3>6
  <2>8. \A k \in S : ix.id[k] <= m
    <3> SUFFICES ASSUME NEW k \in S PROVE Count(vertex[k]) + 1 <= m
      BY <2>4
    <3> DEFINE v == vertex[k]
    <3>1. v \in Nat /\ v < n /\ n \in Nat /\ g[v] # kUnassigned
      BY <1>3, <1>10, <1>13
    <3>2. Count(v) \in Nat
      BY <2>2
    <3> HIDE DEF v, n
    <3>3. Count(v) < Count(n)
      BY <2>5, <3>1
    <3>4. Count(n) \in Nat
      BY <3>1, AssignedInType
    <3> HIDE DEF Count
    <3>5. Count(v) + 1 <= m
      BY <1>1, <2>7, <3>2, <3>3, <3>4
    <3> QED
      BY <3>5 DEF v
  <2>9. ix = [n |-> ix.n, id |-> ix.id]
    OBVIOUS
  <2> HIDE DEF ix
  <2> QED
    BY <1>1, <2>1, <2>3, <2>4, <2>6, <2>8, <2>9 DEF PerfectOn, m
<1> QED
  BY <1>14, <1>15
-----------------------------------------------------------------------------
(***************************************************************************)
(* What Reset may make: the function of a seed whose graph can be peeled,  *)
(* for the keys in some order.  The degrees are bytes: the theorems assume *)
(* that none wraps around, and that there are not more keys than the       *)
(* powers of two reach.                                                    *)
(***************************************************************************)
MadeByReset(f, S, ix) ==
    \E keys \in Orders(S), seed \in Seeds :
        LET r == PartSize(f = "dense", Len(keys))
        IN  /\ Mapped(seed, keys, r) /\ DegreesFit(EdgesFor(seed, keys, r))
            /\ ix = Function(f, seed, keys)

ResetMakesIndexes ==
    /\ IndexKey = UserKey /\ IsFiniteSet(UserKey) /\ Cardinality(UserKey) <= 2 ^ 30
    /\ \A f \in Flavors : \A S \in (SUBSET UserKey) \ {{}} : \A ix \in Reset(f, S) :
          MadeByReset(f, S, ix)

LEMMA IndexesArePerfect ==
    ASSUME ResetMakesIndexes
    PROVE  PerfectFunctions
<1> SUFFICES ASSUME NEW f \in Flavors, NEW S \in (SUBSET UserKey) \ {{}}, NEW ix \in Reset(f, S)
             PROVE  PerfectOn(f, S, ix)
  BY DEF PerfectFunctions, PerfectOn, ResetMakesIndexes
<1>1. S \in SUBSET IndexKey /\ S # {} /\ IsFiniteSet(S) /\ Cardinality(S) <= 2 ^ 30
  <2>1. IsFiniteSet(S) /\ Cardinality(S) <= Cardinality(UserKey)
    BY FS_Subset DEF ResetMakesIndexes
  <2>2. Cardinality(S) \in Nat /\ Cardinality(UserKey) \in Nat
    BY <2>1, FS_CardinalityType DEF ResetMakesIndexes
  <2>3. 30 \in Nat /\ 2 ^ 30 \in Nat
    BY PowerOfTwo
  <2> QED
    BY <2>1, <2>2, <2>3 DEF ResetMakesIndexes
<1>2. PICK keys \in Orders(S), seed \in Seeds :
          /\ Mapped(seed, keys, PartSize(f = "dense", Len(keys)))
          /\ DegreesFit(EdgesFor(seed, keys, PartSize(f = "dense", Len(keys))))
          /\ ix = Function(f, seed, keys)
  BY DEF ResetMakesIndexes, MadeByReset
<1> QED
  BY <1>1, <1>2, FunctionIsPerfect

(***************************************************************************)
(* BDZ as mph_index.h builds it is perfect: for every set of keys, every   *)
(* order of them and every seed whose graph can be peeled, each key has a  *)
(* position of its own within the size of the function.                    *)
(***************************************************************************)
THEOREM IndexIsPerfect ==
    ASSUME ResetMakesIndexes
    PROVE  Spec => []ResetPerfect
<1>1. ResetPerfect
  BY IndexesArePerfect DEF ResetPerfect
<1> QED
  BY <1>1, PTL

(***************************************************************************)
(* The maps over the functions of mph_index.h implement StdMap, with no    *)
(* assumption on the functions but that mph_index.h made them.             *)
(***************************************************************************)
THEOREM MapOverIndexImplements ==
    ASSUME ResetMakesIndexes, DefaultKey \notin UserKey
    PROVE  Spec => ImplementsMap
<1>1. Trusted
  BY IndexesArePerfect DEF Trusted, ResetMakesIndexes
<1> QED
  BY <1>1, MapImplements

(***************************************************************************)
(* Two keys always collide: their graph has one edge twice, whatever the   *)
(* seed, so that Reset fails and the map exits.                            *)
(***************************************************************************)
THEOREM TwoKeysNeverMapped ==
    ASSUME NEW S \in SUBSET IndexKey, IsFiniteSet(S), Cardinality(S) = 2, NEW f,
           NEW keys \in Orders(S)
    PROVE  ResetIndex(f, keys) = {}
<1> DEFINE r == PartSize(f = "dense", Len(keys))
<1>1. /\ Len(keys) = 2 /\ DOMAIN keys = 1 .. 2 /\ keys \in [1 .. 2 -> S]
  BY OrderOf DEF Orders
<1>2. r = 1
  <2>1. CeilOf(123 * 2, 300) = 1
    BY DEF CeilOf
  <2>2. r = IF f = "dense" THEN nextpoweroftwo(1) ELSE 1
    BY <1>1, <2>1 DEF PartSize
  <2>3. 2 ^ 0 = 1 /\ 2 ^ 0 \in PowersOfTwo
    BY DEF PowersOfTwo
  <2>4. \A p \in PowersOfTwo : p \in Nat \ {0}
    BY PowerOfTwo DEF PowersOfTwo
  <2>5. 1 \in PowersOfTwo /\ \A p \in PowersOfTwo : p >= 1 /\ (1 >= p => p = 1)
    BY <2>3, <2>4
  <2>6. \E p : p \in PowersOfTwo /\ p >= 1 /\ \A q \in PowersOfTwo : q >= 1 => p <= q
    BY <2>5
  <2> DEFINE x == nextpoweroftwo(1)
  <2>7. x \in PowersOfTwo /\ x >= 1 /\ \A q \in PowersOfTwo : q >= 1 => x <= q
    BY <2>6 DEF nextpoweroftwo
  <2>8. x = 1
    BY <2>5, <2>7
  <2> QED
    BY <2>2, <2>8
<1> SUFFICES ASSUME NEW seed \in Seeds, Mapped(seed, keys, 1) PROVE FALSE
  BY <1>2 DEF ResetIndex
<1> DEFINE edges == [e \in DOMAIN keys |-> Edge(seed, keys[e], 1)]
           queue == GenerateQueue(edges)
<1>3. /\ edges[1] \in [1 .. 3 -> 0 .. 2] /\ edges[2] \in [1 .. 3 -> 0 .. 2]
      /\ \A i \in 1 .. 3 : edges[1][i] = edges[2][i]
  <2> DEFINE a == Hash128[seed][keys[1]]
             b == Hash128[seed][keys[2]]
  <2>1. keys[1] \in IndexKey /\ keys[2] \in IndexKey
    BY <1>1
  <2>2. a \in [1 .. 3 -> Nat] /\ b \in [1 .. 3 -> Nat]
    BY <2>1, IndexAssumption
  <2>3. /\ edges[1] = [i \in 1 .. 3 |-> (a[i] % 1) + (i - 1) * 1]
        /\ edges[2] = [i \in 1 .. 3 |-> (b[i] % 1) + (i - 1) * 1]
    BY <1>1 DEF Edge
  <2> HIDE DEF a, b, edges
  <2>4. \A i \in 1 .. 3 : a[i] % 1 = 0 /\ b[i] % 1 = 0
    BY <2>2
  <2>5. /\ edges[1] = [i \in 1 .. 3 |-> i - 1]
        /\ edges[2] = [i \in 1 .. 3 |-> i - 1]
    BY <2>3, <2>4
  <2> QED
    BY <2>5
<1>4. edges \in Graph /\ DOMAIN edges = 1 .. 2 /\ Len(edges) = 2
  <2>1. edges = [e \in 1 .. 2 |-> edges[e]]
    BY <1>1
  <2> HIDE DEF edges
  <2>2. edges[1] \in [1 .. 3 -> Nat] /\ edges[2] \in [1 .. 3 -> Nat]
    BY <1>3
  <2>3. edges \in [1 .. 2 -> [1 .. 3 -> Nat]]
    BY <2>1, <2>2
  <2>4. edges \in Seq([1 .. 3 -> Nat]) /\ Len(edges) = 2
    <3> DEFINE two == 2
    <3>1. two \in Nat /\ edges \in [1 .. two -> [1 .. 3 -> Nat]]
      BY <2>3
    <3> HIDE DEF two
    <3>2. edges \in Seq([1 .. 3 -> Nat]) /\ Len(edges) = two
      BY <3>1, FunctionIsSeq
    <3> QED
      BY <3>2 DEF two
  <2> QED
    BY <2>1, <2>4 DEF Graph
<1>5. DegreesFit(edges)
  <2> SUFFICES ASSUME NEW v \in Nat
               PROVE  Cardinality(EdgesOf(edges, DOMAIN edges, v)) <= 2 ^ DegreeBits
    BY DEF DegreesFit
  <2> DEFINE E == EdgesOf(edges, DOMAIN edges, v)
             n == DegreeBits - 1
  <2>a. IsFiniteSet(1 .. 2) /\ Cardinality(1 .. 2) = 2
    <3> DEFINE u == 1
               w == 2
    <3>1. u \in Int /\ w \in Int /\ w = u + 1
      OBVIOUS
    <3> HIDE DEF u, w
    <3>2. IsFiniteSet(u .. w) /\ Cardinality(u .. w) = IF u > w THEN 0 ELSE w - u + 1
      BY <3>1, FS_Interval
    <3>3. Cardinality(u .. w) = 2
      BY <3>1, <3>2
    <3> QED
      BY <3>2, <3>3 DEF u, w
  <2>b. E \in SUBSET (1 .. 2)
    BY <1>4 DEF EdgesOf
  <2>1. IsFiniteSet(1 .. 2) /\ Cardinality(1 .. 2) = 2 /\ E \in SUBSET (1 .. 2)
    BY <2>a, <2>b
  <2>2. IsFiniteSet(E) /\ Cardinality(E) <= 2
    BY <2>1, FS_Subset
  <2>3. Cardinality(E) \in Nat
    BY <2>2, FS_CardinalityType
  <2>4. n \in Nat /\ n + 1 = DegreeBits
    BY IndexAssumption
  <2> HIDE DEF n, E
  <2>5. 2 ^ n \in Nat \ {0} /\ 2 ^ DegreeBits = 2 * 2 ^ n
    BY <2>4, PowerOfTwo
  <2> QED
    BY <2>2, <2>3, <2>5 DEF E
<1>6. Len(queue) = 2
  BY <1>1 DEF Mapped
<1>7. GoodQueue(edges, queue)
  <2> HIDE DEF edges
  <2> QED
    BY <1>4, <1>5, QueueIsGood
<1> HIDE DEF edges, queue
\* No vertex of the first edge in the queue is its own.
<1>8. queue[1] \in 1 .. 2 /\ Free(edges, queue, 1)
  <2>1. queue \in Seq(1 .. 2) /\ \A p \in 1 .. 2 : Free(edges, queue, p)
    BY <1>4, <1>6, <1>7 DEF GoodQueue
  <2>2. 1 \in 1 .. Len(queue) /\ 1 \in 1 .. 2
    BY <1>6
  <2> QED
    BY <2>1, <2>2
<1>9. PICK d \in 1 .. 2 : d # queue[1]
  BY <1>8
<1>10. \A i \in 1 .. 3 : Touches(edges, d, edges[queue[1]][i])
  BY <1>3, <1>8, <1>9 DEF Touches
<1> QED
  BY <1>4, <1>8, <1>9, <1>10 DEF Free
LEMMA TwoKeysFail ==
    ASSUME ResetMakesIndexes, NEW f \in Flavors, NEW S \in SUBSET UserKey, Cardinality(S) = 2
    PROVE  Reset(f, S) = {}
<1>1. S \in SUBSET IndexKey /\ IsFiniteSet(S)
  BY FS_Subset DEF ResetMakesIndexes
<1>2. S # {}
  BY FS_EmptySet
<1>3. ASSUME NEW ix \in Reset(f, S) PROVE FALSE
  <2>1. PICK keys \in Orders(S), seed \in Seeds :
            Mapped(seed, keys, PartSize(f = "dense", Len(keys)))
    BY <1>2, <1>3 DEF ResetMakesIndexes, MadeByReset
  <2>2. ResetIndex(f, keys) = {}
    BY <1>1, TwoKeysNeverMapped
  <2>. DEFINE Made(s) == Function(f, s, keys)
              Good == {s \in Seeds : Mapped(s, keys, PartSize(f = "dense", Len(keys)))}
  <2>3. seed \in Good /\ {Made(s) : s \in Good} = {}
    BY <2>1, <2>2 DEF ResetIndex
  <2>. HIDE DEF Made, Good
  <2>4. Made(seed) \in {Made(s) : s \in Good}
    BY <2>3
  <2>. QED
    BY <2>3, <2>4
<1>. QED
  BY <1>3

(***************************************************************************)
(* How NeverExits fails: rehash of a map of two elements always ends the   *)
(* process, whatever the seeds and the calls before.                       *)
(***************************************************************************)
THEOREM RehashOfTwoExits ==
    ASSUME ResetMakesIndexes, DefaultKey \notin UserKey
    PROVE  Spec => [][Rehash /\ size = 2 => status' = "exited"]_vars
<1>1. Trusted
  BY IndexesArePerfect DEF Trusted, ResetMakesIndexes
<1>2. ASSUME MapInv, Rehash, size = 2 PROVE status' = "exited"
  <2>1. Plain(values, present) /\ flavor \in Flavors /\ status = "ok" /\ Cardinality(Keys) = 2
    BY <1>2, SoundIsPlain DEF MapInv, Rehash
  <2>2. Keys \in SUBSET UserKey
    BY <2>1, KeysAreUser DEF Keys
  <2>3. Reset(flavor, Keys) = {} /\ Keys # {}
    BY <2>1, <2>2, TwoKeysFail, FS_EmptySet
  <2>4. values # << >>
    BY <2>1, <2>3, PlainDomain DEF Keys, KeysOf
  <2>. DEFINE a == Arrays
  <2>5. a.values = values /\ a.present = present
    BY DEF Arrays
  <2>. HIDE DEF a
  <2>6. PackOutcomes(a) = {}
    BY <2>3, <2>4, <2>5 DEF PackOutcomes, Keys
  <2>. QED
    BY <1>2, <2>6 DEF Rehash, Exits, a
<1>3. Spec => []MapInv
  BY <1>1, MapInvHolds
<1>4. MapInv /\ [Next]_vars => [Rehash /\ size = 2 => status' = "exited"]_vars
  BY <1>2
<1>. QED
  BY <1>3, <1>4, PTL DEF Spec
==============================================================================
