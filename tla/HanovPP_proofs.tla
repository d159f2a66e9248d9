--------------------------- MODULE HanovPP_proofs ---------------------------
(***************************************************************************)
(* Proofs about HanovPP for every set of keys, every dictionary and every  *)
(* hash function: type correctness, that the finished table is the         *)
(* dictionary (PerfectLookup), that no slot is stored twice, that the free *)
(* list never runs out and that the seed search skips no seed; then, of    *)
(* the finished table, that the C code and the packed bit vector answer    *)
(* what perfecthash answers.                                               *)
(***************************************************************************)
EXTENDS HanovLookups, Induction

USE KeyAssumption, DictAssumption, SeedAssumption, HashAssumption

-----------------------------------------------------------------------------
\* A hash value is taken modulo the table size, so it is an index of the table.
LEMMA HashModType ==
    ASSUME hash \in HashFamily, keys \in Seq(Key), size > 0,
           NEW k \in Key, NEW s \in 0 .. MaxSeed
    PROVE  HashMod(k, s) \in Slot
<1>1. hash[k][s] \in Nat
  OBVIOUS
<1>2. size \in Nat \ {0}
  BY DEF size
<1> QED
  BY <1>1, <1>2 DEF HashMod, Slot

\* _dict_init: the key list keeps the given keys as its prefix.
LEMMA PaddedKeysType ==
    ASSUME NEW ks \in Seq(Key), Len(ks) > 0
    PROVE  /\ PaddedKeys(ks) \in Seq(Key)
           /\ Len(PaddedKeys(ks)) >= Len(ks)
           /\ \A j \in 1 .. Len(ks) : PaddedKeys(ks)[j] = ks[j]
           /\ \A j \in 1 .. Len(PaddedKeys(ks)) :
                j > Len(ks) => PaddedKeys(ks)[j] = Empty
  BY DEF PaddedKeys, Padded

LEMMA HashValueType ==
    ASSUME NEW c \in Dict, c.kind = "HASH", NEW k
    PROVE  HashValue(c, k) \in Int \cup {Undef}
<1>1. c.values \in Seq(Int) /\ Len(c.values) = Len(c.keys)
  BY DEF DictType
<1> QED
  BY <1>1 DEF HashValue

-----------------------------------------------------------------------------
\* What the seed search and the two bucket lists keep to, besides the types.
BucketsOK ==
    /\ keys = PaddedKeys(dict.keys)
    /\ \A b \in Slot : \A p \in 1 .. Len(buckets[b]) :
            /\ buckets[b][p] \in Elems(keys)
            /\ HashMod(buckets[b][p], 0) = b
    /\ \A j \in 1 .. i - 1 :
            \E p \in 1 .. Len(buckets[HashMod(keys[j], 0)]) :
                buckets[HashMod(keys[j], 0)][p] = keys[j]
    /\ pc = "place" => todo = Slot /\ V = [s \in Slot |-> Undef]
    /\ pc # "place" => i = size + 1

\* The state every step starts from.
Typed == TypeOK /\ BucketsOK /\ (pc = "try" => cur \notin todo /\ Len(buckets[cur]) > 1)

\* Every initial state has the types of TypeOK and the shape of Typed.
LEMMA InitTyped == Init => Typed
<1> SUFFICES ASSUME Init PROVE Typed
  OBVIOUS
<1>1. dict \in DictType /\ Len(dict.keys) > 0 /\ dict.keys \in Seq(Key)
  BY DEF Init, DictType
<1>2. keys \in Seq(Key) /\ size > 0 /\ size \in Nat
  <2>1. /\ PaddedKeys(dict.keys) \in Seq(Key)
        /\ Len(PaddedKeys(dict.keys)) >= Len(dict.keys)
    BY <1>1, PaddedKeysType
  <2>2. keys = PaddedKeys(dict.keys)
    BY DEF Init
  <2> QED
    BY <1>1, <2>1, <2>2 DEF size
<1>3. value \in [Key -> Int \cup {Undef}]
  BY HashValueType DEF Init, InitialValue
<1>4. buckets \in [Slot -> Seq(Key)] /\ \A b \in Slot : Len(buckets[b]) = 0
  BY DEF Init
<1>5. 0 \in Slot /\ 0 \in -size .. MaxSeed /\ 1 \in 1 .. MaxSeed
  BY <1>2 DEF Slot
<1>6. TypeOK
  BY <1>2, <1>3, <1>4, <1>5 DEF Init, TypeOK
<1>7. BucketsOK
  BY <1>2, <1>4 DEF Init, BucketsOK
<1> QED
  BY <1>6, <1>7 DEF Typed, Init

\* No action touches the dictionary, the hash function or the key list.
LEMMA InputFixed ==
    ASSUME [Next]_vars
    PROVE  /\ input' = input
           /\ size' = size /\ Slot' = Slot /\ Elems(keys)' = Elems(keys)
           /\ \A k, s : HashMod(k, s)' = HashMod(k, s)
<1>1. input' = input
  BY DEF Next, vars, PlaceKey, SortBuckets, PickBucket, TryItem, StoreBucket,
         MakeFreelist, StoreSingle, Finish, Terminating
<1>2. keys' = keys /\ hash' = hash
  BY <1>1 DEF input
<1> QED
  BY <1>1, <1>2 DEF size, Slot, Elems, HashMod

\* The next key goes to the bucket of its hash.
LEMMA PlaceKeyTyped == Typed /\ PlaceKey => Typed'
<1> SUFFICES ASSUME Typed, PlaceKey PROVE Typed'
  OBVIOUS
<1> USE DEF Typed
<1>0. /\ input' = input /\ size' = size /\ Slot' = Slot
      /\ Elems(keys)' = Elems(keys)
      /\ \A k, s : HashMod(k, s)' = HashMod(k, s)
  BY InputFixed DEF Next
<1>1. /\ keys[i] \in Key /\ keys[i] \in Elems(keys) /\ i \in 1 .. size
      /\ size \in Nat \ {0}
  <2>1. keys \in Seq(Key) /\ i \in 1 .. size + 1 /\ size > 0 /\ i <= size
    BY DEF PlaceKey, TypeOK
  <2>2. Len(keys) \in Nat /\ size = Len(keys)
    BY <2>1 DEF size
  <2>3. i \in 1 .. Len(keys)
    BY <2>1, <2>2
  <2> QED
    BY <2>1, <2>2, <2>3 DEF Elems
<1> DEFINE h == HashMod(keys[i], 0)
<1>2. h \in Slot
  BY <1>1, HashModType DEF TypeOK
<1>3. buckets' = [buckets EXCEPT ![h] = Append(@, keys[i])]
  BY DEF PlaceKey
<1>4. buckets' \in [Slot -> Seq(Key)]
  BY <1>1, <1>2, <1>3 DEF TypeOK
<1>5. value' \in [Key -> Int \cup {Undef}]
  <2>1. i - 1 \in Int /\ value \in [Key -> Int \cup {Undef}]
    BY <1>1 DEF TypeOK
  <2>2. value' = value \/ value' = [value EXCEPT ![keys[i]] = i - 1]
    BY DEF PlaceKey
  <2> QED
    BY <1>1, <2>1, <2>2
<1>6. TypeOK'
  <2>1. i' \in 1 .. size + 1
    BY <1>1 DEF PlaceKey
  <2>2. /\ keys' = keys /\ dict' = dict /\ hash' = hash
        /\ UNCHANGED <<todo, cur, d, slots, freelist, G, V, pc>>
    BY DEF PlaceKey, input
  <2> QED
    BY <1>0, <1>4, <1>5, <2>1, <2>2 DEF TypeOK
<1>7. \A b \in Slot : \A p \in 1 .. Len(buckets'[b]) :
        buckets'[b][p] \in Elems(keys) /\ HashMod(buckets'[b][p], 0) = b
  <2> SUFFICES ASSUME NEW b \in Slot, NEW p \in 1 .. Len(buckets'[b])
               PROVE  buckets'[b][p] \in Elems(keys) /\ HashMod(buckets'[b][p], 0) = b
    OBVIOUS
  <2>1. CASE b # h
    BY <2>1, <1>3 DEF TypeOK, BucketsOK
  <2>2. CASE b = h
    <3>1. buckets'[b] = Append(buckets[b], keys[i]) /\ buckets[b] \in Seq(Key)
      BY <2>2, <1>2, <1>3 DEF TypeOK
    <3>2. CASE p = Len(buckets[b]) + 1
      <4>1. buckets'[b][p] = keys[i]
        BY <3>1, <3>2, <1>1
      <4> QED
        BY <4>1, <2>2, <1>1
    <3>3. CASE p # Len(buckets[b]) + 1
      <4>1. p \in 1 .. Len(buckets[b]) /\ buckets'[b][p] = buckets[b][p]
        BY <3>1, <3>3, <1>1
      <4> QED
        BY <4>1 DEF BucketsOK
    <3> QED
      BY <3>2, <3>3
  <2> QED
    BY <2>1, <2>2
<1>8. \A j \in 1 .. i :
        \E p \in 1 .. Len(buckets'[HashMod(keys[j], 0)]) :
            buckets'[HashMod(keys[j], 0)][p] = keys[j]
  <2> SUFFICES ASSUME NEW j \in 1 .. i
               PROVE  \E p \in 1 .. Len(buckets'[HashMod(keys[j], 0)]) :
                        buckets'[HashMod(keys[j], 0)][p] = keys[j]
    OBVIOUS
  <2>1. keys[j] \in Key
    <3>1. keys \in Seq(Key) /\ j \in 1 .. Len(keys)
      BY <1>1 DEF TypeOK, size
    <3> QED
      BY <3>1
  <2> DEFINE g == HashMod(keys[j], 0)
  <2>2. g \in Slot
    BY <2>1, HashModType DEF TypeOK
  <2>3. buckets[g] \in Seq(Key) /\ buckets[h] \in Seq(Key)
    BY <1>2, <2>2 DEF TypeOK
  <2>4. CASE j = i
    <3>1. buckets'[g] = Append(buckets[g], keys[i])
      BY <2>4, <2>2, <1>3 DEF TypeOK
    <3>2. /\ Len(buckets[g]) + 1 \in 1 .. Len(buckets'[g])
          /\ buckets'[g][Len(buckets[g]) + 1] = keys[j]
      <4> HIDE DEF g
      <4> QED
        BY <3>1, <2>3, <2>4, <1>1
    <3> QED
      BY <3>2
  <2>5. CASE j # i
    <3>1. j \in 1 .. i - 1
      BY <2>5, <1>1
    <3>2. PICK p \in 1 .. Len(buckets[g]) : buckets[g][p] = keys[j]
      BY <3>1 DEF BucketsOK
    <3>3. p \in 1 .. Len(buckets'[g]) /\ buckets'[g][p] = buckets[g][p]
      <4>1. buckets'[g] = buckets[g] \/ buckets'[g] = Append(buckets[g], keys[i])
        BY <1>3, <2>2 DEF TypeOK
      <4> DEFINE old == buckets[g]
                 new == buckets'[g]
      <4>2. old \in Seq(Key) /\ keys[i] \in Key /\ p \in 1 .. Len(old)
        BY <2>3, <3>2, <1>1
      <4>3. new = old \/ new = Append(old, keys[i])
        BY <4>1
      <4> HIDE DEF old, new
      <4>4. p \in 1 .. Len(new) /\ new[p] = old[p]
        BY <4>2, <4>3
      <4> QED
        BY <4>4 DEF old, new
    <3> QED
      BY <3>2, <3>3
  <2> QED
    BY <2>4, <2>5
<1>9. BucketsOK'
  <2>1. /\ keys' = keys /\ dict' = dict /\ pc' = pc /\ pc = "place"
        /\ todo' = todo /\ V' = V /\ i' - 1 = i
    BY <1>1 DEF PlaceKey, input
  <2> HIDE DEF h
  <2> QED
    BY <2>1, <1>0, <1>7, <1>8 DEF BucketsOK
<1> QED
  BY <1>6, <1>9 DEF PlaceKey

\* After the buckets are filled no step changes them.
LEMMA BucketsKept ==
    ASSUME BucketsOK, [Next]_vars, UNCHANGED <<buckets, i>>,
           i = size + 1, pc' # "place"
    PROVE  BucketsOK'
<1>1. /\ input' = input /\ size' = size /\ Slot' = Slot
      /\ Elems(keys)' = Elems(keys)
      /\ \A k, s : HashMod(k, s)' = HashMod(k, s)
  BY InputFixed
<1>2. keys' = keys /\ dict' = dict
  BY <1>1 DEF input
<1> QED
  BY <1>1, <1>2 DEF BucketsOK

\* The steps that only move on to the next phase.
LEMMA PhaseTyped ==
    Typed /\ (SortBuckets \/ MakeFreelist \/ Finish \/ UNCHANGED vars) => Typed'
<1> SUFFICES ASSUME Typed, SortBuckets \/ MakeFreelist \/ Finish \/ UNCHANGED vars
             PROVE  Typed'
  OBVIOUS
<1> USE DEF Typed
<1>0. /\ input' = input /\ size' = size /\ Slot' = Slot
      /\ Elems(keys)' = Elems(keys)
      /\ \A k, s : HashMod(k, s)' = HashMod(k, s)
      /\ [Next]_vars
  BY InputFixed DEF Next
<1>1. keys' = keys /\ dict' = dict /\ hash' = hash
  BY <1>0 DEF input
<1>2. CASE SortBuckets
  <2>1. TypeOK'
    BY <1>0, <1>1, <1>2 DEF SortBuckets, TypeOK
  <2>2. i = size + 1
    BY <1>2 DEF SortBuckets, TypeOK, size
  <2>3. BucketsOK'
    BY <1>0, <1>2, <2>2, BucketsKept DEF SortBuckets
  <2> QED
    BY <1>2, <2>1, <2>3 DEF SortBuckets
<1>3. CASE MakeFreelist
  <2>1. TypeOK'
    BY <1>0, <1>1, <1>3 DEF MakeFreelist, TypeOK
  <2>2. BucketsOK'
    BY <1>0, <1>3, BucketsKept DEF MakeFreelist, BucketsOK
  <2> QED
    BY <1>3, <2>1, <2>2 DEF MakeFreelist
<1>4. CASE Finish
  <2>1. TypeOK'
    BY <1>0, <1>1, <1>4 DEF Finish, TypeOK
  <2>2. BucketsOK'
    BY <1>0, <1>4, BucketsKept DEF Finish, BucketsOK
  <2> QED
    BY <1>4, <2>1, <2>2 DEF Finish
<1>5. CASE UNCHANGED vars
  <2>1. UNCHANGED <<value, buckets, i, todo, cur, d, slots, freelist, G, V, pc>>
    BY <1>5 DEF vars
  <2> QED
    BY <1>0, <1>1, <2>1 DEF TypeOK, BucketsOK
<1> QED
  BY <1>2, <1>3, <1>4, <1>5

\* A bucket with two or more keys is taken for the seed search.
LEMMA PickBucketTyped == Typed /\ PickBucket => Typed'
<1> SUFFICES ASSUME Typed, PickBucket PROVE Typed'
  OBVIOUS
<1> USE DEF Typed
<1>0. /\ input' = input /\ size' = size /\ Slot' = Slot /\ [Next]_vars
  BY InputFixed DEF Next
<1>1. keys' = keys /\ dict' = dict /\ hash' = hash
  BY <1>0 DEF input
<1>2. PICK b \in todo : Len(buckets[b]) > 1 /\ cur' = b /\ todo' = todo \ {b}
  BY DEF PickBucket
<1>3. b \in Slot /\ todo' \subseteq Slot /\ 1 \in 1 .. MaxSeed
  BY <1>2 DEF TypeOK
<1>4. TypeOK'
  BY <1>0, <1>1, <1>2, <1>3 DEF PickBucket, TypeOK
<1>5. BucketsOK'
  BY <1>0, BucketsKept DEF PickBucket, BucketsOK
<1> QED
  BY <1>2, <1>4, <1>5 DEF PickBucket

\* An item of the bucket gets a slot, or the next seed is tried.
LEMMA TryItemTyped == Typed /\ TryItem => Typed'
<1> SUFFICES ASSUME Typed, TryItem PROVE Typed'
  OBVIOUS
<1> USE DEF Typed
<1>0. /\ input' = input /\ size' = size /\ Slot' = Slot /\ [Next]_vars
  BY InputFixed DEF Next
<1>1. keys' = keys /\ dict' = dict /\ hash' = hash
  BY <1>0 DEF input
<1> DEFINE p == Len(slots) + 1
           slot == HashMod(buckets[cur][p], d)
<1>2. buckets[cur] \in Seq(Key) /\ slots \in Seq(Slot) /\ d \in 1 .. MaxSeed
  BY DEF TypeOK
<1>3. p \in 1 .. Len(buckets[cur])
  BY <1>2 DEF TryItem
<1>4. buckets[cur][p] \in Key /\ d \in 0 .. MaxSeed
  BY <1>2, <1>3
<1>5. slot \in Slot
  BY <1>4, HashModType DEF TypeOK
<1>6. slots' \in Seq(Slot) /\ d' \in 1 .. MaxSeed
  <2>1. (d' = NextSeed(d) /\ slots' = << >>) \/ (slots' = Append(slots, slot) /\ d' = d)
    BY DEF TryItem
  <2>2. NextSeed(d) \in 1 .. MaxSeed
    BY <1>2 DEF NextSeed
  <2>3. << >> \in Seq(Slot) /\ Append(slots, slot) \in Seq(Slot)
    BY <1>2, <1>5
  <2> HIDE DEF slot
  <2> QED
    BY <1>2, <2>1, <2>2, <2>3
<1>7. TypeOK'
  BY <1>0, <1>1, <1>6 DEF TryItem, TypeOK
<1>8. BucketsOK'
  BY <1>0, BucketsKept DEF TryItem, BucketsOK
<1> QED
  BY <1>7, <1>8 DEF TryItem

\* The bucket's seed and values are stored.
LEMMA StoreBucketTyped == Typed /\ StoreBucket => Typed'
<1> SUFFICES ASSUME Typed, StoreBucket PROVE Typed'
  OBVIOUS
<1> USE DEF Typed
<1>0. /\ input' = input /\ size' = size /\ Slot' = Slot /\ [Next]_vars
  BY InputFixed DEF Next
<1>1. keys' = keys /\ dict' = dict /\ hash' = hash
  BY <1>0 DEF input
<1>2. /\ buckets[cur] \in Seq(Key) /\ slots \in Seq(Slot)
      /\ Len(slots) = Len(buckets[cur]) /\ Len(buckets[cur]) > 1
      /\ value \in [Key -> Int \cup {Undef}] /\ V \in [Slot -> Int \cup {Undef}]
  BY DEF StoreBucket, TypeOK
<1>3. V' \in [Slot -> Int \cup {Undef}]
  <2> SUFFICES ASSUME NEW s \in Slot PROVE V'[s] \in Int \cup {Undef}
    BY DEF StoreBucket
  <2>1. CASE s \in Elems(slots)
    <3> DEFINE j == CHOOSE q \in 1 .. Len(slots) : slots[q] = s
    <3>1. j \in 1 .. Len(slots)
      BY <2>1 DEF Elems
    <3> HIDE DEF j
    <3>2. buckets[cur][j] \in Key
      BY <1>2, <3>1
    <3>3. V'[s] = value[buckets[cur][j]]
      BY <2>1 DEF StoreBucket, j
    <3> QED
      BY <1>2, <3>2, <3>3
  <2>2. CASE s \notin Elems(slots)
    BY <1>2, <2>2 DEF StoreBucket
  <2> QED
    BY <2>1, <2>2
<1>4. G' \in [Slot -> -size .. MaxSeed]
  <2>1. d \in -size .. MaxSeed
    BY DEF TypeOK, size
  <2> QED
    BY <2>1 DEF StoreBucket, TypeOK
<1>5. TypeOK'
  BY <1>0, <1>1, <1>3, <1>4 DEF StoreBucket, TypeOK
<1>6. BucketsOK'
  BY <1>0, BucketsKept DEF StoreBucket, BucketsOK
<1> QED
  BY <1>5, <1>6 DEF StoreBucket

\* A one-key bucket gets a free slot.
LEMMA StoreSingleTyped == Typed /\ StoreSingle => Typed'
<1> SUFFICES ASSUME Typed, StoreSingle PROVE Typed'
  OBVIOUS
<1> USE DEF Typed
<1>0. /\ input' = input /\ size' = size /\ Slot' = Slot /\ [Next]_vars
  BY InputFixed DEF Next
<1>1. keys' = keys /\ dict' = dict /\ hash' = hash
  BY <1>0 DEF input
<1>2. PICK b \in todo, slot \in Popped(freelist) :
        /\ Len(buckets[b]) = 1
        /\ G' = [G EXCEPT ![HashMod(buckets[b][1], 0)] = -slot - 1]
        /\ V' = [V EXCEPT ![slot] = value[buckets[b][1]]]
        /\ freelist' = freelist \ {slot}
        /\ todo' = todo \ {b}
  BY DEF StoreSingle
<1>3. keys \in Seq(Key) /\ size > 0 /\ size \in Nat
  BY DEF TypeOK, size
<1>4. slot \in Slot
  <2>1. 0 \in Slot /\ freelist \subseteq Slot
    BY <1>3 DEF Slot, TypeOK
  <2>2. slot = 0 \/ slot \in freelist
    BY <1>2 DEF Popped
  <2> QED
    BY <2>1, <2>2
<1>5. -slot - 1 \in -size .. MaxSeed
  BY <1>3, <1>4 DEF Slot
<1>6. buckets[b][1] \in Key
  <2>1. buckets[b] \in Seq(Key) /\ Len(buckets[b]) = 1
    BY <1>2 DEF TypeOK
  <2> QED
    BY <2>1
<1>7. /\ G' \in [Slot -> -size .. MaxSeed] /\ V' \in [Slot -> Int \cup {Undef}]
      /\ freelist' \subseteq Slot /\ todo' \subseteq Slot
  <2>1. value[buckets[b][1]] \in Int \cup {Undef}
    BY <1>6 DEF TypeOK
  <2> QED
    BY <1>2, <1>4, <1>5, <2>1 DEF TypeOK
<1>8. TypeOK'
  BY <1>0, <1>1, <1>7 DEF StoreSingle, TypeOK
<1>9. BucketsOK'
  BY <1>0, BucketsKept DEF StoreSingle, BucketsOK
<1> QED
  BY <1>8, <1>9 DEF StoreSingle

LEMMA NextTyped == Typed /\ [Next]_vars => Typed'
  BY PlaceKeyTyped, PhaseTyped, PickBucketTyped, TryItemTyped, StoreBucketTyped,
     StoreSingleTyped DEF Next, Terminating

(***************************************************************************)
(* The types of the state hold throughout the construction, whatever the   *)
(* dictionary and the hash function.                                       *)
(***************************************************************************)
THEOREM TypeCorrect == Spec => []TypeOK
<1>1. Init => Typed
  BY InitTyped
<1>2. Typed /\ [Next]_vars => Typed'
  BY NextTyped
<1>3. Typed => TypeOK
  BY DEF Typed
<1> QED
  BY <1>1, <1>2, <1>3, PTL DEF Spec

-----------------------------------------------------------------------------
(***************************************************************************)
(* The inductive invariant behind PerfectLookup.  A bucket is pending      *)
(* until its seed or slot is stored.                                       *)
(***************************************************************************)
Pending == todo \cup (IF pc = "try" THEN {cur} ELSE {})

Stored(k) == k \in Elems(keys) /\ HashMod(k, 0) \notin Pending

\* The map from keys to values is the dictionary.
ValuesOK ==
    /\ dict.kind = "HASH" => \A k \in Key : value[k] = HashValue(dict, k)
    /\ dict.kind # "HASH" =>
        /\ \A k \in Key : \/ value[k] = Undef
                           \/ (value[k] \in Slot /\ keys[value[k] + 1] = k)
        /\ \A j \in 1 .. i - 1 : value[keys[j]] # Undef
    /\ \A s \in Slot : V[s] = Undef \/ \E k \in Key : V[s] = value[k]

\* Every stored key is found in its slot.
StoredOK ==
    \A b \in Slot \ Pending : \A p \in 1 .. Len(buckets[b]) :
        LET k == buckets[b][p]
        IN  SlotOf(k) \in Slot /\ (value[k] = Undef \/ V[SlotOf(k)] = value[k])

\* The slots tried for the current bucket are free, distinct and those of d.
SlotsOK ==
    pc = "try" =>
        /\ Len(slots) <= Len(buckets[cur])
        /\ \A p \in 1 .. Len(slots) : /\ slots[p] = HashMod(buckets[cur][p], d)
                                       /\ V[slots[p]] = Undef
        /\ \A p, q \in 1 .. Len(slots) : p # q => slots[p] # slots[q]

\* A slot that is taken was taken by a stored key; this bounds their number.
OccupiedOK ==
    /\ pc \in {"pick", "try"} =>
        \A s \in Slot : V[s] # Undef => \E k \in Key : Stored(k) /\ SlotOf(k) = s
    /\ pc \in {"single", "done"} =>
        /\ \A s \in Slot \ freelist : \E k \in Key : Stored(k) /\ SlotOf(k) = s
        /\ \A s \in freelist : V[s] = Undef
        /\ \A b \in todo : Len(buckets[b]) <= 1
    /\ pc = "done" => \A b \in todo : Len(buckets[b]) = 0

TableInv == Typed /\ ValuesOK /\ StoredOK /\ SlotsOK /\ OccupiedOK

LEMMA InitTable == Init => TableInv
<1> SUFFICES ASSUME Init PROVE TableInv
  OBVIOUS
<1>1. Typed
  BY InitTyped
<1>2. ValuesOK
  BY DEF Init, ValuesOK, InitialValue
<1>3. Pending = Slot
  BY DEF Init, Pending
<1> QED
  BY <1>1, <1>2, <1>3 DEF TableInv, Init, StoredOK, SlotsOK, OccupiedOK

\* Where a key is looked up depends on the hash function and on G alone.
LEMMA SlotOfKept ==
    ASSUME [Next]_vars, NEW k, G'[HashMod(k, 0)] = G[HashMod(k, 0)]
    PROVE  SlotOf(k)' = SlotOf(k)
<1>1. \A s : HashMod(k, s)' = HashMod(k, s)
  BY InputFixed
<1> QED
  BY <1>1 DEF SlotOf

\* The keys of a bucket hash to it, so the three parts of the invariant that
\* speak of stored keys only change for buckets whose entry of G changes.
LEMMA BucketKey ==
    ASSUME Typed, NEW b \in Slot, NEW p \in 1 .. Len(buckets[b])
    PROVE  /\ buckets[b][p] \in Key /\ buckets[b][p] \in Elems(keys)
           /\ HashMod(buckets[b][p], 0) = b
<1>1. buckets[b] \in Seq(Key)
  BY DEF Typed, TypeOK
<1> QED
  BY <1>1 DEF Typed, BucketsOK

\* Every key is in the bucket of its hash.
LEMMA KeyInBucket ==
    ASSUME Typed, pc # "place", NEW k \in Elems(keys)
    PROVE  /\ HashMod(k, 0) \in Slot
           /\ \E p \in 1 .. Len(buckets[HashMod(k, 0)]) :
                    buckets[HashMod(k, 0)][p] = k
<1>1. PICK j \in 1 .. Len(keys) : keys[j] = k
  BY DEF Elems
<1>2. keys \in Seq(Key) /\ size > 0 /\ size = Len(keys) /\ i = size + 1
  BY DEF Typed, TypeOK, BucketsOK, size
<1>3. j \in 1 .. i - 1 /\ k \in Key
  BY <1>1, <1>2
<1>4. HashMod(k, 0) \in Slot
  BY <1>2, <1>3, HashModType DEF Typed, TypeOK
<1> QED
  BY <1>1, <1>3, <1>4 DEF Typed, BucketsOK

\* Nothing is stored while the keys are put into their buckets.
LEMMA PlaceKeyTable == TableInv /\ PlaceKey => TableInv'
<1> SUFFICES ASSUME TableInv, PlaceKey PROVE TableInv'
  OBVIOUS
<1>0. /\ Typed /\ Typed' /\ input' = input /\ Slot' = Slot /\ size' = size
      /\ [Next]_vars
  BY NextTyped, InputFixed DEF TableInv, Next
<1>1. /\ keys' = keys /\ dict' = dict /\ pc = "place" /\ pc' = "place"
      /\ todo = Slot /\ todo' = Slot /\ V = [s \in Slot |-> Undef] /\ V' = V
      /\ i \in Nat \ {0} /\ i <= size /\ i' = i + 1
      /\ keys \in Seq(Key) /\ size = Len(keys)
  BY <1>0 DEF Typed, TypeOK, BucketsOK, PlaceKey, input, size
<1>2. Pending' = Slot'
  BY <1>0, <1>1 DEF Pending
<1>3. ValuesOK'
  <2>1. CASE dict.kind = "HASH"
    BY <2>1, <1>0, <1>1 DEF TableInv, ValuesOK, PlaceKey
  <2>2. CASE dict.kind # "HASH"
    <3>1. keys[i] \in Key
      BY <1>1
    <3>2. value' = [value EXCEPT ![keys[i]] = i - 1] /\ value \in [Key -> Int \cup {Undef}]
      BY <2>2, <1>0 DEF PlaceKey, Typed, TypeOK
    <3>3. i - 1 \in Slot /\ i - 1 # Undef /\ keys[(i - 1) + 1] = keys[i]
      BY <1>1 DEF Slot
    <3>4. \A k \in Key : \/ value'[k] = Undef
                         \/ (value'[k] \in Slot /\ keys[value'[k] + 1] = k)
      <4> SUFFICES ASSUME NEW k \in Key
                   PROVE \/ value'[k] = Undef
                         \/ (value'[k] \in Slot /\ keys[value'[k] + 1] = k)
        OBVIOUS
      <4>1. CASE k = keys[i]
        BY <4>1, <3>1, <3>2, <3>3
      <4>2. CASE k # keys[i]
        BY <4>2, <3>2, <2>2 DEF TableInv, ValuesOK
      <4> QED
        BY <4>1, <4>2
    <3>5. \A j \in 1 .. i : value'[keys[j]] # Undef
      <4> SUFFICES ASSUME NEW j \in 1 .. i PROVE value'[keys[j]] # Undef
        OBVIOUS
      <4>1. keys[j] \in Key
        BY <1>1
      <4>2. CASE keys[j] = keys[i]
        BY <4>2, <3>1, <3>2, <3>3
      <4>3. CASE keys[j] # keys[i]
        <5>1. j \in 1 .. i - 1
          BY <4>3, <1>1
        <5> QED
          BY <5>1, <4>1, <4>3, <3>2, <2>2 DEF TableInv, ValuesOK
      <4> QED
        BY <4>2, <4>3
    <3>6. i' - 1 = i
      BY <1>1
    <3> QED
      BY <1>0, <1>1, <2>2, <3>4, <3>5, <3>6 DEF ValuesOK
  <2> QED
    BY <2>1, <2>2
<1> QED
  BY <1>0, <1>1, <1>2, <1>3 DEF TableInv, StoredOK, SlotsOK, OccupiedOK

\* The steps that change neither G nor V nor which buckets are pending.
LEMMA QuietTable ==
    ASSUME TableInv, [Next]_vars, UNCHANGED <<buckets, value, i, G, V>>,
           Pending' = Pending
    PROVE  /\ ValuesOK' /\ StoredOK'
           /\ \A k : SlotOf(k)' = SlotOf(k) /\ Stored(k)' = Stored(k)
<1>1. /\ input' = input /\ Slot' = Slot /\ Elems(keys)' = Elems(keys)
      /\ \A k, s : HashMod(k, s)' = HashMod(k, s)
  BY InputFixed
<1>2. keys' = keys /\ dict' = dict
  BY <1>1 DEF input
<1>3. \A k : SlotOf(k)' = SlotOf(k)
  BY <1>1 DEF SlotOf
<1>4. \A k : Stored(k)' = Stored(k)
  BY <1>1 DEF Stored
<1>5. ValuesOK'
  BY <1>1, <1>2 DEF TableInv, ValuesOK
<1>6. StoredOK'
  BY <1>1, <1>3 DEF TableInv, StoredOK
<1> QED
  BY <1>3, <1>4, <1>5, <1>6

LEMMA PhaseTable ==
    TableInv /\ (SortBuckets \/ MakeFreelist \/ Finish \/ UNCHANGED vars) => TableInv'
<1> SUFFICES ASSUME TableInv, SortBuckets \/ MakeFreelist \/ Finish \/ UNCHANGED vars
             PROVE  TableInv'
  OBVIOUS
<1>0. Typed /\ Typed' /\ [Next]_vars /\ Slot' = Slot
  BY NextTyped, InputFixed DEF TableInv, Next
<1>1. UNCHANGED <<buckets, value, i, G, V, todo, cur>>
  BY DEF SortBuckets, MakeFreelist, Finish, vars
<1>2. Pending' = Pending
  BY <1>1 DEF Pending, SortBuckets, MakeFreelist, Finish, vars
<1>3. /\ ValuesOK' /\ StoredOK'
      /\ \A k : SlotOf(k)' = SlotOf(k) /\ Stored(k)' = Stored(k)
  BY <1>0, <1>1, <1>2, QuietTable
<1>4. SlotsOK' /\ OccupiedOK'
  <2>1. CASE SortBuckets
    <3>1. pc' = "pick" /\ \A s \in Slot : V[s] = Undef
      BY <2>1, <1>0 DEF SortBuckets, Typed, BucketsOK
    <3> QED
      BY <3>1, <1>0, <1>1 DEF SlotsOK, OccupiedOK
  <2>2. CASE MakeFreelist
    <3>1. /\ pc = "pick" /\ pc' = "single"
          /\ freelist' = {s \in Slot : V[s] = Undef}
          /\ \A b \in todo : Len(buckets[b]) <= 1
      BY <2>2 DEF MakeFreelist
    <3> QED
      BY <3>1, <1>0, <1>1, <1>3 DEF TableInv, SlotsOK, OccupiedOK
  <2>3. CASE Finish
    BY <2>3, <1>0, <1>1, <1>3 DEF Finish, TableInv, SlotsOK, OccupiedOK
  <2>4. CASE UNCHANGED vars
    <3>1. UNCHANGED <<pc, d, slots, freelist>> /\ \A k, s : HashMod(k, s)' = HashMod(k, s)
      BY <2>4, <1>0, InputFixed DEF vars
    <3>2. SlotsOK'
      BY <3>1, <1>1 DEF TableInv, SlotsOK
    <3>3. OccupiedOK'
      BY <3>1, <1>0, <1>1, <1>3 DEF TableInv, OccupiedOK
    <3> QED
      BY <3>2, <3>3
  <2> QED
    BY <2>1, <2>2, <2>3, <2>4
<1> QED
  BY <1>0, <1>3, <1>4 DEF TableInv

LEMMA PickBucketTable == TableInv /\ PickBucket => TableInv'
<1> SUFFICES ASSUME TableInv, PickBucket PROVE TableInv'
  OBVIOUS
<1>0. Typed /\ Typed' /\ [Next]_vars /\ Slot' = Slot
  BY NextTyped, InputFixed DEF TableInv, Next
<1>1. PICK b \in todo : Len(buckets[b]) > 1 /\ cur' = b /\ todo' = todo \ {b}
  BY DEF PickBucket
<1>2. /\ UNCHANGED <<buckets, value, i, G, V>> /\ pc = "pick" /\ pc' = "try"
      /\ slots' = << >>
  BY DEF PickBucket
<1>3. Pending' = Pending
  BY <1>1, <1>2 DEF Pending
<1>4. /\ ValuesOK' /\ StoredOK'
      /\ \A k : SlotOf(k)' = SlotOf(k) /\ Stored(k)' = Stored(k)
  BY <1>0, <1>2, <1>3, QuietTable
<1>5. SlotsOK'
  <2>1. Len(slots') = 0 /\ Len(buckets'[cur']) > 0
    BY <1>1, <1>2
  <2> QED
    BY <2>1 DEF SlotsOK
<1>6. OccupiedOK'
  BY <1>0, <1>2, <1>4 DEF TableInv, OccupiedOK
<1> QED
  BY <1>0, <1>4, <1>5, <1>6 DEF TableInv

LEMMA TryItemTable == TableInv /\ TryItem => TableInv'
<1> SUFFICES ASSUME TableInv, TryItem PROVE TableInv'
  OBVIOUS
<1>0. /\ Typed /\ Typed' /\ [Next]_vars /\ Slot' = Slot
      /\ \A k, s : HashMod(k, s)' = HashMod(k, s)
  BY NextTyped, InputFixed DEF TableInv, Next
<1>1. UNCHANGED <<buckets, value, i, G, V, todo, cur>> /\ pc = "try" /\ pc' = "try"
  BY DEF TryItem
<1>2. Pending' = Pending
  BY <1>1 DEF Pending
<1>3. /\ ValuesOK' /\ StoredOK'
      /\ \A k : SlotOf(k)' = SlotOf(k) /\ Stored(k)' = Stored(k)
  BY <1>0, <1>1, <1>2, QuietTable
<1>4. SlotsOK'
  <2> DEFINE n == Len(slots) + 1
             slot == HashMod(buckets[cur][n], d)
  <2>1. slots \in Seq(Slot) /\ buckets[cur] \in Seq(Key) /\ n <= Len(buckets[cur])
    BY <1>0 DEF Typed, TypeOK, TryItem
  <2>2. CASE slots' = << >>
    BY <2>1, <2>2, <1>1 DEF SlotsOK
  <2>3. CASE /\ V[slot] = Undef /\ slot \notin Elems(slots)
             /\ slots' = Append(slots, slot) /\ d' = d
    <3>1. \A p \in 1 .. Len(slots) : slots[p] # slot
      BY <2>3 DEF Elems
    <3>2. /\ Len(slots') = n /\ slots'[n] = slot
          /\ \A p \in 1 .. Len(slots) : slots'[p] = slots[p]
      <4> HIDE DEF slot
      <4> QED
        BY <2>1, <2>3
    <3>3. \A p \in 1 .. n : p = n \/ p \in 1 .. Len(slots)
      BY <2>1
    <3>4. \A p \in 1 .. n : /\ slots'[p] = HashMod(buckets[cur][p], d)
                            /\ V[slots'[p]] = Undef
      BY <1>1, <2>3, <3>2, <3>3 DEF TableInv, SlotsOK
    <3>5. \A p, q \in 1 .. n : p # q => slots'[p] # slots'[q]
      <4> HIDE DEF slot
      <4> QED
        BY <1>1, <3>1, <3>2, <3>3 DEF TableInv, SlotsOK
    <3> HIDE DEF slot
    <3> QED
      BY <1>0, <1>1, <2>1, <2>3, <3>2, <3>4, <3>5 DEF SlotsOK
  <2> QED
    BY <2>2, <2>3 DEF TryItem
<1>5. OccupiedOK'
  BY <1>0, <1>1, <1>3 DEF TableInv, OccupiedOK
<1> QED
  BY <1>0, <1>3, <1>4, <1>5 DEF TableInv

LEMMA StoreBucketTable == TableInv /\ StoreBucket => TableInv'
<1> SUFFICES ASSUME TableInv, StoreBucket PROVE TableInv'
  OBVIOUS
<1>0. /\ Typed /\ Typed' /\ [Next]_vars /\ Slot' = Slot /\ input' = input
      /\ Elems(keys)' = Elems(keys)
      /\ \A k, s : HashMod(k, s)' = HashMod(k, s)
  BY NextTyped, InputFixed DEF TableInv, Next
<1>1. /\ UNCHANGED <<buckets, value, i, todo, cur, d, slots, keys, dict>>
      /\ pc = "try" /\ pc' = "pick" /\ Len(slots) = Len(buckets[cur])
  BY <1>0 DEF StoreBucket, input
<1> DEFINE bucket == buckets[cur]
<1>2. /\ cur \in Slot /\ cur \notin todo /\ todo \subseteq Slot
      /\ bucket \in Seq(Key) /\ Len(bucket) > 1
      /\ slots \in Seq(Slot) /\ Len(slots) \in Nat
      /\ G \in [Slot -> -size .. MaxSeed] /\ d \in 1 .. MaxSeed
  <2>1. /\ cur \in Slot /\ cur \notin todo /\ todo \subseteq Slot
        /\ buckets \in [Slot -> Seq(Key)] /\ Len(bucket) > 1
        /\ slots \in Seq(Slot)
        /\ G \in [Slot -> -size .. MaxSeed] /\ d \in 1 .. MaxSeed
    BY <1>0, <1>1 DEF Typed, TypeOK
  <2> QED
    BY <2>1
<1>3. Pending = todo \cup {cur} /\ Pending' = todo
  BY <1>1 DEF Pending
<1>4. HashMod(bucket[1], 0) = cur
  <2>1. 1 \in 1 .. Len(bucket)
    BY <1>2
  <2> QED
    BY <2>1, <1>0, <1>2, BucketKey
<1>5. G' = [G EXCEPT ![cur] = d]
  BY <1>4 DEF StoreBucket
<1>6. /\ \A p \in 1 .. Len(slots) : slots[p] = HashMod(bucket[p], d) /\ V[slots[p]] = Undef
      /\ \A p, q \in 1 .. Len(slots) : p # q => slots[p] # slots[q]
  BY <1>1 DEF TableInv, SlotsOK
<1>7. \A p \in 1 .. Len(slots) : slots[p] \in Slot /\ V'[slots[p]] = value[bucket[p]]
  <2> SUFFICES ASSUME NEW p \in 1 .. Len(slots)
               PROVE  slots[p] \in Slot /\ V'[slots[p]] = value[bucket[p]]
    OBVIOUS
  <2>1. slots[p] \in Slot /\ slots[p] \in Elems(slots)
    BY <1>2 DEF Elems
  <2>2. (CHOOSE j \in 1 .. Len(slots) : slots[j] = slots[p]) = p
    BY <1>6
  <2>3. V'[slots[p]] =
          value[buckets[cur][CHOOSE j \in 1 .. Len(slots) : slots[j] = slots[p]]]
    BY <2>1 DEF StoreBucket
  <2> QED
    BY <2>1, <2>2, <2>3
<1>8. \A s \in Slot : s \notin Elems(slots) => V'[s] = V[s]
  BY DEF StoreBucket
<1>9. \A k : HashMod(k, 0) \in Slot /\ HashMod(k, 0) # cur => SlotOf(k)' = SlotOf(k)
  BY <1>0, <1>2, <1>5, SlotOfKept
<1>10. \A p \in 1 .. Len(slots) :
          SlotOf(bucket[p])' = slots[p] /\ Stored(bucket[p])' /\ bucket[p] \in Key
  <2> SUFFICES ASSUME NEW p \in 1 .. Len(slots)
               PROVE  SlotOf(bucket[p])' = slots[p] /\ Stored(bucket[p])' /\ bucket[p] \in Key
    OBVIOUS
  <2> DEFINE k == bucket[p]
  <2>1. k \in Key /\ k \in Elems(keys) /\ HashMod(k, 0) = cur
    BY <1>0, <1>1, <1>2, BucketKey
  <2>2. G'[cur] = d /\ ~(d < 0) /\ d # 0
    BY <1>2, <1>5
  <2>3. k' = k /\ HashMod(k, 0)' = cur /\ HashMod(k, d)' = slots[p]
    BY <1>0, <1>1, <1>6, <2>1
  <2>4. SlotOf(k)' = slots[p]
    BY <2>2, <2>3, <1>0, <1>6, <2>1 DEF SlotOf
  <2>5. Stored(k)'
    BY <1>0, <1>2, <1>3, <2>1, <2>3 DEF Stored
  <2> QED
    BY <2>1, <2>4, <2>5
<1>11. ValuesOK'
  <2>1. \A s \in Slot : V'[s] = Undef \/ \E k \in Key : V'[s] = value[k]
    <3> SUFFICES ASSUME NEW s \in Slot
                 PROVE  V'[s] = Undef \/ \E k \in Key : V'[s] = value[k]
      OBVIOUS
    <3>1. CASE s \in Elems(slots)
      <4>1. PICK p \in 1 .. Len(slots) : slots[p] = s
        BY <3>1 DEF Elems
      <4> QED
        BY <4>1, <1>7, <1>10
    <3>2. CASE s \notin Elems(slots)
      BY <3>2, <1>8 DEF TableInv, ValuesOK
    <3> QED
      BY <3>1, <3>2
  <2> QED
    BY <2>1, <1>0, <1>1 DEF TableInv, ValuesOK
<1>12. StoredOK'
  <2> SUFFICES ASSUME NEW b \in Slot \ todo, NEW p \in 1 .. Len(buckets[b])
               PROVE  /\ SlotOf(buckets[b][p])' \in Slot
                      /\ \/ value[buckets[b][p]] = Undef
                         \/ V'[SlotOf(buckets[b][p])'] = value[buckets[b][p]]
    BY <1>0, <1>1, <1>3 DEF StoredOK
  <2>1. CASE b = cur
    <3>1. p \in 1 .. Len(slots)
      BY <2>1, <1>1
    <3> QED
      BY <2>1, <3>1, <1>1, <1>7, <1>10
  <2>2. CASE b # cur
    <3> DEFINE k == buckets[b][p]
    <3>1. b \in Slot \ Pending
      BY <2>2, <1>3
    <3>2. HashMod(k, 0) = b
      BY <1>0, BucketKey
    <3>3. SlotOf(k)' = SlotOf(k)
      BY <2>2, <3>2, <1>9, <1>1
    <3>4. SlotOf(k) \in Slot /\ (value[k] = Undef \/ V[SlotOf(k)] = value[k])
      BY <3>1 DEF TableInv, StoredOK
    <3>5. value[k] # Undef => SlotOf(k) \notin Elems(slots)
      BY <3>4, <1>6 DEF Elems
    <3> QED
      BY <3>3, <3>4, <3>5, <1>8
  <2> QED
    BY <2>1, <2>2
<1>13. OccupiedOK'
  <2> SUFFICES ASSUME NEW s \in Slot, V'[s] # Undef
               PROVE  \E k \in Key : Stored(k)' /\ SlotOf(k)' = s
    BY <1>0, <1>1 DEF OccupiedOK
  <2>1. CASE s \in Elems(slots)
    <3>1. PICK p \in 1 .. Len(slots) : slots[p] = s
      BY <2>1 DEF Elems
    <3> QED
      BY <3>1, <1>1, <1>10
  <2>2. CASE s \notin Elems(slots)
    <3>1. PICK k \in Key : Stored(k) /\ SlotOf(k) = s
      BY <2>2, <1>1, <1>8 DEF TableInv, OccupiedOK
    <3>2. HashMod(k, 0) \in Slot
      BY <3>1, <1>0, <1>1, KeyInBucket DEF Stored
    <3>3. HashMod(k, 0) # cur /\ k \in Elems(keys)
      BY <3>1, <1>3 DEF Stored
    <3>4. Stored(k)'
      BY <3>1, <1>0, <1>3 DEF Stored
    <3> QED
      BY <3>1, <3>2, <3>3, <3>4, <1>9
  <2> QED
    BY <2>1, <2>2
<1> QED
  BY <1>0, <1>1, <1>11, <1>12, <1>13 DEF TableInv, SlotsOK

(***************************************************************************)
(* While a key is left, a slot is left: otherwise each of the size slots   *)
(* would be taken by a stored key, at different positions of keys that all *)
(* differ from the position of the key that is left - one too few.         *)
(***************************************************************************)
LEMMA SlotLeft ==
    ASSUME TableInv, pc = "single", NEW b \in todo, Len(buckets[b]) >= 1
    PROVE  freelist # {}
<1> SUFFICES ASSUME freelist = {} PROVE FALSE
  OBVIOUS
<1>1. /\ Typed /\ keys \in Seq(Key) /\ size = Len(keys) /\ size \in Nat \ {0}
      /\ b \in Slot /\ buckets[b] \in Seq(Key)
  <2>1. Typed /\ keys \in Seq(Key) /\ size > 0 /\ todo \subseteq Slot
        /\ buckets \in [Slot -> Seq(Key)]
    BY DEF TableInv, Typed, TypeOK
  <2> QED
    BY <2>1 DEF size
<1>2. 1 \in 1 .. Len(buckets[b])
  BY <1>1
<1>3. buckets[b][1] \in Elems(keys) /\ HashMod(buckets[b][1], 0) = b
  BY <1>1, <1>2, BucketKey
<1>4. PICK left \in 1 .. size : keys[left] = buckets[b][1]
  BY <1>1, <1>3 DEF Elems
<1> DEFINE P == (1 .. size) \ {left}
           Taken(s, j) == Stored(keys[j]) /\ SlotOf(keys[j]) = s
           f == [s \in Slot |-> CHOOSE j \in P : Taken(s, j)]
<1>5. ASSUME NEW s \in Slot PROVE \E j \in P : Taken(s, j)
  <2>1. PICK k \in Key : Stored(k) /\ SlotOf(k) = s
    BY DEF TableInv, OccupiedOK
  <2>2. PICK j \in 1 .. size : keys[j] = k
    BY <2>1, <1>1 DEF Stored, Elems
  <2>3. j # left
    BY <2>1, <2>2, <1>3, <1>4 DEF Stored, Pending
  <2> QED
    BY <2>1, <2>2, <2>3
<1>6. \A s \in Slot : f[s] \in P /\ Taken(s, f[s])
  <2> HIDE DEF Taken, P
  <2> QED
    BY <1>5
<1>7. f \in [Slot -> P]
  <2> HIDE DEF P
  <2> QED
    BY <1>6
<1>8. IsFiniteSet(Slot) /\ Cardinality(Slot) = size
  <2>1. 0 \in Int /\ size - 1 \in Int /\ ~(0 > size - 1) /\ (size - 1) - 0 + 1 = size
    BY <1>1
  <2>2. IsFiniteSet(0 .. size - 1) /\ Cardinality(0 .. size - 1) = (size - 1) - 0 + 1
    BY ONLY <2>1, FS_Interval, Zenon
  <2> QED
    BY <2>1, <2>2 DEF Slot
<1>9. IsFiniteSet(P) /\ Cardinality(P) < Cardinality(Slot)
  <2>1. IsFiniteSet(1 .. size) /\ Cardinality(1 .. size) = size
    <3>1. 1 \in Int /\ size \in Int /\ ~(1 > size) /\ size - 1 + 1 = size
      BY <1>1
    <3>2. IsFiniteSet(1 .. size) /\ Cardinality(1 .. size) = size - 1 + 1
      BY ONLY <3>1, FS_Interval, Zenon
    <3> QED
      BY <3>1, <3>2
  <2>2. IsFiniteSet(P) /\ Cardinality(P) = size - 1
    BY <2>1, <1>4, FS_RemoveElement
  <2> QED
    BY <1>1, <1>8, <2>2
<1>10. \E x, y \in Slot : x # y /\ f[x] = f[y]
  <2> HIDE DEF P, f
  <2> QED
    BY <1>7, <1>8, <1>9, FS_PigeonHole
<1> QED
  BY <1>6, <1>10

LEMMA StoreSingleTable == TableInv /\ StoreSingle => TableInv'
<1> SUFFICES ASSUME TableInv, StoreSingle PROVE TableInv'
  OBVIOUS
<1>0. /\ Typed /\ Typed' /\ [Next]_vars /\ Slot' = Slot /\ input' = input
      /\ Elems(keys)' = Elems(keys)
      /\ \A k, s : HashMod(k, s)' = HashMod(k, s)
  BY NextTyped, InputFixed DEF TableInv, Next
<1>1. /\ UNCHANGED <<buckets, value, i, cur, d, slots, keys, dict>>
      /\ pc = "single" /\ pc' = "single"
  BY <1>0 DEF StoreSingle, input
<1>2. PICK b \in todo, slot \in Popped(freelist) :
        /\ Len(buckets[b]) = 1
        /\ G' = [G EXCEPT ![HashMod(buckets[b][1], 0)] = -slot - 1]
        /\ V' = [V EXCEPT ![slot] = value[buckets[b][1]]]
        /\ freelist' = freelist \ {slot}
        /\ todo' = todo \ {b}
  BY DEF StoreSingle
<1> DEFINE key == buckets[b][1]
<1>3. slot \in freelist
  <2>1. freelist # {}
    BY <1>1, <1>2, SlotLeft
  <2> QED
    BY <2>1, <1>2 DEF Popped
<1>4. /\ b \in Slot /\ slot \in Slot /\ slot \in Nat /\ V[slot] = Undef
      /\ V \in [Slot -> Int \cup {Undef}] /\ G \in [Slot -> -size .. MaxSeed]
      /\ todo \subseteq Slot
  <2>1. /\ V \in [Slot -> Int \cup {Undef}] /\ G \in [Slot -> -size .. MaxSeed]
        /\ todo \subseteq Slot /\ freelist \subseteq Slot
    BY <1>0 DEF Typed, TypeOK
  <2>2. V[slot] = Undef
    BY <1>1, <1>3 DEF TableInv, OccupiedOK
  <2>3. slot \in Slot /\ b \in Slot
    BY <2>1, <1>2, <1>3
  <2>4. slot \in Nat
    BY <2>3 DEF Slot
  <2> QED
    BY <2>1, <2>2, <2>3, <2>4
<1>5. key \in Key /\ key \in Elems(keys) /\ HashMod(key, 0) = b
  <2>1. 1 \in 1 .. Len(buckets[b])
    BY <1>2
  <2> QED
    BY <2>1, <1>0, <1>4, BucketKey
<1>6. Pending = todo /\ Pending' = todo \ {b}
  BY <1>1, <1>2 DEF Pending
<1>7. G'[b] = -slot - 1 /\ \A c \in Slot \ {b} : G'[c] = G[c]
  BY <1>2, <1>4, <1>5
<1>8. V'[slot] = value[key] /\ \A s \in Slot \ {slot} : V'[s] = V[s]
  BY <1>2, <1>4
<1>9. \A k : HashMod(k, 0) \in Slot /\ HashMod(k, 0) # b => SlotOf(k)' = SlotOf(k)
  BY <1>0, <1>7, SlotOfKept
<1>10. SlotOf(key)' = slot /\ Stored(key)'
  <2>1. HashMod(key, 0)' = b /\ key' = key
    BY <1>0, <1>1, <1>5
  <2>2. G'[b] < 0 /\ -G'[b] - 1 = slot
    BY <1>4, <1>7
  <2>3. SlotOf(key)' = slot
    BY <2>1, <2>2, <1>0, <1>5 DEF SlotOf
  <2> QED
    BY <2>1, <2>3, <1>0, <1>5, <1>6 DEF Stored
<1>11. ValuesOK'
  <2>1. \A s \in Slot : V'[s] = Undef \/ \E k \in Key : V'[s] = value[k]
    BY <1>5, <1>8 DEF TableInv, ValuesOK
  <2> QED
    BY <2>1, <1>0, <1>1 DEF TableInv, ValuesOK
<1>12. StoredOK'
  <2> SUFFICES ASSUME NEW c \in Slot \ (todo \ {b}), NEW p \in 1 .. Len(buckets[c])
               PROVE  /\ SlotOf(buckets[c][p])' \in Slot
                      /\ \/ value[buckets[c][p]] = Undef
                         \/ V'[SlotOf(buckets[c][p])'] = value[buckets[c][p]]
    BY <1>0, <1>1, <1>6 DEF StoredOK
  <2>1. CASE c = b
    <3>1. p = 1
      BY <2>1, <1>2
    <3> QED
      BY <2>1, <3>1, <1>1, <1>4, <1>8, <1>10
  <2>2. CASE c # b
    <3> DEFINE k == buckets[c][p]
    <3>1. HashMod(k, 0) = c
      BY <1>0, BucketKey
    <3>2. SlotOf(k)' = SlotOf(k)
      BY <2>2, <3>1, <1>9, <1>1
    <3>3. SlotOf(k) \in Slot /\ (value[k] = Undef \/ V[SlotOf(k)] = value[k])
      BY <2>2, <1>6 DEF TableInv, StoredOK
    <3>4. value[k] # Undef => SlotOf(k) # slot
      BY <3>3, <1>4
    <3> QED
      BY <3>2, <3>3, <3>4, <1>8
  <2> QED
    BY <2>1, <2>2
<1>13. OccupiedOK'
  <2>1. \A s \in Slot \ freelist' : \E k \in Key : Stored(k)' /\ SlotOf(k)' = s
    <3> SUFFICES ASSUME NEW s \in Slot \ freelist'
                 PROVE  \E k \in Key : Stored(k)' /\ SlotOf(k)' = s
      OBVIOUS
    <3>1. CASE s = slot
      BY <3>1, <1>1, <1>5, <1>10
    <3>2. CASE s # slot
      <4>1. PICK k \in Key : Stored(k) /\ SlotOf(k) = s
        BY <3>2, <1>1, <1>2 DEF TableInv, OccupiedOK
      <4>2. HashMod(k, 0) \in Slot
        BY <4>1, <1>0, <1>1, KeyInBucket DEF Stored
      <4>3. HashMod(k, 0) # b
        BY <4>1, <1>6 DEF Stored
      <4>4. Stored(k)'
        BY <4>1, <1>0, <1>6 DEF Stored
      <4> QED
        BY <4>1, <4>2, <4>3, <4>4, <1>9
    <3> QED
      BY <3>1, <3>2
  <2>2. \A s \in freelist' : V'[s] = Undef
    BY <1>0, <1>1, <1>2, <1>8 DEF TableInv, OccupiedOK, Typed, TypeOK
  <2>3. \A c \in todo' : Len(buckets'[c]) <= 1
    BY <1>1, <1>2 DEF TableInv, OccupiedOK
  <2> QED
    BY <2>1, <2>2, <2>3, <1>0, <1>1 DEF OccupiedOK
<1> QED
  BY <1>0, <1>1, <1>11, <1>12, <1>13 DEF TableInv, SlotsOK

LEMMA NextTable == TableInv /\ [Next]_vars => TableInv'
  BY PlaceKeyTable, PhaseTable, PickBucketTable, TryItemTable, StoreBucketTable,
     StoreSingleTable DEF Next, Terminating

LEMMA SpecTable == Spec => []TableInv
<1> QED
  BY InitTable, NextTable, PTL DEF Spec

-----------------------------------------------------------------------------
(***************************************************************************)
(* The list of free slots is never empty when a one-key bucket takes from  *)
(* it, for every dictionary and every hash function.                       *)
(***************************************************************************)
THEOREM FreelistNeverEmpty == Spec => []FreelistSuffices
<1>1. TableInv => FreelistSuffices
  <2> SUFFICES ASSUME TableInv, pc = "single", NEW b \in todo, Len(buckets[b]) = 1
               PROVE  freelist # {}
    BY DEF FreelistSuffices
  <2> QED
    BY SlotLeft
<1> QED
  BY <1>1, SpecTable, PTL

(***************************************************************************)
(* A slot that has a value keeps it to the end: the seed search only       *)
(* accepts free slots and the free list holds no other ones.               *)
(***************************************************************************)
THEOREM SlotsNeverOverwritten == Spec => NoOverwrite
<1> DEFINE Kept == \A s \in Slot : V[s] # Undef => V'[s] = V[s]
<1>1. TableInv /\ [Next]_vars => Kept
  <2> SUFFICES ASSUME TableInv, [Next]_vars, NEW s \in Slot, V[s] # Undef
               PROVE  V'[s] = V[s]
    OBVIOUS
  <2>1. CASE StoreBucket
    <3>1. pc = "try" /\ Len(slots) \in Nat
      BY <2>1 DEF StoreBucket, TableInv, Typed, TypeOK
    <3>2. s \notin Elems(slots)
      BY <3>1 DEF TableInv, SlotsOK, Elems
    <3> QED
      BY <2>1, <3>2 DEF StoreBucket
  <2>2. CASE StoreSingle
    <3>1. PICK b \in todo, slot \in Popped(freelist) :
            Len(buckets[b]) = 1 /\ V' = [V EXCEPT ![slot] = value[buckets[b][1]]]
      BY <2>2 DEF StoreSingle
    <3>2. pc = "single" /\ freelist # {}
      BY <2>2, <3>1, SlotLeft DEF StoreSingle
    <3>3. slot \in freelist
      BY <3>1, <3>2 DEF Popped
    <3>4. slot # s
      BY <3>2, <3>3 DEF TableInv, OccupiedOK
    <3> QED
      BY <3>1, <3>4 DEF TableInv, Typed, TypeOK
  <2>3. CASE ~StoreBucket /\ ~StoreSingle
    <3>1. V' = V
      BY <2>3 DEF Next, PlaceKey, SortBuckets, PickBucket, TryItem, MakeFreelist,
                  Finish, Terminating, vars
    <3> QED
      BY <3>1
  <2> QED
    BY <2>1, <2>2, <2>3
<1>2. TableInv /\ [Next]_vars => [Kept]_vars
  BY <1>1
<1>3. Spec => [][Kept]_vars
  BY <1>2, SpecTable, PTL DEF Spec
<1> QED
  BY <1>3 DEF NoOverwrite

\* A lookup of any string stays within the table.
LEMMA SlotOfInSlot ==
    ASSUME Typed, NEW k \in Key
    PROVE  SlotOf(k) \in Slot
<1>1. /\ hash \in HashFamily /\ keys \in Seq(Key) /\ size > 0 /\ size \in Nat
      /\ G \in [Slot -> -size .. MaxSeed]
  <2>1. /\ hash \in HashFamily /\ keys \in Seq(Key) /\ size > 0
        /\ G \in [Slot -> -size .. MaxSeed]
    BY DEF Typed, TypeOK
  <2> QED
    BY <2>1 DEF size
<1> DEFINE h == HashMod(k, 0)
<1>2. h \in Slot
  BY <1>1, HashModType
<1>3. CASE G[h] < 0
  <2> HIDE DEF h
  <2>1. -G[h] - 1 \in Slot
    BY <1>1, <1>2, <1>3 DEF Slot
  <2> QED
    BY <2>1, <1>3 DEF SlotOf, h
<1>4. CASE G[h] = 0
  BY <1>2, <1>4 DEF SlotOf
<1>5. CASE G[h] > 0
  <2>1. G[h] \in 0 .. MaxSeed /\ ~(G[h] < 0) /\ G[h] # 0
    <3> HIDE DEF h
    <3> QED
      BY <1>1, <1>2, <1>5
  <2>2. HashMod(k, G[h]) \in Slot
    BY <1>1, <2>1, HashModType
  <2> QED
    BY <2>1, <2>2 DEF SlotOf
<1>6. G[h] \in Int
  <2> HIDE DEF h
  <2> QED
    BY <1>1, <1>2
<1> QED
  BY <1>3, <1>4, <1>5, <1>6

\* In a finished table every key with a value is found.
LEMMA DoneFound ==
    ASSUME TableInv, pc = "done", NEW k \in Elems(keys)
    PROVE  /\ SlotOf(k) \in Slot
           /\ value[k] # Undef => V[SlotOf(k)] = value[k]
<1>1. Typed
  BY DEF TableInv
<1> DEFINE h == HashMod(k, 0)
<1>2. h \in Slot /\ \E p \in 1 .. Len(buckets[h]) : buckets[h][p] = k
  BY <1>1, KeyInBucket
<1>3. PICK p \in 1 .. Len(buckets[h]) : buckets[h][p] = k
  BY <1>2
<1>4. Len(buckets[h]) # 0
  <2> HIDE DEF h
  <2>1. buckets[h] \in Seq(Key)
    BY <1>1, <1>2 DEF Typed, TypeOK
  <2> QED
    BY <1>3, <2>1
<1>5. h \notin Pending
  BY <1>4 DEF TableInv, OccupiedOK, Pending
<1> QED
  BY <1>2, <1>3, <1>5 DEF TableInv, StoredOK

\* A given key of the dictionary stands at the same place in the padded list.
LEMMA GivenKey ==
    ASSUME TableInv, NEW j \in 1 .. Len(dict.keys)
    PROVE  /\ dict.keys[j] \in Key /\ keys[j] = dict.keys[j]
           /\ j - 1 \in Slot /\ dict.keys[j] \in Elems(keys)
<1>1. /\ dict \in Dict /\ dict \in DictType /\ Len(dict.keys) > 0
      /\ keys = PaddedKeys(dict.keys)
  BY DEF TableInv, Typed, TypeOK, BucketsOK
<1>2. dict.keys \in Seq(Key)
  BY <1>1 DEF DictType
<1>3. /\ keys \in Seq(Key) /\ Len(keys) >= Len(dict.keys)
      /\ \A q \in 1 .. Len(dict.keys) : keys[q] = dict.keys[q]
  BY <1>1, <1>2, PaddedKeysType
<1>4. dict.keys[j] \in Key /\ keys[j] = dict.keys[j]
  BY <1>2, <1>3
<1>5. j \in 1 .. Len(keys)
  BY <1>2, <1>3
<1> QED
  BY <1>4, <1>5 DEF Slot, size, Elems

(***************************************************************************)
(* Every finished table is the dictionary it was made from, for every hash *)
(* function and every dictionary: a given key returns its value, and any   *)
(* other string undef unless -false-positives was asked for.               *)
(***************************************************************************)
THEOREM TableIsDictionary == Spec => []PerfectLookup
<1>1. TableInv => PerfectLookup
  <2> SUFFICES ASSUME TableInv, pc = "done", dict.fp \/ IndexValues,
                      NEW k \in Key, k \in UserKeys \/ ~dict.fp
               PROVE  Holds(k, PerfectHash(k))
    BY DEF PerfectLookup
  <2> DEFINE x == V[SlotOf(k)]
  <2>1. /\ dict \in Dict /\ keys \in Seq(Key) /\ size = Len(keys) /\ size \in Nat \ {0}
        /\ V \in [Slot -> Int \cup {Undef}] /\ i - 1 = size
    <3>1. /\ dict \in Dict /\ keys \in Seq(Key) /\ size > 0 /\ i = size + 1
          /\ V \in [Slot -> Int \cup {Undef}]
      BY DEF TableInv, Typed, TypeOK, BucketsOK
    <3> QED
      BY <3>1 DEF size
  <2>2. UserKeys \subseteq Elems(keys)
    <3> SUFFICES ASSUME NEW u \in UserKeys PROVE u \in Elems(keys)
      OBVIOUS
    <3>1. PICK j \in 1 .. Len(dict.keys) : dict.keys[j] = u
      BY DEF UserKeys, Elems
    <3> QED
      BY <3>1, GivenKey
  <2>3. \A y \in Slot : KeyAt(y) = keys[y + 1] /\ keys[y + 1] \in Elems(keys) /\ y # Undef
    BY <2>1 DEF KeyAt, Slot, Elems
  <2>4. CASE dict.kind = "HASH"
    <3>1. PerfectHash(k) = HashValue(dict, k)
      <4>1. CASE k \in UserKeys
        <5>1. k \in Elems(keys)
          BY <2>2, <4>1
        <5>2. PICK j \in 1 .. Len(dict.keys) : /\ dict.keys[j] = k
                                               /\ HashValue(dict, k) = dict.values[j]
          BY <4>1 DEF UserKeys, Elems, HashValue
        <5>3. value[k] = dict.values[j] /\ value[k] \in Int
          <6>1. dict.values \in Seq(Int) /\ Len(dict.values) = Len(dict.keys)
            BY <2>1, <2>4 DEF DictType
          <6> QED
            BY <6>1, <5>2, <2>4 DEF TableInv, ValuesOK
        <5>4. x = dict.values[j]
          BY <5>1, <5>3, DoneFound
        <5>5. CASE dict.fp
          BY <5>2, <5>4, <5>5 DEF PerfectHash
        <5>6. CASE ~dict.fp
          <6>1. Len(dict.values) = Len(dict.keys)
            BY <2>1, <2>4
          <6>2. dict.values[j] = j - 1
            BY <5>6, <6>1, <2>4 DEF IndexValues
          <6>3. j - 1 \in Slot /\ keys[(j - 1) + 1] = k
            BY <5>2, GivenKey
          <6>4. KeyAt(x) = k
            BY <5>4, <6>2, <6>3, <2>3
          <6> QED
            BY <5>2, <5>4, <6>4 DEF PerfectHash
        <5> QED
          BY <5>5, <5>6
      <4>2. CASE k \notin UserKeys
        <5>1. HashValue(dict, k) = Undef
          BY <4>2 DEF UserKeys, Elems, HashValue
        <5>2. ~dict.fp /\ IndexValues
          BY <4>2
        <5>3. CASE SlotOf(k) \in Slot /\ x # Undef
          <6>1. PICK u \in Key : x = value[u]
            BY <5>3 DEF TableInv, ValuesOK
          <6>2. x = HashValue(dict, u)
            BY <6>1, <2>4 DEF TableInv, ValuesOK
          <6>3. PICK j \in 1 .. Len(dict.keys) : dict.keys[j] = u /\ x = dict.values[j]
            BY <6>2, <5>3 DEF HashValue
          <6>4. x = j - 1
            BY <6>3, <5>2, <2>1, <2>4 DEF IndexValues
          <6>5. KeyAt(x) = u
            BY <6>3, <6>4, <2>3, GivenKey
          <6>6. u # k
            BY <6>3, <4>2 DEF UserKeys, Elems
          <6> QED
            BY <5>1, <5>2, <6>5, <6>6 DEF PerfectHash
        <5>4. CASE x = Undef
          BY <5>1, <5>4 DEF PerfectHash
        <5>5. SlotOf(k) \in Slot
          BY SlotOfInSlot DEF TableInv
        <5> QED
          BY <5>3, <5>4, <5>5
      <4> QED
        BY <4>1, <4>2
    <3> QED
      BY <3>1, <2>4 DEF Holds
  <2>5. CASE dict.kind # "HASH"
    <3>1. CASE k \in Elems(keys)
      <4>1. PICK j \in 1 .. Len(keys) : keys[j] = k
        BY <3>1 DEF Elems
      <4>2. value[k] # Undef
        BY <4>1, <2>1, <2>5 DEF TableInv, ValuesOK
      <4>3. value[k] \in Slot /\ keys[value[k] + 1] = k
        BY <4>2, <2>5 DEF TableInv, ValuesOK
      <4>4. x = value[k]
        BY <3>1, <4>2, DoneFound
      <4>5. KeyAt(x) = k
        BY <4>3, <4>4, <2>3
      <4>6. PerfectHash(k) = x
        BY <4>5 DEF PerfectHash
      <4> QED
        BY <4>3, <4>4, <4>6, <2>5 DEF Holds
    <3>2. CASE k \notin Elems(keys)
      <4>1. ~dict.fp
        BY <3>2, <2>2
      <4>2. SlotOf(k) \in Slot
        BY SlotOfInSlot DEF TableInv
      <4>3. CASE x = Undef
        BY <4>3, <3>2, <2>5 DEF PerfectHash, Holds
      <4>4. CASE x # Undef
        <5>1. PICK u \in Key : x = value[u]
          BY <4>2, <4>4 DEF TableInv, ValuesOK
        <5>2. x \in Slot
          BY <5>1, <4>4, <2>5 DEF TableInv, ValuesOK
        <5>3. KeyAt(x) # k
          BY <5>2, <3>2, <2>3
        <5>4. PerfectHash(k) = Undef
          BY <5>3, <4>1 DEF PerfectHash
        <5> QED
          BY <5>4, <3>2, <2>5 DEF Holds
      <4> QED
        BY <4>3, <4>4
    <3> QED
      BY <3>1, <3>2
  <2> QED
    BY <2>4, <2>5
<1> QED
  BY <1>1, SpecTable, PTL
-----------------------------------------------------------------------------
(***************************************************************************)
(* The seed search: the seeds before the one being tried fail.             *)
(***************************************************************************)
SkippedFail == pc = "try" => \A s \in 1 .. d - 1 : ~SeedWorks(cur, s)

SearchInv == TableInv /\ SkippedFail

\* Whether a seed works depends on the buckets and on V.
LEMMA SeedWorksKept ==
    ASSUME [Next]_vars, UNCHANGED <<buckets, V, cur>>
    PROVE  \A s : SeedWorks(cur, s)' <=> SeedWorks(cur, s)
<1>1. hash' = hash /\ keys' = keys
  BY InputFixed DEF input
<1>2. buckets' = buckets /\ V' = V /\ cur' = cur
  OBVIOUS
<1> QED
  BY <1>1, <1>2 DEF SeedWorks, HashMod, size

\* An item that finds its slot taken shows that its seed fails.
LEMMA TakenSlotFails ==
    ASSUME TableInv, TryItem,
           \/ V[HashMod(buckets[cur][Len(slots) + 1], d)] # Undef
           \/ HashMod(buckets[cur][Len(slots) + 1], d) \in Elems(slots)
    PROVE  ~SeedWorks(cur, d)
<1> DEFINE n == Len(slots) + 1
           slot == HashMod(buckets[cur][n], d)
<1>1. /\ pc = "try" /\ Len(slots) \in Nat /\ Len(buckets[cur]) \in Nat
      /\ Len(slots) < Len(buckets[cur])
  <2>1. cur \in Slot /\ buckets \in [Slot -> Seq(Key)] /\ slots \in Seq(Slot)
    BY DEF TableInv, Typed, TypeOK
  <2> QED
    BY <2>1 DEF TryItem
<1>2. n \in 1 .. Len(buckets[cur])
  BY <1>1
<1>3. CASE V[slot] # Undef
  BY <1>2, <1>3 DEF SeedWorks
<1>4. CASE slot \in Elems(slots)
  <2>1. PICK p \in 1 .. Len(slots) : slots[p] = slot
    BY <1>4 DEF Elems
  <2>2. slots[p] = HashMod(buckets[cur][p], d)
    BY <1>1, <2>1 DEF TableInv, SlotsOK
  <2>3. p \in 1 .. Len(buckets[cur]) /\ p # n
    BY <1>1, <2>1
  <2> QED
    BY <1>2, <2>1, <2>2, <2>3 DEF SeedWorks
<1> QED
  BY <1>3, <1>4

LEMMA NextSearch == SearchInv /\ [Next]_vars => SearchInv'
<1> SUFFICES ASSUME SearchInv, [Next]_vars PROVE SearchInv'
  OBVIOUS
<1>1. TableInv /\ TableInv' /\ SkippedFail
  BY NextTable DEF SearchInv
<1> SUFFICES ASSUME pc' = "try" PROVE \A s \in 1 .. d' - 1 : ~SeedWorks(cur, s)'
  BY <1>1 DEF SearchInv, SkippedFail
<1>2. d \in 1 .. MaxSeed
  BY <1>1 DEF TableInv, Typed, TypeOK
<1>3. CASE PickBucket
  BY <1>3 DEF PickBucket
<1>4. CASE TryItem
  <2>1. UNCHANGED <<buckets, V, cur>> /\ pc = "try"
    BY <1>4 DEF TryItem
  <2>2. \A s : SeedWorks(cur, s)' <=> SeedWorks(cur, s)
    BY <2>1, SeedWorksKept
  <2>3. \A s \in 1 .. d - 1 : ~SeedWorks(cur, s)
    BY <1>1, <2>1 DEF SkippedFail
  <2>4. CASE d' = d
    BY <2>2, <2>3, <2>4
  <2>5. CASE d' # d
    <3>1. d' = NextSeed(d) /\ ~SeedWorks(cur, d)
      BY <1>1, <1>4, <2>5, TakenSlotFails DEF TryItem
    <3>2. d' = 1 \/ d' = d + 1
      BY <3>1 DEF NextSeed
    <3>3. \A s \in 1 .. d' - 1 : s = d \/ s \in 1 .. d - 1
      BY <1>2, <3>2
    <3> QED
      BY <2>2, <2>3, <3>1, <3>3
  <2> QED
    BY <2>4, <2>5
<1>5. CASE UNCHANGED vars
  <2>1. UNCHANGED <<buckets, V, cur>>
    BY <1>5 DEF vars
  <2>2. d' = d /\ pc = "try"
    BY <1>5 DEF vars
  <2>3. \A s : SeedWorks(cur, s)' <=> SeedWorks(cur, s)
    BY <2>1, SeedWorksKept
  <2> QED
    BY <2>2, <2>3, <1>1 DEF SkippedFail
<1>6. CASE PlaceKey \/ SortBuckets
  BY <1>6 DEF PlaceKey, SortBuckets
<1>7. CASE StoreBucket
  BY <1>7 DEF StoreBucket
<1>8. CASE MakeFreelist \/ Finish
  BY <1>8 DEF MakeFreelist, Finish
<1>9. CASE StoreSingle
  BY <1>9 DEF StoreSingle
<1>10. CASE Terminating
  BY <1>10 DEF Terminating, vars
<1> QED
  BY <1>3, <1>4, <1>5, <1>6, <1>7, <1>8, <1>9, <1>10 DEF Next

(***************************************************************************)
(* The search for the seed of a bucket takes the smallest one that works   *)
(* and misses none, also when it is a late item that collides.             *)
(***************************************************************************)
THEOREM SeedIsSmallest == Spec => []SmallestSeed
<1>1. Init => SearchInv
  BY InitTable DEF Init, SearchInv, SkippedFail
<1>2. SearchInv => SmallestSeed
  <2> SUFFICES ASSUME SearchInv, pc = "try"
               PROVE  Len(slots) = Len(buckets[cur]) => SeedWorks(cur, d)
    BY DEF SearchInv, SkippedFail, SmallestSeed, TableInv, SlotsOK
  <2>1. /\ \A p \in 1 .. Len(slots) : /\ slots[p] = HashMod(buckets[cur][p], d)
                                      /\ V[slots[p]] = Undef
        /\ \A p, q \in 1 .. Len(slots) : p # q => slots[p] # slots[q]
    BY DEF SearchInv, TableInv, SlotsOK
  <2> QED
    BY <2>1 DEF SeedWorks
<1> QED
  BY <1>1, <1>2, NextSearch, PTL DEF Spec
-----------------------------------------------------------------------------
(***************************************************************************)
(* The finished tables in C and in the bit vector: numbers of a width.     *)
(***************************************************************************)
LEMMA HalfPower ==
    ASSUME NEW w \in Nat \ {0}
    PROVE  /\ 2 ^ (w - 1) \in Nat \ {0} /\ 2 ^ w \in Nat \ {0}
           /\ 2 ^ w = 2 ^ (w - 1) + 2 ^ (w - 1)
<1> DEFINE n == w - 1
<1>1. n \in Nat /\ n + 1 = w
  OBVIOUS
<1> HIDE DEF n
<1>2. 2 ^ n \in Nat \ {0} /\ 2 ^ (n + 1) = 2 * 2 ^ n
  BY <1>1, PowerOfTwo
<1>3. 2 ^ n \in Nat \ {0} /\ 2 ^ w = 2 * 2 ^ n
  BY <1>1, <1>2
<1>4. 2 ^ w \in Nat \ {0} /\ 2 ^ w = 2 ^ n + 2 ^ n
  BY <1>3
<1> QED
  BY <1>3, <1>4 DEF n

LEMMA SmallMod ==
    ASSUME NEW m \in Nat \ {0}, NEW x \in 0 .. m - 1
    PROVE  x % m = x
  OBVIOUS

LEMMA WrapMod ==
    ASSUME NEW m \in Nat \ {0}, NEW x \in -m .. -1
    PROVE  x % m = x + m
  OBVIOUS

LEMMA UnsignedKeeps ==
    ASSUME NEW w \in Nat \ {0}, NEW x \in Nat, x < 2 ^ w
    PROVE  Unsigned(x, w) = x
<1> DEFINE m == 2 ^ w
<1>1. m \in Nat \ {0} /\ x < m
  BY HalfPower
<1> HIDE DEF m
<1>2. x % m = x
  BY <1>1, SmallMod
<1> QED
  BY <1>2 DEF Unsigned, m

LEMMA SignedKeeps ==
    ASSUME NEW w \in Nat \ {0}, NEW x \in Int, -(2 ^ (w - 1)) <= x, x < 2 ^ (w - 1)
    PROVE  Signed(x, w) = x
<1> DEFINE m == 2 ^ w
           n == 2 ^ (w - 1)
<1>1. m \in Nat \ {0} /\ n \in Nat \ {0} /\ m = n + n /\ -n <= x /\ x < n
  BY HalfPower
<1>2. Signed(x, w) = ((x + n) % m) - n
  BY DEF Signed
<1> HIDE DEF m, n
<1>3. x + n \in 0 .. m - 1
  BY <1>1
<1>4. (x + n) % m = x + n
  BY <1>1, <1>3, SmallMod
<1>5. ((x + n) % m) - n = x
  BY <1>1, <1>4
<1> QED
  BY <1>2, <1>5
\* A list with the dummy key is not a multiple of PadUnit, and neither is one without it.
LEMMA NextMod ==
    ASSUME NEW m \in Nat, m > 1, NEW a \in Nat, a % m = 0
    PROVE  (a + 1) % m # 0
<1> DEFINE q == a \div m
           r == (a + 1) \div m
<1>1. a = (m * q) + (a % m) /\ q \in Int
  OBVIOUS
<1>2. a + 1 = (m * r) + ((a + 1) % m) /\ r \in Int
  OBVIOUS
<1> HIDE DEF q, r
<1> SUFFICES ASSUME (a + 1) % m = 0 PROVE FALSE
  OBVIOUS
<1>3. m * r - m * q = 1
  BY <1>1, <1>2
<1> DEFINE t == r - q
<1>4. t \in Int /\ m * t = 1
  BY <1>1, <1>2, <1>3
<1> HIDE DEF t
<1>5. t <= 0 \/ t >= 1
  BY <1>4
<1>6. t <= 0 => m * t <= 0
  BY <1>4
<1>7. t >= 1 => m * t >= m
  BY <1>4
<1> QED
  BY <1>4, <1>5, <1>6, <1>7

LEMMA SizeNotPadded ==
    ASSUME Typed, PadUnit > 1
    PROVE  size \in Nat \ {0} /\ size % PadUnit # 0
<1>1. /\ dict \in DictType /\ Len(dict.keys) > 0 /\ keys = PaddedKeys(dict.keys)
      /\ size = Len(keys) /\ dict.keys \in Seq(Key)
  BY DEF Typed, TypeOK, BucketsOK, size, DictType
<1> DEFINE n == Len(dict.keys)
<1>2. n \in Nat \ {0}
  BY <1>1
<1>3. CASE n % PadUnit = 0
  <2>1. size = n + 1
    BY <1>1, <1>3 DEF PaddedKeys, Padded
  <2> HIDE DEF n
  <2> QED
    BY <1>2, <1>3, <2>1, NextMod
<1>4. CASE n % PadUnit # 0
  <2>1. size = n
    BY <1>1, <1>4 DEF PaddedKeys, Padded
  <2> QED
    BY <1>2, <1>4, <2>1
<1> QED
  BY <1>3, <1>4
\* What the finished table holds in the slot of a string.
LEMMA DoneValue ==
    ASSUME TableInv, pc = "done", NEW k \in Key, NEW x, x = V[SlotOf(k)]
    PROVE  /\ SlotOf(k) \in Slot
           /\ size \in Nat \ {0}
           /\ x \in Int \cup {Undef}
           /\ k \in UserKeys => x # Undef
           /\ IndexValues /\ x # Undef => x \in Slot
           /\ GoodValues /\ x # Undef => x \in 0 .. size
           /\ keys[1] = k => k \in UserKeys
<1>1. /\ dict \in Dict /\ dict \in DictType /\ Len(dict.keys) > 0 /\ keys \in Seq(Key)
      /\ dict.kind = "HASH" => Len(dict.values) = Len(dict.keys)
      /\ size = Len(keys) /\ size \in Nat \ {0} /\ V \in [Slot -> Int \cup {Undef}]
      /\ i - 1 = size
  <2>1. /\ dict \in Dict /\ keys \in Seq(Key) /\ size > 0 /\ i = size + 1
        /\ V \in [Slot -> Int \cup {Undef}]
    BY DEF TableInv, Typed, TypeOK, BucketsOK
  <2> QED
    BY <2>1 DEF size
<1>2. SlotOf(k) \in Slot
  BY SlotOfInSlot DEF TableInv
<1>3. dict.values \in Seq(Int) /\ dict.keys \in Seq(Key)
  BY <1>1 DEF DictType
<1>4. ASSUME k \in UserKeys PROVE x # Undef
  <2>1. PICK j \in 1 .. Len(dict.keys) : dict.keys[j] = k
    BY <1>4 DEF UserKeys, Elems
  <2>2. k \in Elems(keys) /\ keys[j] = k
    BY <2>1, GivenKey
  <2>3. value[k] # Undef
    <3>1. CASE dict.kind = "HASH"
      <4>1. PICK p \in 1 .. Len(dict.keys) : HashValue(dict, k) = dict.values[p]
        BY <2>1 DEF HashValue
      <4>2. value[k] = dict.values[p] /\ dict.values[p] \in Int
        BY <1>1, <1>3, <3>1, <4>1 DEF TableInv, ValuesOK
      <4> QED
        BY <4>2
    <3>2. CASE dict.kind # "HASH"
      <4>1. j \in 1 .. i - 1
        <5>1. j - 1 \in Slot
          BY GivenKey
        <5> QED
          BY <1>1, <5>1 DEF Slot
      <4> QED
        BY <2>2, <3>2, <4>1 DEF TableInv, ValuesOK
    <3> QED
      BY <3>1, <3>2
  <2> QED
    BY <2>2, <2>3, DoneFound
\* A value is an index, or one of the values that were given.
<1>5. ASSUME x # Undef
      PROVE  \/ x \in Slot
             \/ /\ dict.kind = "HASH"
                /\ \E j \in 1 .. Len(dict.values) : x = dict.values[j] /\ j - 1 \in Slot
  <2>1. PICK u \in Key : x = value[u]
    BY <1>2, <1>5 DEF TableInv, ValuesOK
  <2>2. CASE dict.kind = "HASH"
    <3>1. x = HashValue(dict, u)
      BY <2>1, <2>2 DEF TableInv, ValuesOK
    <3>2. PICK j \in 1 .. Len(dict.keys) : x = dict.values[j]
      BY <1>5, <3>1 DEF HashValue
    <3>3. j \in 1 .. Len(dict.values) /\ j - 1 \in Slot
      BY <1>1, <2>2, GivenKey
    <3> QED
      BY <2>2, <3>2, <3>3
  <2>3. CASE dict.kind # "HASH"
    BY <1>5, <2>1, <2>3 DEF TableInv, ValuesOK
  <2> QED
    BY <2>2, <2>3
<1>6. Slot \subseteq 0 .. size
  BY <1>1 DEF Slot
<1>7. IndexValues /\ x # Undef => x \in Slot
  BY <1>5 DEF IndexValues
<1>8. GoodValues /\ x # Undef => x \in 0 .. size
  BY <1>5, <1>6 DEF GoodValues
<1>9. keys[1] = k => k \in UserKeys
  <2>1. 1 \in 1 .. Len(dict.keys)
    BY <1>1, <1>3
  <2> QED
    BY <2>1, GivenKey DEF UserKeys, Elems
<1> QED
  BY <1>1, <1>2, <1>4, <1>7, <1>8, <1>9

LEMMA DoneAnswer ==
    ASSUME TableInv, pc = "done", dict.fp \/ IndexValues, NEW k \in Key, NEW x, x = V[SlotOf(k)]
    PROVE  PerfectHash(k) = IF dict.fp \/ (x # Undef /\ keys[x + 1] = k) THEN x ELSE Undef
<1>1. IndexValues /\ x # Undef => KeyAt(x) = keys[x + 1]
  BY DoneValue DEF KeyAt
<1>2. PerfectHash(k) = IF dict.fp \/ KeyAt(x) = k THEN x ELSE Undef
  BY DEF PerfectHash
<1> QED
  BY <1>1, <1>2
-----------------------------------------------------------------------------
(***************************************************************************)
(* The generated C code.                                                   *)
(***************************************************************************)
\* The types of C: their numbers of values are multiples of PadUnit, and the widest one
\* with a sign holds the size of every table.
CTypesFit ==
    /\ PadUnit > 1
    /\ \A w \in Widths : (2 ^ w) % PadUnit = 0
    /\ \A c \in Dict : \E w \in Widths : Len(PaddedKeys(c.keys)) <= 2 ^ (w - 1)

\* The types that are chosen hold the numbers that they were chosen for.
LEMMA ChosenTypes ==
    ASSUME Typed, CTypesFit
    PROVE  /\ gtype \in Nat \ {0} /\ size <= 2 ^ (gtype - 1)
           /\ vtype \in Nat \ {0} /\ size < 2 ^ vtype
<1>0. Widths \subseteq Nat \ {0}
  BY WidthAssumption
<1>1. size \in Nat \ {0} /\ size % PadUnit # 0
  BY SizeNotPadded DEF CTypesFit
<1>2. PICK w \in Widths : size <= 2 ^ (w - 1)
  BY DEF CTypesFit, Typed, TypeOK, BucketsOK, size
<1>3. ASSUME NEW F, F \subseteq Widths, F # {} PROVE Narrowest(Widths, F) \in F
  <2>1. F \subseteq Nat
    BY <1>0, <1>3
  <2>2. \E u \in F : \A x \in F : u <= x
    BY <1>3, <2>1, Smallest
  <2> QED
    BY <1>3, <2>2 DEF Narrowest
<1> DEFINE SF == {x \in Widths : size <= 2 ^ (x - 1)}
           UF == {x \in Widths : size <= 2 ^ x}
<1>4. w \in SF
  BY <1>2
<1>5. w \in UF
  <2>1. /\ 2 ^ (w - 1) \in Nat /\ 2 ^ w \in Nat /\ 2 ^ w = 2 ^ (w - 1) + 2 ^ (w - 1)
    BY <1>0, HalfPower
  <2> DEFINE a == 2 ^ (w - 1)
             b == 2 ^ w
  <2>2. a \in Nat /\ b = a + a /\ size <= a
    BY <1>2, <2>1
  <2> HIDE DEF a, b
  <2>3. size <= b
    BY <1>1, <2>2
  <2> QED
    BY <2>3 DEF b
<1>6. gtype = Narrowest(Widths, SF) /\ vtype = Narrowest(Widths, UF)
  BY DEF gtype, vtype, s_csize, u_csize
<1>7. gtype \in SF /\ vtype \in UF
  <2>1. SF \subseteq Widths /\ UF \subseteq Widths /\ SF # {} /\ UF # {}
    BY <1>4, <1>5
  <2> HIDE DEF SF, UF
  <2> QED
    BY <1>3, <1>6, <2>1
<1>8. gtype \in Nat \ {0} /\ vtype \in Nat \ {0} /\ vtype \in Widths
      /\ size <= 2 ^ (gtype - 1) /\ size <= 2 ^ vtype
  BY <1>0, <1>7
<1>9. size # 2 ^ vtype
  BY <1>1, <1>8 DEF CTypesFit
<1>10. 2 ^ vtype \in Nat
  BY <1>8, HalfPower
<1> QED
  BY <1>1, <1>8, <1>9, <1>10

\* The C code finds the slot that perfecthash finds.
LEMMA CSlot ==
    ASSUME Typed, CTypesFit, NEW k \in Key, FitsTypes(k)
    PROVE  SlotInC(k) = SlotOf(k)
<1> DEFINE h == HashMod(k, 0)
           g == G[h]
<1>1. /\ hash \in HashFamily /\ keys \in Seq(Key) /\ size > 0 /\ size \in Nat \ {0}
      /\ G \in [Slot -> -size .. MaxSeed] /\ 0 \in 0 .. MaxSeed
  BY SizeNotPadded DEF CTypesFit, Typed, TypeOK
<1>2. h \in Slot
  BY <1>1, HashModType
<1>3. g \in -size .. MaxSeed
  BY <1>1, <1>2
<1>4. ASSUME NEW x \in 0 .. size PROVE Unsigned(x, vtype) = x
  <2>1. vtype \in Nat \ {0} /\ size < 2 ^ vtype /\ 2 ^ vtype \in Nat
    BY ChosenTypes, HalfPower
  <2> DEFINE m == 2 ^ vtype
  <2>2. m \in Nat /\ size < m
    BY <2>1
  <2> HIDE DEF m
  <2>3. x \in Nat /\ x < m
    BY <1>1, <2>2
  <2> QED
    BY <2>1, <2>3, UnsignedKeeps DEF m
<1>5. Unsigned(h, vtype) = h
  <2>1. h \in 0 .. size
    <3> HIDE DEF h
    <3> QED
      BY <1>1, <1>2 DEF Slot
  <2> QED
    BY <1>4, <2>1
<1>6. CG(h) = g
  <2> DEFINE m == 2 ^ (gtype - 1)
  <2>1. gtype \in Nat \ {0} /\ size <= m /\ m \in Nat
    BY ChosenTypes, HalfPower
  <2>2. g < m
    BY DEF FitsTypes
  <2> HIDE DEF m, g
  <2>3. g \in Int /\ -m <= g
    BY <1>1, <1>3, <2>1
  <2>4. Signed(g, gtype) = g
    BY <2>1, <2>2, <2>3, SignedKeeps DEF m
  <2> QED
    BY <2>4 DEF CG, g
<1>7. SlotInC(k) = IF g < 0 THEN Unsigned(-g, vtype) - 1
                   ELSE IF g = 0 THEN h
                   ELSE Unsigned(HashMod(k, g), vtype)
  BY <1>5, <1>6, Zenon DEF SlotInC
<1>8. SlotOf(k) = IF g < 0 THEN -g - 1 ELSE IF g = 0 THEN h ELSE HashMod(k, g)
  BY Zenon DEF SlotOf
<1> HIDE DEF g
<1>9. CASE g < 0
  <2>1. -g \in 0 .. size
    BY <1>1, <1>3, <1>9
  <2>2. Unsigned(-g, vtype) = -g
    BY <1>4, <2>1
  <2> QED
    BY <1>7, <1>8, <1>9, <2>2
<1>10. CASE g = 0
  BY <1>7, <1>8, <1>10
<1>11. CASE g > 0
  <2>1. g \in 0 .. MaxSeed /\ ~(g < 0) /\ g # 0
    BY <1>1, <1>3, <1>11
  <2> DEFINE t == HashMod(k, g)
  <2>2. t \in Slot
    BY <1>1, <2>1, HashModType
  <2> HIDE DEF t
  <2>3. t \in 0 .. size
    BY <1>1, <2>2 DEF Slot
  <2>4. Unsigned(t, vtype) = t
    BY <1>4, <2>3
  <2> QED
    BY <1>7, <1>8, <2>1, <2>4 DEF t
<1> QED
  BY <1>3, <1>9, <1>10, <1>11

(***************************************************************************)
(* The C function that is generated for a finished table answers what      *)
(* perfecthash answers whenever the seed and the value that the key needs  *)
(* fit their types, for every table, hash function and set of C types;     *)
(* the negated slots always fit (HanovPP.pm:329-340).                      *)
(***************************************************************************)
THEOREM CAgreesIfItFits ==
    ASSUME CTypesFit
    PROVE  Spec => []CAgreesWhenFitting
<1>1. TableInv => CAgreesWhenFitting
  <2> SUFFICES ASSUME TableInv, pc = "done", IndexValues, NEW k \in Key,
                      k \in UserKeys \/ ~dict.fp, FitsTypes(k)
               PROVE  SameAnswer(k)
    BY DEF CAgreesWhenFitting
  <2> DEFINE s == SlotOf(k)
             x == V[s]
             v == Signed(CV(s), vtype)
  <2>0. Typed
    BY DEF TableInv
  <2>1. /\ s \in Slot /\ size \in Nat \ {0}
        /\ x = Undef \/ x \in Slot
        /\ k \in UserKeys => x # Undef
        /\ keys[1] = k => k \in UserKeys
    BY DoneValue
  <2>2. PerfectHash(k) = IF dict.fp \/ (x # Undef /\ keys[x + 1] = k) THEN x ELSE Undef
    BY DoneAnswer
  <2>3. CLookup(k) = IF dict.fp \/ v = Wild THEN v
                     ELSE IF v \notin Slot THEN Wild
                     ELSE IF keys[v + 1] = k THEN v ELSE -1
    BY <2>0, <2>1, CSlot DEF CLookup
  <2>4. v = IF x = Undef THEN 0 ELSE x
    <3>1. vtype \in Nat \ {0} /\ 2 ^ (vtype - 1) \in Nat \ {0} /\ 2 ^ vtype \in Nat
          /\ 2 ^ vtype = 2 ^ (vtype - 1) + 2 ^ (vtype - 1)
      BY <2>0, ChosenTypes, HalfPower
    <3> DEFINE n == 2 ^ (vtype - 1)
               m == 2 ^ vtype
               y == IF x = Undef THEN 0 ELSE x
    <3>2. n \in Nat \ {0} /\ m = n + n
      BY <3>1
    <3>3. x # Undef => x < n
      BY DEF FitsTypes
    <3>4. y \in Nat /\ y < n /\ y < m
      <4> HIDE DEF n, m, x
      <4>1. CASE x = Undef
        BY <3>2, <4>1
      <4>2. CASE x # Undef
        <5>1. x \in Slot /\ y = x
          BY <2>1, <4>2, Zenon
        <5>2. y \in 0 .. size - 1 /\ y < n
          BY <3>3, <4>2, <5>1, Zenon DEF Slot
        <5> HIDE DEF y
        <5> QED
          BY <2>1, <3>2, <5>2
      <4> QED
        BY <4>1, <4>2
    <3>5. Unsigned(y, vtype) = y /\ Signed(y, vtype) = y
      <4> HIDE DEF y, x
      <4>1. -n <= y /\ y \in Int
        <5> HIDE DEF n, m
        <5> QED
          BY <3>2, <3>4
      <4> QED
        BY <3>1, <3>4, <4>1, UnsignedKeeps, SignedKeeps
    <3>6. CV(s) = y
      BY <3>5 DEF CV
    <3> QED
      BY <3>5, <3>6
  <2> HIDE DEF s, x, v
  <2>5. v \in Slot /\ v # Wild /\ 0 \in Slot
    <3>1. 0 \in Slot /\ \A y \in Slot : y \in Int
      BY <2>1 DEF Slot
    <3>2. v \in Slot
      BY <2>1, <2>4, <3>1, Zenon
    <3> QED
      BY <3>1, <3>2, WildAssumption
  <2>6. CLookup(k) = IF dict.fp THEN v ELSE IF keys[v + 1] = k THEN v ELSE -1
    BY <2>3, <2>5
  <2>7. CASE x = Undef
    <3>1. ~dict.fp /\ keys[1] # k
      BY <2>1, <2>7
    <3>2. v = 0 /\ v + 1 = 1
      BY <2>4, <2>7
    <3>3. CLookup(k) = -1 /\ PerfectHash(k) = Undef
      BY <2>2, <2>6, <2>7, <3>1, <3>2
    <3> QED
      BY <3>3 DEF SameAnswer
  <2>8. CASE x # Undef
    <3>1. v = x
      BY <2>4, <2>8
    <3>2. CLookup(k) = IF dict.fp \/ keys[x + 1] = k THEN x ELSE -1
      BY <2>6, <3>1
    <3>3. PerfectHash(k) = IF dict.fp \/ keys[x + 1] = k THEN x ELSE Undef
      BY <2>2, <2>8
    <3> QED
      BY <2>8, <3>2, <3>3 DEF SameAnswer
  <2> QED
    BY <2>7, <2>8
<1> QED
  BY <1>1, SpecTable, PTL
-----------------------------------------------------------------------------
(***************************************************************************)
(* The tables packed into the bit vector of Urban.                         *)
(***************************************************************************)
\* The numbers of a table are below the largest int, of 4 bytes, which the code takes for
\* the smallest one.
InWord ==
    /\ Byte <= 10
    /\ size < 2 ^ (4 * Byte - 1)
    /\ \A b \in Slot : G[b] < 2 ^ (4 * Byte - 1) - 1

Below(n) == \A b \in Slot : G[b] < 2 ^ n /\ -G[b] < 2 ^ n

Negative == \E b \in Slot : G[b] < 0

\* All of G has the digits that are counted.
LEMMA DigitsSuffice ==
    ASSUME Typed, InWord
    PROVE  \E n \in 1 .. 4 * Byte - 1 :
                Below(n) /\ NeededBits = IF Negative THEN n + 1 ELSE n
<1> DEFINE W == 4 * Byte - 1
           More(n) == \E b \in Slot : G[b] >= 2 ^ (n - 1) \/ -G[b] >= 2 ^ (n - 1)
           OK(n) == /\ \A b \in Slot : G[b] < 2 ^ n /\ -G[b] < 2 ^ n
                    /\ n > 1 => More(n)
           c == CHOOSE n \in 1 .. 40 : OK(n)
<1>1. /\ W \in Nat \ {0} /\ W <= 39 /\ 2 ^ W \in Nat
      /\ size \in Nat /\ G \in [Slot -> -size .. MaxSeed]
      /\ \A b \in Slot : G[b] \in Int /\ -G[b] <= size
  <2>1. W \in Nat \ {0} /\ W <= 39
    BY ByteAssumption DEF InWord
  <2>2. size \in Nat /\ G \in [Slot -> -size .. MaxSeed]
    BY DEF Typed, TypeOK, size
  <2>3. \A b \in Slot : G[b] \in Int /\ -G[b] <= size
    BY <2>2
  <2> QED
    BY <2>1, <2>2, <2>3, PowerOfTwo
<1>2. Below(W)
  <2>1. \A b \in Slot : G[b] < 2 ^ W - 1
    BY DEF InWord
  <2>2. size < 2 ^ W
    BY DEF InWord
  <2> DEFINE m == 2 ^ W
  <2>3. \A b \in Slot : G[b] < m /\ -G[b] < m
    <3>1. m \in Nat /\ size < m /\ \A b \in Slot : G[b] < m - 1
      BY <1>1, <2>1, <2>2
    <3> HIDE DEF m
    <3> QED
      BY <1>1, <3>1
  <2> QED
    BY <2>3 DEF Below
<1> HIDE DEF W
<1>3. \E n \in 1 .. 40 : OK(n)
  <2> DEFINE U == {n \in 1 .. W : Below(n)}
  <2>1. W \in U /\ U \subseteq Nat
    BY <1>1, <1>2
  <2> HIDE DEF U
  <2>2. PICK u \in U : \A n \in U : u <= n
    BY <2>1, Smallest
  <2>3. u \in 1 .. W /\ Below(u)
    BY <2>2 DEF U
  <2>4. ASSUME u > 1 PROVE More(u)
    <3>1. u - 1 \in 1 .. W /\ u - 1 \in Nat
      BY <1>1, <2>3, <2>4
    <3>2. u - 1 \notin U
      BY <1>1, <2>2, <2>3, <2>4
    <3>3. ~ Below(u - 1) /\ 2 ^ (u - 1) \in Nat
      BY <3>1, <3>2, PowerOfTwo DEF U
    <3>4. PICK b \in Slot : ~ (G[b] < 2 ^ (u - 1) /\ -G[b] < 2 ^ (u - 1))
      BY <3>3 DEF Below
    <3> DEFINE m == 2 ^ (u - 1)
    <3>5. G[b] >= m \/ -G[b] >= m
      <4>1. m \in Int /\ G[b] \in Int /\ ~ (G[b] < m /\ -G[b] < m)
        BY <1>1, <3>3, <3>4
      <4> HIDE DEF m
      <4> QED
        BY <4>1
    <3> QED
      BY <3>5
  <2>5. u \in 1 .. 40
    BY <1>1, <2>3
  <2>6. OK(u)
    BY <2>3, <2>4 DEF Below
  <2> QED
    BY <2>5, <2>6
<1>4. c \in 1 .. 40 /\ OK(c)
  <2> HIDE DEF OK
  <2> QED
    BY <1>3
<1>5. NeededBits = IF Negative THEN c + 1 ELSE c
  BY Zenon DEF NeededBits, Negative
<1> HIDE DEF c
<1>6. c <= W
  <2> SUFFICES ASSUME c > W PROVE FALSE
    BY <1>1, <1>4
  <2>1. c > 1 /\ c - 1 \in Nat /\ W <= c - 1
    BY <1>1, <1>4
  <2>2. PICK b \in Slot : G[b] >= 2 ^ (c - 1) \/ -G[b] >= 2 ^ (c - 1)
    BY <1>4, <2>1
  <2>3. 2 ^ W <= 2 ^ (c - 1) /\ 2 ^ (c - 1) \in Nat
    BY <1>1, <2>1, PowerGrows, PowerOfTwo
  <2> DEFINE m == 2 ^ W
             q == 2 ^ (c - 1)
  <2>4. /\ m \in Nat /\ q \in Nat /\ m <= q /\ G[b] \in Int
        /\ G[b] < m /\ -G[b] < m /\ (G[b] >= q \/ -G[b] >= q)
    BY <1>1, <1>2, <2>2, <2>3 DEF Below
  <2> HIDE DEF m, q
  <2> QED
    BY <2>4
<1>7. c \in 1 .. W /\ Below(c)
  BY <1>1, <1>4, <1>6 DEF Below
<1> QED
  BY <1>5, <1>7 DEF W

\* The width that is chosen: it has room for all of G, and for a sign if one is needed.
LEMMA WidthSuffices ==
    ASSUME Typed, InWord
    PROVE  /\ bits \in CellWidths /\ bits \in Nat \ {0}
           /\ Negative => \A b \in Slot : G[b] < 2 ^ (bits - 1) /\ -G[b] < 2 ^ (bits - 1)
<1> DEFINE N == NeededBits
           OK(w) == w >= N /\ \A x \in CellWidths : x < w => x < N
<1>1. PICK n \in 1 .. 4 * Byte - 1 : Below(n) /\ N = IF Negative THEN n + 1 ELSE n
  BY DigitsSuffice
<1>2. N \in Nat /\ N <= 4 * Byte /\ n \in Nat
  BY <1>1, ByteAssumption
<1>3. CellWidths \subseteq Nat \ {0} /\ 4 * Byte \in CellWidths
  <2>1. Byte \div 4 \in Nat \ {0} /\ Byte \div 2 \in Nat \ {0}
    BY ByteAssumption
  <2> QED
    BY <2>1, ByteAssumption DEF CellWidths, Quarter, Half
<1> HIDE DEF N
<1>4. \E w \in CellWidths : OK(w)
  <2> DEFINE U == {w \in CellWidths : w >= N}
  <2>1. 4 * Byte \in U /\ U \subseteq Nat
    BY <1>2, <1>3, ByteAssumption
  <2> HIDE DEF U
  <2>2. PICK u \in U : \A w \in U : u <= w
    BY <2>1, Smallest
  <2>3. u \in CellWidths /\ u >= N
    BY <2>2 DEF U
  <2>4. ASSUME NEW x \in CellWidths, x < u PROVE x < N
    <3>1. x \notin U /\ x \in Nat /\ u \in Nat
      BY <1>3, <2>2, <2>3, <2>4
    <3> QED
      BY <1>2, <3>1 DEF U
  <2> QED
    BY <2>3, <2>4
<1>5. bits \in CellWidths /\ bits >= N
  <2>1. bits = CHOOSE w \in CellWidths : OK(w)
    BY DEF bits, N
  <2> DEFINE c == bits
  <2> HIDE DEF c
  <2>2. c \in CellWidths /\ OK(c)
    <3> HIDE DEF OK
    <3> QED
      BY <1>4, <2>1 DEF c
  <2> QED
    BY <2>2 DEF c
<1>6. bits \in Nat \ {0}
  BY <1>3, <1>5
<1>7. ASSUME Negative, NEW b \in Slot PROVE G[b] < 2 ^ (bits - 1) /\ -G[b] < 2 ^ (bits - 1)
  <2>1. n <= bits - 1 /\ bits - 1 \in Nat
    BY <1>1, <1>2, <1>5, <1>6, <1>7
  <2>2. 2 ^ n <= 2 ^ (bits - 1) /\ 2 ^ n \in Nat /\ 2 ^ (bits - 1) \in Nat
    BY <1>2, <2>1, PowerGrows, PowerOfTwo
  <2>3. G[b] < 2 ^ n /\ -G[b] < 2 ^ n /\ G[b] \in Int
    BY <1>1 DEF Below, Typed, TypeOK, size
  <2> DEFINE m == 2 ^ n
             p == 2 ^ (bits - 1)
  <2>4. m \in Nat /\ p \in Nat /\ m <= p /\ G[b] < m /\ -G[b] < m /\ G[b] \in Int
    BY <2>2, <2>3
  <2> HIDE DEF m, p
  <2>5. G[b] < p /\ -G[b] < p
    BY <2>4
  <2> QED
    BY <2>5 DEF p
<1> QED
  BY <1>5, <1>6, <1>7
\* What the property asks of the width.
Roomy == bits >= Byte /\ (LastSlotInG \/ (SignFits /\ ValuesFit))

\* The cells have room for the numbers of both tables.
LEMMA CellsSuffice ==
    ASSUME TableInv, pc = "done", InWord, GoodValues, Roomy
    PROVE  /\ \A b \in Slot : G[b] \in Int /\ G[b] < 2 ^ (bits - 1) /\ -G[b] < 2 ^ (bits - 1)
           /\ \A s \in Slot : V[s] # Undef =>
                    V[s] \in Nat /\ V[s] < 2 ^ (IF bits = Byte THEN bits ELSE bits - 1)
<1> DEFINE p == 2 ^ (bits - 1)
           m == 2 ^ bits
<1>1. /\ Typed /\ bits \in Nat \ {0}
      /\ Negative => \A b \in Slot : G[b] < p /\ -G[b] < p
  BY WidthSuffices DEF TableInv
<1>2. p \in Nat \ {0} /\ m = p + p
  BY <1>1, HalfPower
<1>3. /\ size \in Nat \ {0} /\ G \in [Slot -> -size .. MaxSeed]
      /\ \A b \in Slot : G[b] \in Int
  <2>1. size \in Nat \ {0} /\ G \in [Slot -> -size .. MaxSeed]
    BY <1>1 DEF Typed, TypeOK, size
  <2> QED
    BY <2>1
<1>4. ASSUME NEW s \in Slot, V[s] # Undef PROVE V[s] \in 0 .. size
  <2>1. PICK u \in Key : V[s] = value[u]
    BY <1>4 DEF TableInv, ValuesOK
  <2>2. CASE dict.kind = "HASH"
    <3>1. V[s] = HashValue(dict, u)
      BY <2>1, <2>2 DEF TableInv, ValuesOK
    <3>2. PICK j \in 1 .. Len(dict.keys) : V[s] = dict.values[j]
      BY <1>4, <3>1 DEF HashValue
    <3>3. Len(dict.values) = Len(dict.keys)
      BY <1>1, <2>2 DEF Typed, TypeOK
    <3> QED
      BY <3>2, <3>3 DEF GoodValues
  <2>3. CASE dict.kind # "HASH"
    <3>1. V[s] \in Slot
      BY <1>4, <2>1, <2>3 DEF TableInv, ValuesOK
    <3> QED
      BY <1>3, <3>1 DEF Slot
  <2> QED
    BY <2>2, <2>3
<1>5. CASE LastSlotInG
  <2>1. PICK b \in Slot : G[b] = -size
    BY <1>5 DEF LastSlotInG
  <2>2. Negative
    BY <1>3, <2>1 DEF Negative
  <2>3. size < p
    <3>1. -G[b] < p /\ -G[b] = size
      BY <1>1, <1>3, <2>1, <2>2
    <3> QED
      BY <3>1
  <2>4. ASSUME NEW s \in Slot, V[s] # Undef
        PROVE  V[s] \in Nat /\ V[s] < p /\ V[s] < m
    <3>1. V[s] \in 0 .. size
      BY <1>4, <2>4
    <3> HIDE DEF p, m
    <3> QED
      BY <1>2, <1>3, <2>3, <3>1
  <2> QED
    BY <1>1, <1>3, <2>2, <2>4
<1>6. CASE SignFits /\ ValuesFit
  <2>1. \A b \in Slot : G[b] < p /\ -G[b] < p
    <3>1. CASE Negative
      BY <1>1, <3>1
    <3>2. CASE ~Negative
      <4>1. \A b \in Slot : G[b] < p /\ ~(G[b] < 0)
        BY <1>6, <3>2 DEF SignFits, Negative
      <4> HIDE DEF p
      <4> QED
        BY <1>2, <1>3, <4>1
    <3> QED
      BY <3>1, <3>2
  <2>2. ASSUME NEW s \in Slot, V[s] # Undef
        PROVE  V[s] \in Nat /\ V[s] < 2 ^ (IF bits = Byte THEN bits ELSE bits - 1)
    <3>1. V[s] \in Nat
      BY <1>3, <1>4, <2>2
    <3>2. V[s] < 2 ^ (IF bits = Byte THEN Byte ELSE bits - 1)
      BY <1>6, <2>2 DEF ValuesFit
    <3> QED
      BY <3>1, <3>2
  <2> QED
    BY <1>3, <2>1, <2>2
<1> QED
  BY <1>5, <1>6 DEF Roomy

\* A cell that is not narrower than a byte holds the number that was stored.
LEMMA CellOf ==
    ASSUME TableInv, pc = "done", InWord, GoodValues, Roomy, NEW s \in Slot
    PROVE  /\ Seed(s) = G[s]
           /\ Vec(size, s) = IF V[s] = Undef THEN 0 ELSE V[s]
           /\ bits >= Half
<1> DEFINE p == 2 ^ (bits - 1)
           m == 2 ^ bits
           g == G[s]
           y == IF V[s] = Undef THEN 0 ELSE V[s]
<1>1. /\ bits \in {Byte, 2 * Byte, 4 * Byte} /\ bits \in Nat \ {0} /\ bits # Half
      /\ bits >= Half /\ Byte \in Nat \ {0}
  <2>1. bits \in CellWidths /\ bits \in Nat \ {0}
    BY WidthSuffices DEF TableInv
  <2>2. Byte \div 4 < Byte /\ Byte \div 2 < Byte /\ Byte \in Nat \ {0}
        /\ Byte \div 4 \in Nat /\ Byte \div 2 \in Nat
    BY ByteAssumption
  <2>3. bits >= Byte
    BY DEF Roomy
  <2> QED
    BY <2>1, <2>2, <2>3 DEF CellWidths, Quarter, Half
<1>2. p \in Nat \ {0} /\ m \in Nat \ {0} /\ m = p + p
  BY <1>1, HalfPower
<1>3. size \in Nat \ {0} /\ s \in 0 .. size - 1
  <2>1. size \in Nat \ {0}
    BY DEF TableInv, Typed, TypeOK, size
  <2> QED
    BY <2>1 DEF Slot
<1>4. g \in Int /\ g < p /\ -g < p
  BY CellsSuffice
<1>5. y \in Nat /\ (bits = Byte => y < m) /\ (bits # Byte => y < p)
  <2>1. CASE V[s] = Undef
    <3>1. y = 0
      BY <2>1
    <3> HIDE DEF y, p, m
    <3> QED
      BY <1>2, <3>1
  <2>2. CASE V[s] # Undef
    BY <2>2, CellsSuffice
  <2> QED
    BY <2>1, <2>2
<1>6. ToStore(s) = g /\ ToStore(0 + s) = g
  BY <1>3 DEF ToStore
<1>7. ToStore(size + s) = y
  <2>1. ~(size + s < size) /\ (size + s) - size = s
    BY <1>3
  <2> QED
    BY <2>1 DEF ToStore
<1>8. Vec(0, s) = IF bits = Byte THEN Unsigned(g, bits) ELSE Signed(g, bits)
  BY <1>1, <1>6 DEF Vec
<1>9. Vec(size, s) = IF bits = Byte THEN Unsigned(y, bits) ELSE Signed(y, bits)
  BY <1>1, <1>7 DEF Vec
<1> HIDE DEF y
<1>10. Vec(size, s) = y
  <2>1. CASE bits = Byte
    <3>1. Unsigned(y, bits) = y
      BY <1>1, <1>5, <2>1, UnsignedKeeps
    <3> QED
      BY <1>9, <2>1, <3>1
  <2>2. CASE bits # Byte
    <3>1. y \in Int /\ -p <= y /\ y < p
      <4> HIDE DEF p, m
      <4> QED
        BY <1>2, <1>5, <2>2
    <3>2. Signed(y, bits) = y
      BY <1>1, <3>1, SignedKeeps
    <3> QED
      BY <1>9, <2>2, <3>2
  <2> QED
    BY <2>1, <2>2
<1>11. Seed(s) = IF bits = 4 * Byte
                 THEN IF Vec(0, s) = p - 1 THEN -p ELSE Vec(0, s)
                 ELSE IF Vec(0, s) >= p THEN Vec(0, s) - m ELSE Vec(0, s)
  BY Zenon DEF Seed
<1>12. bits = 4 * Byte => g # p - 1
  <2> SUFFICES ASSUME bits = 4 * Byte PROVE g # p - 1
    OBVIOUS
  <2>1. g < p - 1
    BY DEF InWord
  <2> HIDE DEF p, g
  <2> QED
    BY <1>2, <1>4, <2>1
<1>13. Seed(s) = g
  <2>1. CASE bits # Byte
    <3>1. -p <= g
      <4> HIDE DEF p, g
      <4> QED
        BY <1>2, <1>4
    <3>2. Vec(0, s) = g
      <4>1. Signed(g, bits) = g
        <5> HIDE DEF g
        <5> QED
          BY <1>1, <1>4, <3>1, SignedKeeps
      <4> QED
        BY <1>8, <2>1, <4>1
    <3> HIDE DEF p, m, g
    <3>3. ~(g >= p)
      BY <1>2, <1>4
    <3> QED
      BY <1>11, <1>12, <3>2, <3>3
  <2>2. CASE bits = Byte
    <3> DEFINE u == Vec(0, s)
    <3>1. u = g % m
      BY <1>8, <2>2 DEF Unsigned
    <3>2. Seed(s) = IF u >= p THEN u - m ELSE u
      <4>1. bits # 4 * Byte
        BY <1>1, <2>2
      <4> QED
        BY <1>11, <4>1
    <3> HIDE DEF p, m, g, u
    <3>3. CASE g >= 0
      <4>1. g \in 0 .. m - 1
        BY <1>2, <1>4, <3>3
      <4>2. u = g
        BY <1>2, <3>1, <4>1, SmallMod
      <4> QED
        BY <1>2, <1>4, <3>2, <4>2
    <3>4. CASE g < 0
      <4>1. g \in -m .. -1
        BY <1>2, <1>4, <3>4
      <4>2. u = g + m
        BY <1>2, <3>1, <4>1, WrapMod
      <4> QED
        BY <1>2, <1>4, <3>2, <4>2
    <3> QED
      BY <1>4, <3>3, <3>4
  <2> QED
    BY <2>1, <2>2
<1> QED
  BY <1>1, <1>10, <1>13 DEF y

(***************************************************************************)
(* The lookup in the bit vector answers what the lookup in the tables      *)
(* does, for every table whose numbers are below the largest int, when the *)
(* cells are at least bytes and either the last slot is in G or the signs  *)
(* and the values happen to fit: the width that new computes from G alone  *)
(* loses nothing then (Urban.pm:142-165, Hash.xs:265-310).                 *)
(***************************************************************************)
THEOREM PackedTableAgrees == Spec => [](InWord => PackedAgrees)
<1>1. TableInv => (InWord => PackedAgrees)
  <2> SUFFICES ASSUME TableInv, InWord, pc = "done", GoodValues, dict.fp \/ IndexValues,
                      Roomy, NEW k \in Key, k \in UserKeys \/ ~dict.fp
               PROVE  IvPerfectHash(k) = PerfectHash(k)
    BY DEF PackedAgrees, Roomy
  <2> DEFINE s == SlotOf(k)
             x == V[s]
             y == IF x = Undef THEN 0 ELSE x
             h == HashMod(k, 0)
  <2>1. /\ s \in Slot /\ size \in Nat \ {0}
        /\ x \in Int \cup {Undef}
        /\ IndexValues /\ x # Undef => x \in Slot
        /\ x # Undef => x \in 0 .. size
        /\ k \in UserKeys => x # Undef
        /\ keys[1] = k => k \in UserKeys
    BY DoneValue
  <2>2. PerfectHash(k) = IF dict.fp \/ (x # Undef /\ keys[x + 1] = k) THEN x ELSE Undef
    BY DoneAnswer
  <2>3. IndexOf(k) = s
    <3>1. h \in Slot
      <4>1. hash \in HashFamily /\ keys \in Seq(Key) /\ size > 0 /\ 0 \in 0 .. MaxSeed
        BY DEF TableInv, Typed, TypeOK
      <4> QED
        BY <4>1, HashModType
    <3>2. Seed(h) = G[h]
      BY <3>1, CellOf
    <3> QED
      BY <3>2, Zenon DEF IndexOf, SlotOf
  <2>4. Vec(size, s) = y /\ bits >= Half
    BY <2>1, CellOf
  <2>5. ~(bits < Half)
    <3>1. bits \in Nat /\ Half \in Int
      BY WidthSuffices, ByteAssumption DEF TableInv, Half
    <3> QED
      BY <2>4, <3>1
  <2>6. IvPerfectHash(k) = IF dict.fp THEN IF y = -1 THEN Undef ELSE y
                           ELSE IF y \notin Slot THEN Wild
                           ELSE IF keys[y + 1] = k THEN y ELSE Undef
    BY <2>1, <2>3, <2>4, <2>5, Zenon DEF IvPerfectHash
  <2> HIDE DEF s, x
  <2>7. CASE x = Undef
    <3>1. ~dict.fp /\ keys[1] # k /\ y = 0 /\ 0 \in Slot
      BY <2>1, <2>7 DEF Slot
    <3> HIDE DEF y
    <3>2. y + 1 = 1 /\ y \in Slot
      BY <3>1
    <3>3. IvPerfectHash(k) = Undef /\ PerfectHash(k) = Undef
      BY <2>2, <2>6, <2>7, <3>1, <3>2
    <3> QED
      BY <3>3
  <2>8. CASE x # Undef
    <3>1. y = x /\ y # -1
      <4>1. x \in 0 .. size
        BY <2>1, <2>8
      <4>2. x # -1
        BY <2>1, <4>1
      <4> QED
        BY <2>8, <4>2
    <3>2. CASE dict.fp
      BY <2>2, <2>6, <3>1, <3>2
    <3>3. CASE ~dict.fp
      <4>1. x \in Slot
        BY <2>1, <2>8, <3>3
      <4> HIDE DEF y
      <4> QED
        BY <2>2, <2>6, <2>8, <3>1, <3>3, <4>1
    <3> QED
      BY <3>2, <3>3
  <2> QED
    BY <2>7, <2>8
<1> QED
  BY <1>1, SpecTable, PTL
==============================================================================
