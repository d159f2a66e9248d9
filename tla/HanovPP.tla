------------------------------- MODULE HanovPP -------------------------------
(***************************************************************************)
(* lib/Perfect/Hash/HanovPP.pm, the default method of Perfect::Hash, with  *)
(* _dict_init of lib/Perfect/Hash.pm which it calls first.  new places the *)
(* keys into buckets by their hash with seed 0, searches for each bucket   *)
(* of two or more keys a seed d > 0 that sends all of them to free slots   *)
(* of V, and gives every one-key bucket a slot from the list of free ones. *)
(* G holds, per bucket, the seed or the negated slot.                      *)
(*                                                                         *)
(* Hanov.pm and Urban.pm run the same construction with another hash       *)
(* function, which is a parameter here.                                    *)
(***************************************************************************)
EXTENDS DictInit

CONSTANTS
    Key,        \* all strings a caller may pass
    Dict,       \* the dictionaries new is called with, see DictType
    HashFamily, \* the hash functions: key -> seed -> 32-bit value
    MaxSeed     \* the last of the different seeds, 2^32

(***************************************************************************)
(* A dictionary: an arrayref, the lines of a file, or a hashref (keys then *)
(* in the order of sort), the values of a hashref (empty for the others),  *)
(* and whether the option -false-positives was given.                      *)
(***************************************************************************)
DictType == [kind : {"ARRAY", "FILE", "HASH"}, keys : Seq(Key),
             values : Seq(Int), fp : BOOLEAN]

ASSUME KeyAssumption == Empty \in Key /\ Undef \notin Int

ASSUME DictAssumption ==
    /\ Dict \subseteq DictType
    /\ \A c \in Dict : /\ Len(c.keys) > 0
                       /\ c.kind = "HASH" => Len(c.values) = Len(c.keys)

ASSUME SeedAssumption == MaxSeed \in Nat \ {0} /\ PadUnit \in Nat \ {0}

ASSUME HashAssumption == HashFamily \subseteq [Key -> [0 .. MaxSeed -> Nat]]

VARIABLES
    dict,       \* the argument of new and its option
    hash,       \* $class->hash
    keys,       \* @$keys, after _dict_init
    value,      \* the %dict from keys to values
    buckets,    \* @buckets
    i,          \* position in keys of the loops that fill value and buckets
    todo,       \* @sorted, the buckets not yet processed
    cur,        \* $b, the bucket whose seed is searched
    d,          \* the seed tried
    slots,      \* %slots, the slot of each item of the bucket tried so far
    freelist,   \* @freelist
    G,          \* @G
    V,          \* @V
    pc

input  == <<dict, hash, keys>>
vars   == <<input, value, buckets, i, todo, cur, d, slots, freelist, G, V, pc>>

size == Len(keys)
Slot == 0 .. size - 1

\* $class->hash($key, $seed) % $size
HashMod(k, seed) == hash[k][seed] % size

Elems(s) == {s[j] : j \in 1 .. Len(s)}

-----------------------------------------------------------------------------
\* The value of key k of a hashref: undef for the dummy key.
HashValue(c, k) ==
    IF \E j \in 1 .. Len(c.keys) : c.keys[j] = k
    THEN c.values[CHOOSE j \in 1 .. Len(c.keys) : c.keys[j] = k]
    ELSE Undef

InitialValue(c, k) == IF c.kind = "HASH" THEN HashValue(c, k) ELSE Undef

Init ==
    /\ dict \in Dict
    /\ hash \in HashFamily
    /\ keys = PaddedKeys(dict.keys)
    /\ value = [k \in Key |-> InitialValue(dict, k)]
    /\ buckets = [b \in Slot |-> << >>]
    /\ i = 1
    /\ todo = Slot
    /\ cur = 0 /\ d = 1 /\ slots = << >> /\ freelist = {}
    /\ G = [b \in Slot |-> 0]
    /\ V = [s \in Slot |-> Undef]
    /\ pc = "place"

(***************************************************************************)
(* Step 1: a key goes to its bucket.  For an array or a file the same loop *)
(* over the keys fills %dict, where a later duplicate wins.                *)
(***************************************************************************)
PlaceKey ==
    /\ pc = "place" /\ i <= size
    /\ buckets' = [buckets EXCEPT ![HashMod(keys[i], 0)] = Append(@, keys[i])]
    /\ value' = IF dict.kind = "HASH" THEN value
                ELSE [value EXCEPT ![keys[i]] = i - 1]
    /\ i' = i + 1
    /\ UNCHANGED <<input, todo, cur, d, slots, freelist, G, V, pc>>

SortBuckets ==
    /\ pc = "place" /\ i > size
    /\ pc' = "pick"
    /\ UNCHANGED <<input, value, buckets, i, todo, cur, d, slots, freelist, G, V>>

\* The first of @sorted; sort does not fix the order of equally large buckets.
Largest(b) == \A c \in todo : Len(buckets[c]) <= Len(buckets[b])

\* Step 2: the next bucket with more than one key.
PickBucket ==
    /\ pc = "pick"
    /\ \E b \in todo :
        /\ Largest(b) /\ Len(buckets[b]) > 1
        /\ cur' = b
        /\ todo' = todo \ {b}
    /\ d' = 1 /\ slots' = << >>
    /\ pc' = "try"
    /\ UNCHANGED <<input, value, buckets, i, freelist, G, V>>

\* Mutant of NextSeed: $d++ is missing.
NextSeed_Same(s) == s

\* The hash keeps the low 32 bits, so seed MaxSeed + 1 acts as seed 1.
NextSeed(s) == IF s = MaxSeed THEN 1 ELSE s + 1

\* Mutants of TryItem: $item and %slots are not reset for the next seed; only
\* the slots of this bucket are checked, not V.
TryItem_NoReset ==
    /\ pc = "try" /\ Len(slots) < Len(buckets[cur])
    /\ LET slot == HashMod(buckets[cur][Len(slots) + 1], d)
       IN  \/ /\ V[slot] # Undef \/ slot \in Elems(slots)
              /\ d' = NextSeed(d) /\ slots' = slots
           \/ /\ V[slot] = Undef /\ slot \notin Elems(slots)
              /\ slots' = Append(slots, slot) /\ d' = d
    /\ UNCHANGED <<input, value, buckets, i, todo, cur, freelist, G, V, pc>>

TryItem_IgnoreV ==
    /\ pc = "try" /\ Len(slots) < Len(buckets[cur])
    /\ LET slot == HashMod(buckets[cur][Len(slots) + 1], d)
       IN  \/ /\ slot \in Elems(slots)
              /\ d' = NextSeed(d) /\ slots' = << >>
           \/ /\ slot \notin Elems(slots)
              /\ slots' = Append(slots, slot) /\ d' = d
    /\ UNCHANGED <<input, value, buckets, i, todo, cur, freelist, G, V, pc>>

\* One iteration of the seed search: the next item finds a free slot or not.
TryItem ==
    /\ pc = "try" /\ Len(slots) < Len(buckets[cur])
    /\ LET slot == HashMod(buckets[cur][Len(slots) + 1], d)
       IN  \/ /\ V[slot] # Undef \/ slot \in Elems(slots)
              /\ d' = NextSeed(d) /\ slots' = << >>
           \/ /\ V[slot] = Undef /\ slot \notin Elems(slots)
              /\ slots' = Append(slots, slot) /\ d' = d
    /\ UNCHANGED <<input, value, buckets, i, todo, cur, freelist, G, V, pc>>

\* Mutant of StoreBucket: all slots get the value of the first key.
StoreBucket_FirstValue ==
    /\ pc = "try" /\ Len(slots) = Len(buckets[cur])
    /\ G' = [G EXCEPT ![HashMod(buckets[cur][1], 0)] = d]
    /\ V' = [s \in Slot |-> IF s \in Elems(slots) THEN value[buckets[cur][1]]
                                                  ELSE V[s]]
    /\ pc' = "pick"
    /\ UNCHANGED <<input, value, buckets, i, todo, cur, d, slots, freelist>>

\* All items of the bucket have a slot: store the seed and the values.
StoreBucket ==
    /\ pc = "try" /\ Len(slots) = Len(buckets[cur])
    /\ G' = [G EXCEPT ![HashMod(buckets[cur][1], 0)] = d]
    /\ V' = [s \in Slot |->
                IF s \in Elems(slots)
                THEN value[buckets[cur][CHOOSE j \in 1 .. Len(slots) : slots[j] = s]]
                ELSE V[s]]
    /\ pc' = "pick"
    /\ UNCHANGED <<input, value, buckets, i, todo, cur, d, slots, freelist>>

\* Mutants of MakeFreelist: indices from 1, and slot 0 skipped.
MakeFreelist_FromOne ==
    /\ pc = "pick"
    /\ \A b \in todo : Len(buckets[b]) <= 1
    /\ freelist' = {s + 1 : s \in {t \in Slot : V[t] = Undef}}
    /\ pc' = "single"
    /\ UNCHANGED <<input, value, buckets, i, todo, cur, d, slots, G, V>>

MakeFreelist_SkipZero ==
    /\ pc = "pick"
    /\ \A b \in todo : Len(buckets[b]) <= 1
    /\ freelist' = {s \in Slot \ {0} : V[s] = Undef}
    /\ pc' = "single"
    /\ UNCHANGED <<input, value, buckets, i, todo, cur, d, slots, G, V>>

\* Only buckets with one or no key are left: list the free slots.
MakeFreelist ==
    /\ pc = "pick"
    /\ \A b \in todo : Len(buckets[b]) <= 1
    /\ freelist' = {s \in Slot : V[s] = Undef}
    /\ pc' = "single"
    /\ UNCHANGED <<input, value, buckets, i, todo, cur, d, slots, G, V>>

\* pop @freelist: the largest index; undef, read as 0, when there is none.
Popped(list) ==
    IF list = {} THEN {0} ELSE {s \in list : \A t \in list : t <= s}

StoreSingle ==
    /\ pc = "single"
    /\ \E b \in todo :
        /\ Len(buckets[b]) = 1
        /\ \E slot \in Popped(freelist) :
            /\ G' = [G EXCEPT ![HashMod(buckets[b][1], 0)] = -slot - 1]
            /\ V' = [V EXCEPT ![slot] = value[buckets[b][1]]]
            /\ freelist' = freelist \ {slot}
        /\ todo' = todo \ {b}
    /\ UNCHANGED <<input, value, buckets, i, cur, d, slots, pc>>

\* Only empty buckets are left: the object is returned.
Finish ==
    /\ pc = "single"
    /\ \A b \in todo : Len(buckets[b]) = 0
    /\ pc' = "done"
    /\ UNCHANGED <<input, value, buckets, i, todo, cur, d, slots, freelist, G, V>>

Terminating == pc = "done" /\ UNCHANGED vars

Next ==
    \/ PlaceKey \/ SortBuckets
    \/ PickBucket \/ TryItem \/ StoreBucket
    \/ MakeFreelist \/ StoreSingle \/ Finish
    \/ Terminating

Spec == Init /\ [][Next]_vars /\ WF_vars(Next)

-----------------------------------------------------------------------------
(***************************************************************************)
(* perfecthash($key) on the finished object.                               *)
(***************************************************************************)
SlotOf(k) ==
    LET h == HashMod(k, 0)
    IN  IF G[h] < 0 THEN -G[h] - 1
        ELSE IF G[h] = 0 THEN h
        ELSE HashMod(k, G[h])

\* $keys->[$v]: undef indexes as 0, -1 is the last element, and an element
\* that does not exist compares like the empty string.
KeyAt(x) ==
    IF x = Undef THEN keys[1]
    ELSE IF x \in Slot THEN keys[x + 1]
    ELSE IF x + size \in Slot THEN keys[x + size + 1]
    ELSE Empty

PerfectHash(k) ==
    LET x == V[SlotOf(k)]
    IN  IF dict.fp \/ KeyAt(x) = k THEN x ELSE Undef

-----------------------------------------------------------------------------
(***************************************************************************)
(* Type correctness of the whole state.                                    *)
(***************************************************************************)
TypeOK ==
    /\ dict \in Dict
    /\ hash \in HashFamily
    /\ keys \in Seq(Key) /\ size > 0
    /\ value \in [Key -> Int \cup {Undef}]
    /\ buckets \in [Slot -> Seq(Key)]
    /\ i \in 1 .. size + 1
    /\ todo \subseteq Slot
    /\ cur \in Slot
    /\ d \in 1 .. MaxSeed
    /\ slots \in Seq(Slot)
    /\ freelist \subseteq Slot
    /\ G \in [Slot -> -size .. MaxSeed]
    /\ V \in [Slot -> Int \cup {Undef}]
    /\ pc \in {"place", "pick", "try", "single", "done"}

UserKeys == Elems(dict.keys)

\* What the key check of perfecthash relies on: "only correct if values start
\* with 0" - the value of the j-th key of a hashref is its index.
IndexValues ==
    dict.kind = "HASH" => \A j \in 1 .. Len(dict.values) : dict.values[j] = j - 1

\* x is what the dictionary holds for k: the given value of a hashref, the
\* index for an array or file, undef for anything else.
Holds(k, x) ==
    IF dict.kind = "HASH"
    THEN x = HashValue(dict, k)
    ELSE \/ x = Undef /\ k \notin Elems(keys)
         \/ x \in Slot /\ keys[x + 1] = k

(***************************************************************************)
(* The finished table is the dictionary: every given key returns its value *)
(* and, unless -false-positives was given, every other string returns      *)
(* undef.                                                                  *)
(***************************************************************************)
PerfectLookup ==
    pc = "done" /\ (dict.fp \/ IndexValues) =>
        \A k \in Key : k \in UserKeys \/ ~dict.fp => Holds(k, PerfectHash(k))

(***************************************************************************)
(* A slot that has a value keeps it: neither a later bucket nor a one-key  *)
(* bucket is ever stored over an earlier key.                              *)
(***************************************************************************)
NoOverwrite == [][\A s \in Slot : V[s] # Undef => V'[s] = V[s]]_vars

(***************************************************************************)
(* pop @freelist never finds the list empty: the buckets processed before  *)
(* have left a slot for every remaining key.                               *)
(***************************************************************************)
FreelistSuffices ==
    pc = "single" /\ (\E b \in todo : Len(buckets[b]) = 1) => freelist # {}

\* Seed s sends the keys of bucket b to different free slots.
SeedWorks(b, s) ==
    LET bucket == buckets[b]
    IN  /\ \A p \in 1 .. Len(bucket) : V[HashMod(bucket[p], s)] = Undef
        /\ \A p, q \in 1 .. Len(bucket) :
                p # q => HashMod(bucket[p], s) # HashMod(bucket[q], s)

(***************************************************************************)
(* The seed search skips no seed that works: all seeds before the one      *)
(* being tried fail for this bucket, and the items accepted so far are     *)
(* exactly where the current seed puts them.                               *)
(***************************************************************************)
SmallestSeed ==
    pc = "try" =>
        /\ \A s \in 1 .. d - 1 : ~SeedWorks(cur, s)
        /\ Len(slots) = Len(buckets[cur]) => SeedWorks(cur, d)
        /\ \A p \in 1 .. Len(slots) : slots[p] = HashMod(buckets[cur][p], d)

\* A bucket of which two keys agree with every seed.
Stuck == pc = "try" /\ \A s \in 1 .. MaxSeed : ~SeedWorks(cur, s)

(***************************************************************************)
(* new returns, if it does not come to a bucket that no seed sends to      *)
(* different free slots: a collision on a late item of a bucket does not   *)
(* make the search miss the seed that works.                               *)
(***************************************************************************)
Returns == <>(pc = "done" \/ Stuck)

(***************************************************************************)
(* new returns.                                                            *)
(***************************************************************************)
Termination == <>(pc = "done")
=============================================================================
