------------------------------- MODULE Pearson -------------------------------
(***************************************************************************)
(* lib/Perfect/Hash/Pearson.pm and PearsonNP.pm: new shuffles a table H     *)
(* until the Pearson hash made from it maps all keys to different slots,    *)
(* or until the number of tries or the time is used up; then it collects    *)
(* the colliding keys of each slot in C.  The two classes differ in the     *)
(* number of tries, in which table counts as better and in the lookup.      *)
(*                                                                         *)
(* $best is a reference to the object whose table the next shuffle          *)
(* changes, so the table used in the end is always the last one; only the   *)
(* recorded $maxsum and $maxdepth belong to the best.                       *)
(***************************************************************************)
EXTENDS DictInit, FiniteSets, FiniteSetsExt

CONSTANTS
    Dict,         \* the calls of new: keys, values of a hashref or <<>>, whether
                  \* -false-positives is given, whether the class is PearsonNP
    Absent,       \* keys that are looked up and may be in no dictionary
    MinBits,      \* log2 of the smallest table, 8
    ByteXor(_, _),    \* ^ on bytes and table entries
    NPTries       \* PearsonNP's limit of tries, 30

(* A key is the sequence of its bytes. *)
ASSUME PearsonAssumption ==
    /\ MinBits \in Nat /\ NPTries \in Nat
    /\ Empty = << >> /\ Absent \subseteq Seq(Nat)
    /\ Dict \subseteq [keys : Seq(Seq(Nat)), values : Seq(Int),
                       fp : BOOLEAN, np : BOOLEAN]
    /\ \A c \in Dict : Len(c.keys) > 0 /\ Len(c.values) \in {0, Len(c.keys)}

VARIABLES
    dict,       \* the argument of new, its option and its class
    H,          \* the table, shuffled in place
    i,          \* position of the shuffle
    sum, max,   \* the cost of H: colliding keys, and keys in the fullest slot
    maxsum, maxdepth,   \* the cost recorded with $best, undef at first
    counter,    \* tables tried
    C,          \* the collisions, undef while there are none
    pc

vars == <<dict, H, i, sum, max, maxsum, maxdepth, counter, C, pc>>

keys == PaddedKeys(dict.keys)
NP == dict.np
size == Len(keys)

(* while (2**$i++ < $size) {}: the smallest power of two from 2^MinBits on  *)
(* that is not below the number of keys; PearsonNP has 256 entries always.  *)
TableBits ==
    CHOOSE b \in MinBits .. MinBits + size :
        /\ NP => b = MinBits
        /\ ~NP => 2 ^ b >= size /\ \A e \in MinBits .. b - 1 : 2 ^ e < size
hsize == 2 ^ TableBits
last == hsize - 1

(* sub hash: one look into the table per byte of the key. *)
HashOf(T, key) ==
    LET n == Cardinality(DOMAIN T)
        d[j \in 0 .. Len(key)] == IF j = 0 THEN 0 ELSE T[ByteXor(d[j - 1], key[j]) % n]
    IN  d[Len(key)] % size

(* The positions of the keys that hash to slot h. *)
InSlot(T, h) == {j \in 1 .. size : HashOf(T, keys[j]) = h}
Slots == 0 .. size - 1

(* cost: the keys that come to an occupied slot, and the keys in the fullest. *)
Colliding(T) == size - Cardinality({HashOf(T, keys[j]) : j \in 1 .. size})
Fullest(T) == Max({Cardinality(InSlot(T, h)) : h \in Slots})

Init ==
    /\ dict \in Dict
    /\ H = [e \in 0 .. last |-> e]
    /\ i = 0
    /\ sum = 0 /\ max = 0 /\ maxsum = Undef /\ maxdepth = Undef
    /\ counter = 0
    /\ C = Undef
    /\ pc = "shuffle"

(* shuffle: $j = $i + int rand($last-$i), which is below $last, except that *)
(* rand(0) is rand(1).                                                      *)
Targets(p) == IF p < last THEN p .. last - 1 ELSE {p}

ShuffleEntry ==
    /\ pc = "shuffle" /\ i <= last
    /\ \E j \in Targets(i) : H' = [H EXCEPT ![i] = H[j], ![j] = H[i]]
    /\ i' = i + 1
    /\ UNCHANGED <<dict, sum, max, maxsum, maxdepth, counter, C, pc>>

(* The table just judged is recorded as the best. *)
Better(s, m) ==
    \/ maxsum = Undef
    \/ maxsum # Undef /\ s < maxsum
    \/ m = 1
    \/ ~NP /\ s = maxsum /\ m < maxdepth

MaxCount == IF NP THEN NPTries ELSE size - 1

(* a mutant: the number of tries is not looked at *)
Judge_NoCount ==
    /\ pc = "shuffle" /\ i > last
    /\ sum' = Colliding(H) /\ max' = Fullest(H)
    /\ counter' = IF counter < MaxCount THEN counter + 1 ELSE counter
    /\ IF Better(sum', max') THEN maxsum' = sum' /\ maxdepth' = max'
                              ELSE UNCHANGED <<maxsum, maxdepth>>
    /\ \E late \in BOOLEAN :
            pc' = CASE max' > 1 /\ ~late -> "shuffle"
                    [] max' > 1 /\ late -> "collide"
                    [] OTHER -> "done"
    /\ i' = 0
    /\ UNCHANGED <<dict, H, C>>

(* a mutant: a table with one collision counts as perfect *)
Judge_TwoIsFine ==
    /\ pc = "shuffle" /\ i > last
    /\ sum' = Colliding(H) /\ max' = Fullest(H)
    /\ counter' = counter + 1
    /\ IF Better(sum', max') THEN maxsum' = sum' /\ maxdepth' = max'
                              ELSE UNCHANGED <<maxsum, maxdepth>>
    /\ \E late \in BOOLEAN :
            pc' = CASE max' > 2 /\ counter' < MaxCount /\ ~late -> "shuffle"
                    [] max' > 2 /\ (counter' >= MaxCount \/ late) -> "collide"
                    [] OTHER -> "done"
    /\ i' = 0
    /\ UNCHANGED <<dict, H, C>>

(* The rest of the do loop: the cost, the record of the best, and whether   *)
(* another table is tried; the clock may have run out at any time.          *)
Judge ==
    /\ pc = "shuffle" /\ i > last
    /\ sum' = Colliding(H) /\ max' = Fullest(H)
    /\ counter' = counter + 1
    /\ IF Better(sum', max') THEN maxsum' = sum' /\ maxdepth' = max'
                              ELSE UNCHANGED <<maxsum, maxdepth>>
    /\ \E late \in BOOLEAN :
            pc' = CASE max' > 1 /\ counter' < MaxCount /\ ~late -> "shuffle"
                    [] max' > 1 /\ (counter' >= MaxCount \/ late) -> "collide"
                    [] OTHER -> "done"
    /\ i' = 0
    /\ UNCHANGED <<dict, H, C>>

(* The value of the key at position j: its index when no values were given. *)
ValueAt(j) == IF dict.values = << >> THEN j - 1
              ELSE PaddedValues(dict.keys, dict.values)[j]

Entry(j) == [key |-> keys[j], value |-> ValueAt(j)]

(* a mutant: $i is counted up for the colliding keys only *)
Collisions_FirstValue ==
    LET pushed[j \in 0 .. size] ==
            IF j = 0 THEN [h \in Slots |-> << >>]
            ELSE LET h == HashOf(H, keys[j])
                     e == IF pushed[j - 1][h] = << >> THEN [Entry(j) EXCEPT !.value = ValueAt(1)]
                          ELSE Entry(j)
                 IN  [pushed[j - 1] EXCEPT ![h] = Append(@, e)]
    IN  pushed[size]

(* collisions: each key is pushed to the list of its slot.  The code has    *)
(* undef for an empty one, and keeps of a single key only the value.        *)
Collisions ==
    LET pushed[j \in 0 .. size] ==
            IF j = 0 THEN [h \in Slots |-> << >>]
            ELSE [pushed[j - 1] EXCEPT ![HashOf(H, keys[j])] = Append(@, Entry(j))]
    IN  pushed[size]

Collide ==
    /\ pc = "collide"
    /\ C' = Collisions
    /\ pc' = "done"
    /\ UNCHANGED <<dict, H, i, sum, max, maxsum, maxdepth, counter>>

Next == ShuffleEntry \/ Judge \/ Collide

(* new is one sequential call: it keeps running. *)
Spec == Init /\ [][Next]_vars /\ WF_vars(Next)

-----------------------------------------------------------------------------
(* $ph->[4]->[$v] eq $key: a negative index counts from the end, and an     *)
(* index outside of the list is undef, which is eq "".                      *)
KeyIs(v, key) ==
    LET p == IF v < 0 THEN v + size + 1 ELSE v + 1
    IN  IF p \in 1 .. size THEN keys[p] = key ELSE key = Empty

(* The value found for a key before it is verified. *)
Candidate(key) ==
    LET h == HashOf(H, key)
        list == IF C = Undef THEN << >> ELSE C[h]
        mine == {p \in 1 .. Len(list) : list[p].key = key}
    IN  IF Len(list) = 1 THEN list[1].value
        ELSE IF mine # {} THEN list[Min(mine)].value
        ELSE IF NP THEN h ELSE Undef

(* sub perfecthash *)
PerfectHash(key) ==
    LET v == Candidate(key)
    IN  IF v = Undef \/ dict.fp THEN v
        ELSE IF KeyIs(v, key) THEN v ELSE Undef

-----------------------------------------------------------------------------
(* The values that a dictionary gives a key: its positions, or the values   *)
(* of the hashref.                                                          *)
ValuesOf(key) == {ValueAt(j) : j \in {p \in 1 .. Len(dict.keys) : keys[p] = key}}

(* A hashref whose values are the indices of its keys, or no hashref. *)
IndexValues == \A j \in 1 .. size : dict.values # << >> /\ j <= Len(dict.keys)
                                      => ValueAt(j) = j - 1

(* Whatever table the search stopped with, its collision lists make the     *)
(* lookup right: a key of the dictionary gets its value, and without        *)
(* -false-positives any other key gets undef (Pearson.pm:215-218).          *)
Lookup ==
    pc = "done" /\ C # Undef /\ (dict.fp \/ IndexValues) =>
        /\ \A j \in 1 .. Len(dict.keys) : PerfectHash(keys[j]) \in ValuesOf(keys[j])
        /\ ~dict.fp => \A key \in Absent :
                (\A j \in 1 .. size : keys[j] # key) => PerfectHash(key) = Undef

(* The lists of collisions are left out only for a perfect table: then no   *)
(* two keys hash to the same slot (Pearson.pm:89-97).                       *)
NoListsOnlyIfPerfect ==
    pc = "done" =>
        (C = Undef <=> \A j, k \in 1 .. size :
                            j # k => HashOf(H, keys[j]) # HashOf(H, keys[k]))

(* new returns, whatever the tables do and even if the clock stands still.  *)
Termination == <>(pc = "done")

=============================================================================
