---------------------------- MODULE Pearson_proofs ---------------------------
(***************************************************************************)
(* The search for a Pearson table, the lookup in it and the C code of the  *)
(* lookup, for all dictionaries, tables and numbers of tries, and whatever *)
(* the function of the bytes is.                                           *)
(***************************************************************************)
EXTENDS PearsonC, Induction

Pair == [key : Seq(Nat), value : Int]

\* What the theorems assume of the operators of Perl: ^ makes numbers of numbers, and undef
\* is neither a number nor a list of lists.
Trusted ==
    /\ \A a, b \in Nat : ByteXor(a, b) \in Nat
    /\ Undef \notin Int
    /\ \A n \in Nat : Undef \notin [0 .. n -> Seq(Pair)]

-----------------------------------------------------------------------------
LEMMA KeysType ==
    ASSUME dict \in Dict
    PROVE  /\ keys \in Seq(Seq(Nat)) /\ size \in Nat \ {0} /\ Len(keys) = size
           /\ Len(dict.keys) \in 1 .. size
           /\ \A j \in 1 .. Len(dict.keys) : keys[j] = dict.keys[j]
           /\ \A j \in 1 .. size : j > Len(dict.keys) => keys[j] = << >> /\ j = size /\ Padded(dict.keys)
<1>1. dict.keys \in Seq(Seq(Nat)) /\ Len(dict.keys) > 0 /\ Empty = << >>
  BY PearsonAssumption
<1>2. CASE Padded(dict.keys)
  <2>1. keys = Append(dict.keys, << >>)
    BY <1>1, <1>2 DEF keys, PaddedKeys
  <2>2. << >> \in Seq(Nat)
    OBVIOUS
  <2> QED
    BY <1>1, <1>2, <2>1, <2>2 DEF size
<1>3. CASE ~ Padded(dict.keys)
  <2>1. keys = dict.keys
    BY <1>3 DEF keys, PaddedKeys
  <2> QED
    BY <1>1, <2>1 DEF size
<1> QED
  BY <1>2, <1>3

LEMMA ValueType ==
    ASSUME dict \in Dict, NEW j \in 1 .. size
    PROVE  /\ ValueAt(j) \in Int
           /\ IndexValues /\ j <= Len(dict.keys) => ValueAt(j) = j - 1
           /\ j > Len(dict.keys) => ValueAt(j) = IF DummyValue THEN -1 ELSE j - 1
<1>1. /\ dict.keys \in Seq(Seq(Nat)) /\ dict.values \in Seq(Int)
      /\ Len(dict.values) \in {0, Len(dict.keys)}
  BY PearsonAssumption
<1>2. j \in Nat /\ j <= size /\ size \in Nat
  BY KeysType
<1>3. CASE dict.values = << >>
  BY <1>2, <1>3 DEF ValueAt, DummyValue
<1>4. CASE dict.values # << >>
  <2>1. Len(dict.values) = Len(dict.keys)
    BY <1>1, <1>4
  <2>2. ValueAt(j) = PaddedValues(dict.keys, dict.values)[j]
    BY <1>4 DEF ValueAt
  <2>3. CASE j <= Len(dict.keys)
    <3>1. ValueAt(j) = dict.values[j] /\ j \in 1 .. Len(dict.values)
      BY <1>1, <1>2, <2>1, <2>2, <2>3 DEF PaddedValues
    <3>2. ValueAt(j) \in Int
      BY <1>1, <3>1
    <3>3. IndexValues => ValueAt(j) = j - 1
      BY <1>4, <2>3 DEF IndexValues
    <3> QED
      BY <1>1, <1>2, <2>3, <3>2, <3>3
  <2>4. CASE j > Len(dict.keys)
    <3>1. Padded(dict.keys) /\ j = size /\ size = Len(dict.keys) + 1
      <4>1. Padded(dict.keys) /\ j = size
        BY <2>4, KeysType
      <4>2. keys = Append(dict.keys, Empty)
        BY <4>1 DEF keys, PaddedKeys
      <4> QED
        BY <1>1, <4>1, <4>2 DEF size
    <3>2. ValueAt(j) = -1
      BY <1>1, <1>4, <2>1, <2>2, <3>1 DEF PaddedValues
    <3> QED
      BY <1>1, <1>4, <2>4, <3>1, <3>2 DEF DummyValue
  <2> QED
    BY <1>1, <1>2, <2>3, <2>4
<1> QED
  BY <1>3, <1>4
\* There is a power of two that the table can have.
LEMMA TableType ==
    ASSUME dict \in Dict
    PROVE  hsize \in Nat \ {0} /\ last \in Nat /\ last + 1 = hsize
<1> DEFINE OK(b) == /\ NP => b = MinBits
                    /\ ~NP => 2 ^ b >= size /\ \A e \in MinBits .. b - 1 : 2 ^ e < size
           Bits == MinBits .. MinBits + size
<1>0. MinBits \in Nat /\ size \in Nat
  BY KeysType, PearsonAssumption
<1>1. \E b \in Bits : OK(b)
  <2>1. CASE NP
    <3>1. MinBits \in Bits
      BY <1>0
    <3> QED
      BY <2>1, <3>1
  <2>2. CASE ~NP
    <3> DEFINE U == {b \in Bits : 2 ^ b >= size}
    <3>1. MinBits + size \in U
      <4> DEFINE t == MinBits + size
      <4>1. t \in Nat /\ t >= size /\ t \in Bits
        BY <1>0
      <4>2. 2 ^ t \in Nat /\ 2 ^ t > t
        BY <4>1, PowerOfTwo, PowerAbove
      <4> HIDE DEF t
      <4>3. 2 ^ t >= size
        BY <1>0, <4>1, <4>2
      <4>4. t \in U
        BY <4>1, <4>3
      <4> QED
        BY <4>4 DEF t
    <3>2. U \subseteq Nat /\ U # {}
      BY <1>0, <3>1
    <3> HIDE DEF U
    <3>3. PICK b \in U : \A c \in U : b <= c
      BY <3>2, Smallest
    <3>4. b \in Bits /\ 2 ^ b >= size /\ b \in Nat
      BY <3>2, <3>3 DEF U
    <3>5. ASSUME NEW e \in MinBits .. b - 1 PROVE 2 ^ e < size
      <4>1. e \in Nat /\ e < b /\ e \in Bits
        BY <1>0, <3>4
      <4>2. e \notin U
        BY <3>3, <3>4, <4>1
      <4>3. 2 ^ e \in Nat /\ ~ (2 ^ e >= size)
        BY <4>1, <4>2, PowerOfTwo DEF U
      <4> QED
        BY <1>0, <4>3
    <3> QED
      BY <2>2, <3>4, <3>5
  <2> QED
    BY <2>1, <2>2
<1> DEFINE t == TableBits
<1>2. t \in Bits
  <2>1. t = CHOOSE b \in Bits : OK(b)
    BY DEF TableBits
  <2> HIDE DEF OK, Bits, t
  <2> QED
    BY <1>1, <2>1
<1>3. t \in Nat
  BY <1>0, <1>2
<1> HIDE DEF t
<1>4. 2 ^ t \in Nat \ {0}
  BY <1>3, PowerOfTwo
<1> QED
  BY <1>4 DEF t, hsize, last

Tables == [0 .. last -> 0 .. last]

\* A hash is one of the slots.
LEMMA HashOfType ==
    ASSUME Trusted, dict \in Dict, NEW T \in Tables, NEW key \in Seq(Nat)
    PROVE  HashOf(T, key) \in Slots
<1> DEFINE n == Cardinality(DOMAIN T)
           m == Len(key)
           F(f) == [j \in 0 .. m |->
               IF j = 0 THEN 0 ELSE T[ByteXor(f[j - 1], key[j]) % n]]
           V == 0 .. last
           step == [x \in V \X (1 .. m) |-> T[ByteXor(x[1], key[x[2]]) % n]]
           d == CHOOSE f : f = F(f)
<1>0. m \in Nat /\ last \in Nat /\ 0 \in V /\ V \subseteq Nat
  BY TableType
<1>1. n = last + 1
  <2> DEFINE z == 0
  <2>1. z \in Int /\ last \in Int /\ z <= last
    BY <1>0
  <2>2. DOMAIN T = z .. last
    BY DEF Tables
  <2> HIDE DEF z
  <2>3. Cardinality(z .. last) = last - z + 1
    BY <2>1, FS_Interval
  <2>4. n = last - z + 1
    BY <2>2, <2>3
  <2> QED
    BY <2>1, <2>4 DEF z
<1> HIDE DEF n
<1>2. \A v \in V, j \in 1 .. m : T[ByteXor(v, key[j]) % n] \in V
  <2> SUFFICES ASSUME NEW v \in V, NEW j \in 1 .. m PROVE T[ByteXor(v, key[j]) % n] \in V
    OBVIOUS
  <2> DEFINE x == ByteXor(v, key[j])
  <2>1. v \in Nat /\ key[j] \in Nat
    BY <1>0
  <2>2. x \in Nat
    BY <2>1 DEF Trusted
  <2> HIDE DEF x
  <2>3. x % n \in 0 .. n - 1 /\ n - 1 = last
    <3>1. n \in Nat \ {0} /\ n - 1 = last
      BY <1>0, <1>1
    <3> QED
      BY <2>2, <3>1, ModType
  <2> QED
    BY <2>3 DEF Tables, x
<1>3. step \in [V \X (1 .. m) -> V]
  BY <1>2
<1> HIDE DEF step
<1>4. PICK f : /\ f \in [0 .. m -> V] /\ f[0] = 0
               /\ \A j \in 1 .. m : f[j] = step[<<f[j - 1], j>>]
  <2> HIDE DEF m, V
  <2> DEFINE z == 0
  <2>0. z \in V
    BY <1>0
  <2> HIDE DEF z
  <2>1. \E f : IsLoop(f, m, V, z, step)
    BY <1>0, <1>3, <2>0, Rounds
  <2> QED
    BY <2>1 DEF IsLoop, z
<1>5. ASSUME NEW j \in 1 .. m
      PROVE  step[<<f[j - 1], j>>] = T[ByteXor(f[j - 1], key[j]) % n]
  <2>1. <<f[j - 1], j>> \in V \X (1 .. m)
    <3> HIDE DEF V
    <3>1. j - 1 \in 0 .. m
      BY <1>0
    <3> QED
      BY <1>4, <3>1
  <2> QED
    BY <2>1 DEF step
<1>6. f = F(f)
  <2>1. \A j \in 0 .. m : j = 0 \/ j \in 1 .. m
    BY <1>0
  <2> HIDE DEF V
  <2> QED
    BY <1>0, <1>4, <1>5, <2>1
<1>7. d = F(d)
  BY <1>6
<1>8. HashOf(T, key) = d[m] % size
  BY Zenon DEF HashOf, n
<1> HIDE DEF d
<1> DEFINE S == [j \in 0 .. m |-> V]
<1>9. d[0] \in S[0]
  BY <1>0, <1>7
<1>10. ASSUME NEW j \in 1 .. m, d[j - 1] \in S[j - 1] PROVE d[j] \in S[j]
  <2>1. d[j] = T[ByteXor(d[j - 1], key[j]) % n]
    BY <1>0, <1>7
  <2>2. j \in 0 .. m /\ j - 1 \in 0 .. m
    BY <1>0
  <2> HIDE DEF V
  <2>3. d[j - 1] \in V
    BY <1>10, <2>2
  <2>4. d[j] \in V
    BY <1>2, <2>1, <2>3
  <2> QED
    BY <2>2, <2>4
<1> HIDE DEF S, m
<1>11. \A j \in 0 .. m : d[j] \in S[j]
  BY <1>0, <1>9, <1>10, RoundsKeep
<1>12. d[m] \in V
  BY <1>0, <1>11 DEF S
<1>13. d[m] \in Nat /\ size \in Nat \ {0}
  BY <1>0, <1>12, KeysType
<1> QED
  BY <1>8, <1>13, ModType DEF Slots

-----------------------------------------------------------------------------
\* The fullest slot has more than one key just when two keys have the same hash.
Same(T, j, k) == HashOf(T, keys[j]) = HashOf(T, keys[k])

LEMMA FullestSlot ==
    ASSUME Trusted, dict \in Dict, NEW T \in Tables
    PROVE  Fullest(T) > 1 <=> \E j, k \in 1 .. size : j # k /\ Same(T, j, k)
<1> DEFINE N(h) == Cardinality(InSlot(T, h))
           U == {N(h) : h \in Slots}
           mx == Fullest(T)
<1>0. size \in Nat \ {0} /\ keys \in Seq(Seq(Nat)) /\ Len(keys) = size
  BY KeysType
<1>1. \A h : IsFiniteSet(InSlot(T, h)) /\ N(h) \in 0 .. size
  <2> SUFFICES ASSUME NEW h PROVE IsFiniteSet(InSlot(T, h)) /\ N(h) \in 0 .. size
    OBVIOUS
  <2> DEFINE z == 1
  <2>1. IsFiniteSet(z .. size) /\ Cardinality(z .. size) = size
    <3>1. z \in Int /\ size \in Int /\ z <= size
      BY <1>0
    <3> HIDE DEF z
    <3>2. IsFiniteSet(z .. size) /\ Cardinality(z .. size) = size - z + 1
      BY <3>1, FS_Interval
    <3> QED
      BY <1>0, <3>2 DEF z
  <2>2. InSlot(T, h) \in SUBSET (z .. size)
    BY DEF InSlot
  <2> HIDE DEF z
  <2>3. IsFiniteSet(InSlot(T, h)) /\ N(h) <= size /\ N(h) \in Nat
    BY <2>1, <2>2, FS_Subset, FS_CardinalityType
  <2> QED
    BY <1>0, <2>3
<1>2. U \subseteq 0 .. size /\ U # {}
  <2>1. 0 \in Slots
    BY <1>0 DEF Slots
  <2> QED
    BY <1>1, <2>1
<1>3. mx \in U /\ \A y \in U : mx >= y
  <2>1. \E u \in U : \A y \in U : y <= u
    <3> HIDE DEF U
    <3> QED
      BY <1>0, <1>2, LargestNumber
  <2>2. \E u \in U : \A y \in U : u >= y
    <3>1. \A y \in U : y \in Int
      BY <1>0, <1>2
    <3> HIDE DEF U
    <3> QED
      BY <2>1, <3>1
  <2>3. mx = Max(U)
    BY DEF Fullest
  <2> HIDE DEF U, mx
  <2> QED
    BY <2>2, <2>3 DEF Max
<1>4. ASSUME NEW j \in 1 .. size, NEW k \in 1 .. size, j # k, Same(T, j, k) PROVE mx > 1
  <2> DEFINE h == HashOf(T, keys[j])
  <2>1. h \in Slots
    BY <1>0, HashOfType
  <2>2. {j, k} \in SUBSET InSlot(T, h)
    BY <1>4 DEF InSlot, Same
  <2> HIDE DEF h
  <2>3. Cardinality({j, k}) = 2
    <3>1. Cardinality({j} \cup {k}) = Cardinality({j}) + 1 /\ Cardinality({j}) = 1 /\ IsFiniteSet({j})
      BY <1>4, FS_Singleton, FS_AddElement
    <3>2. {j} \cup {k} = {j, k}
      OBVIOUS
    <3> QED
      BY <3>1, <3>2
  <2>4. N(h) >= 2
    <3>1. Cardinality({j, k}) <= N(h)
      BY <1>1, <2>2, FS_Subset
    <3> QED
      BY <1>1, <2>3, <3>1
  <2>5. mx \in Int /\ mx >= N(h)
    BY <1>0, <1>2, <1>3, <2>1
  <2> QED
    BY <1>1, <2>4, <2>5
<1>5. ASSUME mx > 1 PROVE \E j, k \in 1 .. size : j # k /\ Same(T, j, k)
  <2>1. PICK h \in Slots : mx = N(h)
    BY <1>3
  <2> DEFINE I == InSlot(T, h)
  <2>2. IsFiniteSet(I) /\ Cardinality(I) > 1 /\ Cardinality(I) \in Nat
    BY <1>1, <1>5, <2>1
  <2> HIDE DEF I
  <2>3. I # {}
    BY <2>2, FS_EmptySet
  <2>4. PICK j \in I : TRUE
    BY <2>3
  <2>5. I # {j}
    BY <2>2, FS_Singleton
  <2>6. PICK k \in I : k # j
    BY <2>4, <2>5
  <2> QED
    BY <2>4, <2>6 DEF I, InSlot, Same
<1> QED
  BY <1>4, <1>5
-----------------------------------------------------------------------------
(***************************************************************************)
(* The lists of collisions.                                                *)
(***************************************************************************)
Lists == [Slots -> Seq(Pair)]
Hashed(j) == HashOf(H, keys[j])

\* The first m keys are in the lists of their slots, each after those before it.
FiledAt(list, h, m) ==
    /\ Len(list) <= m
    /\ \A p \in 1 .. Len(list) : \E j \in 1 .. m :
          /\ Hashed(j) = h /\ list[p] = Entry(j)
          /\ \A e \in 1 .. j - 1 : Hashed(e) = h => \E q \in 1 .. p - 1 : list[q] = Entry(e)
    /\ \A j \in 1 .. m : Hashed(j) = h => \E p \in 1 .. Len(list) : list[p] = Entry(j)

Filed(f, m) == f \in Lists /\ \A h \in Slots : FiledAt(f[h], h, m)

Pushed(f, j) == [f EXCEPT ![Hashed(j)] = Append(f[Hashed(j)], Entry(j))]

LEMMA EntryType ==
    ASSUME Trusted, dict \in Dict, H \in Tables, NEW j \in 1 .. size
    PROVE  Entry(j) \in Pair /\ Hashed(j) \in Slots
<1>1. keys \in Seq(Seq(Nat)) /\ Len(keys) = size
  BY KeysType
<1>2. keys[j] \in Seq(Nat)
  BY <1>1
<1>3. ValueAt(j) \in Int
  BY ValueType
<1> QED
  BY <1>2, <1>3, HashOfType DEF Entry, Pair, Hashed

LEMMA AppendType ==
    ASSUME NEW S, NEW s \in Seq(S), NEW e \in S
    PROVE  /\ Append(s, e) \in Seq(S) /\ Len(Append(s, e)) = Len(s) + 1 /\ Len(s) \in Nat
           /\ \A p \in 1 .. Len(s) : Append(s, e)[p] = s[p]
           /\ Append(s, e)[Len(s) + 1] = e
  OBVIOUS

LEMMA PushKeepsFiled ==
    ASSUME Trusted, dict \in Dict, H \in Tables, NEW j \in 1 .. size,
           NEW f, Filed(f, j - 1)
    PROVE  Filed(Pushed(f, j), j)
<1> DEFINE g == Pushed(f, j)
           h0 == Hashed(j)
<1>0. /\ Entry(j) \in Pair /\ h0 \in Slots /\ f \in Lists /\ f[h0] \in Seq(Pair)
      /\ j \in Nat /\ j - 1 \in Nat
  <2>1. Entry(j) \in Pair /\ h0 \in Slots
    BY EntryType
  <2>2. size \in Nat
    BY KeysType
  <2> QED
    BY <2>1, <2>2 DEF Filed, Lists
<1> DEFINE s == f[h0]
           t == Append(s, Entry(j))
<1>1. /\ t \in Seq(Pair) /\ Len(t) = Len(s) + 1 /\ Len(s) \in Nat
      /\ \A p \in 1 .. Len(s) : t[p] = s[p]
      /\ t[Len(s) + 1] = Entry(j)
  BY <1>0, AppendType
<1>2. g \in Lists /\ g[h0] = t /\ \A h \in Slots : h # h0 => g[h] = f[h]
  <2>1. g = [f EXCEPT ![h0] = t]
    BY DEF Pushed
  <2> HIDE DEF t, h0, g
  <2> QED
    BY <1>0, <1>1, <2>1 DEF Lists
<1>3. FiledAt(s, h0, j - 1)
  BY <1>0 DEF Filed
<1> HIDE DEF t, s
<1>4. FiledAt(t, h0, j)
  <2>1. ASSUME NEW p \in 1 .. Len(t)
        PROVE  \E d \in 1 .. j : /\ Hashed(d) = h0 /\ t[p] = Entry(d)
                                 /\ \A e \in 1 .. d - 1 : Hashed(e) = h0 =>
                                        \E q \in 1 .. p - 1 : t[q] = Entry(e)
    <3>1. CASE p \in 1 .. Len(s)
      <4>1. PICK d \in 1 .. j - 1 : /\ Hashed(d) = h0 /\ s[p] = Entry(d)
                                    /\ \A e \in 1 .. d - 1 : Hashed(e) = h0 =>
                                           \E q \in 1 .. p - 1 : s[q] = Entry(e)
        BY <1>3, <3>1 DEF FiledAt
      <4>2. \A q \in 1 .. p - 1 : t[q] = s[q]
        BY <1>1, <3>1
      <4>3. d \in 1 .. j /\ t[p] = Entry(d)
        BY <1>0, <1>1, <3>1, <4>1
      <4> QED
        BY <4>1, <4>2, <4>3
    <3>2. CASE p = Len(s) + 1
      <4>1. \A e \in 1 .. j - 1 : Hashed(e) = h0 => \E q \in 1 .. Len(s) : s[q] = Entry(e)
        BY <1>3 DEF FiledAt
      <4>2. p - 1 = Len(s) /\ j \in 1 .. j /\ t[p] = Entry(j)
        BY <1>0, <1>1, <3>2
      <4> QED
        BY <1>1, <4>1, <4>2
    <3> QED
      BY <1>1, <3>1, <3>2
  <2>2. ASSUME NEW d \in 1 .. j, Hashed(d) = h0
        PROVE  \E p \in 1 .. Len(t) : t[p] = Entry(d)
    <3>1. CASE d = j
      BY <1>1, <3>1
    <3>2. CASE d \in 1 .. j - 1
      <4>1. PICK p \in 1 .. Len(s) : s[p] = Entry(d)
        BY <1>3, <2>2, <3>2 DEF FiledAt
      <4>2. p \in 1 .. Len(t) /\ t[p] = s[p]
        BY <1>1
      <4> QED
        BY <4>1, <4>2
    <3> QED
      BY <1>0, <3>1, <3>2
  <2>3. Len(t) <= j
    <3>1. Len(s) <= j - 1
      BY <1>3 DEF FiledAt
    <3> QED
      BY <1>0, <1>1, <3>1
  <2> QED
    BY <2>1, <2>2, <2>3 DEF FiledAt
<1>5. ASSUME NEW h \in Slots, h # h0 PROVE FiledAt(f[h], h, j)
  <2>1. FiledAt(f[h], h, j - 1)
    BY DEF Filed
  <2>2. \A d \in 1 .. j : Hashed(d) = h => d \in 1 .. j - 1
    BY <1>0, <1>5
  <2>3. \A d \in 1 .. j - 1 : d \in 1 .. j
    BY <1>0
  <2>4. Len(f[h]) <= j
    <3>1. f[h] \in Seq(Pair)
      BY <1>0 DEF Lists
    <3>2. Len(f[h]) \in Nat /\ Len(f[h]) <= j - 1
      BY <2>1, <3>1 DEF FiledAt
    <3> QED
      BY <1>0, <3>2
  <2> QED
    BY <2>1, <2>2, <2>3, <2>4 DEF FiledAt
<1> HIDE DEF g
<1> QED
  BY <1>2, <1>4, <1>5 DEF Filed, g

LEMMA CollisionsFiled ==
    ASSUME Trusted, dict \in Dict, H \in Tables
    PROVE  Filed(Collisions, size)
<1> DEFINE F(f) == [j \in 0 .. size |->
               IF j = 0 THEN [h \in Slots |-> << >>] ELSE Pushed(f[j - 1], j)]
           b == [h \in Slots |-> << >>]
           step == [x \in Lists \X (1 .. size) |-> Pushed(x[1], x[2])]
           c == CHOOSE f : f = F(f)
<1>0. size \in Nat /\ b \in Lists
  BY KeysType DEF Lists
<1>1. \A f \in Lists, j \in 1 .. size : Pushed(f, j) \in Lists
  <2> SUFFICES ASSUME NEW f \in Lists, NEW j \in 1 .. size PROVE Pushed(f, j) \in Lists
    OBVIOUS
  <2>1. Entry(j) \in Pair /\ Hashed(j) \in Slots
    BY EntryType
  <2>2. f[Hashed(j)] \in Seq(Pair)
    BY <2>1 DEF Lists
  <2>3. Append(f[Hashed(j)], Entry(j)) \in Seq(Pair)
    BY <2>1, <2>2
  <2> QED
    BY <2>3 DEF Lists, Pushed
<1>2. step \in [Lists \X (1 .. size) -> Lists]
  BY <1>1
<1> HIDE DEF step
<1>3. PICK f : /\ f \in [0 .. size -> Lists] /\ f[0] = b
               /\ \A j \in 1 .. size : f[j] = step[<<f[j - 1], j>>]
  <2> HIDE DEF b
  <2>1. \E f : IsLoop(f, size, Lists, b, step)
    BY <1>0, <1>2, Rounds
  <2> QED
    BY <2>1 DEF IsLoop
<1>4. ASSUME NEW j \in 1 .. size PROVE step[<<f[j - 1], j>>] = Pushed(f[j - 1], j)
  <2>1. j - 1 \in 0 .. size
    BY <1>0
  <2>2. <<f[j - 1], j>> \in Lists \X (1 .. size)
    BY <1>3, <2>1
  <2> QED
    BY <2>2 DEF step
<1>5. f = F(f)
  <2>1. \A j \in 0 .. size : j = 0 \/ j \in 1 .. size
    BY <1>0
  <2> QED
    BY <1>0, <1>3, <1>4, <2>1
<1>6. c = F(c)
  BY <1>5
<1>7. Collisions = c[size]
  BY Zenon DEF Collisions, Pushed, Hashed
<1> HIDE DEF c
<1> DEFINE S == [j \in 0 .. size |-> {g \in Lists : Filed(g, j)}]
<1>8. c[0] \in S[0]
  <2>1. c[0] = b /\ 0 \in 0 .. size
    BY <1>0, <1>6
  <2>2. \A h \in Slots : b[h] = << >> /\ FiledAt(<< >>, h, 0)
    BY DEF FiledAt
  <2> QED
    BY <1>0, <2>1, <2>2 DEF Filed
<1>9. ASSUME NEW j \in 1 .. size, c[j - 1] \in S[j - 1] PROVE c[j] \in S[j]
  <2>1. j \in 0 .. size /\ j - 1 \in 0 .. size /\ j # 0
    BY <1>0
  <2>2. c[j] = Pushed(c[j - 1], j)
    BY <1>6, <2>1
  <2>3. Filed(c[j - 1], j - 1)
    BY <1>9, <2>1
  <2>4. Filed(c[j], j)
    BY <2>2, <2>3, PushKeepsFiled
  <2> QED
    BY <2>1, <2>4 DEF Filed
<1> HIDE DEF S
<1>10. \A j \in 0 .. size : c[j] \in S[j]
  BY <1>0, <1>8, <1>9, RoundsKeep
<1>11. c[size] \in S[size]
  BY <1>0, <1>10
<1> QED
  BY <1>0, <1>7, <1>11 DEF S
-----------------------------------------------------------------------------
(***************************************************************************)
(* The search: there are lists if and only if the last table has two keys  *)
(* in a slot, and they are those of this table.                            *)
(***************************************************************************)
Searched ==
    /\ dict \in Dict /\ H \in Tables
    /\ i \in 0 .. last + 1 /\ counter \in Nat
    /\ pc \in {"shuffle", "collide", "done"}
    /\ pc = "shuffle" => C = Undef
    /\ pc = "collide" => C = Undef /\ Fullest(H) > 1
    /\ pc = "done" => C = IF Fullest(H) > 1 THEN Collisions ELSE Undef

LEMMA InitSearched == Init => Searched
<1> SUFFICES ASSUME Init PROVE Searched
  OBVIOUS
<1>1. dict \in Dict
  BY DEF Init
<1>2. last \in Nat
  BY <1>1, TableType
<1>3. H \in Tables
  BY DEF Init, Tables
<1> QED
  BY <1>1, <1>2, <1>3 DEF Init, Searched

\* What the dictionary and the table determine, without variables: it stays with them.
HashIn(T, z, key) ==
    LET n == Cardinality(DOMAIN T)
        d[j \in 0 .. Len(key)] == IF j = 0 THEN 0 ELSE T[ByteXor(d[j - 1], key[j]) % n]
    IN  d[Len(key)] % z

FullestIn(T, ks) ==
    Max({Cardinality({j \in 1 .. Len(ks) : HashIn(T, Len(ks), ks[j]) = h}) : h \in 0 .. Len(ks) - 1})

CollisionsIn(T, c, ks) ==
    LET EntryIn(j) == [key |-> ks[j],
                       value |-> IF c.values = << >> THEN j - 1 ELSE PaddedValues(c.keys, c.values)[j]]
        pushed[j \in 0 .. Len(ks)] ==
            IF j = 0 THEN [h \in 0 .. Len(ks) - 1 |-> << >>]
            ELSE [pushed[j - 1] EXCEPT ![HashIn(T, Len(ks), ks[j])] = Append(@, EntryIn(j))]
    IN  pushed[Len(ks)]

LEMMA Fixed ==
    ASSUME dict' = dict, H' = H
    PROVE  last' = last /\ Tables' = Tables /\ Fullest(H)' = Fullest(H) /\ Collisions' = Collisions
<1>1. keys' = keys
  BY DEF keys
<1>2. size' = size
  BY <1>1 DEF size
<1>3. last' = last /\ Tables' = Tables
  BY <1>2 DEF last, hsize, TableBits, NP, Tables
<1>4. Fullest(H)' = Fullest(H)
  <2>1. Fullest(H) = FullestIn(H, keys)
    BY Zenon DEF Fullest, InSlot, Slots, HashOf, HashIn, size, FullestIn
  <2>2. Fullest(H)' = FullestIn(H', keys')
    BY Zenon DEF Fullest, InSlot, Slots, HashOf, HashIn, size, FullestIn
  <2> QED
    BY <1>1, <2>1, <2>2
<1>5. Collisions' = Collisions
  <2>1. Collisions = CollisionsIn(H, dict, keys)
    BY Zenon DEF Collisions, Slots, HashOf, HashIn, Entry, ValueAt, size, CollisionsIn
  <2>2. Collisions' = CollisionsIn(H', dict', keys')
    BY Zenon DEF Collisions, Slots, HashOf, HashIn, Entry, ValueAt, size, CollisionsIn
  <2> QED
    BY <1>1, <2>1, <2>2
<1> QED
  BY <1>3, <1>4, <1>5

LEMMA ShuffleSearched == Searched /\ ShuffleEntry => Searched'
<1> SUFFICES ASSUME Searched, ShuffleEntry PROVE Searched'
  OBVIOUS
<1>1. last \in Nat /\ dict \in Dict
  BY TableType DEF Searched
<1>2. dict' = dict /\ last' = last /\ Tables' = Tables
  BY DEF ShuffleEntry, last, hsize, TableBits, NP, size, keys, Tables
<1>3. PICK j \in Targets(i) : H' = [H EXCEPT ![i] = H[j], ![j] = H[i]]
  BY DEF ShuffleEntry
<1>4. i \in 0 .. last /\ j \in 0 .. last
  BY <1>1 DEF Searched, ShuffleEntry, Targets
<1>5. H' \in Tables
  <2>1. H \in Tables
    BY DEF Searched
  <2> QED
    BY <1>3, <1>4, <2>1 DEF Tables
<1> QED
  BY <1>1, <1>2, <1>4, <1>5 DEF Searched, ShuffleEntry

LEMMA JudgeSearched == Searched /\ Judge => Searched'
<1> SUFFICES ASSUME Searched, Judge PROVE Searched'
  OBVIOUS
<1>1. last \in Nat /\ dict \in Dict /\ MaxCount \in Int /\ counter' \in Nat
  <2>1. dict \in Dict /\ counter \in Nat
    BY DEF Searched
  <2>2. size \in Nat /\ NPTries \in Nat
    BY <2>1, KeysType, PearsonAssumption
  <2> QED
    BY <2>1, <2>2, TableType DEF Judge, MaxCount
<1>2. dict' = dict /\ H' = H /\ C' = C /\ C = Undef /\ last' = last /\ Tables' = Tables /\ i' = 0
  BY DEF Judge, Searched, last, hsize, TableBits, NP, size, keys, Tables
<1>3. Fullest(H)' = Fullest(H) /\ max' = Fullest(H)
  BY <1>2, Fixed DEF Judge
<1>4. \/ pc' = "shuffle"
      \/ pc' = "collide" /\ max' > 1
      \/ pc' = "done" /\ ~ (max' > 1)
  <2>1. PICK late \in BOOLEAN :
            pc' = CASE max' > 1 /\ counter' < MaxCount /\ ~late -> "shuffle"
                    [] max' > 1 /\ (counter' >= MaxCount \/ late) -> "collide"
                    [] OTHER -> "done"
    BY DEF Judge
  <2>2. counter' < MaxCount \/ counter' >= MaxCount
    BY <1>1
  <2> QED
    BY <2>1, <2>2
<1> QED
  BY <1>1, <1>2, <1>3, <1>4 DEF Searched

LEMMA StepSearched == Searched /\ [Next]_vars => Searched'
<1> SUFFICES ASSUME Searched, [Next]_vars PROVE Searched'
  OBVIOUS
<1>1. CASE Collide
  <2>1. dict' = dict /\ H' = H /\ i' = i /\ counter' = counter /\ pc' = "done" /\ C' = Collisions
        /\ Fullest(H) > 1
    BY <1>1 DEF Collide, Searched
  <2>2. last' = last /\ Tables' = Tables /\ Fullest(H)' = Fullest(H) /\ Collisions' = Collisions
    BY <2>1, Fixed
  <2> QED
    BY <2>1, <2>2 DEF Searched
<1>2. CASE UNCHANGED vars
  <2>1. dict' = dict /\ H' = H /\ i' = i /\ counter' = counter /\ pc' = pc /\ C' = C
    BY <1>2 DEF vars
  <2>2. last' = last /\ Tables' = Tables /\ Fullest(H)' = Fullest(H) /\ Collisions' = Collisions
    BY <2>1, Fixed
  <2> QED
    BY <2>1, <2>2 DEF Searched
<1> QED
  BY <1>1, <1>2, ShuffleSearched, JudgeSearched DEF Next

LEMMA SpecSearched == Spec => []Searched
<1> QED
  BY InitSearched, StepSearched, PTL DEF Spec

LEMMA ListsDefined ==
    ASSUME Trusted, dict \in Dict, H \in Tables
    PROVE  Collisions # Undef
<1>1. Collisions \in Lists
  BY CollisionsFiled DEF Filed
<1>2. size - 1 \in Nat
  BY KeysType
<1> QED
  BY <1>1, <1>2 DEF Lists, Slots, Trusted

(***************************************************************************)
(* There are collision lists just when the table that the search ended     *)
(* with maps two keys to one slot (Pearson.pm:89-97).                      *)
(***************************************************************************)
THEOREM ListsUnlessPerfect ==
    ASSUME Trusted
    PROVE  Spec => []NoListsOnlyIfPerfect
<1>1. Searched => NoListsOnlyIfPerfect
  <2> SUFFICES ASSUME Searched, pc = "done"
               PROVE  C = Undef <=> \A j, k \in 1 .. size : j # k => ~ Same(H, j, k)
    BY DEF NoListsOnlyIfPerfect, Same
  <2>1. /\ dict \in Dict /\ H \in Tables
        /\ C = IF Fullest(H) > 1 THEN Collisions ELSE Undef
    BY DEF Searched
  <2>2. Collisions # Undef
    BY <2>1, ListsDefined
  <2>3. Fullest(H) > 1 <=> \E j, k \in 1 .. size : j # k /\ Same(H, j, k)
    BY <2>1, FullestSlot
  <2> QED
    BY <2>1, <2>2, <2>3
<1> QED
  BY <1>1, SpecSearched, PTL
-----------------------------------------------------------------------------
(***************************************************************************)
(* The lookup.                                                             *)
(***************************************************************************)
ListOf(key) == C[HashOf(H, key)]
Mine(key) == {p \in 1 .. Len(ListOf(key)) : ListOf(key)[p].key = key}

\* The table, with its lists.
Listed == dict \in Dict /\ H \in Tables /\ C = Collisions

LEMMA ListType ==
    ASSUME Trusted, Listed, NEW key \in Seq(Nat)
    PROVE  /\ HashOf(H, key) \in Slots
           /\ ListOf(key) \in Seq(Pair) /\ Len(ListOf(key)) \in Nat
           /\ FiledAt(ListOf(key), HashOf(H, key), size)
           /\ C # Undef
<1>1. HashOf(H, key) \in Slots
  BY HashOfType DEF Listed
<1>2. Filed(C, size) /\ C # Undef
  BY CollisionsFiled, ListsDefined DEF Listed
<1>3. ListOf(key) \in Seq(Pair)
  BY <1>1, <1>2 DEF Filed, Lists, ListOf
<1> QED
  BY <1>1, <1>2, <1>3 DEF Filed, ListOf

LEMMA CandidateIs ==
    ASSUME Trusted, Listed, NEW key \in Seq(Nat)
    PROVE  Candidate(key) = IF Len(ListOf(key)) = 1 THEN ListOf(key)[1].value
                            ELSE IF Mine(key) # {} THEN ListOf(key)[Min(Mine(key))].value
                            ELSE IF NP THEN HashOf(H, key) ELSE Undef
<1>1. C # Undef
  BY ListType
<1> QED
  BY <1>1, Zenon DEF Candidate, ListOf, Mine

LEMMA FirstMine ==
    ASSUME Trusted, Listed, NEW key \in Seq(Nat), Mine(key) # {}
    PROVE  Min(Mine(key)) \in Mine(key) /\ \A p \in Mine(key) : Min(Mine(key)) <= p
<1> DEFINE U == Mine(key)
<1>1. U \subseteq Nat
  BY DEF Mine
<1> HIDE DEF U
<1>2. \E p \in U : \A q \in U : p <= q
  BY <1>1, Smallest DEF U
<1>3. Min(U) \in U /\ \A q \in U : Min(U) <= q
  BY <1>2, Zenon DEF Min
<1> QED
  BY <1>3 DEF U

\* A key of the dictionary is in its list, and the first entry with this key is its own or
\* one of the same key: never that of the dummy key.
LEMMA OwnEntry ==
    ASSUME Trusted, Listed, NEW j \in 1 .. Len(dict.keys)
    PROVE  /\ keys[j] \in Seq(Nat) /\ Mine(keys[j]) # {}
           /\ \E d \in 1 .. Len(dict.keys) :
                 keys[d] = keys[j] /\ Candidate(keys[j]) = ValueAt(d)
           /\ Len(ListOf(keys[j])) # 1 =>
                 \E d \in 1 .. Len(dict.keys) :
                    keys[d] = keys[j] /\ ListOf(keys[j])[Min(Mine(keys[j]))].value = ValueAt(d)
<1> DEFINE k == keys[j]
           h == HashOf(H, k)
           list == ListOf(k)
<1>0. /\ size \in Nat /\ Len(dict.keys) \in 1 .. size /\ j \in 1 .. size /\ k \in Seq(Nat)
      /\ dict \in Dict
  <2>1. keys \in Seq(Seq(Nat)) /\ size \in Nat /\ Len(dict.keys) \in 1 .. size /\ Len(keys) = size
    BY KeysType DEF Listed
  <2>2. j \in 1 .. size
    BY <2>1
  <2> QED
    BY <2>1, <2>2 DEF Listed
<1> HIDE DEF k, list
<1>1. FiledAt(list, h, size) /\ Len(list) \in Nat
  BY <1>0, ListType DEF list
<1>2. Hashed(j) = h
  BY DEF Hashed, k
<1>3. PICK p \in 1 .. Len(list) : list[p] = Entry(j)
  BY <1>0, <1>1, <1>2 DEF FiledAt
<1>4. \A d : Entry(d).key = keys[d] /\ Entry(d).value = ValueAt(d)
  BY DEF Entry
<1>5. p \in Mine(k)
  BY <1>3, <1>4 DEF Mine, list, k
<1>6. CASE Len(list) = 1
  <2>1. Candidate(k) = list[1].value
    BY <1>0, <1>6, CandidateIs DEF list
  <2>2. p = 1
    BY <1>3, <1>6
  <2>3. Candidate(k) = ValueAt(j)
    BY <1>3, <1>4, <2>1, <2>2
  <2> QED
    BY <1>0, <1>5, <1>6, <2>3 DEF k, list
<1>7. CASE Len(list) # 1
  <2> DEFINE q == Min(Mine(k))
  <2>1. q \in Mine(k) /\ \A r \in Mine(k) : q <= r
    BY <1>0, <1>5, FirstMine
  <2>2. Candidate(k) = list[q].value
    BY <1>0, <1>5, <1>7, CandidateIs DEF list
  <2>3. q \in 1 .. Len(list) /\ list[q].key = k
    BY <2>1 DEF Mine, list
  <2> HIDE DEF q
  <2>4. PICK d \in 1 .. size : /\ Hashed(d) = h /\ list[q] = Entry(d)
                               /\ \A e \in 1 .. d - 1 : Hashed(e) = h =>
                                      \E r \in 1 .. q - 1 : list[r] = Entry(e)
    BY <1>1, <2>3 DEF FiledAt
  <2>5. keys[d] = k /\ list[q].value = ValueAt(d)
    BY <1>4, <2>3, <2>4
  <2>6. d \in 1 .. Len(dict.keys)
    <3> SUFFICES ASSUME d > Len(dict.keys) PROVE FALSE
      BY <1>0
    <3>1. j \in 1 .. d - 1
      BY <1>0
    <3>2. PICK r \in 1 .. q - 1 : list[r] = Entry(j)
      BY <1>2, <2>4, <3>1
    <3>3. r \in 1 .. Len(list) /\ list[r].key = k
      BY <1>1, <1>4, <2>3, <3>2 DEF k
    <3>4. r \in Mine(k)
      BY <3>3 DEF Mine, list
    <3> QED
      BY <1>1, <2>1, <2>3, <3>2, <3>4
  <2>7. keys[d] = keys[j] /\ Candidate(keys[j]) = ValueAt(d)
    BY <2>2, <2>5 DEF k
  <2>8. ListOf(keys[j])[Min(Mine(keys[j]))].value = ValueAt(d)
    BY <2>5 DEF k, list, q
  <2>9. keys[j] \in Seq(Nat) /\ Mine(keys[j]) # {}
    BY <1>0, <1>5 DEF k
  <2> QED
    BY <2>6, <2>7, <2>8, <2>9
<1> QED
  BY <1>6, <1>7
\* Every entry of a list is that of a key of the dictionary or of the dummy key.
LEMMA AnyEntry ==
    ASSUME Trusted, Listed, NEW key \in Seq(Nat), NEW p \in 1 .. Len(ListOf(key))
    PROVE  \E d \in 1 .. size : /\ ListOf(key)[p].key = keys[d]
                                /\ ListOf(key)[p].value = ValueAt(d)
                                /\ ValueAt(d) \in Int
<1>1. FiledAt(ListOf(key), HashOf(H, key), size)
  BY ListType
<1>2. PICK d \in 1 .. size : ListOf(key)[p] = Entry(d)
  BY <1>1 DEF FiledAt
<1>3. ValueAt(d) \in Int
  BY ValueType DEF Listed
<1> QED
  BY <1>2, <1>3 DEF Entry

LEMMA DoneListed ==
    ASSUME Trusted, Searched, pc = "done", C # Undef
    PROVE  Listed
  BY DEF Searched, Listed

\* A value that is an index is that of a key, or the dummy key's -1.
LEMMA IndexOrDummy ==
    ASSUME dict \in Dict, IndexValues, NEW d \in 1 .. size
    PROVE  /\ ValueAt(d) \in -1 .. size - 1
           /\ ~DummyValue => ValueAt(d) = d - 1
<1>1. size \in Nat /\ Len(dict.keys) \in 1 .. size
  BY KeysType
<1>2. CASE d <= Len(dict.keys)
  <2>1. ValueAt(d) = d - 1
    BY <1>2, ValueType
  <2> QED
    BY <1>1, <2>1
<1>3. CASE d > Len(dict.keys)
  <2>1. ValueAt(d) = IF DummyValue THEN -1 ELSE d - 1
    BY <1>3, ValueType
  <2> QED
    BY <1>1, <2>1
<1> QED
  BY <1>1, <1>2, <1>3

LEMMA OwnLookup ==
    ASSUME Trusted, Listed, dict.fp \/ IndexValues, NEW j \in 1 .. Len(dict.keys)
    PROVE  /\ PerfectHash(keys[j]) = Candidate(keys[j])
           /\ PerfectHash(keys[j]) \in ValuesOf(keys[j])
<1> DEFINE k == keys[j]
           v == Candidate(k)
<1>0. size \in Nat /\ Len(dict.keys) \in 1 .. size /\ dict \in Dict
  BY KeysType DEF Listed
<1>1. PICK d \in 1 .. Len(dict.keys) : keys[d] = k /\ v = ValueAt(d)
  BY OwnEntry
<1>2. d \in 1 .. size /\ v \in Int /\ v # Undef
  <2>1. d \in 1 .. size
    BY <1>0
  <2> QED
    BY <1>0, <1>1, <2>1, ValueType DEF Trusted
<1>3. PerfectHash(k) = v
  <2>1. CASE dict.fp
    BY <2>1 DEF PerfectHash
  <2>2. CASE IndexValues
    <3>1. v = d - 1
      BY <1>0, <1>1, <1>2, <2>2, ValueType
    <3>2. KeyIs(v, k)
      BY <1>0, <1>1, <1>2, <3>1 DEF KeyIs
    <3> QED
      BY <3>2 DEF PerfectHash
  <2> QED
    BY <2>1, <2>2
<1>4. v \in ValuesOf(k)
  BY <1>1 DEF ValuesOf
<1> QED
  BY <1>3, <1>4

LEMMA AbsentLookup ==
    ASSUME Trusted, Listed, ~dict.fp, IndexValues, NEW key \in Absent,
           \A j \in 1 .. size : keys[j] # key
    PROVE  PerfectHash(key) = Undef
<1> DEFINE v == Candidate(key)
<1>0. /\ size \in Nat \ {0} /\ dict \in Dict /\ key \in Seq(Nat)
      /\ HashOf(H, key) \in 0 .. size - 1
  <2>1. key \in Seq(Nat)
    BY PearsonAssumption
  <2> QED
    BY <2>1, KeysType, ListType DEF Listed, Slots
<1>1. Mine(key) = {}
  BY <1>0, AnyEntry DEF Mine
<1>2. v = Undef \/ v \in -1 .. size - 1
  <2>1. CASE Len(ListOf(key)) = 1
    <3>1. v = ListOf(key)[1].value
      BY <1>0, <2>1, CandidateIs
    <3>2. PICK d \in 1 .. size : v = ValueAt(d)
      <4>1. 1 \in 1 .. Len(ListOf(key))
        BY <2>1
      <4> QED
        BY <1>0, <3>1, <4>1, AnyEntry
    <3>3. ValueAt(d) \in -1 .. size - 1
      BY <1>0, IndexOrDummy
    <3> QED
      BY <3>2, <3>3
  <2>2. CASE Len(ListOf(key)) # 1
    <3>1. v = IF NP THEN HashOf(H, key) ELSE Undef
      BY <1>0, <1>1, <2>2, CandidateIs
    <3> QED
      BY <1>0, <3>1
  <2> QED
    BY <2>1, <2>2
<1>3. v \in -1 .. size - 1 => ~ KeyIs(v, key)
  <2> HIDE DEF v
  <2> SUFFICES ASSUME v \in -1 .. size - 1 PROVE ~ KeyIs(v, key)
    OBVIOUS
  <2> DEFINE p == IF v < 0 THEN v + size + 1 ELSE v + 1
  <2>1. p \in 1 .. size
    BY <1>0
  <2> QED
    BY <2>1 DEF KeyIs
<1>4. PerfectHash(key) = IF v = Undef \/ dict.fp THEN v
                         ELSE IF KeyIs(v, key) THEN v ELSE Undef
  BY DEF PerfectHash
<1> HIDE DEF v
<1> QED
  BY <1>2, <1>3, <1>4

(***************************************************************************)
(* Whatever table the search stopped with, perfecthash finds the value of  *)
(* every key through the collision lists, and without -false-positives it  *)
(* finds no other key, for every dictionary, table and limit of tries      *)
(* (Pearson.pm:215-252, PearsonNP.pm).                                     *)
(***************************************************************************)
THEOREM LookupIsRight ==
    ASSUME Trusted
    PROVE  Spec => []Lookup
<1>1. Searched => Lookup
  <2> SUFFICES ASSUME Searched, pc = "done", C # Undef, dict.fp \/ IndexValues
               PROVE  /\ \A j \in 1 .. Len(dict.keys) : PerfectHash(keys[j]) \in ValuesOf(keys[j])
                      /\ ~dict.fp => \A key \in Absent :
                            (\A j \in 1 .. size : keys[j] # key) => PerfectHash(key) = Undef
    BY DEF Lookup
  <2>1. Listed
    BY DoneListed
  <2> QED
    BY <2>1, OwnLookup, AbsentLookup
<1> QED
  BY <1>1, SpecSearched, PTL
-----------------------------------------------------------------------------
(***************************************************************************)
(* The C code of the lookup.                                               *)
(***************************************************************************)
LEMMA EqualStrings ==
    ASSUME NEW s \in Seq(Nat), NEW t \in Seq(Nat), Len(s) = Len(t),
           \A p \in 1 .. Len(s) : s[p] = t[p]
    PROVE  s = t
  OBVIOUS

\* Of strings without zero bytes, memcmp over the final \0 of the shorter one finds only
\* equal ones.
LEMMA ComparedIsEqual ==
    ASSUME NEW s \in Seq(Nat), NEW t \in Seq(Nat), NoZeroByte(s), NoZeroByte(t),
           NEW nul \in BOOLEAN
    PROVE  SameBytes(t, s, CompareLength(s, t, nul)) <=> t = s
<1> DEFINE n == CompareLength(s, t, nul)
<1>0. /\ Len(s) \in Nat /\ Len(t) \in Nat /\ n \in Nat
      /\ n > Len(s) \/ n > Len(t)
      /\ Len(s) <= Len(t) => n > Len(s)
      /\ Len(t) <= Len(s) => n > Len(t)
  BY DEF CompareLength, Shorter
<1>1. t = s => SameBytes(t, s, n)
  BY DEF SameBytes
<1>2. ASSUME SameBytes(t, s, n) PROVE t = s
  <2> HIDE DEF n
  <2>1. CASE Len(s) < Len(t)
    <3> DEFINE p == Len(s) + 1
    <3>1. p \in 1 .. n /\ p \in 1 .. Len(t) /\ ~ (p <= Len(s))
      BY <1>0, <2>1
    <3> HIDE DEF p
    <3>2. Byte(t, p) = Byte(s, p)
      BY <1>2, <3>1 DEF SameBytes
    <3>3. Byte(s, p) = 0 /\ Byte(t, p) = t[p]
      BY <1>0, <3>1 DEF Byte
    <3> QED
      BY <3>1, <3>2, <3>3 DEF NoZeroByte
  <2>2. CASE Len(t) < Len(s)
    <3> DEFINE p == Len(t) + 1
    <3>1. p \in 1 .. n /\ p \in 1 .. Len(s) /\ ~ (p <= Len(t))
      BY <1>0, <2>2
    <3> HIDE DEF p
    <3>2. Byte(t, p) = Byte(s, p)
      BY <1>2, <3>1 DEF SameBytes
    <3>3. Byte(t, p) = 0 /\ Byte(s, p) = s[p]
      BY <1>0, <3>1 DEF Byte
    <3> QED
      BY <3>1, <3>2, <3>3 DEF NoZeroByte
  <2>3. CASE Len(s) = Len(t)
    <3>1. \A p \in 1 .. Len(s) : s[p] = t[p]
      BY <1>0, <1>2, <2>3 DEF SameBytes, Byte
    <3> QED
      BY <2>3, <3>1, EqualStrings
  <2> QED
    BY <1>0, <2>1, <2>2, <2>3
<1> QED
  BY <1>1, <1>2

\* The check of the stored key: the strings that pass are prefixes.
LEMMA CheckedIsPrefix ==
    ASSUME NEW s \in Seq(Nat), NEW t \in Seq(Nat), NoZeroByte(s), NEW nul \in BOOLEAN,
           CheckKey(s, t, nul)
    PROVE  Alike(s, t, nul)
<1> DEFINE n == IF nul THEN Len(s) ELSE Shorter(s, t)
<1>0. /\ Len(s) \in Nat /\ Len(t) \in Nat
      /\ \A p \in 1 .. n : Byte(t, p) = Byte(s, p)
  BY DEF CheckKey, SameBytes
<1>1. CASE Len(s) <= Len(t)
  <2>1. n = Len(s)
    BY <1>0, <1>1 DEF Shorter
  <2>2. \A p \in 1 .. Len(s) : s[p] = t[p]
    BY <1>0, <1>1, <2>1 DEF Byte
  <2> QED
    BY <1>1, <2>2 DEF Alike, Prefix
<1>2. CASE Len(t) < Len(s)
  <2>1. CASE nul
    <3> DEFINE p == Len(t) + 1
    <3>1. p \in 1 .. n /\ p \in 1 .. Len(s) /\ ~ (p <= Len(t))
      BY <1>0, <1>2, <2>1
    <3>2. Byte(t, p) = 0 /\ Byte(s, p) = s[p] /\ s[p] # 0
      BY <1>0, <3>1 DEF Byte, NoZeroByte
    <3> QED
      BY <1>0, <3>1, <3>2
  <2>2. CASE ~nul
    <3>1. n = Len(t)
      BY <1>0, <1>2, <2>2 DEF Shorter
    <3>2. \A p \in 1 .. Len(t) : t[p] = s[p]
      BY <1>0, <1>2, <3>1 DEF Byte
    <3> QED
      BY <1>0, <1>2, <2>2, <3>2 DEF Alike, Prefix
  <2> QED
    BY <2>1, <2>2
<1> QED
  BY <1>0, <1>1, <1>2

\* The type of Cs[] is one of the types, and the length it keeps is not larger than the list.
LEMMA StoredLength ==
    ASSUME Trusted, Listed, NEW s \in Seq(Nat)
    PROVE  /\ CollisionList(HashOf(H, s)) = ListOf(s)
           /\ Cs(HashOf(H, s)) \in 0 .. Len(ListOf(s))
           /\ ctype \in Widths
           /\ Len(ListOf(s)) < 2 ^ ctype => Fits(s)
<1> DEFINE n == Len(ListOf(s))
           w == ctype
           b == 2 ^ w
<1>1. CollisionList(HashOf(H, s)) = ListOf(s) /\ n \in Nat
  BY ListType DEF CollisionList, ListOf
<1>2. w \in Widths
  <2> DEFINE F == {x \in Widths : maxcoll <= 2 ^ x}
  <2>1. F \subseteq Widths /\ F \subseteq Nat
    BY WidthAssumption
  <2>2. w = Narrowest(Widths, F)
    BY DEF ctype, u_csize
  <2> HIDE DEF F
  <2>3. CASE F = {}
    BY <2>2, <2>3, WidthAssumption DEF Narrowest
  <2>4. CASE F # {}
    <3>1. \E u \in F : \A x \in F : u <= x
      BY <2>1, <2>4, Smallest
    <3>2. w \in F
      BY <2>2, <2>4, <3>1 DEF Narrowest
    <3> QED
      BY <2>1, <3>2
  <2> QED
    BY <2>3, <2>4
<1>3. b \in Nat \ {0}
  <2>1. w \in Nat
    BY <1>2, WidthAssumption
  <2> HIDE DEF w
  <2> QED
    BY <2>1, PowerOfTwo
<1>4. Cs(HashOf(H, s)) = n % b
  BY <1>1 DEF Cs, Unsigned
<1> HIDE DEF n, b
<1>5. n < b => n % b = n
  <2> SUFFICES ASSUME n < b PROVE n % b = n
    OBVIOUS
  <2>1. n = b * 0 + n /\ n \in 0 .. b - 1 /\ n \in Int /\ 0 \in Int
    BY <1>1, <1>3
  <2> QED
    BY <1>3, <2>1, ModUnique
<1>6. n % b \in 0 .. n
  <2>1. n % b \in 0 .. b - 1
    BY <1>1, <1>3, ModType
  <2> QED
    BY <1>1, <1>3, <1>5, <2>1
<1>7. n < b => Fits(s)
  BY <1>1, <1>4, <1>5 DEF Fits, n
<1> QED
  BY <1>1, <1>2, <1>4, <1>6, <1>7 DEF n, b, w

\* The entries that the C code compares as equal are those that eq finds, as far as it looks.
Hits(s, nul) == {p \in 1 .. Cs(HashOf(H, s)) :
                    SameBytes(ListOf(s)[p].key, s, CompareLength(s, ListOf(s)[p].key, nul))}

NoZeroKeys == \A j \in 1 .. size : NoZeroByte(keys[j])

LEMMA HitsAreMine ==
    ASSUME Trusted, Listed, NoZeroKeys, NEW s \in Seq(Nat), NoZeroByte(s), NEW nul \in BOOLEAN
    PROVE  Hits(s, nul) = Mine(s) \cap (1 .. Cs(HashOf(H, s)))
<1>1. ASSUME NEW p \in 1 .. Len(ListOf(s))
      PROVE  SameBytes(ListOf(s)[p].key, s, CompareLength(s, ListOf(s)[p].key, nul))
                <=> ListOf(s)[p].key = s
  <2>1. PICK d \in 1 .. size : ListOf(s)[p].key = keys[d]
    BY AnyEntry
  <2>2. keys[d] \in Seq(Nat) /\ NoZeroByte(keys[d])
    <3>1. keys \in Seq(Seq(Nat)) /\ Len(keys) = size
      BY KeysType DEF Listed
    <3> QED
      BY <3>1 DEF NoZeroKeys
  <2> QED
    BY <2>1, <2>2, ComparedIsEqual
<1>2. \A p \in 1 .. Cs(HashOf(H, s)) : p \in 1 .. Len(ListOf(s))
  <2>1. Cs(HashOf(H, s)) \in 0 .. Len(ListOf(s)) /\ Len(ListOf(s)) \in Nat
    BY StoredLength, ListType
  <2> QED
    BY <2>1
<1> QED
  BY <1>1, <1>2 DEF Hits, Mine

\* What CLookup does with c entries, the hits among them, and the value v.
CValue(s, nul, c, hits, v) ==
    IF c > 1 /\ hits # {} THEN ListOf(s)[Min(hits)].value
    ELSE IF dict.fp THEN v
    ELSE IF v \notin Slots THEN Wild
    ELSE IF CheckKey(s, keys[v + 1], nul) THEN v ELSE -1

\* The single key's value, or the number of the slot.
CSlot(s, c) == IF c = 1 THEN ListOf(s)[1].value ELSE HashOf(H, s)

LEMMA CLookupIs ==
    ASSUME Trusted, Listed, NoZeroKeys, NEW s \in Seq(Nat), NoZeroByte(s), NEW nul \in BOOLEAN
    PROVE  CLookup(s, nul) = CValue(s, nul, Cs(HashOf(H, s)), Mine(s) \cap (1 .. Cs(HashOf(H, s))),
                                    CSlot(s, Cs(HashOf(H, s))))
<1> DEFINE c == Cs(HashOf(H, s))
           v == CSlot(s, c)
<1>1. CollisionList(HashOf(H, s)) = ListOf(s)
  BY StoredLength
<1>2. CLookup(s, nul) = CValue(s, nul, c, Hits(s, nul), v)
  BY <1>1, Zenon DEF CLookup, Hits, CValue, CSlot
<1>3. Hits(s, nul) = Mine(s) \cap (1 .. c)
  BY HitsAreMine
<1> QED
  BY <1>2, <1>3

LEMMA COwn ==
    ASSUME Trusted, Listed, NoZeroKeys, dict.fp \/ IndexValues,
           NEW j \in 1 .. Len(dict.keys), keys[j] # Empty, Fits(keys[j]), NEW nul \in BOOLEAN
    PROVE  CLookup(keys[j], nul) = PerfectHash(keys[j])
<1> DEFINE k == keys[j]
           list == ListOf(k)
           v == IF Len(list) = 1 THEN list[1].value ELSE HashOf(H, k)
<1>0. /\ size \in Nat /\ Len(dict.keys) \in 1 .. size /\ k \in Seq(Nat) /\ Mine(k) # {}
      /\ NoZeroByte(k) /\ Len(list) \in Nat /\ dict \in Dict
  <2>1. size \in Nat /\ Len(dict.keys) \in 1 .. size /\ dict \in Dict
    BY KeysType DEF Listed
  <2>2. k \in Seq(Nat) /\ Mine(k) # {}
    BY OwnEntry
  <2>3. Len(list) \in Nat
    BY <2>2, ListType
  <2>4. NoZeroByte(k)
    <3>1. j \in 1 .. size
      BY <2>1
    <3> QED
      BY <3>1 DEF NoZeroKeys
  <2> QED
    BY <2>1, <2>2, <2>3, <2>4
<1>1. PerfectHash(k) = Candidate(k)
  BY OwnLookup
<1>2. Candidate(k) = IF Len(list) = 1 THEN list[1].value ELSE list[Min(Mine(k))].value
  BY <1>0, CandidateIs
<1>3. CLookup(k, nul) =
          IF Len(list) > 1 /\ Mine(k) # {} THEN list[Min(Mine(k))].value
          ELSE IF dict.fp THEN v
          ELSE IF v \notin Slots THEN Wild
          ELSE IF CheckKey(k, keys[v + 1], nul) THEN v ELSE -1
  <2>1. Len(list) = Cs(HashOf(H, k))
    BY <1>0, StoredLength DEF Fits
  <2>2. Mine(k) = Mine(k) \cap (1 .. Len(list))
    BY DEF Mine
  <2>3. CLookup(k, nul) = CValue(k, nul, Cs(HashOf(H, k)), Mine(k) \cap (1 .. Cs(HashOf(H, k))),
                                 CSlot(k, Cs(HashOf(H, k))))
    BY <1>0, CLookupIs
  <2>4. CSlot(k, Len(list)) = v
    BY DEF CSlot
  <2>5. CLookup(k, nul) = CValue(k, nul, Len(list), Mine(k), v)
    BY <2>1, <2>2, <2>3, <2>4
  <2> HIDE DEF v
  <2> QED
    BY <2>5, Zenon DEF CValue
<1>4. Len(list) # 0
  BY <1>0 DEF Mine
<1>5. CASE Len(list) > 1
  <2> DEFINE n == Len(list)
  <2>0. n \in Nat /\ n > 1
    BY <1>0, <1>5, Zenon
  <2>1. Mine(k) # {} /\ n # 1
    <3>1. Mine(k) # {}
      BY <1>0, Zenon
    <3> HIDE DEF n
    <3>2. n # 1
      BY <2>0
    <3> QED
      BY <3>1, <3>2, Zenon
  <2> HIDE DEF k, list, v
  <2>2. CLookup(k, nul) = list[Min(Mine(k))].value
    BY <1>3, <1>5, <2>1
  <2>3. PerfectHash(k) = list[Min(Mine(k))].value
    BY <1>1, <1>2, <2>1
  <2>4. CLookup(k, nul) = PerfectHash(k)
    BY <2>2, <2>3
  <2> QED
    BY <2>4 DEF k
<1>6. CASE Len(list) = 1
  <2>1. CLookup(k, nul) = IF dict.fp THEN v
                          ELSE IF v \notin Slots THEN Wild
                          ELSE IF CheckKey(k, keys[v + 1], nul) THEN v ELSE -1
    BY <1>3, <1>6
  <2>2. v = Candidate(k)
    BY <1>2, <1>6
  <2>3. CASE dict.fp
    BY <1>1, <2>1, <2>2, <2>3
  <2>4. CASE ~dict.fp
    <3>1. PICK d \in 1 .. Len(dict.keys) : keys[d] = k /\ Candidate(k) = ValueAt(d)
      BY OwnEntry
    <3>2. d \in 1 .. size /\ v = d - 1
      <4>1. d \in 1 .. size
        BY <1>0
      <4> QED
        BY <1>0, <2>2, <2>4, <3>1, <4>1, ValueType
    <3> HIDE DEF v
    <3>3. v \in Slots /\ keys[v + 1] = k
      BY <1>0, <3>1, <3>2 DEF Slots
    <3>4. CheckKey(k, k, nul)
      BY <1>0 DEF CheckKey, SameBytes
    <3> QED
      BY <1>1, <2>1, <2>2, <2>4, <3>3, <3>4
  <2> QED
    BY <2>3, <2>4
<1>7. Len(list) > 1 \/ Len(list) = 1
  <2> DEFINE n == Len(list)
  <2>1. n \in Nat /\ n # 0
    BY <1>0, <1>4, Zenon
  <2> HIDE DEF n
  <2>2. n > 1 \/ n = 1
    BY <2>1
  <2> QED
    BY <2>2, Zenon DEF n
<1> QED
  BY <1>5, <1>6, <1>7

\* A string that the search for keys does not find gets the slot's number or the single
\* key's one, and passes the check only if it is alike the key with that number.
LEMMA CAbsent ==
    ASSUME Trusted, Listed, NoZeroKeys, ~dict.fp, ~DummyValue, IndexValues,
           NEW s \in Absent, NoZeroByte(s), NEW nul \in BOOLEAN,
           \A j \in 1 .. size : ~Alike(s, keys[j], nul)
    PROVE  CLookup(s, nul) = -1
<1> DEFINE c == Cs(HashOf(H, s))
           v == IF c = 1 THEN ListOf(s)[1].value ELSE HashOf(H, s)
<1>0. /\ size \in Nat /\ s \in Seq(Nat) /\ dict \in Dict /\ HashOf(H, s) \in Slots
      /\ keys \in Seq(Seq(Nat)) /\ Len(keys) = size
  <2>1. s \in Seq(Nat)
    BY PearsonAssumption
  <2> QED
    BY <2>1, KeysType, ListType DEF Listed
<1>1. Mine(s) = {}
  <2> SUFFICES ASSUME NEW p \in Mine(s) PROVE FALSE
    OBVIOUS
  <2>1. PICK d \in 1 .. size : ListOf(s)[p].key = keys[d]
    BY <1>0, AnyEntry DEF Mine
  <2>2. keys[d] = s /\ Prefix(s, s)
    BY <1>0, <2>1 DEF Mine, Prefix
  <2> QED
    BY <2>2 DEF Alike
<1>2. CLookup(s, nul) = IF v \notin Slots THEN Wild
                        ELSE IF CheckKey(s, keys[v + 1], nul) THEN v ELSE -1
  <2>1. {} = Mine(s) \cap (1 .. c)
    BY <1>1
  <2>3. CLookup(s, nul) = CValue(s, nul, c, Mine(s) \cap (1 .. c), CSlot(s, c))
    BY <1>0, CLookupIs
  <2>4. CSlot(s, c) = v
    BY DEF CSlot
  <2> HIDE DEF v, c
  <2>2. CLookup(s, nul) =
               IF c > 1 /\ {} # {} THEN ListOf(s)[Min({})].value
               ELSE IF dict.fp THEN v
               ELSE IF v \notin Slots THEN Wild
               ELSE IF CheckKey(s, keys[v + 1], nul) THEN v ELSE -1
    BY <2>1, <2>3, <2>4 DEF CValue
  <2> QED
    BY <2>2
<1>3. v \in Slots
  <2>1. CASE c = 1
    <3>1. 1 \in 1 .. Len(ListOf(s))
      <4>1. Len(ListOf(s)) \in Nat /\ c \in 0 .. Len(ListOf(s))
        BY <1>0, StoredLength, ListType
      <4> HIDE DEF c
      <4> QED
        BY <2>1, <4>1
    <3>2. PICK d \in 1 .. size : ListOf(s)[1].value = ValueAt(d)
      BY <1>0, <3>1, AnyEntry
    <3>3. ValueAt(d) = d - 1
      BY <1>0, IndexOrDummy
    <3> QED
      BY <1>0, <2>1, <3>2, <3>3 DEF Slots
  <2> QED
    BY <1>0, <2>1
<1>4. ~CheckKey(s, keys[v + 1], nul)
  <2> HIDE DEF v
  <2>1. v + 1 \in 1 .. size /\ keys[v + 1] \in Seq(Nat)
    BY <1>0, <1>3 DEF Slots
  <2>2. ~Alike(s, keys[v + 1], nul)
    BY <2>1
  <2> QED
    BY <1>0, <2>1, <2>2, CheckedIsPrefix
<1> HIDE DEF v
<1> QED
  BY <1>2, <1>3, <1>4

(***************************************************************************)
(* With collision lists, the C function finds for each key what the Perl   *)
(* lookup finds, if the length of its list fits the type it is stored in,  *)
(* and refuses every other string that is alike no key in the bytes that   *)
(* are compared: for every dictionary of keys without zero bytes, although *)
(* keys that are prefixes of each other may share a slot                   *)
(* (Pearson.pm:430-463).                                                   *)
(***************************************************************************)
THEOREM CLookupIsRight ==
    ASSUME Trusted
    PROVE  Spec => []CFindsKeys
<1>1. Searched => CFindsKeys
  <2> SUFFICES ASSUME Searched, pc = "done", C # Undef, dict.fp \/ IndexValues, NoZeroKeys,
                      NEW nul \in BOOLEAN
               PROVE  /\ \A j \in 1 .. Len(dict.keys) : keys[j] # Empty /\ Fits(keys[j]) =>
                            CLookup(keys[j], nul) = PerfectHash(keys[j])
                      /\ ~dict.fp /\ ~DummyValue => \A s \in Absent :
                            NoZeroByte(s) /\ (\A j \in 1 .. size : ~Alike(s, keys[j], nul)) =>
                                CLookup(s, nul) = -1
    BY Zenon DEF CFindsKeys, ListsInC, NoZeroKeys
  <2>1. Listed
    BY DoneListed
  <2> QED
    BY <2>1, COwn, CAbsent
<1> QED
  BY <1>1, SpecSearched, PTL

(***************************************************************************)
(* A dictionary with fewer keys than the narrowest type has values (256,   *)
(* with its dummy key) never meets the full list: the C function finds all *)
(* its keys.                                                               *)
(***************************************************************************)
Small == \A c \in Dict, w \in Widths : Len(PaddedKeys(c.keys)) < 2 ^ w

THEOREM SmallDictionariesAreFound ==
    ASSUME Trusted, Small
    PROVE  Spec => []CLookupExists
<1>1. Searched => CLookupExists
  <2> SUFFICES ASSUME Searched, pc = "done", C # Undef, dict.fp \/ IndexValues, NoZeroKeys,
                      NEW nul \in BOOLEAN, NEW j \in 1 .. Len(dict.keys), keys[j] # Empty
               PROVE  CLookup(keys[j], nul) = PerfectHash(keys[j])
    BY Zenon DEF CLookupExists, ListsInC, NoZeroKeys
  <2>1. Listed
    BY DoneListed
  <2>2. keys[j] \in Seq(Nat)
    BY <2>1, OwnEntry
  <2> DEFINE n == Len(ListOf(keys[j]))
  <2>3. n \in Nat /\ n <= size
    BY <2>1, <2>2, ListType DEF FiledAt
  <2>4. size < 2 ^ ctype /\ size \in Nat
    <3>1. ctype \in Widths /\ dict \in Dict
      BY <2>1, <2>2, StoredLength DEF Listed
    <3> QED
      BY <3>1, KeysType DEF Small, size, keys
  <2>5. 2 ^ ctype \in Nat
    <3>1. ctype \in Nat
      BY <2>1, <2>2, StoredLength, WidthAssumption
    <3> QED
      BY <3>1, PowerOfTwo
  <2>6. n < 2 ^ ctype
    <3> DEFINE b == 2 ^ ctype
    <3>1. b \in Nat /\ size < b /\ size \in Nat
      BY <2>4, <2>5
    <3> HIDE DEF b, n
    <3>2. n < b
      BY <2>3, <3>1
    <3> QED
      BY <3>2 DEF b
  <2>7. Fits(keys[j])
    BY <2>1, <2>2, <2>6, StoredLength
  <2> QED
    BY <2>1, <2>7, COwn
<1> QED
  BY <1>1, SpecSearched, PTL
=============================================================================
