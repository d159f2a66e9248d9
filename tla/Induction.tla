------------------------------ MODULE Induction ------------------------------
(***************************************************************************)
(* Facts about numbers and loops that the proofs of several components     *)
(* rest on.  A loop of the code is a recursive function over the number of *)
(* its round; the induction theorems of the library take an operator as a  *)
(* parameter, those here take sets and functions.                          *)
(***************************************************************************)
EXTENDS Integers, FiniteSets, FiniteSetTheorems, WellFoundedInduction, TLAPS

(***************************************************************************)
(* Induction over the natural numbers, for sets.                           *)
(***************************************************************************)
LEMMA Smallest ==
    ASSUME NEW U, U \subseteq Nat, U # {}
    PROVE  \E n \in U : \A k \in U : n <= k
<1>1. IsWellFoundedOn(OpToRel(<, Nat), Nat)
  BY NatLessThanWellFounded
<1>2. PICK n \in U : \A k \in U : ~ (<<k, n>> \in OpToRel(<, Nat))
  BY <1>1, WFMin
<1>3. \A k \in Nat : <<k, n>> \in OpToRel(<, Nat) <=> k < n
  BY <1>2 DEF OpToRel
<1>4. n \in U /\ n \in Nat
  BY <1>2
<1>5. ASSUME NEW k \in U PROVE n <= k
  <2>1. k \in Nat /\ ~ (k < n)
    BY <1>2, <1>3
  <2> QED
    BY <1>4, <2>1
<1> QED
  BY <1>4, <1>5

LEMMA SetInduction ==
    ASSUME NEW T, 0 \in T, \A n \in Nat : n \in T => n + 1 \in T
    PROVE  Nat \subseteq T
<1> SUFFICES ASSUME Nat \ T # {} PROVE FALSE
  OBVIOUS
<1>1. PICK n \in Nat \ T : \A k \in Nat \ T : n <= k
  BY Smallest
<1>2. n # 0 /\ n - 1 \in Nat /\ n - 1 < n
  BY <1>1
<1>3. n - 1 \in T
  BY <1>1, <1>2
<1> QED
  BY <1>1, <1>2, <1>3

\* A loop of n rounds is a function: it exists, and what the rounds keep holds of its
\* last value.  S[i] holds the values that round i may end with.
IsLoop(f, n, V, b, step) ==
    /\ f \in [0 .. n -> V] /\ f[0] = b
    /\ \A i \in 1 .. n : f[i] = step[<<f[i - 1], i>>]

LEMMA Rounds ==
    ASSUME NEW n \in Nat, NEW V, NEW b \in V,
           NEW step, step \in [V \X (1 .. n) -> V]
    PROVE  \E f : IsLoop(f, n, V, b, step)
<1> DEFINE Is(f, m) == /\ f \in [0 .. m -> V]
                       /\ f[0] = b
                       /\ \A i \in 1 .. m : f[i] = step[<<f[i - 1], i>>]
           T == {m \in Nat : m <= n => \E f : Is(f, m)}
<1>1. 0 \in T
  <2> Is([i \in 0 .. 0 |-> b], 0)
    OBVIOUS
  <2> QED
    OBVIOUS
<1>2. \A m \in Nat : m \in T => m + 1 \in T
  <2> SUFFICES ASSUME NEW m \in T, m + 1 <= n PROVE \E f : Is(f, m + 1)
    OBVIOUS
  <2>1. PICK f : Is(f, m)
    OBVIOUS
  <2> DEFINE g == [i \in 0 .. m + 1 |-> IF i = m + 1 THEN step[<<f[m], m + 1>>] ELSE f[i]]
  <2>2. step[<<f[m], m + 1>>] \in V
    BY <2>1
  <2>3. g \in [0 .. m + 1 -> V]
    BY <2>1, <2>2
  <2>4. g[0] = b
    BY <2>1
  <2>5. \A i \in 1 .. m : g[i] = f[i] /\ g[i - 1] = f[i - 1]
    OBVIOUS
  <2>6. g[m + 1] = step[<<f[m], m + 1>>] /\ g[m] = f[m]
    OBVIOUS
  <2>7. ASSUME NEW i \in 1 .. m + 1 PROVE g[i] = step[<<g[i - 1], i>>]
    <3>1. CASE i \in 1 .. m
      BY <3>1, <2>1, <2>5
    <3>2. CASE i = m + 1
      <4>1. i - 1 = m
        BY <3>2
      <4> HIDE DEF g
      <4> QED
        BY <3>2, <4>1, <2>6
    <3> QED
      BY <3>1, <3>2
  <2> QED
    BY <2>3, <2>4, <2>7
<1> HIDE DEF T
<1>3. n \in T
  BY <1>1, <1>2, SetInduction
<1>4. PICK f : Is(f, n)
  BY <1>3 DEF T
<1> QED
  BY <1>4 DEF IsLoop

\* What holds at first and is kept by every round holds at the end.
LEMMA RoundsKeep ==
    ASSUME NEW n \in Nat, NEW f, NEW S, f[0] \in S[0],
           \A i \in 1 .. n : f[i - 1] \in S[i - 1] => f[i] \in S[i]
    PROVE  \A i \in 0 .. n : f[i] \in S[i]
<1> DEFINE T == {m \in Nat : m <= n => f[m] \in S[m]}
<1>1. 0 \in T
  OBVIOUS
<1>2. \A m \in Nat : m \in T => m + 1 \in T
  <2> SUFFICES ASSUME NEW m \in T, m + 1 <= n PROVE f[m + 1] \in S[m + 1]
    OBVIOUS
  <2>1. m + 1 \in 1 .. n /\ (m + 1) - 1 = m
    OBVIOUS
  <2> QED
    BY <2>1
<1> HIDE DEF T
<1>3. Nat \subseteq T
  BY <1>1, <1>2, SetInduction
<1> QED
  BY <1>3 DEF T

\* A nonempty set of numbers up to n has a largest member.
LEMMA LargestNumber ==
    ASSUME NEW n \in Nat, NEW T, T \subseteq 0 .. n, T # {}
    PROVE  \E i \in T : \A k \in T : k <= i
<1> DEFINE U == {u \in Nat : n - u \in T}
<1>0. \A i \in T : n - i \in Nat /\ n - (n - i) = i
  OBVIOUS
<1>1. U \subseteq Nat /\ U # {}
  BY <1>0
<1>2. PICK u \in U : \A k \in U : u <= k
  <2> HIDE DEF U
  <2> QED
    BY <1>1, Smallest
<1>3. \A k \in T : u <= n - k
  BY <1>0, <1>2
<1>4. n - u \in T /\ \A k \in T : k <= n - u
  BY <1>2, <1>3
<1> QED
  BY <1>4

\* The remainder modulo a positive number is below it.
LEMMA ModType ==
    ASSUME NEW a \in Nat, NEW b \in Nat \ {0}
    PROVE  a % b \in 0 .. b - 1
  OBVIOUS

\* The remainder is the only one.
LEMMA ModUnique ==
    ASSUME NEW n \in Nat \ {0}, NEW x \in Int, NEW q \in Int, NEW r \in 0 .. n - 1,
           x = n * q + r
    PROVE  x % n = r
<1> DEFINE p == x \div n
           t == x % n
<1>1. p \in Int /\ t \in 0 .. n - 1 /\ x = n * p + t
  OBVIOUS
<1> HIDE DEF p, t
<1>2. n * (q - p) = t - r
  BY <1>1
<1>3. t - r < n /\ t - r > -n
  BY <1>1
<1>4. q - p < 1
  <2> SUFFICES ASSUME q - p >= 1 PROVE FALSE
    BY <1>1
  <2>1. n * (q - p) >= n
    BY <1>1
  <2> QED
    BY <2>1, <1>1, <1>2, <1>3
<1>5. q - p > -1
  <2> SUFFICES ASSUME p - q >= 1 PROVE FALSE
    BY <1>1
  <2>1. n * (p - q) >= n
    BY <1>1
  <2>2. n * (p - q) = r - t
    BY <1>1, <1>2
  <2> QED
    BY <2>1, <2>2, <1>1, <1>3
<1>6. q = p
  BY <1>1, <1>4, <1>5
<1> QED
  BY <1>1, <1>6 DEF t

\* Powers of two, which the provers do not know: 2^n counts the subsets of 1 .. n.
LEMMA PowerOfTwo ==
    ASSUME NEW n \in Nat
    PROVE  2 ^ n \in Nat \ {0} /\ 2 ^ (n + 1) = 2 * 2 ^ n
<1> DEFINE A == SUBSET (1 .. n)
           B == {s \cup {n + 1} : s \in A}
<1>1. IsFiniteSet(A) /\ Cardinality(A) = 2 ^ n
  <2>1. IsFiniteSet(1 .. n) /\ Cardinality(1 .. n) = n
    BY FS_Interval
  <2> QED
    BY <2>1, FS_SUBSET
<1>2. SUBSET (1 .. n + 1) = A \cup B
  <2>1. ASSUME NEW s \in SUBSET (1 .. n + 1) PROVE s \in A \cup B
    <3>1. CASE n + 1 \in s
      <4>1. s \ {n + 1} \in A /\ s = (s \ {n + 1}) \cup {n + 1}
        BY <3>1
      <4> QED
        BY <4>1
    <3>2. CASE n + 1 \notin s
      BY <3>2
    <3> QED
      BY <3>1, <3>2
  <2>2. ASSUME NEW s \in A \cup B PROVE s \in SUBSET (1 .. n + 1)
    OBVIOUS
  <2> QED
    BY <2>1, <2>2
<1>3. A \cap B = {}
  OBVIOUS
<1>4. IsFiniteSet(B) /\ Cardinality(B) = Cardinality(A)
  <2> DEFINE f == [s \in A |-> s \cup {n + 1}]
  <2>1. f \in Bijection(A, B)
    <3>1. \A s, t \in A : f[s] = f[t] => s = t
      <4> SUFFICES ASSUME NEW s \in A, NEW t \in A, s \cup {n + 1} = t \cup {n + 1} PROVE s = t
        OBVIOUS
      <4>1. n + 1 \notin s /\ n + 1 \notin t
        OBVIOUS
      <4> QED
        BY <4>1
    <3>2. f \in [A -> B] /\ \A t \in B : \E s \in A : f[s] = t
      OBVIOUS
    <3> QED
      BY <3>1, <3>2, Zenon DEF Bijection, Injection, Surjection, IsInjective
  <2> QED
    BY <1>1, <2>1, FS_Bijection DEF ExistsBijection
<1>5. IsFiniteSet(1 .. n + 1) /\ Cardinality(1 .. n + 1) = n + 1
  BY FS_Interval
<1>6. Cardinality(A \cup B) = 2 ^ (n + 1)
  BY <1>2, <1>5, FS_SUBSET
<1>7. Cardinality(A \cup B) = Cardinality(A) + Cardinality(B) - Cardinality({})
  <2> HIDE DEF A, B
  <2> QED
    BY <1>1, <1>3, <1>4, FS_Union
<1>8. Cardinality({}) = 0 /\ Cardinality(A) \in Nat /\ Cardinality(A) # 0
  <2>1. {} \in A
    OBVIOUS
  <2> QED
    BY <1>1, <2>1, FS_EmptySet, FS_CardinalityType
<1> HIDE DEF A, B
<1> QED
  BY <1>1, <1>4, <1>6, <1>7, <1>8

LEMMA PowerAbove ==
    ASSUME NEW n \in Nat
    PROVE  2 ^ n > n
<1> DEFINE T == {m \in Nat : 2 ^ m > m}
<1>1. 0 \in T
  <2> DEFINE z == 0
  <2>1. z \in Nat
    OBVIOUS
  <2> HIDE DEF z
  <2>2. 2 ^ z \in Nat \ {0}
    BY <2>1, PowerOfTwo
  <2> QED
    BY <2>2 DEF z
<1>2. \A m \in Nat : m \in T => m + 1 \in T
  <2> SUFFICES ASSUME NEW m \in Nat, 2 ^ m > m PROVE 2 ^ (m + 1) > m + 1
    OBVIOUS
  <2>1. 2 ^ m \in Nat /\ 2 ^ (m + 1) = 2 * 2 ^ m
    BY PowerOfTwo
  <2> QED
    BY <2>1
<1> HIDE DEF T
<1>3. n \in T
  BY <1>1, <1>2, SetInduction
<1> QED
  BY <1>3 DEF T
LEMMA PowerGrows ==
    ASSUME NEW a \in Nat, NEW b \in Nat, a <= b
    PROVE  2 ^ a <= 2 ^ b
<1> DEFINE T == {m \in Nat : 2 ^ a <= 2 ^ (a + m)}
<1>1. 0 \in T
  <2>1. 2 ^ a \in Nat /\ a + 0 = a
    BY PowerOfTwo
  <2>2. 2 ^ a <= 2 ^ a
    BY <2>1
  <2> QED
    BY <2>1, <2>2
<1>2. \A m \in Nat : m \in T => m + 1 \in T
  <2> SUFFICES ASSUME NEW m \in Nat, 2 ^ a <= 2 ^ (a + m) PROVE 2 ^ a <= 2 ^ (a + (m + 1))
    OBVIOUS
  <2> DEFINE n == a + m
  <2>1. n \in Nat /\ a + (m + 1) = n + 1
    OBVIOUS
  <2> HIDE DEF n
  <2>2. 2 ^ n \in Nat /\ 2 ^ (n + 1) = 2 * 2 ^ n /\ 2 ^ a \in Nat
    BY <2>1, PowerOfTwo
  <2>3. 2 ^ a <= 2 ^ n
    BY DEF n
  <2>4. 2 ^ a <= 2 ^ (n + 1)
    BY <2>2, <2>3
  <2> QED
    BY <2>1, <2>4
<1> HIDE DEF T
<1>3. b - a \in T
  BY <1>1, <1>2, SetInduction
<1> QED
  BY <1>3 DEF T
==============================================================================
