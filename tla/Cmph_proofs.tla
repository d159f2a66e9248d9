----------------------------- MODULE Cmph_proofs -----------------------------
(***************************************************************************)
(* The life of a function of cmph: chm keeps the order of the keys, and    *)
(* every algorithm packs into the size that the caller was told.           *)
(*                                                                         *)
(* OrderPreserved is not inductive: it says nothing of what has not been   *)
(* asked yet.  IInv adds what the caller has set so far (CallerInv), that  *)
(* only brz has a config inside of another (BucketsInv), and for chm what  *)
(* each step of cmph_new leaves, that the file is the dump of the function *)
(* and the packed block its pack (ChmInv).                                 *)
(*                                                                         *)
(* Nor is PackedFits: a packed block can outlive its function, for         *)
(* cmph_load puts another one in its place.  PackedInv follows the counts  *)
(* that sizes are made of, from the config (NewInv) over the work of each  *)
(* algorithm (WorkCounts, and OuterInv while brz calls cmph_new for a      *)
(* bucket) to the function (FunctionInv) and the file (FileInv); with it   *)
(* cmph_load finds the counts that were dumped, and the block has the size *)
(* of the function (PackInv).                                              *)
(***************************************************************************)
EXTENDS Cmph, Chm_proofs

\* What a caller has set so far.
CallerInv ==
    pc = "config" =>
        LET r == data.request
        IN  /\ r \in Requests /\ mph.keys = Keys(r.source)
            /\ {"algo", "c", "keys"} \subseteq DOMAIN mph /\ "calls" \in DOMAIN data
            /\ mph.algo = IF "algo" \in data.calls THEN "chm" ELSE r.algo
            /\ r.c[1] # 0 => mph.c = IF "graphsize" \in data.calls THEN <<0, 1>> ELSE r.c
            /\ r.c[1] = 0 => mph.c = <<0, 1>> /\ "graphsize" \notin data.calls
            /\ file = << >> /\ packed = << >> /\ outer = << >>
            /\ \A c \in DOMAIN answers : answers[c] = Null

\* The buckets of brz are functions of fch or bmz8.
BucketsInv ==
    /\ outer # << >> => outer[1].mph.algo = "brz" /\ outer[1].data.algo \in {"fch", "bmz8"}
    /\ mph.algo = "brz" /\ pc \in {"partition", "merge"} => data.algo \in {"fch", "bmz8"}

\* The function of chm, from the config to its copies.
Built(f) == \E d : ChmRight(d, mph.keys) /\ f = [algo |-> "chm", size |-> m, data |-> d]

ChmInv ==
    mph.algo = "chm" /\ pc # "config" =>
        /\ Hashable(mph.keys)
        /\ pc = "new" => Seeds(ChmVertices(mph.c, m))
        /\ pc \in {"map", "assign"} => "n" \in DOMAIN data /\ Seeds(data.n)
        /\ pc = "assign" => \E s1, s2 \in 0 .. data.n - 1 :
              data.hashes = <<s1, s2>> /\ EdgesOfKeys(data.graph, mph.keys, s1, s2, data.n)
        /\ pc \in {"built", "dumped", "loaded"} => Built(mphf)
        /\ file = IF pc \in {"dumped", "loaded"} THEN ChmDump(mphf) ELSE << >>
        /\ packed # << >> => pc \in {"built", "dumped", "loaded"} /\ packed = W(4, "chm") \o ChmPack(mphf.data)
        /\ OrderPreserved

IInv == CallerInv /\ BucketsInv /\ ChmInv

-----------------------------------------------------------------------------
(* chm: the vertices, the file and the packed block. *)

\* One vertex at least.
LEMMA CeilAtLeastOne ==
    ASSUME NEW a \in Nat \ {0}, NEW b \in Nat \ {0}
    PROVE  CeilDiv(a, b) # 0
<1> DEFINE x == a + b - 1
           y == x \div b
<1>1. x \in Nat /\ x >= b
  OBVIOUS
<1> HIDE DEF x
<1>2. x = b * y + (x % b) /\ x % b \in 0 .. b - 1 /\ y \in Int
  BY <1>1
<1> HIDE DEF y
<1>3. ASSUME y = 0 PROVE FALSE
  <2>1. b * y = 0
    BY <1>3
  <2> QED
    BY <1>1, <1>2, <2>1
<1>4. CeilDiv(a, b) = y
  BY DEF CeilDiv, x, y
<1> QED
  BY <1>3, <1>4

\* The keys of a request can be hashed, and chm has a vertex at least and seeds for all of them.
LEMMA RequestIsRight ==
    ASSUME NEW r \in Requests, r.algo = "chm"
    PROVE  Hashable(Keys(r.source)) /\ Seeds(ChmVertices(r.c, Len(Keys(r.source))))
<1> DEFINE k == r.source.nkeys
           c == IF r.c[1] = 0 THEN <<209, 100>> ELSE r.c
           n == ChmVertices(r.c, k)
           a == c[1] * k
           b == c[2]
<1>1. /\ k \in Number \ {0} /\ r.c \in Nat \X (Nat \ {0}) /\ Keys(r.source) \in Seq(DOMAIN Jenkins[0])
      /\ n \in Number /\ 0 .. n - 1 \subseteq DOMAIN Jenkins
  BY StructsAssumption, ChmAssumption
<1>2. k \in Nat \ {0} /\ Len(Keys(r.source)) = k
  <2>1. k \in Nat \ {0}
    BY <1>1, NumberIs
  <2> QED
    BY <2>1 DEF Keys
<1>3. c[1] \in Nat \ {0} /\ b \in Nat \ {0}
  BY <1>1
<1>4. n = CeilDiv(a, b)
  BY DEF ChmVertices, CeilTimes
<1> HIDE DEF c, k, b, n
<1>5. a \in Nat \ {0}
  <2> DEFINE x == c[1]
  <2>1. x \in Nat \ {0} /\ a = x * k
    BY <1>3
  <2> HIDE DEF x
  <2> QED
    BY <1>2, <2>1
<1> HIDE DEF a
<1>6. n # 0
  BY <1>3, <1>4, <1>5, CeilAtLeastOne
<1> QED
  BY <1>1, <1>2, <1>6 DEF Hashable, Seeds, n, k

\* What is loaded is what was dumped.
LEMMA LoadIs ==
    ASSUME Built(mphf), Hashable(mph.keys), mph.algo = "chm"
    PROVE  ChmDump(mphf) = cmph_dump(mphf) /\ << >> \o ChmDump(mphf) = ChmDump(mphf)
           /\ cmph_load(ChmDump(mphf)) = mphf
<1>1. PICK d : ChmRight(d, mph.keys) /\ mphf = [algo |-> "chm", size |-> m, data |-> d]
  BY DEF Built
<1> DEFINE f == ChmDump(mphf)
<1>2. m \in Number
  BY DEF Hashable, m
<1>3. Spells(f, ChmText(d, m), 9 + d.n)
  BY <1>1, <1>2, ChmDumpIs
<1>4. ChmLoad(f) = d /\ cmph_load_head(f) = [algo |-> "chm", size |-> m]
  BY <1>1, <1>2, <1>3, ChmLoadIs
<1>5. f = cmph_dump(mphf)
  BY <1>1 DEF cmph_dump
<1> HIDE DEF f
<1>6. f \in Seq(Token_)
  BY <1>3 DEF Spells
<1>7. << >> \o f = f
  <2> DEFINE T == Token_
  <2>1. f \in Seq(T)
    BY <1>6
  <2> HIDE DEF T
  <2> QED
    BY <2>1
<1>8. cmph_load(f) = mphf
  <2> DEFINE h == [algo |-> "chm", size |-> m]
  <2>1. h # Null /\ h.algo = "chm" /\ h.size = m
    <3>1. h \in [algo : DOMAIN NameBytes, size : Int]
      BY <1>2, NumberIs DEF NameBytes
    <3>2. Null \notin [algo : DOMAIN NameBytes, size : Int]
      BY StructsAssumption
    <3>3. h.algo = "chm" /\ h.size = m
      OBVIOUS
    <3> HIDE DEF h
    <3> QED
      BY <3>1, <3>2, <3>3
  <2>2. cmph_load_head(f) = h
    BY <1>4
  <2> HIDE DEF h
  <2>3. cmph_load(f) = [algo |-> h.algo, size |-> h.size, data |-> ChmLoad(f)]
    BY <2>1, <2>2 DEF cmph_load
  <2> QED
    BY <1>1, <1>4, <2>1, <2>3
<1> QED
  BY <1>5, <1>7, <1>8 DEF f

\* Both lookups of a function of chm give the place of the key.
LEMMA LookupsAre ==
    ASSUME Built(mphf), NEW i \in 1 .. m
    PROVE  /\ cmph_search(mphf, mph.keys[i]) = i - 1
           /\ cmph_search_packed(W(4, "chm") \o ChmPack(mphf.data), mph.keys[i]) = i - 1
<1>1. PICK d : ChmRight(d, mph.keys) /\ mphf = [algo |-> "chm", size |-> m, data |-> d]
  BY DEF Built
<1>2. i \in 1 .. Len(mph.keys)
  BY DEF m
<1>3. cmph_search(mphf, mph.keys[i]) = i - 1
  BY <1>1, <1>2, ChmFinds DEF cmph_search
<1> DEFINE p == ChmPack(d)
           mem == W(4, "chm") \o p
           n == 6 + d.n
           k == mph.keys[i]
<1>4. Spells(p, ChmPackText(d), n)
  BY <1>1, ChmPackIs
<1>5. ChmSearchPacked(p, k) = i - 1
  BY <1>1, <1>2, <1>4, ChmPackedFinds
<1>6. n \in Nat /\ FourBytes(p, n)
  BY <1>1, <1>4, ChmPackCells
<1> HIDE DEF p, n
<1>7. At(mem, 0, 4) = "chm" /\ From(mem, 4) = p
  BY <1>6, PackedTail
<1> HIDE DEF mem, k
<1>8. cmph_search_packed(mem, k) = ChmSearchPacked(p, k)
  BY <1>7 DEF cmph_search_packed, With
<1> QED
  BY <1>1, <1>3, <1>5, <1>8 DEF mem, p, k

-----------------------------------------------------------------------------
(* A step of another algorithm. *)

Elsewhere ==
    /\ pc # "config" /\ mph.algo \notin {"chm", "brz"}
    /\ pc' # "config" /\ mph' = mph /\ outer' = outer

\* A step of an algorithm other than chm and brz changes nothing that IInv is about.
LEMMA OthersKeep ==
    ASSUME IInv, Elsewhere
    PROVE  IInv'
  BY DEF IInv, CallerInv, BucketsInv, ChmInv, Elsewhere

\* The steps of those algorithms are such steps.
LEMMA OtherSteps ==
    ASSUME \/ Z!BmzNew \/ Z!BmzMap \/ Z!BmzOrder \/ Z!BmzSearchStep
           \/ Bmz8New \/ Bmz8Map \/ Bmz8Order \/ Bmz8SearchStep
           \/ FchNew \/ FchMap \/ FchRound
           \/ BdzNew \/ BdzMap \/ BdzAssign \/ BdzPhNew \/ BdzPhMap \/ BdzPhAssign
           \/ ChdPhNew \/ ChdPhMap \/ ChdPhSearchStep \/ ChdNew \/ ChdMap \/ ChdSearchStep
    PROVE  Elsewhere
<1>1. CASE Z!BmzNew
  BY <1>1 DEF Z!BmzNew, Z!Starts, Z!Keeps, Z!GiveUp, Z!Finish, Z!Abort, Elsewhere
<1>2. CASE Z!BmzMap
  BY <1>2 DEF Z!BmzMap, Z!Keeps, Z!GiveUp, Z!Undefined, Elsewhere
<1>3. CASE Z!BmzOrder
  BY <1>3 DEF Z!BmzOrder, Z!Keeps, Z!GiveUp, Z!Finish, Z!Abort, Elsewhere
<1>4. CASE Z!BmzSearchStep
  BY <1>4 DEF Z!BmzSearchStep, Z!Keeps, Z!GiveUp, Z!Finish, Z!Abort, Elsewhere
<1>5. CASE Bmz8New
  BY <1>5 DEF Bmz8New, Starts, Keeps, GiveUp, Finish, Abort, Elsewhere
<1>6. CASE Bmz8Map
  BY <1>6 DEF Bmz8Map, Keeps, GiveUp, Undefined, Elsewhere
<1>7. CASE Bmz8Order
  BY <1>7 DEF Bmz8Order, B8!BmzOrder, B8!Keeps, B8!GiveUp, B8!Finish, B8!Abort, Elsewhere
<1>8. CASE Bmz8SearchStep
  BY <1>8 DEF Bmz8SearchStep, Keeps, GiveUp, Finish, Abort, Elsewhere
<1>9. CASE FchNew
  BY <1>9 DEF FchNew, Starts, Keeps, GiveUp, Finish, Abort, Elsewhere
<1>10. CASE FchMap
  BY <1>10 DEF FchMap, Keeps, GiveUp, Finish, Abort, Elsewhere
<1>11. CASE FchRound
  BY <1>11 DEF FchRound, Keeps, GiveUp, Finish, Abort, Elsewhere
<1>12. CASE BdzNew
  BY <1>12 DEF BdzNew, Starts, Keeps, GiveUp, Finish, Abort, Elsewhere
<1>13. CASE BdzMap
  BY <1>13 DEF BdzMap, Keeps, GiveUp, Finish, Abort, Elsewhere
<1>14. CASE BdzAssign
  BY <1>14 DEF BdzAssign, Keeps, GiveUp, Finish, Abort, Elsewhere
<1>15. CASE BdzPhNew
  BY <1>15 DEF BdzPhNew, Starts, Keeps, GiveUp, Finish, Abort, Elsewhere
<1>16. CASE BdzPhMap
  BY <1>16 DEF BdzPhMap, Keeps, GiveUp, Finish, Abort, Elsewhere
<1>17. CASE BdzPhAssign
  BY <1>17 DEF BdzPhAssign, Keeps, GiveUp, Finish, Abort, Elsewhere
<1>18. CASE ChdPhNew
  BY <1>18 DEF ChdPhNew, ChdPhStart, Starts, Keeps, GiveUp, Finish, Abort, Elsewhere
<1>19. CASE ChdPhMap
  BY <1>19 DEF ChdPhMap, ChdPhMapWith, Keeps, GiveUp, Finish, Abort, Elsewhere
<1>20. CASE ChdPhSearchStep
  BY <1>20 DEF ChdPhSearchStep, ChdPhAgain, Keeps, GiveUp, Finish, Abort, Elsewhere
<1>21. CASE ChdNew
  BY <1>21 DEF ChdNew, ChdPhStart, Starts, Keeps, GiveUp, Finish, Abort, Elsewhere
<1>22. CASE ChdMap
  BY <1>22 DEF ChdMap, ChdPhMapWith, Keeps, GiveUp, Finish, Abort, Elsewhere
<1>23. CASE ChdSearchStep
  BY <1>23 DEF ChdSearchStep, ChdPhAgain, Keeps, GiveUp, Finish, Abort, Elsewhere
<1> QED
  BY <1>1, <1>2, <1>3, <1>4, <1>5, <1>6, <1>7, <1>8, <1>9, <1>10, <1>11, <1>12,
     <1>13, <1>14, <1>15, <1>16, <1>17, <1>18, <1>19, <1>20, <1>21, <1>22, <1>23

-----------------------------------------------------------------------------
(* A step of brz: its buckets have a config of their own. *)

\* The steps of brz, and its calls of cmph_new for a bucket.
LEMMA BrzSteps ==
    ASSUME IInv, BrzNew \/ BrzPartition \/ BrzMerge \/ BrzBucket \/ BrzFinish
    PROVE  IInv'
<1> SUFFICES BucketsInv' /\ pc' # "config" /\ mph'.algo # "chm"
  BY DEF IInv, CallerInv, ChmInv
<1>1. CASE BrzNew
  BY <1>1 DEF BrzNew, Starts, Keeps, IInv, BucketsInv
<1>2. CASE BrzPartition
  <2>1. data.algo \in {"fch", "bmz8"} /\ mph.algo = "brz" /\ mph' = mph /\ outer' = outer
    BY <1>2 DEF BrzPartition, IInv, BucketsInv
  <2>2. pc' # "config" /\ (pc' \in {"partition", "merge"} => data'.algo = data.algo)
    <3>1. \/ Undefined
          \/ \E size : BrzAgain(size)
          \/ pc' = "merge" /\ data'.algo = data.algo
      <4>1. PICK p, h0, held, bm, buffer_h0 :
               \/ Undefined
               \/ BrzAgain(p.size)
               \/ /\ pc' = "merge"
                  /\ data' = [algo |-> data.algo, k |-> data.k, c |-> data.c,
                              iterations |-> data.iterations, size |-> p.size, h0 |-> h0,
                              bm |-> bm, held |-> held, keys_vd |-> << >>, e |-> 0,
                              buffer_h0 |-> buffer_h0]
        BY <1>2, Zenon DEF BrzPartition
      <4> QED
        BY <4>1
    <3>2. CASE \E size : BrzAgain(size)
      BY <3>2 DEF BrzAgain, GiveUp
    <3> QED
      BY <3>1, <3>2 DEF Undefined
  <2> QED
    BY <2>1, <2>2 DEF IInv, BucketsInv
<1>3. CASE BrzMerge
  <2>1. data.algo \in {"fch", "bmz8"} /\ mph.algo = "brz" /\ pc = "merge"
    BY <1>3 DEF BrzMerge, IInv, BucketsInv
  <2>2. PICK i, s :
          LET cur == data.buffer_h0[i]
              keys_vd == Append(s.keys_vd, data.held[i])
              d == [data EXCEPT !.bm = s.bm, !.keys_vd = keys_vd, !.held[i] = s.key,
                                !.e = @ + Len(keys_vd) - Len(data.keys_vd),
                                !.buffer_h0[i] = IF s.key = Null THEN UINT_MAX
                                                 ELSE Bucket(data.h0, s.key, data.k)]
          IN  IF s.key = Wild \/ cur \notin DOMAIN data.size
              THEN Undefined /\ UNCHANGED <<mph, outer>>
              ELSE IF Len(s.keys_vd) >= data.size[cur] THEN Abort /\ UNCHANGED <<mph, outer>>
              ELSE IF Len(keys_vd) < data.size[cur]
              THEN data' = d /\ UNCHANGED <<pc, mphf, mph, outer>>
              ELSE /\ outer' = <<[mph |-> mph, data |-> [d EXCEPT !.keys_vd = << >>], bucket |-> cur]>>
                   /\ mph' = BucketConfig(keys_vd)
                   /\ pc' = "new" /\ data' = Null /\ UNCHANGED mphf
    BY <1>3 DEF BrzMerge
  <2> DEFINE cur == data.buffer_h0[i]
             keys_vd == Append(s.keys_vd, data.held[i])
             d == [data EXCEPT !.bm = s.bm, !.keys_vd = keys_vd, !.held[i] = s.key,
                               !.e = @ + Len(keys_vd) - Len(data.keys_vd),
                               !.buffer_h0[i] = IF s.key = Null THEN UINT_MAX
                                                ELSE Bucket(data.h0, s.key, data.k)]
             d2 == [d EXCEPT !.keys_vd = << >>]
  <2>3. \/ Undefined /\ UNCHANGED <<mph, outer>>
        \/ Abort /\ UNCHANGED <<mph, outer>>
        \/ data' = d /\ UNCHANGED <<pc, mphf, mph, outer>>
        \/ /\ outer' = <<[mph |-> mph, data |-> d2, bucket |-> cur]>>
           /\ mph' = BucketConfig(keys_vd) /\ pc' = "new"
    BY <2>2
  <2>4. d.algo = data.algo /\ d2.algo = data.algo
    OBVIOUS
  <2> HIDE DEF d, d2, cur, keys_vd
  <2>5. CASE Undefined /\ UNCHANGED <<mph, outer>>
    BY <2>1, <2>5 DEF Undefined, IInv, BucketsInv
  <2>6. CASE Abort /\ UNCHANGED <<mph, outer>>
    BY <2>1, <2>6 DEF Abort, IInv, BucketsInv
  <2>7. CASE data' = d /\ UNCHANGED <<pc, mphf, mph, outer>>
    BY <2>1, <2>4, <2>7 DEF IInv, BucketsInv
  <2>8. CASE /\ outer' = <<[mph |-> mph, data |-> d2, bucket |-> cur]>>
             /\ mph' = BucketConfig(keys_vd) /\ pc' = "new"
    <3>1. BucketConfig(keys_vd).algo = data.algo
      BY DEF BucketConfig
    <3> QED
      BY <2>1, <2>4, <2>8, <3>1 DEF BucketsInv
  <2> QED
    BY <2>3, <2>5, <2>6, <2>7, <2>8
<1>4. CASE BrzBucket
  <2>1. outer # << >> /\ outer' = << >> /\ mph' = outer[1].mph
    BY <1>4 DEF BrzBucket
  <2>2. outer[1].mph.algo = "brz" /\ outer[1].data.algo \in {"fch", "bmz8"}
    BY <2>1 DEF IInv, BucketsInv
  <2>3. pc' # "config" /\ (pc' \in {"partition", "merge"} => data'.algo = outer[1].data.algo)
    <3> DEFINE d == outer[1].data
               again == [algo |-> d.algo, k |-> d.k, c |-> d.c, size |-> d.size,
                         iterations |-> d.iterations - 1]
    <3>1. \/ data' = d /\ pc' = "merge"
          \/ data' = again /\ pc' = "partition"
          \/ pc' = "failed"
      BY <1>4, Zenon DEF BrzBucket
    <3>2. again.algo = d.algo
      OBVIOUS
    <3> HIDE DEF d, again
    <3>3. pc' # "config" /\ (pc' \in {"partition", "merge"} => data'.algo = d.algo)
      BY <3>1, <3>2
    <3> QED
      BY <3>3 DEF d
  <2> QED
    BY <2>1, <2>2, <2>3 DEF BucketsInv
<1>5. CASE BrzFinish
  BY <1>5 DEF BrzFinish, Finish, Keeps, IInv, BucketsInv
<1> QED
  BY <1>1, <1>2, <1>3, <1>4, <1>5

-----------------------------------------------------------------------------
(* The caller makes the config. *)

\* The calls of the setters, in any order.
LEMMA ConfigSteps ==
    ASSUME IInv,
           \/ cmph_config_set_algo \/ cmph_config_set_graphsize
           \/ cmph_config_set_b \/ cmph_config_set_keys_per_bin
           \/ cmph_config_set_memory_availability \/ cmph_config_set_mphf_fd
    PROVE  IInv'
<1>1. IInv /\ pc = "config" => CallerInv /\ "calls" \in DOMAIN data /\ {"algo", "c", "keys"} \subseteq DOMAIN mph
  BY DEF IInv, CallerInv
<1> DEFINE Called(call) ==
        /\ call \in data.calls /\ data'.calls = data.calls \ {call}
        /\ data'.request = data.request /\ "calls" \in DOMAIN data'
        /\ file' = file /\ packed' = packed /\ outer' = outer /\ answers' = answers
<1>2. ASSUME NEW call, Calls(call)
      PROVE  pc = "config" /\ pc' = "config" /\ Called(call)
  BY <1>1, <1>2 DEF Calls
<1>3. ASSUME NEW call, Calls(call), CallerInv' PROVE IInv'
  <2>1. pc = "config" /\ pc' = "config" /\ outer' = << >>
    BY <1>1, <1>2, <1>3 DEF CallerInv
  <2> QED
    BY <1>3, <2>1 DEF IInv, BucketsInv, ChmInv
<1>4. ASSUME NEW call, Calls(call), call # "algo", call # "graphsize",
             mph'.algo = mph.algo /\ mph'.c = mph.c /\ mph'.keys = mph.keys /\ DOMAIN mph' = DOMAIN mph
      PROVE  IInv'
  <2>1. pc = "config" /\ CallerInv /\ {"algo", "c", "keys"} \subseteq DOMAIN mph /\ Called(call)
    BY <1>1, <1>2, <1>4
  <2>3. CallerInv'
    BY <1>4, <2>1 DEF CallerInv
  <2> QED
    BY <1>3, <1>4, <2>3
<1>5. CASE cmph_config_set_algo
  <2>1. Calls("algo")
    BY <1>5 DEF cmph_config_set_algo
  <2>2. pc = "config" /\ CallerInv /\ {"algo", "c", "keys"} \subseteq DOMAIN mph /\ Called("algo")
    BY <1>1, <1>2, <2>1
  <2>3. mph'.algo = data.request.algo /\ mph'.c = mph.c /\ mph'.keys = mph.keys /\ DOMAIN mph' = DOMAIN mph
    BY <1>5, <2>2 DEF cmph_config_set_algo
  <2>4. CallerInv'
    BY <2>2, <2>3 DEF CallerInv
  <2> QED
    BY <1>3, <2>1, <2>4
<1>6. CASE cmph_config_set_graphsize
  <2>1. Calls("graphsize")
    BY <1>6 DEF cmph_config_set_graphsize
  <2>2. pc = "config" /\ CallerInv /\ {"algo", "c", "keys"} \subseteq DOMAIN mph /\ Called("graphsize")
    BY <1>1, <1>2, <2>1
  <2>3. mph'.c = data.request.c /\ mph'.algo = mph.algo /\ mph'.keys = mph.keys /\ DOMAIN mph' = DOMAIN mph
    BY <1>6, <2>2 DEF cmph_config_set_graphsize
  <2>4. data.request.c[1] # 0
    BY <2>2 DEF CallerInv
  <2>5. CallerInv'
    BY <2>2, <2>3, <2>4 DEF CallerInv
  <2> QED
    BY <1>3, <2>1, <2>5
<1>7. CASE cmph_config_set_b
  <2>1. Calls("b")
    BY <1>7 DEF cmph_config_set_b
  <2>2. \E v : mph' = [mph EXCEPT !.b = v]
    BY <1>7 DEF cmph_config_set_b
  <2>3. {"algo", "c", "keys"} \subseteq DOMAIN mph
    BY <1>1, <1>2, <2>1
  <2> QED
    BY <1>4, <2>1, <2>2, <2>3
<1>8. CASE cmph_config_set_keys_per_bin
  <2>1. Calls("keys_per_bin")
    BY <1>8 DEF cmph_config_set_keys_per_bin
  <2>2. \E v : mph' = [mph EXCEPT !.keys_per_bin = v]
    BY <1>8 DEF cmph_config_set_keys_per_bin
  <2>3. {"algo", "c", "keys"} \subseteq DOMAIN mph
    BY <1>1, <1>2, <2>1
  <2> QED
    BY <1>4, <2>1, <2>2, <2>3
<1>9. CASE cmph_config_set_memory_availability
  <2>1. Calls("memory")
    BY <1>9 DEF cmph_config_set_memory_availability
  <2>2. \E v : mph' = [mph EXCEPT !.memory = v]
    BY <1>9 DEF cmph_config_set_memory_availability
  <2>3. {"algo", "c", "keys"} \subseteq DOMAIN mph
    BY <1>1, <1>2, <2>1
  <2> QED
    BY <1>4, <2>1, <2>2, <2>3
<1>10. CASE cmph_config_set_mphf_fd
  <2>1. Calls("mphf_fd")
    BY <1>10 DEF cmph_config_set_mphf_fd
  <2>2. \E v : mph' = [mph EXCEPT !.mphf_fd = v]
    BY <1>10 DEF cmph_config_set_mphf_fd
  <2>3. {"algo", "c", "keys"} \subseteq DOMAIN mph
    BY <1>1, <1>2, <2>1
  <2> QED
    BY <1>4, <2>1, <2>2, <2>3
<1> QED
  BY <1>5, <1>6, <1>7, <1>8, <1>9, <1>10

\* The config is complete.
LEMMA NewStep ==
    ASSUME IInv, CmphNew
    PROVE  IInv'
<1> DEFINE r == data.request
<1>1. /\ pc = "config" /\ data.calls = {} /\ pc' = "new"
      /\ mph' = mph /\ file' = file /\ packed' = packed /\ outer' = outer /\ answers' = answers
  BY DEF CmphNew, Keeps
<1>2. /\ r \in Requests /\ mph.keys = Keys(r.source) /\ mph.algo = r.algo
      /\ mph.c = IF r.c[1] = 0 THEN <<0, 1>> ELSE r.c
      /\ file = << >> /\ packed = << >> /\ outer = << >>
      /\ \A c \in DOMAIN answers : answers[c] = Null
  BY <1>1 DEF IInv, CallerInv
<1>3. ChmVertices(mph.c, m) = ChmVertices(r.c, m)
  <2>1. ASSUME r.c[1] = 0 PROVE mph.c[1] = 0
    BY <1>2, <2>1
  <2> HIDE DEF r
  <2> QED
    BY <1>2, <2>1 DEF ChmVertices
<1>4. ASSUME mph.algo = "chm" PROVE Hashable(mph.keys) /\ Seeds(ChmVertices(mph.c, m))
  BY <1>2, <1>3, <1>4, RequestIsRight DEF m
<1>5. m' = m
  BY <1>1 DEF m
<1> HIDE DEF r
<1>6. ChmInv'
  BY <1>1, <1>2, <1>4, <1>5 DEF ChmInv, OrderPreserved
<1> QED
  BY <1>1, <1>2, <1>6 DEF IInv, CallerInv, BucketsInv

-----------------------------------------------------------------------------
(* chm makes its function. *)

\* The steps of chm.
LEMMA ChmSteps ==
    ASSUME IInv, ChmNew \/ ChmMap \/ ChmAssign
    PROVE  IInv'
<1>1. /\ pc # "config" /\ mph.algo = "chm"
      /\ pc' \notin {"config", "new", "dumped", "loaded"} /\ pc \in {"new", "map", "assign"}
      /\ mph' = mph /\ file' = file /\ packed' = packed /\ outer' = outer /\ answers' = answers
  BY DEF ChmNew, ChmMap, ChmAssign, Starts, Keeps, Finish, GiveUp
<1>2. m' = m
  BY <1>1 DEF m
<1>3. Hashable(mph.keys) /\ file = << >> /\ packed = << >> /\ OrderPreserved
  BY <1>1 DEF IInv, ChmInv
<1>4. OrderPreserved'
  BY <1>1, <1>2, <1>3 DEF OrderPreserved
<1> SUFFICES /\ pc' \in {"map", "assign"} => "n" \in DOMAIN data' /\ Seeds(data'.n)
             /\ pc' = "assign" => \E s1, s2 \in 0 .. data'.n - 1 :
                   data'.hashes = <<s1, s2>> /\ EdgesOfKeys(data'.graph, mph.keys, s1, s2, data'.n)
             /\ pc' = "built" => Built(mphf)'
  BY <1>1, <1>2, <1>3, <1>4 DEF IInv, CallerInv, BucketsInv, ChmInv
<1>5. CASE ChmNew
  <2>1. Seeds(ChmVertices(mph.c, m))
    BY <1>5 DEF ChmNew, Starts, IInv, ChmInv
  <2>2. data'.n = ChmVertices(mph.c, m) /\ "n" \in DOMAIN data' /\ pc' = "map"
    BY <1>5 DEF ChmNew
  <2> QED
    BY <2>1, <2>2
<1>6. CASE ChmMap
  <2>1. "n" \in DOMAIN data /\ Seeds(data.n)
    BY <1>6 DEF ChmMap, IInv, ChmInv
  <2>2. PICK s1 \in 0 .. data.n - 1, s2 \in 0 .. data.n - 1 :
          LET g == chm_gen_edges(s1, s2, data.n)
          IN  IF g # Null
              THEN /\ pc' = "assign" /\ UNCHANGED mphf
                   /\ data' = [n |-> data.n, hashes |-> <<s1, s2>>, graph |-> g]
              ELSE IF data.iterations > 1
              THEN data' = [data EXCEPT !.iterations = @ - 1] /\ UNCHANGED <<pc, mphf>>
              ELSE GiveUp
    BY <1>6 DEF ChmMap, hash_state_new
  <2> DEFINE g == chm_gen_edges(s1, s2, data.n)
  <2>3. CASE g # Null
    <3>1. EdgesOfKeys(g, mph.keys, s1, s2, data.n)
      BY <1>3, <2>1, <2>3, GraphTaken
    <3> QED
      BY <2>1, <2>2, <2>3, <3>1
  <2>4. CASE g = Null
    <3>1. \/ data' = [data EXCEPT !.iterations = @ - 1] /\ pc' = pc
          \/ pc' = "failed"
      BY <2>2, <2>4 DEF GiveUp
    <3> QED
      BY <1>6, <2>1, <3>1 DEF ChmMap
  <2> QED
    BY <2>3, <2>4
<1>7. CASE ChmAssign
  <2>1. PICK s1 \in 0 .. data.n - 1, s2 \in 0 .. data.n - 1 :
           data.hashes = <<s1, s2>> /\ EdgesOfKeys(data.graph, mph.keys, s1, s2, data.n)
    BY <1>7 DEF ChmAssign, IInv, ChmInv
  <2>2. Seeds(data.n)
    BY <1>7 DEF ChmAssign, IInv, ChmInv
  <2> DEFINE d == [g |-> ChmNumbers(data.graph), hashes |-> data.hashes, n |-> data.n, m |-> m]
  <2>3. d = [g |-> ChmNumbers(data.graph), hashes |-> <<s1, s2>>, n |-> data.n, m |-> Len(mph.keys)]
    BY <2>1 DEF m
  <2>4. ChmRight(d, mph.keys)
    BY <1>3, <2>1, <2>2, <2>3, ChmIsRight
  <2>5. mphf' = [algo |-> "chm", size |-> m, data |-> d] /\ pc' = "built"
    BY <1>1, <1>7 DEF ChmAssign, Finish
  <2> HIDE DEF d
  <2> QED
    BY <1>1, <1>2, <2>4, <2>5 DEF Built
<1> QED
  BY <1>5, <1>6, <1>7

-----------------------------------------------------------------------------
(* The caller uses the function. *)

\* What the caller has been told.
LEMMA Told ==
    ASSUME IInv, mph.algo = "chm", NEW copy, NEW table, Tells(copy, table),
           \A i \in 1 .. m : table[i] = i - 1
    PROVE  OrderPreserved'
<1>1. OrderPreserved \/ pc = "config"
  BY DEF IInv, ChmInv
<1>2. mph' = mph /\ answers' = [answers EXCEPT ![copy] = table] /\ m' = m
  BY DEF Tells, m
<1>3. \A c \in DOMAIN answers : answers[c] # Null => \A i \in 1 .. m : answers[c][i] = i - 1
  BY <1>1 DEF IInv, CallerInv, OrderPreserved
<1>4. \A c \in DOMAIN answers : answers'[c] # Null => \A i \in 1 .. m : answers'[c][i] = i - 1
  BY <1>2, <1>3
<1> QED
  BY <1>2, <1>4 DEF OrderPreserved

\* The caller dumps, loads, packs and asks.
LEMMA UserSteps ==
    ASSUME IInv, CmphDump \/ CmphLoad \/ CmphPack \/ CmphSearch \/ CmphSearchPacked \/ Done
    PROVE  IInv'
<1>1. /\ mph' = mph /\ outer' = outer /\ data' = data /\ m' = m
  BY DEF CmphDump, CmphLoad, CmphPack, CmphSearch, CmphSearchPacked, Tells, Done, vars, cmphVars, m
<1>2. pc # "config" \/ packed # << >>
  BY DEF CmphDump, CmphLoad, CmphPack, CmphSearch, CmphSearchPacked, Has, Usable, Done
<1>3. pc # "config"
  BY <1>2 DEF IInv, CallerInv
<1>4. pc' # "config" /\ (pc' \in {"partition", "merge"} => pc' = pc)
  BY <1>3 DEF CmphDump, CmphLoad, CmphPack, CmphSearch, CmphSearchPacked, Tells, Done, vars, cmphVars
<1>5. CallerInv' /\ BucketsInv'
  BY <1>1, <1>4 DEF IInv, CallerInv, BucketsInv
<1> SUFFICES ASSUME mph.algo = "chm" PROVE ChmInv'
  BY <1>1, <1>5 DEF IInv, ChmInv
<1>6. /\ Hashable(mph.keys) /\ OrderPreserved
      /\ pc = "new" => Seeds(ChmVertices(mph.c, m))
      /\ pc \in {"map", "assign"} => "n" \in DOMAIN data /\ Seeds(data.n)
      /\ pc = "assign" => \E s1, s2 \in 0 .. data.n - 1 :
            data.hashes = <<s1, s2>> /\ EdgesOfKeys(data.graph, mph.keys, s1, s2, data.n)
      /\ pc \in {"built", "dumped", "loaded"} => Built(mphf)
      /\ file = IF pc \in {"dumped", "loaded"} THEN ChmDump(mphf) ELSE << >>
      /\ packed # << >> => pc \in {"built", "dumped", "loaded"} /\ packed = W(4, "chm") \o ChmPack(mphf.data)
  BY <1>3 DEF IInv, ChmInv
<1>7. CASE CmphDump
  <2>1. pc = "built" /\ pc' = "dumped" /\ file' = file \o cmph_dump(mphf) /\ mphf' = mphf /\ packed' = packed
        /\ answers' = answers
    BY <1>7 DEF CmphDump
  <2>2. file' = ChmDump(mphf)
    BY <1>6, <2>1, LoadIs
  <2>3. Built(mphf)' /\ OrderPreserved'
    BY <1>1, <1>6, <2>1 DEF Built, OrderPreserved
  <2> QED
    BY <1>1, <1>6, <2>1, <2>2, <2>3 DEF ChmInv
<1>8. CASE CmphLoad
  <2>1. pc = "dumped" /\ pc' = "loaded" /\ mphf' = cmph_load(file) /\ file' = file /\ packed' = packed
        /\ answers' = answers
    BY <1>8 DEF CmphLoad
  <2>2. mphf' = mphf
    BY <1>6, <2>1, LoadIs
  <2>3. Built(mphf)' /\ OrderPreserved'
    BY <1>1, <1>6, <2>1, <2>2 DEF Built, OrderPreserved
  <2> QED
    BY <1>1, <1>6, <2>1, <2>2, <2>3 DEF ChmInv
<1>9. CASE CmphPack
  <2>1. pc \in {"built", "dumped", "loaded"} /\ pc' = pc /\ mphf' = mphf /\ file' = file
        /\ packed' = cmph_pack(mphf) /\ answers' = answers
    BY <1>9 DEF CmphPack, Usable, Has
  <2>2. mphf.algo = "chm"
    BY <1>6, <2>1 DEF Built
  <2>3. packed' = W(4, "chm") \o ChmPack(mphf.data)
    BY <2>1, <2>2 DEF cmph_pack
  <2>4. Built(mphf)' /\ OrderPreserved'
    BY <1>1, <1>6, <2>1 DEF Built, OrderPreserved
  <2> QED
    BY <1>1, <1>6, <2>1, <2>3, <2>4 DEF ChmInv
<1>10. ASSUME NEW copy, NEW table, Tells(copy, table), \A i \in 1 .. m : table[i] = i - 1
       PROVE  ChmInv'
  <2>1. pc' = pc /\ mphf' = mphf /\ file' = file /\ packed' = packed
    BY <1>10 DEF Tells
  <2>2. OrderPreserved'
    BY <1>10, Told
  <2>3. pc \in {"built", "dumped", "loaded"} => Built(mphf)'
    BY <1>1, <1>6, <2>1 DEF Built
  <2> QED
    BY <1>1, <1>6, <2>1, <2>2, <2>3 DEF ChmInv
<1>11. CASE CmphSearch
  <2> DEFINE table == [i \in 1 .. m |-> cmph_search(mphf, mph.keys[i])]
  <2>1. pc \in {"built", "dumped", "loaded"} /\ \E copy : Tells(copy, table)
    BY <1>11 DEF CmphSearch, Usable, Has
  <2>2. \A i \in 1 .. m : table[i] = i - 1
    BY <1>6, <2>1, LookupsAre
  <2> QED
    BY <1>10, <2>1, <2>2
<1>12. CASE CmphSearchPacked
  <2> DEFINE table == [i \in 1 .. m |-> cmph_search_packed(packed, mph.keys[i])]
  <2>1. packed # << >> /\ Tells("packed", table)
    BY <1>12 DEF CmphSearchPacked
  <2>2. \A i \in 1 .. m : table[i] = i - 1
    BY <1>6, <2>1, LookupsAre
  <2> QED
    BY <1>10, <2>1, <2>2
<1>13. CASE Done
  BY <1>1, <1>6, <1>13 DEF ChmInv, Done, vars, cmphVars, Built, OrderPreserved
<1> QED
  BY <1>7, <1>8, <1>9, <1>11, <1>12, <1>13

-----------------------------------------------------------------------------
(* From the first state on. *)

\* A new config.
LEMMA CmphInitIs ==
    ASSUME CmphInit
    PROVE  IInv
<1> DEFINE Calls_(r) == {"algo"} \cup (IF r.c[1] = 0 THEN {} ELSE {"graphsize"})
                            \cup (IF r.b = 0 THEN {} ELSE {"b"})
                            \cup (IF r.keys_per_bin = 0 THEN {} ELSE {"keys_per_bin"})
                            \cup (IF r.memory = 0 THEN {} ELSE {"memory"})
                            \cup (IF r.mphf_fd THEN {"mphf_fd"} ELSE {})
<1>1. PICK r \in Requests :
         /\ mph = [algo |-> "chm", c |-> <<0, 1>>, b |-> 0, keys_per_bin |-> 1, memory |-> BrzMB,
                   mphf_fd |-> FALSE, keys |-> Keys(r.source)]
         /\ data = [request |-> r, calls |-> Calls_(r)]
  BY DEF CmphInit
<1>2. "algo" \in Calls_(r) /\ ("graphsize" \in Calls_(r) <=> r.c[1] # 0)
  OBVIOUS
<1>3. outer = << >> /\ file = << >> /\ packed = << >> /\ pc = "config"
      /\ \A c \in DOMAIN answers : answers[c] = Null
  BY DEF CmphInit
<1> HIDE DEF Calls_
<1> QED
  BY <1>1, <1>2, <1>3 DEF IInv, CallerInv, BucketsInv, ChmInv

\* Every step of a caller and of the library.
LEMMA CmphNextKeeps ==
    ASSUME IInv, [Next]_vars
    PROVE  IInv'
<1>1. CASE UNCHANGED vars
  <2>1. m' = m
    BY <1>1 DEF m, vars, cmphVars
  <2>2. Built(mphf)' = Built(mphf)
    BY <1>1, <2>1 DEF vars, cmphVars, Built
  <2>3. OrderPreserved' = OrderPreserved
    BY <1>1, <2>1 DEF vars, cmphVars, OrderPreserved
  <2> QED
    BY <1>1, <2>1, <2>2, <2>3 DEF IInv, CallerInv, BucketsInv, ChmInv, vars, cmphVars
<1>2. CASE Next
  <2>1. \/ ChmNew \/ ChmMap \/ ChmAssign
        \/ Elsewhere
        \/ BrzNew \/ BrzPartition \/ BrzMerge \/ BrzBucket \/ BrzFinish
        \/ cmph_config_set_algo \/ cmph_config_set_graphsize
        \/ cmph_config_set_b \/ cmph_config_set_keys_per_bin
        \/ cmph_config_set_memory_availability \/ cmph_config_set_mphf_fd \/ CmphNew
        \/ CmphDump \/ CmphLoad \/ CmphPack \/ CmphSearch \/ CmphSearchPacked \/ Done
    BY <1>2, OtherSteps DEF Next, Algorithm
  <2> QED
    BY <2>1, ChmSteps, OthersKeep, BrzSteps, ConfigSteps, NewStep, UserSteps
<1> QED
  BY <1>1, <1>2

\* chm keeps the order of the keys: a lookup in its function, as it was built, as it was
\* loaded from its file, or in its packed copy, gives the place of the key in the source.
THEOREM OrderIsPreserved == Spec => []OrderPreserved
<1>1. IInv => OrderPreserved
  <2>1. CASE pc = "config"
    BY <2>1 DEF IInv, CallerInv, OrderPreserved
  <2>2. CASE pc # "config" /\ mph.algo = "chm"
    BY <2>2 DEF IInv, ChmInv
  <2>3. CASE mph.algo # "chm"
    BY <2>3 DEF OrderPreserved
  <2> QED
    BY <2>1, <2>2, <2>3
<1> QED
  BY <1>1, CmphInitIs, CmphNextKeeps, PTL DEF Spec

-----------------------------------------------------------------------------
(* How many bytes a block of tokens has. *)

\* s is a sequence of tokens of z bytes; f: those of its first tokens.
Sized(s, z) ==
    \E T, f : /\ s \in Seq(T) /\ f \in [0 .. Len(s) -> Nat] /\ f[0] = 0
              /\ \A i \in 1 .. Len(s) : s[i].bytes \in Nat /\ f[i] = f[i - 1] + s[i].bytes
              /\ z = f[Len(s)]

\* What Sized says, in its parts.
LEMMA SizedIs ==
    ASSUME NEW s, NEW z, Sized(s, z)
    PROVE  Size(s) = z /\ z \in Nat /\ Len(s) \in Nat /\ \E T : s \in Seq(T)
<1>1. PICK T, f : /\ s \in Seq(T) /\ f \in [0 .. Len(s) -> Nat] /\ f[0] = 0
                  /\ \A i \in 1 .. Len(s) : s[i].bytes \in Nat /\ f[i] = f[i - 1] + s[i].bytes
                  /\ z = f[Len(s)]
  BY DEF Sized
<1> DEFINE n == Len(s)
           Body(g) == [i \in 0 .. Len(s) |-> IF i = 0 THEN 0
                          ELSE CHOOSE r \in {x + s[i].bytes : x \in {g[i - 1]}} : r = r]
           F == CHOOSE g : g = Body(g)
<1>2. Size(s) = F[Len(s)]
  BY DEF Size, Fold
<1>3. n \in Nat
  BY <1>1
<1>4. ASSUME NEW g PROVE Body(g) = [i \in 0 .. n |-> IF i = 0 THEN 0 ELSE g[i - 1] + s[i].bytes]
  BY OnlyOne
<1> HIDE DEF Body, F
<1>5. f = Body(f)
  <2>1. \A i \in 0 .. n : f[i] = IF i = 0 THEN 0 ELSE f[i - 1] + s[i].bytes
    BY <1>1, <1>3
  <2>2. f = [i \in 0 .. n |-> f[i]]
    BY <1>1
  <2> QED
    BY <1>4, <2>1, <2>2
<1>6. F = Body(F)
  BY <1>5 DEF F
<1>7. F[0] = 0 /\ \A i \in 1 .. n : F[i] = F[i - 1] + s[i].bytes
  BY <1>3, <1>4, <1>6
<1> DEFINE S == [i \in 0 .. n |-> {f[i]}]
<1>8. \A i \in 1 .. n : F[i - 1] \in S[i - 1] => F[i] \in S[i]
  <2> TAKE i \in 1 .. n
  <2>1. i - 1 \in 0 .. n /\ i \in 0 .. n
    BY <1>3
  <2> QED
    BY <1>1, <1>7, <2>1
<1>9. F[0] \in S[0]
  BY <1>1, <1>3, <1>7
<1>10. \A i \in 0 .. n : F[i] \in S[i]
  <2> HIDE DEF S
  <2> QED
    BY <1>3, <1>8, <1>9, RoundsKeep
<1> QED
  BY <1>1, <1>2, <1>3, <1>10

\* One token.
LEMMA SizedW ==
    ASSUME NEW b \in Nat, NEW v
    PROVE  Sized(W(b, v), b) /\ Len(W(b, v)) = 1 /\ W(b, v)[1] = [bytes |-> b, val |-> v]
<1> DEFINE t == [bytes |-> b, val |-> v]
           T == {t}
           f == [i \in 0 .. 1 |-> IF i = 0 THEN 0 ELSE b]
<1>1. W(b, v) = <<t>>
  BY DEF W
<1>2. t.bytes = b /\ t \in T
  OBVIOUS
<1> HIDE DEF t
<1> DEFINE s == <<t>>
<1>3. s \in Seq(T) /\ Len(s) = 1 /\ s[1] = t
  BY <1>2
<1> HIDE DEF T, s
<1>4. f \in [0 .. 1 -> Nat] /\ f[0] = 0 /\ f[1] = f[0] + b
  OBVIOUS
<1> HIDE DEF f
<1>5. f \in [0 .. Len(s) -> Nat] /\ f[0] = 0 /\ b = f[Len(s)]
      /\ \A i \in 1 .. Len(s) : s[i].bytes \in Nat /\ f[i] = f[i - 1] + s[i].bytes
  <2> SUFFICES ASSUME NEW i \in 1 .. Len(s) PROVE s[i].bytes \in Nat /\ f[i] = f[i - 1] + s[i].bytes
    BY <1>3, <1>4
  <2>1. i = 1
    BY <1>3
  <2> QED
    BY <1>2, <1>3, <1>4, <2>1
<1>6. Sized(s, b)
  BY <1>3, <1>5 DEF Sized
<1> QED
  BY <1>1, <1>3, <1>6 DEF s, t

\* n tokens of b bytes each.
LEMMA SizedArray ==
    ASSUME NEW b \in Nat, NEW n \in Nat, NEW cell
    PROVE  Sized(Array(b, n, cell), b * n) /\ Len(Array(b, n, cell)) = n
<1> DEFINE s == Array(b, n, cell)
           T == {s[i] : i \in 1 .. n}
           f == [i \in 0 .. n |-> b * i]
<1>1. s = [i \in 1 .. n |-> [bytes |-> b, val |-> cell[i - 1]]]
  BY DEF Array
<1>2. DOMAIN s = 1 .. n /\ \A i \in 1 .. n : s[i].bytes = b
  BY <1>1
<1>3. s = [i \in 1 .. n |-> s[i]]
  BY <1>1
<1> HIDE DEF s
<1>4. s \in Seq(T) /\ Len(s) = n
  BY <1>2, <1>3
<1> HIDE DEF T
<1>5. \A i \in 0 .. n : b * i \in Nat
  OBVIOUS
<1>6. f \in [0 .. n -> Nat]
  BY <1>5
<1>7. f[0] = 0 /\ f[n] = b * n
  OBVIOUS
<1>8. \A i \in 1 .. n : s[i].bytes \in Nat /\ f[i] = f[i - 1] + s[i].bytes
  <2> TAKE i \in 1 .. n
  <2>1. i \in 0 .. n /\ i - 1 \in 0 .. n /\ s[i].bytes = b
    BY <1>2
  <2>2. b * i = b * (i - 1) + b
    OBVIOUS
  <2> QED
    BY <2>1, <2>2
<1> HIDE DEF f
<1>9. Sized(s, b * n)
  BY <1>4, <1>6, <1>7, <1>8 DEF Sized
<1> QED
  BY <1>4, <1>9 DEF s

\* The size of two blocks, one behind the other, is the sum of their sizes.
LEMMA SizedJoin ==
    ASSUME NEW s, NEW x, Sized(s, x), NEW t, NEW y, Sized(t, y)
    PROVE  Sized(s \o t, x + y) /\ Len(s \o t) = Len(s) + Len(t)
<1>1. PICK S, f : /\ s \in Seq(S) /\ f \in [0 .. Len(s) -> Nat] /\ f[0] = 0
                  /\ \A i \in 1 .. Len(s) : s[i].bytes \in Nat /\ f[i] = f[i - 1] + s[i].bytes
                  /\ x = f[Len(s)]
  BY DEF Sized
<1>2. PICK T, g : /\ t \in Seq(T) /\ g \in [0 .. Len(t) -> Nat] /\ g[0] = 0
                  /\ \A i \in 1 .. Len(t) : t[i].bytes \in Nat /\ g[i] = g[i - 1] + t[i].bytes
                  /\ y = g[Len(t)]
  BY DEF Sized
<1> DEFINE U == S \cup T
           q == s \o t
           a == Len(s)
           b == Len(t)
           h == [i \in 0 .. a + b |-> IF i <= a THEN f[i] ELSE f[a] + g[i - a]]
<1>3. a \in Nat /\ b \in Nat
  BY <1>1, <1>2
<1>4. s \in Seq(U) /\ t \in Seq(U)
  BY <1>1, <1>2
<1> HIDE DEF U
<1>5. /\ q \in Seq(U) /\ Len(q) = a + b
      /\ \A i \in 1 .. a : q[i] = s[i]
      /\ \A i \in 1 .. b : q[a + i] = t[i]
  BY <1>4, Joined
<1> HIDE DEF q
<1>6. h \in [0 .. a + b -> Nat]
  <2> SUFFICES ASSUME NEW i \in 0 .. a + b PROVE h[i] \in Nat
    OBVIOUS
  <2>1. CASE i <= a
    BY <1>1, <1>3, <2>1
  <2>2. CASE ~ i <= a
    <3>1. i - a \in 0 .. b /\ a \in 0 .. a
      BY <1>3, <2>2
    <3>2. f[a] \in Nat /\ g[i - a] \in Nat
      BY <1>1, <1>2, <3>1
    <3> QED
      BY <2>2, <3>2
  <2> QED
    BY <2>1, <2>2
<1>7. h[0] = 0
  BY <1>1, <1>3
<1>8. \A i \in 1 .. a + b : q[i].bytes \in Nat /\ h[i] = h[i - 1] + q[i].bytes
  <2> TAKE i \in 1 .. a + b
  <2>0. i \in 0 .. a + b /\ i - 1 \in 0 .. a + b
    BY <1>3
  <2>1. CASE i <= a
    <3>1. i \in 1 .. a /\ h[i] = f[i] /\ h[i - 1] = f[i - 1]
      BY <1>3, <2>0, <2>1
    <3>2. q[i] = s[i] /\ s[i].bytes \in Nat /\ f[i] = f[i - 1] + s[i].bytes
      BY <1>1, <1>5, <3>1
    <3> HIDE DEF h
    <3> QED
      BY <3>1, <3>2
  <2>2. CASE i = a + 1
    <3>1. h[i] = f[a] + g[1] /\ h[i - 1] = f[a]
      BY <1>3, <2>0, <2>2
    <3>2. 1 \in 1 .. b /\ 1 \in 0 .. b /\ 0 \in 0 .. b
      BY <1>3, <2>2
    <3>3. g[1] = g[0] + t[1].bytes /\ g[0] = 0 /\ g[1] \in Nat
      BY <1>2, <3>2
    <3>3a. g[1 - 1] = g[0]
      OBVIOUS
    <3>4. q[i] = t[1]
      BY <1>5, <2>2, <3>2
    <3> HIDE DEF h
    <3>4a. f[a] \in Nat
      BY <1>1, <1>3
    <3>4b. t[1].bytes \in Nat
      BY <1>2, <3>2
    <3>5. g[1] = t[1].bytes
      <4>1. g[1] = g[1 - 1] + t[1].bytes
        BY <1>2, <3>2
      <4>2. 1 - 1 = 0
        OBVIOUS
      <4> QED
        BY <1>2, <3>4b, <4>1, <4>2
    <3> QED
      BY <3>1, <3>4, <3>4a, <3>4b, <3>5
  <2>3. CASE i > a + 1
    <3>1. i - a \in 1 .. b /\ i - a \in 0 .. b /\ i - 1 - a \in 0 .. b /\ (i - a) - 1 = i - 1 - a
      BY <1>3, <2>3
    <3>2. h[i] = f[a] + g[i - a] /\ h[i - 1] = f[a] + g[i - 1 - a]
      BY <1>3, <2>0, <2>3
    <3> DEFINE k == i - a
               k1 == i - 1 - a
    <3>3. g[k] = g[k1] + t[k].bytes
      BY <1>2, <3>1
    <3>4. g[k] \in Nat /\ g[k1] \in Nat /\ t[k].bytes \in Nat
      BY <1>2, <3>1
    <3>4a. f[a] \in Nat
      BY <1>1, <1>3
    <3>5. q[a + k] = t[k] /\ a + k = i
      BY <1>3, <1>5, <3>1
    <3>6. h[i] = f[a] + g[k] /\ h[i - 1] = f[a] + g[k1]
      BY <3>2
    <3> HIDE DEF h, k, k1
    <3>7. f[a] + g[k] = (f[a] + g[k1]) + t[k].bytes
      BY <3>3, <3>4, <3>4a
    <3> QED
      BY <3>4, <3>5, <3>6, <3>7
  <2> QED
    BY <1>3, <2>1, <2>2, <2>3
<1>9. h[a + b] = x + y
  <2>1. CASE b = 0
    BY <1>1, <1>2, <1>3, <2>1
  <2>2. CASE b # 0
    BY <1>1, <1>2, <1>3, <2>2
  <2> QED
    BY <2>1, <2>2
<1> HIDE DEF h
<1>10. Sized(q, x + y)
  BY <1>5, <1>6, <1>7, <1>8, <1>9 DEF Sized
<1> QED
  BY <1>5, <1>10 DEF q

\* A token is read with its width, and nothing is with another.
LEMMA ReadW ==
    ASSUME NEW b \in Nat, NEW v
    PROVE  Read(W(b, v), 1, b) = v /\ \A c : c # b => Read(W(b, v), 1, c) = Wild
<1> DEFINE s == W(b, v)
<1>1. Len(s) = 1 /\ s[1] = [bytes |-> b, val |-> v] /\ Sized(s, b)
  BY SizedW
<1>2. \E T : s \in Seq(T)
  BY <1>1, SizedIs
<1> HIDE DEF s
<1>3. 1 \in DOMAIN s /\ s[1].bytes = b /\ s[1].val = v
  BY <1>1, <1>2
<1>4. \A c : Read(s, 1, c) = IF c = b THEN v ELSE Wild
  BY <1>3 DEF Read
<1> QED
  BY <1>4 DEF s

\* q reads as s and then t, or as s and then a token.
Appended(q, s, t) ==
    /\ Len(s) \in Nat /\ Len(t) \in Nat
    /\ \A i \in 1 .. Len(s) : \A b : Read(q, i, b) = Read(s, i, b)
    /\ \A i \in 1 .. Len(t) : \A b : Read(q, Len(s) + i, b) = Read(t, i, b)
\* q is s with one token more: the new one can be read, the others still can.
WithOne(q, s, n, b, v) ==
    /\ Len(q) = n + 1 /\ Read(q, n + 1, b) = v
    /\ \A i \in 1 .. n : \A c : Read(q, i, c) = Read(s, i, c)

\* What is appended to a file does not change what it had.
LEMMA ReadJoin ==
    ASSUME NEW s, NEW x, Sized(s, x), NEW t, NEW y, Sized(t, y)
    PROVE  Appended(s \o t, s, t)
<1>1. PICK S : s \in Seq(S)
  BY SizedIs
<1>2. PICK T : t \in Seq(T)
  BY SizedIs
<1> DEFINE U == S \cup T
           q == s \o t
<1>3. s \in Seq(U) /\ t \in Seq(U)
  BY <1>1, <1>2
<1> HIDE DEF U
<1>4. /\ q \in Seq(U) /\ Len(q) = Len(s) + Len(t)
      /\ \A i \in 1 .. Len(s) : q[i] = s[i]
      /\ \A i \in 1 .. Len(t) : q[Len(s) + i] = t[i]
  BY <1>3, Joined
<1> HIDE DEF q
<1>5. /\ Len(s) \in Nat /\ Len(t) \in Nat /\ DOMAIN s = 1 .. Len(s) /\ DOMAIN t = 1 .. Len(t)
      /\ DOMAIN q = 1 .. Len(s) + Len(t)
  BY <1>3, <1>4
<1>6. ASSUME NEW i \in 1 .. Len(s), NEW b PROVE Read(q, i, b) = Read(s, i, b)
  <2>1. i \in DOMAIN q /\ i \in DOMAIN s /\ q[i] = s[i]
    BY <1>4, <1>5
  <2> QED
    BY <2>1 DEF Read
<1>7. ASSUME NEW i \in 1 .. Len(t), NEW b PROVE Read(q, Len(s) + i, b) = Read(t, i, b)
  <2> DEFINE k == Len(s) + i
  <2>1. k \in DOMAIN q /\ i \in DOMAIN t /\ q[k] = t[i]
    BY <1>4, <1>5
  <2> HIDE DEF k
  <2>2. Read(q, k, b) = Read(t, i, b)
    BY <2>1 DEF Read
  <2> QED
    BY <2>2 DEF k
<1> QED
  BY <1>5, <1>6, <1>7 DEF q, Appended

\* One more token.
LEMMA ReadNext ==
    ASSUME NEW s, NEW x, Sized(s, x), NEW b \in Nat, NEW v, NEW n, Len(s) = n
    PROVE  Sized(s \o W(b, v), x + b) /\ WithOne(s \o W(b, v), s, n, b, v)
<1>1. Sized(W(b, v), b) /\ Len(W(b, v)) = 1 /\ Read(W(b, v), 1, b) = v
  BY SizedW, ReadW
<1> DEFINE t == W(b, v)
<1> HIDE DEF t
<1>2. Sized(s \o t, x + b) /\ Len(s \o t) = n + 1
  BY <1>1, SizedJoin DEF t
<1>3. Appended(s \o t, s, t)
  BY <1>1, ReadJoin DEF t
<1>4. Len(t) = 1 /\ Read(t, 1, b) = v
  BY <1>1 DEF t
<1> DEFINE q == s \o t
<1>5. Len(q) = n + 1 /\ Appended(q, s, t)
  BY <1>2, <1>3
<1> HIDE DEF q
<1>6. 1 \in 1 .. Len(t) /\ Read(q, Len(s) + 1, b) = Read(t, 1, b)
  <2>1. 1 \in 1 .. Len(t)
    BY <1>4
  <2> QED
    BY <1>5, <2>1 DEF Appended
<1>7. WithOne(q, s, n, b, v)
  BY <1>4, <1>5, <1>6 DEF WithOne, Appended
<1> QED
  BY <1>2, <1>7 DEF q, t

\* The two tokens of a dumped hash, and the one of a packed hash.
LEMMA SizedHash ==
    ASSUME NEW s
    PROVE  /\ Sized(hash_state_dump(s), 16) /\ Len(hash_state_dump(s)) = 2
           /\ Sized(hash_state_pack(s), 4) /\ Len(hash_state_pack(s)) = 1
<1>1. Sized(W(4, 12), 4) /\ Sized(W(12, <<"jenkins", s>>), 12) /\ Len(W(4, 12)) = 1
      /\ Len(W(12, <<"jenkins", s>>)) = 1 /\ Sized(W(4, s), 4) /\ Len(W(4, s)) = 1
  <2>1. 4 \in Nat /\ 12 \in Nat
    OBVIOUS
  <2> QED
    BY <2>1, SizedW, Zenon
<1>2. Sized(W(4, 12) \o W(12, <<"jenkins", s>>), 4 + 12) /\ Len(W(4, 12) \o W(12, <<"jenkins", s>>)) = 1 + 1
  <2> DEFINE a == W(4, 12)
             b == W(12, <<"jenkins", s>>)
  <2>1. Sized(a, 4) /\ Sized(b, 12) /\ Len(a) = 1 /\ Len(b) = 1
    BY <1>1
  <2> HIDE DEF a, b
  <2>2. Sized(a \o b, 4 + 12) /\ Len(a \o b) = Len(a) + Len(b)
    BY <2>1, SizedJoin, Zenon
  <2> QED
    BY <2>1, <2>2 DEF a, b
<1> QED
  BY <1>1, <1>2 DEF hash_state_dump, hash_state_pack

\* The head of a file, which tells the algorithm.
Headed(f, a) == \A b : Read(f, 1, b) = IF b = NameBytes[a] THEN a ELSE Wild

\* The head of a file: the name and the size of a function.
LEMMA HeadIs ==
    ASSUME NEW f, f.algo \in DOMAIN NameBytes
    PROVE  LET h == cmph_dump_head(f)
           IN  (\E x : Sized(h, x)) /\ Len(h) = 2 /\ Headed(h, f.algo) /\ Read(h, 2, 4) = f.size
<1> DEFINE b == NameBytes[f.algo]
           s == W(b, f.algo)
<1>1. b \in Nat
  BY DEF NameBytes
<1>2. Sized(s, b) /\ Len(s) = 1
  BY <1>1, SizedW
<1>3. \A c : Read(s, 1, c) = IF c = b THEN f.algo ELSE Wild
  BY <1>1, ReadW
<1> DEFINE h == s \o W(4, f.size)
<1>4. h = cmph_dump_head(f)
  BY DEF cmph_dump_head
<1> HIDE DEF s
<1>5. Sized(h, b + 4) /\ WithOne(h, s, 1, 4, f.size)
  <2>1. 4 \in Nat
    OBVIOUS
  <2> QED
    BY <1>2, <2>1, ReadNext, Zenon
<1> HIDE DEF h
<1>6. Headed(h, f.algo)
  BY <1>3, <1>5 DEF Headed, WithOne
<1>7. Len(h) = 2 /\ Read(h, 2, 4) = f.size
  BY <1>5 DEF WithOne
<1> QED
  BY <1>4, <1>5, <1>6, <1>7

\* The name at the head of a file says which algorithm loads it.
LEMMA HeadedLoads ==
    ASSUME NEW f, NEW a \in DOMAIN NameBytes, Headed(f, a), Read(f, 2, 4) \in Int
    PROVE  cmph_load_head(f) = [algo |-> a, size |-> Read(f, 2, 4)] /\ cmph_load_head(f) # Null
<1> DEFINE algos == {c \in DOMAIN NameBytes : Read(f, 1, NameBytes[c]) = c}
<1>1. Wild \notin DOMAIN NameBytes
  BY StructsAssumption
<1>2. algos = {a}
  <2>1. Read(f, 1, NameBytes[a]) = a
    BY DEF Headed
  <2>2. ASSUME NEW c \in DOMAIN NameBytes, Read(f, 1, NameBytes[c]) = c PROVE c = a
    BY <1>1, <2>2 DEF Headed
  <2> QED
    BY <2>1, <2>2
<1> DEFINE h == [algo |-> a, size |-> Read(f, 2, 4)]
<1>3. cmph_load_head(f) = h
  BY <1>2 DEF cmph_load_head
<1>4. h # Null
  <2>1. h \in [algo : DOMAIN NameBytes, size : Int]
    OBVIOUS
  <2> HIDE DEF h
  <2> QED
    BY <2>1, StructsAssumption
<1> QED
  BY <1>3, <1>4

\* SizedJoin, for all blocks at once.
LEMMA Joins ==
    \A s, x, t, y : Sized(s, x) /\ Sized(t, y) => Sized(s \o t, x + y)
  BY SizedJoin, Zenon

\* A sequence of n tokens of x bytes.
Block(s, x, n) == Sized(s, x) /\ Len(s) = n

\* Bytes and tokens of two blocks add up.
LEMMA BlocksJoin ==
    \A s, x, n, t, y, k : Block(s, x, n) /\ Block(t, y, k) => Block(s \o t, x + y, n + k)
<1> SUFFICES ASSUME NEW s, NEW x, NEW n, NEW t, NEW y, NEW k, Block(s, x, n), Block(t, y, k)
             PROVE  Block(s \o t, x + y, n + k)
  BY Zenon
<1>1. Sized(s \o t, x + y) /\ Len(s \o t) = Len(s) + Len(t)
  BY SizedJoin, Zenon DEF Block
<1> QED
  BY <1>1, Zenon DEF Block

\* Token i is v, of b bytes.
Token(q, i, b, v) == i \in 1 .. Len(q) /\ Read(q, i, b) = v

\* What is written behind a token does not change it.
LEMMA TokenStays ==
    \A s, x, t, y, i, b, v : Token(s, i, b, v) /\ Sized(s, x) /\ Sized(t, y) => Token(s \o t, i, b, v)
<1> SUFFICES ASSUME NEW s, NEW x, NEW t, NEW y, NEW i, NEW b, NEW v,
                    Token(s, i, b, v), Sized(s, x), Sized(t, y)
             PROVE  Token(s \o t, i, b, v)
  BY Zenon
<1> DEFINE q == s \o t
<1>1. Appended(q, s, t) /\ Len(q) = Len(s) + Len(t)
  BY ReadJoin, SizedJoin, Zenon
<1> HIDE DEF q
<1>2. Token(q, i, b, v)
  BY <1>1 DEF Token, Appended
<1> QED
  BY <1>2 DEF q

\* The token that comes next is where the block ends.
LEMMA TokenHere ==
    \A s, x, n, b, v : Block(s, x, n) /\ b \in Nat => Token(s \o W(b, v), n + 1, b, v)
<1> SUFFICES ASSUME NEW s, NEW x, NEW n, NEW b, NEW v, Block(s, x, n), b \in Nat
             PROVE  Token(s \o W(b, v), n + 1, b, v)
  BY Zenon
<1> DEFINE q == s \o W(b, v)
<1>1. WithOne(q, s, n, b, v)
  BY ReadNext, Zenon DEF Block
<1>2. n \in Nat
  BY SizedIs DEF Block
<1> HIDE DEF q
<1>3. Token(q, n + 1, b, v)
  BY <1>1, <1>2 DEF Token, WithOne
<1> QED
  BY <1>3 DEF q

\* A file that begins with the head of a function.
Begins(q, a, size) == Headed(q, a) /\ Token(q, 2, 4, size)

\* What is written behind the head does not change it.
LEMMA BeginsStill ==
    \A s, x, t, y, a, size : Begins(s, a, size) /\ Sized(s, x) /\ Sized(t, y) => Begins(s \o t, a, size)
<1> SUFFICES ASSUME NEW s, NEW x, NEW t, NEW y, NEW a, NEW size, Begins(s, a, size), Sized(s, x), Sized(t, y)
             PROVE  Begins(s \o t, a, size)
  BY Zenon
<1> DEFINE q == s \o t
<1>1. Appended(q, s, t) /\ Token(q, 2, 4, size)
  BY ReadJoin, TokenStays, Zenon DEF Begins
<1> HIDE DEF q
<1>2. Begins(q, a, size)
  <2>1. 1 \in 1 .. Len(s)
    BY <1>1 DEF Begins, Token, Appended
  <2> QED
    BY <1>1, <2>1 DEF Begins, Headed, Appended
<1> QED
  BY <1>2 DEF q

\* cmph_dump_head writes the head.
LEMMA HeadBegins ==
    ASSUME NEW f, f.algo \in DOMAIN NameBytes
    PROVE  (\E x : Block(cmph_dump_head(f), x, 2)) /\ Begins(cmph_dump_head(f), f.algo, f.size)
<1> DEFINE h == cmph_dump_head(f)
<1>1. (\E x : Sized(h, x)) /\ Len(h) = 2 /\ Headed(h, f.algo) /\ Read(h, 2, 4) = f.size
  BY HeadIs, Zenon
<1> HIDE DEF h
<1>2. 2 \in 1 .. Len(h)
  BY <1>1
<1>3. (\E x : Block(h, x, 2)) /\ Begins(h, f.algo, f.size)
  BY <1>1, <1>2, Zenon DEF Block, Begins, Token
<1> QED
  BY <1>3 DEF h

\* Rounding up a quotient of numbers gives a number.
LEMMA CeilDivNat ==
    ASSUME NEW a \in Nat, NEW b \in Nat \ {0}
    PROVE  CeilDiv(a, b) \in Nat
<1> DEFINE x == a + b - 1
<1>1. x \in Nat
  OBVIOUS
<1> HIDE DEF x
<1>2. x \div b \in Nat
  BY <1>1
<1> QED
  BY <1>2 DEF CeilDiv, x

\* The pieces that dumps and packed blocks are made of.
LEMMA Pieces ==
    /\ \A v : Block(W(4, v), 4, 1) /\ Block(W(1, v), 1, 1) /\ Block(W(8, v), 8, 1) /\ Block(W(12, v), 12, 1)
    /\ \A s : Block(hash_state_dump(s), 16, 2) /\ Block(hash_state_pack(s), 4, 1)
    /\ \A n, cell : n \in Nat => Block(Array(4, n, cell), 4 * n, n) /\ Block(Array(1, n, cell), 1 * n, n)
                                   /\ Block(Array(8, n, cell), 8 * n, n)
<1>1. 1 \in Nat /\ 4 \in Nat /\ 8 \in Nat /\ 12 \in Nat
  OBVIOUS
<1>2. \A b \in Nat : \A v : Block(W(b, v), b, 1)
  BY SizedW, Zenon DEF Block
<1>3. \A b \in Nat : \A n \in Nat : \A cell : Block(Array(b, n, cell), b * n, n)
  BY SizedArray, Zenon DEF Block
<1>4. \A s : Block(hash_state_dump(s), 16, 2) /\ Block(hash_state_pack(s), 4, 1)
  BY SizedHash, Zenon DEF Block
<1> QED
  BY <1>1, <1>2, <1>3, <1>4, Zenon

\* A file of n tokens that begins with the head of a function.
Filed(q, n, a, size) == (\E x : Block(q, x, n)) /\ Begins(q, a, size)

\* A file with a block more still begins with its head.
LEMMA FiledMore ==
    \A s, n, a, size, t, y, k : Filed(s, n, a, size) /\ Block(t, y, k) => Filed(s \o t, n + k, a, size)
<1> SUFFICES ASSUME NEW s, NEW n, NEW a, NEW size, NEW t, NEW y, NEW k, Filed(s, n, a, size), Block(t, y, k)
             PROVE  Filed(s \o t, n + k, a, size)
  BY Zenon
<1>1. PICK x : Block(s, x, n)
  BY Zenon DEF Filed
<1>2. Block(s \o t, x + y, n + k)
  BY <1>1, BlocksJoin, Zenon
<1>3. Begins(s \o t, a, size)
  BY <1>1, BeginsStill, Zenon DEF Filed, Block
<1> QED
  BY <1>2, <1>3, Zenon DEF Filed

\* A file with a block more still has its tokens.
LEMMA FiledStays ==
    \A s, n, a, size, t, y, k, i, b, v :
        Filed(s, n, a, size) /\ Block(t, y, k) /\ Token(s, i, b, v) => Token(s \o t, i, b, v)
<1> SUFFICES ASSUME NEW s, NEW n, NEW a, NEW size, NEW t, NEW y, NEW k, NEW i, NEW b, NEW v,
                    Filed(s, n, a, size), Block(t, y, k), Token(s, i, b, v)
             PROVE  Token(s \o t, i, b, v)
  BY Zenon
<1>1. PICK x : Sized(s, x)
  BY Zenon DEF Filed, Block
<1> QED
  BY <1>1, TokenStays, Zenon DEF Block

\* The next token of a file.
LEMMA FiledNext ==
    \A s, n, a, size, b, v : Filed(s, n, a, size) /\ b \in Nat => Token(s \o W(b, v), n + 1, b, v)
  BY TokenHere, Zenon DEF Filed

\* cmph_pack puts four bytes in front of what the algorithm packs.
LEMMA SizeWithAlgo ==
    ASSUME NEW a, NEW p, NEW z, Sized(p, z)
    PROVE  Size(W(4, a) \o p) = 4 + z /\ 4 + z \in Nat
<1>1. Sized(W(4, a), 4)
  BY Pieces, Zenon DEF Block
<1> HIDE DEF W
<1> DEFINE w == W(4, a)
<1>2. Sized(w, 4)
  BY <1>1
<1> HIDE DEF w
<1>3. Sized(w \o p, 4 + z)
  BY <1>2, SizedJoin, Zenon
<1>4. Size(w \o p) = 4 + z /\ 4 + z \in Nat
  BY <1>3, SizedIs, Zenon
<1> QED
  BY <1>4 DEF w

\* bmz and bmz8 are instances: what they write with is the same.
LEMMA SameTokens ==
    /\ \A b, v : Z!W(b, v) = W(b, v) /\ B8!W(b, v) = W(b, v)
    /\ \A b, n, cell : Z!Array(b, n, cell) = Array(b, n, cell) /\ B8!Array(b, n, cell) = Array(b, n, cell)
    /\ \A s : Z!hash_state_pack(s) = hash_state_pack(s) /\ B8!hash_state_pack(s) = hash_state_pack(s)
    /\ \A s : Z!hash_state_dump(s) = hash_state_dump(s) /\ B8!hash_state_dump(s) = hash_state_dump(s)
    /\ \A f : Z!cmph_dump_head(f) = cmph_dump_head(f) /\ B8!cmph_dump_head(f) = cmph_dump_head(f)
    /\ \A f, i, b : Z!Read(f, i, b) = Read(f, i, b) /\ B8!Read(f, i, b) = Read(f, i, b)
  BY Zenon DEF Z!W, W, B8!W, Z!Array, B8!Array, Array, Z!hash_state_pack, B8!hash_state_pack, hash_state_pack,
     Z!hash_state_dump, B8!hash_state_dump, hash_state_dump, Z!cmph_dump_head, B8!cmph_dump_head, cmph_dump_head,
     Z!Read, B8!Read, Read, Z!NameBytes, B8!NameBytes, NameBytes

\* The bytes that chm packs.
LEMMA ChmPackIs_ ==
    ASSUME NEW d, d.n \in Nat
    PROVE  Sized(ChmPack(d), 4 + 4 + 4 + 4 + 4 + 4 + 4 * d.n)
<1> DEFINE a == W(4, "jenkins")
           h1 == hash_state_pack(d.hashes[1])
           h2 == hash_state_pack(d.hashes[2])
           n == W(4, d.n)
           k == W(4, d.m)
           r == Array(4, d.n, d.g)
<1>1. Sized(a, 4) /\ Sized(h1, 4) /\ Sized(h2, 4) /\ Sized(n, 4) /\ Sized(k, 4) /\ Sized(r, 4 * d.n)
  BY Pieces, Zenon DEF Block
<1>2. ChmPack(d) = a \o h1 \o a \o h2 \o n \o k \o r
  BY Zenon DEF ChmPack
<1> HIDE DEF a, h1, h2, n, k, r
<1>3. Sized(a \o h1 \o a \o h2 \o n \o k \o r, 4 + 4 + 4 + 4 + 4 + 4 + 4 * d.n)
  BY <1>1, Joins, Zenon
<1> QED
  BY <1>2, <1>3, Zenon

\* The bytes that bmz packs.
LEMMA BmzPackIs_ ==
    ASSUME NEW d, d.n \in Nat
    PROVE  Sized(Z!BmzPack(d), 4 + 4 + 4 + 4 + 4 + 4 * d.n)
<1> DEFINE a == W(4, "jenkins")
           h1 == hash_state_pack(d.hashes[1])
           h2 == hash_state_pack(d.hashes[2])
           n == W(4, d.n)
           r == Array(4, d.n, d.g)
<1>1. Sized(a, 4) /\ Sized(h1, 4) /\ Sized(h2, 4) /\ Sized(n, 4) /\ Sized(r, 4 * d.n)
  BY Pieces, Zenon DEF Block
<1>2. Z!BmzPack(d) = a \o h1 \o a \o h2 \o n \o r
  BY SameTokens, Zenon DEF Z!BmzPack, Z!BmzPackWith
<1> HIDE DEF a, h1, h2, n, r
<1>3. Sized(a \o h1 \o a \o h2 \o n \o r, 4 + 4 + 4 + 4 + 4 + 4 * d.n)
  BY <1>1, Joins, Zenon
<1> QED
  BY <1>2, <1>3, Zenon

\* The bytes that bmz8 packs.
LEMMA Bmz8PackIs_ ==
    ASSUME NEW d, d.n \in Nat
    PROVE  Sized(Bmz8Pack(d), 4 + 4 + 4 + 4 + 1 + 1 * d.n)
<1> DEFINE a == W(4, "jenkins")
           h1 == hash_state_pack(d.hashes[1])
           h2 == hash_state_pack(d.hashes[2])
           n == W(1, d.n)
           r == Array(1, d.n, d.g)
<1>1. Sized(a, 4) /\ Sized(h1, 4) /\ Sized(h2, 4) /\ Sized(n, 1) /\ Sized(r, 1 * d.n)
  BY Pieces, Zenon DEF Block
<1>2. Bmz8Pack(d) = a \o h1 \o a \o h2 \o n \o r
  BY SameTokens, Zenon DEF Bmz8Pack, B8!BmzPackWith
<1> HIDE DEF a, h1, h2, n, r
<1>3. Sized(a \o h1 \o a \o h2 \o n \o r, 4 + 4 + 4 + 4 + 1 + 1 * d.n)
  BY <1>1, Joins, Zenon
<1> QED
  BY <1>2, <1>3, Zenon

\* The bytes that fch packs.
LEMMA FchPackIs_ ==
    ASSUME NEW d, d.b \in Nat
    PROVE  Sized(FchPack(d), 4 + 4 + 4 + 4 + 4 + 4 + 8 + 8 + 4 * d.b)
<1> DEFINE a == W(4, "jenkins")
           h1 == hash_state_pack(d.h1)
           h2 == hash_state_pack(d.h2)
           k == W(4, d.m)
           b == W(4, d.b)
           p1 == W(8, d.p1)
           p2 == W(8, d.p2)
           r == Array(4, d.b, d.g)
<1>1. /\ Sized(a, 4) /\ Sized(h1, 4) /\ Sized(h2, 4) /\ Sized(k, 4) /\ Sized(b, 4)
      /\ Sized(p1, 8) /\ Sized(p2, 8) /\ Sized(r, 4 * d.b)
  BY Pieces, Zenon DEF Block
<1>2. FchPack(d) = a \o h1 \o a \o h2 \o k \o b \o p1 \o p2 \o r
  BY Zenon DEF FchPack
<1> HIDE DEF a, h1, h2, k, b, p1, p2, r
<1>3. Sized(a \o h1 \o a \o h2 \o k \o b \o p1 \o p2 \o r, 4 + 4 + 4 + 4 + 4 + 4 + 8 + 8 + 4 * d.b)
  BY <1>1, Joins, Zenon
<1> QED
  BY <1>2, <1>3, Zenon

\* The bytes that bdz packs.
LEMMA BdzPackIs_ ==
    ASSUME NEW d, CeilDiv(d.n, 4) \in Nat, d.ranktablesize \in Nat
    PROVE  Sized(BdzPack(d), 4 + 4 + 4 + 4 + 4 * d.ranktablesize + 1 + 1 * CeilDiv(d.n, 4))
<1> DEFINE a == W(4, "jenkins")
           h1 == hash_state_pack(d.hl)
           r0 == W(4, d.r)
           k == W(4, d.ranktablesize)
           t == Array(4, d.ranktablesize, d.ranktable)
           b == W(1, d.b)
           r == Array(1, CeilDiv(d.n, 4), d.g)
<1>1. /\ Sized(a, 4) /\ Sized(h1, 4) /\ Sized(r0, 4) /\ Sized(k, 4)
      /\ Sized(t, 4 * d.ranktablesize) /\ Sized(b, 1) /\ Sized(r, 1 * CeilDiv(d.n, 4))
  BY Pieces, Zenon DEF Block
<1>2. BdzPack(d) = a \o h1 \o r0 \o k \o t \o b \o r
  BY Zenon DEF BdzPack
<1> HIDE DEF a, h1, r0, k, t, b, r
<1>3. Sized(a \o h1 \o r0 \o k \o t \o b \o r, 4 + 4 + 4 + 4 + 4 * d.ranktablesize + 1 + 1 * CeilDiv(d.n, 4))
  BY <1>1, Joins, Zenon
<1> QED
  BY <1>2, <1>3, Zenon

\* The bytes that bdz_ph packs.
LEMMA BdzPhPackIs_ ==
    ASSUME NEW d, CeilDiv(d.n, 5) \in Nat
    PROVE  Sized(BdzPhPack(d), 4 + 4 + 4 + 1 * CeilDiv(d.n, 5))
<1> DEFINE a == W(4, "jenkins")
           h1 == hash_state_pack(d.hl)
           r0 == W(4, d.r)
           r == Array(1, CeilDiv(d.n, 5), d.g)
<1>1. Sized(a, 4) /\ Sized(h1, 4) /\ Sized(r0, 4) /\ Sized(r, 1 * CeilDiv(d.n, 5))
  BY Pieces, Zenon DEF Block
<1>2. BdzPhPack(d) = a \o h1 \o r0 \o r
  BY Zenon DEF BdzPhPack
<1> HIDE DEF a, h1, r0, r
<1>3. Sized(a \o h1 \o r0 \o r, 4 + 4 + 4 + 1 * CeilDiv(d.n, 5))
  BY <1>1, Joins, Zenon
<1> QED
  BY <1>2, <1>3, Zenon

\* cmph_pack fills what cmph_packed_size says: chm.
LEMMA ChmFits ==
    ASSUME NEW f, f.algo = "chm", f.data.n \in Nat
    PROVE  Size(cmph_pack(f)) = cmph_packed_size(f) /\ cmph_packed_size(f) \in Nat
<1> DEFINE d == f.data
<1> DEFINE z == 4 + 4 + 4 + 4 + 4 + 4 + 4 * d.n
<1>1. Sized(ChmPack(d), 4 + 4 + 4 + 4 + 4 + 4 + 4 * d.n)
  <2> HIDE DEF d
  <2>1. d.n \in Nat
    BY DEF d
  <2> QED
    BY <2>1, ChmPackIs_, Zenon
<1>2. cmph_pack(f) = W(4, f.algo) \o ChmPack(d)
  BY DEF cmph_pack
<1>1a. Sized(ChmPack(d), z)
  BY <1>1
<1>3. Size(W(4, f.algo) \o ChmPack(d)) = 4 + z /\ 4 + z \in Nat
  <2> HIDE DEF z, d
  <2> QED
    BY <1>1a, SizeWithAlgo, Zenon
<1>4. cmph_packed_size(f) = ChmPackedSize(d)
  BY DEF cmph_packed_size
<1>5. ChmPackedSize(d) = 4 + (4 + 4 + 4 + 4 + 4 + 4 + 4 * d.n)
  BY DEF ChmPackedSize, hash_state_packed_size
<1> QED
  BY <1>2, <1>3, <1>4, <1>5

\* The counts of a function that was dumped and loaded: chm.
LEMMA ChmReloads ==
    ASSUME NEW f, f.algo = "chm", f.size \in Int, f.data.n \in Nat
    PROVE  LET g == cmph_load(cmph_dump(f))
           IN  g.algo = f.algo /\ g.size = f.size /\ g.data.n = f.data.n
<1> DEFINE h == cmph_dump_head(f)
           w == W(4, 2)
           s1 == hash_state_dump(f.data.hashes[1])
           s2 == hash_state_dump(f.data.hashes[2])
           n == W(4, f.data.n)
           k == W(4, f.data.m)
           r == Array(4, f.data.n, f.data.g)
           ry == 4 * f.data.n
           rc == f.data.n
           q == h \o w \o s1 \o s2 \o n \o k \o r
<1>1. /\ Block(w, 4, 1)
      /\ Block(s1, 16, 2)
      /\ Block(s2, 16, 2)
      /\ Block(n, 4, 1)
      /\ Block(k, 4, 1)
      /\ Block(r, ry, rc)
  BY Pieces, Zenon
<1>2. f.algo \in DOMAIN NameBytes
  BY DEF NameBytes
<1>3. (\E x : Block(h, x, 2)) /\ Begins(h, f.algo, f.size)
  BY <1>2, HeadBegins, Zenon
<1>4. PICK x : Block(h, x, 2)
  BY <1>3
<1>5. cmph_dump(f) = q
  BY DEF cmph_dump, ChmDump
<1> DEFINE n_ == f.data.n
<1>6. n = W(4, n_)
  OBVIOUS
<1> HIDE DEF h, w, s1, s2, n, k, r, ry, rc, n_
<1>6a. Filed(h, 2, f.algo, f.size)
  BY <1>3, Zenon DEF Filed
<1>7. Filed(h \o w, 2 + 1, f.algo, f.size)
  BY <1>1, <1>6a, FiledMore, Zenon
<1>8. Filed(h \o w \o s1, 2 + 1 + 2, f.algo, f.size)
  BY <1>1, <1>7, FiledMore, Zenon
<1>9. Filed(h \o w \o s1 \o s2, 2 + 1 + 2 + 2, f.algo, f.size)
  BY <1>1, <1>8, FiledMore, Zenon
<1>10. Token(h \o w \o s1 \o s2 \o n, 2 + 1 + 2 + 2 + 1, 4, n_)
  <2>1. 4 \in Nat
    OBVIOUS
  <2> QED
    BY <1>9, <1>6, <2>1, FiledNext, Zenon
<1>11. Filed(h \o w \o s1 \o s2 \o n, 2 + 1 + 2 + 2 + 1, f.algo, f.size)
  BY <1>1, <1>9, FiledMore, Zenon
<1>12. Filed(h \o w \o s1 \o s2 \o n \o k, 2 + 1 + 2 + 2 + 1 + 1, f.algo, f.size)
  BY <1>1, <1>11, FiledMore, Zenon
<1>13. Token(h \o w \o s1 \o s2 \o n \o k, 2 + 1 + 2 + 2 + 1, 4, n_)
  BY <1>1, <1>11, <1>10, FiledStays, Zenon
<1>14. Filed(h \o w \o s1 \o s2 \o n \o k \o r, 2 + 1 + 2 + 2 + 1 + 1 + rc, f.algo, f.size)
  BY <1>1, <1>12, FiledMore, Zenon
<1>15. Token(h \o w \o s1 \o s2 \o n \o k \o r, 2 + 1 + 2 + 2 + 1, 4, n_)
  BY <1>1, <1>12, <1>13, FiledStays, Zenon
<1>16. Filed(q, 2 + 1 + 2 + 2 + 1 + 1 + rc, f.algo, f.size) /\ Token(q, 2 + 1 + 2 + 2 + 1, 4, n_)
  BY <1>14, <1>15
<1> HIDE DEF q
<1>17. Headed(q, f.algo) /\ Read(q, 2, 4) = f.size
  BY <1>16, Zenon DEF Filed, Begins, Token
<1> DEFINE l == cmph_load_head(q)
<1>18. l = [algo |-> f.algo, size |-> f.size] /\ l # Null
  BY <1>2, <1>17, HeadedLoads
<1> HIDE DEF l
<1>19. cmph_load(q) = [algo |-> l.algo, size |-> l.size, data |-> ChmLoad(q)]
  BY <1>18 DEF cmph_load, l
<1>20. ChmLoad(q).n = n_
  BY <1>16 DEF Token, ChmLoad, rc
<1> QED
  BY <1>5, <1>18, <1>19, <1>20 DEF n_

\* cmph_pack fills what cmph_packed_size says: bmz.
LEMMA BmzFits ==
    ASSUME NEW f, f.algo = "bmz", f.data.n \in Nat
    PROVE  Size(cmph_pack(f)) = cmph_packed_size(f) /\ cmph_packed_size(f) \in Nat
<1> DEFINE d == f.data
<1> DEFINE z == 4 + 4 + 4 + 4 + 4 + 4 * d.n
<1>1. Sized(Z!BmzPack(d), 4 + 4 + 4 + 4 + 4 + 4 * d.n)
  <2> HIDE DEF d
  <2>1. d.n \in Nat
    BY DEF d
  <2> QED
    BY <2>1, BmzPackIs_, Zenon
<1>2. cmph_pack(f) = W(4, f.algo) \o Z!BmzPack(d)
  BY DEF cmph_pack
<1>1a. Sized(Z!BmzPack(d), z)
  BY <1>1
<1>3. Size(W(4, f.algo) \o Z!BmzPack(d)) = 4 + z /\ 4 + z \in Nat
  <2> HIDE DEF z, d
  <2> QED
    BY <1>1a, SizeWithAlgo, Zenon
<1>4. cmph_packed_size(f) = Z!BmzPackedSize(d)
  BY DEF cmph_packed_size
<1>5. Z!BmzPackedSize(d) = 4 + (4 + 4 + 4 + 4 + 4 + 4 * d.n)
  BY DEF Z!BmzPackedSize, Z!hash_state_packed_size
<1> QED
  BY <1>2, <1>3, <1>4, <1>5

\* The counts of a function that was dumped and loaded: bmz.
LEMMA BmzReloads ==
    ASSUME NEW f, f.algo = "bmz", f.size \in Int, f.data.n \in Nat
    PROVE  LET g == cmph_load(cmph_dump(f))
           IN  g.algo = f.algo /\ g.size = f.size /\ g.data.n = f.data.n
<1> DEFINE h == cmph_dump_head(f)
           w == W(4, 2)
           s1 == hash_state_dump(f.data.hashes[1])
           s2 == hash_state_dump(f.data.hashes[2])
           n == W(4, f.data.n)
           k == W(4, f.data.m)
           r == Array(4, f.data.n, f.data.g)
           ry == 4 * f.data.n
           rc == f.data.n
           q == h \o w \o s1 \o s2 \o n \o k \o r
<1>1. /\ Block(w, 4, 1)
      /\ Block(s1, 16, 2)
      /\ Block(s2, 16, 2)
      /\ Block(n, 4, 1)
      /\ Block(k, 4, 1)
      /\ Block(r, ry, rc)
  BY Pieces, Zenon
<1>2. f.algo \in DOMAIN NameBytes
  BY DEF NameBytes
<1>3. (\E x : Block(h, x, 2)) /\ Begins(h, f.algo, f.size)
  BY <1>2, HeadBegins, Zenon
<1>4. PICK x : Block(h, x, 2)
  BY <1>3
<1>5. cmph_dump(f) = q
  BY SameTokens DEF cmph_dump, Z!BmzDump, Z!BmzDumpWith
<1> DEFINE n_ == f.data.n
<1>6. n = W(4, n_)
  OBVIOUS
<1> HIDE DEF h, w, s1, s2, n, k, r, ry, rc, n_
<1>6a. Filed(h, 2, f.algo, f.size)
  BY <1>3, Zenon DEF Filed
<1>7. Filed(h \o w, 2 + 1, f.algo, f.size)
  BY <1>1, <1>6a, FiledMore, Zenon
<1>8. Filed(h \o w \o s1, 2 + 1 + 2, f.algo, f.size)
  BY <1>1, <1>7, FiledMore, Zenon
<1>9. Filed(h \o w \o s1 \o s2, 2 + 1 + 2 + 2, f.algo, f.size)
  BY <1>1, <1>8, FiledMore, Zenon
<1>10. Token(h \o w \o s1 \o s2 \o n, 2 + 1 + 2 + 2 + 1, 4, n_)
  <2>1. 4 \in Nat
    OBVIOUS
  <2> QED
    BY <1>9, <1>6, <2>1, FiledNext, Zenon
<1>11. Filed(h \o w \o s1 \o s2 \o n, 2 + 1 + 2 + 2 + 1, f.algo, f.size)
  BY <1>1, <1>9, FiledMore, Zenon
<1>12. Filed(h \o w \o s1 \o s2 \o n \o k, 2 + 1 + 2 + 2 + 1 + 1, f.algo, f.size)
  BY <1>1, <1>11, FiledMore, Zenon
<1>13. Token(h \o w \o s1 \o s2 \o n \o k, 2 + 1 + 2 + 2 + 1, 4, n_)
  BY <1>1, <1>11, <1>10, FiledStays, Zenon
<1>14. Filed(h \o w \o s1 \o s2 \o n \o k \o r, 2 + 1 + 2 + 2 + 1 + 1 + rc, f.algo, f.size)
  BY <1>1, <1>12, FiledMore, Zenon
<1>15. Token(h \o w \o s1 \o s2 \o n \o k \o r, 2 + 1 + 2 + 2 + 1, 4, n_)
  BY <1>1, <1>12, <1>13, FiledStays, Zenon
<1>16. Filed(q, 2 + 1 + 2 + 2 + 1 + 1 + rc, f.algo, f.size) /\ Token(q, 2 + 1 + 2 + 2 + 1, 4, n_)
  BY <1>14, <1>15
<1> HIDE DEF q
<1>17. Headed(q, f.algo) /\ Read(q, 2, 4) = f.size
  BY <1>16, Zenon DEF Filed, Begins, Token
<1> DEFINE l == cmph_load_head(q)
<1>18. l = [algo |-> f.algo, size |-> f.size] /\ l # Null
  BY <1>2, <1>17, HeadedLoads
<1> HIDE DEF l
<1>19. cmph_load(q) = [algo |-> l.algo, size |-> l.size, data |-> Z!BmzLoad(q)]
  BY <1>18 DEF cmph_load, l
<1>20. Z!BmzLoad(q).n = n_
  BY SameTokens, <1>16 DEF Token, Z!BmzLoad, Z!BmzLoadWith, rc
<1> QED
  BY <1>5, <1>18, <1>19, <1>20 DEF n_

\* cmph_pack fills what cmph_packed_size says: bmz8.
LEMMA Bmz8Fits ==
    ASSUME NEW f, f.algo = "bmz8", f.data.n \in Nat
    PROVE  Size(cmph_pack(f)) = cmph_packed_size(f) /\ cmph_packed_size(f) \in Nat
<1> DEFINE d == f.data
<1> DEFINE z == 4 + 4 + 4 + 4 + 1 + 1 * d.n
<1>1. Sized(Bmz8Pack(d), 4 + 4 + 4 + 4 + 1 + 1 * d.n)
  <2> HIDE DEF d
  <2>1. d.n \in Nat
    BY DEF d
  <2> QED
    BY <2>1, Bmz8PackIs_, Zenon
<1>2. cmph_pack(f) = W(4, f.algo) \o Bmz8Pack(d)
  BY DEF cmph_pack
<1>1a. Sized(Bmz8Pack(d), z)
  BY <1>1
<1>3. Size(W(4, f.algo) \o Bmz8Pack(d)) = 4 + z /\ 4 + z \in Nat
  <2> HIDE DEF z, d
  <2> QED
    BY <1>1a, SizeWithAlgo, Zenon
<1>4. cmph_packed_size(f) = Bmz8PackedSize(d)
  BY DEF cmph_packed_size
<1>5. Bmz8PackedSize(d) = 4 + (4 + 4 + 4 + 4 + 1 + 1 * d.n)
  BY DEF Bmz8PackedSize, hash_state_packed_size
<1> QED
  BY <1>2, <1>3, <1>4, <1>5

\* The counts of a function that was dumped and loaded: bmz8.
LEMMA Bmz8Reloads ==
    ASSUME NEW f, f.algo = "bmz8", f.size \in Int, f.data.n \in Nat
    PROVE  LET g == cmph_load(cmph_dump(f))
           IN  g.algo = f.algo /\ g.size = f.size /\ g.data.n = f.data.n
<1> DEFINE h == cmph_dump_head(f)
           w == W(1, 2)
           s1 == hash_state_dump(f.data.hashes[1])
           s2 == hash_state_dump(f.data.hashes[2])
           n == W(1, f.data.n)
           k == W(1, f.data.m)
           r == Array(1, f.data.n, f.data.g)
           ry == 1 * f.data.n
           rc == f.data.n
           q == h \o w \o s1 \o s2 \o n \o k \o r
<1>1. /\ Block(w, 1, 1)
      /\ Block(s1, 16, 2)
      /\ Block(s2, 16, 2)
      /\ Block(n, 1, 1)
      /\ Block(k, 1, 1)
      /\ Block(r, ry, rc)
  BY Pieces, Zenon
<1>2. f.algo \in DOMAIN NameBytes
  BY DEF NameBytes
<1>3. (\E x : Block(h, x, 2)) /\ Begins(h, f.algo, f.size)
  BY <1>2, HeadBegins, Zenon
<1>4. PICK x : Block(h, x, 2)
  BY <1>3
<1>5. cmph_dump(f) = q
  BY SameTokens DEF cmph_dump, Bmz8Dump, B8!BmzDumpWith
<1> DEFINE n_ == f.data.n
<1>6. n = W(1, n_)
  OBVIOUS
<1> HIDE DEF h, w, s1, s2, n, k, r, ry, rc, n_
<1>6a. Filed(h, 2, f.algo, f.size)
  BY <1>3, Zenon DEF Filed
<1>7. Filed(h \o w, 2 + 1, f.algo, f.size)
  BY <1>1, <1>6a, FiledMore, Zenon
<1>8. Filed(h \o w \o s1, 2 + 1 + 2, f.algo, f.size)
  BY <1>1, <1>7, FiledMore, Zenon
<1>9. Filed(h \o w \o s1 \o s2, 2 + 1 + 2 + 2, f.algo, f.size)
  BY <1>1, <1>8, FiledMore, Zenon
<1>10. Token(h \o w \o s1 \o s2 \o n, 2 + 1 + 2 + 2 + 1, 1, n_)
  <2>1. 1 \in Nat
    OBVIOUS
  <2> QED
    BY <1>9, <1>6, <2>1, FiledNext, Zenon
<1>11. Filed(h \o w \o s1 \o s2 \o n, 2 + 1 + 2 + 2 + 1, f.algo, f.size)
  BY <1>1, <1>9, FiledMore, Zenon
<1>12. Filed(h \o w \o s1 \o s2 \o n \o k, 2 + 1 + 2 + 2 + 1 + 1, f.algo, f.size)
  BY <1>1, <1>11, FiledMore, Zenon
<1>13. Token(h \o w \o s1 \o s2 \o n \o k, 2 + 1 + 2 + 2 + 1, 1, n_)
  BY <1>1, <1>11, <1>10, FiledStays, Zenon
<1>14. Filed(h \o w \o s1 \o s2 \o n \o k \o r, 2 + 1 + 2 + 2 + 1 + 1 + rc, f.algo, f.size)
  BY <1>1, <1>12, FiledMore, Zenon
<1>15. Token(h \o w \o s1 \o s2 \o n \o k \o r, 2 + 1 + 2 + 2 + 1, 1, n_)
  BY <1>1, <1>12, <1>13, FiledStays, Zenon
<1>16. Filed(q, 2 + 1 + 2 + 2 + 1 + 1 + rc, f.algo, f.size) /\ Token(q, 2 + 1 + 2 + 2 + 1, 1, n_)
  BY <1>14, <1>15
<1> HIDE DEF q
<1>17. Headed(q, f.algo) /\ Read(q, 2, 4) = f.size
  BY <1>16, Zenon DEF Filed, Begins, Token
<1> DEFINE l == cmph_load_head(q)
<1>18. l = [algo |-> f.algo, size |-> f.size] /\ l # Null
  BY <1>2, <1>17, HeadedLoads
<1> HIDE DEF l
<1>19. cmph_load(q) = [algo |-> l.algo, size |-> l.size, data |-> Bmz8Load(q)]
  BY <1>18 DEF cmph_load, l
<1>20. Bmz8Load(q).n = n_
  BY SameTokens, <1>16 DEF Token, Bmz8Load, B8!BmzLoadWith, rc
<1> QED
  BY <1>5, <1>18, <1>19, <1>20 DEF n_

\* cmph_pack fills what cmph_packed_size says: fch.
LEMMA FchFits ==
    ASSUME NEW f, f.algo = "fch", f.data.b \in Nat
    PROVE  Size(cmph_pack(f)) = cmph_packed_size(f) /\ cmph_packed_size(f) \in Nat
<1> DEFINE d == f.data
<1> DEFINE z == 4 + 4 + 4 + 4 + 4 + 4 + 8 + 8 + 4 * d.b
<1>1. Sized(FchPack(d), 4 + 4 + 4 + 4 + 4 + 4 + 8 + 8 + 4 * d.b)
  <2> HIDE DEF d
  <2>1. d.b \in Nat
    BY DEF d
  <2> QED
    BY <2>1, FchPackIs_, Zenon
<1>2. cmph_pack(f) = W(4, f.algo) \o FchPack(d)
  BY DEF cmph_pack
<1>1a. Sized(FchPack(d), z)
  BY <1>1
<1>3. Size(W(4, f.algo) \o FchPack(d)) = 4 + z /\ 4 + z \in Nat
  <2> HIDE DEF z, d
  <2> QED
    BY <1>1a, SizeWithAlgo, Zenon
<1>4. cmph_packed_size(f) = FchPackedSize(d)
  BY DEF cmph_packed_size
<1>5. FchPackedSize(d) = 4 + (4 + 4 + 4 + 4 + 4 + 4 + 8 + 8 + 4 * d.b)
  BY DEF FchPackedSize, hash_state_packed_size
<1> QED
  BY <1>2, <1>3, <1>4, <1>5

\* The counts of a function that was dumped and loaded: fch.
LEMMA FchReloads ==
    ASSUME NEW f, f.algo = "fch", f.size \in Int, f.data.b \in Nat
    PROVE  LET g == cmph_load(cmph_dump(f))
           IN  g.algo = f.algo /\ g.size = f.size /\ g.data.b = f.data.b
<1> DEFINE h == cmph_dump_head(f)
           s1 == hash_state_dump(f.data.h1)
           s2 == hash_state_dump(f.data.h2)
           k == W(4, f.data.m)
           c == W(8, f.data.c)
           b == W(4, f.data.b)
           p1 == W(8, f.data.p1)
           p2 == W(8, f.data.p2)
           r == Array(4, f.data.b, f.data.g)
           ry == 4 * f.data.b
           rc == f.data.b
           q == h \o s1 \o s2 \o k \o c \o b \o p1 \o p2 \o r
<1>1. /\ Block(s1, 16, 2)
      /\ Block(s2, 16, 2)
      /\ Block(k, 4, 1)
      /\ Block(c, 8, 1)
      /\ Block(b, 4, 1)
      /\ Block(p1, 8, 1)
      /\ Block(p2, 8, 1)
      /\ Block(r, ry, rc)
  BY Pieces, Zenon
<1>2. f.algo \in DOMAIN NameBytes
  BY DEF NameBytes
<1>3. (\E x : Block(h, x, 2)) /\ Begins(h, f.algo, f.size)
  BY <1>2, HeadBegins, Zenon
<1>4. PICK x : Block(h, x, 2)
  BY <1>3
<1>5. cmph_dump(f) = q
  BY DEF cmph_dump, FchDump
<1> DEFINE b_ == f.data.b
<1>6. b = W(4, b_)
  OBVIOUS
<1> HIDE DEF h, s1, s2, k, c, b, p1, p2, r, ry, rc, b_
<1>6a. Filed(h, 2, f.algo, f.size)
  BY <1>3, Zenon DEF Filed
<1>7. Filed(h \o s1, 2 + 2, f.algo, f.size)
  BY <1>1, <1>6a, FiledMore, Zenon
<1>8. Filed(h \o s1 \o s2, 2 + 2 + 2, f.algo, f.size)
  BY <1>1, <1>7, FiledMore, Zenon
<1>9. Filed(h \o s1 \o s2 \o k, 2 + 2 + 2 + 1, f.algo, f.size)
  BY <1>1, <1>8, FiledMore, Zenon
<1>10. Filed(h \o s1 \o s2 \o k \o c, 2 + 2 + 2 + 1 + 1, f.algo, f.size)
  BY <1>1, <1>9, FiledMore, Zenon
<1>11. Token(h \o s1 \o s2 \o k \o c \o b, 2 + 2 + 2 + 1 + 1 + 1, 4, b_)
  <2>1. 4 \in Nat
    OBVIOUS
  <2> QED
    BY <1>10, <1>6, <2>1, FiledNext, Zenon
<1>12. Filed(h \o s1 \o s2 \o k \o c \o b, 2 + 2 + 2 + 1 + 1 + 1, f.algo, f.size)
  BY <1>1, <1>10, FiledMore, Zenon
<1>13. Filed(h \o s1 \o s2 \o k \o c \o b \o p1, 2 + 2 + 2 + 1 + 1 + 1 + 1, f.algo, f.size)
  BY <1>1, <1>12, FiledMore, Zenon
<1>14. Token(h \o s1 \o s2 \o k \o c \o b \o p1, 2 + 2 + 2 + 1 + 1 + 1, 4, b_)
  BY <1>1, <1>12, <1>11, FiledStays, Zenon
<1>15. Filed(h \o s1 \o s2 \o k \o c \o b \o p1 \o p2, 2 + 2 + 2 + 1 + 1 + 1 + 1 + 1, f.algo, f.size)
  BY <1>1, <1>13, FiledMore, Zenon
<1>16. Token(h \o s1 \o s2 \o k \o c \o b \o p1 \o p2, 2 + 2 + 2 + 1 + 1 + 1, 4, b_)
  BY <1>1, <1>13, <1>14, FiledStays, Zenon
<1>17. Filed(h \o s1 \o s2 \o k \o c \o b \o p1 \o p2 \o r, 2 + 2 + 2 + 1 + 1 + 1 + 1 + 1 + rc, f.algo, f.size)
  BY <1>1, <1>15, FiledMore, Zenon
<1>18. Token(h \o s1 \o s2 \o k \o c \o b \o p1 \o p2 \o r, 2 + 2 + 2 + 1 + 1 + 1, 4, b_)
  BY <1>1, <1>15, <1>16, FiledStays, Zenon
<1>19. Filed(q, 2 + 2 + 2 + 1 + 1 + 1 + 1 + 1 + rc, f.algo, f.size) /\ Token(q, 2 + 2 + 2 + 1 + 1 + 1, 4, b_)
  BY <1>17, <1>18
<1> HIDE DEF q
<1>20. Headed(q, f.algo) /\ Read(q, 2, 4) = f.size
  BY <1>19, Zenon DEF Filed, Begins, Token
<1> DEFINE l == cmph_load_head(q)
<1>21. l = [algo |-> f.algo, size |-> f.size] /\ l # Null
  BY <1>2, <1>20, HeadedLoads
<1> HIDE DEF l
<1>22. cmph_load(q) = [algo |-> l.algo, size |-> l.size, data |-> FchLoad(q)]
  BY <1>21 DEF cmph_load, l
<1>23. FchLoad(q).b = b_
  BY <1>19 DEF Token, FchLoad, rc
<1> QED
  BY <1>5, <1>21, <1>22, <1>23 DEF b_

\* cmph_pack fills what cmph_packed_size says: bdz.
LEMMA BdzFits ==
    ASSUME NEW f, f.algo = "bdz", f.data.n \in Nat, f.data.ranktablesize \in Nat
    PROVE  Size(cmph_pack(f)) = cmph_packed_size(f) /\ cmph_packed_size(f) \in Nat
<1> DEFINE d == f.data
<1>0. CeilDiv(f.data.n, 4) \in Nat
  BY CeilDivNat
<1> DEFINE z == 4 + 4 + 4 + 4 + 4 * d.ranktablesize + 1 + 1 * CeilDiv(d.n, 4)
<1>1. Sized(BdzPack(d), 4 + 4 + 4 + 4 + 4 * d.ranktablesize + 1 + 1 * CeilDiv(d.n, 4))
  <2> HIDE DEF d
  <2>1. CeilDiv(d.n, 4) \in Nat /\ d.ranktablesize \in Nat
    BY <1>0 DEF d
  <2> QED
    BY <2>1, BdzPackIs_, Zenon
<1>2. cmph_pack(f) = W(4, f.algo) \o BdzPack(d)
  BY DEF cmph_pack
<1>1a. Sized(BdzPack(d), z)
  BY <1>1
<1>3. Size(W(4, f.algo) \o BdzPack(d)) = 4 + z /\ 4 + z \in Nat
  <2> HIDE DEF z, d
  <2> QED
    BY <1>1a, SizeWithAlgo, Zenon
<1>4. cmph_packed_size(f) = BdzPackedSize(d)
  BY DEF cmph_packed_size
<1>5. BdzPackedSize(d) = 4 + (4 + 4 + 4 + 4 + 4 * d.ranktablesize + 1 + 1 * CeilDiv(d.n, 4))
  BY <1>0 DEF BdzPackedSize, hash_state_packed_size
<1> QED
  BY <1>2, <1>3, <1>4, <1>5

\* The counts of a function that was dumped and loaded: bdz.
LEMMA BdzReloads ==
    ASSUME NEW f, f.algo = "bdz", f.size \in Int, f.data.n \in Nat, f.data.ranktablesize \in Nat
    PROVE  LET g == cmph_load(cmph_dump(f))
           IN  g.algo = f.algo /\ g.size = f.size /\ g.data.n = f.data.n /\ g.data.ranktablesize = f.data.ranktablesize
<1> DEFINE h == cmph_dump_head(f)
           s1 == hash_state_dump(f.data.hl)
           n == W(4, f.data.n)
           k == W(4, f.data.m)
           r == W(4, f.data.r)
           g == Array(1, CeilDiv(f.data.n, 4), f.data.g)
           kk == W(4, f.data.k)
           b == W(1, f.data.b)
           z == W(4, f.data.ranktablesize)
           t == Array(4, f.data.ranktablesize, f.data.ranktable)
           gy == 1 * CeilDiv(f.data.n, 4)
           gc == CeilDiv(f.data.n, 4)
           ty == 4 * f.data.ranktablesize
           tc == f.data.ranktablesize
           q == h \o s1 \o n \o k \o r \o g \o kk \o b \o z \o t
<1>0. CeilDiv(f.data.n, 4) \in Nat
  BY CeilDivNat
<1>1. /\ Block(s1, 16, 2)
      /\ Block(n, 4, 1)
      /\ Block(k, 4, 1)
      /\ Block(r, 4, 1)
      /\ Block(g, gy, gc)
      /\ Block(kk, 4, 1)
      /\ Block(b, 1, 1)
      /\ Block(z, 4, 1)
      /\ Block(t, ty, tc)
  BY <1>0, Pieces, Zenon
<1>2. f.algo \in DOMAIN NameBytes
  BY DEF NameBytes
<1>3. (\E x : Block(h, x, 2)) /\ Begins(h, f.algo, f.size)
  BY <1>2, HeadBegins, Zenon
<1>4. PICK x : Block(h, x, 2)
  BY <1>3
<1>5. cmph_dump(f) = q
  BY DEF cmph_dump, BdzDump
<1> DEFINE n_ == f.data.n
<1> DEFINE ranktablesize_ == f.data.ranktablesize
<1>6. n = W(4, n_) /\ z = W(4, ranktablesize_)
  OBVIOUS
<1> HIDE DEF h, s1, n, k, r, g, kk, b, z, t, gy, gc, ty, tc, n_, ranktablesize_
<1>6a. Filed(h, 2, f.algo, f.size)
  BY <1>3, Zenon DEF Filed
<1>7. Filed(h \o s1, 2 + 2, f.algo, f.size)
  BY <1>1, <1>6a, FiledMore, Zenon
<1>8. Token(h \o s1 \o n, 2 + 2 + 1, 4, n_)
  <2>1. 4 \in Nat
    OBVIOUS
  <2> QED
    BY <1>7, <1>6, <2>1, FiledNext, Zenon
<1>9. Filed(h \o s1 \o n, 2 + 2 + 1, f.algo, f.size)
  BY <1>1, <1>7, FiledMore, Zenon
<1>10. Filed(h \o s1 \o n \o k, 2 + 2 + 1 + 1, f.algo, f.size)
  BY <1>1, <1>9, FiledMore, Zenon
<1>11. Token(h \o s1 \o n \o k, 2 + 2 + 1, 4, n_)
  BY <1>1, <1>9, <1>8, FiledStays, Zenon
<1>12. Filed(h \o s1 \o n \o k \o r, 2 + 2 + 1 + 1 + 1, f.algo, f.size)
  BY <1>1, <1>10, FiledMore, Zenon
<1>13. Token(h \o s1 \o n \o k \o r, 2 + 2 + 1, 4, n_)
  BY <1>1, <1>10, <1>11, FiledStays, Zenon
<1>14. Filed(h \o s1 \o n \o k \o r \o g, 2 + 2 + 1 + 1 + 1 + gc, f.algo, f.size)
  BY <1>1, <1>12, FiledMore, Zenon
<1>15. Token(h \o s1 \o n \o k \o r \o g, 2 + 2 + 1, 4, n_)
  BY <1>1, <1>12, <1>13, FiledStays, Zenon
<1>16. Filed(h \o s1 \o n \o k \o r \o g \o kk, 2 + 2 + 1 + 1 + 1 + gc + 1, f.algo, f.size)
  BY <1>1, <1>14, FiledMore, Zenon
<1>17. Token(h \o s1 \o n \o k \o r \o g \o kk, 2 + 2 + 1, 4, n_)
  BY <1>1, <1>14, <1>15, FiledStays, Zenon
<1>18. Filed(h \o s1 \o n \o k \o r \o g \o kk \o b, 2 + 2 + 1 + 1 + 1 + gc + 1 + 1, f.algo, f.size)
  BY <1>1, <1>16, FiledMore, Zenon
<1>19. Token(h \o s1 \o n \o k \o r \o g \o kk \o b, 2 + 2 + 1, 4, n_)
  BY <1>1, <1>16, <1>17, FiledStays, Zenon
<1>20. Token(h \o s1 \o n \o k \o r \o g \o kk \o b \o z, 2 + 2 + 1 + 1 + 1 + gc + 1 + 1 + 1, 4, ranktablesize_)
  <2>1. 4 \in Nat
    OBVIOUS
  <2> QED
    BY <1>18, <1>6, <2>1, FiledNext, Zenon
<1>21. Filed(h \o s1 \o n \o k \o r \o g \o kk \o b \o z, 2 + 2 + 1 + 1 + 1 + gc + 1 + 1 + 1, f.algo, f.size)
  BY <1>1, <1>18, FiledMore, Zenon
<1>22. Token(h \o s1 \o n \o k \o r \o g \o kk \o b \o z, 2 + 2 + 1, 4, n_)
  BY <1>1, <1>18, <1>19, FiledStays, Zenon
<1>23. Filed(h \o s1 \o n \o k \o r \o g \o kk \o b \o z \o t, 2 + 2 + 1 + 1 + 1 + gc + 1 + 1 + 1 + tc, f.algo, f.size)
  BY <1>1, <1>21, FiledMore, Zenon
<1>24. Token(h \o s1 \o n \o k \o r \o g \o kk \o b \o z \o t, 2 + 2 + 1, 4, n_)
  BY <1>1, <1>21, <1>22, FiledStays, Zenon
<1>25. Token(h \o s1 \o n \o k \o r \o g \o kk \o b \o z \o t, 2 + 2 + 1 + 1 + 1 + gc + 1 + 1 + 1, 4, ranktablesize_)
  BY <1>1, <1>21, <1>20, FiledStays, Zenon
<1>26. /\ Filed(q, 2 + 2 + 1 + 1 + 1 + gc + 1 + 1 + 1 + tc, f.algo, f.size)
       /\ Token(q, 2 + 2 + 1, 4, n_) /\ Token(q, 2 + 2 + 1 + 1 + 1 + gc + 1 + 1 + 1, 4, ranktablesize_)
  BY <1>23, <1>24, <1>25
<1> HIDE DEF q
<1>27. Headed(q, f.algo) /\ Read(q, 2, 4) = f.size
  BY <1>26, Zenon DEF Filed, Begins, Token
<1> DEFINE l == cmph_load_head(q)
<1>28. l = [algo |-> f.algo, size |-> f.size] /\ l # Null
  BY <1>2, <1>27, HeadedLoads
<1> HIDE DEF l
<1>29. cmph_load(q) = [algo |-> l.algo, size |-> l.size, data |-> BdzLoad(q)]
  BY <1>28 DEF cmph_load, l
<1>30. BdzLoad(q).n = n_
  BY <1>0, <1>26 DEF Token, BdzLoad, gc, tc
<1>30a. Read(q, 5, 4) = n_ /\ gc = CeilDiv(n_, 4) /\ gc \in Nat
  BY <1>0, <1>26 DEF Token, n_, gc
<1>30b. Read(q, 8 + gc + 2, 4) = ranktablesize_
  <2>1. 2 + 2 + 1 + 1 + 1 + gc + 1 + 1 + 1 = 8 + gc + 2
    BY <1>30a
  <2> QED
    BY <1>26, <2>1, Zenon DEF Token
<1>31. BdzLoad(q).ranktablesize = ranktablesize_
  BY <1>30a, <1>30b DEF BdzLoad
<1> QED
  BY <1>5, <1>28, <1>29, <1>30, <1>31 DEF n_, ranktablesize_

\* cmph_pack fills what cmph_packed_size says: bdz_ph.
LEMMA BdzPhFits ==
    ASSUME NEW f, f.algo = "bdz_ph", f.data.n \in Nat
    PROVE  Size(cmph_pack(f)) = cmph_packed_size(f) /\ cmph_packed_size(f) \in Nat
<1> DEFINE d == f.data
<1>0. CeilDiv(f.data.n, 5) \in Nat
  BY CeilDivNat
<1> DEFINE z == 4 + 4 + 4 + 1 * CeilDiv(d.n, 5)
<1>1. Sized(BdzPhPack(d), 4 + 4 + 4 + 1 * CeilDiv(d.n, 5))
  <2> HIDE DEF d
  <2>1. CeilDiv(d.n, 5) \in Nat
    BY <1>0 DEF d
  <2> QED
    BY <2>1, BdzPhPackIs_, Zenon
<1>2. cmph_pack(f) = W(4, f.algo) \o BdzPhPack(d)
  BY DEF cmph_pack
<1>1a. Sized(BdzPhPack(d), z)
  BY <1>1
<1>3. Size(W(4, f.algo) \o BdzPhPack(d)) = 4 + z /\ 4 + z \in Nat
  <2> HIDE DEF z, d
  <2> QED
    BY <1>1a, SizeWithAlgo, Zenon
<1>4. cmph_packed_size(f) = BdzPhPackedSize(d)
  BY DEF cmph_packed_size
<1>5. BdzPhPackedSize(d) = 4 + (4 + 4 + 4 + 1 * CeilDiv(d.n, 5))
  BY <1>0 DEF BdzPhPackedSize, hash_state_packed_size
<1> QED
  BY <1>2, <1>3, <1>4, <1>5

\* The counts of a function that was dumped and loaded: bdz_ph.
LEMMA BdzPhReloads ==
    ASSUME NEW f, f.algo = "bdz_ph", f.size \in Int, f.data.n \in Nat
    PROVE  LET g == cmph_load(cmph_dump(f))
           IN  g.algo = f.algo /\ g.size = f.size /\ g.data.n = f.data.n
<1> DEFINE h == cmph_dump_head(f)
           s1 == hash_state_dump(f.data.hl)
           n == W(4, f.data.n)
           k == W(4, f.data.m)
           r == W(4, f.data.r)
           g == Array(1, CeilDiv(f.data.n, 5), f.data.g)
           gy == 1 * CeilDiv(f.data.n, 5)
           gc == CeilDiv(f.data.n, 5)
           q == h \o s1 \o n \o k \o r \o g
<1>0. CeilDiv(f.data.n, 5) \in Nat
  BY CeilDivNat
<1>1. /\ Block(s1, 16, 2)
      /\ Block(n, 4, 1)
      /\ Block(k, 4, 1)
      /\ Block(r, 4, 1)
      /\ Block(g, gy, gc)
  BY <1>0, Pieces, Zenon
<1>2. f.algo \in DOMAIN NameBytes
  BY DEF NameBytes
<1>3. (\E x : Block(h, x, 2)) /\ Begins(h, f.algo, f.size)
  BY <1>2, HeadBegins, Zenon
<1>4. PICK x : Block(h, x, 2)
  BY <1>3
<1>5. cmph_dump(f) = q
  BY DEF cmph_dump, BdzPhDump
<1> DEFINE n_ == f.data.n
<1>6. n = W(4, n_)
  OBVIOUS
<1> HIDE DEF h, s1, n, k, r, g, gy, gc, n_
<1>6a. Filed(h, 2, f.algo, f.size)
  BY <1>3, Zenon DEF Filed
<1>7. Filed(h \o s1, 2 + 2, f.algo, f.size)
  BY <1>1, <1>6a, FiledMore, Zenon
<1>8. Token(h \o s1 \o n, 2 + 2 + 1, 4, n_)
  <2>1. 4 \in Nat
    OBVIOUS
  <2> QED
    BY <1>7, <1>6, <2>1, FiledNext, Zenon
<1>9. Filed(h \o s1 \o n, 2 + 2 + 1, f.algo, f.size)
  BY <1>1, <1>7, FiledMore, Zenon
<1>10. Filed(h \o s1 \o n \o k, 2 + 2 + 1 + 1, f.algo, f.size)
  BY <1>1, <1>9, FiledMore, Zenon
<1>11. Token(h \o s1 \o n \o k, 2 + 2 + 1, 4, n_)
  BY <1>1, <1>9, <1>8, FiledStays, Zenon
<1>12. Filed(h \o s1 \o n \o k \o r, 2 + 2 + 1 + 1 + 1, f.algo, f.size)
  BY <1>1, <1>10, FiledMore, Zenon
<1>13. Token(h \o s1 \o n \o k \o r, 2 + 2 + 1, 4, n_)
  BY <1>1, <1>10, <1>11, FiledStays, Zenon
<1>14. Filed(h \o s1 \o n \o k \o r \o g, 2 + 2 + 1 + 1 + 1 + gc, f.algo, f.size)
  BY <1>1, <1>12, FiledMore, Zenon
<1>15. Token(h \o s1 \o n \o k \o r \o g, 2 + 2 + 1, 4, n_)
  BY <1>1, <1>12, <1>13, FiledStays, Zenon
<1>16. Filed(q, 2 + 2 + 1 + 1 + 1 + gc, f.algo, f.size) /\ Token(q, 2 + 2 + 1, 4, n_)
  BY <1>14, <1>15
<1> HIDE DEF q
<1>17. Headed(q, f.algo) /\ Read(q, 2, 4) = f.size
  BY <1>16, Zenon DEF Filed, Begins, Token
<1> DEFINE l == cmph_load_head(q)
<1>18. l = [algo |-> f.algo, size |-> f.size] /\ l # Null
  BY <1>2, <1>17, HeadedLoads
<1> HIDE DEF l
<1>19. cmph_load(q) = [algo |-> l.algo, size |-> l.size, data |-> BdzPhLoad(q)]
  BY <1>18 DEF cmph_load, l
<1>20. BdzPhLoad(q).n = n_
  BY <1>0, <1>16 DEF Token, BdzPhLoad, gc
<1> QED
  BY <1>5, <1>18, <1>19, <1>20 DEF n_

\* A quotient without a rest.
LEMMA DivTimes ==
    ASSUME NEW a \in Nat, NEW b \in Nat \ {0}
    PROVE  (a * b) \div b = a
<1> DEFINE x == a * b
           q == x \div b
           r == x % b
<1>1. x \in Nat /\ x = b * a
  OBVIOUS
<1> HIDE DEF x
<1>2. q \in Int /\ r \in 0 .. b - 1 /\ x = b * q + r
  BY <1>1
<1> HIDE DEF q, r
<1>3. b * (a - q) = r
  BY <1>1, <1>2
<1>4. ASSUME a - q >= 1 PROVE FALSE
  <2>1. b * (a - q) >= b
    BY <1>2, <1>4
  <2> QED
    BY <1>2, <1>3, <2>1
<1>5. ASSUME a - q <= -1 PROVE FALSE
  <2>1. b * (a - q) <= -b
    BY <1>2, <1>5
  <2> QED
    BY <1>2, <1>3, <2>1
<1>6. a = q
  BY <1>2, <1>4, <1>5
<1> QED
  BY <1>6 DEF q, x

\* A word has a bit at least.
LEMMA WordIs == Word \in Nat \ {0}
  BY StructsAssumption

\* n tokens of four bytes.
Words(s, n) == Block(s, 4 * n, n) /\ Fours(s, n)

\* Blocks of words make a block of words.
LEMMA WordsJoin ==
    \A s, n, t, k : Words(s, n) /\ Words(t, k) => Words(s \o t, n + k)
<1> SUFFICES ASSUME NEW s, NEW n, NEW t, NEW k, Words(s, n), Words(t, k)
             PROVE  Words(s \o t, n + k)
  BY Zenon
<1>1. n \in Nat /\ k \in Nat /\ Len(s) = n /\ Len(t) = k
  BY SizedIs DEF Words, Block
<1>2. Block(s \o t, 4 * n + 4 * k, n + k)
  BY BlocksJoin, Zenon DEF Words
<1>3. 4 * n + 4 * k = 4 * (n + k)
  BY <1>1
<1>4. PICK S : s \in Seq(S)
  BY SizedIs DEF Words, Block
<1>5. PICK T : t \in Seq(T)
  BY SizedIs DEF Words, Block
<1> DEFINE U == S \cup T
           q == s \o t
<1>6. s \in Seq(U) /\ t \in Seq(U)
  BY <1>4, <1>5
<1> HIDE DEF U
<1>7a. /\ Len(q) = Len(s) + Len(t)
       /\ \A i \in 1 .. Len(s) : q[i] = s[i]
       /\ \A i \in 1 .. Len(t) : q[Len(s) + i] = t[i]
  BY <1>6, Joined
<1> HIDE DEF q
<1>7. /\ Len(q) = n + k
      /\ \A i \in 1 .. n : q[i] = s[i]
      /\ \A i \in 1 .. k : q[n + i] = t[i]
  BY <1>1, <1>7a
<1>8. ASSUME NEW i \in 1 .. n + k PROVE q[i].bytes = 4
  <2>1. CASE i \in 1 .. n
    BY <1>7, <2>1 DEF Words, Fours
  <2>2. CASE i \notin 1 .. n
    <3> DEFINE j == i - n
    <3>1. j \in 1 .. k /\ i = n + j
      BY <1>1, <2>2
    <3> HIDE DEF j
    <3> QED
      BY <1>7, <3>1 DEF Words, Fours
  <2> QED
    BY <2>1, <2>2
<1>9. Fours(q, n + k)
  BY <1>7, <1>8 DEF Fours
<1> QED
  BY <1>2, <1>3, <1>9 DEF Words, q

\* One word, and an array of words.
LEMMA WordsOne ==
    /\ \A v : Words(W(4, v), 1)
    /\ \A n, cell : n \in Nat => Words(Array(4, n, cell), n)
<1>1. ASSUME NEW v PROVE Words(W(4, v), 1)
  <2>1. Block(W(4, v), 4, 1)
    BY Pieces, Zenon
  <2>2. 4 = 4 * 1 /\ 4 \in Nat
    OBVIOUS
  <2>3. W(4, v)[1].bytes = 4
    BY DEF W
  <2>4. Fours(W(4, v), 1)
    BY <2>1, <2>3 DEF Fours, Block
  <2> QED
    BY <2>1, <2>2, <2>4 DEF Words
<1>2. ASSUME NEW n, NEW cell, n \in Nat PROVE Words(Array(4, n, cell), n)
  <2>1. Block(Array(4, n, cell), 4 * n, n)
    BY <1>2, Pieces, Zenon
  <2>2. \A i \in 1 .. n : Array(4, n, cell)[i].bytes = 4
    BY DEF Array
  <2>3. Fours(Array(4, n, cell), n)
    BY <2>1, <2>2 DEF Fours, Block
  <2> QED
    BY <2>1, <2>3 DEF Words
<1> QED
  BY <1>1, <1>2

\* Behind n tokens of four bytes.
LEMMA TokenShifts ==
    \A s, x, n, t, y, i, b, v : Block(s, x, n) /\ Sized(t, y) /\ Token(t, i, b, v) => Token(s \o t, n + i, b, v)
<1> SUFFICES ASSUME NEW s, NEW x, NEW n, NEW t, NEW y, NEW i, NEW b, NEW v, Block(s, x, n), Sized(t, y), Token(t, i, b, v)
             PROVE  Token(s \o t, n + i, b, v)
  BY Zenon
<1> DEFINE q == s \o t
<1>1. Appended(q, s, t) /\ Len(q) = Len(s) + Len(t) /\ Len(s) = n
  BY ReadJoin, SizedJoin, Zenon DEF Block
<1> HIDE DEF q
<1>2. Token(q, n + i, b, v)
  BY <1>1 DEF Token, Appended
<1> QED
  BY <1>2 DEF q

\* A word of such a block is found at four times its index.
LEMMA WordAt ==
    ASSUME NEW q, NEW n, Words(q, n), NEW i \in Nat, NEW v, Token(q, i + 1, 4, v)
    PROVE  At(q, 4 * i, 4) = v
<1>1. n \in Nat /\ Len(q) = n /\ Fours(q, n)
  BY SizedIs DEF Words, Block
<1>2. i \in 0 .. n - 1
  BY <1>1 DEF Token
<1>3. At(q, 4 * i, 4) = q[i + 1].val
  BY <1>1, <1>2, AtIs
<1>4. PICK T : q \in Seq(T)
  BY SizedIs DEF Words, Block
<1>5. i + 1 \in DOMAIN q /\ q[i + 1].bytes = 4
  BY <1>1, <1>2, <1>4 DEF Fours
<1>6. Read(q, i + 1, 4) = q[i + 1].val
  BY <1>5 DEF Read
<1> QED
  BY <1>3, <1>6 DEF Token

-----------------------------------------------------------------------------
(* Blocks of words: select and the compressed sequence. *)

\* A string of bits that fills w words.
IsTable(t, w) == w \in Nat /\ DOMAIN t = 0 .. w * Word - 1

\* A table of bits takes as many words as it has.
LEMMA TableWords ==
    ASSUME NEW t, NEW w, IsTable(t, w)
    PROVE  Words(TableTokens(t), w)
<1>1. w \in Nat /\ Word \in Nat \ {0}
  BY WordIs DEF IsTable
<1> DEFINE x == w * Word
           k == Cardinality(DOMAIN t) \div Word
           cell == [y \in 0 .. Cardinality(DOMAIN t) \div Word - 1 |-> [i \in 0 .. Word - 1 |-> t[y * Word + i]]]
<1>2. x \in Nat
  BY <1>1
<1>3. x \div Word = w
  BY <1>1, DivTimes
<1> HIDE DEF x
<1>4. Cardinality(0 .. x - 1) = x
  <2>1. 0 \in Int /\ x - 1 \in Int
    BY <1>2
  <2>2. Cardinality(0 .. x - 1) = IF 0 > x - 1 THEN 0 ELSE (x - 1) - 0 + 1
    BY <2>1, FS_Interval
  <2> QED
    BY <1>2, <2>2
<1>5. k = w
  BY <1>3, <1>4 DEF IsTable, x
<1>6. TableTokens(t) = Array(4, k, cell)
  BY DEF TableTokens
<1> HIDE DEF k, cell
<1> QED
  BY <1>1, <1>5, <1>6, WordsOne

\* What select_packed_size goes by.
SelCounts(sel) ==
    sel.n \in Nat /\ sel.m \in Nat /\ IsTable(sel.bits_vec, CeilDiv(sel.n + sel.m, Word))
\* The words of select: two counts, the bits, and an entry of the index for every SelectStep ones.
SelWords(sel) == 1 + 1 + CeilDiv(sel.n + sel.m, Word) + ((sel.n \div SelectStep) + 1)

\* A word stays where it is when words are written behind it.
LEMMA WordsToken ==
    \A s, n, t, k, i, v : Words(s, n) /\ Words(t, k) /\ Token(s, i, 4, v) => Token(s \o t, i, 4, v)
  BY TokenStays, Zenon DEF Words, Block

\* A word moves by as many words as are written in front of it.
LEMMA WordsShift ==
    \A s, n, t, k, i, v : Words(s, n) /\ Words(t, k) /\ Token(t, i, 4, v) => Token(s \o t, n + i, 4, v)
  BY TokenShifts, Zenon DEF Words, Block

\* A block of one word.
LEMMA OneToken == \A v : Token(W(4, v), 1, 4, v)
<1> TAKE v
<1>1. 4 \in Nat
  OBVIOUS
<1>2. Len(W(4, v)) = 1 /\ Read(W(4, v), 1, 4) = v
  BY <1>1, SizedW, ReadW, Zenon
<1> QED
  BY <1>2 DEF Token

\* select_dump writes select_packed_size bytes, with both counts in front.
LEMMA SelectWords ==
    ASSUME NEW sel, SelCounts(sel)
    PROVE  /\ Words(select_dump(sel), SelWords(sel)) /\ select_packed_size(sel) = 4 * SelWords(sel)
           /\ SelWords(sel) \in Nat
           /\ Token(select_dump(sel), 1, 4, sel.n) /\ Token(select_dump(sel), 2, 4, sel.m)
<1> DEFINE x == CeilDiv(sel.n + sel.m, Word)
           y == (sel.n \div SelectStep) + 1
           n_ == sel.n
           m_ == sel.m
           n == W(4, n_)
           k == W(4, m_)
           t == TableTokens(sel.bits_vec)
           r == Array(4, y, sel.select_table)
<1>1. x \in Nat /\ y \in Nat
  <2>1. sel.n \in Nat /\ x \in Nat
    BY DEF SelCounts, IsTable
  <2> HIDE DEF x
  <2>2. SelectStep \in Nat \ {0}
    BY SelectAssumption
  <2>3. sel.n \div SelectStep \in Nat
    <3> DEFINE q == sel.n
    <3>1. q \in Nat
      BY <2>1
    <3> HIDE DEF q
    <3>2. q \div SelectStep \in Nat
      BY <2>2, <3>1
    <3> QED
      BY <3>2 DEF q
  <2> QED
    BY <2>1, <2>3
<1>2. Words(n, 1) /\ Words(k, 1) /\ Token(n, 1, 4, n_) /\ Token(k, 1, 4, m_)
  BY WordsOne, OneToken, Zenon
<1>3. Words(t, x)
  BY TableWords DEF SelCounts
<1>4. Words(r, y)
  BY <1>1, WordsOne, Zenon
<1>5. select_dump(sel) = n \o k \o t \o r
  BY Zenon DEF select_dump
<1>6. SelWords(sel) = 1 + 1 + x + y
  BY Zenon DEF SelWords
<1>7. select_packed_size(sel) = 2 * 4 + 4 * x + 4 * y
  BY DEF select_packed_size
<1> HIDE DEF x, y, n, k, t, r, n_, m_
<1>8. Words(n \o k, 1 + 1) /\ Token(n \o k, 1, 4, n_) /\ Token(n \o k, 1 + 1, 4, m_)
  BY <1>2, WordsJoin, WordsToken, WordsShift, Zenon
<1> DEFINE q == n \o k
<1> HIDE DEF q
<1>9. Words(q \o t, 1 + 1 + x) /\ Token(q \o t, 1, 4, n_) /\ Token(q \o t, 1 + 1, 4, m_)
  BY <1>3, <1>8, WordsJoin, WordsToken, Zenon DEF q
<1>10. Words(q \o t \o r, 1 + 1 + x + y) /\ Token(q \o t \o r, 1, 4, n_) /\ Token(q \o t \o r, 1 + 1, 4, m_)
  BY <1>4, <1>9, WordsJoin, WordsToken, Zenon
<1>11. 2 * 4 + 4 * x + 4 * y = 4 * (1 + 1 + x + y) /\ 1 + 1 + x + y \in Nat /\ 1 + 1 = 2
  BY <1>1
<1> QED
  BY <1>5, <1>6, <1>7, <1>10, <1>11 DEF q, n_, m_

-----------------------------------------------------------------------------
(* The compressed sequence, dumped, loaded and generated. *)

\* What compressed_seq_packed_size goes by.
SeqCounts(cs) ==
    /\ cs.n \in Nat /\ cs.rem_r \in Nat /\ cs.total_length \in Nat /\ SelCounts(cs.sel)
    /\ IsTable(cs.length_rems, BITS_TABLE_SIZE(cs.n, cs.rem_r))
    /\ IsTable(cs.store_table, CeilDiv(cs.total_length, Word))
\* The words of a compressed sequence.
SeqWords(cs) ==
    1 + 1 + 1 + 1 + SelWords(cs.sel) + BITS_TABLE_SIZE(cs.n, cs.rem_r) + CeilDiv(cs.total_length, Word)

\* Four words in front of a select structure.
LEMMA FourThenSel ==
    ASSUME NEW a, NEW b, NEW c, NEW d, NEW sel, SelCounts(sel)
    PROVE  LET q == W(4, a) \o W(4, b) \o W(4, c) \o W(4, d) \o select_dump(sel)
           IN  /\ Words(q, 1 + 1 + 1 + 1 + SelWords(sel))
               /\ Token(q, 1, 4, a) /\ Token(q, 2, 4, b) /\ Token(q, 3, 4, c) /\ Token(q, 4, 4, d)
               /\ Token(q, 5, 4, sel.n) /\ Token(q, 6, 4, sel.m)
<1> DEFINE wa == W(4, a)
           wb == W(4, b)
           wc == W(4, c)
           wd == W(4, d)
           s == select_dump(sel)
           x == SelWords(sel)
           sn == sel.n
           sm == sel.m
<1>1. /\ Words(wa, 1) /\ Token(wa, 1, 4, a) /\ Words(wb, 1) /\ Token(wb, 1, 4, b)
      /\ Words(wc, 1) /\ Token(wc, 1, 4, c) /\ Words(wd, 1) /\ Token(wd, 1, 4, d)
  BY WordsOne, OneToken, Zenon
<1>2. Words(s, x) /\ Token(s, 1, 4, sn) /\ Token(s, 2, 4, sm)
  BY SelectWords
<1> HIDE DEF wa, wb, wc, wd, s, x, sn, sm
<1> DEFINE q1 == wa \o wb
           q2 == q1 \o wc
           q3 == q2 \o wd
           q4 == q3 \o s
<1>3. Words(q1, 1 + 1) /\ Token(q1, 1, 4, a) /\ Token(q1, 1 + 1, 4, b)
  BY <1>1, WordsJoin, WordsToken, WordsShift, Zenon
<1> HIDE DEF q1
<1>4. Words(q2, 1 + 1 + 1) /\ Token(q2, 1, 4, a) /\ Token(q2, 1 + 1, 4, b) /\ Token(q2, 1 + 1 + 1, 4, c)
  BY <1>1, <1>3, WordsJoin, WordsToken, WordsShift, Zenon
<1> HIDE DEF q2
<1>5. Words(q3, 1 + 1 + 1 + 1) /\ Token(q3, 1, 4, a) /\ Token(q3, 1 + 1, 4, b) /\ Token(q3, 1 + 1 + 1, 4, c)
      /\ Token(q3, 1 + 1 + 1 + 1, 4, d)
  BY <1>1, <1>4, WordsJoin, WordsToken, WordsShift, Zenon
<1> HIDE DEF q3
<1>6. Words(q4, 1 + 1 + 1 + 1 + x) /\ Token(q4, 1, 4, a) /\ Token(q4, 1 + 1, 4, b) /\ Token(q4, 1 + 1 + 1, 4, c)
      /\ Token(q4, 1 + 1 + 1 + 1, 4, d)
  BY <1>2, <1>5, WordsJoin, WordsToken, Zenon
<1>7. Token(q4, 1 + 1 + 1 + 1 + 1, 4, sn) /\ Token(q4, 1 + 1 + 1 + 1 + 2, 4, sm)
  BY <1>2, <1>5, WordsShift, Zenon
<1> HIDE DEF q4
<1>8. 1 + 1 = 2 /\ 1 + 1 + 1 = 3 /\ 1 + 1 + 1 + 1 = 4 /\ 1 + 1 + 1 + 1 + 1 = 5 /\ 1 + 1 + 1 + 1 + 2 = 6
  OBVIOUS
<1>9. Words(q4, 1 + 1 + 1 + 1 + x) /\ Token(q4, 1, 4, a) /\ Token(q4, 2, 4, b) /\ Token(q4, 3, 4, c)
      /\ Token(q4, 4, 4, d) /\ Token(q4, 5, 4, sn) /\ Token(q4, 6, 4, sm)
  BY <1>6, <1>7, <1>8
<1> QED
  BY <1>9 DEF q4, q3, q2, q1, wa, wb, wc, wd, s, x, sn, sm

\* compressed_seq_dump writes compressed_seq_packed_size bytes.
LEMMA SeqDumped ==
    ASSUME NEW cs, SeqCounts(cs)
    PROVE  LET q == compressed_seq_dump(cs)
           IN  /\ Words(q, SeqWords(cs)) /\ SeqWords(cs) \in Nat
               /\ compressed_seq_packed_size(cs) = 4 * SeqWords(cs)
               /\ Token(q, 1, 4, cs.n) /\ Token(q, 2, 4, cs.rem_r) /\ Token(q, 3, 4, cs.total_length)
               /\ Token(q, 5, 4, cs.sel.n) /\ Token(q, 6, 4, cs.sel.m)
<1> DEFINE a == cs.n
           b == cs.rem_r
           c == cs.total_length
           sel == cs.sel
           d == select_packed_size(sel)
           x == SelWords(sel)
           y == BITS_TABLE_SIZE(a, b)
           z == CeilDiv(c, Word)
           s == W(4, a) \o W(4, b) \o W(4, c) \o W(4, d) \o select_dump(sel)
           t == TableTokens(cs.length_rems)
           r == TableTokens(cs.store_table)
           sn == sel.n
           sm == sel.m
           q1 == s \o t
           q2 == q1 \o r
<1>1. SelCounts(sel)
  BY DEF SeqCounts
<1>2. /\ Words(s, 1 + 1 + 1 + 1 + x) /\ Token(s, 1, 4, a) /\ Token(s, 2, 4, b) /\ Token(s, 3, 4, c)
      /\ Token(s, 5, 4, sn) /\ Token(s, 6, 4, sm)
  <2> HIDE DEF a, b, c, sel, d, x
  <2> QED
    BY <1>1, FourThenSel, Zenon DEF x
<1>3. Words(t, y) /\ Words(r, z) /\ y \in Nat /\ z \in Nat
  BY TableWords DEF SeqCounts, IsTable
<1>4. d = 4 * x /\ x \in Nat
  BY <1>1, SelectWords
<1>5. compressed_seq_dump(cs) = q2
  BY Zenon DEF compressed_seq_dump
<1>6. compressed_seq_packed_size(cs) = 4 * 4 + d + 4 * z + 4 * y
  BY Zenon DEF compressed_seq_packed_size
<1>7. SeqWords(cs) = 1 + 1 + 1 + 1 + x + y + z
  BY Zenon DEF SeqWords
<1> HIDE DEF a, b, c, sel, d, x, y, z, s, t, r, sn, sm
<1>8. /\ Words(q1, 1 + 1 + 1 + 1 + x + y) /\ Token(q1, 1, 4, a) /\ Token(q1, 2, 4, b) /\ Token(q1, 3, 4, c)
      /\ Token(q1, 5, 4, sn) /\ Token(q1, 6, 4, sm)
  BY <1>2, <1>3, WordsJoin, WordsToken, Zenon
<1> HIDE DEF q1
<1>9. /\ Words(q2, 1 + 1 + 1 + 1 + x + y + z) /\ Token(q2, 1, 4, a) /\ Token(q2, 2, 4, b) /\ Token(q2, 3, 4, c)
      /\ Token(q2, 5, 4, sn) /\ Token(q2, 6, 4, sm)
  BY <1>3, <1>8, WordsJoin, WordsToken, Zenon
<1> HIDE DEF q2
<1>10. 4 * 4 + d + 4 * z + 4 * y = 4 * (1 + 1 + 1 + 1 + x + y + z) /\ 1 + 1 + 1 + 1 + x + y + z \in Nat
  BY <1>3, <1>4
<1>11. SeqWords(cs) \in Nat /\ compressed_seq_packed_size(cs) = 4 * SeqWords(cs) /\ Words(q2, SeqWords(cs))
  BY <1>6, <1>7, <1>9, <1>10
<1> QED
  BY <1>5, <1>9, <1>11 DEF a, b, c, sn, sm, sel

\* A table that was loaded is a table.
LEMMA TableIs ==
    ASSUME NEW mem, NEW off, NEW w \in Nat
    PROVE  IsTable(TableAt(mem, off, w), w)
  BY DEF TableAt, IsTable

\* A compressed sequence that was dumped and loaded has the same counts and size.
LEMMA SeqReloads ==
    ASSUME NEW cs, SeqCounts(cs)
    PROVE  LET g == compressed_seq_load(compressed_seq_dump(cs), 0)
           IN  SeqCounts(g) /\ compressed_seq_packed_size(g) = compressed_seq_packed_size(cs)
<1> DEFINE q == compressed_seq_dump(cs)
           k == SeqWords(cs)
<1>1. /\ Words(q, k)
      /\ Token(q, 1, 4, cs.n) /\ Token(q, 2, 4, cs.rem_r) /\ Token(q, 3, 4, cs.total_length)
      /\ Token(q, 5, 4, cs.sel.n) /\ Token(q, 6, 4, cs.sel.m)
  BY SeqDumped
<1> HIDE DEF q, k
<1>2. \A i \in Nat : \A v : Token(q, i + 1, 4, v) => At(q, 4 * i, 4) = v
  BY <1>1, WordAt
<1>3. /\ At(q, 0, 4) = cs.n /\ At(q, 0 + 4, 4) = cs.rem_r /\ At(q, 0 + 8, 4) = cs.total_length
      /\ At(q, 0 + 16, 4) = cs.sel.n /\ At(q, 0 + 16 + 4, 4) = cs.sel.m
  <2>1. 4 * 0 = 0 /\ 4 * 1 = 0 + 4 /\ 4 * 2 = 0 + 8 /\ 4 * 4 = 0 + 16 /\ 4 * 5 = 0 + 16 + 4
        /\ 0 + 1 = 1 /\ 1 + 1 = 2 /\ 2 + 1 = 3 /\ 4 + 1 = 5 /\ 5 + 1 = 6
    OBVIOUS
  <2>2. /\ At(q, 4 * 0, 4) = cs.n /\ At(q, 4 * 1, 4) = cs.rem_r /\ At(q, 4 * 2, 4) = cs.total_length
        /\ At(q, 4 * 4, 4) = cs.sel.n /\ At(q, 4 * 5, 4) = cs.sel.m
    BY <1>1, <1>2, <2>1
  <2> QED
    BY <2>1, <2>2
<1> DEFINE sel == select_load(q, 0 + 16)
           g == compressed_seq_load(q, 0)
<1>4. SelCounts(sel) /\ sel.n = cs.sel.n /\ sel.m = cs.sel.m
  <2> DEFINE w == CeilDiv(cs.sel.n + cs.sel.m, Word)
  <2>1. w \in Nat /\ cs.sel.n \in Nat /\ cs.sel.m \in Nat
    BY DEF SeqCounts, SelCounts, IsTable
  <2> HIDE DEF w
  <2>2. IsTable(TableAt(q, 0 + 16 + 8, w), w)
    BY <2>1, TableIs, Zenon
  <2>3. sel.n = cs.sel.n /\ sel.m = cs.sel.m /\ sel.bits_vec = TableAt(q, 0 + 16 + 8, w)
    BY <1>3 DEF select_load, w
  <2> HIDE DEF sel
  <2> QED
    BY <2>1, <2>2, <2>3 DEF SelCounts, w
<1>5. g.n = cs.n /\ g.rem_r = cs.rem_r /\ g.total_length = cs.total_length /\ g.sel = sel
  BY <1>3 DEF compressed_seq_load
<1>6. /\ \E off : g.length_rems = TableAt(q, off, BITS_TABLE_SIZE(cs.n, cs.rem_r))
      /\ \E off : g.store_table = TableAt(q, off, CeilDiv(cs.total_length, Word))
  BY <1>3 DEF compressed_seq_load
<1> HIDE DEF g, sel
<1>7. SeqCounts(g)
  <2>1. BITS_TABLE_SIZE(cs.n, cs.rem_r) \in Nat /\ CeilDiv(cs.total_length, Word) \in Nat
    BY DEF SeqCounts, IsTable
  <2> QED
    BY <1>4, <1>5, <1>6, <2>1, TableIs DEF SeqCounts
<1>8. compressed_seq_packed_size(g) = compressed_seq_packed_size(cs)
  BY <1>4, <1>5 DEF compressed_seq_packed_size, select_packed_size
<1> QED
  BY <1>7, <1>8 DEF g, q

\* The ones of a word can be counted.
LEMMA BitsNat ==
    ASSUME NEW T, T \subseteq 1 .. Word
    PROVE  Cardinality(T) \in Nat
<1>1. IsFiniteSet(1 .. Word)
  BY WordIs, FS_Interval
<1>2. IsFiniteSet(T)
  BY <1>1, FS_Subset
<1> QED
  BY <1>2, FS_CardinalityType

\* The length of an entry is a number.
LEMMA LengthNat == \A x : Length(x) \in Nat
<1> TAKE x
<1> DEFINE T == {e \in 1 .. Word : 2 ^ e <= x + 1}
<1>1. T \subseteq 1 .. Word
  OBVIOUS
<1>2. Length(x) = IF x = 0 THEN 0 ELSE Cardinality(T)
  BY DEF Length, compressed_seq_i_log2
<1>3. Cardinality(T) \in Nat
  BY <1>1, BitsNat
<1> HIDE DEF T
<1> QED
  BY <1>2, <1>3

\* How many low bits an entry keeps is a number.
LEMMA RemBitsNat == \A t, n : RemBits(t, n) \in Nat /\ RankRemBits(t, n) \in Nat
<1> TAKE t, n
<1> DEFINE q == t \div n
           T == {e \in 1 .. Word : 2 ^ e <= q}
<1>1. T \subseteq 1 .. Word
  OBVIOUS
<1>2. RemBits(t, n) = IF Cardinality(T) = 0 THEN 1 ELSE Cardinality(T)
  BY DEF RemBits, compressed_seq_i_log2
<1>3. RankRemBits(t, n) = IF Cardinality(T) = 0 THEN 1 ELSE Cardinality(T)
  BY DEF RankRemBits, compressed_rank_i_log2
<1>4. Cardinality(T) \in Nat
  BY <1>1, BitsNat
<1> HIDE DEF T
<1> QED
  BY <1>2, <1>3, <1>4

\* Where the entries of a compressed sequence end is a number.
LEMMA EndsNat ==
    ASSUME NEW v, NEW n \in Nat
    PROVE  EndsOfBits(v, n) \in [0 .. n - 1 -> Nat]
<1> DEFINE b == [i \in 0 .. n - 1 |-> 0]
           V == [0 .. n - 1 -> Nat]
           Next_(s, i) == [s EXCEPT ![i] = (IF i = 0 THEN 0 ELSE s[i - 1]) + Length(v[i])]
           Body(f) == [i \in 0 .. Len(Upto(n)) |-> IF i = 0 THEN b
                          ELSE CHOOSE r \in {Next_(x, Upto(n)[i]) : x \in {f[i - 1]}} : r = r]
           F == CHOOSE f : f = Body(f)
           S == [i \in 0 .. n |-> V]
           step == [p \in V \X (1 .. n) |-> Next_(p[1], p[2] - 1)]
<1>1. EndsOfBits(v, n) = F[Len(Upto(n))]
  BY DEF EndsOfBits, Fold
<1>2. Len(Upto(n)) = n /\ \A i \in 1 .. n : Upto(n)[i] = i - 1
  BY DEF Upto
<1>3. ASSUME NEW f PROVE Body(f) = [i \in 0 .. n |-> IF i = 0 THEN b ELSE Next_(f[i - 1], i - 1)]
  BY <1>2, OnlyOne
<1> HIDE DEF Body, F
<1>4. ASSUME NEW i \in 1 .. n, NEW x \in V PROVE Next_(x, i - 1) \in V
  <2>1. i - 1 \in 0 .. n - 1 /\ (i - 1 # 0 => i - 1 - 1 \in 0 .. n - 1)
    OBVIOUS
  <2> DEFINE j == i - 1
             y == (IF j = 0 THEN 0 ELSE x[j - 1]) + Length(v[j])
  <2>2. Length(v[j]) \in Nat
    BY LengthNat
  <2> HIDE DEF j
  <2>3. j \in 0 .. n - 1 /\ (j # 0 => j - 1 \in 0 .. n - 1)
    BY <2>1 DEF j
  <2>4. (IF j = 0 THEN 0 ELSE x[j - 1]) \in Nat
    BY <2>3
  <2>5. y \in Nat
    BY <2>2, <2>4
  <2> HIDE DEF y
  <2>6. [x EXCEPT ![j] = y] \in V
    BY <2>3, <2>5
  <2> QED
    BY <2>6 DEF y, j
<1>5. ASSUME NEW i \in 1 .. n, NEW x \in V PROVE step[<<x, i>>] = Next_(x, i - 1)
  OBVIOUS
<1>6. \A i \in 0 .. n : S[i] = V
  OBVIOUS
<1>7. b \in V
  OBVIOUS
<1> HIDE DEF V, S, step, Next_, b
<1>8. PICK f : Runs(f, n, b, S, step)
  <2>1. b \in S[0]
    BY <1>6, <1>7
  <2>2. \A i \in 1 .. n : \A x \in S[i - 1] : step[<<x, i>>] \in S[i]
    <3> TAKE i \in 1 .. n
    <3>1. i \in 0 .. n /\ i - 1 \in 0 .. n
      OBVIOUS
    <3> QED
      BY <1>4, <1>5, <1>6, <3>1
  <2> QED
    BY <2>1, <2>2, Loop
<1>9. f = Body(f)
  <2>1. f = [i \in 0 .. n |-> f[i]] /\ f[0] = b
    BY <1>8 DEF Runs
  <2>2. ASSUME NEW i \in 1 .. n PROVE f[i] = Next_(f[i - 1], i - 1)
    <3>1. i - 1 \in 0 .. n
      OBVIOUS
    <3>2. f[i - 1] \in V /\ f[i] = step[<<f[i - 1], i>>]
      BY <1>6, <1>8, <3>1 DEF Runs
    <3> QED
      BY <1>5, <3>2
  <2>3. \A i \in 0 .. n : f[i] = IF i = 0 THEN b ELSE Next_(f[i - 1], i - 1)
    <3> TAKE i \in 0 .. n
    <3>1. i = 0 \/ i \in 1 .. n
      OBVIOUS
    <3>2. CASE i = 0
      BY <2>1, <3>2
    <3>3. CASE i \in 1 .. n
      <4>1. i # 0
        BY <3>3
      <4> QED
        BY <2>2, <3>3, <4>1
    <3> QED
      BY <3>1, <3>2, <3>3
  <2> QED
    BY <1>3, <2>1, <2>3
<1>10. F = Body(F)
  BY <1>9 DEF F
<1>11. F[0] = b /\ \A i \in 1 .. n : F[i] = Next_(F[i - 1], i - 1)
  BY <1>3, <1>10
<1>12. \A i \in 0 .. n : F[i] \in S[i]
  <2>1. F[0] \in S[0]
    BY <1>6, <1>7, <1>11
  <2>2. \A i \in 1 .. n : F[i - 1] \in S[i - 1] => F[i] \in S[i]
    <3> TAKE i \in 1 .. n
    <3>1. i \in 0 .. n /\ i - 1 \in 0 .. n
      OBVIOUS
    <3> QED
      BY <1>4, <1>6, <1>11, <3>1
  <2> QED
    BY <2>1, <2>2, RoundsKeep
<1>13. F[n] \in V
  BY <1>6, <1>12
<1> QED
  BY <1>1, <1>2, <1>13 DEF V

\* Writing some bits leaves a table of bits.
LEMMA SetBitsIn ==
    ASSUME NEW D, NEW Vals, NEW t \in [D -> Vals], NEW pos, NEW x, NEW len, 1 \in Vals, \A p \in D : Bit(x, p - pos) \in Vals
    PROVE  set_bits_at_pos(t, pos, x, len) \in [D -> Vals]
<1> DEFINE end == Word * (pos \div Word + IF (pos % Word) + len > Word THEN 2 ELSE 1)
           val(p) == IF p < pos \/ p >= end THEN t[p]
                     ELSE IF p < pos + len THEN Bit(x, p - pos)
                     ELSE IF Bit(x, p - pos) = 1 THEN 1 ELSE t[p]
<1>1. set_bits_at_pos(t, pos, x, len) = [p \in DOMAIN t |-> val(p)]
  BY Zenon DEF set_bits_at_pos
<1>2. DOMAIN t = D /\ \A p \in D : t[p] \in Vals
  OBVIOUS
<1>3. \A p \in D : val(p) \in {t[p], Bit(x, p - pos), 1}
  <2> HIDE DEF end
  <2> QED
    BY Zenon
<1> HIDE DEF val
<1>4. \A p \in D : val(p) \in Vals
  BY <1>2, <1>3
<1> QED
  BY <1>1, <1>2, <1>4

\* A new table is a table of bits.
LEMMA ZeroBitsIn ==
    ASSUME NEW w, NEW Vals, 0 \in Vals
    PROVE  ZeroBits(w) \in [0 .. w * Word - 1 -> Vals]
  BY DEF ZeroBits

\* The entries of a compressed sequence are stored in a table of its length.
LEMMA StoredIs ==
    ASSUME NEW v, NEW e, NEW n \in Nat
    PROVE  DOMAIN Stored(v, e, n) = 0 .. CeilDiv(e[n - 1], Word) * Word - 1
<1> DEFINE w == CeilDiv(e[n - 1], Word)
           D == 0 .. w * Word - 1
           x_(i) == v[i] - (2 ^ Length(v[i]) - 1)
           pos_(i) == e[i] - Length(v[i])
           Vals == {0, 1} \cup {Bit(x_(i), p - pos_(i)) : i \in 0 .. n - 1, p \in D}
           V == [D -> Vals]
           b == ZeroBits(w)
           Next_(s, i) == LET len == Length(v[i])
                          IN  IF v[i] = 0 THEN s ELSE set_bits_at_pos(s, e[i] - len, v[i] - (2 ^ len - 1), len)
           Body(f) == [i \in 0 .. Len(Upto(n)) |-> IF i = 0 THEN b
                          ELSE CHOOSE r \in {Next_(x, Upto(n)[i]) : x \in {f[i - 1]}} : r = r]
           F == CHOOSE f : f = Body(f)
           S == [i \in 0 .. n |-> V]
           step == [p \in V \X (1 .. n) |-> Next_(p[1], p[2] - 1)]
<1>1. Stored(v, e, n) = F[Len(Upto(n))]
  BY DEF Stored, Fold
<1>2. Len(Upto(n)) = n /\ \A i \in 1 .. n : Upto(n)[i] = i - 1
  BY DEF Upto
<1>3. ASSUME NEW f PROVE Body(f) = [i \in 0 .. n |-> IF i = 0 THEN b ELSE Next_(f[i - 1], i - 1)]
  BY <1>2, OnlyOne
<1> HIDE DEF Body, F
<1>4. ASSUME NEW i \in 1 .. n, NEW x \in V PROVE Next_(x, i - 1) \in V
  <2> DEFINE j == i - 1
             y == set_bits_at_pos(x, pos_(j), x_(j), Length(v[j]))
  <2>1. Next_(x, j) = IF v[j] = 0 THEN x ELSE y
    <3> HIDE DEF j, V, S, step, D, Vals, b, w
    <3> QED
      OBVIOUS
  <2>2. y \in V
    <3>1. j \in 0 .. n - 1
      OBVIOUS
    <3> HIDE DEF j
    <3>2. \A p \in D : Bit(x_(j), p - pos_(j)) \in Vals
      BY <3>1
    <3>3. 1 \in Vals /\ x \in [D -> Vals]
      OBVIOUS
    <3> HIDE DEF x_, pos_, D, Vals
    <3> QED
      BY <3>2, <3>3, SetBitsIn
  <2> HIDE DEF y, Next_, V
  <2> QED
    BY <2>1, <2>2
<1>5. ASSUME NEW i \in 1 .. n, NEW x \in V PROVE step[<<x, i>>] = Next_(x, i - 1)
  OBVIOUS
<1>6. \A i \in 0 .. n : S[i] = V
  OBVIOUS
<1>7. b \in V
  <2>1. 0 \in Vals
    OBVIOUS
  <2> HIDE DEF Vals, w
  <2> QED
    BY <2>1, ZeroBitsIn
<1> HIDE DEF V, S, step, Next_, b
<1>8. PICK f : Runs(f, n, b, S, step)
  <2>1. b \in S[0]
    BY <1>6, <1>7
  <2>2. \A i \in 1 .. n : \A x \in S[i - 1] : step[<<x, i>>] \in S[i]
    <3> TAKE i \in 1 .. n
    <3>1. i \in 0 .. n /\ i - 1 \in 0 .. n
      OBVIOUS
    <3> QED
      BY <1>4, <1>5, <1>6, <3>1
  <2> QED
    BY <2>1, <2>2, Loop
<1>9. f = Body(f)
  <2>1. f = [i \in 0 .. n |-> f[i]] /\ f[0] = b
    BY <1>8 DEF Runs
  <2>2. ASSUME NEW i \in 1 .. n PROVE f[i] = Next_(f[i - 1], i - 1)
    <3>1. i - 1 \in 0 .. n
      OBVIOUS
    <3>2. f[i - 1] \in V /\ f[i] = step[<<f[i - 1], i>>]
      BY <1>6, <1>8, <3>1 DEF Runs
    <3> QED
      BY <1>5, <3>2
  <2>3. \A i \in 0 .. n : f[i] = IF i = 0 THEN b ELSE Next_(f[i - 1], i - 1)
    <3> TAKE i \in 0 .. n
    <3>1. i = 0 \/ i \in 1 .. n
      OBVIOUS
    <3>2. CASE i = 0
      BY <2>1, <3>2
    <3>3. CASE i \in 1 .. n
      <4>1. i # 0
        BY <3>3
      <4> QED
        BY <2>2, <3>3, <4>1
    <3> QED
      BY <3>1, <3>2, <3>3
  <2> QED
    BY <1>3, <2>1, <2>3
<1>10. F = Body(F)
  BY <1>9 DEF F
<1>11. F[0] = b /\ \A i \in 1 .. n : F[i] = Next_(F[i - 1], i - 1)
  BY <1>3, <1>10
<1>12. \A i \in 0 .. n : F[i] \in S[i]
  <2>1. F[0] \in S[0]
    BY <1>6, <1>7, <1>11
  <2>2. \A i \in 1 .. n : F[i - 1] \in S[i - 1] => F[i] \in S[i]
    <3> TAKE i \in 1 .. n
    <3>1. i \in 0 .. n /\ i - 1 \in 0 .. n
      OBVIOUS
    <3> QED
      BY <1>4, <1>6, <1>11, <3>1
  <2> QED
    BY <2>1, <2>2, RoundsKeep
<1>13. F[n] \in V
  BY <1>6, <1>12
<1> QED
  BY <1>1, <1>2, <1>13 DEF V, D, w

\* The low bits of the entries are stored in a table of their length.
LEMMA LowBitsIs ==
    ASSUME NEW v, NEW n \in Nat, NEW len
    PROVE  DOMAIN LowBits(v, n, len) = 0 .. BITS_TABLE_SIZE(n, len) * Word - 1
<1> DEFINE w == BITS_TABLE_SIZE(n, len)
           D == 0 .. w * Word - 1
           x_(i) == v[i] % 2 ^ len
           pos_(i) == i * len
           Vals == {0, 1} \cup {Bit(x_(i), p - pos_(i)) : i \in 0 .. n - 1, p \in D}
           V == [D -> Vals]
           b == ZeroBits(w)
           Next_(s, i) == set_bits_value(s, i, v[i] % 2 ^ len, len)
           Body(f) == [i \in 0 .. Len(Upto(n)) |-> IF i = 0 THEN b
                          ELSE CHOOSE r \in {Next_(x, Upto(n)[i]) : x \in {f[i - 1]}} : r = r]
           F == CHOOSE f : f = Body(f)
           S == [i \in 0 .. n |-> V]
           step == [p \in V \X (1 .. n) |-> Next_(p[1], p[2] - 1)]
<1>1. LowBits(v, n, len) = F[Len(Upto(n))]
  BY DEF LowBits, Fold
<1>2. Len(Upto(n)) = n /\ \A i \in 1 .. n : Upto(n)[i] = i - 1
  BY DEF Upto
<1>3. ASSUME NEW f PROVE Body(f) = [i \in 0 .. n |-> IF i = 0 THEN b ELSE Next_(f[i - 1], i - 1)]
  BY <1>2, OnlyOne
<1> HIDE DEF Body, F
<1>4. ASSUME NEW i \in 1 .. n, NEW x \in V PROVE Next_(x, i - 1) \in V
  <2> DEFINE j == i - 1
             y == set_bits_at_pos(x, pos_(j), x_(j), len)
  <2>1. Next_(x, j) = y
    <3> HIDE DEF j, V, S, step, D, Vals, b, w
    <3> QED
      BY DEF set_bits_value
  <2>2. y \in V
    <3>1. j \in 0 .. n - 1
      OBVIOUS
    <3> HIDE DEF j
    <3>2. \A p \in D : Bit(x_(j), p - pos_(j)) \in Vals
      BY <3>1
    <3>3. 1 \in Vals /\ x \in [D -> Vals]
      OBVIOUS
    <3> HIDE DEF x_, pos_, D, Vals
    <3> QED
      BY <3>2, <3>3, SetBitsIn
  <2> HIDE DEF y, Next_, V
  <2> QED
    BY <2>1, <2>2
<1>5. ASSUME NEW i \in 1 .. n, NEW x \in V PROVE step[<<x, i>>] = Next_(x, i - 1)
  OBVIOUS
<1>6. \A i \in 0 .. n : S[i] = V
  OBVIOUS
<1>7. b \in V
  <2>1. 0 \in Vals
    OBVIOUS
  <2> HIDE DEF Vals, w
  <2> QED
    BY <2>1, ZeroBitsIn
<1> HIDE DEF V, S, step, Next_, b
<1>8. PICK f : Runs(f, n, b, S, step)
  <2>1. b \in S[0]
    BY <1>6, <1>7
  <2>2. \A i \in 1 .. n : \A x \in S[i - 1] : step[<<x, i>>] \in S[i]
    <3> TAKE i \in 1 .. n
    <3>1. i \in 0 .. n /\ i - 1 \in 0 .. n
      OBVIOUS
    <3> QED
      BY <1>4, <1>5, <1>6, <3>1
  <2> QED
    BY <2>1, <2>2, Loop
<1>9. f = Body(f)
  <2>1. f = [i \in 0 .. n |-> f[i]] /\ f[0] = b
    BY <1>8 DEF Runs
  <2>2. ASSUME NEW i \in 1 .. n PROVE f[i] = Next_(f[i - 1], i - 1)
    <3>1. i - 1 \in 0 .. n
      OBVIOUS
    <3>2. f[i - 1] \in V /\ f[i] = step[<<f[i - 1], i>>]
      BY <1>6, <1>8, <3>1 DEF Runs
    <3> QED
      BY <1>5, <3>2
  <2>3. \A i \in 0 .. n : f[i] = IF i = 0 THEN b ELSE Next_(f[i - 1], i - 1)
    <3> TAKE i \in 0 .. n
    <3>1. i = 0 \/ i \in 1 .. n
      OBVIOUS
    <3>2. CASE i = 0
      BY <2>1, <3>2
    <3>3. CASE i \in 1 .. n
      <4>1. i # 0
        BY <3>3
      <4> QED
        BY <2>2, <3>3, <4>1
    <3> QED
      BY <3>1, <3>2, <3>3
  <2> QED
    BY <1>3, <2>1, <2>3
<1>10. F = Body(F)
  BY <1>9 DEF F
<1>11. F[0] = b /\ \A i \in 1 .. n : F[i] = Next_(F[i - 1], i - 1)
  BY <1>3, <1>10
<1>12. \A i \in 0 .. n : F[i] \in S[i]
  <2>1. F[0] \in S[0]
    BY <1>6, <1>7, <1>11
  <2>2. \A i \in 1 .. n : F[i - 1] \in S[i - 1] => F[i] \in S[i]
    <3> TAKE i \in 1 .. n
    <3>1. i \in 0 .. n /\ i - 1 \in 0 .. n
      OBVIOUS
    <3> QED
      BY <1>4, <1>6, <1>11, <3>1
  <2> QED
    BY <2>1, <2>2, RoundsKeep
<1>13. F[n] \in V
  BY <1>6, <1>12
<1> QED
  BY <1>1, <1>2, <1>13 DEF V, D, w

\* Sums and products of numbers.
LEMMA TimesNat == \A x, y \in Nat : x * y \in Nat /\ x + y \in Nat
  OBVIOUS

\* Quotients of numbers.
LEMMA DivNat == \A x \in Nat : \A y \in Nat \ {0} : x \div y \in Nat
  OBVIOUS

\* select_generate makes what select_packed_size counts on.
LEMMA SelectGenerated ==
    ASSUME NEW v, NEW n \in Nat, NEW k \in Nat
    PROVE  SelCounts(select_generate(v, n, k))
<1> DEFINE s == select_generate(v, n, k)
           w == CeilDiv(n + k, Word)
<1>1. w \in Nat
  <2> DEFINE x == n + k
  <2>1. x \in Nat
    OBVIOUS
  <2> HIDE DEF x
  <2>2. CeilDiv(x, Word) \in Nat
    BY <2>1, WordIs, CeilDivNat
  <2> QED
    BY <2>2 DEF x
<1>2. s.n = n /\ s.m = k /\ DOMAIN s.bits_vec = 0 .. w * Word - 1
  BY DEF select_generate
<1> HIDE DEF s, w
<1>3. IsTable(s.bits_vec, w)
  BY <1>1, <1>2 DEF IsTable
<1>4. SelCounts(s)
  BY <1>2, <1>3 DEF SelCounts, w
<1> QED
  BY <1>4 DEF s

\* The words of a table.
LEMMA TableSizeNat ==
    ASSUME NEW n \in Nat, NEW len \in Nat
    PROVE  BITS_TABLE_SIZE(n, len) \in Nat
<1> DEFINE x == n * len
<1>1. x \in Nat
  BY TimesNat
<1> HIDE DEF x
<1>2. CeilDiv(x, Word) \in Nat
  BY <1>1, WordIs, CeilDivNat
<1> QED
  BY <1>2 DEF BITS_TABLE_SIZE, x

\* compressed_seq_generate makes what compressed_seq_packed_size counts on.
LEMMA SeqGenerated ==
    ASSUME NEW v, NEW n \in Nat \ {0}
    PROVE  SeqCounts(compressed_seq_generate(v, n))
<1> DEFINE e == EndsOfBits(v, n)
           total == e[n - 1]
           rem == RemBits(total, n)
           q == total \div 2 ^ rem
           k == [i \in 0 .. n - 1 |-> e[i] \div 2 ^ rem]
           sel == select_generate(k, n, q)
           cs == compressed_seq_generate(v, n)
<1>1. total \in Nat
  <2>1. n - 1 \in 0 .. n - 1 /\ n \in Nat
    OBVIOUS
  <2> QED
    BY <2>1, EndsNat
<1>2. rem \in Nat
  BY RemBitsNat
<1>3. q \in Nat
  <2> HIDE DEF total, rem
  <2>1. 2 ^ rem \in Nat \ {0}
    BY <1>2, PowerOfTwo
  <2> QED
    BY <1>1, <2>1, DivNat
<1>4. SelCounts(sel)
  <2> HIDE DEF k, q
  <2> QED
    BY <1>3, SelectGenerated
<1>5. cs = [n |-> n, rem_r |-> rem, total_length |-> total, store_table |-> Stored(v, e, n),
            length_rems |-> LowBits(e, n, rem), sel |-> sel]
  BY Zenon DEF compressed_seq_generate
<1> HIDE DEF cs, sel
<1>6. cs.n = n /\ cs.rem_r = rem /\ cs.total_length = total /\ cs.store_table = Stored(v, e, n)
      /\ cs.length_rems = LowBits(e, n, rem) /\ cs.sel = sel
  BY <1>5
<1>7. IsTable(LowBits(e, n, rem), BITS_TABLE_SIZE(n, rem))
  <2> HIDE DEF e, rem
  <2>1. n \in Nat
    OBVIOUS
  <2> QED
    BY <1>2, <2>1, LowBitsIs, TableSizeNat, Zenon DEF IsTable
<1>8. IsTable(Stored(v, e, n), CeilDiv(total, Word))
  <2>1. CeilDiv(total, Word) \in Nat
    <3> HIDE DEF total
    <3> QED
      BY <1>1, WordIs, CeilDivNat
  <2> HIDE DEF e
  <2>2. n \in Nat
    OBVIOUS
  <2> QED
    BY <2>1, <2>2, StoredIs, Zenon DEF IsTable
<1>9. SeqCounts(cs)
  <2> HIDE DEF e, rem, total
  <2>1. n \in Nat
    OBVIOUS
  <2> QED
    BY <1>1, <1>2, <1>4, <1>6, <1>7, <1>8, <2>1, Zenon DEF SeqCounts
<1> QED
  BY <1>9 DEF cs

\* compressed_seq_pack writes compressed_seq_packed_size bytes.
LEMMA SeqSized ==
    ASSUME NEW cs, SeqCounts(cs)
    PROVE  LET z == compressed_seq_packed_size(cs)
           IN  z \in Nat /\ Sized(compressed_seq_pack(cs), z)
<1>1. Words(compressed_seq_dump(cs), SeqWords(cs)) /\ SeqWords(cs) \in Nat
      /\ compressed_seq_packed_size(cs) = 4 * SeqWords(cs)
  BY SeqDumped
<1> QED
  BY <1>1 DEF Words, Block, compressed_seq_pack

-----------------------------------------------------------------------------
(* chd_ph. *)

\* The bytes that chd_ph packs: its table of displacements is a compressed sequence.
LEMMA ChdPhPackIs_ ==
    ASSUME NEW d, SeqCounts(d.cs)
    PROVE  Sized(ChdPhPack(d), 4 + 4 + 4 + 4 + compressed_seq_packed_size(d.cs))
<1> DEFINE a == W(4, "jenkins")
           h1 == hash_state_pack(d.hl)
           n == W(4, d.n)
           b == W(4, d.nbuckets)
           z == compressed_seq_packed_size(d.cs)
           r == compressed_seq_pack(d.cs)
<1>1. Sized(a, 4) /\ Sized(h1, 4) /\ Sized(n, 4) /\ Sized(b, 4)
  BY Pieces, Zenon DEF Block
<1>2. Sized(r, z)
  <2> DEFINE cs == d.cs
  <2> HIDE DEF cs
  <2>1. SeqCounts(cs)
    BY DEF cs
  <2>2. Sized(compressed_seq_pack(cs), compressed_seq_packed_size(cs))
    BY <2>1, SeqSized
  <2> QED
    BY <2>2 DEF cs
<1>3. ChdPhPack(d) = a \o h1 \o n \o b \o r
  BY Zenon DEF ChdPhPack
<1> HIDE DEF a, h1, n, b, z, r
<1>4. Sized(a \o h1 \o n \o b \o r, 4 + 4 + 4 + 4 + z)
  BY <1>1, <1>2, Joins, Zenon
<1> QED
  BY <1>3, <1>4, Zenon DEF z

\* cmph_pack fills what cmph_packed_size says: chd_ph.
LEMMA ChdPhFits ==
    ASSUME NEW f, f.algo = "chd_ph", SeqCounts(f.data.cs)
    PROVE  Size(cmph_pack(f)) = cmph_packed_size(f) /\ cmph_packed_size(f) \in Nat
<1> DEFINE d == f.data
           y == compressed_seq_packed_size(d.cs)
           z == 4 + 4 + 4 + 4 + y
<1>1. Sized(ChdPhPack(d), 4 + 4 + 4 + 4 + y)
  <2> HIDE DEF d
  <2>1. SeqCounts(d.cs)
    BY DEF d
  <2> QED
    BY <2>1, ChdPhPackIs_, Zenon
<1>1b. y \in Nat
  BY SeqSized
<1>2. cmph_pack(f) = W(4, f.algo) \o ChdPhPack(d)
  BY DEF cmph_pack
<1>1a. Sized(ChdPhPack(d), z)
  BY <1>1
<1>3. Size(W(4, f.algo) \o ChdPhPack(d)) = 4 + z /\ 4 + z \in Nat
  <2> HIDE DEF z, d
  <2> QED
    BY <1>1a, SizeWithAlgo, Zenon
<1>4. cmph_packed_size(f) = ChdPhPackedSize(d)
  BY DEF cmph_packed_size
<1>5. ChdPhPackedSize(d) = 4 + 4 + y + 3 * 4
  BY DEF ChdPhPackedSize, hash_state_packed_size
<1> HIDE DEF y
<1>6. 4 + 4 + y + 3 * 4 = 4 + z
  BY <1>1b
<1> QED
  BY <1>2, <1>3, <1>4, <1>5, <1>6

\* The counts of a function that was dumped and loaded: chd_ph.
LEMMA ChdPhReloads ==
    ASSUME NEW f, f.algo = "chd_ph", f.size \in Int, SeqCounts(f.data.cs)
    PROVE  LET g == cmph_load(cmph_dump(f))
           IN  g.algo = f.algo /\ g.size = f.size
               /\ g.data.cs = compressed_seq_load(compressed_seq_dump(f.data.cs), 0)
<1> DEFINE h == cmph_dump_head(f)
           s == hash_state_dump(f.data.hl)
           cs == f.data.cs
           z_ == compressed_seq_packed_size(cs)
           b_ == compressed_seq_dump(cs)
           z == W(4, z_)
           b == W(z_, b_)
           n == W(4, f.data.n)
           k == W(4, f.data.nbuckets)
           q == h \o s \o z \o b \o n \o k
<1>0. z_ \in Nat
  BY SeqSized
<1>1. /\ Block(s, 16, 2)
      /\ Block(z, 4, 1)
      /\ Block(n, 4, 1)
      /\ Block(k, 4, 1)
  BY Pieces, Zenon
<1>1a. Block(b, z_, 1)
  <2> HIDE DEF z_, b_
  <2> QED
    BY <1>0, SizedW, Zenon DEF Block
<1>2. f.algo \in DOMAIN NameBytes
  BY DEF NameBytes
<1>3. (\E x : Block(h, x, 2)) /\ Begins(h, f.algo, f.size)
  BY <1>2, HeadBegins, Zenon
<1>5. cmph_dump(f) = q
  BY DEF cmph_dump, ChdPhDump
<1>6. z = W(4, z_) /\ b = W(z_, b_)
  OBVIOUS
<1> HIDE DEF h, s, z, b, n, k, z_, b_
<1>6a. Filed(h, 2, f.algo, f.size)
  BY <1>3, Zenon DEF Filed
<1>7. Filed(h \o s, 2 + 2, f.algo, f.size)
  BY <1>1, <1>6a, FiledMore, Zenon
<1>8. Token(h \o s \o z, 2 + 2 + 1, 4, z_)
  <2>1. 4 \in Nat
    OBVIOUS
  <2> QED
    BY <1>7, <1>6, <2>1, FiledNext, Zenon
<1>9. Filed(h \o s \o z, 2 + 2 + 1, f.algo, f.size)
  BY <1>1, <1>7, FiledMore, Zenon
<1>10. Token(h \o s \o z \o b, 2 + 2 + 1 + 1, z_, b_)
  BY <1>0, <1>9, <1>6, FiledNext, Zenon
<1>11. Token(h \o s \o z \o b, 2 + 2 + 1, 4, z_)
  BY <1>1a, <1>9, <1>8, FiledStays, Zenon
<1>12. Filed(h \o s \o z \o b, 2 + 2 + 1 + 1, f.algo, f.size)
  BY <1>1a, <1>9, FiledMore, Zenon
<1>13. Token(h \o s \o z \o b \o n, 2 + 2 + 1, 4, z_) /\ Token(h \o s \o z \o b \o n, 2 + 2 + 1 + 1, z_, b_)
  BY <1>1, <1>10, <1>11, <1>12, FiledStays, Zenon
<1>14. Filed(h \o s \o z \o b \o n, 2 + 2 + 1 + 1 + 1, f.algo, f.size)
  BY <1>1, <1>12, FiledMore, Zenon
<1>15. Token(h \o s \o z \o b \o n \o k, 2 + 2 + 1, 4, z_) /\ Token(h \o s \o z \o b \o n \o k, 2 + 2 + 1 + 1, z_, b_)
  BY <1>1, <1>13, <1>14, FiledStays, Zenon
<1>16. Filed(h \o s \o z \o b \o n \o k, 2 + 2 + 1 + 1 + 1 + 1, f.algo, f.size)
  BY <1>1, <1>14, FiledMore, Zenon
<1>17. Filed(q, 2 + 2 + 1 + 1 + 1 + 1, f.algo, f.size) /\ Token(q, 2 + 2 + 1, 4, z_) /\ Token(q, 2 + 2 + 1 + 1, z_, b_)
  BY <1>15, <1>16
<1> HIDE DEF q
<1>18. Headed(q, f.algo) /\ Read(q, 2, 4) = f.size
  BY <1>17, Zenon DEF Filed, Begins, Token
<1> DEFINE l == cmph_load_head(q)
<1>19. l = [algo |-> f.algo, size |-> f.size] /\ l # Null
  BY <1>2, <1>18, HeadedLoads
<1> HIDE DEF l
<1>20. cmph_load(q) = [algo |-> l.algo, size |-> l.size, data |-> ChdPhLoad(q)]
  BY <1>19 DEF cmph_load, l
<1>21. Read(q, 5, 4) = z_ /\ Read(q, 6, z_) = b_
  BY <1>17 DEF Token
<1>22. ChdPhLoad(q).cs = compressed_seq_load(b_, 0)
  BY <1>21 DEF ChdPhLoad
<1> QED
  BY <1>5, <1>19, <1>20, <1>22 DEF b_

-----------------------------------------------------------------------------
(* chd, with the compressed rank. *)

\* The two parts of a chd, and what it says of their sizes.
ChdCounts(d) ==
    /\ d.packed_cr_size \in Nat /\ Sized(d.packed_cr, d.packed_cr_size)
    /\ d.packed_chd_phf_size \in Nat /\ Sized(d.packed_chd_phf, d.packed_chd_phf_size)

\* cmph_pack fills what cmph_packed_size says: chd.
LEMMA ChdFits ==
    ASSUME NEW f, f.algo = "chd", ChdCounts(f.data)
    PROVE  Size(cmph_pack(f)) = cmph_packed_size(f) /\ cmph_packed_size(f) \in Nat
<1> DEFINE d == f.data
           x == d.packed_cr_size
           y == d.packed_chd_phf_size
           sx == W(4, x)
           sy == W(4, y)
           cr == d.packed_cr
           ph == d.packed_chd_phf
           z == 4 + x + 4 + y
<1>1. Sized(cr, x) /\ Sized(ph, y) /\ x \in Nat /\ y \in Nat
  BY DEF ChdCounts
<1>2. Sized(sx, 4) /\ Sized(sy, 4)
  BY Pieces, Zenon DEF Block
<1>3. ChdPack(d) = sx \o cr \o sy \o ph
  BY Zenon DEF ChdPack
<1>4. cmph_pack(f) = W(4, f.algo) \o ChdPack(d)
  BY DEF cmph_pack
<1>5. cmph_packed_size(f) = ChdPackedSize(d)
  BY DEF cmph_packed_size
<1>6. ChdPackedSize(d) = 4 + 2 * 4 + x + y
  BY DEF ChdPackedSize
<1> HIDE DEF d, x, y, sx, sy, cr, ph
<1>7. Sized(sx \o cr \o sy \o ph, z)
  BY <1>1, <1>2, Joins, Zenon
<1> HIDE DEF z
<1>8. Size(W(4, f.algo) \o ChdPack(d)) = 4 + z /\ 4 + z \in Nat
  BY <1>3, <1>7, SizeWithAlgo, Zenon
<1>9. 4 + 2 * 4 + x + y = 4 + z
  BY <1>1 DEF z
<1> QED
  BY <1>4, <1>5, <1>6, <1>8, <1>9

\* The counts of a function that was dumped and loaded: chd.
LEMMA ChdReloads ==
    ASSUME NEW f, f.algo = "chd", f.size \in Int, ChdCounts(f.data)
    PROVE  LET g == cmph_load(cmph_dump(f))
           IN  g.algo = f.algo /\ g.size = f.size
               /\ g.data.packed_cr = f.data.packed_cr /\ g.data.packed_cr_size = f.data.packed_cr_size
               /\ g.data.packed_chd_phf = f.data.packed_chd_phf
               /\ g.data.packed_chd_phf_size = f.data.packed_chd_phf_size
<1> DEFINE h == cmph_dump_head(f)
           x_ == f.data.packed_chd_phf_size
           a_ == f.data.packed_chd_phf
           y_ == f.data.packed_cr_size
           b_ == f.data.packed_cr
           x == W(4, x_)
           a == W(x_, a_)
           y == W(4, y_)
           b == W(y_, b_)
           q == h \o x \o a \o y \o b
<1>0. x_ \in Nat /\ y_ \in Nat
  BY DEF ChdCounts
<1>1. Block(x, 4, 1) /\ Block(y, 4, 1)
  BY Pieces, Zenon
<1>1a. Block(a, x_, 1) /\ Block(b, y_, 1)
  <2> HIDE DEF x_, a_, y_, b_
  <2> QED
    BY <1>0, SizedW, Zenon DEF Block
<1>2. f.algo \in DOMAIN NameBytes
  BY DEF NameBytes
<1>3. (\E z : Block(h, z, 2)) /\ Begins(h, f.algo, f.size)
  BY <1>2, HeadBegins, Zenon
<1>5. cmph_dump(f) = q
  BY DEF cmph_dump, ChdDump
<1>6. x = W(4, x_) /\ a = W(x_, a_) /\ y = W(4, y_) /\ b = W(y_, b_)
  OBVIOUS
<1>6b. 4 \in Nat
  OBVIOUS
<1> HIDE DEF h, x, a, y, b, x_, a_, y_, b_
<1>6a. Filed(h, 2, f.algo, f.size)
  BY <1>3, Zenon DEF Filed
<1>7. Token(h \o x, 2 + 1, 4, x_)
  BY <1>6a, <1>6, <1>6b, FiledNext, Zenon
<1>8. Filed(h \o x, 2 + 1, f.algo, f.size)
  BY <1>1, <1>6a, FiledMore, Zenon
<1>9. Token(h \o x \o a, 2 + 1 + 1, x_, a_)
  BY <1>0, <1>8, <1>6, FiledNext, Zenon
<1>10. Token(h \o x \o a, 2 + 1, 4, x_)
  BY <1>1a, <1>7, <1>8, FiledStays, Zenon
<1>11. Filed(h \o x \o a, 2 + 1 + 1, f.algo, f.size)
  BY <1>1a, <1>8, FiledMore, Zenon
<1>12. Token(h \o x \o a \o y, 2 + 1 + 1 + 1, 4, y_)
  BY <1>11, <1>6, <1>6b, FiledNext, Zenon
<1>13. Token(h \o x \o a \o y, 2 + 1, 4, x_) /\ Token(h \o x \o a \o y, 2 + 1 + 1, x_, a_)
  BY <1>1, <1>9, <1>10, <1>11, FiledStays, Zenon
<1>14. Filed(h \o x \o a \o y, 2 + 1 + 1 + 1, f.algo, f.size)
  BY <1>1, <1>11, FiledMore, Zenon
<1>15. Token(h \o x \o a \o y \o b, 2 + 1 + 1 + 1 + 1, y_, b_)
  BY <1>0, <1>14, <1>6, FiledNext, Zenon
<1>16. Token(h \o x \o a \o y \o b, 2 + 1, 4, x_) /\ Token(h \o x \o a \o y \o b, 2 + 1 + 1, x_, a_)
       /\ Token(h \o x \o a \o y \o b, 2 + 1 + 1 + 1, 4, y_)
  BY <1>1a, <1>12, <1>13, <1>14, FiledStays, Zenon
<1>17. Filed(h \o x \o a \o y \o b, 2 + 1 + 1 + 1 + 1, f.algo, f.size)
  BY <1>1a, <1>14, FiledMore, Zenon
<1>18. /\ Filed(q, 2 + 1 + 1 + 1 + 1, f.algo, f.size)
       /\ Token(q, 2 + 1, 4, x_) /\ Token(q, 2 + 1 + 1, x_, a_)
       /\ Token(q, 2 + 1 + 1 + 1, 4, y_) /\ Token(q, 2 + 1 + 1 + 1 + 1, y_, b_)
  BY <1>15, <1>16, <1>17
<1> HIDE DEF q
<1>19. Headed(q, f.algo) /\ Read(q, 2, 4) = f.size
  BY <1>18, Zenon DEF Filed, Begins, Token
<1> DEFINE l == cmph_load_head(q)
<1>20. l = [algo |-> f.algo, size |-> f.size] /\ l # Null
  BY <1>2, <1>19, HeadedLoads
<1> HIDE DEF l
<1>21. cmph_load(q) = [algo |-> l.algo, size |-> l.size, data |-> ChdLoad(q)]
  BY <1>20 DEF cmph_load, l
<1>22. Read(q, 3, 4) = x_ /\ Read(q, 4, x_) = a_ /\ Read(q, 5, 4) = y_ /\ Read(q, 6, y_) = b_
  BY <1>18 DEF Token
<1>23. /\ ChdLoad(q).packed_chd_phf_size = x_ /\ ChdLoad(q).packed_chd_phf = a_
       /\ ChdLoad(q).packed_cr_size = y_ /\ ChdLoad(q).packed_cr = b_
  BY <1>22 DEF ChdLoad
<1> QED
  BY <1>5, <1>20, <1>21, <1>23 DEF x_, a_, y_, b_

\* What compressed_rank_packed_size goes by.
RankCounts(cr) ==
    /\ cr.n \in Nat /\ cr.rem_r \in Nat /\ SelCounts(cr.sel)
    /\ IsTable(cr.vals_rems, BITS_TABLE_SIZE(cr.n, cr.rem_r))

\* compressed_rank_generate makes what compressed_rank_packed_size counts on.
LEMMA RankGenerated ==
    ASSUME NEW v, NEW n \in Nat, v[n - 1] \in Nat
    PROVE  RankCounts(compressed_rank_generate(v, n))
<1> DEFINE max == v[n - 1]
           rem == RankRemBits(max, n)
           q == max \div 2 ^ rem
           k == [i \in 0 .. q - 1 |->
                         CHOOSE j \in 0 .. n - 1 : /\ v[j] \div 2 ^ rem >= i + 1
                                                   /\ j > 0 => v[j - 1] \div 2 ^ rem < i + 1]
           sel == select_generate(k, q, n)
           cr == compressed_rank_generate(v, n)
<1>1. rem \in Nat /\ max \in Nat
  BY RemBitsNat
<1>2. q \in Nat
  <2> HIDE DEF max, rem
  <2>1. 2 ^ rem \in Nat \ {0}
    BY <1>1, PowerOfTwo
  <2> QED
    BY <1>1, <2>1, DivNat
<1>3. SelCounts(sel)
  <2> HIDE DEF k, q
  <2> QED
    BY <1>2, SelectGenerated
<1>4. cr = [max_val |-> max, n |-> n, rem_r |-> rem, vals_rems |-> LowBits(v, n, rem), sel |-> sel]
  BY Zenon DEF compressed_rank_generate
<1> HIDE DEF cr, sel
<1>5. cr.n = n /\ cr.rem_r = rem /\ cr.vals_rems = LowBits(v, n, rem) /\ cr.sel = sel
  BY <1>4
<1>6. IsTable(LowBits(v, n, rem), BITS_TABLE_SIZE(n, rem))
  <2> HIDE DEF rem
  <2> QED
    BY <1>1, LowBitsIs, TableSizeNat, Zenon DEF IsTable
<1>7. RankCounts(cr)
  <2> HIDE DEF rem
  <2> QED
    BY <1>1, <1>3, <1>5, <1>6, Zenon DEF RankCounts
<1> QED
  BY <1>7 DEF cr

\* compressed_rank_pack writes compressed_rank_packed_size bytes.
LEMMA RankSized ==
    ASSUME NEW cr, RankCounts(cr)
    PROVE  LET z == compressed_rank_packed_size(cr)
           IN  z \in Nat /\ Sized(compressed_rank_pack(cr), z)
<1> DEFINE a == cr.max_val
           b == cr.n
           c == cr.rem_r
           sel == cr.sel
           d == select_packed_size(sel)
           x == SelWords(sel)
           y == BITS_TABLE_SIZE(b, c)
           s == W(4, a) \o W(4, b) \o W(4, c) \o W(4, d) \o select_dump(sel)
           t == TableTokens(cr.vals_rems)
<1>1. SelCounts(sel)
  BY DEF RankCounts
<1>2. Words(s, 1 + 1 + 1 + 1 + x)
  <2> HIDE DEF a, b, c, sel, d, x
  <2> QED
    BY <1>1, FourThenSel, Zenon DEF x
<1>3. Words(t, y) /\ y \in Nat
  BY TableWords DEF RankCounts, IsTable
<1>4. d = 4 * x /\ x \in Nat
  BY <1>1, SelectWords
<1>5. compressed_rank_pack(cr) = s \o t
  BY Zenon DEF compressed_rank_pack, compressed_rank_dump
<1>6. compressed_rank_packed_size(cr) = 4 * 4 + d + 4 * y
  BY Zenon DEF compressed_rank_packed_size
<1> HIDE DEF a, b, c, sel, d, x, y, s, t
<1>7. Words(s \o t, 1 + 1 + 1 + 1 + x + y)
  BY <1>2, <1>3, WordsJoin, Zenon
<1>8. 4 * 4 + d + 4 * y = 4 * (1 + 1 + 1 + 1 + x + y) /\ 4 * 4 + d + 4 * y \in Nat
  BY <1>3, <1>4
<1>9. Sized(s \o t, 4 * (1 + 1 + 1 + 1 + x + y))
  BY <1>7, Zenon DEF Words, Block
<1> QED
  BY <1>5, <1>6, <1>8, <1>9

\* The bins that stay empty, which chd ranks, are a sequence of numbers.
LEMMA EmptyBinsAre ==
    ASSUME NEW o, NEW n \in Nat
    PROVE  EmptyBins(o, n) \in Seq(Nat)
<1> DEFINE V == Seq(Nat)
           b == << >>
           Next_(s, i) == IF o[i] = 0 THEN Append(s, i) ELSE s
           Body(f) == [i \in 0 .. Len(Upto(n)) |-> IF i = 0 THEN b
                          ELSE CHOOSE r \in {Next_(x, Upto(n)[i]) : x \in {f[i - 1]}} : r = r]
           F == CHOOSE f : f = Body(f)
           S == [i \in 0 .. n |-> V]
           step == [p \in V \X (1 .. n) |-> Next_(p[1], p[2] - 1)]
<1>1. EmptyBins(o, n) = F[Len(Upto(n))]
  BY DEF EmptyBins, Filter, Fold
<1>2. Len(Upto(n)) = n /\ \A i \in 1 .. n : Upto(n)[i] = i - 1
  BY DEF Upto
<1>3. ASSUME NEW f PROVE Body(f) = [i \in 0 .. n |-> IF i = 0 THEN b ELSE Next_(f[i - 1], i - 1)]
  <2> HIDE DEF Next_, b, V, S, step
  <2> QED
    BY <1>2, OnlyOne
<1> HIDE DEF Body, F
<1>4. ASSUME NEW i \in 1 .. n, NEW x \in V PROVE Next_(x, i - 1) \in V
  <2> DEFINE j == i - 1
  <2>1. j \in Nat
    OBVIOUS
  <2> HIDE DEF j
  <2> QED
    BY <2>1
<1>5. ASSUME NEW i \in 1 .. n, NEW x \in V PROVE step[<<x, i>>] = Next_(x, i - 1)
  OBVIOUS
<1>6. \A i \in 0 .. n : S[i] = V
  OBVIOUS
<1>7. b \in V
  OBVIOUS
<1> HIDE DEF V, S, step, Next_, b
<1>8. PICK f : Runs(f, n, b, S, step)
  <2>1. b \in S[0]
    BY <1>6, <1>7
  <2>2. \A i \in 1 .. n : \A x \in S[i - 1] : step[<<x, i>>] \in S[i]
    <3> TAKE i \in 1 .. n
    <3>1. i \in 0 .. n /\ i - 1 \in 0 .. n
      OBVIOUS
    <3> QED
      BY <1>4, <1>5, <1>6, <3>1
  <2> QED
    BY <2>1, <2>2, Loop
<1>9. f = Body(f)
  <2>1. f = [i \in 0 .. n |-> f[i]] /\ f[0] = b
    BY <1>8 DEF Runs
  <2>2. ASSUME NEW i \in 1 .. n PROVE f[i] = Next_(f[i - 1], i - 1)
    <3>1. i - 1 \in 0 .. n
      OBVIOUS
    <3>2. f[i - 1] \in V /\ f[i] = step[<<f[i - 1], i>>]
      BY <1>6, <1>8, <3>1 DEF Runs
    <3> QED
      BY <1>5, <3>2
  <2>3. \A i \in 0 .. n : f[i] = IF i = 0 THEN b ELSE Next_(f[i - 1], i - 1)
    <3> TAKE i \in 0 .. n
    <3>1. i = 0 \/ i \in 1 .. n
      OBVIOUS
    <3>2. CASE i = 0
      BY <2>1, <3>2
    <3>3. CASE i \in 1 .. n
      <4>1. i # 0
        BY <3>3
      <4> QED
        BY <2>2, <3>3, <4>1
    <3> QED
      BY <3>1, <3>2, <3>3
  <2> QED
    BY <1>3, <2>1, <2>3
<1>10. F = Body(F)
  BY <1>9 DEF F
<1>11. F[0] = b /\ \A i \in 1 .. n : F[i] = Next_(F[i - 1], i - 1)
  BY <1>3, <1>10
<1>12. \A i \in 0 .. n : F[i] \in S[i]
  <2>1. F[0] \in S[0]
    BY <1>6, <1>7, <1>11
  <2>2. \A i \in 1 .. n : F[i - 1] \in S[i - 1] => F[i] \in S[i]
    <3> TAKE i \in 1 .. n
    <3>1. i \in 0 .. n /\ i - 1 \in 0 .. n
      OBVIOUS
    <3> QED
      BY <1>4, <1>6, <1>11, <3>1
  <2> QED
    BY <2>1, <2>2, RoundsKeep
<1>13. F[n] \in V
  BY <1>6, <1>12
<1> QED
  BY <1>1, <1>2, <1>13 DEF V

\* What is made of a table in which fewer keys than bins are placed.
LEMMA ChdDataCounts ==
    ASSUME NEW t, data.nbuckets \in Nat \ {0}, data.n \in Nat, m \in Nat, data.n > m
    PROVE  ChdCounts(ChdData(t))
<1> DEFINE cs == compressed_seq_generate(t.disp, data.nbuckets)
           e == ChdPhData(t)
           p == ChdPhPack(e)
           z == 4 + 4 + 4 + 4 + compressed_seq_packed_size(cs)
           w == W(4, "chd_ph")
           empty == EmptyBins(t.occup, data.n)
           nvals == data.n - m
           v == [i \in 0 .. nvals - 1 |-> IF i < Len(empty) THEN empty[i + 1] ELSE 0]
           cr == compressed_rank_generate(v, nvals)
           d == ChdData(t)
<1>1. SeqCounts(cs) /\ e.cs = cs
  BY SeqGenerated DEF ChdPhData
<1>2. compressed_seq_packed_size(cs) \in Nat
  <2> HIDE DEF cs
  <2> QED
    BY <1>1, SeqSized
<1>3. Sized(p, z)
  <2> HIDE DEF e, cs
  <2> QED
    BY <1>1, ChdPhPackIs_
<1>4. Size(p) = z /\ z \in Nat
  <2> HIDE DEF p, z
  <2> QED
    BY <1>3, SizedIs, Zenon
<1>5. Sized(w \o p, 4 + z)
  <2>1. Sized(w, 4)
    BY Pieces, Zenon DEF Block
  <2> HIDE DEF w, p, z
  <2> QED
    BY <1>3, <2>1, SizedJoin, Zenon
<1>6. nvals \in Nat /\ nvals - 1 \in 0 .. nvals - 1 /\ nvals - 1 \in Nat
  BY DEF m
<1>7. v[nvals - 1] \in Nat
  <2>1. empty \in Seq(Nat)
    BY EmptyBinsAre
  <2> DEFINE i == nvals - 1
  <2> HIDE DEF empty
  <2>2. v[i] = IF i < Len(empty) THEN empty[i + 1] ELSE 0
    BY <1>6
  <2>3. i \in Nat
    BY <1>6
  <2> HIDE DEF i
  <2>4. i < Len(empty) => empty[i + 1] \in Nat
    BY <2>1, <2>3
  <2> QED
    BY <2>2, <2>4 DEF i
<1>8. RankCounts(cr)
  <2> HIDE DEF v, nvals
  <2> QED
    BY <1>6, <1>7, RankGenerated
<1>9. compressed_rank_packed_size(cr) \in Nat /\ Sized(compressed_rank_pack(cr), compressed_rank_packed_size(cr))
  <2> HIDE DEF cr
  <2> QED
    BY <1>8, RankSized
<1>10. /\ d.packed_chd_phf = w \o p /\ d.packed_chd_phf_size = 4 + Size(p)
       /\ d.packed_cr = compressed_rank_pack(cr) /\ d.packed_cr_size = compressed_rank_packed_size(cr)
  BY DEF ChdData
<1> HIDE DEF d, cr, p, w, z
<1>11. 4 + z \in Nat
  BY <1>4
<1>12. ChdCounts(d)
  BY <1>4, <1>5, <1>9, <1>10, <1>11 DEF ChdCounts
<1> QED
  BY <1>12 DEF d

\* What brz_packed_size goes by.
BrzCounts(d) ==
    /\ d.algo \in {"fch", "bmz8"} /\ d.k \in Nat /\ d.c \in Nat \X (Nat \ {0})
    /\ \A b \in 0 .. d.k - 1 : d.size[b] \in 0 .. MAX_BUCKET_SIZE

\* The cells of a bucket of brz as bytes.
LEMMA GBytesAre ==
    ASSUME NEW g, NEW n \in Nat
    PROVE  Block(GBytes(g, n), 1 * n, n)
  BY Pieces, Zenon DEF GBytes

\* A bucket that is packed behind the others: two hashes and its cells.
LEMMA OneBlock ==
    ASSUME NEW d, NEW b, NEW s, NEW x, Sized(s, x), BucketCells(d.algo, d.c, d.size[b]) \in Nat
    PROVE  Sized(s \o hash_state_pack(d.h1[b]) \o hash_state_pack(d.h2[b])
                   \o GBytes(d.g[b], BucketCells(d.algo, d.c, d.size[b])),
                 x + 2 * hash_state_packed_size + BucketCells(d.algo, d.c, d.size[b]))
<1> DEFINE n == BucketCells(d.algo, d.c, d.size[b])
           p1 == hash_state_pack(d.h1[b])
           p2 == hash_state_pack(d.h2[b])
           r == GBytes(d.g[b], n)
<1>1. n \in Nat
  OBVIOUS
<1>2. Sized(p1, 4) /\ Sized(p2, 4)
  BY Pieces, Zenon DEF Block
<1>3. Sized(r, 1 * n)
  <2> HIDE DEF n
  <2> QED
    BY <1>1, GBytesAre, Zenon DEF Block
<1>4. x \in Nat
  BY SizedIs, Zenon
<1> HIDE DEF n, p1, p2, r
<1>5. Sized(s \o p1 \o p2 \o r, x + 4 + 4 + 1 * n)
  BY <1>2, <1>3, Joins, Zenon
<1>6. x + 4 + 4 + 1 * n = x + 2 * 4 + n
  BY <1>1, <1>4
<1>7. Sized(s \o p1 \o p2 \o r, x + 2 * 4 + n)
  BY <1>5, <1>6
<1> QED
  BY <1>7, Zenon DEF hash_state_packed_size, n, p1, p2, r

\* Nothing has no bytes.
LEMMA NothingSized == Sized(<< >>, 0)
<1> DEFINE f == [i \in 0 .. 0 |-> 0]
<1>1. << >> \in Seq({0}) /\ Len(<< >>) = 0
  OBVIOUS
<1>2. f \in [0 .. Len(<< >>) -> Nat] /\ f[0] = 0
  OBVIOUS
<1> HIDE DEF f
<1> QED
  BY <1>1, <1>2 DEF Sized

\* BucketsPack, bucket by bucket.
LEMMA PackOfBuckets ==
    ASSUME NEW d, NEW n \in Nat, n = d.k
    PROVE  \E F : /\ BucketsPack(d) = F[n] /\ F[0] = << >>
                  /\ \A i \in 1 .. n : F[i] =
                        F[i - 1] \o hash_state_pack(d.h1[i - 1]) \o hash_state_pack(d.h2[i - 1])
                          \o GBytes(d.g[i - 1], BucketCells(d.algo, d.c, d.size[i - 1]))
<1> DEFINE Next_(s, b_) == s \o hash_state_pack(d.h1[b_]) \o hash_state_pack(d.h2[b_])
                            \o GBytes(d.g[b_], BucketCells(d.algo, d.c, d.size[b_]))
           b == << >>
           Body(f) == [i \in 0 .. Len(Upto(n)) |-> IF i = 0 THEN b
                          ELSE CHOOSE r \in {Next_(x, Upto(n)[i]) : x \in {f[i - 1]}} : r = r]
           F == CHOOSE f : f = Body(f)
<1>1. BucketsPack(d) = F[Len(Upto(n))]
  BY DEF BucketsPack, Fold
<1>2. Len(Upto(n)) = n /\ n \in Nat
  BY DEF Upto
<1>3. ASSUME NEW f PROVE Body(f) = [i \in 0 .. n |-> IF i = 0 THEN b ELSE Next_(f[i - 1], Upto(n)[i])]
  <2> HIDE DEF Next_, b
  <2> QED
    BY <1>2, OnlyOne
<1> HIDE DEF Body, F, Next_, b
<1> DEFINE Is(f, k) == /\ f = [i \in 0 .. k |-> f[i]] /\ f[0] = b
                       /\ \A i \in 1 .. k : f[i] = Next_(f[i - 1], Upto(n)[i])
           T == {k \in Nat : \E f : Is(f, k)}
<1>4. 0 \in T
  <2>1. Is([i \in 0 .. 0 |-> b], 0)
    OBVIOUS
  <2> QED
    BY <2>1
<1>5. ASSUME NEW k \in Nat, k \in T PROVE k + 1 \in T
  <2>1. PICK f : Is(f, k)
    BY <1>5
  <2> DEFINE y == Next_(f[k], Upto(n)[k + 1])
             g == [i \in 0 .. k + 1 |-> IF i = k + 1 THEN y ELSE f[i]]
  <2>2. g[0] = b /\ g[k + 1] = y /\ g[k] = f[k]
    BY <2>1
  <2>3. \A i \in 1 .. k : g[i] = f[i] /\ g[i - 1] = f[i - 1]
    OBVIOUS
  <2>4. g = [i \in 0 .. k + 1 |-> g[i]]
    OBVIOUS
  <2> HIDE DEF g
  <2>5. \A i \in 1 .. k + 1 : g[i] = Next_(g[i - 1], Upto(n)[i])
    <3> TAKE i \in 1 .. k + 1
    <3>1. i \in 1 .. k \/ i = k + 1
      OBVIOUS
    <3>2. CASE i \in 1 .. k
      <4>1. f[i] = Next_(f[i - 1], Upto(n)[i])
        BY <2>1, <3>2
      <4> QED
        BY <2>3, <3>2, <4>1
    <3>3. CASE i = k + 1
      <4>1. i - 1 = k
        BY <3>3
      <4> QED
        BY <2>2, <3>3, <4>1
    <3> QED
      BY <3>1, <3>2, <3>3
  <2>6. Is(g, k + 1)
    BY <2>2, <2>4, <2>5
  <2> HIDE DEF Is
  <2>7. \E h : Is(h, k + 1)
    BY <2>6
  <2> QED
    BY <2>7
<1>6. n \in T
  <2> HIDE DEF T
  <2> QED
    BY <1>2, <1>4, <1>5, SetInduction
<1>7. PICK f : Is(f, n)
  BY <1>6
<1>8. f = Body(f)
  <2>1. \A i \in 0 .. n : f[i] = IF i = 0 THEN b ELSE Next_(f[i - 1], Upto(n)[i])
    <3> TAKE i \in 0 .. n
    <3>1. i = 0 \/ (i # 0 /\ i \in 1 .. n)
      BY <1>2
    <3>2. CASE i = 0
      BY <1>7, <3>2
    <3>3. CASE i # 0 /\ i \in 1 .. n
      BY <1>7, <3>3
    <3> QED
      BY <3>1, <3>2, <3>3
  <2>2. f = [i \in 0 .. n |-> IF i = 0 THEN b ELSE Next_(f[i - 1], Upto(n)[i])]
    BY <1>7, <2>1
  <2> QED
    BY <1>3, <2>2
<1>9. F = Body(F)
  BY <1>8 DEF F
<1>10. F[0] = b /\ \A i \in 1 .. n : F[i] = Next_(F[i - 1], Upto(n)[i])
  <2>1. F = [i \in 0 .. n |-> IF i = 0 THEN b ELSE Next_(F[i - 1], Upto(n)[i])]
    BY <1>3, <1>9
  <2> QED
    BY <1>2, <2>1
<1>11. \A i \in 1 .. n : Upto(n)[i] = i - 1
  BY DEF Upto
<1>12. BucketsPack(d) = F[n] /\ F[0] = << >> /\ \A i \in 1 .. n : F[i] = Next_(F[i - 1], i - 1)
  BY <1>1, <1>2, <1>10, <1>11 DEF b
<1> QED
  BY <1>12, Zenon DEF Next_

\* BucketsSize, bucket by bucket.
LEMMA SizeOfBuckets ==
    ASSUME NEW d, NEW n \in Nat, n = d.k
    PROVE  \E F : /\ BucketsSize(d) = F[n] /\ F[0] = 0
                  /\ \A i \in 1 .. n : F[i] =
                        F[i - 1] + 2 * hash_state_packed_size + BucketCells(d.algo, d.c, d.size[i - 1])
<1> DEFINE Next_(s, b_) == s + 2 * hash_state_packed_size + BucketCells(d.algo, d.c, d.size[b_])
           b == 0
           Body(f) == [i \in 0 .. Len(Upto(n)) |-> IF i = 0 THEN b
                          ELSE CHOOSE r \in {Next_(x, Upto(n)[i]) : x \in {f[i - 1]}} : r = r]
           F == CHOOSE f : f = Body(f)
<1>1. BucketsSize(d) = F[Len(Upto(n))]
  BY DEF BucketsSize, Fold
<1>2. Len(Upto(n)) = n /\ n \in Nat
  BY DEF Upto
<1>3. ASSUME NEW f PROVE Body(f) = [i \in 0 .. n |-> IF i = 0 THEN b ELSE Next_(f[i - 1], Upto(n)[i])]
  <2> HIDE DEF Next_, b
  <2> QED
    BY <1>2, OnlyOne
<1> HIDE DEF Body, F, Next_, b
<1> DEFINE Is(f, k) == /\ f = [i \in 0 .. k |-> f[i]] /\ f[0] = b
                       /\ \A i \in 1 .. k : f[i] = Next_(f[i - 1], Upto(n)[i])
           T == {k \in Nat : \E f : Is(f, k)}
<1>4. 0 \in T
  <2>1. Is([i \in 0 .. 0 |-> b], 0)
    OBVIOUS
  <2> QED
    BY <2>1
<1>5. ASSUME NEW k \in Nat, k \in T PROVE k + 1 \in T
  <2>1. PICK f : Is(f, k)
    BY <1>5
  <2> DEFINE y == Next_(f[k], Upto(n)[k + 1])
             g == [i \in 0 .. k + 1 |-> IF i = k + 1 THEN y ELSE f[i]]
  <2>2. g[0] = b /\ g[k + 1] = y /\ g[k] = f[k]
    BY <2>1
  <2>3. \A i \in 1 .. k : g[i] = f[i] /\ g[i - 1] = f[i - 1]
    OBVIOUS
  <2>4. g = [i \in 0 .. k + 1 |-> g[i]]
    OBVIOUS
  <2> HIDE DEF g
  <2>5. \A i \in 1 .. k + 1 : g[i] = Next_(g[i - 1], Upto(n)[i])
    <3> TAKE i \in 1 .. k + 1
    <3>1. i \in 1 .. k \/ i = k + 1
      OBVIOUS
    <3>2. CASE i \in 1 .. k
      <4>1. f[i] = Next_(f[i - 1], Upto(n)[i])
        BY <2>1, <3>2
      <4> QED
        BY <2>3, <3>2, <4>1
    <3>3. CASE i = k + 1
      <4>1. i - 1 = k
        BY <3>3
      <4> QED
        BY <2>2, <3>3, <4>1
    <3> QED
      BY <3>1, <3>2, <3>3
  <2>6. Is(g, k + 1)
    BY <2>2, <2>4, <2>5
  <2> HIDE DEF Is
  <2>7. \E h : Is(h, k + 1)
    BY <2>6
  <2> QED
    BY <2>7
<1>6. n \in T
  <2> HIDE DEF T
  <2> QED
    BY <1>2, <1>4, <1>5, SetInduction
<1>7. PICK f : Is(f, n)
  BY <1>6
<1>8. f = Body(f)
  <2>1. \A i \in 0 .. n : f[i] = IF i = 0 THEN b ELSE Next_(f[i - 1], Upto(n)[i])
    <3> TAKE i \in 0 .. n
    <3>1. i = 0 \/ (i # 0 /\ i \in 1 .. n)
      BY <1>2
    <3>2. CASE i = 0
      BY <1>7, <3>2
    <3>3. CASE i # 0 /\ i \in 1 .. n
      BY <1>7, <3>3
    <3> QED
      BY <3>1, <3>2, <3>3
  <2>2. f = [i \in 0 .. n |-> IF i = 0 THEN b ELSE Next_(f[i - 1], Upto(n)[i])]
    BY <1>7, <2>1
  <2> QED
    BY <1>3, <2>2
<1>9. F = Body(F)
  BY <1>8 DEF F
<1>10. F[0] = b /\ \A i \in 1 .. n : F[i] = Next_(F[i - 1], Upto(n)[i])
  <2>1. F = [i \in 0 .. n |-> IF i = 0 THEN b ELSE Next_(F[i - 1], Upto(n)[i])]
    BY <1>3, <1>9
  <2> QED
    BY <1>2, <2>1
<1>11. \A i \in 1 .. n : Upto(n)[i] = i - 1
  BY DEF Upto
<1>12. BucketsSize(d) = F[n] /\ F[0] = 0 /\ \A i \in 1 .. n : F[i] = Next_(F[i - 1], i - 1)
  BY <1>1, <1>2, <1>10, <1>11 DEF b
<1> QED
  BY <1>12, Zenon DEF Next_

\* The buckets take as many bytes as brz_packed_size has counted for them.
LEMMA BucketsFit ==
    ASSUME NEW d, d.k \in Nat, \A b \in 0 .. d.k - 1 : BucketCells(d.algo, d.c, d.size[b]) \in Nat
    PROVE  Sized(BucketsPack(d), BucketsSize(d))
<1> DEFINE n == d.k
<1>1. n \in Nat
  OBVIOUS
<1> DEFINE P(f, i) == f[i - 1] \o hash_state_pack(d.h1[i - 1]) \o hash_state_pack(d.h2[i - 1])
                          \o GBytes(d.g[i - 1], BucketCells(d.algo, d.c, d.size[i - 1]))
           Q(f, i) == f[i - 1] + 2 * hash_state_packed_size + BucketCells(d.algo, d.c, d.size[i - 1])
<1>2. PICK f : BucketsPack(d) = f[n] /\ f[0] = << >> /\ \A i \in 1 .. n : f[i] = P(f, i)
  BY <1>1, PackOfBuckets, Zenon
<1>3. PICK g : BucketsSize(d) = g[n] /\ g[0] = 0 /\ \A i \in 1 .. n : g[i] = Q(g, i)
  BY <1>1, SizeOfBuckets, Zenon
<1>4. ASSUME NEW i \in 1 .. n, Sized(f[i - 1], g[i - 1]) PROVE Sized(P(f, i), Q(g, i))
  <2> DEFINE j == i - 1
  <2>1. BucketCells(d.algo, d.c, d.size[j]) \in Nat
    BY <1>1
  <2>2. Sized(f[j], g[j])
    BY <1>4
  <2> HIDE DEF j
  <2>3. Sized(f[j] \o hash_state_pack(d.h1[j]) \o hash_state_pack(d.h2[j])
                   \o GBytes(d.g[j], BucketCells(d.algo, d.c, d.size[j])),
                 g[j] + 2 * hash_state_packed_size + BucketCells(d.algo, d.c, d.size[j]))
    BY <2>1, <2>2, OneBlock, Zenon
  <2> QED
    BY <2>3, Zenon DEF j
<1> HIDE DEF n, P, Q
<1> DEFINE T == {i \in Nat : i \in 0 .. n => Sized(f[i], g[i])}
<1>5. 0 \in T
  BY <1>2, <1>3, NothingSized
<1>6. ASSUME NEW i \in Nat, i \in T PROVE i + 1 \in T
  <2> SUFFICES ASSUME i + 1 \in 0 .. n PROVE Sized(f[i + 1], g[i + 1])
    OBVIOUS
  <2> DEFINE k == i + 1
  <2>1. i \in 0 .. n /\ k \in 1 .. n /\ k - 1 = i
    BY <1>1
  <2>2. Sized(f[k - 1], g[k - 1])
    BY <1>6, <2>1
  <2> HIDE DEF k
  <2>3. Sized(P(f, k), Q(g, k)) /\ f[k] = P(f, k) /\ g[k] = Q(g, k)
    BY <1>2, <1>3, <1>4, <2>1, <2>2
  <2> QED
    BY <2>3 DEF k
<1>7. n \in T
  <2> HIDE DEF T
  <2> QED
    BY <1>1, <1>5, <1>6, SetInduction
<1> QED
  BY <1>1, <1>2, <1>3, <1>7

-----------------------------------------------------------------------------
(* brz: the cells of its buckets, and its packed block. *)

\* The size of a bucket fits in a byte.
LEMMA MaxIs == MAX_BUCKET_SIZE \in Number
<1>1. Byte \in Nat /\ Word \in Nat /\ Byte <= Word
  BY StructsAssumption
<1>2. 2 ^ Byte \in Nat \ {0} /\ 2 ^ Byte <= 2 ^ Word /\ 2 ^ Word \in Nat
  BY <1>1, PowerOfTwo, PowerGrows
<1> QED
  BY <1>2 DEF MAX_BUCKET_SIZE, Number

\* A parameter c.
Fraction == Nat \X (Nat \ {0})

\* ceil(c * n) is a number.
LEMMA CeilTimesNat ==
    ASSUME NEW c \in Fraction, NEW k \in Nat
    PROVE  CeilTimes(c, k) \in Nat
<1>1. c[1] \in Nat /\ c[2] \in Nat \ {0}
  BY DEF Fraction
<1> DEFINE x == c[1]
           a == x * k
<1>2. a \in Nat
  <2>1. x \in Nat
    BY <1>1
  <2> HIDE DEF x
  <2> QED
    BY <2>1
<1> HIDE DEF a
<1>3. CeilDiv(a, c[2]) \in Nat
  BY <1>1, <1>2, CeilDivNat
<1> QED
  BY <1>3 DEF CeilTimes, a

\* A conversion to an unsigned type gives a number of that type.
LEMMA UnsignedNat ==
    ASSUME NEW x \in Int, NEW w \in Nat
    PROVE  Unsigned(x, w) \in Nat
<1> DEFINE p == 2 ^ w
<1>1. p \in Nat \ {0}
  BY PowerOfTwo
<1> HIDE DEF p
<1>2. x % p \in Nat
  BY <1>1
<1> QED
  BY <1>2 DEF Unsigned, p

\* The buckets of fch.
LEMMA FchCalcNat ==
    ASSUME NEW c \in Fraction, NEW k \in Number \ {0}
    PROVE  fch_calc_b(c, k) \in Nat
<1> DEFINE x == c[1]
           y == c[2]
           l == Log2[k] + 1000
           a == x * k * 1000
           b == y * l
<1>1. x \in Nat /\ y \in Nat \ {0}
  BY DEF Fraction
<1>2. k \in Nat /\ l \in Nat \ {0}
  <2>1. Log2[k] \in Nat
    BY StructsAssumption
  <2> QED
    BY <2>1, NumberIs
<1> HIDE DEF x, y, l
<1>3. a \in Nat
  <2>1. x * k \in Nat
    BY <1>1, <1>2
  <2> QED
    BY <2>1
<1>4. b \in Nat \ {0}
  BY <1>1, <1>2
<1> HIDE DEF a, b
<1>5. CeilDiv(a, b) \in Nat
  BY <1>3, <1>4, CeilDivNat
<1> QED
  BY <1>5 DEF fch_calc_b, a, b, x, y, l

\* The size of a bucket is a number of a word.
LEMMA SizesAreNumbers == \A x \in 0 .. MAX_BUCKET_SIZE : x \in Number /\ x \in Nat
<1>1. MAX_BUCKET_SIZE \in Nat /\ 2 ^ Word \in Nat /\ MAX_BUCKET_SIZE <= 2 ^ Word - 1
  <2>1. 2 ^ Word \in Nat
    BY StructsAssumption, PowerOfTwo
  <2> QED
    BY <2>1, MaxIs DEF Number
<1> HIDE DEF MAX_BUCKET_SIZE
<1> QED
  BY <1>1 DEF Number

\* A bucket has a number of cells.
LEMMA CellsNat ==
    ASSUME NEW a, NEW c \in Fraction, NEW x \in 0 .. MAX_BUCKET_SIZE
    PROVE  BucketCells(a, c, x) \in Nat
<1>1. x \in Number /\ x \in Nat
  BY SizesAreNumbers
<1>2. CASE x = 0
  BY <1>2 DEF BucketCells
<1>3. CASE x # 0
  <2>1. fch_calc_b(c, x) \in Nat /\ CeilTimes(c, x) \in Nat
    BY <1>1, <1>3, FchCalcNat, CeilTimesNat
  <2> QED
    BY <1>3, <2>1 DEF BucketCells
<1> QED
  BY <1>2, <1>3

\* Each bucket of a function has a number of cells.
LEMMA BrzCells ==
    ASSUME NEW d, BrzCounts(d)
    PROVE  \A b \in 0 .. d.k - 1 : BucketCells(d.algo, d.c, d.size[b]) \in Nat
<1> TAKE b \in 0 .. d.k - 1
<1>1. d.c \in Fraction /\ d.size[b] \in 0 .. MAX_BUCKET_SIZE
  BY DEF BrzCounts, Fraction
<1> QED
  BY <1>1, CellsNat

\* cmph_pack fills what cmph_packed_size says: brz.
LEMMA BrzFits ==
    ASSUME NEW f, f.algo = "brz", BrzCounts(f.data)
    PROVE  Size(cmph_pack(f)) = cmph_packed_size(f) /\ cmph_packed_size(f) \in Nat
<1> DEFINE d == f.data
           k == d.k
           x == BucketsSize(d)
           t == BucketsPack(d)
           y == d.c[1] \div d.c[2]
           w1 == W(4, d.algo)
           w2 == W(4, "jenkins")
           w3 == hash_state_pack(d.h0)
           w4 == W(4, k)
           w5 == W(8, y)
           a1 == Array(1, k, d.size)
           a2 == Array(4, k, d.offset)
           a3 == Array(8, k, [b \in 0 .. k - 1 |-> BucketStart(d, b)])
           z == 4 + 4 + 4 + 4 + 8 + 4 + 4 + 1 * k + 4 * k + 8 * k + x
<1>1. k \in Nat
  BY DEF BrzCounts
<1>2. Sized(t, x)
  <2> HIDE DEF d
  <2>1. BrzCounts(d)
    BY DEF d
  <2>2. d.k \in Nat /\ \A b \in 0 .. d.k - 1 : BucketCells(d.algo, d.c, d.size[b]) \in Nat
    BY <2>1, BrzCells DEF BrzCounts
  <2> QED
    BY <2>2, BucketsFit
<1>3. x \in Nat
  <2> HIDE DEF x, t
  <2> QED
    BY <1>2, SizedIs, Zenon
<1>4. /\ Sized(w1, 4) /\ Sized(w2, 4) /\ Sized(w3, 4) /\ Sized(w4, 4) /\ Sized(w5, 8)
      /\ Sized(a1, 1 * k) /\ Sized(a2, 4 * k) /\ Sized(a3, 8 * k)
  <2> HIDE DEF k
  <2> QED
    BY <1>1, Pieces, Zenon DEF Block
<1>5. BrzPack(d) = w1 \o w2 \o w3 \o w4 \o w5 \o w2 \o w2 \o a1 \o a2 \o a3 \o t
  BY Zenon DEF BrzPack
<1>6. cmph_pack(f) = W(4, f.algo) \o BrzPack(d)
  BY DEF cmph_pack
<1>7. cmph_packed_size(f) = BrzPackedSize(d)
  BY DEF cmph_packed_size
<1>8. BrzPackedSize(d) = 2 * 4 + 3 * 4 + 4 + 4 + 8 + 13 * k + x
  BY DEF BrzPackedSize, hash_state_packed_size
<1> HIDE DEF d, k, x, t, y, w1, w2, w3, w4, w5, a1, a2, a3
<1>9. Sized(w1 \o w2 \o w3 \o w4 \o w5 \o w2 \o w2 \o a1 \o a2 \o a3 \o t, z)
  BY <1>2, <1>4, Joins, Zenon
<1> HIDE DEF z
<1>10. Size(W(4, f.algo) \o BrzPack(d)) = 4 + z /\ 4 + z \in Nat
  BY <1>5, <1>9, SizeWithAlgo, Zenon
<1>11. 2 * 4 + 3 * 4 + 4 + 4 + 8 + 13 * k + x = 4 + z
  BY <1>1, <1>3 DEF z
<1> QED
  BY <1>6, <1>7, <1>8, <1>10, <1>11

-----------------------------------------------------------------------------
(* brz: the file that is written while it works. *)

\* A file that begins with the head that brz writes for data d.
BrzWritten(f, n, d, sz) ==
    /\ Filed(f, n, "brz", sz) /\ sz \in Int /\ BrzCounts(d) /\ d.k \in Number
    /\ Token(f, 3, 8, d.c) /\ Token(f, 4, 4, d.algo) /\ Token(f, 5, 4, d.k)
    /\ \A b \in 0 .. d.k - 1 : Token(f, 6 + b, 1, d.size[b])
\* A file that brz has begun.
BrzFile(f) == \E n, d, sz : BrzWritten(f, n, d, sz)

\* brz only writes behind what its file has.
LEMMA BrzFileGrows ==
    ASSUME NEW f, BrzFile(f), NEW t, NEW y, NEW k, Block(t, y, k)
    PROVE  BrzFile(f \o t)
<1>1. PICK n, d, sz : BrzWritten(f, n, d, sz)
  BY DEF BrzFile
<1>2. Filed(f, n, "brz", sz)
  BY <1>1 DEF BrzWritten
<1>3. Filed(f \o t, n + k, "brz", sz)
  BY <1>2, FiledMore, Zenon
<1>4. \A i, b, v : Token(f, i, b, v) => Token(f \o t, i, b, v)
  BY <1>2, FiledStays, Zenon
<1>5. BrzWritten(f \o t, n + k, d, sz)
  <2> DEFINE q == f \o t
  <2>1. Filed(q, n + k, "brz", sz) /\ \A i, b, v : Token(f, i, b, v) => Token(q, i, b, v)
    BY <1>3, <1>4
  <2> HIDE DEF q
  <2>2. BrzWritten(q, n + k, d, sz)
    BY <1>1, <2>1 DEF BrzWritten
  <2> QED
    BY <2>2 DEF q
<1> QED
  BY <1>5, Zenon DEF BrzFile

\* The counts of a function that was dumped and loaded: brz.
LEMMA BrzReloads ==
    ASSUME NEW f, BrzFile(f)
    PROVE  LET g == cmph_load(f) IN g.algo = "brz" /\ g.size \in Int /\ BrzCounts(g.data)
<1>1. PICK n, d, sz : BrzWritten(f, n, d, sz)
  BY DEF BrzFile
<1>2. Headed(f, "brz") /\ Read(f, 2, 4) = sz /\ sz \in Int
  BY <1>1, Zenon DEF BrzWritten, Filed, Begins, Token
<1>3. "brz" \in DOMAIN NameBytes
  BY DEF NameBytes
<1> DEFINE l == cmph_load_head(f)
<1>4. l = [algo |-> "brz", size |-> sz] /\ l # Null
  BY <1>2, <1>3, HeadedLoads
<1> HIDE DEF l
<1>5. cmph_load(f) = [algo |-> l.algo, size |-> l.size, data |-> BrzLoad(f)]
  BY <1>4 DEF cmph_load, l
<1> DEFINE e == BrzLoad(f)
<1>6. e.c = Read(f, 3, 8) /\ e.algo = Read(f, 4, 4) /\ e.k = Read(f, 5, 4)
      /\ e.size = ReadArray(f, 6, Read(f, 5, 4), 1)
  BY DEF BrzLoad
<1>7. Read(f, 3, 8) = d.c /\ Read(f, 4, 4) = d.algo /\ Read(f, 5, 4) = d.k /\ d.k \in Number
      /\ \A b \in 0 .. d.k - 1 : Read(f, 6 + b, 1) = d.size[b]
  BY <1>1 DEF BrzWritten, Token
<1>8. e.size = [j \in 0 .. d.k - 1 |-> Read(f, 6 + j, 1)]
  BY <1>6, <1>7 DEF ReadArray
<1> HIDE DEF e
<1>9. \A b \in 0 .. d.k - 1 : e.size[b] = d.size[b]
  BY <1>7, <1>8
<1>10. BrzCounts(e)
  <2>1. BrzCounts(d)
    BY <1>1 DEF BrzWritten
  <2> QED
    BY <1>6, <1>7, <1>9, <2>1 DEF BrzCounts
<1>11. l.algo = "brz" /\ l.size = sz /\ sz \in Int
  BY <1>2, <1>4
<1>12. cmph_load(f) = [algo |-> l.algo, size |-> l.size, data |-> e]
  BY <1>5 DEF e
<1> HIDE DEF BrzCounts
<1> QED
  BY <1>10, <1>11, <1>12

\* Each byte of an array is a token.
LEMMA ArrayTokens ==
    ASSUME NEW n \in Nat, NEW cell, NEW b \in 0 .. n - 1
    PROVE  Token(Array(1, n, cell), b + 1, 1, cell[b])
<1> DEFINE s == Array(1, n, cell)
<1>1. s = [i \in 1 .. n |-> [bytes |-> 1, val |-> cell[i - 1]]]
  BY DEF Array
<1>2. Len(s) = n
  BY SizedArray
<1> HIDE DEF s
<1>3. b + 1 \in 1 .. n /\ b + 1 - 1 = b
  OBVIOUS
<1>4. DOMAIN s = 1 .. n /\ s[b + 1] = [bytes |-> 1, val |-> cell[b]]
  BY <1>1, <1>3
<1>5. Token(s, b + 1, 1, cell[b])
  BY <1>2, <1>3, <1>4 DEF Token, Read
<1> QED
  BY <1>5 DEF s

\* The head that is written before the first bucket.
LEMMA BrzHeadIs ==
    ASSUME NEW size, m \in Number, data.algo \in {"fch", "bmz8"}, data.k \in Number, data.k \in Nat,
           data.c \in Fraction, \A b \in 0 .. data.k - 1 : size[b] \in 0 .. MAX_BUCKET_SIZE
    PROVE  BrzFile(BrzHead(size)) /\ \E y, n : Block(BrzHead(size), y, n)
<1> DEFINE f == [algo |-> "brz", size |-> m]
           k_ == data.k
           c_ == data.c
           a_ == data.algo
           sz == m
           h == cmph_dump_head(f)
           c == W(8, c_)
           a == W(4, a_)
           k == W(4, k_)
           r == Array(1, k_, size)
           ry == 1 * k_
           d == [algo |-> a_, k |-> k_, c |-> c_, size |-> size]
           q == h \o c \o a \o k \o r
<1>1. BrzHead(size) = q
  BY DEF BrzHead, cmph_dump_head
<1>2. (\E x : Block(h, x, 2)) /\ Begins(h, "brz", sz)
  <2>1. f.algo = "brz" /\ f.size = sz /\ f.algo \in DOMAIN NameBytes
    BY DEF NameBytes
  <2> HIDE DEF f, sz
  <2> QED
    BY <2>1, HeadBegins
<1>3. Block(c, 8, 1) /\ Block(a, 4, 1) /\ Block(k, 4, 1) /\ Block(r, ry, k_)
  BY Pieces, Zenon
<1>4. c = W(8, c_) /\ a = W(4, a_) /\ k = W(4, k_) /\ 4 \in Nat /\ 8 \in Nat
  OBVIOUS
<1>5. \A b \in 0 .. k_ - 1 : Token(r, b + 1, 1, size[b])
  <2> HIDE DEF r
  <2> TAKE b \in 0 .. k_ - 1
  <2> QED
    BY ArrayTokens DEF r
<1>6. BrzCounts(d) /\ k_ \in Number /\ k_ \in Nat /\ sz \in Int
  <2>1. sz \in Int
    BY NumberIs
  <2> QED
    BY <2>1 DEF BrzCounts, Fraction
<1>6a. d.c = c_ /\ d.algo = a_ /\ d.k = k_ /\ d.size = size
  OBVIOUS
<1> HIDE DEF h, c, a, k, r, ry, k_, c_, a_, sz, d, f
<1>7. Filed(h, 2, "brz", sz)
  BY <1>2, Zenon DEF Filed
<1>8. Filed(h \o c, 2 + 1, "brz", sz) /\ Token(h \o c, 2 + 1, 8, c_)
  BY <1>3, <1>4, <1>7, FiledMore, FiledNext, Zenon
<1> DEFINE q1 == h \o c
<1> HIDE DEF q1
<1>9. /\ Filed(q1 \o a, 2 + 1 + 1, "brz", sz)
      /\ Token(q1 \o a, 2 + 1 + 1, 4, a_) /\ Token(q1 \o a, 2 + 1, 8, c_)
  BY <1>3, <1>4, <1>8, FiledMore, FiledNext, FiledStays, Zenon DEF q1
<1> DEFINE q2 == q1 \o a
<1>9a. Filed(q2, 2 + 1 + 1, "brz", sz)
  BY <1>9 DEF q2
<1>9b. Token(q2, 2 + 1 + 1, 4, a_)
  BY <1>9 DEF q2
<1>9c. Token(q2, 2 + 1, 8, c_)
  BY <1>9 DEF q2
<1> HIDE DEF q2
<1>10a. Filed(q2 \o k, 2 + 1 + 1 + 1, "brz", sz)
  BY <1>3, <1>9a, FiledMore, Zenon
<1>10b. Token(q2 \o k, 2 + 1 + 1 + 1, 4, k_)
  BY <1>4, <1>9a, FiledNext, Zenon
<1>10c. Token(q2 \o k, 2 + 1 + 1, 4, a_)
  BY <1>3, <1>9a, <1>9b, FiledStays, Zenon
<1>10d. Token(q2 \o k, 2 + 1, 8, c_)
  BY <1>3, <1>9a, <1>9c, FiledStays, Zenon
<1> DEFINE q3 == q2 \o k
<1>10. /\ Filed(q3, 2 + 1 + 1 + 1, "brz", sz) /\ Token(q3, 2 + 1 + 1 + 1, 4, k_)
       /\ Token(q3, 2 + 1 + 1, 4, a_) /\ Token(q3, 2 + 1, 8, c_)
  BY <1>10a, <1>10b, <1>10c, <1>10d DEF q3
<1> HIDE DEF q3
<1>11a. Filed(q3 \o r, 2 + 1 + 1 + 1 + k_, "brz", sz)
  BY <1>3, <1>10, FiledMore, Zenon
<1>11b. Token(q3 \o r, 2 + 1 + 1 + 1, 4, k_)
  BY <1>3, <1>10, FiledStays, Zenon
<1>11c. Token(q3 \o r, 2 + 1 + 1, 4, a_)
  BY <1>3, <1>10, FiledStays, Zenon
<1>11d. Token(q3 \o r, 2 + 1, 8, c_)
  BY <1>3, <1>10, FiledStays, Zenon
<1>12. PICK x : Block(q3, x, 2 + 1 + 1 + 1)
  BY <1>10, Zenon DEF Filed
<1>13. \A b \in 0 .. k_ - 1 : Token(q3 \o r, 2 + 1 + 1 + 1 + (b + 1), 1, size[b])
  <2> TAKE b \in 0 .. k_ - 1
  <2>1. Token(r, b + 1, 1, size[b]) /\ Sized(r, ry)
    BY <1>3, <1>5, Zenon DEF Block
  <2> QED
    BY <1>12, <2>1, TokenShifts, Zenon
<1> DEFINE p == q3 \o r
<1>14. p = q
  BY Zenon DEF q1, q2, q3
<1>15. /\ Filed(p, 2 + 1 + 1 + 1 + k_, "brz", sz) /\ Token(p, 5, 4, k_)
       /\ Token(p, 4, 4, a_) /\ Token(p, 3, 8, c_)
       /\ \A b \in 0 .. k_ - 1 : Token(p, 6 + b, 1, size[b])
  <2> HIDE DEF p
  <2>1. /\ Filed(p, 2 + 1 + 1 + 1 + k_, "brz", sz) /\ Token(p, 2 + 1 + 1 + 1, 4, k_)
        /\ Token(p, 2 + 1 + 1, 4, a_) /\ Token(p, 2 + 1, 8, c_)
        /\ \A b \in 0 .. k_ - 1 : Token(p, 2 + 1 + 1 + 1 + (b + 1), 1, size[b])
    BY <1>11a, <1>11b, <1>11c, <1>11d, <1>13 DEF p
  <2>2. 2 + 1 = 3 /\ 2 + 1 + 1 = 4 /\ 2 + 1 + 1 + 1 = 5 /\ \A b \in 0 .. k_ - 1 : 2 + 1 + 1 + 1 + (b + 1) = 6 + b
    BY <1>6
  <2> QED
    BY <2>1, <2>2
<1> HIDE DEF p, q
<1>16. BrzWritten(p, 2 + 1 + 1 + 1 + k_, d, sz)
  BY <1>6, <1>6a, <1>15 DEF BrzWritten
<1>17. BrzFile(p)
  BY <1>16, Zenon DEF BrzFile
<1>18. \E y, n : Block(p, y, n)
  BY <1>15, Zenon DEF Filed
<1> QED
  BY <1>1, <1>14, <1>17, <1>18

\* The sizes of k buckets.
Sizes(k) == [0 .. k - 1 -> 0 .. MAX_BUCKET_SIZE]

\* brz_flush leaves the sizes of the buckets alone.
LEMMA FlushKeepsSize ==
    ASSUME NEW p, NEW h0, NEW k, "size" \in DOMAIN p
    PROVE  LET f == brz_flush(p, h0, k) IN "size" \in DOMAIN f /\ f.size = p.size
<1>1. \E x : brz_flush(p, h0, k) = [p EXCEPT !.buffer = << >>, !.usage = 0, !.files = x]
  BY DEF brz_flush
<1> QED
  BY <1>1

\* A key more in a bucket that is not full.
LEMMA SizeGrows ==
    ASSUME NEW k, NEW size \in Sizes(k), NEW b, size[b] # MAX_BUCKET_SIZE
    PROVE  [size EXCEPT ![b] = @ + 1] \in Sizes(k)
<1> DEFINE top == MAX_BUCKET_SIZE
<1>1. top \in Nat
  BY MaxIs, NumberIs
<1> HIDE DEF top
<1>2. size \in [0 .. k - 1 -> 0 .. top] /\ size[b] # top
  BY DEF Sizes, top
<1>3. [size EXCEPT ![b] = @ + 1] \in [0 .. k - 1 -> 0 .. top]
  <2>1. ASSUME b \in 0 .. k - 1 PROVE size[b] + 1 \in 0 .. top
    <3>1. size[b] \in 0 .. top
      BY <1>2, <2>1
    <3> QED
      BY <1>1, <1>2, <3>1
  <2> QED
    BY <1>2, <2>1
<1> QED
  BY <1>3 DEF Sizes, top

\* brz_partition counts no bucket beyond a byte: it fails first.
LEMMA PartitionSizes ==
    ASSUME NEW size0 \in Sizes(data.k), NEW h0, m \in Nat
    PROVE  brz_partition(size0, h0).size \in Sizes(data.k)
<1> DEFINE kk == data.k
           n == m
           Next_(p, key) ==
               LET f == IF p.usage + Bytes4(key) > mph.memory THEN brz_flush(p, h0, kk) ELSE p
               IN  IF p.failed THEN p
                   ELSE IF TooLarge(p.size[Bucket(h0, key, kk)]) THEN [f EXCEPT !.failed = TRUE]
                   ELSE [f EXCEPT !.buffer = Append(@, key), !.usage = @ + Bytes4(key),
                                  !.size[Bucket(h0, key, kk)] = @ + 1]
           b == [buffer |-> << >>, usage |-> 0, files |-> << >>, size |-> size0, failed |-> FALSE]
           Body(f) == [i \in 0 .. Len(mph.keys) |-> IF i = 0 THEN b
                          ELSE CHOOSE r \in {Next_(x, mph.keys[i]) : x \in {f[i - 1]}} : r = r]
           F == CHOOSE f : f = Body(f)
           Sound(p) == "size" \in DOMAIN p /\ p.size \in Sizes(kk)
<1>0. brz_partition(size0, h0) =
         LET all == F[Len(mph.keys)]
         IN  IF all.failed \/ all.usage = 0 THEN all ELSE brz_flush(all, h0, kk)
  BY DEF brz_partition, Fold
<1>a. Sound(b)
  OBVIOUS
<1>b. ASSUME NEW p, NEW key, Sound(p) PROVE Sound(Next_(p, key))
  <2> DEFINE f == IF p.usage + Bytes4(key) > mph.memory THEN brz_flush(p, h0, kk) ELSE p
             c == Bucket(h0, key, kk)
             g == [f EXCEPT !.failed = TRUE]
             s == [f.size EXCEPT ![c] = @ + 1]
             w == [f EXCEPT !.buffer = Append(@, key), !.usage = @ + Bytes4(key), !.size[c] = @ + 1]
  <2>1. "size" \in DOMAIN f /\ f.size = p.size
    BY <1>b, FlushKeepsSize
  <2> HIDE DEF f, c
  <2>2. Sound(g)
    BY <1>b, <2>1
  <2>3. ASSUME p.size[c] # MAX_BUCKET_SIZE PROVE Sound(w)
    <3>1. s \in Sizes(kk)
      BY <1>b, <2>1, <2>3, SizeGrows
    <3>2. "size" \in DOMAIN w /\ w.size = s
      BY <2>1
    <3> HIDE DEF w, s
    <3> QED
      BY <3>1, <3>2
  <2>4. TooLarge(p.size[c]) \/ p.size[c] # MAX_BUCKET_SIZE
    BY DEF TooLarge
  <2>5. Next_(p, key) = IF p.failed THEN p ELSE IF TooLarge(p.size[c]) THEN g ELSE w
    BY Zenon DEF f, c
  <2> HIDE DEF g, w, Next_, Sound
  <2> QED
    BY <1>b, <2>2, <2>3, <2>4, <2>5, Zenon
<1>2. Len(mph.keys) = n /\ n \in Nat
  BY DEF m
<1>3. ASSUME NEW f PROVE Body(f) = [i \in 0 .. n |-> IF i = 0 THEN b ELSE Next_(f[i - 1], mph.keys[i])]
  <2> HIDE DEF Next_, b
  <2> QED
    BY <1>2, OnlyOne
<1> HIDE DEF Body, F, Next_, b, n, Sound
<1> DEFINE Is(f, k) == /\ f = [i \in 0 .. k |-> f[i]] /\ f[0] = b
                       /\ \A i \in 1 .. k : f[i] = Next_(f[i - 1], mph.keys[i])
           T == {k \in Nat : \E f : Is(f, k)}
<1>4. 0 \in T
  <2>1. Is([i \in 0 .. 0 |-> b], 0)
    OBVIOUS
  <2> QED
    BY <2>1
<1>5. ASSUME NEW k \in Nat, k \in T PROVE k + 1 \in T
  <2>1. PICK f : Is(f, k)
    BY <1>5
  <2> DEFINE y == Next_(f[k], mph.keys[k + 1])
             g == [i \in 0 .. k + 1 |-> IF i = k + 1 THEN y ELSE f[i]]
  <2>2. g[0] = b /\ g[k + 1] = y /\ g[k] = f[k]
    BY <2>1
  <2>3. \A i \in 1 .. k : g[i] = f[i] /\ g[i - 1] = f[i - 1]
    OBVIOUS
  <2>4. g = [i \in 0 .. k + 1 |-> g[i]]
    OBVIOUS
  <2> HIDE DEF g
  <2>5. \A i \in 1 .. k + 1 : g[i] = Next_(g[i - 1], mph.keys[i])
    <3> TAKE i \in 1 .. k + 1
    <3>1. i \in 1 .. k \/ i = k + 1
      OBVIOUS
    <3>2. CASE i \in 1 .. k
      <4>1. f[i] = Next_(f[i - 1], mph.keys[i])
        BY <2>1, <3>2
      <4> QED
        BY <2>3, <3>2, <4>1
    <3>3. CASE i = k + 1
      <4>1. i - 1 = k
        BY <3>3
      <4> QED
        BY <2>2, <3>3, <4>1
    <3> QED
      BY <3>1, <3>2, <3>3
  <2>6. Is(g, k + 1)
    BY <2>2, <2>4, <2>5
  <2> HIDE DEF Is
  <2>7. \E h : Is(h, k + 1)
    BY <2>6
  <2> QED
    BY <2>7
<1>6. n \in T
  <2> HIDE DEF T
  <2> QED
    BY <1>2, <1>4, <1>5, SetInduction
<1>7. PICK f : Is(f, n)
  BY <1>6
<1>8. f = Body(f)
  <2>1. \A i \in 0 .. n : f[i] = IF i = 0 THEN b ELSE Next_(f[i - 1], mph.keys[i])
    <3> TAKE i \in 0 .. n
    <3>1. i = 0 \/ (i # 0 /\ i \in 1 .. n)
      BY <1>2
    <3>2. CASE i = 0
      BY <1>7, <3>2
    <3>3. CASE i # 0 /\ i \in 1 .. n
      BY <1>7, <3>3
    <3> QED
      BY <3>1, <3>2, <3>3
  <2>2. f = [i \in 0 .. n |-> IF i = 0 THEN b ELSE Next_(f[i - 1], mph.keys[i])]
    BY <1>7, <2>1
  <2> QED
    BY <1>3, <2>2
<1>9. F = Body(F)
  BY <1>8 DEF F
<1>10. F[0] = b /\ \A i \in 1 .. n : F[i] = Next_(F[i - 1], mph.keys[i])
  <2>1. F = [i \in 0 .. n |-> IF i = 0 THEN b ELSE Next_(F[i - 1], mph.keys[i])]
    BY <1>3, <1>9
  <2> QED
    BY <1>2, <2>1
<1> DEFINE U == {i \in Nat : i \in 0 .. n => Sound(F[i])}
<1>11. 0 \in U
  BY <1>a, <1>10
<1>12. ASSUME NEW i \in Nat, i \in U PROVE i + 1 \in U
  <2> SUFFICES ASSUME i + 1 \in 0 .. n PROVE Sound(F[i + 1])
    OBVIOUS
  <2>1. i \in 0 .. n /\ i + 1 \in 1 .. n /\ (i + 1) - 1 = i
    BY <1>2
  <2>2. F[i + 1] = Next_(F[i], mph.keys[i + 1])
    BY <1>10, <2>1
  <2>3. Sound(F[i])
    BY <1>12, <2>1
  <2> QED
    BY <1>b, <2>2, <2>3
<1>13. n \in U
  <2> HIDE DEF U
  <2> QED
    BY <1>2, <1>11, <1>12, SetInduction
<1>14. Sound(F[n])
  BY <1>2, <1>13
<1> DEFINE all == F[n]
<1>15. "size" \in DOMAIN all /\ all.size \in Sizes(kk)
  BY <1>14 DEF Sound
<1>16. brz_partition(size0, h0) = IF all.failed \/ all.usage = 0 THEN all ELSE brz_flush(all, h0, kk)
  BY <1>0, <1>2
<1> HIDE DEF all
<1>17. brz_flush(all, h0, kk).size = all.size
  BY <1>15, FlushKeepsSize
<1> QED
  BY <1>15, <1>16, <1>17

-----------------------------------------------------------------------------
(* brz: the keys of a bucket. *)

\* A sequence, of whatever it is.
IsSeq(s) == \E T : s \in Seq(T)

\* A sequence with one element more.
LEMMA AppendIsSeq ==
    ASSUME NEW s, IsSeq(s), NEW x
    PROVE  IsSeq(Append(s, x)) /\ Len(s) \in Nat /\ Len(Append(s, x)) = Len(s) + 1
<1>1. PICK T : s \in Seq(T)
  BY DEF IsSeq
<1> DEFINE U == T \cup {x}
<1>2. s \in Seq(U) /\ x \in U
  BY <1>1
<1> HIDE DEF U
<1>3. Append(s, x) \in Seq(U) /\ Len(s) \in Nat /\ Len(Append(s, x)) = Len(s) + 1
  BY <1>2
<1> QED
  BY <1>3 DEF IsSeq

\* The keys of a bucket that were read from one file, behind those of the others.
LEMMA BucketIsSeq ==
    ASSUME NEW d, NEW j, IsSeq(d.keys_vd), m \in Nat
    PROVE  IsSeq(SameBucket(d, j).keys_vd)
<1> DEFINE n == m
           NextKey(bm, vd) == With(buffer_manager_read_key(bm, j),
                                   LAMBDA r : [bm |-> r.bm, keys_vd |-> vd, key |-> r.key])
           Next_(s, o) == IF s.key \in {Null, Wild} THEN s
                          ELSE IF Bucket(d.h0, s.key, d.k) # d.buffer_h0[j] THEN s
                          ELSE NextKey(s.bm, Append(s.keys_vd, s.key))
           b == NextKey(d.bm, d.keys_vd)
           Body(f) == [i \in 0 .. Len(Upto(m)) |-> IF i = 0 THEN b
                          ELSE CHOOSE r \in {Next_(x, Upto(m)[i]) : x \in {f[i - 1]}} : r = r]
           F == CHOOSE f : f = Body(f)
           Sound(s) == IsSeq(s.keys_vd)
<1>a. ASSUME NEW bm, NEW vd PROVE NextKey(bm, vd).keys_vd = vd
  <2> DEFINE r == buffer_manager_read_key(bm, j)
             t == [bm |-> r.bm, keys_vd |-> vd, key |-> r.key]
  <2>1. NextKey(bm, vd) = t
    BY DEF With
  <2>2. t.keys_vd = vd
    OBVIOUS
  <2> HIDE DEF t, NextKey
  <2> QED
    BY <2>1, <2>2
<1>1. SameBucket(d, j) = F[Len(Upto(m))]
  BY DEF SameBucket, Fold
<1> HIDE DEF NextKey
<1>b. Sound(b)
  BY <1>a
<1>c. ASSUME NEW s, NEW o, Sound(s) PROVE Sound(Next_(s, o))
  BY <1>a, <1>c, AppendIsSeq
<1>2. Len(Upto(m)) = n /\ n \in Nat
  BY DEF Upto
<1>3. ASSUME NEW f PROVE Body(f) = [i \in 0 .. n |-> IF i = 0 THEN b ELSE Next_(f[i - 1], Upto(m)[i])]
  <2> HIDE DEF Next_, b
  <2> QED
    BY <1>2, OnlyOne
<1> HIDE DEF Body, F, Next_, b, n, Sound
<1> DEFINE Is(f, k) == /\ f = [i \in 0 .. k |-> f[i]] /\ f[0] = b
                       /\ \A i \in 1 .. k : f[i] = Next_(f[i - 1], Upto(m)[i])
           T == {k \in Nat : \E f : Is(f, k)}
<1>4. 0 \in T
  <2>1. Is([i \in 0 .. 0 |-> b], 0)
    OBVIOUS
  <2> QED
    BY <2>1
<1>5. ASSUME NEW k \in Nat, k \in T PROVE k + 1 \in T
  <2>1. PICK f : Is(f, k)
    BY <1>5
  <2> DEFINE y == Next_(f[k], Upto(m)[k + 1])
             g == [i \in 0 .. k + 1 |-> IF i = k + 1 THEN y ELSE f[i]]
  <2>2. g[0] = b /\ g[k + 1] = y /\ g[k] = f[k]
    BY <2>1
  <2>3. \A i \in 1 .. k : g[i] = f[i] /\ g[i - 1] = f[i - 1]
    OBVIOUS
  <2>4. g = [i \in 0 .. k + 1 |-> g[i]]
    OBVIOUS
  <2> HIDE DEF g
  <2>5. \A i \in 1 .. k + 1 : g[i] = Next_(g[i - 1], Upto(m)[i])
    <3> TAKE i \in 1 .. k + 1
    <3>1. i \in 1 .. k \/ i = k + 1
      OBVIOUS
    <3>2. CASE i \in 1 .. k
      <4>1. f[i] = Next_(f[i - 1], Upto(m)[i])
        BY <2>1, <3>2
      <4> QED
        BY <2>3, <3>2, <4>1
    <3>3. CASE i = k + 1
      <4>1. i - 1 = k
        BY <3>3
      <4> QED
        BY <2>2, <3>3, <4>1
    <3> QED
      BY <3>1, <3>2, <3>3
  <2>6. Is(g, k + 1)
    BY <2>2, <2>4, <2>5
  <2> HIDE DEF Is
  <2>7. \E h : Is(h, k + 1)
    BY <2>6
  <2> QED
    BY <2>7
<1>6. n \in T
  <2> HIDE DEF T
  <2> QED
    BY <1>2, <1>4, <1>5, SetInduction
<1>7. PICK f : Is(f, n)
  BY <1>6
<1>8. f = Body(f)
  <2>1. \A i \in 0 .. n : f[i] = IF i = 0 THEN b ELSE Next_(f[i - 1], Upto(m)[i])
    <3> TAKE i \in 0 .. n
    <3>1. i = 0 \/ (i # 0 /\ i \in 1 .. n)
      BY <1>2
    <3>2. CASE i = 0
      BY <1>7, <3>2
    <3>3. CASE i # 0 /\ i \in 1 .. n
      BY <1>7, <3>3
    <3> QED
      BY <3>1, <3>2, <3>3
  <2>2. f = [i \in 0 .. n |-> IF i = 0 THEN b ELSE Next_(f[i - 1], Upto(m)[i])]
    BY <1>7, <2>1
  <2> QED
    BY <1>3, <2>2
<1>9. F = Body(F)
  BY <1>8 DEF F
<1>10. F[0] = b /\ \A i \in 1 .. n : F[i] = Next_(F[i - 1], Upto(m)[i])
  <2>1. F = [i \in 0 .. n |-> IF i = 0 THEN b ELSE Next_(F[i - 1], Upto(m)[i])]
    BY <1>3, <1>9
  <2> QED
    BY <1>2, <2>1
<1> DEFINE U == {i \in Nat : i \in 0 .. n => Sound(F[i])}
<1>11. 0 \in U
  BY <1>b, <1>10
<1>12. ASSUME NEW i \in Nat, i \in U PROVE i + 1 \in U
  <2> SUFFICES ASSUME i + 1 \in 0 .. n PROVE Sound(F[i + 1])
    OBVIOUS
  <2>1. i \in 0 .. n /\ i + 1 \in 1 .. n /\ (i + 1) - 1 = i
    BY <1>2
  <2>2. F[i + 1] = Next_(F[i], Upto(m)[i + 1])
    BY <1>10, <2>1
  <2>3. Sound(F[i])
    BY <1>12, <2>1
  <2> QED
    BY <1>c, <2>2, <2>3
<1>13. n \in U
  <2> HIDE DEF U
  <2> QED
    BY <1>2, <1>11, <1>12, SetInduction
<1>14. Sound(F[n])
  BY <1>2, <1>13
<1> QED
  BY <1>1, <1>2, <1>14 DEF Sound

-----------------------------------------------------------------------------
(* The life of a function: what cmph_packed_size goes by, step by step.      *)

\* What cmph_packed_size goes by.
Counts(f) ==
    /\ f.algo \in DOMAIN NameBytes /\ f.size \in Int
    /\ f.algo \in {"chm", "bmz", "bmz8", "bdz", "bdz_ph"} => f.data.n \in Nat
    /\ f.algo = "bdz" => f.data.ranktablesize \in Nat
    /\ f.algo = "fch" => f.data.b \in Nat
    /\ f.algo = "chd_ph" => SeqCounts(f.data.cs)
    /\ f.algo = "chd" => ChdCounts(f.data)
    /\ f.algo = "brz" => BrzCounts(f.data)

\* The names of cmph_names.
LEMMA AlgorithmsAre ==
    \A a \in DOMAIN NameBytes :
        a \in {"chm", "bmz", "bmz8", "fch", "bdz", "bdz_ph", "chd_ph", "chd", "brz"}
  BY DEF NameBytes

\* cmph_pack fills what cmph_packed_size says.
LEMMA Fits ==
    ASSUME NEW f, Counts(f)
    PROVE  Size(cmph_pack(f)) = cmph_packed_size(f) /\ cmph_packed_size(f) \in Nat
<1>1. CASE f.algo = "chm"
  BY <1>1, ChmFits DEF Counts
<1>2. CASE f.algo = "bmz"
  BY <1>2, BmzFits DEF Counts
<1>3. CASE f.algo = "bmz8"
  BY <1>3, Bmz8Fits DEF Counts
<1>4. CASE f.algo = "fch"
  BY <1>4, FchFits DEF Counts
<1>5. CASE f.algo = "bdz"
  BY <1>5, BdzFits DEF Counts
<1>6. CASE f.algo = "bdz_ph"
  BY <1>6, BdzPhFits DEF Counts
<1>7. CASE f.algo = "chd_ph"
  BY <1>7, ChdPhFits DEF Counts
<1>8. CASE f.algo = "chd"
  BY <1>8, ChdFits DEF Counts
<1>9. CASE f.algo = "brz"
  BY <1>9, BrzFits DEF Counts
<1> QED
  BY <1>1, <1>2, <1>3, <1>4, <1>5, <1>6, <1>7, <1>8, <1>9, AlgorithmsAre DEF Counts

\* The counts of a function that was dumped and loaded, of an algorithm other than brz.
LEMMA Reloads ==
    ASSUME NEW f, Counts(f), f.algo # "brz", NEW g, g = cmph_load(cmph_dump(f))
    PROVE  Counts(g) /\ g.algo = f.algo /\ cmph_packed_size(g) = cmph_packed_size(f)
<1>1. CASE f.algo = "chm"
  <2>1. g.algo = "chm" /\ g.size = f.size /\ g.data.n = f.data.n
    BY <1>1, ChmReloads, Zenon DEF Counts
  <2>2. cmph_packed_size(g) = ChmPackedSize(g.data) /\ cmph_packed_size(f) = ChmPackedSize(f.data)
    BY <1>1, <2>1 DEF cmph_packed_size
  <2> QED
    BY <1>1, <2>1, <2>2 DEF Counts, ChmPackedSize
<1>2. CASE f.algo = "bmz"
  <2>1. g.algo = "bmz" /\ g.size = f.size /\ g.data.n = f.data.n
    BY <1>2, BmzReloads, Zenon DEF Counts
  <2>2. cmph_packed_size(g) = Z!BmzPackedSize(g.data) /\ cmph_packed_size(f) = Z!BmzPackedSize(f.data)
    BY <1>2, <2>1 DEF cmph_packed_size
  <2> QED
    BY <1>2, <2>1, <2>2 DEF Counts, Z!BmzPackedSize
<1>3. CASE f.algo = "bmz8"
  <2>1. g.algo = "bmz8" /\ g.size = f.size /\ g.data.n = f.data.n
    BY <1>3, Bmz8Reloads, Zenon DEF Counts
  <2>2. cmph_packed_size(g) = Bmz8PackedSize(g.data) /\ cmph_packed_size(f) = Bmz8PackedSize(f.data)
    BY <1>3, <2>1 DEF cmph_packed_size
  <2> QED
    BY <1>3, <2>1, <2>2 DEF Counts, Bmz8PackedSize
<1>4. CASE f.algo = "fch"
  <2>1. g.algo = "fch" /\ g.size = f.size /\ g.data.b = f.data.b
    BY <1>4, FchReloads, Zenon DEF Counts
  <2>2. cmph_packed_size(g) = FchPackedSize(g.data) /\ cmph_packed_size(f) = FchPackedSize(f.data)
    BY <1>4, <2>1 DEF cmph_packed_size
  <2> QED
    BY <1>4, <2>1, <2>2 DEF Counts, FchPackedSize
<1>5. CASE f.algo = "bdz"
  <2>1. g.algo = "bdz" /\ g.size = f.size /\ g.data.n = f.data.n /\ g.data.ranktablesize = f.data.ranktablesize
    BY <1>5, BdzReloads, Zenon DEF Counts
  <2>2. cmph_packed_size(g) = BdzPackedSize(g.data) /\ cmph_packed_size(f) = BdzPackedSize(f.data)
    BY <1>5, <2>1 DEF cmph_packed_size
  <2> QED
    BY <1>5, <2>1, <2>2 DEF Counts, BdzPackedSize
<1>6. CASE f.algo = "bdz_ph"
  <2>1. g.algo = "bdz_ph" /\ g.size = f.size /\ g.data.n = f.data.n
    BY <1>6, BdzPhReloads, Zenon DEF Counts
  <2>2. cmph_packed_size(g) = BdzPhPackedSize(g.data) /\ cmph_packed_size(f) = BdzPhPackedSize(f.data)
    BY <1>6, <2>1 DEF cmph_packed_size
  <2> QED
    BY <1>6, <2>1, <2>2 DEF Counts, BdzPhPackedSize
<1>7. CASE f.algo = "chd_ph"
  <2>1. SeqCounts(f.data.cs) /\ f.size \in Int
    BY <1>7 DEF Counts
  <2>2. g.algo = "chd_ph" /\ g.size = f.size
        /\ g.data.cs = compressed_seq_load(compressed_seq_dump(f.data.cs), 0)
    BY <1>7, <2>1, ChdPhReloads, Zenon
  <2>3. /\ SeqCounts(g.data.cs)
        /\ compressed_seq_packed_size(g.data.cs) = compressed_seq_packed_size(f.data.cs)
    BY <2>1, <2>2, SeqReloads, Zenon
  <2>4. cmph_packed_size(g) = ChdPhPackedSize(g.data) /\ cmph_packed_size(f) = ChdPhPackedSize(f.data)
    BY <1>7, <2>2 DEF cmph_packed_size
  <2> QED
    BY <1>7, <2>1, <2>2, <2>3, <2>4 DEF Counts, ChdPhPackedSize
<1>8. CASE f.algo = "chd"
  <2>1. ChdCounts(f.data) /\ f.size \in Int
    BY <1>8 DEF Counts
  <2>2. g.algo = "chd" /\ g.size = f.size
        /\ g.data.packed_cr = f.data.packed_cr /\ g.data.packed_cr_size = f.data.packed_cr_size
        /\ g.data.packed_chd_phf = f.data.packed_chd_phf
        /\ g.data.packed_chd_phf_size = f.data.packed_chd_phf_size
    BY <1>8, <2>1, ChdReloads, Zenon
  <2>3. ChdCounts(g.data)
    BY <2>1, <2>2, Zenon DEF ChdCounts
  <2>4. cmph_packed_size(g) = ChdPackedSize(g.data) /\ cmph_packed_size(f) = ChdPackedSize(f.data)
    BY <1>8, <2>2 DEF cmph_packed_size
  <2> QED
    BY <1>8, <2>1, <2>2, <2>3, <2>4 DEF Counts, ChdPackedSize
<1> QED
  BY <1>1, <1>2, <1>3, <1>4, <1>5, <1>6, <1>7, <1>8, AlgorithmsAre DEF Counts

\* A config, of the caller or of a bucket: what sizes are made of.
ConfigFits(x) ==
    /\ {"algo", "c", "b", "keys_per_bin", "keys"} \subseteq DOMAIN x
    /\ x.b \in Nat /\ (x.algo \in {"brz", "chd_ph", "chd"} => x.b # 0)
    /\ x.c \in Fraction /\ x.keys_per_bin \in Nat \ {0}
    /\ Len(x.keys) \in Number \ {0} /\ Len(x.keys) \in Nat

\* The bins that chd_ph is about to get: more than keys, when each takes one.
BinsFit ==
    LET n == Bins(mph.c, mph.keys_per_bin, m)
    IN  mph.algo \in {"chd_ph", "chd"} /\ n # 1 =>
        NextPrime(n) \in Nat /\ (mph.keys_per_bin = 1 => NextPrime(n) > m)

\* The counts of a function, as cmph_new has set them so far.
WorkCounts ==
    /\ mph.algo \in {"chm", "bmz", "bmz8", "bdz", "bdz_ph"} => "n" \in DOMAIN data /\ data.n \in Nat
    /\ mph.algo = "bdz" => "ranktablesize" \in DOMAIN data /\ data.ranktablesize \in Nat
    /\ mph.algo = "fch" => "c" \in DOMAIN data /\ data.c \in Fraction
    /\ mph.algo = "fch" /\ pc = "search" => "b" \in DOMAIN data /\ data.b \in Nat
    /\ mph.algo \in {"chd_ph", "chd"} =>
          /\ {"n", "nbuckets"} \subseteq DOMAIN data
          /\ data.n \in Nat /\ data.nbuckets \in Nat \ {0}
          /\ mph.keys_per_bin = 1 => data.n > m

\* Where an algorithm other than brz is between two steps.
WorkPcs == {"map", "order", "search", "assign"}

\* What holds while such an algorithm works.
WorkInv == ConfigFits(mph) /\ (pc = "new" => BinsFit) /\ (pc \in WorkPcs => WorkCounts)

\* A step of an algorithm other than brz.
Works ==
    /\ pc \in {"new"} \cup WorkPcs /\ mph.algo # "brz"
    /\ pc' \notin {"config", "new", "dumped", "loaded", "partition", "merge"}
    /\ mph' = mph /\ outer' = outer /\ file' = file /\ packed' = packed
    /\ WorkInv => /\ pc' \in WorkPcs => WorkCounts'
                  /\ pc' = "built" => Counts(mphf') /\ mphf'.algo = mph.algo

\* The steps of chm.
LEMMA ChmWorks ==
    ASSUME ChmNew \/ ChmMap \/ ChmAssign
    PROVE  Works
<1>1. CASE ChmNew
  <2>1. pc = "new" /\ pc' = "map" /\ mph.algo = "chm" /\ data'.n = ChmVertices(mph.c, m) /\ "n" \in DOMAIN data'
        /\ mph' = mph /\ outer' = outer /\ file' = file /\ packed' = packed
    BY <1>1 DEF ChmNew, Starts, Keeps
  <2>2. ASSUME WorkInv PROVE data'.n \in Nat
    <3> DEFINE c == IF mph.c[1] = 0 THEN <<209, 100>> ELSE mph.c
    <3>1. c \in Fraction /\ m \in Nat
      BY <2>2 DEF WorkInv, ConfigFits, m, Fraction
    <3>2. data'.n = CeilTimes(c, m)
      BY <2>1 DEF ChmVertices
    <3> HIDE DEF c
    <3> QED
      BY <3>1, <3>2, CeilTimesNat
  <2> QED
    BY <2>1, <2>2 DEF Works, WorkCounts, WorkPcs
<1>2. CASE ChmMap
  <2>1. /\ pc = "map" /\ mph.algo = "chm"
        /\ mph' = mph /\ outer' = outer /\ file' = file /\ packed' = packed
        /\ \/ pc' = "assign" /\ data'.n = data.n /\ "n" \in DOMAIN data'
           \/ pc' = "map" /\ ("n" \in DOMAIN data => data'.n = data.n /\ "n" \in DOMAIN data')
           \/ pc' = "failed"
    BY <1>2 DEF ChmMap, Keeps, GiveUp
  <2> QED
    BY <2>1 DEF Works, WorkInv, WorkCounts, WorkPcs
<1>3. CASE ChmAssign
  <2>1. /\ pc = "assign" /\ mph.algo = "chm" /\ pc' = "built"
        /\ mph' = mph /\ outer' = outer /\ file' = file /\ packed' = packed
        /\ mphf'.algo = mph.algo /\ mphf'.size = m /\ mphf'.data.n = data.n
    BY <1>3 DEF ChmAssign, Keeps, Finish
  <2> QED
    BY <2>1 DEF Works, WorkInv, ConfigFits, m, WorkCounts, WorkPcs, Counts, NameBytes
<1> QED
  BY <1>1, <1>2, <1>3

\* The steps of bmz.
LEMMA BmzWorks ==
    ASSUME Z!BmzNew \/ Z!BmzMap \/ Z!BmzOrder \/ Z!BmzSearchStep
    PROVE  Works
<1>1. CASE Z!BmzNew
  <2> DEFINE c == Z!BmzRatio
             x == Z!CeilTimes(c, Z!m)
  <2>1. pc = "new" /\ pc' = "map" /\ mph.algo = "bmz" /\ data'.n = Z!Num(x) /\ "n" \in DOMAIN data'
        /\ mph' = mph /\ outer' = outer /\ file' = file /\ packed' = packed
    BY <1>1 DEF Z!BmzNew, Z!Starts, Z!Keeps
  <2>2. ASSUME WorkInv PROVE data'.n \in Nat
    <3>1. c \in Fraction /\ m \in Nat
      BY <2>2 DEF WorkInv, ConfigFits, m, Fraction, Z!BmzRatio
    <3>2. x = CeilTimes(c, m)
      BY DEF Z!CeilTimes, CeilTimes, Z!CeilDiv, CeilDiv, Z!m, m
    <3>3. x \in Nat
      BY <3>1, <3>2, CeilTimesNat
    <3> HIDE DEF x
    <3>4. Word \in Nat
      BY StructsAssumption
    <3>5. Unsigned(x, Word) \in Nat
      BY <3>3, <3>4, UnsignedNat
    <3> QED
      BY <2>1, <3>5 DEF Z!Num, Z!Unsigned, Unsigned
  <2> QED
    BY <2>1, <2>2 DEF Works, WorkCounts, WorkPcs
<1>2. CASE Z!BmzMap
  <2>1. /\ pc = "map" /\ mph.algo = "bmz"
        /\ mph' = mph /\ outer' = outer /\ file' = file /\ packed' = packed
        /\ \/ pc' = "order" /\ data'.n = data.n /\ "n" \in DOMAIN data'
           \/ pc' = "map" /\ ("n" \in DOMAIN data => data'.n = data.n /\ "n" \in DOMAIN data')
           \/ pc' \in {"failed", "undefined"}
    BY <1>2 DEF Z!BmzMap, Z!Keeps, Z!GiveUp, Z!Undefined
  <2> QED
    BY <2>1 DEF Works, WorkInv, WorkCounts, WorkPcs
<1>3. CASE Z!BmzOrder
  <2>1. /\ pc = "order" /\ mph.algo = "bmz"
        /\ mph' = mph /\ outer' = outer /\ file' = file /\ packed' = packed
        /\ \/ pc' \in {"search", "map"} /\ data'.n = data.n /\ "n" \in DOMAIN data'
           \/ pc' = "failed"
           \/ pc' = "abort"
    BY <1>3 DEF Z!BmzOrder, Z!Keeps, Z!GiveUp, Z!Abort
  <2> QED
    BY <2>1 DEF Works, WorkInv, WorkCounts, WorkPcs
<1>4. CASE Z!BmzSearchStep
  <2>1. /\ pc = "search" /\ mph.algo = "bmz"
        /\ mph' = mph /\ outer' = outer /\ file' = file /\ packed' = packed
        /\ \/ pc' = "built" /\ mphf'.algo = mph.algo /\ mphf'.size = Z!m /\ mphf'.data.n = data.n
           \/ pc' = "abort"
    BY <1>4 DEF Z!BmzSearchStep, Z!Keeps, Z!Finish, Z!Abort
  <2> QED
    BY <2>1 DEF Works, WorkInv, ConfigFits, m, WorkCounts, WorkPcs, Counts, NameBytes, Z!m
<1> QED
  BY <1>1, <1>2, <1>3, <1>4

\* The steps of bmz8.
LEMMA Bmz8Works ==
    ASSUME Bmz8New \/ Bmz8Map \/ Bmz8Order \/ Bmz8SearchStep
    PROVE  Works
<1>1. CASE Bmz8New
  <2> DEFINE c == B8!BmzRatio
             x == CeilTimes(c, m)
  <2>1. pc = "new" /\ mph.algo = "bmz8"
        /\ mph' = mph /\ outer' = outer /\ file' = file /\ packed' = packed
        /\ \/ pc' = "failed"
           \/ pc' = "map" /\ data'.n = Unsigned(x, Byte) /\ "n" \in DOMAIN data'
    BY <1>1 DEF Bmz8New, Starts, Keeps, GiveUp
  <2>2. ASSUME WorkInv PROVE Unsigned(x, Byte) \in Nat
    <3>1. c \in Fraction /\ m \in Nat
      BY <2>2 DEF WorkInv, ConfigFits, m, Fraction, B8!BmzRatio
    <3>2. x \in Nat
      BY <3>1, CeilTimesNat
    <3> HIDE DEF x
    <3>3. Byte \in Nat
      BY StructsAssumption
    <3> QED
      BY <3>2, <3>3, UnsignedNat
  <2> HIDE DEF x
  <2> QED
    BY <2>1, <2>2 DEF Works, WorkCounts, WorkPcs
<1>2. CASE Bmz8Map
  <2>1. /\ pc = "map" /\ mph.algo = "bmz8"
        /\ mph' = mph /\ outer' = outer /\ file' = file /\ packed' = packed
        /\ \/ pc' = "order" /\ data'.n = data.n /\ "n" \in DOMAIN data'
           \/ pc' = "map" /\ ("n" \in DOMAIN data => data'.n = data.n /\ "n" \in DOMAIN data')
           \/ pc' \in {"failed", "undefined"}
    BY <1>2 DEF Bmz8Map, Keeps, GiveUp, Undefined
  <2> QED
    BY <2>1 DEF Works, WorkInv, WorkCounts, WorkPcs
<1>3. CASE Bmz8Order
  <2>1. /\ pc = "order" /\ mph.algo = "bmz8"
        /\ mph' = mph /\ outer' = outer /\ file' = file /\ packed' = packed
        /\ \/ pc' \in {"search", "map"} /\ data'.n = data.n /\ "n" \in DOMAIN data'
           \/ pc' = "failed"
           \/ pc' = "abort"
    BY <1>3 DEF Bmz8Order, B8!BmzOrder, B8!Keeps, B8!GiveUp, B8!Abort
  <2> QED
    BY <2>1 DEF Works, WorkInv, WorkCounts, WorkPcs
<1>4. CASE Bmz8SearchStep
  <2>1. /\ pc = "search" /\ mph.algo = "bmz8"
        /\ mph' = mph /\ outer' = outer /\ file' = file /\ packed' = packed
        /\ \/ pc' = "built" /\ mphf'.algo = mph.algo /\ mphf'.size = m /\ mphf'.data.n = data.n
           \/ pc' = "abort"
    BY <1>4 DEF Bmz8SearchStep, Keeps, Finish, Abort
  <2> QED
    BY <2>1 DEF Works, WorkInv, ConfigFits, m, WorkCounts, WorkPcs, Counts, NameBytes
<1> QED
  BY <1>1, <1>2, <1>3, <1>4

-----------------------------------------------------------------------------
(* bdz and bdz_ph. *)

\* The vertices of bdz and bdz_ph: three parts of an odd number of them.
LEMMA OddNat ==
    ASSUME NEW c \in Fraction, NEW k \in Nat
    PROVE  LET third == CeilTimes(IF c[1] = 0 THEN <<123, 300>> ELSE <<c[1], 3 * c[2]>>, k)
           IN  (IF third % 2 = 0 THEN third + 1 ELSE third) \in Nat
<1> DEFINE f == IF c[1] = 0 THEN <<123, 300>> ELSE <<c[1], 3 * c[2]>>
           third == CeilTimes(f, k)
<1>1. f \in Fraction
  <2> DEFINE d == c[2]
  <2>1. c[1] \in Nat /\ d \in Nat \ {0}
    BY DEF Fraction
  <2>2. 3 * d \in Nat \ {0}
    <3> HIDE DEF d
    <3> QED
      BY <2>1
  <2>3. <<c[1], 3 * d>> \in Fraction /\ <<123, 300>> \in Fraction
    BY <2>1, <2>2 DEF Fraction
  <2> QED
    BY <2>3
<1> HIDE DEF f
<1>2. third \in Nat
  BY <1>1, CeilTimesNat
<1> HIDE DEF third
<1>3. (IF third % 2 = 0 THEN third + 1 ELSE third) \in Nat
  BY <1>2
<1> QED
  BY <1>3 DEF third, f

\* The steps of bdz.
LEMMA BdzWorks ==
    ASSUME BdzNew \/ BdzMap \/ BdzAssign
    PROVE  Works
<1>1. CASE BdzNew
  <2> DEFINE third == CeilTimes(IF mph.c[1] = 0 THEN <<123, 300>> ELSE <<mph.c[1], 3 * mph.c[2]>>, m)
             r == IF third % 2 = 0 THEN third + 1 ELSE third
  <2>1. pc = "new" /\ pc' = "map" /\ mph.algo = "bdz"
        /\ mph' = mph /\ outer' = outer /\ file' = file /\ packed' = packed
        /\ data'.n = 3 * r /\ "n" \in DOMAIN data'
        /\ data'.ranktablesize = CeilDiv(3 * r, 2 ^ mph.b) /\ "ranktablesize" \in DOMAIN data'
    BY <1>1 DEF BdzNew, Starts, Keeps
  <2>2. ASSUME WorkInv PROVE 3 * r \in Nat /\ CeilDiv(3 * r, 2 ^ mph.b) \in Nat
    <3>1. mph.c \in Fraction /\ m \in Nat /\ mph.b \in Nat
      BY <2>2 DEF WorkInv, ConfigFits, m
    <3>2. r \in Nat
      BY <3>1, OddNat
    <3> HIDE DEF r
    <3>3. 3 * r \in Nat
      BY <3>2
    <3>4. 2 ^ mph.b \in Nat \ {0}
      BY <3>1, PowerOfTwo
    <3> QED
      BY <3>3, <3>4, CeilDivNat
  <2> HIDE DEF r
  <2> QED
    BY <2>1, <2>2 DEF Works, WorkCounts, WorkPcs
<1>2. CASE BdzMap
  <2>1. /\ pc = "map" /\ mph.algo = "bdz"
        /\ mph' = mph /\ outer' = outer /\ file' = file /\ packed' = packed
        /\ \/ /\ pc' = "assign" /\ data'.n = data.n /\ "n" \in DOMAIN data'
              /\ data'.ranktablesize = data.ranktablesize /\ "ranktablesize" \in DOMAIN data'
           \/ /\ pc' = "map" /\ DOMAIN data' = DOMAIN data
              /\ "n" \in DOMAIN data => data'.n = data.n
              /\ "ranktablesize" \in DOMAIN data => data'.ranktablesize = data.ranktablesize
           \/ pc' = "failed"
    BY <1>2 DEF BdzMap, Keeps, GiveUp
  <2> QED
    BY <2>1 DEF Works, WorkInv, WorkCounts, WorkPcs
<1>3. CASE BdzAssign
  <2>1. /\ pc = "assign" /\ mph.algo = "bdz" /\ pc' = "built"
        /\ mph' = mph /\ outer' = outer /\ file' = file /\ packed' = packed
        /\ mphf'.algo = mph.algo /\ mphf'.size = m /\ mphf'.data.n = data.n
        /\ mphf'.data.ranktablesize = data.ranktablesize
    BY <1>3 DEF BdzAssign, Keeps, Finish
  <2> QED
    BY <2>1 DEF Works, WorkInv, ConfigFits, m, WorkCounts, WorkPcs, Counts, NameBytes
<1> QED
  BY <1>1, <1>2, <1>3

\* The steps of bdz_ph.
LEMMA BdzPhWorks ==
    ASSUME BdzPhNew \/ BdzPhMap \/ BdzPhAssign
    PROVE  Works
<1>1. CASE BdzPhNew
  <2> DEFINE third == CeilTimes(IF mph.c[1] = 0 THEN <<123, 300>> ELSE <<mph.c[1], 3 * mph.c[2]>>, m)
             r == IF third % 2 = 0 THEN third + 1 ELSE third
  <2>1. pc = "new" /\ pc' = "map" /\ mph.algo = "bdz_ph"
        /\ mph' = mph /\ outer' = outer /\ file' = file /\ packed' = packed
        /\ data'.n = 3 * r /\ "n" \in DOMAIN data'
    BY <1>1 DEF BdzPhNew, Starts, Keeps
  <2>2. ASSUME WorkInv PROVE 3 * r \in Nat
    <3>1. mph.c \in Fraction /\ m \in Nat
      BY <2>2 DEF WorkInv, ConfigFits, m
    <3>2. r \in Nat
      BY <3>1, OddNat
    <3> HIDE DEF r
    <3> QED
      BY <3>2
  <2> HIDE DEF r
  <2> QED
    BY <2>1, <2>2 DEF Works, WorkCounts, WorkPcs
<1>2. CASE BdzPhMap
  <2>1. /\ pc = "map" /\ mph.algo = "bdz_ph"
        /\ mph' = mph /\ outer' = outer /\ file' = file /\ packed' = packed
        /\ \/ pc' = "assign" /\ data'.n = data.n /\ "n" \in DOMAIN data'
           \/ pc' = "map" /\ ("n" \in DOMAIN data => data'.n = data.n /\ "n" \in DOMAIN data')
           \/ pc' = "failed"
    BY <1>2 DEF BdzPhMap, Keeps, GiveUp
  <2> QED
    BY <2>1 DEF Works, WorkInv, WorkCounts, WorkPcs
<1>3. CASE BdzPhAssign
  <2>1. /\ pc = "assign" /\ mph.algo = "bdz_ph" /\ pc' = "built"
        /\ mph' = mph /\ outer' = outer /\ file' = file /\ packed' = packed
        /\ mphf'.algo = mph.algo /\ mphf'.size = data.n /\ mphf'.data.n = data.n
    BY <1>3 DEF BdzPhAssign, Keeps, Finish
  <2> QED
    BY <2>1 DEF Works, WorkInv, ConfigFits, m, WorkCounts, WorkPcs, Counts, NameBytes
<1> QED
  BY <1>1, <1>2, <1>3

-----------------------------------------------------------------------------
(* fch. *)

\* The buckets of fch.
LEMMA FchWorks ==
    ASSUME FchNew \/ FchMap \/ FchRound
    PROVE  Works
<1>1. CASE FchNew
  <2> DEFINE c == IF mph.c[1] <= 2 * mph.c[2] THEN <<26, 10>> ELSE mph.c
  <2>1. pc = "new" /\ pc' = "map" /\ mph.algo = "fch" /\ data'.c = c /\ "c" \in DOMAIN data'
        /\ mph' = mph /\ outer' = outer /\ file' = file /\ packed' = packed
    BY <1>1 DEF FchNew, Starts, Keeps
  <2>2. ASSUME WorkInv PROVE c \in Fraction
    BY <2>2 DEF WorkInv, ConfigFits, m, Fraction
  <2> HIDE DEF c
  <2> QED
    BY <2>1, <2>2 DEF Works, WorkCounts, WorkPcs
<1>2. CASE FchMap
  <2> DEFINE b == fch_calc_b(data.c, m)
  <2>1. /\ pc = "map" /\ mph.algo = "fch" /\ pc' = "search"
        /\ mph' = mph /\ outer' = outer /\ file' = file /\ packed' = packed
        /\ data'.c = data.c /\ "c" \in DOMAIN data' /\ data'.b = b /\ "b" \in DOMAIN data'
    BY <1>2 DEF FchMap, Keeps
  <2>2. ASSUME WorkInv PROVE b \in Nat
    <3>1. data.c \in Fraction /\ m \in Number \ {0}
      BY <2>1, <2>2 DEF WorkInv, ConfigFits, m, WorkCounts, WorkPcs
    <3> QED
      BY <3>1, FchCalcNat
  <2> HIDE DEF b
  <2> QED
    BY <2>1, <2>2 DEF Works, WorkInv, WorkCounts, WorkPcs
<1>3. CASE FchRound
  <2>1. /\ pc = "search" /\ mph.algo = "fch"
        /\ mph' = mph /\ outer' = outer /\ file' = file /\ packed' = packed
        /\ \/ pc' = "built" /\ mphf'.algo = mph.algo /\ mphf'.size = m /\ mphf'.data.b = data.b
           \/ /\ pc' = "search" /\ DOMAIN data' = DOMAIN data
              /\ "c" \in DOMAIN data => data'.c = data.c
              /\ "b" \in DOMAIN data => data'.b = data.b
           \/ pc' = "map" /\ data'.c = data.c /\ "c" \in DOMAIN data'
           \/ pc' = "failed"
    <3>1. PICK h2, t, rounds, h2tries :
             IF t.restart /\ rounds < FchRounds /\ h2tries < FchH2Tries
             THEN /\ data' = [data EXCEPT !.table = t.table, !.rounds = rounds, !.h2tries = h2tries]
                  /\ UNCHANGED <<pc, mphf>>
             ELSE IF data.iterations = 1 THEN GiveUp
             ELSE IF t.restart
             THEN /\ data' = [c |-> data.c, iterations |-> data.iterations - 1]
                  /\ pc' = "map" /\ UNCHANGED mphf
             ELSE Finish([g |-> t.g, h1 |-> data.h1, h2 |-> h2, p1 |-> data.p1, p2 |-> data.p2,
                          b |-> data.b, c |-> data.c, m |-> m], m)
      BY <1>3, Zenon DEF FchRound
    <3>2. /\ pc = "search" /\ mph.algo = "fch"
          /\ mph' = mph /\ outer' = outer /\ file' = file /\ packed' = packed
      BY <1>3 DEF FchRound, Keeps
    <3> DEFINE next == [data EXCEPT !.table = t.table, !.rounds = rounds, !.h2tries = h2tries]
    <3>3. DOMAIN next = DOMAIN data /\ ("c" \in DOMAIN data => next.c = data.c)
          /\ ("b" \in DOMAIN data => next.b = data.b)
      OBVIOUS
    <3> HIDE DEF next
    <3>4. \/ data' = next /\ pc' = pc
          \/ pc' = "failed"
          \/ data' = [c |-> data.c, iterations |-> data.iterations - 1] /\ pc' = "map"
          \/ /\ mphf' = [algo |-> mph.algo, size |-> m,
                         data |-> [g |-> t.g, h1 |-> data.h1, h2 |-> h2, p1 |-> data.p1, p2 |-> data.p2,
                                   b |-> data.b, c |-> data.c, m |-> m]]
             /\ pc' = "built"
      BY <3>1, Zenon DEF GiveUp, Finish, next
    <3> QED
      BY <3>2, <3>3, <3>4
  <2> QED
    BY <2>1 DEF Works, WorkInv, ConfigFits, m, WorkCounts, WorkPcs, Counts, NameBytes
<1> QED
  BY <1>1, <1>2, <1>3

\* Bins of one key are more than the keys: the load factor is below one.
LEMMA BinsAreMore ==
    ASSUME NEW c \in Fraction, NEW b \in Nat \ {0}, NEW k \in Nat
    PROVE  LET n == Bins(c, b, k) IN n \in Nat /\ (b = 1 => n > k)
<1> DEFINE l == LoadFactor(c)
           x == l[1]
           y == l[2]
           p == k * y
           q == b * x
           d == p \div q
           n == d + 1
<1>1. x \in Nat \ {0} /\ y \in Nat \ {0} /\ x <= y
  <2> DEFINE u == c[1]
             v == c[2]
  <2>1. u \in Nat /\ v \in Nat \ {0}
    BY DEF Fraction
  <2>2. LoadFactor(c) = IF 2 * u < v THEN <<1, 2>> ELSE IF 100 * u >= 99 * v THEN <<99, 100>> ELSE c
    BY DEF LoadFactor
  <2>3. CASE 2 * u < v
    BY <2>2, <2>3
  <2>4. CASE ~ 2 * u < v /\ 100 * u >= 99 * v
    BY <2>2, <2>4
  <2>5. CASE ~ 2 * u < v /\ ~ 100 * u >= 99 * v
    <3>1. x = u /\ y = v
      BY <2>2, <2>5
    <3> HIDE DEF u, v
    <3>2. u # 0 /\ u <= v
      BY <2>1, <2>5
    <3> QED
      BY <2>1, <3>1, <3>2
  <2> QED
    BY <2>3, <2>4, <2>5
<1> HIDE DEF l, x, y
<1>2. p \in Nat /\ q \in Nat \ {0}
  <2>1. b * x # 0
    BY <1>1
  <2> QED
    BY <1>1, <2>1
<1>3. b = 1 => p >= q * k
  <2> SUFFICES ASSUME b = 1 PROVE p >= q * k
    OBVIOUS
  <2>1. q = x
    BY <1>1
  <2>2. k * y >= x * k
    BY <1>1
  <2> QED
    BY <2>1, <2>2
<1> HIDE DEF p, q
<1>4. d \in Nat /\ p = q * d + (p % q) /\ p % q \in 0 .. q - 1
  BY <1>2
<1> HIDE DEF d
<1>5. b = 1 => d >= k
  <2> SUFFICES ASSUME b = 1, d < k PROVE FALSE
    BY <1>4
  <2>1. k - d >= 1 /\ k - d \in Nat
    BY <1>4
  <2> DEFINE e == k - d
  <2>2. q * k = q * d + q * e
    BY <1>2, <1>4
  <2> HIDE DEF e
  <2>3. q * e >= q
    BY <1>2, <2>1 DEF e
  <2>4. q * d \in Int /\ q * e \in Int /\ q * k \in Int
    BY <1>2, <1>4, <2>1 DEF e
  <2> QED
    BY <1>2, <1>3, <1>4, <2>2, <2>3, <2>4
<1>6. n \in Nat /\ (b = 1 => n > k)
  BY <1>4, <1>5
<1>7. Bins(c, b, k) = IF n % 2 = 0 THEN n + 1 ELSE n
  BY DEF Bins, n, d, p, q, x, y, l
<1> HIDE DEF n
<1> QED
  BY <1>6, <1>7

\* A prime that there is is found, and is not below n.
LEMMA NextPrimeIs ==
    ASSUME NEW n \in Nat,
           \E i \in 0 .. n + 11 :
               check_primality(n + 2 * i) /\ \A j \in 0 .. i - 1 : ~ check_primality(n + 2 * j)
    PROVE  NextPrime(n) \in Nat /\ NextPrime(n) >= n
<1> DEFINE P(i) == check_primality(n + 2 * i) /\ \A j \in 0 .. i - 1 : ~ check_primality(n + 2 * j)
           S == 0 .. n + 11
           i == CHOOSE x \in S : P(x)
<1>1. \E x \in S : P(x)
  OBVIOUS
<1>2. NextPrime(n) = n + 2 * i
  BY DEF NextPrime
<1> HIDE DEF P
<1>3. i \in S
  BY <1>1
<1> HIDE DEF i
<1> QED
  BY <1>2, <1>3

\* The request of a caller has bins that fit.
LEMMA RequestBins ==
    ASSUME NEW r \in Requests, r.algo \in {"chd_ph", "chd"}, NEW b,
           b \in {1, chd_ph_config_set_keys_per_bin(r.keys_per_bin)},
           NEW n, n = Bins(r.c, b, r.source.nkeys), n # 1
    PROVE  NextPrime(n) \in Nat /\ (b = 1 => NextPrime(n) > r.source.nkeys)
<1> DEFINE k == r.source.nkeys
<1>1. r.c \in Fraction /\ k \in Nat
  BY StructsAssumption, NumberIs DEF Fraction
<1>2. b \in Nat \ {0}
  BY StructsAssumption DEF chd_ph_config_set_keys_per_bin
<1>3. \E i \in 0 .. n + 11 :
         check_primality(n + 2 * i) /\ \A j \in 0 .. i - 1 : ~ check_primality(n + 2 * j)
  BY ChdPhAssumption
<1> HIDE DEF k
<1>4. n = Bins(r.c, b, k)
  BY DEF k
<1>5. n \in Nat /\ (b = 1 => n > k)
  BY <1>1, <1>2, <1>4, BinsAreMore
<1>6. NextPrime(n) \in Nat /\ NextPrime(n) >= n
  BY <1>3, <1>5, NextPrimeIs
<1> QED
  BY <1>1, <1>5, <1>6 DEF k

\* It is all the same whether a caller leaves c, or sets it to zero.
LEMMA SameBins ==
    ASSUME NEW c \in Fraction, c[1] = 0, NEW b, NEW k
    PROVE  Bins(<<0, 1>>, b, k) = Bins(c, b, k)
<1>1. LoadFactor(c) = <<1, 2>> /\ LoadFactor(<<0, 1>>) = <<1, 2>>
  BY DEF LoadFactor, Fraction
<1> QED
  BY <1>1 DEF Bins

\* chd_ph_new and chd_new: the bins and the buckets.
LEMMA ChdStarts ==
    ASSUME Starts("chd_ph") \/ Starts("chd"), ChdPhStart("map"), Keeps
    PROVE  Works
<1> DEFINE n == Bins(mph.c, mph.keys_per_bin, m)
           p == NextPrime(n)
           k == (m \div mph.b) + 1
           d == [n |-> p, nbuckets |-> k, disp |-> [g \in 0 .. k - 1 |-> 0],
                 iterations |-> ChdTries, mapping |-> MappingTries]
<1>1. /\ pc = "new" /\ mph.algo \in {"chd_ph", "chd"}
      /\ mph' = mph /\ outer' = outer /\ file' = file /\ packed' = packed
  BY DEF Starts, Keeps
<1>2. \/ pc' = "loops"
      \/ n # 1 /\ data' = d /\ pc' = "map"
  BY DEF ChdPhStart
<1>3. d.n = p /\ d.nbuckets = k /\ {"n", "nbuckets"} \subseteq DOMAIN d
  OBVIOUS
<1>4. ASSUME WorkInv, n # 1 PROVE p \in Nat /\ k \in Nat \ {0} /\ (mph.keys_per_bin = 1 => p > m)
  <2>1. p \in Nat /\ (mph.keys_per_bin = 1 => p > m)
    BY <1>1, <1>4 DEF WorkInv, BinsFit
  <2>2. m \in Nat /\ mph.b \in Nat \ {0}
    BY <1>1, <1>4 DEF WorkInv, ConfigFits, m
  <2>3. m \div mph.b \in Nat
    BY <2>2, DivNat
  <2> QED
    BY <2>1, <2>3
<1> HIDE DEF n, p, k, d
<1>5. m' = m
  BY <1>1 DEF m
<1> QED
  BY <1>1, <1>2, <1>3, <1>4, <1>5 DEF Works, WorkCounts, WorkPcs

\* A try to map the keys into the buckets.
LEMMA ChdMaps ==
    ASSUME pc = "map", mph.algo \in {"chd_ph", "chd"}, ChdPhMapWith("search"), Keeps
    PROVE  Works
<1>1. mph' = mph /\ outer' = outer /\ file' = file /\ packed' = packed /\ m' = m
  BY DEF Keeps, m
<1>2. PICK seed \in hash_state_new(m) :
           LET buckets == chd_ph_mapping(seed, data.nbuckets, data.n)
           IN  IF buckets # Null
               THEN /\ pc' = "search" /\ UNCHANGED mphf
                    /\ data' = [n |-> data.n, nbuckets |-> data.nbuckets, disp |-> data.disp,
                                iterations |-> data.iterations, hl |-> seed, buckets |-> buckets]
               ELSE IF data.mapping > 1
               THEN data' = [data EXCEPT !.mapping = @ - 1] /\ UNCHANGED <<pc, mphf>>
               ELSE GiveUp
  BY DEF ChdPhMapWith
<1> DEFINE buckets == chd_ph_mapping(seed, data.nbuckets, data.n)
           d1 == [n |-> data.n, nbuckets |-> data.nbuckets, disp |-> data.disp,
                  iterations |-> data.iterations, hl |-> seed, buckets |-> buckets]
           d2 == [data EXCEPT !.mapping = @ - 1]
<1>3. \/ pc' = "search" /\ data' = d1
      \/ pc' = pc /\ data' = d2
      \/ pc' = "failed"
  BY <1>2 DEF GiveUp
<1>4. d1.n = data.n /\ d1.nbuckets = data.nbuckets /\ {"n", "nbuckets"} \subseteq DOMAIN d1
  OBVIOUS
<1>5. {"n", "nbuckets"} \subseteq DOMAIN data =>
         d2.n = data.n /\ d2.nbuckets = data.nbuckets /\ {"n", "nbuckets"} \subseteq DOMAIN d2
  OBVIOUS
<1> HIDE DEF d1, d2
<1> QED
  BY <1>1, <1>3, <1>4, <1>5 DEF Works, WorkInv, WorkCounts, WorkPcs

\* A search that failed.
LEMMA ChdAgain ==
    ASSUME pc = "search", mph.algo \in {"chd_ph", "chd"}, NEW t, ChdPhAgain(t), Keeps
    PROVE  Works
<1>1. mph' = mph /\ outer' = outer /\ file' = file /\ packed' = packed /\ m' = m
  BY DEF Keeps, m
<1> DEFINE d1 == [n |-> data.n, nbuckets |-> data.nbuckets, disp |-> t.disp,
                  iterations |-> data.iterations - 1, mapping |-> MappingTries]
<1>2. \/ pc' = "map" /\ data' = d1
      \/ pc' = "failed"
  BY DEF ChdPhAgain, GiveUp
<1>3. d1.n = data.n /\ d1.nbuckets = data.nbuckets /\ {"n", "nbuckets"} \subseteq DOMAIN d1
  OBVIOUS
<1> HIDE DEF d1
<1> QED
  BY <1>1, <1>2, <1>3 DEF Works, WorkInv, WorkCounts, WorkPcs

\* A search that found displacements for all buckets.
LEMMA ChdFinishes ==
    ASSUME pc = "search", NEW d, NEW size, Finish(d, size), Keeps,
           \/ mph.algo = "chd_ph" /\ \E t : d = ChdPhData(t) /\ size = data.n
           \/ mph.algo = "chd" /\ ~ mph.keys_per_bin > 1 /\ \E t : d = ChdData(t) /\ size = m
    PROVE  Works
<1>1. mph' = mph /\ outer' = outer /\ file' = file /\ packed' = packed
  BY DEF Keeps
<1>2. pc' = "built" /\ mphf' = [algo |-> mph.algo, size |-> size, data |-> d]
  BY DEF Finish
<1>3. mphf'.algo = mph.algo /\ mphf'.size = size /\ mphf'.data = d
  BY <1>2
<1>4. ASSUME WorkInv PROVE Counts(mphf')
  <2>1. mph.algo \in {"chd_ph", "chd"}
    OBVIOUS
  <2>2. /\ data.n \in Nat /\ data.nbuckets \in Nat \ {0} /\ (mph.keys_per_bin = 1 => data.n > m)
        /\ m \in Nat /\ mph.keys_per_bin \in Nat \ {0}
    BY <1>4, <2>1 DEF WorkInv, WorkCounts, WorkPcs, ConfigFits, m
  <2>3. CASE mph.algo = "chd_ph"
    <3>1. PICK t : d = ChdPhData(t) /\ size = data.n
      BY <2>3
    <3>2. d.cs = compressed_seq_generate(t.disp, data.nbuckets)
      BY <3>1 DEF ChdPhData
    <3>3. SeqCounts(d.cs)
      BY <2>2, <3>2, SeqGenerated
    <3> QED
      BY <1>3, <2>2, <2>3, <3>1, <3>3 DEF Counts, NameBytes
  <2>4. CASE mph.algo = "chd"
    <3>1. PICK t : d = ChdData(t) /\ size = m
      BY <2>4
    <3>2. data.n > m
      BY <2>2, <2>4
    <3>3. ChdCounts(d)
      BY <2>2, <3>1, <3>2, ChdDataCounts
    <3> QED
      BY <1>3, <2>2, <2>4, <3>1, <3>3 DEF Counts, NameBytes
  <2> QED
    BY <2>3, <2>4
<1> QED
  BY <1>1, <1>2, <1>3, <1>4 DEF Works, WorkPcs

\* The steps of chd_ph and chd.
LEMMA ChdWorks ==
    ASSUME ChdPhNew \/ ChdPhMap \/ ChdPhSearchStep \/ ChdNew \/ ChdMap \/ ChdSearchStep
    PROVE  Works
<1>1. CASE ChdPhNew \/ ChdNew
  BY <1>1, ChdStarts DEF ChdPhNew, ChdNew
<1>2. CASE ChdPhMap \/ ChdMap
  BY <1>2, ChdMaps DEF ChdPhMap, ChdMap
<1>3. CASE ChdPhSearchStep
  <2>1. pc = "search" /\ mph.algo = "chd_ph" /\ Keeps
    BY <1>3 DEF ChdPhSearchStep
  <2>2. PICK t : Finish(ChdPhData(t), data.n) \/ ChdPhAgain(t)
    BY <1>3, Zenon DEF ChdPhSearchStep
  <2>3. CASE Finish(ChdPhData(t), data.n)
    BY <2>1, <2>3, ChdFinishes, Zenon
  <2>4. CASE ChdPhAgain(t)
    BY <2>1, <2>4, ChdAgain
  <2> QED
    BY <2>2, <2>3, <2>4
<1>4. CASE ChdSearchStep
  <2>1. pc = "search" /\ mph.algo = "chd" /\ Keeps
    BY <1>4 DEF ChdSearchStep
  <2>2. PICK t : IF ~ t.ok THEN ChdPhAgain(t)
                 ELSE IF mph.keys_per_bin > 1 THEN pc' = "overflow" /\ UNCHANGED <<data, mphf>>
                 ELSE Finish(ChdData(t), m)
    BY <1>4, Zenon DEF ChdSearchStep
  <2>3. CASE Finish(ChdData(t), m) /\ ~ mph.keys_per_bin > 1
    BY <2>1, <2>3, ChdFinishes, Zenon
  <2>4. CASE ChdPhAgain(t)
    BY <2>1, <2>4, ChdAgain
  <2>5. CASE pc' = "overflow"
    BY <2>1, <2>5 DEF Works, WorkPcs, Keeps
  <2> QED
    BY <2>2, <2>3, <2>4, <2>5, Zenon
<1> QED
  BY <1>1, <1>2, <1>3, <1>4

\* What brz has while it partitions and merges.
BrzWork(d) ==
    /\ {"algo", "k", "c", "size"} \subseteq DOMAIN d
    /\ d.algo \in {"fch", "bmz8"} /\ d.k \in Number /\ d.k \in Nat
    /\ d.c \in Fraction /\ d.size \in Sizes(d.k)
\* Once the head is written, the keys of the current bucket are collected.
BrzMerges(d) == BrzWork(d) /\ "keys_vd" \in DOMAIN d /\ IsSeq(d.keys_vd)

\* cmph_new is called by the caller, or by brz for a bucket.
NewInv ==
    /\ ConfigFits(mph)
    /\ pc = "config" =>
          mph.keys_per_bin \in {1, chd_ph_config_set_keys_per_bin(data.request.keys_per_bin)}
    /\ pc = "new" => BinsFit
    /\ pc \in WorkPcs => WorkCounts
    /\ mph.algo = "brz" /\ pc = "partition" => BrzWork(data)
    /\ mph.algo = "brz" /\ pc = "merge" => BrzMerges(data)

\* While cmph_new works on a bucket, the state of brz is put aside.
OuterInv ==
    outer # << >> =>
        /\ ConfigFits(outer[1].mph) /\ outer[1].mph.algo = "brz" /\ BrzMerges(outer[1].data)
        /\ outer[1].bucket \in 0 .. outer[1].data.k - 1 /\ mph.algo = outer[1].data.algo

\* The function.  Of brz it is complete when it was loaded.
FunctionInv ==
    pc \in {"built", "dumped", "loaded"} =>
        /\ mphf.algo = mph.algo
        /\ IF mph.algo = "brz" /\ pc # "loaded" THEN mphf.data.k \in Nat ELSE Counts(mphf)

\* The file: what brz has written while it worked, or the whole dump of the others.
FileInv ==
    /\ outer # << >> => BrzFile(file)
    /\ outer = << >> /\ mph.algo = "brz" =>
          /\ pc \in {"config", "new"} => file = << >>
          /\ pc = "partition" => file = << >> \/ BrzFile(file)
          /\ pc \in {"merge", "built", "dumped"} => BrzFile(file)
    /\ outer = << >> /\ mph.algo # "brz" =>
          /\ pc \notin {"dumped", "loaded"} => file = << >>
          /\ pc = "dumped" => file = cmph_dump(mphf)

\* The packed block, and the size that the caller was told.
PackInv ==
    packed # << >> =>
        /\ outer = << >> /\ pc \in {"built", "dumped", "loaded"} /\ (mph.algo = "brz" => pc = "loaded")
        /\ Size(packed) = cmph_packed_size(mphf)

\* The inductive invariant.
PackedInv == NewInv /\ OuterInv /\ FunctionInv /\ FileInv /\ PackInv

\* Before there is a function nothing is packed.
LEMMA NothingPacked ==
    ASSUME PackedInv, pc \notin {"built", "dumped", "loaded"} \/ outer # << >>
    PROVE  packed = << >>
  BY DEF PackedInv, PackInv

\* Every step of an algorithm other than brz, in a function of the caller or of a bucket.
LEMMA WorkKeeps ==
    ASSUME PackedInv, Works
    PROVE  PackedInv'
<1>1. packed = << >> /\ packed' = << >> /\ m' = m /\ mph' = mph /\ outer' = outer /\ file' = file
  BY NothingPacked DEF Works, m, WorkPcs
<1>2. pc \in {"new"} \cup WorkPcs /\ mph.algo # "brz"
      /\ pc' \notin {"config", "new", "dumped", "loaded", "partition", "merge"}
  BY DEF Works
<1>3. WorkInv
  BY DEF WorkInv, PackedInv, NewInv
<1>4. NewInv'
  BY <1>1, <1>2, <1>3 DEF NewInv, Works, WorkInv, ConfigFits
<1>5. OuterInv'
  BY <1>1 DEF OuterInv, PackedInv, ConfigFits, BrzMerges, BrzWork, Sizes, IsSeq
<1>6. FunctionInv'
  BY <1>1, <1>2, <1>3 DEF FunctionInv, Works
<1>7. FileInv'
  <2>1. BrzFile(file)' = BrzFile(file)
    BY <1>1 DEF BrzFile, BrzWritten, Filed, Begins, Headed, Token, Block, Sized, BrzCounts
  <2> QED
    BY <1>1, <1>2, <2>1 DEF FileInv, PackedInv, WorkPcs
<1> QED
  BY <1>1, <1>4, <1>5, <1>6, <1>7 DEF PackedInv, PackInv

-----------------------------------------------------------------------------
(* The steps of brz. *)

\* Rounding up never gives more than was divided.
LEMMA CeilDivLess ==
    ASSUME NEW a \in Nat, NEW b \in Nat \ {0}
    PROVE  CeilDiv(a, b) \in 0 .. a
<1> DEFINE x == a + b - 1
           d == x \div b
<1>1. x \in Nat
  OBVIOUS
<1> HIDE DEF x
<1>2. d \in Nat /\ x = b * d + (x % b) /\ x % b \in 0 .. b - 1
  BY <1>1
<1> HIDE DEF d
<1>3. d <= a
  <2> SUFFICES ASSUME d >= a + 1 PROVE FALSE
    BY <1>2
  <2>1. b * d >= b * (a + 1)
    BY <1>2
  <2>2. b * (a + 1) = b * a + b /\ b * a >= a
    OBVIOUS
  <2>3. x = a + b - 1 /\ b * d \in Int /\ b * a \in Int
    BY <1>2 DEF x
  <2> QED
    BY <1>2, <2>1, <2>2, <2>3
<1> QED
  BY <1>2, <1>3 DEF CeilDiv, d, x

\* brz_new: as many buckets as b keys each take.
LEMMA BrzNewKeeps ==
    ASSUME PackedInv, BrzNew, outer = << >>
    PROVE  PackedInv'
<1> DEFINE algo == IF mph.c[1] >= 2 * mph.c[2] THEN "fch" ELSE "bmz8"
           k == CeilDiv(m, mph.b)
           c == IF algo = "fch" THEN (IF mph.c[1] <= 2 * mph.c[2] THEN <<26, 10>> ELSE mph.c)
                ELSE IF mph.c[1] = 0 THEN <<1, 1>> ELSE mph.c
           size == [b \in 0 .. k - 1 |-> 0]
           d == [algo |-> algo, k |-> k, iterations |-> BrzTries, size |-> size, c |-> c]
<1>1. /\ pc = "new" /\ mph.algo = "brz" /\ pc' = "partition" /\ data' = d
      /\ mph' = mph /\ outer' = outer /\ file' = file /\ packed' = packed
  BY DEF BrzNew, Starts, Keeps
<1>2. ConfigFits(mph) /\ file = << >> /\ packed = << >>
  BY <1>1, NothingPacked DEF PackedInv, NewInv, FileInv
<1>3. k \in Number /\ k \in Nat
  <2>1. m \in Nat /\ m \in Number /\ mph.b \in Nat \ {0}
    BY <1>1, <1>2 DEF ConfigFits, m
  <2>2. k \in 0 .. m
    BY <2>1, CeilDivLess
  <2> DEFINE top == 2 ^ Word
  <2>3. top \in Nat /\ m \in 0 .. top - 1
    BY <2>1, StructsAssumption, PowerOfTwo DEF Number
  <2> HIDE DEF k, top
  <2>4. k \in 0 .. top - 1 /\ k \in Nat
    BY <2>1, <2>2, <2>3
  <2> QED
    BY <2>4 DEF Number, top
<1>4. c \in Fraction /\ algo \in {"fch", "bmz8"}
  BY <1>2 DEF ConfigFits, Fraction
<1>5. size \in Sizes(k)
  <2>1. 0 \in 0 .. MAX_BUCKET_SIZE
    BY MaxIs, NumberIs
  <2> QED
    BY <2>1 DEF Sizes
<1>6. d.algo = algo /\ d.k = k /\ d.c = c /\ d.size = size /\ {"algo", "k", "c", "size"} \subseteq DOMAIN d
  OBVIOUS
<1> HIDE DEF algo, k, c, size, d
<1>7. BrzWork(d)
  BY <1>3, <1>4, <1>5, <1>6 DEF BrzWork
<1>8. NewInv'
  BY <1>1, <1>2, <1>7 DEF NewInv, WorkPcs
<1> QED
  BY <1>1, <1>2, <1>8 DEF PackedInv, OuterInv, FunctionInv, FileInv, PackInv

\* After a try that failed.
LEMMA BrzAgainKeeps ==
    ASSUME PackedInv, outer = << >>, mph.algo = "brz", pc = "partition",
           NEW size \in Sizes(data.k), BrzAgain(size),
           mph' = mph, outer' = outer, file' = file, packed' = packed
    PROVE  PackedInv'
<1> DEFINE d == [algo |-> data.algo, k |-> data.k, c |-> data.c, size |-> size,
                 iterations |-> data.iterations - 1]
<1>1. (pc' = "partition" /\ data' = d) \/ pc' = "failed"
  BY DEF BrzAgain, GiveUp
<1>2. BrzWork(data) /\ ConfigFits(mph) /\ packed = << >> /\ (file = << >> \/ BrzFile(file))
  BY NothingPacked DEF PackedInv, NewInv, FileInv
<1>3. BrzWork(d)
  BY <1>2 DEF BrzWork
<1> HIDE DEF d
<1>4. NewInv'
  BY <1>1, <1>2, <1>3 DEF NewInv, WorkPcs
<1> QED
  BY <1>1, <1>2, <1>4 DEF PackedInv, OuterInv, FunctionInv, FileInv, PackInv

\* A step of brz itself after which nothing more is done.
LEMMA StopKeeps ==
    ASSUME PackedInv, outer = << >>, mph.algo = "brz", pc \in {"partition", "merge"},
           pc' \in {"undefined", "abort", "failed"},
           mph' = mph, outer' = outer, packed' = packed
    PROVE  PackedInv'
<1>1. ConfigFits(mph) /\ packed = << >>
  BY NothingPacked DEF PackedInv, NewInv
<1>2. NewInv'
  BY <1>1 DEF NewInv, WorkPcs
<1> QED
  BY <1>1, <1>2 DEF PackedInv, OuterInv, FunctionInv, FileInv, PackInv

\* A block in front of which nothing is written.
LEMMA BlockIsSeq ==
    ASSUME NEW s, NEW y, NEW n, Block(s, y, n)
    PROVE  << >> \o s = s
<1>1. PICK T : s \in Seq(T)
  BY SizedIs, Zenon DEF Block
<1> QED
  BY <1>1

\* The head of brz, in a new file or behind what a failed try has written.
LEMMA HeadWritten ==
    ASSUME BrzWork(data), ConfigFits(mph), NEW size \in Sizes(data.k), file = << >> \/ BrzFile(file)
    PROVE  BrzFile(file \o BrzHead(size))
<1> DEFINE h == BrzHead(size)
<1>1. BrzFile(h) /\ \E y, n : Block(h, y, n)
  <2>1. m \in Number /\ data.algo \in {"fch", "bmz8"} /\ data.k \in Number /\ data.k \in Nat
        /\ data.c \in Fraction /\ \A b \in 0 .. data.k - 1 : size[b] \in 0 .. MAX_BUCKET_SIZE
    BY DEF BrzWork, ConfigFits, Sizes, m
  <2> QED
    BY <2>1, BrzHeadIs
<1> HIDE DEF h
<1>2. PICK y, n : Block(h, y, n)
  BY <1>1
<1>3. CASE file = << >>
  BY <1>1, <1>2, <1>3, BlockIsSeq DEF h
<1>4. CASE BrzFile(file)
  BY <1>2, <1>4, BrzFileGrows DEF h
<1> QED
  BY <1>3, <1>4

\* brz_gen_mphf: the partition of the keys, and the head of the file.
LEMMA BrzPartitionKeeps ==
    ASSUME PackedInv, BrzPartition, outer = << >>
    PROVE  PackedInv'
<1>1. pc = "partition" /\ mph.algo = "brz" /\ mph' = mph /\ outer' = outer /\ packed' = packed
  BY DEF BrzPartition
<1>2. BrzWork(data) /\ ConfigFits(mph) /\ packed = << >> /\ (file = << >> \/ BrzFile(file))
  BY <1>1, NothingPacked DEF PackedInv, NewInv, FileInv
<1>3. PICK h0, size, bm, held, buffer_h0 :
        /\ size = brz_partition(data.size, h0).size
        /\ \/ pc' = "undefined"
           \/ BrzAgain(size) /\ file' = file
           \/ /\ file' = file \o BrzHead(size) /\ pc' = "merge"
              /\ data' = [algo |-> data.algo, k |-> data.k, c |-> data.c,
                          iterations |-> data.iterations, size |-> size, h0 |-> h0,
                          bm |-> bm, held |-> held, keys_vd |-> << >>, e |-> 0,
                          buffer_h0 |-> buffer_h0]
  BY Zenon DEF BrzPartition, Undefined
<1>4. size \in Sizes(data.k)
  <2>1. m \in Nat /\ data.size \in Sizes(data.k)
    BY <1>2 DEF ConfigFits, BrzWork, m
  <2> QED
    BY <1>3, <2>1, PartitionSizes
<1>5. CASE pc' = "undefined"
  BY <1>1, <1>5, StopKeeps
<1>6. CASE BrzAgain(size) /\ file' = file
  BY <1>1, <1>4, <1>6, BrzAgainKeeps
<1> DEFINE d == [algo |-> data.algo, k |-> data.k, c |-> data.c,
                 iterations |-> data.iterations, size |-> size, h0 |-> h0,
                 bm |-> bm, held |-> held, keys_vd |-> << >>, e |-> 0,
                 buffer_h0 |-> buffer_h0]
<1>7. CASE file' = file \o BrzHead(size) /\ pc' = "merge" /\ data' = d
  <2>1. d.algo = data.algo /\ d.k = data.k /\ d.c = data.c /\ d.size = size /\ d.keys_vd = << >>
        /\ {"algo", "k", "c", "size", "keys_vd"} \subseteq DOMAIN d
    OBVIOUS
  <2> HIDE DEF d
  <2>2. IsSeq(d.keys_vd)
    <3>1. << >> \in Seq({})
      OBVIOUS
    <3> QED
      BY <2>1, <3>1 DEF IsSeq
  <2>3. BrzMerges(d)
    BY <1>2, <1>4, <2>1, <2>2 DEF BrzMerges, BrzWork
  <2>4. NewInv'
    BY <1>1, <1>2, <1>7, <2>3 DEF NewInv, WorkPcs
  <2>5. BrzFile(file)'
    <3>1. BrzFile(file \o BrzHead(size))
      BY <1>2, <1>4, HeadWritten
    <3> QED
      BY <1>7, <3>1
  <2> QED
    BY <1>1, <1>2, <1>7, <2>4, <2>5 DEF PackedInv, OuterInv, FunctionInv, FileInv, PackInv
<1> QED
  BY <1>3, <1>5, <1>6, <1>7

-----------------------------------------------------------------------------
(* The merge: cmph_new is called for each bucket. *)

\* What cmph_new gets for a bucket.
LEMMA BucketFits ==
    ASSUME ConfigFits(mph), BrzWork(data), NEW keys, Len(keys) \in Nat \ {0}, Len(keys) <= MAX_BUCKET_SIZE
    PROVE  ConfigFits(BucketConfig(keys)) /\ BucketConfig(keys).algo = data.algo
<1> DEFINE x == BucketConfig(keys)
           s == cmph_io_byte_vector_adapter(keys)
           n == Len(keys)
           k == Keys(s)
<1>1. s.nkeys = n
  BY DEF cmph_io_byte_vector_adapter, cmph_io_vector_adapter
<1> HIDE DEF s, n
<1>2. n \in Nat \ {0} /\ n \in Number
  <2>1. n \in 0 .. MAX_BUCKET_SIZE
    BY MaxIs, NumberIs DEF n
  <2> QED
    BY <2>1, SizesAreNumbers DEF n
<1>3. Len(k) = n
  BY <1>1, <1>2 DEF Keys
<1> HIDE DEF k
<1>4. x = [mph EXCEPT !.algo = data.algo, !.c = data.c, !.b = 0, !.keys_per_bin = 1, !.keys = k]
  BY DEF BucketConfig, k, s
<1>5. {"algo", "c", "b", "keys_per_bin", "keys"} \subseteq DOMAIN mph
  BY DEF ConfigFits
<1>6. /\ {"algo", "c", "b", "keys_per_bin", "keys"} \subseteq DOMAIN x
      /\ x.algo = data.algo /\ x.c = data.c /\ x.b = 0 /\ x.keys_per_bin = 1 /\ x.keys = k
  BY <1>4, <1>5
<1> HIDE DEF x
<1>7. ConfigFits(x) /\ x.algo = data.algo
  BY <1>2, <1>3, <1>6 DEF ConfigFits, BrzWork
<1> QED
  BY <1>7 DEF x

\* A round of the merge.
LEMMA BrzMergeKeeps ==
    ASSUME PackedInv, BrzMerge, outer = << >>
    PROVE  PackedInv'
<1>1. pc = "merge" /\ mph.algo = "brz" /\ file' = file /\ packed' = packed
  BY DEF BrzMerge
<1>2. BrzMerges(data) /\ BrzWork(data) /\ ConfigFits(mph) /\ packed = << >> /\ BrzFile(file)
  BY <1>1, NothingPacked DEF PackedInv, NewInv, FileInv, BrzMerges
<1>3. PICK i : \E s \in {SameBucket(data, i)} :
          LET cur == data.buffer_h0[i]
              keys_vd == Append(s.keys_vd, data.held[i])
              d == [data EXCEPT !.bm = s.bm, !.keys_vd = keys_vd, !.held[i] = s.key,
                                !.e = @ + Len(keys_vd) - Len(data.keys_vd),
                                !.buffer_h0[i] = IF s.key = Null THEN UINT_MAX
                                                 ELSE Bucket(data.h0, s.key, data.k)]
          IN  IF s.key = Wild \/ cur \notin DOMAIN data.size
              THEN Undefined /\ UNCHANGED <<mph, outer>>
              ELSE IF Len(s.keys_vd) >= data.size[cur] THEN Abort /\ UNCHANGED <<mph, outer>>
              ELSE IF Len(keys_vd) < data.size[cur]
              THEN data' = d /\ UNCHANGED <<pc, mphf, mph, outer>>
              ELSE /\ outer' = <<[mph |-> mph, data |-> [d EXCEPT !.keys_vd = << >>], bucket |-> cur]>>
                   /\ mph' = BucketConfig(keys_vd)
                   /\ pc' = "new" /\ data' = Null /\ UNCHANGED mphf
  BY DEF BrzMerge
<1> DEFINE s == SameBucket(data, i)
           cur == data.buffer_h0[i]
           keys_vd == Append(s.keys_vd, data.held[i])
           d == [data EXCEPT !.bm = s.bm, !.keys_vd = keys_vd, !.held[i] = s.key,
                             !.e = @ + Len(keys_vd) - Len(data.keys_vd),
                             !.buffer_h0[i] = IF s.key = Null THEN UINT_MAX
                                              ELSE Bucket(data.h0, s.key, data.k)]
           d2 == [d EXCEPT !.keys_vd = << >>]
           o == [mph |-> mph, data |-> d2, bucket |-> cur]
<1>4. \/ pc' \in {"undefined", "abort"} /\ mph' = mph /\ outer' = outer
      \/ data' = d /\ pc' = pc /\ mph' = mph /\ outer' = outer
      \/ /\ cur \in DOMAIN data.size /\ ~ Len(s.keys_vd) >= data.size[cur] /\ ~ Len(keys_vd) < data.size[cur]
         /\ outer' = <<o>> /\ mph' = BucketConfig(keys_vd) /\ pc' = "new"
  <2> HIDE DEF s
  <2> QED
    BY <1>3 DEF Undefined, Abort, s
<1>5. IsSeq(keys_vd) /\ Len(s.keys_vd) \in Nat /\ Len(keys_vd) = Len(s.keys_vd) + 1
  <2>1. m \in Nat /\ IsSeq(data.keys_vd)
    BY <1>2 DEF ConfigFits, BrzMerges, m
  <2>2. IsSeq(s.keys_vd)
    BY <2>1, BucketIsSeq
  <2> HIDE DEF s
  <2> QED
    BY <2>2, AppendIsSeq
<1>6. {"algo", "k", "c", "size", "keys_vd"} \subseteq DOMAIN data
  BY <1>2 DEF BrzMerges, BrzWork
<1> HIDE DEF s, cur, keys_vd
<1>7. /\ d.algo = data.algo /\ d.k = data.k /\ d.c = data.c /\ d.size = data.size /\ d.keys_vd = keys_vd
      /\ {"algo", "k", "c", "size", "keys_vd"} \subseteq DOMAIN d
  BY <1>6
<1> HIDE DEF d
<1>8. /\ d2.algo = data.algo /\ d2.k = data.k /\ d2.c = data.c /\ d2.size = data.size /\ d2.keys_vd = << >>
      /\ {"algo", "k", "c", "size", "keys_vd"} \subseteq DOMAIN d2
  BY <1>7
<1> HIDE DEF d2
<1>9. BrzMerges(d)
  BY <1>2, <1>5, <1>7 DEF BrzMerges, BrzWork
<1>10. BrzMerges(d2)
  <2>1. << >> \in Seq({})
    OBVIOUS
  <2> QED
    BY <1>2, <1>8, <2>1 DEF BrzMerges, BrzWork, IsSeq
<1>11. CASE pc' \in {"undefined", "abort"} /\ mph' = mph /\ outer' = outer
  BY <1>1, <1>11, StopKeeps
<1>12. CASE data' = d /\ pc' = pc /\ mph' = mph /\ outer' = outer
  <2>1. NewInv'
    BY <1>1, <1>2, <1>9, <1>12 DEF NewInv, WorkPcs
  <2>2. BrzFile(file)'
    BY <1>1, <1>2
  <2> QED
    BY <1>1, <1>2, <1>12, <2>1, <2>2 DEF PackedInv, OuterInv, FunctionInv, FileInv, PackInv
<1>13. CASE /\ cur \in DOMAIN data.size /\ ~ Len(s.keys_vd) >= data.size[cur] /\ ~ Len(keys_vd) < data.size[cur]
            /\ outer' = <<o>> /\ mph' = BucketConfig(keys_vd) /\ pc' = "new"
  <2>1. cur \in 0 .. data.k - 1 /\ data.size[cur] \in 0 .. MAX_BUCKET_SIZE
    BY <1>2, <1>13 DEF BrzWork, Sizes
  <2>2. Len(keys_vd) \in Nat \ {0} /\ Len(keys_vd) <= MAX_BUCKET_SIZE
    <3> DEFINE top == MAX_BUCKET_SIZE
               z == data.size[cur]
               l == Len(s.keys_vd)
               l2 == Len(keys_vd)
    <3>1. top \in Nat
      BY MaxIs, NumberIs
    <3>2. z \in 0 .. top /\ l \in Nat /\ l2 = l + 1 /\ ~ l >= z /\ ~ l2 < z
      BY <1>5, <1>13, <2>1
    <3> HIDE DEF top, z, l, l2
    <3>3. l2 \in Nat \ {0} /\ l2 <= top
      BY <3>1, <3>2
    <3> QED
      BY <3>3 DEF top, l2
  <2>3. ConfigFits(mph') /\ mph'.algo = data.algo
    BY <1>2, <1>13, <2>2, BucketFits
  <2>4. mph'.algo \in {"fch", "bmz8"}
    BY <1>2, <2>3 DEF BrzWork
  <2>5. NewInv'
    BY <1>13, <2>3, <2>4 DEF NewInv, WorkPcs, BinsFit
  <2>6. outer' # << >> /\ outer'[1] = o
    BY <1>13
  <2>7. o.mph = mph /\ o.data = d2 /\ o.bucket = cur
    OBVIOUS
  <2> HIDE DEF o
  <2>8. OuterInv'
    BY <1>1, <1>2, <1>8, <1>10, <2>1, <2>3, <2>6, <2>7 DEF OuterInv
  <2>9. BrzFile(file)'
    BY <1>1, <1>2
  <2> QED
    BY <1>1, <1>2, <1>13, <2>4, <2>5, <2>6, <2>8, <2>9 DEF PackedInv, FunctionInv, FileInv, PackInv
<1> QED
  BY <1>4, <1>11, <1>12, <1>13

\* The function of a bucket, as it goes to the file.
LEMMA CopiesAre ==
    /\ \A d : d.b \in Nat => \E y, n : Block(brz_copy_partial_fch_mphf(d), y, n)
    /\ \A d, k : k \in Nat => \E y, n : Block(brz_copy_partial_bmz8_mphf(d, k), y, n)
<1>1. \A h1, h2, g, k : k \in Nat =>
         Block(hash_state_dump(h1) \o hash_state_dump(h2) \o GBytes(g, k), 16 + 16 + 1 * k, 2 + 2 + k)
  <2> TAKE h1, h2, g, k
  <2> DEFINE s1 == hash_state_dump(h1)
             s2 == hash_state_dump(h2)
             s3 == GBytes(g, k)
  <2> HAVE k \in Nat
  <2>1. Block(s1, 16, 2) /\ Block(s2, 16, 2) /\ Block(s3, 1 * k, k)
    BY Pieces, GBytesAre, Zenon
  <2> HIDE DEF s1, s2, s3
  <2>2. Block(s1 \o s2, 16 + 16, 2 + 2)
    BY <2>1, BlocksJoin, Zenon
  <2>3. Block((s1 \o s2) \o s3, 16 + 16 + 1 * k, 2 + 2 + k)
    BY <2>1, <2>2, BlocksJoin, Zenon
  <2> QED
    BY <2>3 DEF s1, s2, s3
<1>2. ASSUME NEW d, d.b \in Nat PROVE \E y, n : Block(brz_copy_partial_fch_mphf(d), y, n)
  BY <1>1, <1>2, Zenon DEF brz_copy_partial_fch_mphf
<1>3. ASSUME NEW d, NEW k \in Nat PROVE \E y, n : Block(brz_copy_partial_bmz8_mphf(d, k), y, n)
  BY <1>1, <1>3, Zenon DEF brz_copy_partial_bmz8_mphf
<1> QED
  BY <1>2, <1>3

\* The function of a bucket is written behind the others, or everything starts again.
LEMMA BrzBucketKeeps ==
    ASSUME PackedInv, BrzBucket
    PROVE  PackedInv'
<1> DEFINE d == outer[1].data
           n == BucketCells(d.algo, d.c, d.size[outer[1].bucket])
           again == [algo |-> d.algo, k |-> d.k, c |-> d.c, size |-> d.size, iterations |-> d.iterations - 1]
           fch == brz_copy_partial_fch_mphf(mphf.data)
           bmz8 == brz_copy_partial_bmz8_mphf(mphf.data, n)
           t == IF d.algo = "fch" THEN fch ELSE bmz8
<1>1. /\ outer # << >> /\ pc \in {"built", "failed"} /\ outer' = << >> /\ mph' = outer[1].mph /\ packed' = packed
      /\ \/ pc = "built" /\ file' = file \o t /\ data' = d /\ pc' = "merge"
         \/ pc = "failed" /\ file' = file /\ pc' = "partition" /\ data' = again
         \/ pc = "failed" /\ pc' = "failed"
  BY DEF BrzBucket
<1>2. /\ ConfigFits(outer[1].mph) /\ outer[1].mph.algo = "brz" /\ BrzMerges(d)
      /\ outer[1].bucket \in 0 .. d.k - 1 /\ mph.algo = d.algo
  BY <1>1 DEF PackedInv, OuterInv
<1>3. packed = << >> /\ BrzFile(file)
  BY <1>1, NothingPacked DEF PackedInv, FileInv
<1>4. BrzWork(d)
  BY <1>2 DEF BrzMerges
<1>5. BrzWork(again)
  <2>1. /\ again.algo = d.algo /\ again.k = d.k /\ again.c = d.c /\ again.size = d.size
        /\ {"algo", "k", "c", "size"} \subseteq DOMAIN again
    OBVIOUS
  <2> HIDE DEF again
  <2> QED
    BY <1>4, <2>1 DEF BrzWork
<1>6. pc = "built" => BrzFile(file \o t)
  <2> SUFFICES ASSUME pc = "built" PROVE BrzFile(file \o t)
    OBVIOUS
  <2>1. Counts(mphf) /\ mphf.algo = d.algo
    <3>1. d.algo # "brz"
      BY <1>4 DEF BrzWork
    <3> QED
      BY <1>2, <3>1 DEF PackedInv, FunctionInv
  <2>2. n \in Nat
    <3>1. d.c \in Fraction /\ d.size[outer[1].bucket] \in 0 .. MAX_BUCKET_SIZE
      BY <1>2, <1>4 DEF BrzWork, Sizes
    <3> QED
      BY <3>1, CellsNat
  <2>3. d.algo = "fch" => mphf.data.b \in Nat
    BY <2>1 DEF Counts
  <2> HIDE DEF n, d
  <2>4. d.algo = "fch" => \E y, l : Block(fch, y, l)
    BY <2>3, CopiesAre, Zenon
  <2>5. \E y, l : Block(bmz8, y, l)
    BY <2>2, CopiesAre, Zenon
  <2> HIDE DEF fch, bmz8
  <2>6. \E y, l : Block(t, y, l)
    BY <2>4, <2>5
  <2> HIDE DEF t
  <2> QED
    BY <1>3, <2>6, BrzFileGrows
<1> HIDE DEF d, again, t
<1>7. NewInv'
  BY <1>1, <1>2, <1>5 DEF NewInv, WorkPcs
<1>8. pc' \in {"merge", "partition"} => BrzFile(file)'
  <2>1. CASE pc = "built"
    <3>1. file' = file \o t /\ BrzFile(file \o t)
      BY <1>1, <1>6, <2>1
    <3> QED
      BY <3>1
  <2>2. CASE pc = "failed"
    <3>1. pc' \in {"merge", "partition"} => file' = file
      BY <1>1, <2>2
    <3> QED
      BY <1>3, <3>1
  <2> QED
    BY <1>1, <2>1, <2>2
<1>9. FileInv'
  BY <1>1, <1>2, <1>8 DEF FileInv
<1> QED
  BY <1>1, <1>3, <1>7, <1>9 DEF PackedInv, OuterInv, FunctionInv, PackInv

\* All buckets are written.
LEMMA BrzFinishKeeps ==
    ASSUME PackedInv, BrzFinish, outer = << >>
    PROVE  PackedInv'
<1> DEFINE d == [g |-> Null, h1 |-> Null, h2 |-> Null, h0 |-> data.h0, size |-> data.size,
                 offset |-> Offsets(data.size), k |-> data.k, c |-> data.c, m |-> m,
                 algo |-> data.algo]
<1>1. /\ pc = "merge" /\ mph.algo = "brz" /\ pc' = "built" /\ mphf' = [algo |-> mph.algo, size |-> m, data |-> d]
      /\ mph' = mph /\ outer' = outer /\ file' = file /\ packed' = packed
  BY DEF BrzFinish, Finish, Keeps
<1>2. d.k = data.k
  OBVIOUS
<1> HIDE DEF d
<1>3. mphf'.algo = mph.algo /\ mphf'.data.k = data.k
  BY <1>1, <1>2
<1>4. ConfigFits(mph) /\ packed = << >> /\ BrzFile(file) /\ data.k \in Nat
  BY <1>1, NothingPacked DEF PackedInv, NewInv, FileInv, BrzMerges, BrzWork
<1>5. NewInv'
  BY <1>1, <1>4 DEF NewInv, WorkPcs
<1>6. FunctionInv'
  BY <1>1, <1>3, <1>4 DEF FunctionInv
<1>7. FileInv'
  <2>1. BrzFile(file)'
    BY <1>1, <1>4
  <2> QED
    BY <1>1, <2>1 DEF FileInv
<1> QED
  BY <1>1, <1>4, <1>5, <1>6, <1>7 DEF PackedInv, OuterInv, PackInv

\* Every step of brz: only BrzBucket is taken while a bucket is worked on.
LEMMA BrzKeeps ==
    ASSUME PackedInv, BrzNew \/ BrzPartition \/ BrzMerge \/ BrzBucket \/ BrzFinish
    PROVE  PackedInv'
<1>1. ASSUME BrzNew \/ BrzPartition \/ BrzMerge \/ BrzFinish PROVE outer = << >>
  <2>1. mph.algo = "brz"
    BY <1>1 DEF BrzNew, BrzPartition, BrzMerge, BrzFinish, Starts
  <2>2. outer # << >> => mph.algo \in {"fch", "bmz8"}
    BY DEF PackedInv, OuterInv, BrzMerges, BrzWork
  <2> QED
    BY <2>1, <2>2
<1> QED
  BY <1>1, BrzNewKeeps, BrzPartitionKeeps, BrzMergeKeeps, BrzFinishKeeps, BrzBucketKeeps

-----------------------------------------------------------------------------
(* The caller makes the config, and calls cmph_new. *)

\* What CallerInv says of the parameters.
CallerSays ==
    /\ {"algo", "c", "keys"} \subseteq DOMAIN mph
    /\ mph.c \in Fraction /\ Len(mph.keys) \in Number \ {0} /\ Len(mph.keys) \in Nat
    /\ data.request \in Requests
    /\ outer = << >> /\ packed = << >> /\ file = << >>

\* A request has numbers for parameters, and nothing is written before cmph_new.
LEMMA CallerParams == IInv /\ pc = "config" => CallerSays
<1> SUFFICES ASSUME IInv, pc = "config" PROVE CallerSays
  OBVIOUS
<1> DEFINE r == data.request
<1>1. r \in Requests /\ mph.keys = Keys(r.source) /\ mph.c \in {<<0, 1>>, r.c}
      /\ {"algo", "c", "keys"} \subseteq DOMAIN mph
      /\ outer = << >> /\ packed = << >> /\ file = << >>
  BY DEF IInv, CallerInv
<1>2. r.c \in Fraction /\ r.source.nkeys \in Number \ {0}
  BY <1>1, StructsAssumption DEF Fraction
<1> HIDE DEF r
<1>3. <<0, 1>> \in Fraction
  BY DEF Fraction
<1>4. r.source.nkeys \in Nat
  BY <1>2, NumberIs
<1>5. Len(mph.keys) = r.source.nkeys
  BY <1>1, <1>4 DEF Keys
<1> QED
  BY <1>1, <1>2, <1>3, <1>4, <1>5 DEF r, CallerSays

\* The setters never leave a parameter 0 by which the algorithm divides.
LEMMA BsFit ==
    /\ \A a : DefaultB(a) \in Nat /\ (a \in {"brz", "chd_ph", "chd"} => DefaultB(a) # 0)
    /\ \A b \in Nat : /\ brz_config_set_b(b) \in Nat \ {0} /\ bdz_config_set_b(b) \in Nat
                      /\ chd_ph_config_set_b(b) \in Nat \ {0}
                      /\ chd_ph_config_set_keys_per_bin(b) \in Nat \ {0}
  BY BrzAssumption DEF DefaultB, brz_config_set_b, bdz_config_set_b, chd_ph_config_set_b,
     chd_ph_config_set_keys_per_bin

\* Every call of a setter, in any order.
LEMMA ConfigKeeps ==
    ASSUME IInv, PackedInv,
           \/ cmph_config_set_algo \/ cmph_config_set_graphsize
           \/ cmph_config_set_b \/ cmph_config_set_keys_per_bin
           \/ cmph_config_set_memory_availability \/ cmph_config_set_mphf_fd
    PROVE  PackedInv'
<1>1. IInv'
  BY ConfigSteps
<1>2. \E call : Calls(call)
  BY DEF cmph_config_set_algo, cmph_config_set_graphsize, cmph_config_set_b, cmph_config_set_keys_per_bin,
     cmph_config_set_memory_availability, cmph_config_set_mphf_fd
<1>3. pc = "config" /\ pc' = "config"
  BY <1>2 DEF Calls
<1>4. data.request \in Requests
  BY <1>3, CallerParams DEF CallerSays
<1>5. "request" \in DOMAIN data \/ data'.request = data.request
  BY <1>2 DEF Calls
<1>6. ConfigFits(mph) /\ mph.keys_per_bin \in {1, chd_ph_config_set_keys_per_bin(data.request.keys_per_bin)}
  BY <1>3 DEF PackedInv, NewInv
<1>7. IInv' /\ (pc = "config")' => CallerSays'
  BY CallerParams, PTL
<1>8. /\ {"algo", "c", "keys"} \subseteq DOMAIN mph'
      /\ mph'.c \in Fraction /\ Len(mph'.keys) \in Number \ {0} /\ Len(mph'.keys) \in Nat
      /\ data'.request \in Requests /\ outer' = << >> /\ packed' = << >> /\ file' = << >>
  BY <1>1, <1>3, <1>7 DEF CallerSays
<1>9. data'.request = data.request
  BY <1>2, <1>3 DEF Calls
<1>10. data.request.b \in Nat /\ data.request.keys_per_bin \in Nat
  BY <1>4, StructsAssumption
<1>11. /\ {"algo", "b", "keys_per_bin"} \subseteq DOMAIN mph /\ mph.b \in Nat
       /\ mph.algo \in {"brz", "chd_ph", "chd"} => mph.b # 0
  BY <1>6 DEF ConfigFits
<1> DEFINE kpb == {1, chd_ph_config_set_keys_per_bin(data.request.keys_per_bin)}
           BFits(x) == x.b \in Nat /\ (x.algo \in {"brz", "chd_ph", "chd"} => x.b # 0)
           Right(x) == {"b", "keys_per_bin"} \subseteq DOMAIN x /\ BFits(x) /\ x.keys_per_bin \in kpb
<1>12. Right(mph) /\ {"algo", "b", "keys_per_bin"} \subseteq DOMAIN mph
  BY <1>6, <1>11
<1>13. Right(mph')
  <2>1. CASE cmph_config_set_algo
    <3> DEFINE a == data.request.algo
    <3>1. CASE mph' = mph
      BY <1>12, <3>1
    <3>2. CASE mph' = [mph EXCEPT !.algo = a, !.b = DefaultB(a), !.keys_per_bin = 1, !.memory = BrzMB, !.mphf_fd = FALSE]
      <4>1. mph'.algo = a /\ mph'.b = DefaultB(a) /\ mph'.keys_per_bin = 1 /\ {"b", "keys_per_bin"} \subseteq DOMAIN mph'
        BY <1>12, <3>2
      <4> HIDE DEF a
      <4> QED
        BY <4>1, BsFit
    <3> QED
      BY <2>1, <3>1, <3>2 DEF cmph_config_set_algo
  <2>2. CASE cmph_config_set_graphsize
    <3>1. \E v : mph' = [mph EXCEPT !.c = v]
      BY <2>2 DEF cmph_config_set_graphsize
    <3> QED
      BY <1>12, <3>1
  <2>3. CASE cmph_config_set_b
    <3>1. \E v : mph' = [mph EXCEPT !.b = v] /\ v \in Nat /\ (mph.algo \in {"brz", "chd_ph", "chd"} => v # 0)
      BY <1>10, <1>11, <2>3, BsFit DEF cmph_config_set_b
    <3> QED
      BY <1>12, <3>1
  <2>4. CASE cmph_config_set_keys_per_bin
    <3>1. \E v \in kpb : mph' = [mph EXCEPT !.keys_per_bin = v]
      BY <1>12, <2>4 DEF cmph_config_set_keys_per_bin
    <3> HIDE DEF kpb
    <3> QED
      BY <1>12, <3>1
  <2>5. CASE cmph_config_set_memory_availability
    <3>1. \E v : mph' = [mph EXCEPT !.memory = v]
      BY <2>5 DEF cmph_config_set_memory_availability
    <3> QED
      BY <1>12, <3>1
  <2>6. CASE cmph_config_set_mphf_fd
    <3>1. \E v : mph' = [mph EXCEPT !.mphf_fd = v]
      BY <2>6 DEF cmph_config_set_mphf_fd
    <3> QED
      BY <1>12, <3>1
  <2> QED
    BY <2>1, <2>2, <2>3, <2>4, <2>5, <2>6
<1>14. mph'.keys_per_bin \in Nat \ {0}
  BY <1>10, <1>13, BsFit
<1>15. ConfigFits(mph')
  BY <1>8, <1>13, <1>14 DEF ConfigFits
<1>16. NewInv'
  BY <1>3, <1>9, <1>13, <1>15 DEF NewInv, WorkPcs
<1> QED
  BY <1>3, <1>8, <1>16 DEF PackedInv, OuterInv, FunctionInv, FileInv, PackInv

\* The call of cmph_new: the bins of chd_ph are those of the request.
LEMMA NewKeeps ==
    ASSUME IInv, PackedInv, CmphNew
    PROVE  PackedInv'
<1> DEFINE r == data.request
           n == Bins(mph.c, mph.keys_per_bin, m)
<1>1. /\ pc = "config" /\ data.calls = {} /\ pc' = "new"
      /\ mph' = mph /\ file' = file /\ packed' = packed /\ outer' = outer /\ m' = m
  BY DEF CmphNew, Keeps, m
<1>2. outer = << >> /\ packed = << >> /\ file = << >>
  BY <1>1, CallerParams DEF CallerSays
<1>3. ConfigFits(mph) /\ mph.keys_per_bin \in {1, chd_ph_config_set_keys_per_bin(r.keys_per_bin)}
  BY <1>1 DEF PackedInv, NewInv
<1>4. /\ r \in Requests /\ mph.keys = Keys(r.source) /\ mph.algo = r.algo
      /\ mph.c = IF r.c[1] = 0 THEN <<0, 1>> ELSE r.c
  BY <1>1 DEF IInv, CallerInv
<1> HIDE DEF r
<1>5. r.c \in Fraction /\ r.source.nkeys \in Nat
  BY <1>4, StructsAssumption, NumberIs DEF Fraction
<1>6. m = r.source.nkeys
  BY <1>4, <1>5 DEF m, Keys
<1>7. n = Bins(r.c, mph.keys_per_bin, r.source.nkeys)
  BY <1>4, <1>5, <1>6, SameBins
<1> HIDE DEF n
<1>8. mph.algo \in {"chd_ph", "chd"} /\ n # 1 => NextPrime(n) \in Nat /\ (mph.keys_per_bin = 1 => NextPrime(n) > m)
  BY <1>3, <1>4, <1>6, <1>7, RequestBins
<1>9. BinsFit
  BY <1>8 DEF BinsFit, n
<1>10. NewInv'
  BY <1>1, <1>3, <1>9 DEF NewInv, WorkPcs, BinsFit
<1> QED
  BY <1>1, <1>2, <1>10 DEF PackedInv, OuterInv, FunctionInv, FileInv, PackInv

-----------------------------------------------------------------------------
(* The caller uses the function. *)

\* What is dumped of brz comes after what the file has.
LEMMA BrzDumped ==
    ASSUME NEW f, BrzFile(f), NEW g, g.data.k \in Nat
    PROVE  BrzFile(f \o BrzDump(g))
<1> DEFINE s1 == hash_state_dump(g.data.h0)
           s2 == W(4, g.data.m)
           s3 == Array(4, g.data.k, g.data.offset)
           k == g.data.k
<1>1. Block(s1, 16, 2) /\ Block(s2, 4, 1) /\ Block(s3, 4 * k, k)
  BY Pieces, Zenon
<1>2. BrzDump(g) = s1 \o s2 \o s3
  BY DEF BrzDump
<1> HIDE DEF s1, s2, s3
<1>3. Block(s1 \o s2, 16 + 4, 2 + 1)
  BY <1>1, BlocksJoin, Zenon
<1>4. Block((s1 \o s2) \o s3, 16 + 4 + 4 * k, 2 + 1 + k)
  BY <1>1, <1>3, BlocksJoin, Zenon
<1> QED
  BY <1>2, <1>4, BrzFileGrows

\* cmph_dump: brz writes what its file does not have yet.
LEMMA DumpKeeps ==
    ASSUME PackedInv, CmphDump
    PROVE  PackedInv'
<1>1. /\ outer = << >> /\ pc = "built" /\ pc' = "dumped" /\ file' = file \o cmph_dump(mphf)
      /\ mph' = mph /\ outer' = outer /\ mphf' = mphf /\ packed' = packed
  BY DEF CmphDump, Has
<1>2. ConfigFits(mph) /\ mphf.algo = mph.algo
  BY <1>1 DEF PackedInv, NewInv, FunctionInv
<1>3. IF mph.algo = "brz" THEN mphf.data.k \in Nat ELSE Counts(mphf)
  BY <1>1 DEF PackedInv, FunctionInv
<1>4. NewInv'
  BY <1>1, <1>2 DEF NewInv, WorkPcs
<1>5. FunctionInv'
  <2>1. Counts(mphf)' = Counts(mphf)
    BY <1>1 DEF Counts, SeqCounts, ChdCounts, BrzCounts, Sized
  <2> QED
    BY <1>1, <1>2, <1>3, <2>1 DEF FunctionInv
<1>6. FileInv'
  <2>1. CASE mph.algo = "brz"
    <3>1. BrzFile(file) /\ cmph_dump(mphf) = BrzDump(mphf)
      BY <1>1, <1>2, <2>1 DEF PackedInv, FileInv, cmph_dump
    <3>2. BrzFile(file \o BrzDump(mphf))
      BY <1>3, <2>1, <3>1, BrzDumped
    <3>3. file' = file \o BrzDump(mphf)
      BY <1>1, <3>1
    <3>4. BrzFile(file)'
      BY <3>2, <3>3
    <3> QED
      BY <1>1, <2>1, <3>4 DEF FileInv
  <2>2. CASE mph.algo # "brz"
    <3>1. file = << >>
      BY <1>1, <2>2 DEF PackedInv, FileInv
    <3>2. file' = cmph_dump(mphf)
      BY <1>1, <3>1
    <3> QED
      BY <1>1, <2>2, <3>2 DEF FileInv
  <2> QED
    BY <2>1, <2>2
<1>7. PackInv'
  BY <1>1 DEF PackedInv, PackInv
<1> QED
  BY <1>1, <1>4, <1>5, <1>6, <1>7 DEF PackedInv, OuterInv

\* cmph_load: the counts are those that were dumped.
LEMMA LoadKeeps ==
    ASSUME PackedInv, CmphLoad
    PROVE  PackedInv'
<1>1. /\ outer = << >> /\ pc = "dumped" /\ pc' = "loaded" /\ file' = file
      /\ mph' = mph /\ outer' = outer /\ mphf' = cmph_load(file) /\ packed' = packed
  BY DEF CmphLoad, Has
<1>2. ConfigFits(mph) /\ mphf.algo = mph.algo
  BY <1>1 DEF PackedInv, NewInv, FunctionInv
<1>3. mph.algo # "brz" => Counts(mphf) /\ file = cmph_dump(mphf)
  BY <1>1 DEF PackedInv, FunctionInv, FileInv
<1>4. mph.algo = "brz" => BrzFile(file) /\ packed = << >>
  BY <1>1 DEF PackedInv, FileInv, PackInv
<1>5. Counts(mphf') /\ mphf'.algo = mph.algo
      /\ (mph.algo # "brz" => cmph_packed_size(mphf') = cmph_packed_size(mphf))
  <2> DEFINE g == cmph_load(file)
  <2>1. CASE mph.algo = "brz"
    <3>1. g.algo = "brz" /\ g.size \in Int /\ BrzCounts(g.data)
      BY <1>4, <2>1, BrzReloads
    <3> HIDE DEF g
    <3>2. Counts(g) /\ g.algo = mph.algo
      <4>1. g.algo \in DOMAIN NameBytes
        BY <3>1 DEF NameBytes
      <4> QED
        BY <2>1, <3>1, <4>1 DEF Counts
    <3>3. mphf' = g
      BY <1>1 DEF g
    <3> QED
      BY <2>1, <3>2, <3>3
  <2>2. CASE mph.algo # "brz"
    <3>1. g = cmph_load(cmph_dump(mphf)) /\ Counts(mphf) /\ mphf.algo # "brz"
      BY <1>2, <1>3, <2>2
    <3>2. mphf' = g
      BY <1>1
    <3> HIDE DEF g
    <3>3. Counts(g) /\ g.algo = mphf.algo /\ cmph_packed_size(g) = cmph_packed_size(mphf)
      BY <3>1, Reloads
    <3> QED
      BY <1>2, <3>2, <3>3
  <2> QED
    BY <2>1, <2>2
<1>6. NewInv'
  BY <1>1, <1>2 DEF NewInv, WorkPcs
<1>7. FunctionInv'
  <2>1. Counts(mphf)'
    BY <1>5
  <2> QED
    BY <1>1, <1>5, <2>1 DEF FunctionInv
<1>8. FileInv'
  BY <1>1 DEF FileInv
<1>9. PackInv'
  <2>1. packed # << >> => mph.algo # "brz" /\ Size(packed) = cmph_packed_size(mphf)
    BY <1>4 DEF PackedInv, PackInv
  <2>2. packed # << >> => Size(packed) = cmph_packed_size(mphf')
    BY <1>5, <2>1
  <2> QED
    BY <1>1, <2>1, <2>2 DEF PackInv
<1> QED
  BY <1>1, <1>6, <1>7, <1>8, <1>9 DEF PackedInv, OuterInv

\* cmph_pack.
LEMMA PackKeeps ==
    ASSUME PackedInv, CmphPack
    PROVE  PackedInv'
<1>1. /\ outer = << >> /\ pc \in {"built", "dumped", "loaded"} /\ pc' = pc /\ (mph.algo = "brz" => pc = "loaded")
      /\ file' = file /\ mph' = mph /\ outer' = outer /\ data' = data /\ mphf' = mphf /\ packed' = cmph_pack(mphf)
  BY DEF CmphPack, Usable, Has
<1>2. Counts(mphf) /\ mphf.algo = mph.algo
  BY <1>1 DEF PackedInv, FunctionInv
<1>3. Size(cmph_pack(mphf)) = cmph_packed_size(mphf)
  BY <1>2, Fits
<1>4. Size(packed') = cmph_packed_size(mphf')
  BY <1>1, <1>3
<1>5. NewInv'
  BY <1>1 DEF PackedInv, NewInv, WorkPcs, ConfigFits
<1>6. FunctionInv'
  <2>1. Counts(mphf)'
    BY <1>1, <1>2 DEF Counts, SeqCounts, ChdCounts, BrzCounts, Sized
  <2> QED
    BY <1>1, <1>2, <2>1 DEF FunctionInv
<1>7. FileInv'
  <2>1. BrzFile(file)' = BrzFile(file)
    BY <1>1
  <2>2. cmph_dump(mphf)' = cmph_dump(mphf)
    BY <1>1
  <2> QED
    BY <1>1, <2>1, <2>2 DEF PackedInv, FileInv
<1>8. PackInv'
  BY <1>1, <1>4 DEF PackInv
<1> QED
  BY <1>1, <1>5, <1>6, <1>7, <1>8 DEF PackedInv, OuterInv

\* Lookups, and steps that change nothing.
LEMMA NothingKeeps ==
    ASSUME PackedInv, mph' = mph, outer' = outer, data' = data, mphf' = mphf, pc' = pc, file' = file, packed' = packed
    PROVE  PackedInv'
<1>1. m' = m
  BY DEF m
<1>2. NewInv'
  BY <1>1 DEF PackedInv, NewInv, ConfigFits, BinsFit, WorkCounts, BrzMerges, BrzWork, IsSeq, Sizes, Bins, LoadFactor
<1>3. OuterInv'
  BY DEF PackedInv, OuterInv, ConfigFits, BrzMerges, BrzWork, IsSeq, Sizes
<1>4. Counts(mphf)' = Counts(mphf)
  BY DEF Counts, SeqCounts, ChdCounts, BrzCounts, Sized
<1>5. FunctionInv'
  BY <1>4 DEF PackedInv, FunctionInv
<1>6. FileInv'
  <2>1. BrzFile(file)' = BrzFile(file)
    OBVIOUS
  <2>2. cmph_dump(mphf)' = cmph_dump(mphf)
    OBVIOUS
  <2> QED
    BY <2>1, <2>2 DEF PackedInv, FileInv
<1>7. PackInv'
  <2>1. (Size(packed) = cmph_packed_size(mphf))' = (Size(packed) = cmph_packed_size(mphf))
    OBVIOUS
  <2> QED
    BY <2>1 DEF PackedInv, PackInv
<1> QED
  BY <1>2, <1>3, <1>5, <1>6, <1>7 DEF PackedInv

\* A new config.
LEMMA PackedInit ==
    ASSUME CmphInit
    PROVE  PackedInv
<1>1. PICK r \in Requests :
         /\ mph = [algo |-> "chm", c |-> <<0, 1>>, b |-> 0, keys_per_bin |-> 1, memory |-> BrzMB,
                   mphf_fd |-> FALSE, keys |-> Keys(r.source)]
  BY DEF CmphInit
<1>2. outer = << >> /\ file = << >> /\ packed = << >> /\ pc = "config"
  BY DEF CmphInit
<1>3. IInv
  BY CmphInitIs
<1>4. CallerSays
  BY <1>2, <1>3, CallerParams
<1>5. {"algo", "c", "b", "keys_per_bin", "keys"} \subseteq DOMAIN mph
      /\ mph.algo = "chm" /\ mph.b = 0 /\ mph.keys_per_bin = 1
  BY <1>1
<1>6. ConfigFits(mph)
  BY <1>4, <1>5 DEF ConfigFits, CallerSays
<1>7. NewInv
  BY <1>2, <1>5, <1>6 DEF NewInv, WorkPcs
<1> QED
  BY <1>2, <1>5, <1>7 DEF PackedInv, OuterInv, FunctionInv, FileInv, PackInv

\* Every step of a caller and of the library.
LEMMA PackedKeeps ==
    ASSUME IInv, PackedInv, [Next]_vars
    PROVE  PackedInv'
<1>1. CASE UNCHANGED vars
  <2>1. mph' = mph /\ outer' = outer /\ data' = data /\ mphf' = mphf /\ pc' = pc /\ file' = file /\ packed' = packed
    BY <1>1 DEF vars, cmphVars
  <2> QED
    BY <2>1, NothingKeeps
<1>2. CASE CmphSearch \/ CmphSearchPacked \/ Done
  <2>1. mph' = mph /\ outer' = outer /\ data' = data /\ mphf' = mphf /\ pc' = pc /\ file' = file /\ packed' = packed
    BY <1>2 DEF CmphSearch, CmphSearchPacked, Tells, Done, vars, cmphVars
  <2> QED
    BY <2>1, NothingKeeps
<1>3. CASE Algorithm
  <2>1. Works \/ BrzNew \/ BrzPartition \/ BrzMerge \/ BrzBucket \/ BrzFinish
    BY <1>3, ChmWorks, BmzWorks, Bmz8Works, FchWorks, BdzWorks, BdzPhWorks, ChdWorks DEF Algorithm
  <2> QED
    BY <2>1, WorkKeeps, BrzKeeps
<1>4. CASE Next
  BY <1>2, <1>3, <1>4, ConfigKeeps, NewKeeps, DumpKeeps, LoadKeeps, PackKeeps DEF Next
<1> QED
  BY <1>1, <1>4

\* cmph_pack fills the block that cmph_packed_size has told the caller to allocate, and
\* no more, in every algorithm.
THEOREM PacksFit == Spec => []PackedFits
<1>1. ASSUME PackedInv PROVE PackedFits
  <2> SUFFICES ASSUME packed # << >> PROVE Size(packed) <= cmph_packed_size(mphf)
    BY DEF PackedFits
  <2>1. /\ pc \in {"built", "dumped", "loaded"} /\ (mph.algo = "brz" => pc = "loaded")
        /\ Size(packed) = cmph_packed_size(mphf)
    BY <1>1 DEF PackedInv, PackInv
  <2>2. Counts(mphf)
    BY <1>1, <2>1 DEF PackedInv, FunctionInv
  <2>3. cmph_packed_size(mphf) \in Nat
    BY <2>2, Fits
  <2> QED
    BY <2>1, <2>3
<1>2. PackedInv => PackedFits
  BY <1>1
<1> QED
  BY <1>2, CmphInitIs, CmphNextKeeps, PackedInit, PackedKeeps, PTL DEF Spec
==============================================================================
