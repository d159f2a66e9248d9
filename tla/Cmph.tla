--------------------------------- MODULE Cmph --------------------------------
(***************************************************************************)
(* cmph-2.0/src/cmph.c: a caller makes a config, sets the algorithm and    *)
(* its parameters in any order, and calls cmph_new; the function can be    *)
(* dumped, loaded and packed.                                              *)
(***************************************************************************)
EXTENDS Chm, Bmz8, Brz, Bdz, ChdPh

CONSTANTS
    BmzTries, BmzRestarts     \* iterations and iterations_map of bmz_new, 100 and 20

Z == INSTANCE Bmz WITH
    Algo <- "bmz", Width <- Word, MapTries <- BmzTries, Restarts <- BmzRestarts,
    RoomPlus <- 1, RoomHalf <- TRUE

vars == cmphVars

-----------------------------------------------------------------------------
\* The data of a new config of an algorithm.
DefaultB(algo) ==
    CASE algo = "brz" -> BrzB
      [] algo = "bdz" -> 7
      [] algo \in {"chd_ph", "chd"} -> 4
      [] OTHER -> 0

\* cmph_config_new.  The caller sets what its request says: an entry of 0 is not set.
CmphInit ==
    /\ \E r \in Requests :
          /\ mph = [algo |-> "chm", c |-> <<0, 1>>, b |-> 0, keys_per_bin |-> 1, memory |-> BrzMB,
                    mphf_fd |-> FALSE, keys |-> Keys(r.source)]
          /\ data = [request |-> r,
                     calls |-> {"algo"} \cup (IF r.c[1] = 0 THEN {} ELSE {"graphsize"})
                                        \cup (IF r.b = 0 THEN {} ELSE {"b"})
                                        \cup (IF r.keys_per_bin = 0 THEN {} ELSE {"keys_per_bin"})
                                        \cup (IF r.memory = 0 THEN {} ELSE {"memory"})
                                        \cup (IF r.mphf_fd THEN {"mphf_fd"} ELSE {})]
    /\ outer = << >> /\ mphf = Null /\ file = << >> /\ packed = << >> /\ pc = "config"
    /\ answers = [copy \in {"built", "loaded", "packed"} |-> Null]

Calls(call) ==
    /\ pc = "config" /\ call \in data.calls
    /\ data' = [data EXCEPT !.calls = @ \ {call}]
    /\ UNCHANGED <<mphf, pc, file, packed, outer, answers>>

\* Another algorithm starts from its defaults.
cmph_config_set_algo ==
    /\ Calls("algo")
    /\ mph' = IF data.request.algo = mph.algo THEN mph
              ELSE [mph EXCEPT !.algo = data.request.algo, !.b = DefaultB(data.request.algo),
                               !.keys_per_bin = 1, !.memory = BrzMB, !.mphf_fd = FALSE]

cmph_config_set_graphsize == Calls("graphsize") /\ mph' = [mph EXCEPT !.c = data.request.c]

\* Ignored by an algorithm that has no such parameter.
cmph_config_set_b ==
    /\ Calls("b")
    /\ mph' = [mph EXCEPT !.b =
                 CASE mph.algo = "brz" -> brz_config_set_b(data.request.b)
                   [] mph.algo = "bdz" -> bdz_config_set_b(data.request.b)
                   [] mph.algo \in {"chd_ph", "chd"} -> chd_ph_config_set_b(data.request.b)
                   [] OTHER -> @]

cmph_config_set_keys_per_bin ==
    /\ Calls("keys_per_bin")
    /\ mph' = [mph EXCEPT !.keys_per_bin =
                 IF mph.algo \in {"chd_ph", "chd"}
                 THEN chd_ph_config_set_keys_per_bin(data.request.keys_per_bin) ELSE @]

cmph_config_set_memory_availability ==
    /\ Calls("memory")
    /\ mph' = [mph EXCEPT !.memory = IF mph.algo = "brz"
                 THEN brz_config_set_memory_availability(data.request.memory, @) ELSE @]

cmph_config_set_mphf_fd ==
    /\ Calls("mphf_fd")
    /\ mph' = [mph EXCEPT !.mphf_fd = @ \/ mph.algo = "brz"]

CmphNew ==
    /\ pc = "config" /\ data.calls = {}
    /\ pc' = "new" /\ data' = Null
    /\ UNCHANGED mphf /\ Keeps

Algorithm ==
    \/ ChmNew \/ ChmMap \/ ChmAssign
    \/ Z!BmzNew \/ Z!BmzMap \/ Z!BmzOrder \/ Z!BmzSearchStep
    \/ Bmz8New \/ Bmz8Map \/ Bmz8Order \/ Bmz8SearchStep
    \/ BrzNew \/ BrzPartition \/ BrzMerge \/ BrzBucket \/ BrzFinish
    \/ FchNew \/ FchMap \/ FchRound
    \/ BdzNew \/ BdzMap \/ BdzAssign
    \/ BdzPhNew \/ BdzPhMap \/ BdzPhAssign
    \/ ChdPhNew \/ ChdPhMap \/ ChdPhSearchStep
    \/ ChdNew \/ ChdMap \/ ChdSearchStep

-----------------------------------------------------------------------------
cmph_dump(f) ==
    CASE f.algo = "chm" -> ChmDump(f)
      [] f.algo = "bmz" -> Z!BmzDump(f)
      [] f.algo = "bmz8" -> Bmz8Dump(f)
      [] f.algo = "brz" -> BrzDump(f)
      [] f.algo = "fch" -> FchDump(f)
      [] f.algo = "bdz" -> BdzDump(f)
      [] f.algo = "bdz_ph" -> BdzPhDump(f)
      [] f.algo = "chd_ph" -> ChdPhDump(f)
      [] f.algo = "chd" -> ChdDump(f)

cmph_load(f) ==
    LET head == cmph_load_head(f)
    IN  IF head = Null THEN Null
        ELSE [algo |-> head.algo, size |-> head.size,
              data |-> CASE head.algo = "chm" -> ChmLoad(f)
                         [] head.algo = "bmz" -> Z!BmzLoad(f)
                         [] head.algo = "bmz8" -> Bmz8Load(f)
                         [] head.algo = "brz" -> BrzLoad(f)
                         [] head.algo = "fch" -> FchLoad(f)
                         [] head.algo = "bdz" -> BdzLoad(f)
                         [] head.algo = "bdz_ph" -> BdzPhLoad(f)
                         [] head.algo = "chd_ph" -> ChdPhLoad(f)
                         [] head.algo = "chd" -> ChdLoad(f)]

cmph_search(f, k) ==
    CASE f.algo = "chm" -> ChmSearch(f.data, k)
      [] f.algo = "bmz" -> Z!BmzSearch(f.data, k)
      [] f.algo = "bmz8" -> Bmz8Search(f.data, k)
      [] f.algo = "brz" -> BrzSearch(f.data, k)
      [] f.algo = "fch" -> FchSearch(f.data, k)
      [] f.algo = "bdz" -> BdzSearch(f.data, k)
      [] f.algo = "bdz_ph" -> BdzPhSearch(f.data, k)
      [] f.algo = "chd_ph" -> ChdPhSearch(f.data, k)
      [] f.algo = "chd" -> ChdSearch(f.data, k)

\* First the algorithm.
cmph_pack(f) ==
    W(4, f.algo) \o
    CASE f.algo = "chm" -> ChmPack(f.data)
      [] f.algo = "bmz" -> Z!BmzPack(f.data)
      [] f.algo = "bmz8" -> Bmz8Pack(f.data)
      [] f.algo = "brz" -> BrzPack(f.data)
      [] f.algo = "fch" -> FchPack(f.data)
      [] f.algo = "bdz" -> BdzPack(f.data)
      [] f.algo = "bdz_ph" -> BdzPhPack(f.data)
      [] f.algo = "chd_ph" -> ChdPhPack(f.data)
      [] f.algo = "chd" -> ChdPack(f.data)

cmph_packed_size(f) ==
    CASE f.algo = "chm" -> ChmPackedSize(f.data)
      [] f.algo = "bmz" -> Z!BmzPackedSize(f.data)
      [] f.algo = "bmz8" -> Bmz8PackedSize(f.data)
      [] f.algo = "brz" -> BrzPackedSize(f.data)
      [] f.algo = "fch" -> FchPackedSize(f.data)
      [] f.algo = "bdz" -> BdzPackedSize(f.data)
      [] f.algo = "bdz_ph" -> BdzPhPackedSize(f.data)
      [] f.algo = "chd_ph" -> ChdPhPackedSize(f.data)
      [] f.algo = "chd" -> ChdPackedSize(f.data)

cmph_search_packed(mem, k) ==
    With(At(mem, 0, 4), LAMBDA algo : With(From(mem, 4), LAMBDA rest :
        CASE algo = "chm" -> ChmSearchPacked(rest, k)
          [] algo = "bmz" -> Z!BmzSearchPacked(rest, k)
          [] algo = "bmz8" -> Bmz8SearchPacked(rest, k)
          [] algo = "brz" -> BrzSearchPacked(mem, k)
          [] algo = "fch" -> FchSearchPacked(rest, k)
          [] algo = "bdz" -> BdzSearchPacked(rest, k)
          [] algo = "bdz_ph" -> BdzPhSearchPacked(rest, k)
          [] algo = "chd_ph" -> ChdPhSearchPacked(rest, k)
          [] algo = "chd" -> ChdSearchPacked(rest, k)))

\* The caller has a function.  (What brz_new has written to the file is a part of it.)
Has == outer = << >> /\ pc \in {"built", "dumped", "loaded"}

\* The caller dumps the function, drops it and loads the file.
CmphDump ==
    /\ Has /\ pc = "built"
    /\ file' = file \o cmph_dump(mphf) /\ pc' = "dumped"
    /\ UNCHANGED <<mph, data, mphf, packed, outer, answers>>

CmphLoad ==
    /\ Has /\ pc = "dumped"
    /\ mphf' = cmph_load(file) /\ pc' = "loaded"
    /\ UNCHANGED <<mph, data, file, packed, outer, answers>>

\* A function of brz is in the file only until it is loaded.
Usable == Has /\ (mph.algo = "brz" => pc = "loaded")

CmphPack ==
    /\ Usable /\ packed = << >>
    /\ packed' = cmph_pack(mphf)
    /\ UNCHANGED <<mph, data, mphf, pc, file, outer, answers>>

\* A lookup of every key, by the function as it is or by its packed copy.
Tells(copy, table) ==
    /\ answers[copy] = Null
    /\ answers' = [answers EXCEPT ![copy] = table]
    /\ UNCHANGED <<mph, data, mphf, pc, file, packed, outer>>

CmphSearch ==
    /\ Usable
    /\ Tells(IF pc = "loaded" THEN pc ELSE "built", [i \in 1 .. m |-> cmph_search(mphf, mph.keys[i])])

CmphSearchPacked ==
    /\ packed # << >>
    /\ Tells("packed", [i \in 1 .. m |-> cmph_search_packed(packed, mph.keys[i])])

\* While cmph_new works no step but one of Algorithm is possible.
Working == \/ pc \in {"new", "map", "order", "assign", "search", "partition", "merge"}
           \/ outer # << >> /\ pc \in {"built", "failed"}

\* The caller is done, or the process is.
Done == pc # "config" /\ ~ Working /\ UNCHANGED vars

Next ==
    \/ cmph_config_set_algo \/ cmph_config_set_graphsize
    \/ cmph_config_set_b \/ cmph_config_set_keys_per_bin
    \/ cmph_config_set_memory_availability \/ cmph_config_set_mphf_fd \/ CmphNew
    \/ Algorithm
    \/ CmphDump \/ CmphLoad \/ CmphPack \/ CmphSearch \/ CmphSearchPacked \/ Done

-----------------------------------------------------------------------------
\* cmph_new runs until it returns: the weak fairness of Algorithm, with Working for
\* ENABLED Algorithm.  What the caller does with the function is up to it.
Fairness == []<>(~ Working) \/ []<><<Working>>_vars

Spec == CmphInit /\ [][Next]_vars /\ Fairness

-----------------------------------------------------------------------------
(* cmph_pack writes no more than cmph_packed_size has told the caller to    *)
(* allocate (cmph.h: "cmph_packed_size"), for every algorithm.              *)
PackedFits == packed # << >> => Size(packed) <= cmph_packed_size(mphf)

(* chm is order preserving: a key's number is its place in the key source,  *)
(* in every copy of the function.                                           *)
OrderPreserved ==
    mph.algo = "chm" =>
        \A c \in DOMAIN answers : answers[c] # Null => \A i \in 1 .. m : answers[c][i] = i - 1

(* No assertion of the library fails, whatever the keys; but for the queue  *)
(* of bmz, which is too short when c is below 2 (vqueue.c:29), and for the  *)
(* keys of a bucket of brz after a try that failed: the sizes go on from    *)
(* where they were (brz.c:417).                                             *)
NoAbort == pc = "abort" => \/ mph.algo = "bmz" /\ Z!BmzHeuristic
                           \/ mph.algo = "brz" /\ data.iterations < BrzTries
=============================================================================
