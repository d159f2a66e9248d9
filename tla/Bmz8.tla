--------------------------------- MODULE Bmz8 --------------------------------
(***************************************************************************)
(* cmph-2.0/src/bmz8.c: bmz.c for less than 2^8 keys, with numbers of one  *)
(* byte.  n is the size of the graph as it fits into a byte, so that it    *)
(* may wrap where m does not.                                              *)
(***************************************************************************)
EXTENDS CmphStructs

CONSTANTS
    Bmz8Tries,      \* iterations, 100
    Bmz8Restarts    \* iterations_map, 20

B8 == INSTANCE Bmz WITH
    Algo <- "bmz8", Width <- Byte, MapTries <- Bmz8Tries, Restarts <- Bmz8Restarts,
    RoomPlus <- 0, RoomHalf <- FALSE

bmz8_gen_edges(s1, s2, n) == B8!bmz_gen_edges(s1, s2, n)
bmz8_traverse_critical_nodes(graph, t, crit, v) == B8!bmz_traverse_critical_nodes(graph, t, crit, v)
next_unused_edge8(used, i) == B8!next_unused_edge(used, i)
bmz8_traverse_non_critical_nodes(graph, t) == B8!bmz_traverse_non_critical_nodes(graph, t)

-----------------------------------------------------------------------------

Bmz8New ==
    /\ Starts("bmz8")
    /\ IF m >= 2 ^ Byte
       THEN GiveUp
       ELSE /\ data' = [n |-> Unsigned(CeilTimes(B8!BmzRatio, m), Byte),
                        iterations |-> Bmz8Tries, restarts |-> Bmz8Restarts,
                        restart_mapping |-> FALSE]
            /\ pc' = "map" /\ UNCHANGED mphf
    /\ Keeps

\* With 222 keys, whose 256 vertices wrap to 0, the seed is rand() % 0.
Bmz8Map ==
    /\ pc = "map" /\ mph.algo = "bmz8"
    /\ IF data.n = 0 THEN Undefined
       ELSE \E s1, s2 \in hash_state_new(data.n) :
          LET g == bmz8_gen_edges(s1, s2, data.n)
          IN  IF g # Null
              THEN /\ pc' = "order" /\ UNCHANGED mphf
                   /\ data' = [n |-> data.n, restarts |-> data.restarts,
                               restart_mapping |-> data.restart_mapping,
                               hashes |-> <<s1, s2>>, graph |-> g]
              ELSE IF data.iterations > 1
              THEN data' = [data EXCEPT !.iterations = @ - 1] /\ UNCHANGED <<pc, mphf>>
              ELSE GiveUp
    /\ Keeps

Bmz8Order == B8!BmzOrder

Bmz8SearchStep ==
    /\ pc = "search" /\ mph.algo = "bmz8"
    /\ LET r == bmz8_traverse_non_critical_nodes(data.graph, data)
       IN  IF r.edge > m THEN Abort
           ELSE Finish([g |-> r.g, hashes |-> data.hashes, n |-> data.n, m |-> m], m)
    /\ Keeps

-----------------------------------------------------------------------------
Bmz8Search(d, k) == B8!BmzSearch(d, k)
Bmz8Dump(f) == B8!BmzDumpWith(f, 1)
Bmz8Load(f) == B8!BmzLoadWith(f, 1)
Bmz8Pack(d) == B8!BmzPackWith(d, 1)
Bmz8PackedSize(d) == 4 + 2 * hash_state_packed_size + 2 * 4 + 1 + d.n
Bmz8SearchPacked(mem, k) == B8!BmzSearchPackedWith(mem, k, 1)
=============================================================================
