---------------------------- MODULE MCChunkedCache ----------------------------
(* The cutting of a map, and the cache of one cost center that puts and gets the   *)
(* chunks: every map is cut first, and once the empty one has been the cache is    *)
(* used, so that the states of the two add up instead of multiplying.  Chunks of   *)
(* 3 * 4 bytes, rows smaller than, as large as and larger than a chunk.            *)
EXTENDS CostCenterCache, ChunkDivision, TLC

Sizes == {0, 1, 2, 3, 5, 6, 7, 11, 12, 13, 30}
SymmetricProcs == Permutations(Procs)

Cutting == Next /\ UNCHANGED cacheVars
Caching == done /\ size = 0 /\ rowBytes = 0 /\ CacheNext /\ UNCHANGED vars

MCInit == Init /\ CacheInit
MCNext == Cutting \/ Caching
MCSpec == MCInit /\ [][MCNext]_<<vars, cacheVars>>
=============================================================================
