--------------------------- MODULE CostCenterCache ---------------------------
(***************************************************************************)
(* The memcache copy of a cost center, chunk by chunk (CostCenterCacheUtil)*)
(*                                                                         *)
(* A put writes the chunks of a map under numbered keys, one call to       *)
(* memcache each, and then the number of the last chunk into one index     *)
(* that all cost centers share, which it reads, changes and writes back. A *)
(* get reads the index and then the chunks, one call each. Calls of        *)
(* several requests interleave and nothing is locked. A call that memcache *)
(* does not serve is logged and the request goes on (lines 26-27): a get   *)
(* finds nothing and a put stores nothing.                                 *)
(*                                                                         *)
(* A map is the set of its chunks; a chunk is the put it comes from and    *)
(* its number. How a map is cut is the subject of ChunkDivision.           *)
(***************************************************************************)
EXTENDS Integers, FiniteSets

CONSTANTS
    Centers,     \* cost centers
    Procs,       \* requests that use the cache
    MaxChunks,   \* bound of the model: chunks of a map
    MaxPuts,     \* bound of the model: puts, all together
    Faults,      \* what memcache may do: evict an entry, not serve a get, not serve a put
    Nil          \* an absent entry, the null map

Numbers == 0 .. MaxChunks - 1
Last == -1 .. MaxChunks - 1
CachedChunk == [put : 1 .. MaxPuts, number : Numbers]
Index == [Centers -> {Nil} \cup Last]

ASSUME CacheAssumption ==
    /\ MaxChunks \in Nat /\ MaxPuts \in Nat
    /\ Faults \subseteq {"evict", "get", "put"}
    /\ Nil \notin Int /\ Nil \notin CachedChunk \cup Index

VARIABLES
    chunk,     \* chunk[c][n]: the entry with key c + n
    index,     \* the entry "costCentersExtensionDetails"
    proc,      \* proc[p]: the call that p is in
    puts,      \* number of puts started
    current,   \* history: current[c], the map of the last put of c that started
    clean,     \* history: clean[c], that put ended, no call of it was lost and no put of c overlapped it
    evicted    \* history: evicted[c], an entry that c needs was evicted or not served since then

cacheVars == <<chunk, index, proc, puts, current, clean, evicted>>

Proc == [pc : {"idle", "putChunk", "getIndex", "putIndex", "getChunk", "got"},
         center : {Nil} \cup Centers, size : 0 .. MaxChunks, next : 0 .. MaxChunks,
         put : 0 .. MaxPuts, alone : BOOLEAN, index : {Nil} \cup Index, result : {Nil} \cup SUBSET CachedChunk]

CacheTypeOK ==
    /\ chunk \in [Centers -> [Numbers -> {Nil} \cup CachedChunk]]
    /\ index \in {Nil} \cup Index
    /\ proc \in [Procs -> Proc]
    /\ puts \in 0 .. MaxPuts
    /\ current \in [Centers -> SUBSET CachedChunk]
    /\ {clean, evicted} \subseteq [Centers -> BOOLEAN]

Idle == [pc |-> "idle", center |-> Nil, size |-> 0, next |-> 0, put |-> 0, alone |-> TRUE, index |-> Nil,
         result |-> Nil]

CacheInit ==
    /\ chunk = [c \in Centers |-> [n \in Numbers |-> Nil]]
    /\ index = Nil
    /\ proc = [p \in Procs |-> Idle]
    /\ puts = 0
    /\ current = [c \in Centers |-> {}]
    /\ clean = [c \in Centers |-> TRUE]
    /\ evicted = [c \in Centers |-> FALSE]

\* The requests that are in a put of c.
Putting(c) == {p \in Procs : proc[p].center = c /\ proc[p].pc \in {"putChunk", "putIndex"}}

\* Whether a call is served.
Served(call) == IF call \in Faults THEN BOOLEAN ELSE {TRUE}

-----------------------------------------------------------------------------
(* putCostCenterDataToCache()                                               *)

StartPut(p) ==
    /\ proc[p].pc = "idle"
    /\ puts < MaxPuts
    /\ puts' = puts + 1
    /\ \E c \in Centers, size \in 0 .. MaxChunks :
       /\ proc' = [q \in Procs |->
            IF q = p THEN [Idle EXCEPT !.pc = "putChunk", !.center = c, !.size = size,
                                       !.put = puts + 1, !.alone = Putting(c) = {}]
            ELSE [proc[q] EXCEPT !.alone = @ /\ proc[q].center # c]]
       /\ current' = [current EXCEPT ![c] = {[put |-> puts + 1, number |-> n] : n \in 0 .. size - 1}]
       /\ clean' = [clean EXCEPT ![c] = FALSE]
       /\ evicted' = [evicted EXCEPT ![c] = FALSE]
    /\ UNCHANGED <<chunk, index>>

PutChunk(p) ==
    LET q == proc[p]
    IN  /\ q.pc = "putChunk"
        /\ q.next < q.size
        /\ \E served \in Served("put") :
           /\ chunk' = IF served THEN [chunk EXCEPT ![q.center][q.next] = [put |-> q.put, number |-> q.next]]
                       ELSE chunk
           /\ proc' = [proc EXCEPT ![p] = [q EXCEPT !.next = q.next + 1, !.alone = q.alone /\ served]]
        /\ UNCHANGED <<index, puts, current, clean, evicted>>

\* The index is read, a new one is made when there is none ...
ReadIndex(p) ==
    /\ proc[p].pc = "putChunk"
    /\ proc[p].next = proc[p].size
    /\ \E served \in Served("get") :
       /\ proc' = [proc EXCEPT ![p].pc = "putIndex",
            ![p].index = IF served /\ index # Nil THEN index ELSE [c \in Centers |-> Nil]]
       /\ evicted' = IF served THEN evicted ELSE [c \in Centers |-> TRUE]
    /\ UNCHANGED <<chunk, index, puts, current, clean>>

\* ... and the number of the last chunk is written with all that was read.
WriteIndex(p) ==
    /\ proc[p].pc = "putIndex"
    /\ \E served \in Served("put") :
       /\ index' = IF served THEN [proc[p].index EXCEPT ![proc[p].center] = proc[p].size - 1] ELSE index
       /\ clean' = [clean EXCEPT ![proc[p].center] = proc[p].alone /\ served]
    /\ proc' = [proc EXCEPT ![p] = Idle]
    /\ UNCHANGED <<chunk, puts, current, evicted>>

-----------------------------------------------------------------------------
(* getCostCenterDataFromCache()                                             *)

StartGet(p) ==
    /\ proc[p].pc = "idle"
    /\ \E c \in Centers :
       proc' = [proc EXCEPT ![p] = [Idle EXCEPT !.pc = "getIndex", !.center = c,
                                                !.alone = Putting(c) = {}]]
    /\ UNCHANGED <<chunk, index, puts, current, clean, evicted>>

\* Mutant of GetIndex: a map of one chunk, with the number 0, is taken for none.
GetIndexZeroIsNone(p) ==
    LET q == proc[p]
        none == index = Nil \/ index[q.center] \in {Nil, 0}
    IN  /\ q.pc = "getIndex"
        /\ proc' = [proc EXCEPT ![p] =
             [q EXCEPT !.pc = IF none THEN "got" ELSE "getChunk",
                       !.size = IF none THEN 0 ELSE index[q.center] + 1,
                       !.result = {}]]
        /\ UNCHANGED <<chunk, index, puts, current, clean, evicted>>

GetIndex(p) ==
    LET q == proc[p]
        none == index = Nil \/ index[q.center] = Nil
    IN  /\ q.pc = "getIndex"
        /\ \E served \in Served("get") :
           /\ proc' = [proc EXCEPT ![p] =
                IF none \/ ~served THEN [q EXCEPT !.pc = "got", !.result = {}]
                ELSE [q EXCEPT !.pc = "getChunk", !.size = index[q.center] + 1, !.result = {}]]
           /\ evicted' = [evicted EXCEPT ![q.center] = @ \/ ~served]
        /\ UNCHANGED <<chunk, index, puts, current, clean>>

\* Mutant of GetChunk: a missing chunk is skipped.
GetChunkSkips(p) ==
    LET q == proc[p]
    IN  /\ q.pc = "getChunk"
        /\ q.next < q.size
        /\ proc' = [proc EXCEPT ![p] =
             [q EXCEPT !.next = q.next + 1, !.result = q.result \cup ({chunk[q.center][q.next]} \ {Nil})]]
        /\ UNCHANGED <<chunk, index, puts, current, clean, evicted>>

\* A missing chunk makes the whole map null.
GetChunk(p) ==
    LET q == proc[p]
        found == chunk[q.center][q.next]
    IN  /\ q.pc = "getChunk"
        /\ q.next < q.size
        /\ \E served \in Served("get") :
           /\ proc' = [proc EXCEPT ![p] =
                IF found = Nil \/ ~served THEN [q EXCEPT !.pc = "got", !.result = Nil]
                ELSE [q EXCEPT !.next = q.next + 1, !.result = q.result \cup {found}]]
           /\ evicted' = [evicted EXCEPT ![q.center] = @ \/ ~served]
        /\ UNCHANGED <<chunk, index, puts, current, clean>>

GetEnd(p) ==
    /\ proc[p].pc = "getChunk"
    /\ proc[p].next = proc[p].size
    /\ proc' = [proc EXCEPT ![p].pc = "got"]
    /\ UNCHANGED <<chunk, index, puts, current, clean, evicted>>

Return(p) ==
    /\ proc[p].pc = "got"
    /\ proc' = [proc EXCEPT ![p] = Idle]
    /\ UNCHANGED <<chunk, index, puts, current, clean, evicted>>

-----------------------------------------------------------------------------

EvictChunk(c, n) ==
    /\ "evict" \in Faults
    /\ chunk[c][n] # Nil
    /\ chunk' = [chunk EXCEPT ![c][n] = Nil]
    /\ evicted' = [evicted EXCEPT ![c] = TRUE]
    /\ UNCHANGED <<index, proc, puts, current, clean>>

EvictIndex ==
    /\ "evict" \in Faults
    /\ index # Nil
    /\ index' = Nil
    /\ evicted' = [c \in Centers |-> TRUE]
    /\ UNCHANGED <<chunk, proc, puts, current, clean>>

\* A request dies between two calls.
Die(p) ==
    /\ proc[p].pc # "idle"
    /\ proc' = [proc EXCEPT ![p] = Idle]
    /\ UNCHANGED <<chunk, index, puts, current, clean, evicted>>

Use(p) ==
    \/ StartPut(p) \/ PutChunk(p) \/ ReadIndex(p) \/ WriteIndex(p)
    \/ StartGet(p) \/ GetIndex(p) \/ GetChunk(p) \/ GetEnd(p) \/ Return(p)

CacheNext ==
    \/ \E p \in Procs : Use(p) \/ Die(p)
    \/ \E c \in Centers, n \in Numbers : EvictChunk(c, n)
    \/ EvictIndex

CacheSpec == CacheInit /\ [][CacheNext]_cacheVars

-----------------------------------------------------------------------------

\* A get that no put overlaps, after a put that no other put overlapped and that was served.
Quiet(p) == proc[p].pc = "got" /\ proc[p].alone /\ clean[proc[p].center]

\* Such a get returns the map that was put last, whole, or nothing (no map, or the null map),
\* which makes the caller query the datastore; never a part of a map or an older one. This is
\* what AutoSaveData.java:102 says of it: "Retrieved all gtfReports for that cost center".
\* Whatever puts that died, overlapped or were served in part left behind, the next put mends
\* it. (Until then a chunk of an older map may stand in the place of one that was not served.)
RetrievedAll == \A p \in Procs :
    Quiet(p) => proc[p].result \in {current[proc[p].center], {}, Nil}

\* It finds nothing only after memcache has evicted or not served something: entries that are left over from
\* larger and smaller maps are never in the way.
HitUnlessEvicted == \A p \in Procs :
    Quiet(p) /\ ~evicted[proc[p].center] => proc[p].result = current[proc[p].center]

=============================================================================
