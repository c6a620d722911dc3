------------------------- MODULE ChunkedCacheProofs -------------------------
(***************************************************************************)
(* Theorems about a map in the cache: that it is cut into chunks that fit, *)
(* for maps and rows of any size and any limit, and that a get finds all   *)
(* of them, for any number of requests and puts.                           *)
(***************************************************************************)
EXTENDS CostCenterCache, ChunkDivision, SequenceTheorems, TLAPS

-----------------------------------------------------------------------------
(* Types, and what a request has when it is in a call.                      *)

InCall(q) ==
    /\ q.pc # "idle" => q.center \in Centers
    /\ q.pc \in {"putChunk", "putIndex"} => q.put \in 1 .. puts /\ q.next <= q.size
    /\ q.pc = "putIndex" => q.index \in Index /\ q.next = q.size
    /\ q.pc = "getIndex" => q.next = 0
    /\ q.pc = "getChunk" => q.next <= q.size /\ q.result \in SUBSET CachedChunk

TypeInv == CacheTypeOK /\ \A p \in Procs : InCall(proc[p])

-----------------------------------------------------------------------------
(* What is in the cache after a put that nothing disturbed, and what has    *)
(* been done by a put and a get that nothing disturbs.                      *)

\* The first n chunks of the k-th put.
Map(k, n) == {[put |-> k, number |-> m] : m \in 0 .. n - 1}

\* A chunk is there, or it has been evicted.
There(c, k, m) == IF chunk[c][m] = Nil THEN evicted[c] ELSE chunk[c][m] = [put |-> k, number |-> m]

\* The map that was put last is there, all of its chunks.
Stored(c, k, n) == current[c] = Map(k, n) /\ \A m \in 0 .. n - 1 : There(c, k, m)

Cleaned(c) == clean[c] =>
    /\ Putting(c) = {}
    /\ \E k \in Int, n \in 0 .. MaxChunks :
         /\ Stored(c, k, n)
         /\ IF index = Nil \/ index[c] = Nil THEN evicted[c] \/ n = 0 ELSE index[c] = n - 1

PutAlone(p) == proc[p].pc \in {"putChunk", "putIndex"} /\ proc[p].alone =>
    /\ Putting(proc[p].center) = {p}
    /\ current[proc[p].center] = Map(proc[p].put, proc[p].size)
    /\ \A m \in 0 .. proc[p].next - 1 : There(proc[p].center, proc[p].put, m)

GetAlone(p) == proc[p].pc \in {"getIndex", "getChunk", "got"} /\ proc[p].alone =>
    /\ Putting(proc[p].center) = {}
    /\ proc[p].pc = "getChunk" /\ clean[proc[p].center] =>
         \E k \in Int : /\ Stored(proc[p].center, k, proc[p].size)
                        /\ proc[p].result = Map(k, proc[p].next)
    /\ proc[p].pc = "got" /\ clean[proc[p].center] =>
         \/ proc[p].result = current[proc[p].center]
         \/ proc[p].result \in {{}, Nil} /\ evicted[proc[p].center]

CacheInv ==
    /\ TypeInv
    /\ \A c \in Centers : Cleaned(c)
    /\ \A p \in Procs : PutAlone(p) /\ GetAlone(p)

-----------------------------------------------------------------------------
(* Types.                                                                   *)

Turns(p, q) == proc' = [proc EXCEPT ![p] = q]

LEMMA ServedType == ASSUME NEW call, NEW served \in Served(call) PROVE served \in BOOLEAN
  BY DEF Served

LEMMA IdleType == Idle \in Proc /\ Idle.pc = "idle" /\ Idle.next = 0
  BY CacheAssumption DEF Idle, Proc

\* A step of one request that starts no put.
LEMMA Typed ==
  ASSUME TypeInv, NEW p \in Procs, NEW q \in Proc, Turns(p, q), InCall(q)',
         chunk' \in [Centers -> [Numbers -> {Nil} \cup CachedChunk]], index' \in {Nil} \cup Index,
         puts' = puts, current' = current,
         clean' \in [Centers -> BOOLEAN], evicted' \in [Centers -> BOOLEAN]
  PROVE  TypeInv'
<1>1. proc \in [Procs -> Proc] /\ puts \in 0 .. MaxPuts /\ current \in [Centers -> SUBSET CachedChunk]
  BY DEF TypeInv, CacheTypeOK
<1>2. proc' \in [Procs -> Proc] /\ \A s \in Procs : proc'[s] = IF s = p THEN q ELSE proc[s]
  BY <1>1 DEF Turns
<1>3. CacheTypeOK'
  BY <1>1, <1>2 DEF CacheTypeOK
<1>4. ASSUME NEW s \in Procs PROVE InCall(proc[s])'
  BY <1>2 DEF TypeInv, InCall
<1> QED
  BY <1>3, <1>4 DEF TypeInv

\* What is known of a request in a call.
LEMMA Calling ==
  ASSUME TypeInv, NEW p \in Procs
  PROVE  /\ proc[p] \in Proc /\ InCall(proc[p])
         /\ chunk \in [Centers -> [Numbers -> {Nil} \cup CachedChunk]] /\ index \in {Nil} \cup Index
         /\ clean \in [Centers -> BOOLEAN] /\ evicted \in [Centers -> BOOLEAN]
         /\ puts \in 0 .. MaxPuts /\ MaxPuts \in Nat /\ MaxChunks \in Nat
         /\ proc \in [Procs -> Proc] /\ current \in [Centers -> SUBSET CachedChunk]
  BY CacheAssumption DEF TypeInv, CacheTypeOK

LEMMA StartPutTyped == ASSUME TypeInv, NEW p \in Procs, StartPut(p) PROVE TypeInv'
<1>1. PICK c \in Centers, count \in 0 .. MaxChunks :
        /\ proc' = [q \in Procs |->
             IF q = p THEN [Idle EXCEPT !.pc = "putChunk", !.center = c, !.size = count,
                                        !.put = puts + 1, !.alone = Putting(c) = {}]
             ELSE [proc[q] EXCEPT !.alone = @ /\ proc[q].center # c]]
        /\ current' = [current EXCEPT ![c] = {[put |-> puts + 1, number |-> n] : n \in 0 .. count - 1}]
        /\ clean' = [clean EXCEPT ![c] = FALSE] /\ evicted' = [evicted EXCEPT ![c] = FALSE]
  BY DEF StartPut
<1>2. puts < MaxPuts /\ puts' = puts + 1 /\ chunk' = chunk /\ index' = index
  BY DEF StartPut
<1>3. puts + 1 \in 1 .. MaxPuts /\ 0 .. count - 1 \subseteq Numbers
  BY <1>2, Calling DEF Numbers
<1>3a. puts + 1 \in 0 .. MaxPuts /\ 0 \in 0 .. MaxChunks
  BY <1>3, Calling
<1>4. {[put |-> puts + 1, number |-> n] : n \in 0 .. count - 1} \in SUBSET CachedChunk
  BY <1>3 DEF CachedChunk
<1>5. PICK q : q = [Idle EXCEPT !.pc = "putChunk", !.center = c, !.size = count,
                                !.put = puts + 1, !.alone = Putting(c) = {}]
  OBVIOUS
<1>6. /\ q \in Proc /\ q.pc = "putChunk" /\ q.center = c /\ q.size = count /\ q.put = puts + 1
      /\ q.next = 0
  BY <1>1, <1>3, <1>3a, <1>5, IdleType DEF Proc
<1>7. ASSUME NEW s \in Procs, s # p
      PROVE  /\ proc'[s] \in Proc
             /\ proc'[s].pc = proc[s].pc /\ proc'[s].center = proc[s].center
             /\ proc'[s].put = proc[s].put /\ proc'[s].next = proc[s].next
             /\ proc'[s].size = proc[s].size /\ proc'[s].index = proc[s].index
             /\ proc'[s].result = proc[s].result
  BY <1>1, <1>7, Calling DEF Proc
<1>8. proc'[p] = q /\ DOMAIN proc' = Procs /\ proc' = [s \in Procs |-> proc'[s]]
  BY <1>1, <1>5
<1>9. proc' \in [Procs -> Proc]
  BY <1>6, <1>7, <1>8
<1>10. CacheTypeOK'
  <2>1. clean' \in [Centers -> BOOLEAN] /\ evicted' \in [Centers -> BOOLEAN]
    BY <1>1, Calling
  <2>2. current' \in [Centers -> SUBSET CachedChunk]
    BY <1>1, <1>4, Calling
  <2> QED
    BY <1>2, <1>3, <1>9, <2>1, <2>2, Calling DEF CacheTypeOK
<1>11. ASSUME NEW s \in Procs PROVE InCall(proc[s])'
  <2>1. CASE s = p
    BY <1>2, <1>3, <1>6, <1>8, <2>1 DEF InCall
  <2>2. CASE s # p
    BY <1>2, <1>7, <2>2, Calling DEF InCall
  <2> QED
    BY <2>1, <2>2
<1> QED
  BY <1>10, <1>11 DEF TypeInv

LEMMA PutChunkTyped == ASSUME TypeInv, NEW p \in Procs, PutChunk(p) PROVE TypeInv'
<1>1. PICK served \in Served("put") :
        /\ chunk' = IF served THEN [chunk EXCEPT ![proc[p].center][proc[p].next] =
                                      [put |-> proc[p].put, number |-> proc[p].next]]
                    ELSE chunk
        /\ Turns(p, [proc[p] EXCEPT !.next = proc[p].next + 1, !.alone = proc[p].alone /\ served])
  BY DEF PutChunk, Turns
<1>2. /\ proc[p].pc = "putChunk" /\ proc[p].next < proc[p].size
      /\ UNCHANGED <<index, puts, current, clean, evicted>>
  BY DEF PutChunk
<1>3. /\ proc[p].center \in Centers /\ proc[p].put \in 1 .. MaxPuts /\ proc[p].put \in 1 .. puts
      /\ proc[p].next \in Numbers /\ proc[p].size \in 0 .. MaxChunks
      /\ proc[p].next + 1 \in 0 .. MaxChunks /\ proc[p].next + 1 <= proc[p].size
  BY <1>2, Calling DEF Proc, InCall, Numbers
<1>4. [put |-> proc[p].put, number |-> proc[p].next] \in CachedChunk
  BY <1>3 DEF CachedChunk
<1> DEFINE E == [proc[p] EXCEPT !.next = proc[p].next + 1, !.alone = proc[p].alone /\ served]
<1>4a. Turns(p, E)
  BY <1>1
<1>4b. proc[p] \in Proc /\ served \in BOOLEAN
  BY Calling, ServedType
<1>5. PICK q : q = E
  OBVIOUS
<1>6. /\ q \in Proc /\ q.pc = "putChunk" /\ q.center = proc[p].center /\ q.put = proc[p].put
      /\ q.next = proc[p].next + 1 /\ q.size = proc[p].size
  BY <1>2, <1>3, <1>4b, <1>5 DEF Proc
<1> HIDE DEF E
<1>7. Turns(p, q)
  BY <1>4a, <1>5 DEF Turns
<1>8. InCall(q)'
  BY <1>2, <1>3, <1>6 DEF InCall
<1>9. chunk' \in [Centers -> [Numbers -> {Nil} \cup CachedChunk]]
  BY <1>1, <1>3, <1>4, Calling
<1> QED
  BY <1>2, <1>6, <1>7, <1>8, <1>9, Calling, Typed

\* Idle again, whatever the call was.
LEMMA Resting ==
  ASSUME TypeInv, NEW p \in Procs, proc' = [proc EXCEPT ![p] = Idle],
         chunk' = chunk, index' \in {Nil} \cup Index, puts' = puts, current' = current,
         clean' \in [Centers -> BOOLEAN], evicted' = evicted
  PROVE  TypeInv'
<1>1. PICK q : q = Idle
  OBVIOUS
<1>2. Turns(p, q)
  BY <1>1 DEF Turns
<1>3. q \in Proc /\ InCall(q)'
  BY <1>1, IdleType DEF InCall
<1> QED
  BY <1>2, <1>3, Calling, Typed

LEMMA ReadIndexTyped == ASSUME TypeInv, NEW p \in Procs, ReadIndex(p) PROVE TypeInv'
<1>1. PICK served \in Served("get") :
        /\ proc' = [proc EXCEPT ![p].pc = "putIndex",
             ![p].index = IF served /\ index # Nil THEN index ELSE [c \in Centers |-> Nil]]
        /\ evicted' = IF served THEN evicted ELSE [c \in Centers |-> TRUE]
  BY DEF ReadIndex
<1>2. /\ proc[p].pc = "putChunk" /\ proc[p].next = proc[p].size
      /\ UNCHANGED <<chunk, index, puts, current, clean>>
  BY DEF ReadIndex
<1>3. PICK x \in Index : x = IF served /\ index # Nil THEN index ELSE [c \in Centers |-> Nil]
  <2>1. [c \in Centers |-> Nil] \in Index /\ (index # Nil => index \in Index)
    BY Calling DEF Index
  <2> QED
    BY <2>1
<1>4. PICK q : q = [proc[p] EXCEPT !.pc = "putIndex", !.index = x]
  OBVIOUS
<1>5. proc[p] \in Proc
  BY Calling
<1>6. /\ q \in Proc /\ q.pc = "putIndex" /\ q.center = proc[p].center /\ q.put = proc[p].put
      /\ q.next = proc[p].next /\ q.size = proc[p].size /\ q.index = x
  BY <1>3, <1>4, <1>5 DEF Proc
<1>7. Turns(p, q)
  BY <1>1, <1>3, <1>4, <1>5, Calling DEF Turns, Proc
<1>8. InCall(q)'
  BY <1>2, <1>3, <1>6, Calling DEF InCall, Proc
<1>9. evicted' \in [Centers -> BOOLEAN]
  BY <1>1, Calling, ServedType
<1> QED
  BY <1>2, <1>6, <1>7, <1>8, <1>9, Calling, Typed

LEMMA WriteIndexTyped == ASSUME TypeInv, NEW p \in Procs, WriteIndex(p) PROVE TypeInv'
<1>1. PICK served \in Served("put") :
        /\ index' = IF served THEN [proc[p].index EXCEPT ![proc[p].center] = proc[p].size - 1] ELSE index
        /\ clean' = [clean EXCEPT ![proc[p].center] = proc[p].alone /\ served]
  BY DEF WriteIndex
<1>2. /\ proc[p].pc = "putIndex" /\ proc' = [proc EXCEPT ![p] = Idle]
      /\ UNCHANGED <<chunk, puts, current, evicted>>
  BY DEF WriteIndex
<1>3. /\ proc[p].center \in Centers /\ proc[p].index \in Index
      /\ proc[p].size - 1 \in Last /\ proc[p].alone \in BOOLEAN
  BY <1>2, Calling DEF InCall, Proc, Last
<1>4. index' \in {Nil} \cup Index
  BY <1>1, <1>3, Calling DEF Index
<1>5. clean' \in [Centers -> BOOLEAN]
  BY <1>1, <1>3, Calling, ServedType
<1> QED
  BY <1>2, <1>4, <1>5, Resting

\* A step of a get changes nothing but what it knows, and what has not been served.
LEMMA Getting ==
  ASSUME TypeInv, NEW p \in Procs, NEW q \in Proc, Turns(p, q), InCall(q)',
         UNCHANGED <<chunk, index, puts, current, clean>>, evicted' \in [Centers -> BOOLEAN]
  PROVE  TypeInv'
  BY Calling, Typed

LEMMA StartGetTyped == ASSUME TypeInv, NEW p \in Procs, StartGet(p) PROVE TypeInv'
<1>1. PICK c \in Centers : Turns(p, [Idle EXCEPT !.pc = "getIndex", !.center = c,
                                                 !.alone = Putting(c) = {}])
  BY DEF StartGet, Turns
<1>2. UNCHANGED <<chunk, index, puts, current, clean, evicted>>
  BY DEF StartGet
<1>3. PICK q : q = [Idle EXCEPT !.pc = "getIndex", !.center = c, !.alone = Putting(c) = {}]
  OBVIOUS
<1>4. q \in Proc /\ q.pc = "getIndex" /\ q.center = c /\ q.next = 0
  BY <1>1, <1>3, IdleType DEF Proc
<1>5. InCall(q)'
  BY <1>1, <1>4 DEF InCall
<1>6. Turns(p, q)
  BY <1>1, <1>3
<1> QED
  BY <1>2, <1>4, <1>5, <1>6, Calling, Getting

LEMMA GetIndexTyped == ASSUME TypeInv, NEW p \in Procs, GetIndex(p) PROVE TypeInv'
<1>1. PICK served \in Served("get") :
        /\ Turns(p, IF (index = Nil \/ index[proc[p].center] = Nil) \/ ~served
                    THEN [proc[p] EXCEPT !.pc = "got", !.result = {}]
                    ELSE [proc[p] EXCEPT !.pc = "getChunk", !.size = index[proc[p].center] + 1,
                                         !.result = {}])
        /\ evicted' = [evicted EXCEPT ![proc[p].center] = @ \/ ~served]
  BY DEF GetIndex, Turns
<1>2. proc[p].pc = "getIndex" /\ UNCHANGED <<chunk, index, puts, current, clean>>
  BY DEF GetIndex
<1>3. proc[p].center \in Centers /\ proc[p] \in Proc /\ proc[p].next = 0
  BY <1>2, Calling DEF InCall
<1>4. evicted' \in [Centers -> BOOLEAN]
  BY <1>1, <1>3, Calling
<1>5. CASE index = Nil \/ index[proc[p].center] = Nil \/ ~served
  <2>1. PICK q : q = [proc[p] EXCEPT !.pc = "got", !.result = {}]
    OBVIOUS
  <2>2. Turns(p, q)
    BY <1>1, <1>5, <2>1
  <2>3. q \in Proc /\ q.pc = "got" /\ q.center = proc[p].center
    BY <1>3, <2>1 DEF Proc
  <2>4. InCall(q)'
    BY <1>3, <2>3 DEF InCall
  <2> QED
    BY <1>2, <1>4, <2>2, <2>3, <2>4, Getting
<1>6. CASE ~(index = Nil \/ index[proc[p].center] = Nil \/ ~served)
  <2>1. PICK q : q = [proc[p] EXCEPT !.pc = "getChunk", !.size = index[proc[p].center] + 1,
                                     !.result = {}]
    OBVIOUS
  <2>2. Turns(p, q)
    BY <1>1, <1>6, <2>1
  <2>3. index[proc[p].center] \in Last
    BY <1>3, <1>6, Calling DEF Index
  <2>4. index[proc[p].center] + 1 \in 0 .. MaxChunks
    BY <2>3, Calling DEF Last
  <2>5. /\ q \in Proc /\ q.pc = "getChunk" /\ q.center = proc[p].center /\ q.result = {}
        /\ q.next = 0 /\ q.size = index[proc[p].center] + 1
    BY <1>3, <2>1, <2>4 DEF Proc
  <2>6. InCall(q)'
    BY <1>3, <2>4, <2>5 DEF InCall
  <2> QED
    BY <1>2, <1>4, <2>2, <2>5, <2>6, Getting
<1> QED
  BY <1>5, <1>6

LEMMA GetChunkTyped == ASSUME TypeInv, NEW p \in Procs, GetChunk(p) PROVE TypeInv'
<1> DEFINE found == chunk[proc[p].center][proc[p].next]
<1>1. PICK served \in Served("get") :
        /\ Turns(p, IF found = Nil \/ ~served THEN [proc[p] EXCEPT !.pc = "got", !.result = Nil]
                    ELSE [proc[p] EXCEPT !.next = proc[p].next + 1,
                                         !.result = proc[p].result \cup {found}])
        /\ evicted' = [evicted EXCEPT ![proc[p].center] = @ \/ ~served]
  BY DEF GetChunk, Turns
<1>2. /\ proc[p].pc = "getChunk" /\ proc[p].next < proc[p].size
      /\ UNCHANGED <<chunk, index, puts, current, clean>>
  BY DEF GetChunk
<1>3. /\ proc[p].center \in Centers /\ proc[p] \in Proc /\ proc[p].result \in SUBSET CachedChunk
      /\ proc[p].next \in Numbers /\ proc[p].next + 1 \in 0 .. MaxChunks
      /\ proc[p].next + 1 <= proc[p].size
  BY <1>2, Calling DEF InCall, Proc, Numbers
<1>4. evicted' \in [Centers -> BOOLEAN]
  BY <1>1, <1>3, Calling
<1>5. found \in {Nil} \cup CachedChunk
  BY <1>3, Calling
<1> HIDE DEF found
<1>6. CASE found = Nil \/ ~served
  <2>1. PICK q : q = [proc[p] EXCEPT !.pc = "got", !.result = Nil]
    OBVIOUS
  <2>2. Turns(p, q)
    BY <1>1, <1>6, <2>1
  <2>3. q \in Proc /\ q.pc = "got" /\ q.center = proc[p].center
    BY <1>3, <2>1 DEF Proc
  <2>4. InCall(q)'
    BY <1>3, <2>3 DEF InCall
  <2> QED
    BY <1>2, <1>4, <2>2, <2>3, <2>4, Getting
<1>7. CASE ~(found = Nil \/ ~served)
  <2>1. PICK q : q = [proc[p] EXCEPT !.next = proc[p].next + 1,
                                     !.result = proc[p].result \cup {found}]
    OBVIOUS
  <2>2. Turns(p, q)
    BY <1>1, <1>7, <2>1
  <2>3. proc[p].result \cup {found} \in SUBSET CachedChunk
    BY <1>3, <1>5, <1>7
  <2>4. /\ q \in Proc /\ q.pc = "getChunk" /\ q.center = proc[p].center
        /\ q.result = proc[p].result \cup {found}
        /\ q.next = proc[p].next + 1 /\ q.size = proc[p].size
    BY <1>2, <1>3, <2>1, <2>3 DEF Proc
  <2>5. InCall(q)'
    BY <1>3, <2>3, <2>4 DEF InCall
  <2> QED
    BY <1>2, <1>4, <2>2, <2>4, <2>5, Getting
<1> QED
  BY <1>6, <1>7

LEMMA GetEndTyped == ASSUME TypeInv, NEW p \in Procs, GetEnd(p) PROVE TypeInv'
<1>1. proc' = [proc EXCEPT ![p].pc = "got"] /\ UNCHANGED <<chunk, index, puts, current, clean, evicted>>
  BY DEF GetEnd
<1>2. proc[p].pc = "getChunk" /\ proc[p] \in Proc /\ proc[p].center \in Centers
  BY Calling DEF GetEnd, InCall
<1>3. PICK q : q = [proc[p] EXCEPT !.pc = "got"]
  OBVIOUS
<1>4. q \in Proc /\ q.pc = "got" /\ q.center = proc[p].center
  BY <1>2, <1>3 DEF Proc
<1>5. Turns(p, q)
  BY <1>1, <1>3 DEF Turns
<1>6. InCall(q)'
  BY <1>2, <1>4 DEF InCall
<1> QED
  BY <1>1, <1>4, <1>5, <1>6, Calling, Getting

LEMMA CacheTypeStep == TypeInv /\ [CacheNext]_cacheVars => TypeInv'
<1> SUFFICES ASSUME TypeInv, [CacheNext]_cacheVars PROVE TypeInv'
  OBVIOUS
<1>1. CASE UNCHANGED cacheVars
  BY <1>1 DEF cacheVars, TypeInv, CacheTypeOK, InCall
<1>2. ASSUME NEW p \in Procs, Return(p) \/ Die(p) PROVE TypeInv'
  BY <1>2, Calling, Resting DEF Return, Die
<1>3. ASSUME NEW p \in Procs, Use(p) PROVE TypeInv'
  BY <1>2, <1>3, StartPutTyped, PutChunkTyped, ReadIndexTyped, WriteIndexTyped, StartGetTyped,
     GetIndexTyped, GetChunkTyped, GetEndTyped DEF Use
<1>4. ASSUME NEW c \in Centers, NEW n \in Numbers, EvictChunk(c, n) PROVE TypeInv'
  <2>1. chunk' = [chunk EXCEPT ![c][n] = Nil] /\ evicted' = [evicted EXCEPT ![c] = TRUE]
    BY <1>4 DEF EvictChunk
  <2>2. UNCHANGED <<index, proc, puts, current, clean>>
    BY <1>4 DEF EvictChunk
  <2>3. chunk' \in [Centers -> [Numbers -> {Nil} \cup CachedChunk]] /\ evicted' \in [Centers -> BOOLEAN]
    BY <1>4, <2>1 DEF TypeInv, CacheTypeOK
  <2> QED
    BY <2>2, <2>3 DEF TypeInv, CacheTypeOK, InCall
<1>5. ASSUME EvictIndex PROVE TypeInv'
  <2>1. index' = Nil /\ evicted' \in [Centers -> BOOLEAN]
    BY <1>5 DEF EvictIndex
  <2> QED
    BY <1>5, <2>1 DEF EvictIndex, TypeInv, CacheTypeOK, InCall
<1> QED
  BY <1>1, <1>2, <1>3, <1>4, <1>5 DEF CacheNext

LEMMA CacheTypeInit == CacheInit => TypeInv
  BY CacheAssumption, IdleType DEF CacheInit, TypeInv, CacheTypeOK, InCall

-----------------------------------------------------------------------------
(* What a step leaves as it is.                                             *)

\* A chunk is where it was, or it has been evicted.
Kept(c) ==
    /\ evicted[c] => evicted'[c]
    /\ current'[c] = current[c]
    /\ \A m \in Numbers : chunk'[c][m] = chunk[c][m] \/ (chunk'[c][m] = Nil /\ evicted'[c])

LEMMA MapNumbers == ASSUME NEW n \in 0 .. MaxChunks PROVE 0 .. n - 1 \subseteq Numbers
  BY CacheAssumption DEF Numbers

LEMMA ThereKept ==
  ASSUME NEW c, Kept(c), NEW k, NEW m \in Numbers, There(c, k, m)
  PROVE  There(c, k, m)'
  BY DEF Kept, There

\* A request that is alone stays so as long as no other one puts.
LEMMA Others ==
  ASSUME TypeInv, NEW s \in Procs, PutAlone(s), GetAlone(s),
         proc'[s].pc = proc[s].pc, proc'[s].center = proc[s].center, proc'[s].size = proc[s].size,
         proc'[s].next = proc[s].next, proc'[s].put = proc[s].put, proc'[s].result = proc[s].result,
         proc'[s].alone => proc[s].alone,
         NEW c, c = proc[s].center, Kept(c),
         Putting(c) = {s} => Putting(c)' = {s},
         Putting(c) = {} => Putting(c)' = {} /\ (clean'[c] => clean[c])
  PROVE  PutAlone(s)' /\ GetAlone(s)'
<1>1. proc[s].size \in 0 .. MaxChunks /\ InCall(proc[s]) /\ proc[s].next \in 0 .. MaxChunks
  BY Calling DEF Proc
<1>2. \A m \in 0 .. proc[s].size - 1 : m \in Numbers
  BY <1>1, MapNumbers
<1>3. \A m \in 0 .. proc[s].next - 1 : m \in Numbers
  BY <1>1, MapNumbers
<1>4. PutAlone(s)'
  <2>1. \A m \in 0 .. proc[s].next - 1 :
          There(c, proc[s].put, m) => There(c, proc[s].put, m)'
    BY <1>3, ThereKept
  <2> QED
    BY <2>1 DEF PutAlone, Kept
<1>5. GetAlone(s)'
  <2>1. \A k \in Int : Stored(c, k, proc[s].size) => Stored(c, k, proc[s].size)'
    BY <1>2, ThereKept DEF Stored, Kept
  <2> QED
    BY <2>1 DEF GetAlone, Kept
<1> QED
  BY <1>4, <1>5

\* The cache of a cost center is as good as it was.
LEMMA StillClean ==
  ASSUME NEW c \in Centers, TypeInv, Cleaned(c), clean'[c] => clean[c], Kept(c),
         index' = index \/ (index' = Nil /\ evicted'[c]), Putting(c) = {} => Putting(c)' = {}
  PROVE  Cleaned(c)'
<1> SUFFICES ASSUME clean'[c] PROVE Cleaned(c)'
  BY DEF Cleaned
<1>1. PICK k \in Int, n \in 0 .. MaxChunks :
        /\ Stored(c, k, n)
        /\ IF index = Nil \/ index[c] = Nil THEN evicted[c] \/ n = 0 ELSE index[c] = n - 1
  BY DEF Cleaned
<1>2. Stored(c, k, n)'
  BY <1>1, MapNumbers, ThereKept DEF Stored, Kept
<1>3. IF index' = Nil \/ index'[c] = Nil THEN evicted'[c] \/ n = 0 ELSE index'[c] = n - 1
  BY <1>1 DEF Kept
<1>4. Putting(c)' = {}
  BY DEF Cleaned
<1> QED
  BY <1>2, <1>3, <1>4 DEF Cleaned

\* Who is putting after a step of one request.
LEMMA PuttingAfter ==
  ASSUME TypeInv, NEW p \in Procs, NEW q, Turns(p, q), NEW c
  PROVE  /\ q.pc \notin {"putChunk", "putIndex"} => Putting(c)' = Putting(c) \ {p}
         /\ q.pc \in {"putChunk", "putIndex"} /\ p \in Putting(q.center) => Putting(c)' =
              IF c = q.center THEN Putting(c) ELSE Putting(c) \ {p}
         /\ proc'[p] = q /\ \A s \in Procs : s # p => proc'[s] = proc[s]
<1>1. proc'[p] = q /\ \A s \in Procs : s # p => proc'[s] = proc[s]
  BY Calling DEF Turns
<1> QED
  BY <1>1 DEF Putting

\* A step of a request that puts nothing.
LEMMA ReadingStep ==
  ASSUME CacheInv, NEW p \in Procs, NEW q, Turns(p, q), TypeInv',
         UNCHANGED <<chunk, index, current, clean>>, \A c \in Centers : evicted[c] => evicted'[c],
         q.pc \notin {"putChunk", "putIndex"}, GetAlone(p)'
  PROVE  CacheInv'
<1>1. /\ \A c : Putting(c)' = Putting(c) \ {p}
      /\ proc'[p] = q /\ \A s \in Procs : s # p => proc'[s] = proc[s]
  BY PuttingAfter DEF CacheInv
<1>2. \A c \in Centers : Kept(c)
  BY DEF Kept
<1>3. ASSUME NEW c \in Centers PROVE Cleaned(c)'
  BY <1>1, <1>2, StillClean DEF CacheInv
<1>4. ASSUME NEW s \in Procs PROVE PutAlone(s)' /\ GetAlone(s)'
  <2>1. CASE s = p
    BY <1>1, <2>1 DEF PutAlone
  <2>2. CASE s # p /\ proc[s].pc = "idle"
    BY <1>1, <2>2 DEF PutAlone, GetAlone
  <2>3. CASE s # p /\ proc[s].pc # "idle"
    <3>1. proc[s].center \in Centers
      BY <2>3, Calling DEF InCall, CacheInv
    <3>2. PICK c \in Centers : c = proc[s].center
      BY <3>1
    <3> QED
      BY <1>1, <1>2, <2>3, <3>2, Others DEF CacheInv
  <2> QED
    BY <2>1, <2>2, <2>3
<1> QED
  BY <1>3, <1>4 DEF CacheInv

-----------------------------------------------------------------------------
(* The steps of a get.                                                      *)

LEMMA IdleStep ==
  ASSUME CacheInv, NEW p \in Procs, Return(p) \/ Die(p), TypeInv'
  PROVE  CacheInv'
<1>1. PICK q : q = Idle
  OBVIOUS
<1>2. Turns(p, q) /\ UNCHANGED <<chunk, index, current, clean, evicted>>
  BY <1>1 DEF Return, Die, Turns
<1>3. proc'[p] = q /\ q.pc = "idle"
  BY <1>1, <1>2, IdleType, PuttingAfter DEF CacheInv
<1> QED
  BY <1>2, <1>3, ReadingStep DEF GetAlone

LEMMA StartGetStep == ASSUME CacheInv, NEW p \in Procs, StartGet(p), TypeInv' PROVE CacheInv'
<1>1. PICK c \in Centers : Turns(p, [Idle EXCEPT !.pc = "getIndex", !.center = c,
                                                 !.alone = Putting(c) = {}])
  BY DEF StartGet, Turns
<1>2. UNCHANGED <<chunk, index, current, clean, evicted>>
  BY DEF StartGet
<1>3. PICK q : q = [Idle EXCEPT !.pc = "getIndex", !.center = c, !.alone = Putting(c) = {}]
  OBVIOUS
<1>4. q.pc = "getIndex" /\ q.center = c /\ (q.alone => Putting(c) = {})
  BY <1>3, IdleType DEF Proc
<1>5. Turns(p, q)
  BY <1>1, <1>3
<1>6. GetAlone(p)'
  BY <1>4, <1>5, PuttingAfter DEF CacheInv, GetAlone
<1> QED
  BY <1>2, <1>4, <1>5, <1>6, ReadingStep

LEMMA GetIndexStep == ASSUME CacheInv, NEW p \in Procs, GetIndex(p), TypeInv' PROVE CacheInv'
<1>0. PICK c \in Centers : c = proc[p].center
  BY Calling DEF GetIndex, InCall, CacheInv
<1> DEFINE none == index = Nil \/ index[c] = Nil
<1>1. PICK served \in Served("get") :
        /\ Turns(p, IF none \/ ~served THEN [proc[p] EXCEPT !.pc = "got", !.result = {}]
                    ELSE [proc[p] EXCEPT !.pc = "getChunk", !.size = index[c] + 1, !.result = {}])
        /\ evicted' = [evicted EXCEPT ![c] = @ \/ ~served]
  BY <1>0 DEF GetIndex, Turns
<1>2. PICK q : q = IF none \/ ~served THEN [proc[p] EXCEPT !.pc = "got", !.result = {}]
                   ELSE [proc[p] EXCEPT !.pc = "getChunk", !.size = index[c] + 1, !.result = {}]
  OBVIOUS
<1>3. proc[p].pc = "getIndex" /\ UNCHANGED <<chunk, index, current, clean>>
  BY DEF GetIndex
<1>4. proc[p] \in Proc /\ proc[p].next = 0
  BY <1>3, Calling DEF InCall, CacheInv
<1>5. /\ evicted'[c] <=> (evicted[c] \/ ~served)
      /\ \A d \in Centers : evicted[d] => evicted'[d]
  BY <1>0, <1>1, Calling DEF CacheInv
<1>6. /\ q.center = c /\ q.alone = proc[p].alone /\ q.result = {} /\ q.next = 0
      /\ IF none \/ ~served THEN q.pc = "got" ELSE q.pc = "getChunk" /\ q.size = index[c] + 1
  BY <1>0, <1>2, <1>4 DEF Proc
<1>7. Turns(p, q)
  BY <1>1, <1>2
<1>8. Putting(c)' = Putting(c) \ {p} /\ proc'[p] = q
  BY <1>6, <1>7, PuttingAfter DEF CacheInv
<1>9. Cleaned(c) /\ GetAlone(p)
  BY DEF CacheInv
<1>10. GetAlone(p)'
  <2> SUFFICES ASSUME proc[p].alone
               PROVE  /\ Putting(c)' = {}
                      /\ q.pc = "getChunk" /\ clean[c] =>
                           \E k \in Int : Stored(c, k, q.size)' /\ q.result = Map(k, q.next)
                      /\ q.pc = "got" /\ clean[c] =>
                           q.result = current[c] \/ (q.result \in {{}, Nil} /\ evicted'[c])
    BY <1>0, <1>3, <1>6, <1>8 DEF GetAlone
  <2>1. Putting(c)' = {}
    BY <1>0, <1>3, <1>8, <1>9 DEF GetAlone
  <2>2. ASSUME clean[c], none, ~evicted[c] PROVE current[c] = {}
    <3>1. PICK k \in Int : current[c] = Map(k, 0)
      BY <1>9, <2>2 DEF Cleaned, Stored
    <3> QED
      BY <3>1 DEF Map
  <2>3. ASSUME clean[c], q.pc = "getChunk" PROVE \E k \in Int : Stored(c, k, q.size)'
    <3>1. PICK k \in Int, n \in 0 .. MaxChunks : Stored(c, k, n) /\ index[c] = n - 1
      BY <1>6, <1>9, <2>3 DEF Cleaned
    <3>2. Kept(c) /\ q.size = n
      BY <1>3, <1>5, <1>6, <2>3, <3>1 DEF Kept
    <3>3. Stored(c, k, n)'
      BY <3>1, <3>2, MapNumbers, ThereKept DEF Stored, Kept
    <3> QED
      BY <3>2, <3>3
  <2>4. \A k : Map(k, 0) = {}
    BY DEF Map
  <2> QED
    BY <1>5, <1>6, <2>1, <2>2, <2>3, <2>4
<1> QED
  BY <1>3, <1>5, <1>6, <1>7, <1>10, ReadingStep

LEMMA GetChunkStep == ASSUME CacheInv, NEW p \in Procs, GetChunk(p), TypeInv' PROVE CacheInv'
<1>0. PICK c \in Centers : c = proc[p].center
  BY Calling DEF GetChunk, InCall, CacheInv
<1>found. PICK found : found = chunk[c][proc[p].next]
  OBVIOUS
<1>1. PICK served \in Served("get") :
        /\ Turns(p, IF found = Nil \/ ~served THEN [proc[p] EXCEPT !.pc = "got", !.result = Nil]
                    ELSE [proc[p] EXCEPT !.next = proc[p].next + 1,
                                         !.result = proc[p].result \cup {found}])
        /\ evicted' = [evicted EXCEPT ![c] = @ \/ ~served]
  BY <1>0, <1>found DEF GetChunk, Turns
<1>2. PICK q : q = IF found = Nil \/ ~served THEN [proc[p] EXCEPT !.pc = "got", !.result = Nil]
                   ELSE [proc[p] EXCEPT !.next = proc[p].next + 1,
                                        !.result = proc[p].result \cup {found}]
  OBVIOUS
<1>3. /\ proc[p].pc = "getChunk" /\ proc[p].next < proc[p].size
      /\ UNCHANGED <<chunk, index, current, clean>>
  BY DEF GetChunk
<1>4. /\ proc[p] \in Proc /\ proc[p].next \in Nat /\ proc[p].size \in 0 .. MaxChunks
      /\ proc[p].next \in 0 .. proc[p].size - 1
  BY <1>3, Calling DEF InCall, CacheInv, Proc
<1>5. /\ evicted'[c] <=> (evicted[c] \/ ~served)
      /\ \A d \in Centers : evicted[d] => evicted'[d]
  BY <1>0, <1>1, Calling DEF CacheInv
<1>6. /\ q.center = c /\ q.alone = proc[p].alone /\ q.size = proc[p].size
      /\ IF found = Nil \/ ~served THEN q.pc = "got" /\ q.result = Nil
         ELSE q.pc = "getChunk" /\ q.next = proc[p].next + 1 /\ q.result = proc[p].result \cup {found}
  BY <1>0, <1>2, <1>3, <1>4 DEF Proc
<1>7. Turns(p, q)
  BY <1>1, <1>2
<1>8. Putting(c)' = Putting(c) \ {p} /\ proc'[p] = q
  BY <1>3, <1>6, <1>7, PuttingAfter DEF CacheInv
<1>9. GetAlone(p)
  BY DEF CacheInv
<1>10. GetAlone(p)'
  <2> SUFFICES ASSUME proc[p].alone
               PROVE  /\ Putting(c)' = {}
                      /\ q.pc = "getChunk" /\ clean[c] =>
                           \E k \in Int : Stored(c, k, q.size)' /\ q.result = Map(k, q.next)
                      /\ q.pc = "got" /\ clean[c] =>
                           q.result = current[c] \/ (q.result \in {{}, Nil} /\ evicted'[c])
    BY <1>0, <1>3, <1>6, <1>8 DEF GetAlone
  <2>1. Putting(c)' = {}
    BY <1>0, <1>3, <1>8, <1>9 DEF GetAlone
  <2>2. ASSUME clean[c]
        PROVE  \E k \in Int : /\ Stored(c, k, q.size)' /\ proc[p].result = Map(k, proc[p].next)
                              /\ IF found = Nil THEN evicted[c]
                                 ELSE found = [put |-> k, number |-> proc[p].next]
    <3>1. PICK k \in Int : Stored(c, k, proc[p].size) /\ proc[p].result = Map(k, proc[p].next)
      BY <1>0, <1>3, <1>9, <2>2 DEF GetAlone
    <3>2. Stored(c, k, q.size)'
      <4>1. Kept(c) /\ Stored(c, k, q.size) /\ q.size \in 0 .. MaxChunks
        BY <1>3, <1>4, <1>5, <1>6, <3>1 DEF Kept
      <4> QED
        BY <4>1, MapNumbers, ThereKept DEF Stored, Kept
    <3>3. There(c, k, proc[p].next)
      BY <1>4, <3>1 DEF Stored
    <3> QED
      BY <1>found, <3>1, <3>2, <3>3 DEF There
  <2>3. \A k : Map(k, proc[p].next + 1) = Map(k, proc[p].next) \cup {[put |-> k, number |-> proc[p].next]}
    <3>1. 0 .. proc[p].next + 1 - 1 = (0 .. proc[p].next - 1) \cup {proc[p].next}
      BY <1>4
    <3> QED
      BY <3>1 DEF Map
  <2> QED
    BY <1>5, <1>6, <2>1, <2>2, <2>3
<1> QED
  BY <1>3, <1>5, <1>6, <1>7, <1>10, ReadingStep

LEMMA GetEndStep == ASSUME CacheInv, NEW p \in Procs, GetEnd(p), TypeInv' PROVE CacheInv'
<1>1. /\ proc[p].pc = "getChunk" /\ proc[p].next = proc[p].size
      /\ UNCHANGED <<chunk, index, current, clean, evicted>>
  BY DEF GetEnd
<1>2. PICK q : q = [proc[p] EXCEPT !.pc = "got"]
  OBVIOUS
<1>3. Turns(p, q)
  BY <1>2 DEF Turns, GetEnd
<1>4. proc[p] \in Proc
  BY Calling DEF CacheInv
<1>5. /\ q.pc = "got" /\ q.center = proc[p].center /\ q.alone = proc[p].alone
      /\ q.result = proc[p].result
  BY <1>2, <1>4 DEF Proc
<1>6. proc'[p] = q /\ \A c : Putting(c)' = Putting(c) \ {p}
  BY <1>3, <1>5, PuttingAfter DEF CacheInv
<1>7. GetAlone(p)'
  <2>1. PICK c : c = proc[p].center
    OBVIOUS
  <2>2. GetAlone(p)
    BY DEF CacheInv
  <2>3. proc[p].alone => Putting(c)' = {}
    BY <1>1, <1>6, <2>1, <2>2 DEF GetAlone
  <2>4. proc[p].alone /\ clean[c] => proc[p].result = current[c]
    BY <1>1, <2>1, <2>2 DEF GetAlone, Stored
  <2> QED
    BY <1>1, <1>5, <1>6, <2>1, <2>3, <2>4 DEF GetAlone
<1> QED
  BY <1>1, <1>3, <1>5, <1>7, ReadingStep

-----------------------------------------------------------------------------
(* The steps of a put.                                                      *)

LEMMA Vacuous ==
  ASSUME NEW s, proc'[s].pc = "idle" \/ ~proc'[s].alone
  PROVE  PutAlone(s)' /\ GetAlone(s)'
  BY DEF PutAlone, GetAlone

\* Who uses the cost center of a put is not alone, and its cache is not clean.
LEMMA NotAlone ==
  ASSUME CacheInv, NEW p \in Procs, proc[p].pc \in {"putChunk", "putIndex"},
         NEW c \in Centers, c = proc[p].center
  PROVE  /\ p \in Putting(c) /\ ~clean[c]
         /\ \A s \in Procs : s # p /\ proc[s].pc # "idle" /\ proc[s].center = c => ~proc[s].alone
<1>1. p \in Putting(c)
  BY DEF Putting
<1>2. ~clean[c]
  BY <1>1 DEF CacheInv, Cleaned
<1>3. ASSUME NEW s \in Procs, s # p, proc[s].pc # "idle", proc[s].center = c, proc[s].alone PROVE FALSE
  <2>1. proc[s].pc \in {"putChunk", "getIndex", "putIndex", "getChunk", "got"}
    BY <1>3, Calling DEF Proc, CacheInv
  <2> QED
    BY <1>1, <1>3, <2>1 DEF CacheInv, PutAlone, GetAlone
<1> QED
  BY <1>1, <1>2, <1>3

\* A request that uses another cost center than that of the put.
LEMMA Elsewhere ==
  ASSUME CacheInv, NEW s \in Procs, proc[s].pc # "idle",
         proc'[s].pc = proc[s].pc, proc'[s].center = proc[s].center, proc'[s].size = proc[s].size,
         proc'[s].next = proc[s].next, proc'[s].put = proc[s].put, proc'[s].result = proc[s].result,
         proc'[s].alone => proc[s].alone,
         NEW d \in Centers, d = proc[s].center, Kept(d), Putting(d)' = Putting(d), clean'[d] => clean[d]
  PROVE  PutAlone(s)' /\ GetAlone(s)'
  BY Others DEF CacheInv

LEMMA StartPutStep == ASSUME CacheInv, NEW p \in Procs, StartPut(p), TypeInv' PROVE CacheInv'
<1>1. PICK c \in Centers, count \in 0 .. MaxChunks :
        /\ proc' = [q \in Procs |->
             IF q = p THEN [Idle EXCEPT !.pc = "putChunk", !.center = c, !.size = count,
                                        !.put = puts + 1, !.alone = Putting(c) = {}]
             ELSE [proc[q] EXCEPT !.alone = @ /\ proc[q].center # c]]
        /\ current' = [current EXCEPT ![c] = {[put |-> puts + 1, number |-> n] : n \in 0 .. count - 1}]
        /\ clean' = [clean EXCEPT ![c] = FALSE] /\ evicted' = [evicted EXCEPT ![c] = FALSE]
  BY DEF StartPut
<1>2. puts < MaxPuts /\ chunk' = chunk /\ index' = index /\ proc[p].pc = "idle"
  BY DEF StartPut
<1>3. PICK q : q = [Idle EXCEPT !.pc = "putChunk", !.center = c, !.size = count,
                                !.put = puts + 1, !.alone = Putting(c) = {}]
  OBVIOUS
<1>4. /\ q.pc = "putChunk" /\ q.center = c /\ q.size = count /\ q.put = puts + 1
      /\ q.next = 0 /\ (q.alone => Putting(c) = {})
  BY <1>3, IdleType DEF Proc
<1>5. proc'[p] = q
  BY <1>1, <1>3
<1>6. ASSUME NEW s \in Procs, s # p
      PROVE  /\ proc'[s].pc = proc[s].pc /\ proc'[s].center = proc[s].center
             /\ proc'[s].put = proc[s].put /\ proc'[s].next = proc[s].next
             /\ proc'[s].size = proc[s].size /\ proc'[s].result = proc[s].result
             /\ proc'[s].alone => proc[s].alone /\ proc[s].center # c
  BY <1>1, <1>6, Calling DEF Proc, CacheInv
<1>7. Putting(c)' = Putting(c) \cup {p} /\ \A d : d # c => Putting(d)' = Putting(d)
  BY <1>2, <1>4, <1>5, <1>6 DEF Putting
<1>8. /\ current'[c] = Map(puts + 1, count) /\ ~clean'[c]
      /\ \A d \in Centers : d # c => clean'[d] = clean[d] /\ Kept(d)
  BY <1>1, <1>2, Calling DEF Map, Kept, CacheInv
<1>9. ASSUME NEW d \in Centers PROVE Cleaned(d)'
  <2>1. CASE d = c
    BY <1>8, <2>1 DEF Cleaned
  <2>2. CASE d # c
    BY <1>2, <1>7, <1>8, <2>2, StillClean DEF CacheInv
  <2> QED
    BY <2>1, <2>2
<1>10. PutAlone(p)' /\ GetAlone(p)'
  BY <1>4, <1>5, <1>7, <1>8 DEF PutAlone, GetAlone
<1>11. ASSUME NEW s \in Procs, s # p PROVE PutAlone(s)' /\ GetAlone(s)'
  <2>1. CASE proc[s].pc = "idle" \/ proc[s].center = c
    BY <1>6, <1>11, <2>1, Vacuous
  <2>2. CASE ~(proc[s].pc = "idle" \/ proc[s].center = c)
    <3>1. PICK d \in Centers : d = proc[s].center
      BY <2>2, Calling DEF InCall, CacheInv
    <3> QED
      BY <1>6, <1>7, <1>8, <1>11, <2>2, <3>1, Elsewhere
  <2> QED
    BY <2>1, <2>2
<1> QED
  BY <1>9, <1>10, <1>11 DEF CacheInv

LEMMA PutChunkStep == ASSUME CacheInv, NEW p \in Procs, PutChunk(p), TypeInv' PROVE CacheInv'
<1>0. PICK c \in Centers : c = proc[p].center
  BY Calling DEF PutChunk, InCall, CacheInv
<1>1. PICK served \in Served("put") :
        /\ chunk' = IF served THEN [chunk EXCEPT ![c][proc[p].next] =
                                      [put |-> proc[p].put, number |-> proc[p].next]]
                    ELSE chunk
        /\ Turns(p, [proc[p] EXCEPT !.next = proc[p].next + 1, !.alone = proc[p].alone /\ served])
  BY <1>0 DEF PutChunk, Turns
<1>2. /\ proc[p].pc = "putChunk" /\ proc[p].next < proc[p].size
      /\ UNCHANGED <<index, current, clean, evicted>>
  BY DEF PutChunk
<1>3. /\ proc[p] \in Proc /\ proc[p].put \in 1 .. MaxPuts /\ proc[p].next \in Numbers
      /\ proc[p].next \in Nat /\ PutAlone(p)
  BY <1>2, Calling DEF Proc, InCall, Numbers, CacheInv
<1>4. PICK q : q = [proc[p] EXCEPT !.next = proc[p].next + 1, !.alone = proc[p].alone /\ served]
  OBVIOUS
<1>5. /\ q.pc = "putChunk" /\ q.center = c /\ q.put = proc[p].put /\ q.size = proc[p].size
      /\ q.next = proc[p].next + 1 /\ (q.alone => proc[p].alone /\ served)
  BY <1>0, <1>2, <1>3, <1>4 DEF Proc
<1>6. Turns(p, q)
  BY <1>1, <1>4
<1>7. /\ p \in Putting(c) /\ ~clean[c]
      /\ \A s \in Procs : s # p /\ proc[s].pc # "idle" /\ proc[s].center = c => ~proc[s].alone
  BY <1>0, <1>2, NotAlone
<1>8. /\ proc'[p] = q /\ \A s \in Procs : s # p => proc'[s] = proc[s]
      /\ \A d : Putting(d)' = Putting(d)
  <2>1. \A d : d # c => p \notin Putting(d)
    BY <1>0 DEF Putting
  <2> QED
    BY <1>5, <1>6, <1>7, <2>1, PuttingAfter DEF CacheInv
<1>9. \A d \in Centers : d # c => Kept(d)
  BY <1>1, <1>2, Calling DEF Kept, CacheInv
<1>10. ASSUME NEW d \in Centers PROVE Cleaned(d)'
  <2>1. CASE d = c
    BY <1>2, <1>7, <2>1 DEF Cleaned
  <2>2. CASE d # c
    BY <1>2, <1>8, <1>9, <2>2, StillClean DEF CacheInv
  <2> QED
    BY <2>1, <2>2
<1>11. PutAlone(p)' /\ GetAlone(p)'
  <2> SUFFICES ASSUME proc[p].alone, served
               PROVE  /\ Putting(c)' = {p} /\ current[c] = Map(q.put, q.size)
                      /\ \A m \in 0 .. q.next - 1 : There(c, q.put, m)'
    BY <1>2, <1>5, <1>8 DEF PutAlone, GetAlone
  <2>1. /\ Putting(c) = {p} /\ current[c] = Map(q.put, q.size)
        /\ \A m \in 0 .. proc[p].next - 1 : There(c, q.put, m)
    BY <1>0, <1>2, <1>3, <1>5 DEF PutAlone
  <2>2. ASSUME NEW m \in 0 .. q.next - 1 PROVE There(c, q.put, m)'
    <3>1. CASE m = proc[p].next
      <4>1. chunk'[c][m] = [put |-> q.put, number |-> m]
        BY <1>1, <1>3, <1>5, <3>1, Calling DEF CacheInv
      <4>2. chunk'[c][m] # Nil
        BY <1>3, <1>5, <3>1, <4>1, CacheAssumption DEF CachedChunk
      <4> QED
        BY <4>1, <4>2 DEF There
    <3>2. CASE m # proc[p].next
      <4>1. m \in 0 .. proc[p].next - 1
        BY <1>3, <1>5, <3>2
      <4>2. m \in Numbers
        BY <1>3, <4>1, CacheAssumption DEF Numbers
      <4>3. chunk'[c][m] = chunk[c][m]
        BY <1>1, <1>3, <3>2, <4>2, Calling DEF CacheInv
      <4> QED
        BY <1>2, <2>1, <4>1, <4>3 DEF There
    <3> QED
      BY <3>1, <3>2
  <2> QED
    BY <1>8, <2>1, <2>2
<1>12. ASSUME NEW s \in Procs, s # p PROVE PutAlone(s)' /\ GetAlone(s)'
  <2>1. CASE proc[s].pc = "idle" \/ proc[s].center = c
    BY <1>7, <1>8, <1>12, <2>1, Vacuous
  <2>2. CASE ~(proc[s].pc = "idle" \/ proc[s].center = c)
    <3>1. PICK d \in Centers : d = proc[s].center
      BY <2>2, Calling DEF InCall, CacheInv
    <3> QED
      BY <1>2, <1>8, <1>9, <1>12, <2>2, <3>1, Elsewhere
  <2> QED
    BY <2>1, <2>2
<1> QED
  BY <1>10, <1>11, <1>12 DEF CacheInv

LEMMA ReadIndexStep == ASSUME CacheInv, NEW p \in Procs, ReadIndex(p), TypeInv' PROVE CacheInv'
<1>0. PICK c \in Centers : c = proc[p].center
  BY Calling DEF ReadIndex, InCall, CacheInv
<1>1. PICK served \in Served("get") :
        /\ Turns(p, [proc[p] EXCEPT !.pc = "putIndex",
             !.index = IF served /\ index # Nil THEN index ELSE [d \in Centers |-> Nil]])
        /\ evicted' = IF served THEN evicted ELSE [d \in Centers |-> TRUE]
  BY DEF ReadIndex, Turns
<1>2. proc[p].pc = "putChunk" /\ UNCHANGED <<chunk, index, current, clean>>
  BY DEF ReadIndex
<1>3. proc[p] \in Proc /\ PutAlone(p)
  BY Calling DEF CacheInv
<1>4. PICK q : q = [proc[p] EXCEPT !.pc = "putIndex",
        !.index = IF served /\ index # Nil THEN index ELSE [d \in Centers |-> Nil]]
  OBVIOUS
<1>5. /\ q.pc = "putIndex" /\ q.center = c /\ q.put = proc[p].put /\ q.size = proc[p].size
      /\ q.next = proc[p].next /\ q.alone = proc[p].alone
  BY <1>0, <1>3, <1>4 DEF Proc
<1>6. Turns(p, q)
  BY <1>1, <1>4
<1>7. p \in Putting(c)
  BY <1>0, <1>2, NotAlone
<1>8. /\ proc'[p] = q /\ \A s \in Procs : s # p => proc'[s] = proc[s]
      /\ \A d : Putting(d)' = Putting(d)
  <2>1. \A d : d # c => p \notin Putting(d)
    BY <1>0 DEF Putting
  <2> QED
    BY <1>5, <1>6, <1>7, <2>1, PuttingAfter DEF CacheInv
<1>9. \A d \in Centers : Kept(d)
  BY <1>1, <1>2, Calling DEF Kept, CacheInv
<1>10. ASSUME NEW d \in Centers PROVE Cleaned(d)'
  BY <1>2, <1>8, <1>9, StillClean DEF CacheInv
<1>11. PutAlone(p)' /\ GetAlone(p)'
  <2> SUFFICES ASSUME proc[p].alone
               PROVE  /\ Putting(c)' = {p} /\ current[c] = Map(q.put, q.size)
                      /\ \A m \in 0 .. q.next - 1 : There(c, q.put, m)'
    BY <1>2, <1>5, <1>8 DEF PutAlone, GetAlone
  <2>1. /\ Putting(c) = {p} /\ current[c] = Map(q.put, q.size)
        /\ \A m \in 0 .. q.next - 1 : There(c, q.put, m)
    BY <1>0, <1>2, <1>3, <1>5 DEF PutAlone
  <2>2. Kept(c) /\ q.next \in 0 .. MaxChunks
    BY <1>3, <1>5, <1>9 DEF Proc
  <2> QED
    BY <1>8, <2>1, <2>2, MapNumbers, ThereKept
<1>12. ASSUME NEW s \in Procs, s # p PROVE PutAlone(s)' /\ GetAlone(s)'
  <2>1. CASE proc[s].pc = "idle"
    BY <1>8, <1>12, <2>1, Vacuous
  <2>2. CASE proc[s].pc # "idle"
    <3>1. PICK d \in Centers : d = proc[s].center
      BY <2>2, Calling DEF InCall, CacheInv
    <3> QED
      BY <1>2, <1>8, <1>9, <1>12, <2>2, <3>1, Elsewhere
  <2> QED
    BY <2>1, <2>2
<1> QED
  BY <1>10, <1>11, <1>12 DEF CacheInv

\* The number of the last chunk is written, with the numbers of all cost centers as they were
\* read: with a second cost center this is where its number may be lost.
LEMMA WriteIndexStep ==
  ASSUME CacheInv, NEW p \in Procs, WriteIndex(p), TypeInv', \A c, d \in Centers : c = d
  PROVE  CacheInv'
<1>0. PICK c \in Centers : c = proc[p].center
  BY Calling DEF WriteIndex, InCall, CacheInv
<1>1. PICK served \in Served("put") :
        /\ index' = IF served THEN [proc[p].index EXCEPT ![c] = proc[p].size - 1] ELSE index
        /\ clean' = [clean EXCEPT ![c] = proc[p].alone /\ served]
  BY <1>0 DEF WriteIndex
<1>2. proc[p].pc = "putIndex" /\ UNCHANGED <<chunk, current, evicted>>
  BY DEF WriteIndex
<1>3. /\ proc[p].next = proc[p].size /\ proc[p].size \in 0 .. MaxChunks /\ proc[p].put \in Int
      /\ proc[p].index \in Index /\ PutAlone(p)
  BY <1>2, Calling DEF InCall, Proc, CacheInv
<1>4. PICK q : q = Idle
  OBVIOUS
<1>5. Turns(p, q) /\ q.pc = "idle"
  BY <1>4, IdleType DEF WriteIndex, Turns
<1>6. /\ proc'[p] = q /\ \A s \in Procs : s # p => proc'[s] = proc[s]
      /\ \A d : Putting(d)' = Putting(d) \ {p}
  BY <1>5, PuttingAfter DEF CacheInv
<1>7. \A s \in Procs : s # p /\ proc[s].pc # "idle" /\ proc[s].center = c => ~proc[s].alone
  BY <1>0, <1>2, NotAlone
<1>8. Cleaned(c)'
  <2> SUFFICES ASSUME proc[p].alone, served
               PROVE  /\ Putting(c)' = {}
                      /\ \E k \in Int, n \in 0 .. MaxChunks :
                           /\ Stored(c, k, n)'
                           /\ index' # Nil /\ index'[c] = n - 1 /\ index'[c] # Nil
    BY <1>1, Calling DEF Cleaned, CacheInv
  <2>1. Putting(c) = {p} /\ Stored(c, proc[p].put, proc[p].size)
    BY <1>0, <1>2, <1>3 DEF PutAlone, Stored
  <2>2. index' \in Index /\ index'[c] = proc[p].size - 1
    BY <1>0, <1>1, <1>2, <1>3, Calling DEF Index, Last, CacheInv
  <2>3. index' # Nil /\ index'[c] # Nil
    BY <1>3, <2>2, CacheAssumption
  <2>4. PICK k \in Int, n \in 0 .. MaxChunks : k = proc[p].put /\ n = proc[p].size
    BY <1>3
  <2>5. Stored(c, k, n)'
    BY <1>2, <2>1, <2>4 DEF Stored, There
  <2> QED
    BY <1>6, <2>1, <2>2, <2>3, <2>4, <2>5
<1>9. ASSUME NEW s \in Procs PROVE PutAlone(s)' /\ GetAlone(s)'
  <2>1. CASE s = p \/ proc[s].pc = "idle"
    BY <1>5, <1>6, <2>1, Vacuous
  <2>2. CASE ~(s = p \/ proc[s].pc = "idle")
    <3>1. proc[s].center = c
      BY <2>2, Calling DEF InCall, CacheInv
    <3> QED
      BY <1>6, <1>7, <2>2, <3>1, Vacuous
  <2> QED
    BY <2>1, <2>2
<1> QED
  BY <1>8, <1>9 DEF CacheInv

-----------------------------------------------------------------------------
(* Evictions, and the theorems.                                             *)

LEMMA EvictionStep ==
  ASSUME CacheInv, TypeInv', UNCHANGED <<proc, current, clean>>, \A c \in Centers : Kept(c),
         \A c \in Centers : index' = index \/ (index' = Nil /\ evicted'[c])
  PROVE  CacheInv'
<1>1. \A c : Putting(c)' = Putting(c)
  BY DEF Putting
<1>2. ASSUME NEW c \in Centers PROVE Cleaned(c)'
  BY <1>1, StillClean DEF CacheInv
<1>3. ASSUME NEW s \in Procs PROVE PutAlone(s)' /\ GetAlone(s)'
  <2>1. CASE proc[s].pc = "idle"
    BY <2>1, Vacuous
  <2>2. CASE proc[s].pc # "idle"
    <3>1. PICK d \in Centers : d = proc[s].center
      BY <2>2, Calling DEF InCall, CacheInv
    <3> QED
      BY <1>1, <2>2, <3>1, Elsewhere
  <2> QED
    BY <2>1, <2>2
<1> QED
  BY <1>2, <1>3 DEF CacheInv

LEMMA CacheInit_Inv == CacheInit => CacheInv
<1> SUFFICES ASSUME CacheInit PROVE CacheInv
  OBVIOUS
<1>1. TypeInv
  BY CacheTypeInit
<1>2. \A p \in Procs : proc[p].pc = "idle"
  BY IdleType DEF CacheInit
<1>3. ASSUME NEW c \in Centers PROVE Cleaned(c)
  <2>1. Putting(c) = {}
    BY <1>2 DEF Putting
  <2>2. Stored(c, 0, 0)
    BY DEF Stored, Map, CacheInit
  <2> QED
    BY <2>1, <2>2, CacheAssumption DEF Cleaned, CacheInit
<1>4. \A p \in Procs : PutAlone(p) /\ GetAlone(p)
  BY <1>2 DEF PutAlone, GetAlone
<1> QED
  BY <1>1, <1>3, <1>4 DEF CacheInv

LEMMA CacheStep ==
  ASSUME \A c, d \in Centers : c = d
  PROVE  CacheInv /\ [CacheNext]_cacheVars => CacheInv'
<1> SUFFICES ASSUME CacheInv, [CacheNext]_cacheVars PROVE CacheInv'
  OBVIOUS
<1>0. TypeInv'
  BY CacheTypeStep DEF CacheInv
<1>1. CASE UNCHANGED cacheVars
  <2>1. \A c \in Centers : Kept(c)
    BY <1>1 DEF Kept, cacheVars
  <2> QED
    BY <1>0, <1>1, <2>1, EvictionStep DEF cacheVars
<1>2. ASSUME NEW p \in Procs, Return(p) \/ Die(p) PROVE CacheInv'
  BY <1>0, <1>2, IdleStep
<1>3. ASSUME NEW p \in Procs, Use(p) PROVE CacheInv'
  BY <1>0, <1>2, <1>3, StartPutStep, PutChunkStep, ReadIndexStep, WriteIndexStep, StartGetStep,
     GetIndexStep, GetChunkStep, GetEndStep DEF Use
<1>4. ASSUME NEW d \in Centers, NEW n \in Numbers, EvictChunk(d, n) PROVE CacheInv'
  <2>1. \A c \in Centers : Kept(c)
    BY <1>4, Calling DEF EvictChunk, Kept, CacheInv, TypeInv, CacheTypeOK
  <2> QED
    BY <1>0, <1>4, <2>1, EvictionStep DEF EvictChunk
<1>5. ASSUME EvictIndex PROVE CacheInv'
  <2>1. \A c \in Centers : Kept(c) /\ evicted'[c]
    BY <1>5 DEF EvictIndex, Kept
  <2> QED
    BY <1>0, <1>5, <2>1, EvictionStep DEF EvictIndex
<1> QED
  BY <1>1, <1>2, <1>3, <1>4, <1>5 DEF CacheNext

\* Whatever requests use the cache and memcache does, for any number of cost centers: the
\* entries, the index and what a request has read are what the code takes them for.
THEOREM CacheTypes == CacheSpec => []CacheTypeOK
<1>1. TypeInv => CacheTypeOK
  BY DEF TypeInv
<1> QED
  BY <1>1, CacheTypeInit, CacheTypeStep, PTL DEF CacheSpec

\* With one cost center, a get that no put overlaps, after a put that none overlapped and that
\* was served, returns the map of that put or nothing, whatever died or was lost before.
\* (Two cost centers share the index, and the theorem does not hold.)
THEOREM WholeMaps ==
  ASSUME \A c, d \in Centers : c = d
  PROVE  CacheSpec => []RetrievedAll
<1>1. CacheInv => RetrievedAll
  <2> SUFFICES ASSUME CacheInv, NEW p \in Procs, Quiet(p)
               PROVE  proc[p].result \in {current[proc[p].center], {}, Nil}
    BY DEF RetrievedAll
  <2> QED
    BY DEF CacheInv, GetAlone, Quiet
<1> QED
  BY <1>1, CacheInit_Inv, CacheStep, PTL DEF CacheSpec

\* With one cost center, such a get finds the map unless memcache has evicted an entry or not
\* served a call since the put: no entry that is left over is in its way.
THEOREM NoNeedlessMiss ==
  ASSUME \A c, d \in Centers : c = d
  PROVE  CacheSpec => []HitUnlessEvicted
<1>1. CacheInv => HitUnlessEvicted
  <2> SUFFICES ASSUME CacheInv, NEW p \in Procs, Quiet(p), ~evicted[proc[p].center]
               PROVE  proc[p].result = current[proc[p].center]
    BY DEF HitUnlessEvicted
  <2> QED
    BY DEF CacheInv, GetAlone, Quiet
<1> QED
  BY <1>1, CacheInit_Inv, CacheStep, PTL DEF CacheSpec

-----------------------------------------------------------------------------
(* The division of a map into chunks.                                       *)

\* Facts of integer division.
LEMMA Division ==
  ASSUME NEW a \in Nat, NEW b \in Nat \ {0}
  PROVE  /\ a \div b \in Nat
         /\ (a \div b) * b <= a
         /\ a < (a \div b + 1) * b
  BY SMTT(20)

LEMMA Monotone ==
  ASSUME NEW a \in Nat, NEW b \in Nat, NEW c \in Nat, a <= b
  PROVE  a * c <= b * c
  BY SMTT(20)

LEMMA Cancel ==
  ASSUME NEW a \in Nat, NEW b \in Nat, NEW c \in Nat, a * c < b * c
  PROVE  a < b
  BY SMTT(20)

LEMMA Products ==
  ASSUME NEW a \in Nat, NEW b \in Nat, NEW c \in Nat
  PROVE  /\ a * b \in Nat
         /\ (a * b) * c = (a * c) * b
         /\ (a * b) * c = a * (b * c)
         /\ a * b = b * a
  BY SMTT(20)

\* A chunk of as many rows as PerChunk allows is smaller than the limit, whatever is rounded.
LEMMA PerChunkFits ==
  ASSUME TypeOK
  PROVE  /\ PerChunk \in Nat
         /\ PerChunk * rowBytes < KB * Limit
<1>. DEFINE s == size * rowBytes
            a == s \div KB
            n == a \div Limit + 1
<1>1. /\ size \in Nat /\ rowBytes \in Nat
      /\ KB \in Nat \ {0} /\ Limit \in Nat \ {0}
  BY DivisionAssumption DEF TypeOK
<1>2. s \in Nat
  BY <1>1, Products
<1>3. a \in Nat /\ s < (a + 1) * KB
  BY <1>1, <1>2, Division
<1>4. n \in Nat \ {0} /\ a < n * Limit
  <2>. HIDE DEF a
  <2>. QED  BY <1>1, <1>3, Division
<1>5. s < n * (KB * Limit)
  <2>. HIDE DEF s, a, n
  <2>1. n * Limit \in Nat /\ a + 1 <= n * Limit
    BY <1>1, <1>3, <1>4, Products
  <2>2. (a + 1) * KB <= (n * Limit) * KB
    BY <1>1, <1>3, <2>1, Monotone
  <2>3. (n * Limit) * KB = n * (KB * Limit)
    BY <1>1, <1>4, Products
  <2>4. (a + 1) * KB \in Nat /\ n * (KB * Limit) \in Nat
    BY <1>1, <1>3, <1>4, Products
  <2>. QED  BY <1>2, <1>3, <2>2, <2>3, <2>4
<1>6. PerChunk = size \div n
  BY DEF PerChunk, NoOfChunks
<1>7. size \div n \in Nat /\ (size \div n) * n <= size
  <2>. HIDE DEF n
  <2>. QED  BY <1>1, <1>4, Division
<1>8. (size \div n) * rowBytes < KB * Limit
  <2>. DEFINE q == size \div n
  <2>. HIDE DEF s, n, q
  <2>1. q \in Nat /\ q * n \in Nat /\ q * n <= size
    BY <1>4, <1>7, Products DEF q
  <2>2. (q * n) * rowBytes <= size * rowBytes
    BY <1>1, <2>1, Monotone
  <2>3. (q * n) * rowBytes = (q * rowBytes) * n
    BY <1>1, <1>4, <2>1, Products
  <2>4. /\ q * rowBytes \in Nat /\ KB * Limit \in Nat
        /\ (q * rowBytes) * n \in Nat /\ (KB * Limit) * n \in Nat
    BY <1>1, <1>4, <2>1, Products
  <2>5. n * (KB * Limit) = (KB * Limit) * n
    BY <1>1, <1>4, <2>4, Products
  <2>6. (q * rowBytes) * n < (KB * Limit) * n
    BY <1>2, <1>5, <2>2, <2>3, <2>4, <2>5 DEF s
  <2>7. q * rowBytes < KB * Limit
    BY <1>4, <2>4, <2>6, Cancel
  <2>. QED  BY <2>7 DEF q
<1>. QED  BY <1>6, <1>7, <1>8

\* What an append does to a sequence of chunks.
LEMMA Appended ==
  ASSUME NEW c \in Chunk, chunks \in Seq(Chunk)
  PROVE  /\ Append(chunks, c) \in Seq(Chunk)
         /\ Len(chunks) \in Nat
         /\ DOMAIN chunks = 1 .. Len(chunks)
         /\ DOMAIN Append(chunks, c) = 1 .. Len(chunks) + 1
         /\ \A i \in 1 .. Len(chunks) : Append(chunks, c)[i] = chunks[i] /\ chunks[i] \in Chunk
         /\ Append(chunks, c)[Len(chunks) + 1] = c
<1>1. /\ Append(chunks, c) \in Seq(Chunk)
      /\ Len(Append(chunks, c)) = Len(chunks) + 1
      /\ \A i \in 1 .. Len(chunks) : Append(chunks, c)[i] = chunks[i]
      /\ Append(chunks, c)[Len(chunks) + 1] = c
  BY AppendProperties
<1>2. Len(chunks) \in Nat /\ DOMAIN chunks = 1 .. Len(chunks)
  BY LenProperties
<1>3. \A i \in 1 .. Len(chunks) : chunks[i] \in Chunk
  BY ElementOfSeq
<1>4. DOMAIN Append(chunks, c) = 1 .. Len(Append(chunks, c))
  BY <1>1, LenProperties
<1>. QED  BY <1>1, <1>2, <1>3, <1>4

-----------------------------------------------------------------------------

\* A chunk may be as large as PerChunk says, or hold one row.
Small(rows) == rows <= 1 \/ rows <= PerChunk

\* Where the code stands: the chunk being filled ends at the last row taken.
Position ==
    /\ counter = next - first + 1
    /\ Small(counter)
    /\ done => next = size

\* The rows taken are in the chunks, or in the one being filled.
Covered == \A j \in 1 .. next :
    \/ ~done /\ first <= j
    \/ \E i \in DOMAIN chunks : In(j, chunks[i])

\* The chunks lie one after the other, before the one being filled.
Ordered ==
    /\ \A i, k \in DOMAIN chunks : i < k => chunks[i].last < chunks[k].first
    /\ ~done => \A i \in DOMAIN chunks : chunks[i].last < first

SmallChunks == \A i \in DOMAIN chunks : Small(Rows(chunks[i]))

Inv == TypeOK /\ Position /\ Covered /\ Ordered /\ SmallChunks

LEMMA InitInv == Init => Inv
<1>. SUFFICES ASSUME Init PROVE Inv
  OBVIOUS
<1>1. size \in Nat /\ rowBytes \in RowSizes /\ next = 0 /\ first = 1 /\ counter = 0 /\ chunks = <<>> /\ done = FALSE
  BY DivisionAssumption DEF Init
<1>2. <<>> \in Seq(Chunk) /\ DOMAIN <<>> = {}
  BY EmptySeq, SMT
<1>3. TypeOK
  <2>1. size \in 0 .. MaxRows
    BY DEF Init
  <2>2. next \in 0 .. size /\ first \in 1 .. size + 1 /\ counter \in Nat
    BY <1>1
  <2>3. chunks \in Seq(Chunk)
    BY <1>1, <1>2
  <2>4. done \in BOOLEAN
    BY DEF Init
  <2>. QED  BY <1>1, <2>1, <2>2, <2>3, <2>4 DEF TypeOK
<1>4. Position /\ Covered
  BY <1>1 DEF Position, Covered, Small
<1>5. Ordered /\ SmallChunks
  BY <1>1, <1>2 DEF Ordered, SmallChunks
<1>. QED  BY <1>3, <1>4, <1>5 DEF Inv

\* PerChunk does not change: the size of the map and of its rows do not.
LEMMA SameLimit ==
  ASSUME size' = size, rowBytes' = rowBytes
  PROVE  PerChunk' = PerChunk
  BY DEF PerChunk, NoOfChunks

LEMMA NextInv == Inv /\ [Next]_vars => Inv'
<1>. SUFFICES ASSUME Inv, [Next]_vars PROVE Inv'
  OBVIOUS
<1>. USE DEF Inv
<1>1. /\ size \in Nat /\ next \in Nat /\ first \in Nat \ {0} /\ counter \in Nat
      /\ next <= size /\ counter = next - first + 1
      /\ chunks \in Seq(Chunk)
  BY DivisionAssumption DEF TypeOK, Position
<1>2. PerChunk \in Nat
  BY PerChunkFits
<1>3. Filling \in Chunk
  BY <1>1 DEF Filling, Chunk
<1>4. CASE AddRow
  <2>1. /\ ~done /\ next < size /\ counter < PerChunk
        /\ next' = next + 1 /\ counter' = counter + 1
        /\ size' = size /\ rowBytes' = rowBytes /\ first' = first /\ chunks' = chunks /\ done' = done
        /\ PerChunk' = PerChunk
    BY <1>4, SameLimit DEF AddRow
  <2>2. TypeOK'
    BY <1>1, <2>1 DEF TypeOK
  <2>3. Position'
    BY <1>1, <1>2, <2>1 DEF Position, Small
  <2>4. Covered'
    <3>. SUFFICES ASSUME NEW j \in 1 .. next + 1, j < first
                  PROVE  \E i \in DOMAIN chunks : In(j, chunks[i])
      BY <1>1, <2>1 DEF Covered, In
    <3>1. j \in 1 .. next
      BY <1>1
    <3>. QED  BY <1>1, <3>1 DEF Covered
  <2>5. Ordered' /\ SmallChunks'
    BY <2>1 DEF Ordered, SmallChunks, Small, Rows
  <2>. QED  BY <2>2, <2>3, <2>4, <2>5
<1>5. CASE NewChunk
  <2>1. /\ ~done /\ next < size /\ counter >= PerChunk
        /\ next' = next + 1 /\ first' = next + 1 /\ counter' = 1
        /\ chunks' = Append(chunks, Filling)
        /\ size' = size /\ rowBytes' = rowBytes /\ done' = done
        /\ PerChunk' = PerChunk
    BY <1>5, SameLimit DEF NewChunk
  <2>. DEFINE l == Len(chunks)
  <2>2. /\ chunks' \in Seq(Chunk) /\ l \in Nat
        /\ DOMAIN chunks = 1 .. l /\ DOMAIN chunks' = 1 .. l + 1
        /\ \A i \in 1 .. l : chunks'[i] = chunks[i] /\ chunks[i] \in Chunk
        /\ chunks'[l + 1] = Filling
    BY <1>1, <1>3, <2>1, Appended
  <2>. HIDE DEF l
  <2>3. Filling.first = first /\ Filling.last = next
    BY DEF Filling
  <2>4. TypeOK'
    BY <1>1, <2>1, <2>2 DEF TypeOK
  <2>5. Position'
    BY <1>1, <1>2, <2>1 DEF Position, Small
  <2>6. Covered'
    <3>. SUFFICES ASSUME NEW j \in 1 .. next
                  PROVE  \E i \in 1 .. l + 1 : In(j, chunks'[i])
      BY <1>1, <2>1, <2>2 DEF Covered
    <3>1. CASE first <= j
      BY <1>1, <2>2, <2>3, <3>1 DEF In
    <3>2. CASE \E i \in DOMAIN chunks : In(j, chunks[i])
      <4>1. PICK i \in 1 .. l : In(j, chunks[i])
        BY <2>2, <3>2
      <4>2. chunks'[i] = chunks[i] /\ i \in 1 .. l + 1
        BY <2>2
      <4>. QED  BY <4>1, <4>2
    <3>. QED  BY <3>1, <3>2 DEF Covered
  <2>7. Ordered'
    <3>1. \A i \in 1 .. l : chunks[i].last < first /\ chunks[i].last \in Nat
      BY <2>1, <2>2 DEF Ordered, Chunk
    <3>2. ASSUME NEW i \in 1 .. l + 1, NEW k \in 1 .. l + 1, i < k
          PROVE  chunks'[i].last < chunks'[k].first
      <4>1. i \in 1 .. l
        BY <2>2, <3>2
      <4>2. CASE k = l + 1
        BY <2>2, <2>3, <3>1, <4>1, <4>2
      <4>3. CASE k \in 1 .. l
        BY <2>2, <3>2, <4>1, <4>3 DEF Ordered
      <4>. QED  BY <2>2, <4>2, <4>3
    <3>3. ASSUME NEW i \in 1 .. l + 1
          PROVE  chunks'[i].last < next + 1
      <4>1. CASE i = l + 1
        BY <1>1, <2>2, <2>3, <4>1
      <4>2. CASE i \in 1 .. l
        BY <1>1, <2>2, <3>1, <4>2
      <4>. QED  BY <2>2, <4>1, <4>2
    <3>. QED  BY <2>1, <2>2, <3>2, <3>3 DEF Ordered
  <2>8. SmallChunks'
    <3>. SUFFICES ASSUME NEW i \in 1 .. l + 1
                  PROVE  Small(Rows(chunks'[i]))
      BY <2>1, <2>2 DEF SmallChunks, Small
    <3>1. CASE i = l + 1
      <4>1. Rows(chunks'[i]) = counter
        BY <1>1, <2>2, <2>3, <3>1 DEF Rows
      <4>. QED  BY <4>1 DEF Position
    <3>2. CASE i \in 1 .. l
      BY <2>2, <3>2 DEF SmallChunks
    <3>. QED  BY <2>2, <3>1, <3>2
  <2>. QED  BY <2>4, <2>5, <2>6, <2>7, <2>8
<1>6. CASE Finish
  <2>1. /\ ~done /\ next = size /\ done' = TRUE
        /\ chunks' = IF counter > 0 THEN Append(chunks, Filling) ELSE chunks
        /\ size' = size /\ rowBytes' = rowBytes /\ next' = next /\ first' = first /\ counter' = counter
        /\ PerChunk' = PerChunk
    BY <1>6, SameLimit DEF Finish
  <2>2. Position'
    BY <2>1 DEF Position, Small
  <2>3. CASE counter > 0
    <3>. DEFINE l == Len(chunks)
    <3>1. /\ chunks' \in Seq(Chunk) /\ l \in Nat
          /\ DOMAIN chunks = 1 .. l /\ DOMAIN chunks' = 1 .. l + 1
          /\ \A i \in 1 .. l : chunks'[i] = chunks[i] /\ chunks[i] \in Chunk
          /\ chunks'[l + 1] = Filling
      BY <1>1, <1>3, <2>1, <2>3, Appended
    <3>. HIDE DEF l
    <3>2. Filling.first = first /\ Filling.last = next
      BY DEF Filling
    <3>3. TypeOK'
      BY <1>1, <2>1, <3>1 DEF TypeOK
    <3>4. Covered'
      <4>. SUFFICES ASSUME NEW j \in 1 .. next
                    PROVE  \E i \in 1 .. l + 1 : In(j, chunks'[i])
        BY <2>1, <3>1 DEF Covered
      <4>1. CASE first <= j
        BY <1>1, <3>1, <3>2, <4>1 DEF In
      <4>2. CASE \E i \in DOMAIN chunks : In(j, chunks[i])
        <5>1. PICK i \in 1 .. l : In(j, chunks[i])
          BY <3>1, <4>2
        <5>2. chunks'[i] = chunks[i] /\ i \in 1 .. l + 1
          BY <3>1
        <5>. QED  BY <5>1, <5>2
      <4>. QED  BY <4>1, <4>2 DEF Covered
    <3>5. Ordered'
      <4>1. \A i \in 1 .. l : chunks[i].last < first
        BY <2>1, <3>1 DEF Ordered
      <4>2. ASSUME NEW i \in 1 .. l + 1, NEW k \in 1 .. l + 1, i < k
            PROVE  chunks'[i].last < chunks'[k].first
        <5>1. i \in 1 .. l
          BY <3>1, <4>2
        <5>2. CASE k = l + 1
          BY <3>1, <3>2, <4>1, <5>1, <5>2
        <5>3. CASE k \in 1 .. l
          BY <3>1, <4>2, <5>1, <5>3 DEF Ordered
        <5>. QED  BY <3>1, <5>2, <5>3
      <4>. QED  BY <2>1, <3>1, <4>2 DEF Ordered
    <3>6. SmallChunks'
      <4>. SUFFICES ASSUME NEW i \in 1 .. l + 1
                    PROVE  Small(Rows(chunks'[i]))
        BY <2>1, <3>1 DEF SmallChunks, Small
      <4>1. CASE i = l + 1
        <5>1. Rows(chunks'[i]) = counter
          BY <1>1, <3>1, <3>2, <4>1 DEF Rows
        <5>. QED  BY <5>1 DEF Position
      <4>2. CASE i \in 1 .. l
        BY <3>1, <4>2 DEF SmallChunks
      <4>. QED  BY <3>1, <4>1, <4>2
    <3>. QED  BY <2>2, <3>3, <3>4, <3>5, <3>6
  <2>4. CASE counter = 0
    <3>1. chunks' = chunks /\ first = next + 1
      BY <1>1, <2>1, <2>4
    <3>2. TypeOK'
      BY <2>1, <3>1 DEF TypeOK
    <3>3. Covered'
      BY <1>1, <2>1, <3>1 DEF Covered
    <3>4. Ordered' /\ SmallChunks'
      BY <2>1, <3>1 DEF Ordered, SmallChunks, Small
    <3>. QED  BY <2>2, <3>2, <3>3, <3>4
  <2>. QED  BY <1>1, <2>3, <2>4
<1>7. CASE UNCHANGED vars
  <2>1. /\ size' = size /\ rowBytes' = rowBytes /\ next' = next /\ first' = first
        /\ counter' = counter /\ chunks' = chunks /\ done' = done
        /\ PerChunk' = PerChunk
    BY <1>7, SameLimit DEF vars
  <2>2. TypeOK' /\ Position'
    BY <2>1 DEF TypeOK, Position, Small
  <2>3. Covered' /\ Ordered' /\ SmallChunks'
    BY <2>1 DEF Covered, Ordered, SmallChunks, Small
  <2>. QED  BY <2>2, <2>3
<1>. QED  BY <1>4, <1>5, <1>6, <1>7 DEF Next

THEOREM Invariance == Spec => []Inv
  BY InitInv, NextInv, PTL DEF Spec

\* The division is well formed, for maps of any size.
THEOREM TypeCorrect == Spec => []TypeOK
<1>1. Inv => TypeOK
  BY DEF Inv
<1>. QED  BY <1>1, Invariance, PTL

\* No row is lost and none is kept twice, however the sizes round: a get that finds all the
\* chunks of a map finds the map (divideToChunks).
THEOREM RowsAreKeptOnce == Spec => []EachRowOnce
<1>1. Inv => EachRowOnce
  <2>. SUFFICES ASSUME Inv, done, NEW j \in 1 .. size
                PROVE  \E i \in DOMAIN chunks : /\ In(j, chunks[i])
                                                /\ \A k \in DOMAIN chunks : In(j, chunks[k]) => k = i
    BY DEF EachRowOnce
  <2>1. PICK i \in DOMAIN chunks : In(j, chunks[i])
    BY DEF Inv, Position, Covered
  <2>2. /\ DOMAIN chunks \subseteq Nat
        /\ \A k \in DOMAIN chunks : chunks[k].first \in Nat /\ chunks[k].last \in Nat
    <3>1. chunks \in Seq(Chunk)
      BY DEF Inv, TypeOK
    <3>2. DOMAIN chunks = 1 .. Len(chunks) /\ \A k \in 1 .. Len(chunks) : chunks[k] \in Chunk
      BY <3>1, LenProperties, ElementOfSeq
    <3>. QED  BY <3>2 DEF Chunk
  <2>3. ASSUME NEW k \in DOMAIN chunks, In(j, chunks[k])
        PROVE  k = i
    <3>1. ~(i < k)
      BY <2>1, <2>2, <2>3 DEF Inv, Ordered, In
    <3>2. ~(k < i)
      BY <2>1, <2>2, <2>3 DEF Inv, Ordered, In
    <3>. QED  BY <2>2, <3>1, <3>2
  <2>. QED  BY <2>1, <2>3
<1>. QED  BY <1>1, Invariance, PTL

\* Every chunk stays under the limit the code aims at, unless a single row is larger: the
\* rounding of the number of chunks and of rows in each never makes one too large
\* (divideToChunks, for rows of the same size).
THEOREM ChunksFit == Spec => []Fits
<1>1. Inv => Fits
  <2>. SUFFICES ASSUME Inv, NEW i \in DOMAIN chunks, ~(Rows(chunks[i]) <= 1)
                PROVE  Rows(chunks[i]) * rowBytes < KB * Limit
    BY DEF Fits
  <2>. DEFINE r == Rows(chunks[i])
  <2>1. chunks[i] \in Chunk
    BY LenProperties, ElementOfSeq DEF Inv, TypeOK
  <2>2. r \in Nat /\ r <= PerChunk
    BY <2>1 DEF Inv, SmallChunks, Small, Rows, Chunk
  <2>3. PerChunk \in Nat /\ PerChunk * rowBytes < KB * Limit
    BY PerChunkFits DEF Inv
  <2>. HIDE DEF r
  <2>4. rowBytes \in Nat /\ KB \in Nat /\ Limit \in Nat
    BY DivisionAssumption DEF Inv, TypeOK
  <2>5. r * rowBytes <= PerChunk * rowBytes
    BY <2>2, <2>3, <2>4, Monotone
  <2>6. r * rowBytes \in Nat /\ PerChunk * rowBytes \in Nat /\ KB * Limit \in Nat
    BY <2>2, <2>3, <2>4, Products
  <2>7. r * rowBytes < KB * Limit
    BY <2>3, <2>5, <2>6
  <2>. QED  BY <2>7 DEF r
<1>. QED  BY <1>1, Invariance, PTL
=============================================================================
