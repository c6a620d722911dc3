---------------------------- MODULE ChunkDivision ----------------------------
(***************************************************************************)
(* How a map is cut into chunks (CostCenterCacheUtil.divideToChunks): as   *)
(* many as its serialized size asks for, of the same number of rows. Rows  *)
(* are numbered in the order of the keys; a chunk holds the rows from its  *)
(* first to its last. All rows of a map have the same serialized size here *)
(* and the overhead of serialization is left out.                          *)
(***************************************************************************)
EXTENDS Integers, Sequences

CONSTANTS
    KB,          \* bytes of a kilobyte (1024 in the code)
    Limit,       \* kilobytes of a chunk (800 in the code)
    MaxRows,     \* bound of the model: rows of a map
    RowSizes     \* serialized sizes of a row, in bytes

ASSUME DivisionAssumption ==
    /\ KB \in Nat \ {0}
    /\ Limit \in Nat \ {0}
    /\ MaxRows \in Nat
    /\ RowSizes \subseteq Nat

VARIABLES
    size,        \* rows of the map
    rowBytes,    \* size of each
    next,        \* rows taken from the map so far; the last row of the chunk being filled
    first,       \* first row of the chunk being filled
    counter,     \* rows of it
    chunks,      \* the chunks that are full
    done

vars == <<size, rowBytes, next, first, counter, chunks, done>>

Chunk == [first : Nat, last : Nat]

TypeOK ==
    /\ size \in 0 .. MaxRows
    /\ rowBytes \in RowSizes
    /\ next \in 0 .. size
    /\ first \in 1 .. size + 1
    /\ counter \in Nat
    /\ chunks \in Seq(Chunk)
    /\ done \in BOOLEAN

NoOfChunks == ((size * rowBytes) \div KB) \div Limit + 1

\* Mutant of PerChunk: rounded up.
PerChunkUp == size \div NoOfChunks + 1

\* numberOfEntitiesInOneMap: zero when there are fewer rows than chunks.
PerChunk == size \div NoOfChunks

Init ==
    /\ size \in 0 .. MaxRows
    /\ rowBytes \in RowSizes
    /\ next = 0
    /\ first = 1
    /\ counter = 0
    /\ chunks = <<>>
    /\ done = FALSE

Filling == [first |-> first, last |-> next]

\* The next row goes into the chunk being filled ...
AddRow ==
    /\ ~done
    /\ next < size
    /\ counter < PerChunk
    /\ next' = next + 1
    /\ counter' = counter + 1
    /\ UNCHANGED <<size, rowBytes, first, chunks, done>>

\* ... or begins another one. With no row per chunk the first chunk is empty.
NewChunk ==
    /\ ~done
    /\ next < size
    /\ counter >= PerChunk
    /\ chunks' = Append(chunks, Filling)
    /\ first' = next + 1
    /\ next' = next + 1
    /\ counter' = 1
    /\ UNCHANGED <<size, rowBytes, done>>

\* Mutant of Finish: the last chunk is added only when it is full.
FinishFull ==
    /\ ~done
    /\ next = size
    /\ chunks' = IF counter > 0 /\ counter = PerChunk THEN Append(chunks, Filling) ELSE chunks
    /\ done' = TRUE
    /\ UNCHANGED <<size, rowBytes, next, first, counter>>

\* The chunk being filled is added unless it is empty.
Finish ==
    /\ ~done
    /\ next = size
    /\ chunks' = IF counter > 0 THEN Append(chunks, Filling) ELSE chunks
    /\ done' = TRUE
    /\ UNCHANGED <<size, rowBytes, next, first, counter>>

Next == AddRow \/ NewChunk \/ Finish

Spec == Init /\ [][Next]_vars

-----------------------------------------------------------------------------

In(j, c) == c.first <= j /\ j <= c.last
Rows(c) == c.last - c.first + 1

\* Every row of the map is in exactly one chunk: a get that finds all chunks finds all rows.
EachRowOnce == done => \A j \in 1 .. size : \E i \in DOMAIN chunks :
    /\ In(j, chunks[i])
    /\ \A k \in DOMAIN chunks : In(j, chunks[k]) => k = i

\* Memcache refuses entries of more than one megabyte. A chunk stays under the limit the code
\* aims at, unless a single row is larger.
Fits == done => \A i \in DOMAIN chunks :
    Rows(chunks[i]) <= 1 \/ Rows(chunks[i]) * rowBytes < KB * Limit

=============================================================================
