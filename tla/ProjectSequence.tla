--------------------------- MODULE ProjectSequence ---------------------------
(***************************************************************************)
(* The generator of provisional gMemori ids (ProjectSequenceGeneratorUtil).*)
(*                                                                         *)
(* nextValue() is synchronized on the generator object. Each servlet that  *)
(* needs ids owns a generator (StoreReport:47, FactSheetUploadServlet:38,  *)
(* PODetailsUpload:37), and App Engine runs the servlets in any number of  *)
(* instances, so the calls of one generator exclude each other and the     *)
(* calls of two generators do not. The counter is a datastore entity that  *)
(* is read by a query outside the transaction that writes it back.         *)
(***************************************************************************)
EXTENDS Integers, Sequences, FiniteSets

CONSTANTS
    Callers,     \* concurrent requests that call nextValue()
    Generators,  \* generator objects, one per servlet and per instance
    GenOf,       \* GenOf[c]: the generator whose lock request c takes
    Start,       \* initial value of the counter (1000000000 in the code)
    MaxValue,    \* bound of the model: no call starts beyond this counter value
    MaxIssued,   \* bound of the model: no call starts after this many ids
    NoCaller     \* "the lock is free"

ASSUME SequenceAssumption ==
    /\ GenOf \in [Callers -> Generators]
    /\ Start \in Nat
    /\ MaxValue \in Nat
    /\ MaxIssued \in Nat
    /\ NoCaller \notin Callers

VARIABLES
    counters,    \* the ProjectSequence entities: counters[k] is the value of the k-th created
    lock,        \* lock[g]: the call that runs nextValue() on generator g
    pc,          \* pc[c]: where call c is
    val,         \* val[c]: the value c read, extractSequenceValue's result
    overtaken,   \* overtaken[c]: another commit hit the entity group since c's transaction began
    issued       \* history: the values returned by nextValue(), in the order of return

vars == <<counters, lock, pc, val, overtaken, issued>>

Steps == {"idle", "query", "create", "commitCreate", "requery", "write", "commitWrite"}

TypeOK ==
    /\ counters \in Seq(Nat)
    /\ lock \in [Generators -> Callers \cup {NoCaller}]
    /\ pc \in [Callers -> Steps]
    /\ val \in [Callers -> Nat]
    /\ overtaken \in [Callers -> BOOLEAN]
    /\ issued \in Seq(Nat)

Init ==
    /\ counters = <<>>
    /\ lock = [g \in Generators |-> NoCaller]
    /\ pc = [c \in Callers |-> "idle"]
    /\ val = [c \in Callers |-> 0]
    /\ overtaken = [c \in Callers |-> FALSE]
    /\ issued = <<>>

-----------------------------------------------------------------------------
(* The datastore: transactions on one entity group are optimistic. A commit *)
(* fails when another commit hit the group since the transaction began.     *)

InTransaction(c) == pc[c] \in {"commitCreate", "commitWrite"}

BeginTransaction(c) == overtaken' = [overtaken EXCEPT ![c] = FALSE]

Overtake(c) ==
    overtaken' = [d \in Callers |-> overtaken[d] \/ (d # c /\ InTransaction(d))]

-----------------------------------------------------------------------------
(* nextValue(), one action per datastore call it makes.                     *)

\* Leaving the synchronized method, by return or by exception.
Leave(c) ==
    /\ lock' = [lock EXCEPT ![GenOf[c]] = NoCaller]
    /\ pc' = [pc EXCEPT ![c] = "idle"]

\* nextValue() enters the monitor of its generator.
Enter(c) ==
    /\ pc[c] = "idle"
    /\ lock[GenOf[c]] = NoCaller
    /\ \A k \in DOMAIN counters : counters[k] < MaxValue
    /\ Len(issued) < MaxIssued
    /\ lock' = [lock EXCEPT ![GenOf[c]] = c]
    /\ pc' = [pc EXCEPT ![c] = "query"]
    /\ UNCHANGED <<counters, val, overtaken, issued>>

\* Mutation of QueryNone: a counter that is not there is not created, it counts as -1.
QueryNoneIsMinusOne(c) ==
    /\ pc[c] = "query"
    /\ counters = <<>>
    /\ val' = [val EXCEPT ![c] = -1]
    /\ pc' = [pc EXCEPT ![c] = "write"]
    /\ UNCHANGED <<counters, lock, overtaken, issued>>

\* getSequenceEntity() finds nothing: the counter has to be created.
QueryNone(c) ==
    /\ pc[c] = "query"
    /\ counters = <<>>
    /\ pc' = [pc EXCEPT ![c] = "create"]
    /\ UNCHANGED <<counters, lock, val, overtaken, issued>>

\* getSequenceEntity() finds the counter; its value is extracted.
QueryOne(c) ==
    /\ pc[c] \in {"query", "requery"}
    /\ Len(counters) = 1
    /\ val' = [val EXCEPT ![c] = counters[1]]
    /\ pc' = [pc EXCEPT ![c] = "write"]
    /\ UNCHANGED <<counters, lock, overtaken, issued>>

\* createProjectSequence(): begin, put a new entity with a generated key ...
BeginCreate(c) ==
    /\ pc[c] = "create"
    /\ BeginTransaction(c)
    /\ pc' = [pc EXCEPT ![c] = "commitCreate"]
    /\ UNCHANGED <<counters, lock, val, issued>>

\* ... and commit.
CommitCreate(c) ==
    /\ pc[c] = "commitCreate"
    /\ ~overtaken[c]
    /\ counters' = Append(counters, Start)
    /\ Overtake(c)
    /\ pc' = [pc EXCEPT ![c] = "requery"]
    /\ UNCHANGED <<lock, val, issued>>

\* A commit that times out may have been applied: the counter is there, the call has failed.
CreateLost(c) ==
    /\ pc[c] = "commitCreate"
    /\ ~overtaken[c]
    /\ counters' = Append(counters, Start)
    /\ Overtake(c)
    /\ Leave(c)
    /\ UNCHANGED <<val, issued>>

\* incrementSequence(): begin and put the entity that was read before ...
BeginWrite(c) ==
    /\ pc[c] = "write"
    /\ BeginTransaction(c)
    /\ pc' = [pc EXCEPT ![c] = "commitWrite"]
    /\ UNCHANGED <<counters, lock, val, issued>>

\* Mutation of CommitWrite: val++ instead of ++val, the old value is written back.
WriteOldValue(c) ==
    /\ pc[c] = "commitWrite"
    /\ ~overtaken[c]
    /\ counters' = [counters EXCEPT ![1] = val[c]]
    /\ Overtake(c)
    /\ issued' = Append(issued, val[c] + 1)
    /\ Leave(c)
    /\ UNCHANGED val

\* ... commit, and return the incremented value. The entity keeps the key it was
\* read with, so it is the first one.
CommitWrite(c) ==
    /\ pc[c] = "commitWrite"
    /\ ~overtaken[c]
    /\ counters' = [counters EXCEPT ![1] = val[c] + 1]
    /\ Overtake(c)
    /\ issued' = Append(issued, val[c] + 1)
    /\ Leave(c)
    /\ UNCHANGED val

\* Any datastore call may throw; the finally block rolls back and the exception
\* leaves nextValue(). It is all that is left to an overtaken commit, and to a query
\* that finds more than one counter, on which asSingleEntity() throws.
Throw(c) ==
    /\ pc[c] # "idle"
    /\ Leave(c)
    /\ UNCHANGED <<counters, val, overtaken, issued>>

\* The same for the commit of the new value: the value is skipped.
CommitLost(c) ==
    /\ pc[c] = "commitWrite"
    /\ ~overtaken[c]
    /\ counters' = [counters EXCEPT ![1] = val[c] + 1]
    /\ Overtake(c)
    /\ Leave(c)
    /\ UNCHANGED <<val, issued>>

Next ==
    \E c \in Callers :
        \/ Enter(c)
        \/ QueryNone(c) \/ QueryOne(c)
        \/ BeginCreate(c) \/ CommitCreate(c) \/ CreateLost(c)
        \/ BeginWrite(c) \/ CommitWrite(c) \/ CommitLost(c)
        \/ Throw(c)

Spec == Init /\ [][Next]_vars

-----------------------------------------------------------------------------
(* Properties.                                                              *)

\* Every id nextValue() returns is larger than all it returned before: no two
\* projects get the same provisional gMemori id, whatever fails in between. It
\* holds when one generator serves all requests, and only then.
IdsIncrease ==
    \A i, j \in DOMAIN issued : i < j => issued[i] < issued[j]

\* The id a caller is given is one no caller has been given, what nextValue() is for:
\* "ancestor query doesn't need trans" (ProjectSequenceGeneratorUtil:61).
UniqueIds ==
    \A i, j \in DOMAIN issued : i # j => issued[i] # issued[j]

=============================================================================
