----------------------------- MODULE ReportStore -----------------------------
(***************************************************************************)
(* The project rows of one cost center: datastore entities, the memcache   *)
(* copy every request reads, and the asynchronous writer.                  *)
(*                                                                         *)
(* A request of a servlet loads all rows through the cache                 *)
(* (DBUtil.getAllReportDataFromCache), changes some of them, and posts     *)
(* them to /ansycStoreGtfReports without waiting (urlFetchService          *)
(* .fetchAsync). Each post is handled by AsyncJDODatastore: it reads the   *)
(* cached map, persists or deletes the posted rows, and puts the whole map *)
(* back. AutoSaveData also puts its own map back before it posts. Nothing  *)
(* is locked: all steps below interleave.                                  *)
(*                                                                         *)
(* A get or put of the cost center's map is one step here; the chunks it   *)
(* is made of are the subject of CostCenterCache. What a row contains is   *)
(* abstracted to its status, its family and the last request that wrote it.*)
(***************************************************************************)
EXTENDS FiniteSets

CONSTANTS
    Ids,         \* gMemori ids
    Requests,    \* saves by users or by the study system, each run once
    Extends,     \* Extends[i]: the ids whose text contains i (id, id.1, ...)
    StudyId,     \* StudyId[i]: the id the study system gives to i on initiation
    Dotted,      \* the ids of brands of a multi-brand project (id.1, ...)
    Root,        \* Root[d]: the project whose brand d is (id of id.1, ...)
    Seeds,       \* Seeds[i] = kids of a row stored before, NoRow where there is none
    Ops,         \* the operations the requests of this instance perform
    Serial,      \* TRUE: a request starts when all before it have settled
    WarmCache,   \* TRUE: the seeds are cached initially
    Evicts,      \* what memcache may evict: the index of the cost centers, a chunk
    Loses,       \* TRUE: a post may be lost, a writer or request may die
    NoRow,       \* the null reference
    NoKey        \* the null Id of a row that has not been persisted

Status == {"New", "Active", "Disabled"}
Kinds == {"delete", "append"}
Keys == (Requests \cup {"seed"}) \X Ids
Row == [key : Keys \cup {NoKey}, st : Status, kids : SUBSET Ids, by : Requests \cup {"seed"}]
Map == [Ids -> {NoRow} \cup Row]
EmptyMap == [i \in Ids |-> NoRow]
Entity == [id : Ids, row : Row]

ASSUME ReportStoreAssumption ==
    /\ Extends \in [Ids -> SUBSET Ids]
    /\ \A i \in Ids : i \in Extends[i]
    /\ StudyId \in [Ids -> Ids]
    /\ Dotted \subseteq Ids
    /\ Root \in [Dotted -> Ids \ Dotted]
    /\ Seeds \in [Ids -> {NoRow} \cup SUBSET Ids]
    /\ Ops \subseteq {"create", "edit", "brand", "disable", "initiate", "regroup"}
    /\ {Serial, WarmCache, Loses} \subseteq BOOLEAN
    /\ Evicts \subseteq {"index", "chunk"}
    /\ "seed" \notin Requests
    /\ NoKey \notin Keys
    /\ NoRow \notin Ids \cup Row \cup Entity \cup [st : Status, kids : SUBSET Ids, by : Requests \cup {"seed"}]

\* How ids are given. Initiation renames i.n to j.n when it renames i to j (the text up to the
\* first dot is replaced); the study system gives an id that no other project has or had.
ASSUME IdsAssumption ==
    /\ \A d \in Dotted : StudyId[d] \in Dotted /\ Root[StudyId[d]] = StudyId[Root[d]]
    /\ \A d \in Dotted : StudyId[Root[d]] = Root[d] => StudyId[d] = d
    /\ \A i \in Ids \ Dotted : StudyId[i] \notin Dotted
    /\ \A i \in Ids : StudyId[i] # i => Seeds[StudyId[i]] = NoRow
    /\ \A i \in Ids : StudyId[StudyId[i]] = StudyId[i]
    /\ \A i, j \in Ids : StudyId[i] = StudyId[j] => i = j \/ StudyId[i] \in {i, j}
    /\ \A d \in Dotted : Seeds[d] # NoRow => Seeds[Root[d]] # NoRow

VARIABLES
    store,   \* store[k]: the entity with key k: its gMemori id and its row
    cache,   \* the map memcache holds for the cost center
    holed,   \* a chunk of it was evicted: a get returns null, not the empty map
    req,     \* req[r]: the state of request r
    task     \* task[r][kind]: the post of that kind that r made

vars == <<store, cache, holed, req, task>>

Request == [pc : {"idle", "get", "query", "fill", "apply", "sendDelete", "put", "send", "done"},
            op : Ops \cup {"none"}, id : Ids \cup {NoRow}, map : Map, rows : Map,
            old : Ids \cup {NoRow}, again : BOOLEAN, null : BOOLEAN,
            twins : SUBSET Ids, gone : SUBSET (Keys \cup {NoKey})]

\* again: the map is loaded a second time.  null: a null is posted among the rows.
\* What r did, for the properties.  twins: ids of the map r posted as new brands.
\* gone: keys of the rows r posted for deletion.

Task == [state : {"none", "sent", "persist", "put", "done"},
         rows : Map, old : Ids \cup {NoRow}, map : Map, null : BOOLEAN]

TypeOK ==
    /\ store \in [Keys -> {NoRow} \cup Entity]
    /\ cache \in Map
    /\ holed \in BOOLEAN
    /\ req \in [Requests -> Request]
    /\ task \in [Requests -> [Kinds -> Task]]

NoTask == [state |-> "none", rows |-> EmptyMap, old |-> NoRow, map |-> EmptyMap, null |-> FALSE]

SeedRow(i) == [key |-> <<"seed", i>>, st |-> "New", kids |-> Seeds[i], by |-> "seed"]
SeedMap == [i \in Ids |-> IF Seeds[i] = NoRow THEN NoRow ELSE SeedRow(i)]

Init ==
    /\ store = [k \in Keys |->
         IF k[1] = "seed" /\ Seeds[k[2]] # NoRow THEN [id |-> k[2], row |-> SeedRow(k[2])]
         ELSE NoRow]
    /\ cache = IF WarmCache THEN SeedMap ELSE EmptyMap
    /\ holed = FALSE
    /\ req = [r \in Requests |->
         [pc |-> "idle", op |-> "none", id |-> NoRow, map |-> EmptyMap, rows |-> EmptyMap,
          old |-> NoRow, again |-> FALSE, null |-> FALSE, twins |-> {}, gone |-> {}]]
    /\ task = [r \in Requests |-> [k \in Kinds |-> NoTask]]

-----------------------------------------------------------------------------
(* Maps of rows.                                                            *)

Present(m) == {i \in Ids : m[i] # NoRow}

\* getReportDataByStatus(): the rows that are not disabled.
Visible(m) == [i \in Ids |-> IF i \in Present(m) /\ m[i].st # "Disabled" THEN m[i] ELSE NoRow]

\* putAll
Over(m, n) == [i \in Ids |-> IF n[i] # NoRow THEN n[i] ELSE m[i]]

Without(m, S) == [i \in Ids |-> IF i \in S THEN NoRow ELSE m[i]]

Only(m, S) == [i \in Ids |-> IF i \in S THEN m[i] ELSE NoRow]

\* The query of getReport(): the live entities, one per gMemori id.
LiveKeys(i) == {k \in Keys : store[k] # NoRow /\ store[k].id = i /\ store[k].row.st # "Disabled"}
LiveMap == [i \in Ids |->
    IF LiveKeys(i) = {} THEN NoRow ELSE store[CHOOSE k \in LiveKeys(i) : TRUE].row]

Settled ==
    /\ \A r \in Requests : req[r].pc \in {"idle", "done"}
    /\ \A r \in Requests, k \in Kinds : task[r][k].state \in {"none", "done"}

\* An id that the generator or the study system has not given out before.
Fresh(i) ==
    /\ i \notin Dotted
    /\ Seeds[i] = NoRow
    /\ \A j \in Ids \ {i} : StudyId[j] # i
    /\ \A r \in Requests : ~(req[r].op = "create" /\ req[r].id = i)

-----------------------------------------------------------------------------
(* A request: load the map.                                                 *)

Goto(r, pc) == req' = [req EXCEPT ![r] = [@ EXCEPT !.pc = pc]]

\* The local variables of a handler die with it.
Ended(r) == [req[r] EXCEPT !.pc = "done", !.map = EmptyMap, !.rows = EmptyMap, !.old = NoRow,
                           !.null = FALSE]
Finish(r) == req' = [req EXCEPT ![r] = Ended(r)]

Ready(r) == req[r].pc = "idle" /\ (Serial => Settled)

\* StoreReport: a new project gets a fresh id and its brands are named after it. They are
\* posted without loading the map.
Create(r) ==
    /\ Ready(r)
    /\ "create" \in Ops
    /\ \E i \in Ids :
       /\ Fresh(i)
       /\ \E brands \in SUBSET {d \in Dotted : Root[d] = i}, st \in {"New", "Active"} :
          LET kids == IF brands = {} THEN {} ELSE {i} \cup brands
              row == [key |-> NoKey, st |-> st, kids |-> kids, by |-> r]
          IN  req' = [req EXCEPT ![r] =
                [@ EXCEPT !.op = "create", !.id = i, !.pc = "send",
                          !.rows = [j \in Ids |-> IF j \in kids \cup {i} THEN row ELSE NoRow]]]
    /\ UNCHANGED <<store, cache, holed, task>>

\* Every other operation names a project the user may see on a page loaded long ago.
Submit(r) ==
    /\ Ready(r)
    /\ \E op \in Ops \ {"create"}, i \in Ids :
       /\ op \in {"initiate", "regroup"} => i \notin Dotted
       /\ op = "initiate" => StudyId[i] # i
       /\ req' = [req EXCEPT ![r] = [@ EXCEPT !.op = op, !.id = i, !.pc = "get"]]
    /\ UNCHANGED <<store, cache, holed, task>>

\* What a get returns. It is null when a chunk is missing: getReportDataByStatus() makes it empty.
Got == IF holed THEN EmptyMap ELSE cache

\* deleteChildProjects() loads the map a second time, and the edited row is put into the new
\* one; updateGMemoriIdInBudget() loads it once more at its end and only prints it.
Loaded(r, m) ==
    IF ~req[r].again THEN [req[r] EXCEPT !.pc = "apply", !.map = m]
    ELSE IF req[r].op = "brand"
    THEN [req[r] EXCEPT !.pc = "put", !.map = Over(m, req[r].rows)]
    ELSE Ended(r)

\* getAllReportDataFromCache(): a map without a visible row is no hit.
GetHit(r) ==
    /\ req[r].pc = "get"
    /\ Visible(Got) # EmptyMap
    /\ req' = [req EXCEPT ![r] = Loaded(r, Visible(Got))]
    /\ UNCHANGED <<store, cache, holed, task>>

GetMiss(r) ==
    /\ req[r].pc = "get"
    /\ Visible(Got) = EmptyMap
    /\ Goto(r, "query")
    /\ UNCHANGED <<store, cache, holed, task>>

\* Mutant of QueryFails: a query that fails returns null, not the rows read so far.
QueryFailsNull(r) ==
    /\ Loses
    /\ req[r].pc = "query"
    /\ req' = [req EXCEPT ![r] = [@ EXCEPT !.pc = "apply", !.map = NoRow]]
    /\ UNCHANGED <<store, cache, holed, task>>

\* getReport() catches what goes wrong on the way: the rows that were read by then are
\* returned, and the cache is not filled.
QueryFails(r) ==
    /\ Loses
    /\ req[r].pc = "query"
    /\ LET live == LiveMap
       IN  \E S \in SUBSET Present(live) : req' = [req EXCEPT ![r] = Loaded(r, Only(live, S))]
    /\ UNCHANGED <<store, cache, holed, task>>

\* getReport(): query, then fill the cache with what the query returned.
QueryLive(r) ==
    /\ req[r].pc = "query"
    /\ req' = [req EXCEPT ![r] = [@ EXCEPT !.pc = "fill", !.map = LiveMap]]
    /\ UNCHANGED <<store, cache, holed, task>>

Fill(r) ==
    /\ req[r].pc = "fill"
    /\ cache' = req[r].map
    /\ holed' = FALSE
    /\ req' = [req EXCEPT ![r] = Loaded(r, req[r].map)]
    /\ UNCHANGED <<store, task>>

-----------------------------------------------------------------------------
(* A request: change the rows. Only the handler's own copies change here.   *)

Applies(r, op) == req[r].pc = "apply" /\ req[r].op = op

\* The handler goes on to post rows (and, for old, the id the writer takes out of the cache).
Posts(r, rows, old) ==
    /\ req' = [req EXCEPT ![r] =
         [@ EXCEPT !.pc = "send", !.map = EmptyMap, !.rows = rows, !.old = old]]
    /\ UNCHANGED <<store, cache, holed, task>>

\* The rows named that are in the map, as r changes them. A PO number makes them Active.
EditedRows(r, m, named, po) == [j \in Ids |->
    IF j \in named \cap Present(m)
    THEN [m[j] EXCEPT !.st = IF po THEN "Active" ELSE @, !.by = r] ELSE NoRow]

\* For a row that is not in the map a null is posted.
EditTo(r, named, po) ==
    LET m == req[r].map
        rows == EditedRows(r, m, named, po)
    IN  req' = [req EXCEPT ![r] =
          [@ EXCEPT !.pc = "put", !.map = Over(m, rows), !.rows = rows,
                    !.null = ~(named \subseteq Present(m))]]

\* AutoSaveData: a cell changes, of one row or of several of a family. A PO number that exists
\* ends the loop, with fewer rows named.
Edit(r) ==
    LET m == req[r].map
        i == req[r].id
    IN  /\ \/ Applies(r, "edit")
           \/ Applies(r, "brand") /\ (i \in Present(m) => m[i].kids = {})
        /\ \E named \in SUBSET Extends[i], po \in BOOLEAN :
             /\ i \in named
             /\ req[r].op = "brand" => named = {i} /\ ~po
             /\ EditTo(r, named, po)
        /\ UNCHANGED <<store, cache, holed, task>>

\* The brand of a multi-brand project changes: its brands are to be deleted, unless one of
\* them is not in the map (NullPointerException).
Unbrand(r) ==
    LET m == req[r].map
        i == req[r].id
    IN  /\ Applies(r, "brand")
        /\ i \in Present(m)
        /\ m[i].kids # {}
        /\ IF m[i].kids \subseteq Present(m)
           THEN req' = [req EXCEPT ![r] =
                  [@ EXCEPT !.pc = "sendDelete", !.rows[i] = [m[i] EXCEPT !.kids = {}, !.by = r]]]
           ELSE Finish(r)
        /\ UNCHANGED <<store, cache, holed, task>>

\* removeExistingProject(), then the second load.
SendDelete(r) ==
    /\ req[r].pc = "sendDelete"
    /\ LET m == req[r].map
           brands == m[req[r].id].kids \cap Dotted
           posted == Only(m, brands)
       IN  /\ task' = [task EXCEPT ![r]["delete"] = [@ EXCEPT !.state = "sent", !.rows = posted]]
           /\ req' = [req EXCEPT ![r] =
                [@ EXCEPT !.pc = "get", !.map = EmptyMap, !.again = TRUE,
                          !.gone = {posted[j].key : j \in Present(posted)}]]
    /\ UNCHANGED <<store, cache, holed>>

\* disableProject(): every row whose id contains the given one.
Disable(r) ==
    LET m == req[r].map
        gone == Extends[req[r].id] \cap Present(m)
    IN  /\ Applies(r, "disable")
        /\ Posts(r, [j \in Ids |-> IF j \in gone THEN [m[j] EXCEPT !.st = "Disabled", !.by = r]
                                   ELSE NoRow], NoRow)

\* Mutant of Initiate: the rows keep the list of their old brands.
InitiateOldKids(r) ==
    LET m == req[r].map
        i == req[r].id
        moved == IF m[i].kids = {} THEN {i} ELSE m[i].kids \cap Extends[i]
    IN  /\ Applies(r, "initiate")
        /\ IF i \notin Present(m) \/ ~(moved \subseteq Present(m))
           THEN Finish(r) /\ UNCHANGED <<store, cache, holed, task>>
           ELSE Posts(r, [k \in Ids |->
                  IF \E j \in moved : StudyId[j] = k
                  THEN [m[CHOOSE j \in moved : StudyId[j] = k] EXCEPT !.by = r]
                  ELSE NoRow], i)

\* updateGMemoriIdInBudget(): the project and its brands take the id of the study system.
Initiate(r) ==
    LET m == req[r].map
        i == req[r].id
        moved == IF m[i].kids = {} THEN {i} ELSE m[i].kids \cap Extends[i]
    IN  /\ Applies(r, "initiate")
        /\ IF i \notin Present(m) \/ ~(moved \subseteq Present(m))
           THEN Finish(r) /\ UNCHANGED <<store, cache, holed, task>>
           ELSE Posts(r, [k \in Ids |->
                  IF \E j \in moved : StudyId[j] = k
                  THEN LET j == CHOOSE j \in moved : StudyId[j] = k
                       IN  [m[j] EXCEPT !.kids = {StudyId[n] : n \in @}, !.by = r]
                  ELSE NoRow], i)

\* Mutant of Regroup: every brand on the page is inserted, as if the page knew no entity.
RegroupAnew(r) ==
    LET m == req[r].map
        i == req[r].id
        family == Extends[i] \cap Present(m)
    IN  /\ Applies(r, "regroup")
        /\ i \in family
        /\ \E kept \in SUBSET (family \ {i}) :
           /\ req' = [req EXCEPT ![r] =
                [@ EXCEPT !.pc = "send", !.map = EmptyMap, !.rows = [j \in Ids |->
                  CASE j \in kept -> [m[j] EXCEPT !.key = NoKey, !.kids = {i} \cup kept, !.by = r]
                    [] j = i -> [m[j] EXCEPT !.kids = {i} \cup kept, !.by = r]
                    [] OTHER -> NoRow]]]
           /\ UNCHANGED <<store, cache, holed, task>>

\* The rows named kids, as r writes them: new ones are inserted, with the status of row f,
\* whatever the map has under their ids.
Rewritten(r, m, f, kids, new) == [j \in Ids |->
    CASE j \in new -> [key |-> NoKey, st |-> m[f].st, kids |-> kids, by |-> r]
      [] j \in (kids \cap Present(m)) \ new -> [m[j] EXCEPT !.kids = kids, !.by = r]
      [] OTHER -> NoRow]

RegroupTo(r, f, kids, new) ==
    req' = [req EXCEPT ![r] =
      [@ EXCEPT !.pc = "send", !.map = EmptyMap, !.twins = new \cap Present(req[r].map),
                !.rows = Rewritten(r, req[r].map, f, kids, new)]]

\* MultiBrandServlet: the family of i is re-written with the brands on the page. The page holds
\* the entity of a brand it knew when it was loaded, which is kept; a brand without an
\* entity is inserted under the id the page made for it. Brands taken off the page are left
\* alone, and without any row of the family nothing is done.
Regroup(r) ==
    LET i == req[r].id
        family == Extends[i] \cap Present(req[r].map)
    IN  /\ Applies(r, "regroup")
        /\ \E kept \in SUBSET (family \ {i}),
              new \in SUBSET (IF family = {} THEN {} ELSE Extends[i] \ {i}) :
              /\ kept \cap new = {}
              /\ IF new # {} /\ i \notin family THEN Finish(r)
                 ELSE \E f \in IF family = {} THEN {i} ELSE family :
                        RegroupTo(r, f, {i} \cup kept \cup new, new)
        /\ UNCHANGED <<store, cache, holed, task>>

\* AutoSaveData puts its whole map back and then posts.
Put(r) ==
    /\ req[r].pc = "put"
    /\ cache' = req[r].map
    /\ holed' = FALSE
    /\ IF req[r].rows = EmptyMap THEN Finish(r) ELSE Goto(r, "send")
    /\ UNCHANGED <<store, task>>

\* The request after its post: only an initiation has something left to do.
Sent(r) == req' = [req EXCEPT ![r] =
    IF @.op = "initiate" THEN [Ended(r) EXCEPT !.pc = "get", !.again = TRUE] ELSE Ended(r)]

\* Mutant of Send: the rows are cached before they are persisted.
SendAndShow(r) ==
    /\ req[r].pc = "send"
    /\ task' = [task EXCEPT ![r]["append"] =
         [@ EXCEPT !.state = "sent", !.rows = req[r].rows, !.old = req[r].old]]
    /\ cache' = Over(cache, req[r].rows)
    /\ Sent(r)
    /\ UNCHANGED <<store, holed>>

\* generateProjectIdUsingJDOTxn(): fetchAsync() and return without the answer.
Send(r) ==
    /\ req[r].pc = "send"
    /\ task' = [task EXCEPT ![r]["append"] =
         [@ EXCEPT !.state = "sent", !.rows = req[r].rows, !.old = req[r].old,
                   !.null = req[r].null]]
    /\ Sent(r)
    /\ UNCHANGED <<store, cache, holed>>

-----------------------------------------------------------------------------
(* AsyncJDODatastore.doPost(): one run per post.                            *)

\* A post that needs no more attention.
Handled == [NoTask EXCEPT !.state = "done"]

\* The rows of the family that the header gMemoriId names.
Family(m, i) == IF m[i].kids = {} THEN {i} ELSE m[i].kids

\* Mutant of TaskRead: a null map ends the run, with or without a header.
TaskReadGivesUp(r, k) ==
    /\ task[r][k].state = "sent"
    /\ task' = [task EXCEPT ![r][k] =
         IF holed THEN Handled ELSE [@ EXCEPT !.state = "persist", !.map = cache]]
    /\ UNCHANGED <<store, cache, holed, req>>

\* Read the cached map and take the header's family out of it. A null map with a header ends
\* the run before anything is stored.
TaskRead(r, k) ==
    /\ task[r][k].state = "sent"
    /\ LET old == task[r][k].old
           m == IF old # NoRow /\ old \in Present(cache) THEN Without(cache, Family(cache, old))
                ELSE cache
       IN  task' = [task EXCEPT ![r][k] =
             CASE ~holed -> [@ EXCEPT !.state = "persist", !.map = m]
               [] holed /\ old = NoRow -> [@ EXCEPT !.state = "persist", !.null = TRUE]
               [] holed /\ old # NoRow -> Handled]
    /\ UNCHANGED <<store, cache, holed, req>>

\* Mutant of Keyed: every row is inserted, as if it had no key.
KeyedAnew(r, rows) == [i \in Ids |->
    IF i \in Present(rows) THEN [rows[i] EXCEPT !.key = <<r, i>>] ELSE rows[i]]

\* makePersistentAll() gives a key to the rows that have none.
Keyed(r, rows) == [i \in Ids |->
    IF i \in Present(rows) /\ rows[i].key = NoKey THEN [rows[i] EXCEPT !.key = <<r, i>>]
    ELSE rows[i]]

\* The store after the rows with the ids in S were written, each row as a whole.
Written(rows, S) == [k \in Keys |->
    IF \E i \in S : rows[i].key = k
    THEN LET i == CHOOSE i \in S : rows[i].key = k IN [id |-> i, row |-> rows[i]]
    ELSE store[k]]

\* The next state of a run whose map m is to be put, if it has one: the null map and a null
\* among the rows end the run where they are used.
ToPut(r, k, m) == task' = [task EXCEPT ![r][k] =
    IF @.null THEN Handled ELSE [@ EXCEPT !.state = "put", !.rows = EmptyMap, !.map = m]]

\* Mutant of TaskAppend: the posted rows are cached instead of the persisted ones.
TaskAppendPosted(r) ==
    LET rows == task[r]["append"].rows
        keyed == Keyed(r, rows)
    IN  /\ task[r]["append"].state = "persist"
        /\ store' = Written(keyed, Present(keyed))
        /\ ToPut(r, "append", Over(task[r]["append"].map, rows))
        /\ UNCHANGED <<cache, holed, req>>

\* Persist the rows and show what was persisted.
TaskAppend(r) ==
    LET rows == Keyed(r, task[r]["append"].rows)
    IN  /\ task[r]["append"].state = "persist"
        /\ store' = Written(rows, Present(rows))
        /\ ToPut(r, "append", Over(task[r]["append"].map, rows))
        /\ UNCHANGED <<cache, holed, req>>

\* makePersistentAll() is no transaction: when the datastore fails, or refuses a row whose
\* entity is gone, some rows are stored and the run ends without a put.
TaskAppendFails(r) ==
    LET rows == Keyed(r, task[r]["append"].rows)
        posted == task[r]["append"].rows
        refused == {i \in Present(posted) : posted[i].key # NoKey /\ store[posted[i].key] = NoRow}
    IN  /\ task[r]["append"].state = "persist"
        /\ Loses \/ refused # {}
        /\ \E S \in SUBSET (Present(rows) \ (IF Loses THEN {} ELSE refused)) :
             store' = Written(rows, S)
        /\ task' = [task EXCEPT ![r]["append"] = Handled]
        /\ UNCHANGED <<cache, holed, req>>

Posted(r) == {task[r]["delete"].rows[i].key : i \in Present(task[r]["delete"].rows)}

\* deletePersistent() row by row.
TaskDelete(r) ==
    LET t == task[r]["delete"]
    IN  /\ t.state = "persist"
        /\ \A k \in Posted(r) : store[k] # NoRow
        /\ store' = [k \in Keys |-> IF k \in Posted(r) THEN NoRow ELSE store[k]]
        /\ ToPut(r, "delete", Without(t.map, Present(t.rows)))
        /\ UNCHANGED <<cache, holed, req>>

\* A failure, or a row whose entity is gone, ends the run where it is.
TaskDeleteFails(r) ==
    LET gone == {k \in Posted(r) : store[k] = NoRow}
    IN  /\ task[r]["delete"].state = "persist"
        /\ Loses \/ gone # {}
        /\ \E S \in SUBSET (Posted(r) \ gone) :
             store' = [k \in Keys |-> IF k \in S THEN NoRow ELSE store[k]]
        /\ task' = [task EXCEPT ![r]["delete"] = Handled]
        /\ UNCHANGED <<cache, holed, req>>

\* Put the map that was read at the start, with the change, over whatever is cached now.
TaskPut(r, k) ==
    /\ task[r][k].state = "put"
    /\ cache' = task[r][k].map
    /\ holed' = FALSE
    /\ task' = [task EXCEPT ![r][k] = Handled]
    /\ UNCHANGED <<store, req>>

-----------------------------------------------------------------------------
(* The environment.                                                         *)

\* A post is lost (nobody reads fetchAsync's answer), or its run dies.
TaskLost(r, k) ==
    /\ Loses
    /\ task[r][k].state \notin {"none", "done"}
    /\ task' = [task EXCEPT ![r][k] = Handled]
    /\ UNCHANGED <<store, cache, holed, req>>

\* An instance dies, or a deadline ends the request.
Crash(r) ==
    /\ Loses
    /\ req[r].pc \notin {"idle", "done"}
    /\ Finish(r)
    /\ UNCHANGED <<store, cache, holed, task>>

\* Memcache drops the index of the cost centers.
Evict ==
    /\ "index" \in Evicts
    /\ cache # EmptyMap \/ holed
    /\ cache' = EmptyMap
    /\ holed' = FALSE
    /\ UNCHANGED <<store, req, task>>

\* Memcache drops a chunk and keeps the index: the map cannot be put together any more.
EvictChunk ==
    /\ "chunk" \in Evicts
    /\ ~holed
    /\ cache # EmptyMap
    /\ cache' = EmptyMap
    /\ holed' = TRUE
    /\ UNCHANGED <<store, req, task>>

-----------------------------------------------------------------------------

RequestStep(r) ==
    \/ GetHit(r) \/ GetMiss(r) \/ QueryLive(r) \/ Fill(r)
    \/ QueryFails(r) \/ Edit(r) \/ Unbrand(r) \/ SendDelete(r)
    \/ Disable(r) \/ Initiate(r) \/ Regroup(r) \/ Put(r) \/ Send(r)

TaskStep(r) ==
    \/ TaskAppend(r) \/ TaskAppendFails(r) \/ TaskDelete(r) \/ TaskDeleteFails(r)
    \/ \E k \in Kinds : TaskRead(r, k) \/ TaskPut(r, k)

Next ==
    \/ \E r \in Requests :
         \/ Create(r) \/ Submit(r) \/ RequestStep(r) \/ TaskStep(r)
         \/ Crash(r)
         \/ \E k \in Kinds : TaskLost(r, k)
    \/ Evict \/ EvictChunk

Spec == Init /\ [][Next]_vars

\* A handler that has started and a post that has been accepted run to their end; nobody
\* has to make a request.
FairSpec == Spec /\ \A r \in Requests : WF_vars(RequestStep(r)) /\ WF_vars(TaskStep(r))

-----------------------------------------------------------------------------
(* Properties.                                                              *)

\* Every cached row knows its entity (the writer caches makePersistentAll()'s result, not
\* the rows it was sent): saving a row that was shown never creates a second entity.
CachedRowsKeyed == \A i \in Present(cache) : cache[i].key # NoKey

\* What may be shown. A row without an entity is shown only if a conversion posted that entity
\* for deletion; and what a save wrote is shown only once its writer's run has come to storing
\* it. AutoSaveData is the exception: it caches its own rows first, and they stay in the cache
\* when the post that stores them is lost.
CachedRowsStored == \A i \in Present(cache) :
    /\ cache[i].key # NoKey
    /\ store[cache[i].key] # NoRow \/ \E r \in Requests : cache[i].key \in req[r].gone
    /\ \A r \in Requests :
         cache[i].by = r /\ req[r].op \notin {"edit", "brand"}
           => task[r]["append"].state \in {"put", "done"}

\* A project has one row: no two live entities carry the same gMemori id.
NoTwins == \A i \in Ids : \A k, l \in LiveKeys(i) : k = l

\* The ids that a page posted as new brands although the map had them, and the ids that the
\* study system gives to those.
Doubled == UNION {req[r].twins : r \in Requests}
Spoilt == Doubled \cup {StudyId[i] : i \in Doubled}

\* When nothing is under way a loaded map shows exactly the live rows of the datastore, of
\* which each project has one: what disable, initiate and regroup change in the store, the
\* writer changes in the cache. Only what a page posted twice is out of it, no other id of
\* the family or of another.
Coherent == Settled => \A i \in Ids \ Spoilt :
    /\ \A k, l \in LiveKeys(i) : k = l
    /\ Visible(Got) # EmptyMap => Visible(Got)[i] = LiveMap[i]

\* AutoSaveData.java:102 says of the map it loads "Retrieved all gtfReports for that cost
\* center", and edits, re-caches and shows that map.
RetrievedAll == \A r \in Requests :
    Applies(r, "edit") => Present(LiveMap) \subseteq Present(req[r].map)

\* AutoSaveData.java:328: "Delete child projects if a multibrand is converted in to a single
\* brand project." Once the conversion is done its brands are not shown any more.
BrandsDeleted == \A r \in Requests :
    Settled /\ req[r].pc = "done" /\ req[r].op = "brand" /\ req[r].again
        => \A j \in (Extends[req[r].id] \cap Dotted) \ {req[r].id} : Visible(Got)[j] = NoRow

\* A save that was accepted is stored, even when memcache has lost the cost center and the
\* writer finds no map to put back. (Without initiation: a header and no map end the run.)
Stored(r) == \E k \in Keys : store[k] # NoRow /\ store[k].row.by = r
SavesStored == \A r \in Requests :
    req[r].pc = "send" /\ req[r].rows # EmptyMap ~> Stored(r)

\* With one save at a time, no loss and a cached cost center, the store is the table of
\* ProjectTable: every save acts once and on all rows, those of spoilt ids excepted.
Shown(row) == [st |-> row.st, kids |-> row.kids, by |-> row.by]
Table == INSTANCE ProjectTable WITH
    table <- [i \in Ids |-> IF LiveKeys(i) = {} THEN NoRow ELSE Shown(LiveMap[i])],
    doubled <- Spoilt,
    applied <- {r \in Requests : task[r]["append"].state \in {"put", "done"}}
ImplementsTable == Table!Spec

=============================================================================
