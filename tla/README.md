# BudgetApp in TLA+

A verification project for BudgetApp, a Google App Engine application (Java
servlets, a datastore, memcache, a SlickGrid front end) in which the cost centers
of a research organisation keep the budgets of their projects. Line numbers refer
to files under `src/BudgetApp/src/com/gene/app/` unless said otherwise.

Contents: [the system](#the-system) · [the modules](#the-modules) ·
[the runs](#the-runs) · [what the code gets wrong](#what-the-code-gets-wrong) ·
[the proofs](#the-proofs) · [assumptions](#assumptions-of-the-models) ·
[not modelled](#what-is-not-modelled) · [what is left to prove](#what-is-left-to-prove).

## The system

The application is declared thread-safe, so App Engine runs several requests at a
time in one servlet object (whose fields they share) and any number of instances
of the application side by side. What instances share is the datastore and
memcache. Nothing in the application locks across requests, except that
`nextValue()` is `synchronized` on its generator.

### Parts, their state and their operations

| part | source | state it keeps | operations |
|---|---|---|---|
| report entities | `model/GtfReport.java` | datastore entities, key `Id`, one per project row: `gMemoryId`, status, PO number, monthly maps, multi-brand children | persisted, attached, deleted by JDO |
| asynchronous writer | `dao/AsyncJDODatastore.java` | none of its own | one POST per save: read the cached map, persist or delete rows, put the map back |
| cost-center cache | `dao/CostCenterCacheUtil.java` | memcache: numbered chunks per cost center, and one shared index entry | put, get, add, divide into chunks |
| data access | `dao/DBUtil.java` | caches of users, brands, summaries | read-through load, PO validation, disable, budget summary, enqueue of saves |
| new projects | `action/StoreReport.java` | the servlet field `gMemoriId`, shared by concurrent requests | single and multi-brand creation |
| auto save | `action/AutoSaveData.java` | budget summary in memcache | cell edits, brand change, planned months |
| multi-brand editor | `action/MultiBrandServlet.java` | - | re-write the family of a project |
| initiation, disabling | `action/InitiateProjectServlet.java`, `action/DisableProjectServlet.java` | - | exchange the provisional id for a study id, disable here and in the study system |
| study web services | `ws/UpdateStudyInBudget.java`, `ws/DeleteStudyPrjFromBudget.java` | - | create, close, disable projects on behalf of the study system |
| id generator | `util/ProjectSequenceGeneratorUtil.java` | one counter entity | `nextValue` |
| uploads | `action/FactSheetUploadServlet.java`, `action/PODetailsUpload.java`, `action/UserDetailsUpload.java` | working maps in servlet fields, shared by concurrent requests | spreadsheets into projects, POs, users |
| backup and recovery | `action/BackupServlet.java`, `action/RecoverDataServlet.java`, `action/RecoveryServlet.java` | a file in cloud storage, a recovery status entity | daily copy, re-insertion from a task queue |
| reports | `action/GetReport.java`, `action/GetSummaryFromCache.java`, `action/DownloadFileServlet.java` | servlet fields | read, sort, compute variances |
| cloud storage client | `src/BudgetApp/src/com/google/appengine/tools/cloudstorage/` (a copy of the vendor's library) | channels, tokens | resumable writes, prefetching reads, retries |
| the page | `src/BudgetApp/war/editProjects.jsp`, `war/scripts/editProjects.js` | the rows of all projects, the popup's rows of brands, an overlay, a status text | edits, totals, popup of brands, creation, initiation, deletion; one AJAX post each |
| the grid | `src/BudgetApp/war/SlickGrid-master/slick.*.js` and its plug-ins | items and rows of a data view; drawn rows and cells; columns; selection; the open editor and the lock it holds | refresh, grouping, scrolling, drawing by timers, navigation, editing, column drags, sorting, selecting |

### How they interact

Every servlet that changes a project follows the same path:

1. load the map of the cost center, gMemori id to row, with
   `DBUtil.getAllReportDataFromCache`: from memcache if that has a row to show, else
   by a query whose result fills memcache (`DBUtil` 338-366, 450-475);
2. change copies of some rows; `AutoSaveData` puts its whole map back into memcache
   (312);
3. post the changed rows to `/ansycStoreGtfReports` with `fetchAsync` and answer the
   user without looking at the result (`DBUtil` 614-643, 670-697);
4. some time later, in another request, `AsyncJDODatastore.doPost` reads the cached
   map *again*, persists or deletes the posted rows, and puts the map it read, with
   the rows changed, over whatever is cached by then.

A map in memcache is several entries: chunks with numbered keys and, for all cost
centers together, one index entry that says how many there are. Both sides of a put
and of a get are loops of single calls.

In the browser everything runs in one thread: a handler ends before the next one starts.
What interleaves there are the user, the timers of the grid and the server's answers. The
page writes items into the data view, the data view tells the grid which rows changed, and
the grid redraws those. The popup of brands is a second grid; the two share one editor lock.

The study system takes part from outside: `InitiateProjectServlet` and
`DisableProjectServlet` call it over HTTP and then change the rows here, while its
own calls arrive at `UpdateStudyInBudget` and `DeleteStudyPrjFromBudget`.

### What is hard here, and what makes each part correct

| part | hard behaviour | it is correct when |
|---|---|---|
| id generator | read by a query, write in a transaction; exceptions; commits that time out after they were applied; several generators | ids increase (`IdsIncrease`) |
| writer and loads | read-modify-write of a whole map by saves and writers that overlap; eviction in the middle; a post that is lost; `makePersistentAll` that fails half-way | no id has two rows; every shown row knows its entity and has one; a save is shown when it is stored; an accepted save is stored; saves that do not overlap behave as a table (`NoTwins`, `CachedRowsKeyed`, `CachedRowsStored`, `SavesStored`, `Coherent`, `ImplementsTable`) |
| cost-center cache | entries written one by one, left over from larger or smaller maps, evicted or not served one by one; an index shared by all | a get returns the last map whole or nothing; it returns it unless memcache dropped something (`RetrievedAll`, `HitUnlessEvicted`) |
| chunk division | two roundings, fewer rows than chunks | every row in one chunk, chunks under the limit (`EachRowOnce`, `Fits`) |
| families of brands | initiation, re-grouping, disabling by `contains`, deletion on brand change, each over several rows | the table of `ProjectTable`; brands go when a project is converted (`ImplementsTable`, `BrandsDeleted`) |
| study system | calls in both directions that cross, time out, or succeed on one side only | a project is in both systems or in neither; what the study system has taken off is disabled here in the end (`SystemsAgree`, `DisabledInTheEnd`) |
| PO numbers | looked up and used in two steps | no two live projects with one number (`OneProjectPerPO`) |
| months, totals, shares | shares that must be rounded, hidden and filtered rows, several ways to the same total | months and brands add up, the total rows are those of what is shown (`AmountsAddUp`, `TotalsCurrent`) |
| saves from the page | an answer that comes late or never while the user goes on | what is shown is saved, no second save overtakes the first, the page is not locked for ever (`SavedIsShown`, `OneRequest`, `Usable`, `SavingEnds`) |
| popup of brands | rows added, undone, deleted, closed and opened for another project | what it posts is a division of the project (`PopupSound`, `DivisionPosted`) |
| data view and grid | incremental redrawing of what changed, drawing by timers, rows that move under an open editor | the screen shows the data; an editor stays on its item and keeps what was typed (`ScreenCurrent`, `ViewRight`, `EditorOnItsItem`, `EditorOnScreen`, `TypedKept`) |
| columns | widths, positions, frozen part and headers kept separately | the screen shows the columns as they are set; a drag moves width between neighbours (`ColumnsOnScreen`, `WidthsRight`, `DragGivesAndTakes`) |
| selection | marks by row number while rows move | what is selected is marked and stays selected (`SelectionShown`, `SelectionKept`) |
| editors | two grids, one lock, timers that open an editor later, texts that are refused | one editor at a time; what is stored is what was typed; a refused text is never lost or stored (`OneEditor`, `StoredAsTyped`, `RejectedKept`) |
| budget summary, uploads, recovery | read-modify-write beside the rows, working maps in servlet fields, a task that is retried | see [not modelled](#what-is-not-modelled) |

The hazards are listed one by one, each at its line, in `PROJECT.json`. That list is
limited to those that weigh most; others met on the way: a retried recovery inserts the
rows again (`RecoveryServlet.java:69`); two PO uploads at a time change the same maps in
servlet fields (`PODetailsUpload.java:46`); the budget summary is changed by
read-modify-write (`AutoSaveData.java:188`); the daily backup copies what is cached
(`BackupServlet.java:152`); a renamed project leaves its family (`DBUtil.java:506`);
disabling goes by `contains`, so project 1 takes project 11 along (`DBUtil.java:1192`).

## The modules

| module | models | built on |
|---|---|---|
| `ProjectSequence` | `nextValue()`, one action per datastore call | |
| `ReportStore` | loads, saves and the asynchronous writer over one cost center | |
| `ProjectTable` | what a user expects of them, stale pages included: the abstract specification | |
| `CostCenterCache` | put and get of a map, one action per memcache call | |
| `ChunkDivision` | `divideToChunks`, one action per turn of its loop | |
| `StudyExchange` | projects, their ids and PO numbers here and in the study system | |
| `SeqFilter` | what the data view does wherever it keeps a part of a list, as an operator | |
| `DataView` | the data view of the grid, as operators on a view | `SeqFilter` |
| `Grid`, `GridNavigation` | the grid's rows, cells, active cell and editor, as operators on a grid | |
| `GridView` | the page's grid on its data view, one action per handler | `DataView`, `GridNavigation` |
| `GridColumns` | columns: lists, widths, headers, sorting | |
| `GridSelection` | cell selection, its marks, cell styles, syncing with items | |
| `CellEditors` | the editors of cells and the lock two grids share | |
| `PageData` | the rows of the page and what the edit of a month does, as operators | |
| `BrandPopup` | the rows of the popup of brands, as operators | |
| `EditPage` | the page: its user, its posts, the answers, one action per handler | `PageData`, `BrandPopup` |
| `MC...` | instances for TLC; `.cfg` files next to them | the modules they extend |
| `DataLemmas` | lemmas about sequences, finite sets and sums that several proofs need | |
| `...Proofs` | theorems for every value of the constants | the module they are named after; `ChunkedCacheProofs` on `CostCenterCache` and `ChunkDivision`, `StudyExchangeProofs` also on `ProjectSequence`, `GridProofs` on `CellEditors`, `GridColumns` and `GridSelection`, `GridViewProofs` on `GridView` and what it is built on, `PopupProofs` on `BrandPopup` and, with `EditPageProofs`, on `EditPage`; `ReportStoreProofs` also on the refinement of `ProjectTable` |

`ReportStore` takes a put or a get of a whole map as one step. `CostCenterCache` is
about the steps inside, `ChunkDivision` about how the map is cut. What
`CostCenterCache` says of a get (whole, or nothing; `{}` when the index is gone,
null when a chunk is) is what `ReportStore` assumes of one in `Got`, `Evict` and
`EvictChunk`. `StudyExchange` in turn takes a load as the rows that are stored. The two
systems' ids and the rows of a family are exchanged in `ReportStore`'s `Initiate`; there
the study system is the constant `StudyId`.

### ProjectSequence

`pc[c]` is where call `c` of `nextValue()` is: waiting for the lock (`idle`), before
the query, before or inside the creation of the counter, before the second query,
before or inside the write. `counters` are the counter entities: a sequence, because
nothing but the query keeps a second one from being made. Transactions are
optimistic: `overtaken[c]` records that another commit hit the entity group after
`c` began, and a commit then fails. Every call may throw (`Throw`), and a commit may be
applied although it reports a time-out (`CreateLost`, `CommitLost`). `issued` is the
history of returned values. `GenOf` says which requests share a generator.

### ReportStore

| variable | in the code |
|---|---|
| `store` | the `GtfReport` entities of the cost center by key; a key is the request that inserted the entity and the id it had then |
| `cache` | the map in memcache, by gMemori id |
| `holed` | a chunk of it is missing: `getCostCenterDataFromCache` returns null |
| `req[r]` | a servlet request: its place (`pc`), operation, the id it was sent, its own map, the rows it will post, whether a null is among them (`null`), the header `gMemoriId` (`old`), and whether it loads for a second time (`again`: after a brand change, and at the end of an initiation); two histories for the properties, the ids it posted as new although they were in its map (`twins`) and the keys it posted for deletion (`gone`) |
| `task[r][kind]` | the post `r` made: on its way (`sent`), run up to before the persist (`persist`) or before the put (`put`), or over |

A row is its key (`NoKey` until it is persisted), its status, its family
(`childProjectList`, the empty set for a project of one brand) and the request that
wrote it last, which stands for the values of all other columns.

| action | code |
|---|---|
| `Create` | `StoreReport` 50-379: a fresh id and the brands named after it (`Root`), posted without a load |
| `Submit` | the entry of `AutoSaveData`, `MultiBrandServlet`, `InitiateProjectServlet`, `DisableProjectServlet`: any id a page may hold, also of a project that is gone |
| `GetHit`, `GetMiss`, `QueryLive`, `Fill` | `DBUtil` 338-366, 450-475: read the cache; or query, then fill it |
| `QueryFails` | the `catch` of `getReport` (359-361): the rows read so far are returned and the cache is not filled |
| `Edit`, `Unbrand`, `SendDelete` | `AutoSaveData` 100-325 and `deleteChildProjects` 337-354; an edit names one row or several of a family, which are put and posted together, and for a row that is not in the map a null is posted |
| `Disable`, `Initiate` | `DBUtil` 1187-1198, `InitiateProjectServlet` 159-229; an initiation loads the map once more at its end (226), which may fill the cache |
| `Regroup` | `MultiBrandServlet` 86-319: which brands are new is decided by the page (an empty entity id, 172 and 235), not by the map that was loaded |
| `Put`, `Send` | `AutoSaveData` 302-313, `DBUtil` 614-643 |
| `TaskRead`, `TaskAppend(Fails)`, `TaskDelete(Fails)`, `TaskPut` | `AsyncJDODatastore` 47-59, 60-67, 68-76, 76 |
| `TaskLost`, `Crash`, `Evict`, `EvictChunk` | the platform |

The handlers' actions between `apply` and the put or the post change only local
variables, so each is one step. A handler that would end with an exception ends in
`Finish`: a family with a member that is not in the map cannot be initiated, brands
cannot be deleted when one of them is missing, a brand cannot be added when the
project itself is gone but a relative is there. A null among posted rows lets the writer
store the others and then end without a put.

A page may be of any age. In `Regroup` it holds the entity of some brands of the family
(`kept`), and lists others without one (`new`), under whatever id the page made for them: if
the map has a row under that id, the page is stale, and the row that is inserted is a second
one. The model makes it, as the code does, and remembers the id in `twins`. `Doubled` are
these ids, `Spoilt` these and the ids that initiation turns them into. Not representable is
one page that lists two rows under one id, which needs ten brands, sorted as texts
(`editProjects.jsp` 1660-1666); and when a PO number is refused for a row of a family, the
rows after it are taken for rows that were not named.

### ProjectTable

The live projects of a cost center, without cache, writer or entities: `Create`,
`Edit`, `Disable`, `Initiate` and `Regroup` act once and on the whole table, or find
nothing to do. `AddAgain` is what the code allows beyond that: brands that are live are
added once more by a page that does not know them. Nothing is promised of their ids from then
on (`Becomes`), everything of all others: of the rest of the family, which takes part in the
same and in later saves, and of other projects. `ReportStore!Table` is the refinement mapping:
a project is in the table when a live entity has its id; a save has been applied when its
post has been persisted (or refused as a whole); `AddAgain` is the step in which the handler
decides what to insert.

### CostCenterCache

`chunk[c][n]` is the entry with key `c + n`, `index` the entry
`costCentersExtensionDetails`. A map is the set of its chunks, a chunk the number of
the put it comes from and its place; so a mixture of two maps can be told from
either. `proc[p]` is the loop request `p` is in. `Served` is the error handler of
lines 22-28: a call that memcache does not serve is logged and taken for an absent
entry, or for a put that happened. Histories: `current[c]`, the map of the put that
started last; `clean[c]`, that put has ended, all its calls were served and no other
put of `c` overlapped it; `evicted[c]`, something was dropped since.

### ChunkDivision

Rows are numbered in key order. `AddRow` and `NewChunk` are the two branches of the
loop at lines 137-146, `Finish` is lines 147-155, `PerChunk` the two divisions of
lines 121-133. `MCChunkedCache` cuts every map first and, after the empty one, uses the
cache, so that one run checks both without multiplying their states.

### StudyExchange

`rows` are the stored rows by key, `study` what the study system has under an id: nothing,
a project, or one it has taken off. `req[r]` is a request from either side; requests are
numbered in the order they begin. `Begin` starts one, `Selected` and the actions named
after the handlers follow `InitiateProjectServlet` 61-157, `DisableProjectServlet` 40-157,
`UpdateStudyInBudget`, `DeleteStudyPrjFromBudget`, `StoreReport`'s and `AutoSaveData`'s use
of `DBUtil.validatePONum`. A refused call (401, 402, 403, 406) changes nothing. The study
system is external: it may make a project and answer, make it and have its answer lost,
refuse, tell of a project or ask for its removal at any time; it takes a project off when
it is answered 200.

Two histories say when the systems may disagree. `known` holds the ids projects were given
here. `upset` holds the ids and PO numbers about which two requests under way overlapped, or
about which a post or an answer was lost; when an upset project gets another id, that id is
upset as well, and so is a project that a user of several cost centers has removed (the
service looks in the last cost center only, `DeleteStudyPrjFromBudget` 121), and one that is
disabled along with another, or instead of it, because its id contains the asked one and has
at most ten characters (156; `Within` says which ids these are).

`Live` and `POTaken` read the stored rows where the code reads the cached maps of one or of all
cost centers (`DBUtil` 450-461, 1158-1179), which may be partial or old. That is deliberate:
what a partial map does to a save is the subject of `ReportStore`, and with it every property
of this module would have to leave out all projects of a cost center after any eviction
(`store_partial` is the counterexample), so that nothing would be said of the exchange itself.
Clearing a PO number is modelled as it is coded: the empty number is looked up like any other,
and refused as soon as an active or closed row has none.

### The page

`PageData` is the rows of the page and what the edit of a month does to them
(`updateMemCache`): quarters, totals, shares of brands, variances. `BrandPopup` is the rows
of the popup. `EditPage` drives both:

| variable | in the code |
|---|---|
| `page` | the rows, the cell being edited, the popup and its rows, overlay, status text, the submit button, the search, the new-project windows |
| `posts` | posts on their way to a servlet, by kind (`save`, `brands`, `store`, `initiate`, `disable`) |
| `stored` | the forecast months the server has |
| `doing` | what the user does in this session: a bound of the model |

An action is one handler with all it calls. The page is that of a cost center: of a
sub-project only the forecast row is shown. Details kept because a property depends on them:
the popup is filled from the rows of the last page load; a sub-project counts in the totals
only if its project is not found by the search; a save of a PO number that fails leaves the
overlay; a popup that is opened by Tab posts without an overlay; a row opened below one
without a number gets the number NaN; deletions round the shares row by row; a refused
(negative) total puts back only the share of its row; "Save & Close" with no named row
passes the checks; `submit` leaves its button grey for a project that still needs its
sub-projects.

### The grid

`DataView` and `Grid` are operators from a state to the state after it, as every operation
of the code ends in one `refresh()` or one `render()`. `GridView` has the handlers: scroll,
click, type, keys, fold, search, group, page, sort, add, answers of the server, and the two
timers that draw later. `GridColumns` keeps beside the columns everything that is drawn from
them; `GridSelection` keeps selected ranges, rows, styles and what is marked. `CellEditors`
has two grids with one cell each, editors of every kind, and the lock; numbers are in
tenths and NaN is a number no text has. In `MCGridView` a session is about the grid, the
columns, the selection or the editors while the others wait. What the page never asks of the
grid (paging, fitting of columns, syncing of the selection with items,
asynchronous loading of editors) is modelled as part of the grid, which is kept in this
repository; no hazard of the list is about it.

## The runs

| run | instance | distinct states | shows |
|---|---|---|---|
| `sequence_one_generator` | 3 requests, 1 generator, 5 ids | 7 000 | `IdsIncrease`, `TypeOK` through exceptions and lost commits |
| `sequence_duplicate_ids` | 2 requests on 2 generators | violation | two requests are given one id |
| `store_serial` | 3 saves one at a time, from pages of any age; a family of two, its study ids, a new project; all operations but brand change | 223 000 | `Coherent` (with one row per id), `ImplementsTable` |
| `store_lossy` | 2 overlapping saves, evictions of the index, failing queries, lost posts, posted nulls, partial writes, crashes; create, edit, brand change, initiate | 857 000 | `NoTwins`, `CachedRowsKeyed`, `CachedRowsStored`, `TypeOK` |
| `store_live` | 2 overlapping saves, evictions of the index and of chunks, fairness | 62 000 | `SavesStored` |
| `store_partial` | 2 saves one at a time, evictions | violation | a load does not retrieve all rows |
| `store_brands` | 1 brand change, nothing fails | violation | the deleted brands are shown again |
| `cache_one` | 0 to 20 rows of 3 sizes; 1 cost center, 2 requests, maps of 0 to 3 chunks, 3 puts, evictions, calls not served, deaths | 1 966 000 (up to symmetry) | `RetrievedAll`, `HitUnlessEvicted`, `EachRowOnce`, `Fits` |
| `cache_shared` | 2 cost centers, nothing fails | violation | the shared index loses an entry |
| `study` | 2 ids of each kind, 2 PO numbers, 2 cost centers, 3 requests, tables with one or two projects in all states | 237 000 | `SystemsAgree`, `OneProjectPerPO`, `StudyTypeOK`; `DisabledInTheEnd` |
| `page` | a project of one brand and one of two, 1 month, 2 posts, 5 edits, 11 kinds of session | 230 000 | the nine properties of `EditPage` |
| `grid_view` | 3 items and a new one, 5 columns (1 frozen), 2 visible rows, 13 kinds of session with the grid; columns, selection, editors in sessions of their own | 127 000 | the fourteen properties of `GridView`, `GridColumns`, `GridSelection`, `CellEditors` |

### Bounds, and why they are enough

* `Callers`, `MaxIssued`, `MaxValue`: three requests on one generator cover one inside
  and two that wait; five ids allow a lost value followed by others. The theorem
  removes these bounds.
* `Requests`: a save is a load, a change and a post; every hazard in this part is one
  save between two steps of another, so two overlapping ones meet each of them. Three
  saves are used where they run one after another, for histories such as initiate,
  re-group, disable. The theorems about lost and overlapping saves remove the bound.
* `Evicts`: `store_lossy` loses the index only, by which the cache becomes empty; a chunk that
  is lost, by which a get becomes null, is in `store_live` and `store_partial`. Both
  together with lost posts are 1 389 000 states, which TLC ends with no error in longer than
  the other runs take; the theorems are about any of them.
* `Ids`: a project with one brand (`p`, `p.1`), their study ids (`P`, `P.1`) and a new
  project (`n`). Families with more brands repeat what `p.1` does.
* `MaxChunks = 3`, `MaxPuts = 3`: larger to smaller to larger maps, with a first, a
  middle and a last chunk; two puts that are damaged or overlap, and one that mends.
* `KB = 4`, `Limit = 3`: chunks of twelve bytes; rows smaller than, as large as and larger
  than a chunk, so that there can be more chunks than rows.
* `MaxRequests = 3` in `StudyExchange`: one request, one that overlaps it, and one that
  finds what they left. Four were needed to see what a proof attempt showed (see
  [the proofs](#the-proofs)); the inductive invariant was checked with four.
* The page: one month stands for each of the twelve, which are edited alike and only meet
  in sums; an odd amount shared evenly must be rounded. Two posts can cross. Five edits
  reach every cell kind and a second edit of it.
* The grid: two rows of four are visible, so rows enter and leave the drawn range; one
  status has two items and one has one, so groups appear, fold and vanish; a second frozen
  column repeats the first.

### Fairness

`FairSpec` of `ReportStore` asks that a handler that has started and a post that has been
accepted run to their end: the servlet container runs an accepted request, and no step of
either waits for another. It asks nothing of users (`Create`, `Submit`) or of memcache, and
`store_live` is without `Loses`, since a post that is lost is not accepted and the code
never retries. Each request and each post is a chain of steps of which one is enabled
at a time, so weak fairness of their disjunction is enough.

`StudyExchange` asks that a request that has begun goes on (`Proceed`) or is lost; requests
begin or not. `EditPage` asks that the browser ends every kind of post sooner or later with
an answer or an error (`AnswerTo`), and nothing of the user.

`CHECK_DEADLOCK FALSE` is used where the system stops by itself: after the last save,
after the last id below the bound, after the last request, after the last put.

## What the code gets wrong

Each of these is a run that TLC ends with a counterexample.

* `sequence_duplicate_ids`: the comment in `ProjectSequenceGeneratorUtil.java:61` says
  that an ancestor query "doesn't need trans". It reads the counter outside the
  transaction that writes it, and three servlets in every instance each own a
  generator, so two of them read the same value.
* `store_partial`: `AutoSaveData.java:102` says "Retrieved all gtfReports for that cost
  center". After an eviction the writer reads an empty map, adds its own rows and puts
  the result in the cache, where the next load takes it for the whole cost center.
* `store_brands`: `AutoSaveData.java:328` says "Delete child projects if a multibrand is
  converted in to a single brand project". The handler loads the map again before the
  deletion has run, puts it back, and the append that follows does so once more.
* `cache_shared`: the index is read, changed and written back without a lock. A put of
  another cost center undoes the entry, and the next get reads as many chunks as an
  older map had.

What holds in spite of them is bounded by them. Overlapping writers lose each other's
rows *from the cache*, so `Coherent` and `ImplementsTable` are stated for saves that do
not overlap. `CachedRowsKeyed` and `CachedRowsStored` hold for those that do. The second says
two things: a cached row has its entity, unless a conversion posted it for deletion, which
`store_brands` is about; and what a save wrote is cached only once its writer's run has come to
storing it. It does not say that `AutoSaveData`'s edits are stored when they are shown:
they are put into the cache first (312), and stay there when the post is lost.
`NoTwins` holds for overlapping saves of every operation but `regroup`: a page that is stale,
even with no other save under way, inserts a brand a second time
(`MultiBrandServlet.java:235`). `Coherent` and `ImplementsTable` include such pages and leave
out the ids that they add again. An initiation that meets a missing chunk is lost
(`AsyncJDODatastore.java:48`); `store_live` leaves initiation out. What a get of the
cache returns is proved for one cost center; what the study system and this
one agree on holds of projects nothing overlapped or got lost about (`upset`).

Other behaviour that is wrong by any reading, but contradicts no sentence of the
repository, is in the models as it is in the code:

* Giving a PO number to two projects at the same time gives it to both.
* A removal asked for by the study system searches the last cost center of a user who has
  several (`ws/DeleteStudyPrjFromBudget.java:121`) and answers 200; it disables other projects
  whose id contains the asked one (156).
* Dividing a project whose shares leave a rest that rounding never reaches loops
  (`editProjects.jsp:1751`); giving up a conversion to a single brand leaves the popup's
  state (`editProjects.jsp:1179`); texts of ids are compared by prefix in the popup.
* A brand that is taken back from a row after the shares were made leaves them as they
  are (`editProjects.jsp:1745-1757`), and the check before the post
  (`editProjects.js:881-960`) does not add them up: what is posted may be less than
  a hundred percent.
* A month may be made negative in the grid (`slick.editors.js:656`); a project of one brand
  whose year is negative fills the popup's first row with it, and the check before the post
  lets it pass. `NegativeYear` is that case.
* A post that fails leaves the unsaved value on the page, some also the overlay
  (`editProjects.js:690`); the totals of a row are stale after the last share was put right
  (`editProjects.js:646`).
* `updateRowCount` of the grid removes a row under an open editor
  (`slick.grid.frozen.js:2284`), frozen cells of a row drawn again are blank
  (`slick.grid.frozen.js:1947`), and PageDown drops what was typed.
* With asynchronous editor loading, the timers of two grids open two editors and the
  second one throws. The long-text editor may store a text that was only looked at in its
  escaped form (`slick.editors.js:548`), and a blank one as the empty text.

## The proofs

`tlapm` checks every theorem below from its definitions; nothing is assumed but the
`ASSUME` of each module, which TLC evaluates in the runs of that module, and the
hypotheses named.

| theorem of | states | hypothesis | inductive invariant |
|---|---|---|---|
| `ReportStoreProofs` | `TypeCorrect`: `TypeOK` | | `TypeOK /\ HasId` |
| | `CachedRowsAreKeyed`: `CachedRowsKeyed` | | ... `/\ KeyedInv` |
| | `ShownRowsAreStored`: `CachedRowsStored` | | `TypeOK /\ HasId /\ RowsInv` |
| | `ProjectsHaveOneRow`: `NoTwins` | `"regroup" \notin Ops` | the same |
| | `CacheAgrees`: `Coherent` | `OneAtATime` | ... `/\ SerialInv` |
| | `StoreIsTheTable`: `ImplementsTable` | `OneAtATime` | the same |
| `ChunkedCacheProofs` | `CacheTypes`: `TypeOK` | | `TypeInv` |
| | `WholeMaps`: `RetrievedAll` | one cost center | `CacheInv` |
| | `NoNeedlessMiss`: `HitUnlessEvicted` | one cost center | `CacheInv` |
| | `TypeCorrect`, `RowsAreKeptOnce`, `ChunksFit` | | `Inv` |
| `GridProofs` | `OneEditorAtATime`: `OneEditor` | | `Good` |
| | `RejectedIsKept`: `RejectedKept` | | `Good` |
| | `StoredIsAsTyped`: `StoredAsTyped` | | `Sound` |
| | `ScreenFollowsColumns`: `ColumnsOnScreen` | | `ColumnsInv` |
| | `SelectedIsShown`: `SelectionShown` | | `SelectionInv` |
| | `SelectedIsKept`: `SelectionKept` | | `SelectionInv` |
| `GridViewProofs` | `EditorStaysOnItem`: `EditorOnItsItem` | | `GridViewInv` |
| | `EditorStaysOnScreen`: `EditorOnScreen` | | `GridViewInv` |
| | `TypedIsKept`: `TypedKept` | | `GridViewInv` |
| | `IndexIsRight` | | `GridViewInv` |
| | `ScreenIsCurrent`: `ScreenCurrent` | | `GridViewInv /\ ScreenInv` |
| `EditPageProofs` | `ShownIsSaved`: `SavedIsShown` | | `PageInv` |
| | `RequestsAlone`: `OneRequest` | | `PageInv` |
| | `PageUsable`: `Usable` | | `PageInv` |
| | `PopupStaysSound`: `PopupSound` | | `PageInv` |
| | `FamiliesStayTogether`: `FamilyAddsUp` | | `PageInv /\ AmountsInv` |
| | `AmountsStayTogether`: `AmountsAddUp` | `WholeShares` | the same |
| | `TotalsStayCurrent`: `TotalsCurrent` | | the same |
| `PopupProofs` | `DivisionIsPosted`: `[]~NegativeYear => DivisionPosted` | `WholeShares`, `KidTotals`, whole totals | `PageInv /\ AmountsInv /\ DivisionInv(page)`, the last while `~NegativeYear` |
| | `PageTypesOK`: `TypeOK` | | `PageInv /\ AmountsInv /\ SizesInv(page)`, posts within their bound |
| `StudyExchangeProofs` | `GeneratorTypeCorrect`: `TypeOK` of `ProjectSequence` | | `TypeOK` |
| | `IdsIncreaseWithOneLock`: `IdsIncrease` | `OneLock` | `SeqInv` |
| | `StudyTypes`: `StudyTypeOK` | | `StudyInv` |
| | `SystemsStayTogether`: `SystemsAgree` | | `StudyInv` |
| | `NumbersStayUnique`: `OneProjectPerPO` | | `StudyInv` |

* **Ids increase.** `IdsIncrease` speaks of returned values only; to keep it one must know
  that the counter bounds all of them (`Bounded`), that a call between its query and its
  commit still knows the counter's value (`Knowledge`), and for that, that nobody else is
  between query and commit (`Exclusion`: who is inside holds the lock). The commit is the
  interesting step; a lost commit only raises the counter.
* **Cached rows are keyed.** A row of the cache comes from the map of a handler or of a
  writer, and those come from the cache, from the datastore or from `makePersistentAll`.
  `KeyedInv` says of each of these places that its rows carry a key, and of the rows
  about to be posted nothing: new rows have none until they are persisted, which is why
  the writer must cache the result of `makePersistentAll` and not what it was sent.
* **Shown rows are stored, and a project has one row.** Both need to know where keys come
  from. `RowsInv` says of every row anywhere (cache, maps, rows to be posted) that its
  key was made once, by one request, for an id that request may use; that a row is under
  that id or under its study id, never elsewhere; and that an entity disappears only in a
  deletion of brands, which are dotted ids, by a request that went through the
  conversion. For `NoTwins` the keys of one id must then be one: an id is used by the seed
  or by the one request that created it. This is where the assumption about ids comes
  from (`IdsAssumption`): the naming of brands (`i.n` becomes `j.n` when `i` becomes `j`)
  and the study system's giving an id to no two projects. Re-grouping makes a row for a
  brand under an id the page chose, whatever is stored there, so a stale page makes twins,
  and the theorem leaves it out; `CacheAgrees` says of it that nothing but the ids that
  were added again has two rows. For the second part of `CachedRowsStored` the invariant
  also follows authors (`Own`, `Through`): what a save wrote is in no map and no entity
  before its writer's run has come to storing it, unless it is one of `AutoSaveData`.
* **The store is the table.** `OneAtATime` says that a save starts when all before it have
  settled, that the seeds are cached, that nothing is lost or evicted, that no project is
  converted to a single brand (each of these is needed: the runs that end with a
  counterexample show why), and that ids contain each other only within a family
  (`Families`). The instance of `store_serial` satisfies it. `SerialInv` goes by phases of
  the one save that is busy (`At` for its handler, `On` for its post). While it loads, the
  cache is exact: what it shows is stored, all of it and nothing else. From the moment it
  has changed its rows until they are persisted they are `Pending`: put over the map that
  the writer will have, they are what will be stored, and the table they make is one
  action of `ProjectTable` away from the present one. For an initiation that map is the
  cached one without the family the header names, for an auto save it is the one the
  handler put back itself. After the persist the writer's map is exact again. `Orderly`
  says what is needed of ids for initiation: that a project's study id is still free
  (`Unclaimed`), and since a creation must not take it, where every id comes from
  (`Sourced`). A stale page is a step of its own in the table
  (`AddAgain`), taken by the handler before it posts: from then on its ids are `Spoilt`, and
  `SerialInv` speaks of all others. Spoilt ids stay among themselves, since an id is
  initiated to one that is spoilt with it, and a family is re-written row by row; so the
  twins may be persisted, cached, disabled or initiated in any way without touching a row
  the table still speaks of. The persist is the only step that changes the table (`AppendActs`); all
  others are stutters (`Effect`).
* **A get returns a whole map.** `CacheInv` follows the two loops: what a put that was
  not disturbed has written so far and what it leaves behind, and what a get that was not
  disturbed has read so far. Chunks with higher numbers, left from a larger map, are not
  read because the index says how many there are. One cost center is needed in one place
  only, where the index is written back: with two, `cache_shared` is the counterexample.
* **Chunks.** `Position` ties the counters of the loop to each other, `Covered` says that
  every row taken so far is in a full chunk or in the one being filled, `Ordered` that
  chunks do not overlap, `SmallChunks` that each fits. That a chunk fits rests on
  arithmetic about the two roundings (`PerChunkFits`): the number of chunks is one more
  than the rounded quotient, which makes up for rounding the size in kilobytes down.
* **Editors.** `Exclusive` says that an editor is open exactly in the grid that holds the
  lock, that only a timer can find the lock taken (the exception of the code), and that the
  grid with the lock has no timer under way. A refused text is in that grid, so
  whatever the other grid does asks it first. `RejectedKept` is an action property.
  For `StoredAsTyped` one must also know what an editor was opened with: `Sound` says that
  a cell holds a value of its column's kind (`MayHold`), that an open editor remembers the
  value its cell still has, and that its text, as long as nothing was typed, is the one
  that value is shown as. What then remains is about the editors alone: a text that was
  only looked at serializes to the value it was made from, or is not stored.
* **Columns.** What is on the screen is made from the list of columns that is shown, their
  widths, and the number of frozen ones, by seven different functions, and no operation
  calls all of them. `Following` is what each operation keeps up to date, also while a
  header is dragged (header cells, positions, the number of style rules, the split, the
  marks of sorting); `Settled` is what moving the mouse leaves behind and only the end of
  the drag makes right again (rules, canvas, panes, the strip of headers). The proof goes
  by what each operation reads and writes (`Keeps`, `SameSource`). No sum has to be
  computed for it: both sides are the same function of the same widths.
* **Selection.** `Shows` is what is on the screen: of any two hashes of styles only the
  differences are applied to rows that were drawn at different times, and still each cell
  has the marks of both (`StylesIs`); the selected rows are those of the ranges, each once,
  which is what a fold over ranges of a fold over rows computes (`SelectedRowsAre`,
  `OnlyInIs`). For `SelectionKept` one must know more: `Linked`, that no row is selected when
  no item is remembered (then the data view does not put anything back); `Boxed`, that the
  box of a drag goes from where it began to where it was last, and both can be selected;
  `Flagged`, that styles by row are those of the items, unless they were taken away. When
  rows change the data view's handlers may run twice, for their number and for what is in
  them; `UpdatedTwice` shows that the second finds what the first one left. An attempt at
  this proof showed that the last of several ranges may be lost by an arrow, when its rows
  had gone before and the data view does not sync; `GrowsByOne` says so.
* **The page.** `PageInv` has a part for each concern, over fields of its own, so that an
  action has to be looked at only for the parts it touches (`Quiet` is the lemma for those
  that touch none). `OverlayInv`: the overlay is up for exactly one of a window, the
  popup, a narrow window, a PO number that was not saved, and one post, and posts that
  change projects are under it; from the moment the code lets a step pass by the overlay
  (`squeezed`, `loose`) it says nothing. `SavedInv`: one save is under way at most, exactly
  while the page is `saving`; the page shows what the server will have after it (`Sent`);
  and a cell that is saved on its own is not being edited meanwhile, which is what keeps a
  second save from starting. `ButtonInv`: a grey Submit has a post that will bring it back,
  or a project that still needs its sub-projects. `PopupInv`: rows are blank when the popup
  is closed, and if the loop over the shares hangs, a row with an amount is below one
  without a brand. The last is the only one that needs to know what a loop
  computes (`HangsMeans`, from the number of named rows).
* **Amounts and totals.** `AmountsInv` has three parts. `RowsOK`: in the rows of the page
  families add up and each row's total is that of its months, as far as the code keeps it.
  `SumsOK`: the filter remembers the rows that the search finds, and the total rows are
  the sums of these. `ServerOK`: families add up on the server and in every post on its way
  there, since the page is loaded again from the server. An edit of a month gives each
  sub-project but the last its rounded share, and the last what is left (`PartsAdd`), so
  families add up whatever the shares are: no hypothesis is needed. The total of the last
  one is however made from its own share; it is within half a unit for each sub-project
  of the sum of its months if the shares make a hundred percent, which is where
  `WholeShares` is needed (`RoundedIs`, `SumsClose`). For `TotalsCurrent` one must know that
  nothing but the creation of a project changes the search without summing again, and
  that a project and its sub-projects are never both counted. `PageInv` is used for the
  posts and for the cell being edited. The sums are over sets of any size; see below.
* **What the popup posts.** `DivisionPosted` is an action property of one click, "Save & Close",
  and rests on everything the user did before it. `InOrder` says of the rows: a row whose
  owner is filled in has one above it, and the numbers grow at least as fast as the rows
  do; so, when a row is deleted, the numbers of those that follow may drop and are still
  apart. `Shared` says that the shares make a hundred percent, or that no row has a total,
  or that a row with a brand has none. The loop that makes up the shares reaches a
  hundred whenever it ends, whatever the rounding left (`ShareOutShared`); a typed share,
  an undo and the deletion of a row keep the sum or leave one of the other two cases; and
  both of these are what the check before the post refuses. `Idle` says that a closed
  popup holds at most a total that was typed and not committed, and no brand, so that the
  next project does not start from the last one's shares. Months may be negative, so the total
  that a popup is opened with may be too, and no check refuses it: the theorem is about
  behaviours in which no popup is opened on such a year (`NegativeYear`), and assumes nothing
  of months and of what is typed into them. Two steps lead from the year of a project
  to the first row of its popup (`YearOpened`, `PopupForOpens`). The shares are *not* right when a
  brand was taken back from a row that had been shared (`page.popup.clean`) (see what
  the code gets wrong); the theorem excludes exactly that. The
  instance of `page` has the hypotheses.
* **The type of the page.** `SizesInv` follows the lists a user makes longer: the rows of the
  popup, those kept in the projects that are being created, and the cell being edited. A
  deletion keeps the number of rows (`DeletedSmall`), a loaded project brings as many as it
  has sub-projects. That amounts are numbers in every row and month comes from `AmountsInv`.
* **An editor and the rows under it.** The grid never asks where the item of its editor has
  gone: it hears which rows have changed, closes an editor in one of these and keeps any
  other. So what `EditorOnItsItem` needs of the data view is `Follows`: a row that is not
  reported and showed an item shows one with the same id. This holds of every
  `refresh()`, whatever the rows are computed from, filtered, paged and grouped (`RefreshIs`),
  and of every operation, since all of them end in one. On the side of the grid `WithIs` shows
  that both listeners keep the editor on its item or close it; `Leads` carries it through
  handlers that call several operations, such as the search with its three foldings. An
  editor leaves the screen only with its row (`RowCountIs`). For `TypedKept` a commit is
  followed to the item (`CommitIs`), which it finds by the id in the active row, so that
  `EditorOnItsItem` is needed again. An attempt at this proof showed an
  exception: when the row of an editor is hidden by a fold and becomes the add-new row, the
  next click drops what was typed; `Dropped` says so. The index of the data view is entered again
  from the first changed position on, so those before must be right (`IndexedIs`).
* **The screen.** `ScreenCurrent` is about two halves that never look at each other: the data
  view, which says which rows have changed, and the grid, which draws these anew and believes
  of all others that they are as they were. `ViewInv` is the first half. The rows of a view
  are items, groups and totals, paged (`Levels`, `Paged`); a row of an item that has
  not been reported as updated shows the item as it is (`Fresh`); and unless an update is
  unfinished the item of each row is in the index (`Settling`). From it follows `Unreported`:
  a row that is not reported shows after an operation what it showed before, since the diff
  (`Differs`) compares more than is shown. It is proved of `refresh()` once (`RefreshShows`)
  and of every operation because all of them end in one (`Moves`). `Current` is
  the second half: each drawn cell is right, but for a set of stale rows that are still to be
  drawn (`CellsRight`), and the viewport drawn last is drawn, and is the one seen or a timer is
  set (`InView`). `TellsCurrent` joins the two: both listeners of the grid draw whatever was
  reported, and a row that is removed is not missed. An attempt at this proof showed where the
  diff is too coarse: while an update is unfinished, an item can be deleted and
  another one added with its id; the row is then not drawn anew. No caller does that, and
  `Addable` leaves it out.
* **Two systems.** `StudyInv` says what each request under way knows of the project it is
  about, unless that project is `upset`: its guard still holds, the row it is going to
  store is still the one that is stored, its answer is still right. A step of another
  request about the same project makes it upset. An attempt at this proof showed
  that `upset` has to follow a project to its new id. With three requests no run shows
  that; with four one does.

The inductive invariants were checked by TLC on the instances of the runs (`RowsInv` on those of
`store_lossy`, 857 000 states, and `store_serial`; `SerialInv` on that of `store_serial`, 223 000
states; `StudyInv` on that of `study` and, before `Within` was part of it, with four requests; `PageInv` and `AmountsInv` on
that of `page`, 230 000 states; `DivisionInv` on the popup alone with all of its four rows,
2 050 000 states to depth 15, and by simulation with totals up to 400.00; `Sound`, `ColumnsInv` and `SelectionInv` and what
`GridViewInv` and `ScreenInv` say on that of `grid_view`, 127 000 states; `CacheInv` on that of `cache_one`, 1 966 000 states).

Proofs about sums need induction over finite sets. The library's induction theorems take an
operator as a parameter, which the provers cannot instantiate; `SetInduction` of
`DataLemmas` says the same of a set of sets and is proved by looking at a smallest
counterexample. From it come the lemmas about `SumFunctionOnSet` (`SumChoice`,
`SumRemove`, `SumSplit`) and `SumsClose`. What the folds over the
rows of the popup compute is reached the same way, since each is a sum or a maximum over the
indices. Where the order matters, as in `OnlyIn` and `SelectedRowsOf`, `FoldExists` says that
the function by which a fold is defined exists, and `CountUp` that its values can be
followed from one index to the next.

What stays with TLC: `SavesStored`, `DisabledInTheEnd` and `SavingEnds`, since liveness
under fairness and `ENABLED` are outside the prover's reach;
of the grid `TypesOK`, `ViewRight`, `WidthsRight` and
`DragGivesAndTakes`. `ViewRight` is about sums and lists of groups of groups and about
`SelectSeq`, of which the provers know nothing; the last two rest on a chain of recursive
functions over columns.

## Assumptions of the models

* A query sees every commit that precedes it. The application's queries by cost center
  are eventually consistent on App Engine, so the real store allows more than
  `ReportStore`: what a run finds violated stays violated.
* JDO stores a row as a whole under its key, and refuses to overwrite an entity that is
  gone. `makePersistentAll` outside a transaction may store any part of its rows.
* `Fresh`: a new project gets an id that no project has had. That this is not so with two
  generators is the subject of `ProjectSequence` and is kept apart from what the writer
  does.
* `IdsAssumption`: `StudyId` is a function, so a second initiation of one id is given the
  same id as the first, and ids of different projects stay different. The study system is
  outside this repository; the code relies on this when it replaces the id of a row.
* `Regroup`: the entity ids that a page of the multi-brand editor holds are those of rows in
  the map the handler loads, or else the handler does not find them and skips the row. Which
  of the family a page knows, and which it takes for new, is left open: the popup
  (`war/editProjects.jsp` 1838-1917) is filled from the rows of the page that was loaded last.
* `QueryFails` is part of `Loses`: a query that fails is a failure of the platform.
* The rows of a family share their project's name (`readProjectDataById` compares names
  beside ids), ids contain each other only within a family (`Extends`).
* `ChunkDivision` takes rows of one size and leaves the overhead of serialization out.
  With rows of different sizes the code gives no bound on a chunk.
* `TextsAssumption`: a number is read from the text it was written as, to `parseInt` as
  well if it has no fraction (no number has twenty-two digits, which would be written with
  an exponent), it has no sign that HTML escapes, and a text with an escaped sign is no
  number. `CellsAssumption`: at the start a cell has what its column can hold.
* `PageAssumption`, `PopupAssumption`: ids differ, also those of different projects, none
  is "Total", shares are natural numbers, a project alone has all of its share, and the
  popup has a row. `AmountsAssumption`: amounts are whole numbers. `BoundsAssumption`: the
  model's bounds leave room for the sub-projects that are loaded and one new project.
* `WholeShares`, a hypothesis of one theorem: the shares of the sub-projects of a project
  are positive and make a hundred percent, as the popup posts them (`DivisionPosted`). A
  share of 0 is taken for one of all by the code (`editProjects.js:538`), which the
  model follows. The instance of `page` has it. `KidTotals`: the totals of sub-projects that the page
  is loaded with are not negative; the popup refuses a negative one (`editProjects.jsp:1721`).
* The instance of `page` has no negative months, although the models and the theorems allow
  them: with a negative total in it the sum of a popup may be zero although its totals are
  not, or negative, and the shares that JavaScript computes then (`editProjects.jsp:1745-1757`;
  `Infinity` among them) are not modelled. A part of a
  month is rounded as `toFixed` does it, halves away from zero (`ToFixed`).
* `SelectionAssumption`: in a list of rows only headings have an id twice (they have none).
* `ItemsAssumption`: what the page loads and creates are items, and those it loads have ids
  of their own; the data view throws if they have not (`slick.dataview.js:111`).
* `ScrollAssumption`: the places one can scroll to are within the list and the columns.
* `Addable`: no item is added with the id of a row that an unfinished update still shows.
* `ColumnsAssumption`: every column has limits, and in each list a width that is not below
  the least it can be made, as in the page's column definitions.
* The error handler of memcache is installed: `DBUtil` and `AsyncJDODatastore` create an
  instance of `CostCenterCacheUtil`, whose initializer sets it.

## What is not modelled

* `addProjectToCostCenterCache` and `setActualSequence`: no caller that is reached.
* The fallback of `getAllReportsByPrjName` (a query by name when the map is empty), and
  the reads by user or brand: they change nothing and feed views.
* The servlet field `gMemoriId` of `StoreReport`: two creations at a time may name the
  brands of one after the other.
* Monthly values, percentages, comments and remarks of a row in `ReportStore`: data no
  property there tells apart, represented by the request that wrote them last. The months
  are in `PageData`.
* On the page: closed projects, the view "My Brands", the upload form, texts of ids (the
  popup's prefix matching), the second page's grid without frozen columns. Study projects
  left by pages that are stale. Plug-ins of the grid that no page loads.
* Views, downloads, login, the loading of constant tables, user data, the budget summary,
  spreadsheet uploads and their readers, backup and recovery, the copy of the vendor's
  storage client, vendored and generated code.

## What is left to prove

Of the grid:

* `ViewRight`: that the rows are those of the items is an argument about two levels of
  groups, each a list of lists; `TotalsRight` needs sums over the items of a group.
* `TypesOK`, of which the theorems use the parts they need (`GridBase`, `GridForm`).
* `DragGivesAndTakes`, and `WidthsRight` for columns within limits. Neither holds of every
  instance. Shrinking takes at least one unit from each column that has one to give, so it may
  take more than is missing, and a column at its maximum is not grown back: widths 5, 5, 7 of
  at least 4, 4, 1 and at most 5, 5, 7 in a window of 14 end at 13. Growing starts from the
  widths before the shrinking. A column that was stretched beyond its maximum, since
  `forceFitColumns` ignores that, can be dragged only back. A theorem needs hypotheses that
  exclude these cases.
