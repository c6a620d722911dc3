-------------------------- MODULE ReportStoreProofs --------------------------
(***************************************************************************)
(* Theorems about ReportStore, for any sets of ids and requests, any set   *)
(* of operations and any behaviour of memcache and of the network.         *)
(* The last part is about saves that do not overlap: with them ReportStore *)
(* implements ProjectTable.                                                *)
(***************************************************************************)
EXTENDS ReportStore, TLAPS

-----------------------------------------------------------------------------
(* The operators on maps return maps.                                       *)

\* No map has a row at i exactly when it has none.
LEMMA PresentRow == ASSUME NEW m \in Map, NEW i \in Present(m) PROVE i \in Ids /\ m[i] \in Row
  BY DEF Map, Present

LEMMA EmptyMapType == EmptyMap \in Map
  BY DEF EmptyMap, Map

\* Hiding the disabled rows of a map leaves a map.
LEMMA VisibleType == ASSUME NEW m \in Map PROVE Visible(m) \in Map
  BY PresentRow DEF Visible, Map

\* Putting one map over another gives a map.
LEMMA OverType == ASSUME NEW m \in Map, NEW n \in Map PROVE Over(m, n) \in Map
  BY DEF Over, Map

\* Removing ids from a map leaves a map.
LEMMA WithoutType == ASSUME NEW m \in Map, NEW S PROVE Without(m, S) \in Map
  BY DEF Without, Map

\* Keeping only some ids of a map leaves a map.
LEMMA OnlyType == ASSUME NEW m \in Map, NEW S PROVE Only(m, S) \in Map
  BY DEF Only, Map

\* The query returns a map.
LEMMA LiveMapType == TypeOK => LiveMap \in Map
<1> SUFFICES ASSUME TypeOK, NEW i \in Ids, LiveKeys(i) # {}
             PROVE  store[CHOOSE k \in LiveKeys(i) : TRUE].row \in Row
  BY DEF LiveMap, Map
<1> DEFINE k == CHOOSE k \in LiveKeys(i) : TRUE
<1>1. k \in LiveKeys(i)
  OBVIOUS
<1>2. k \in Keys /\ store[k] # NoRow
  BY <1>1 DEF LiveKeys
<1> QED
  BY <1>2 DEF TypeOK, Entity

\* Persisting gives every row a key of the datastore.
LEMMA KeyedType == ASSUME NEW r \in Requests, NEW rows \in Map PROVE Keyed(r, rows) \in Map
<1> SUFFICES ASSUME NEW i \in Present(rows), rows[i].key = NoKey
             PROVE  [rows[i] EXCEPT !.key = <<r, i>>] \in Row
  BY DEF Keyed, Map
<1>1. i \in Ids /\ rows[i] \in Row
  BY PresentRow
<1>2. <<r, i>> \in Keys
  BY <1>1 DEF Keys
<1> QED
  BY <1>1, <1>2 DEF Row

\* Writing rows leaves a store.
LEMMA WrittenType == ASSUME TypeOK, NEW rows \in Map, NEW S \in SUBSET Present(rows)
                     PROVE  Written(rows, S) \in [Keys -> {NoRow} \cup Entity]
<1> SUFFICES ASSUME NEW k \in Keys, \E i \in S : rows[i].key = k
             PROVE  LET i == CHOOSE i \in S : rows[i].key = k
                    IN  [id |-> i, row |-> rows[i]] \in Entity
  BY DEF Written, TypeOK
<1> DEFINE i == CHOOSE i \in S : rows[i].key = k
<1>1. i \in S
  OBVIOUS
<1>2. i \in Ids /\ rows[i] \in Row
  BY <1>1, PresentRow
<1> QED
  BY <1>2 DEF Entity

-----------------------------------------------------------------------------
(* The updates that several actions share.                                  *)

Reqs == [Requests -> Request]
Tasks == [Requests -> [Kinds -> Task]]

\* An empty post is a post.
LEMMA HandledType == NoTask \in Task /\ Handled \in Task
  BY EmptyMapType DEF NoTask, Handled, Task

\* A handler that ends, or goes on at another place, is a request.
LEMMA FinishType == ASSUME TypeOK, NEW r \in Requests, Finish(r) PROVE req' \in Reqs
<1>1. req[r] \in Request
  BY DEF TypeOK
<1>2. Ended(r) \in Request
  BY <1>1, EmptyMapType DEF Ended, Request
<1> QED
  BY <1>2 DEF TypeOK, Finish, Reqs

\* A request whose map has been loaded is a request.
LEMMA LoadedType == ASSUME TypeOK, NEW r \in Requests, NEW m \in Map PROVE Loaded(r, m) \in Request
<1>1. req[r] \in Request /\ req[r].rows \in Map
  BY DEF TypeOK, Request
<1>2. Over(m, req[r].rows) \in Map
  BY <1>1, OverType
<1> QED
  BY <1>1, <1>2, EmptyMapType DEF Loaded, Ended, Request

\* A handler that posts is a request, and nothing else changes.
LEMMA PostsType ==
  ASSUME TypeOK, NEW r \in Requests, NEW rows \in Map, NEW old \in Ids \cup {NoRow},
         Posts(r, rows, old)
  PROVE  TypeOK'
<1>1. [req[r] EXCEPT !.pc = "send", !.map = EmptyMap, !.rows = rows, !.old = old] \in Request
  BY EmptyMapType DEF TypeOK, Request
<1> QED
  BY <1>1 DEF TypeOK, Posts

\* An edit, by the rows it names.
LEMMA EditForm ==
  ASSUME NEW r \in Requests, Edit(r)
  PROVE  /\ req[r].pc = "apply" /\ UNCHANGED <<store, cache, holed, task>>
         /\ \/ req[r].op = "edit"
            \/ /\ req[r].op = "brand"
               /\ req[r].id \in Present(req[r].map) => req[r].map[req[r].id].kids = {}
         /\ \E named \in SUBSET Extends[req[r].id], po \in BOOLEAN :
              /\ req[r].id \in named
              /\ req[r].op = "brand" => named = {req[r].id} /\ ~po
              /\ EditTo(r, named, po)
  BY DEF Edit, Applies

\* The handler after it.
LEMMA EditToForm ==
  ASSUME TypeOK, NEW r \in Requests, NEW named, NEW po, EditTo(r, named, po),
         NEW rows, rows = EditedRows(r, req[r].map, named, po), rows \in Map
  PROVE  \E q \in Request :
           /\ req' = [req EXCEPT ![r] = q]
           /\ q.pc = "put" /\ q.map = Over(req[r].map, rows) /\ q.rows = rows
           /\ q.null = ~(named \subseteq Present(req[r].map))
           /\ q.op = req[r].op /\ q.id = req[r].id /\ q.old = req[r].old /\ q.again = req[r].again
           /\ q.twins = req[r].twins /\ q.gone = req[r].gone
<1>1. PICK map, null : map = Over(req[r].map, rows) /\ null = ~(named \subseteq Present(req[r].map))
  OBVIOUS
<1>2. PICK q : q = [req[r] EXCEPT !.pc = "put", !.map = map, !.rows = rows, !.null = null]
  OBVIOUS
<1>3. req[r] \in Request /\ map \in Map /\ null \in BOOLEAN
  BY <1>1, OverType DEF TypeOK, Request
<1>4. q \in Request
  BY <1>2, <1>3 DEF Request
<1>5. /\ q.pc = "put" /\ q.map = map /\ q.rows = rows /\ q.null = null
      /\ q.op = req[r].op /\ q.id = req[r].id /\ q.old = req[r].old /\ q.again = req[r].again
      /\ q.twins = req[r].twins /\ q.gone = req[r].gone
  BY <1>2, <1>3 DEF Request
<1>6. req' = [req EXCEPT ![r] = q]
  BY <1>1, <1>2 DEF EditTo
<1>7. q.null = ~(named \subseteq Present(req[r].map))
  BY <1>1, <1>5
<1> QED
  BY <1>1, <1>4, <1>5, <1>6, <1>7

\* An edited row keeps its key and its family.
LEMMA EditedRow ==
  ASSUME NEW m \in Map, NEW r \in Requests, NEW named, NEW po \in BOOLEAN
  PROVE  LET rows == EditedRows(r, m, named, po)
         IN  /\ rows \in Map /\ Present(rows) = named \cap Present(m)
             /\ \A i \in Present(rows) :
                  /\ rows[i].key = m[i].key /\ rows[i].kids = m[i].kids /\ rows[i].by = r
                  /\ rows[i].st = IF po THEN "Active" ELSE m[i].st
<1> DEFINE rows == EditedRows(r, m, named, po)
<1>1. ASSUME NEW i \in named \cap Present(m)
      PROVE  /\ rows[i] \in Row /\ rows[i] # NoRow /\ i \in Ids
             /\ rows[i].key = m[i].key /\ rows[i].kids = m[i].kids /\ rows[i].by = r
             /\ rows[i].st = IF po THEN "Active" ELSE m[i].st
  <2>1. i \in Ids /\ m[i] \in Row
    BY PresentRow
  <2>2. rows[i] = [m[i] EXCEPT !.st = IF po THEN "Active" ELSE @, !.by = r]
    BY <2>1 DEF EditedRows
  <2>3. rows[i] \in Row
    BY <2>1, <2>2 DEF Row, Status
  <2> QED
    BY <2>1, <2>2, <2>3, ReportStoreAssumption DEF Row
<1>2. \A i \in Ids : i \notin named \cap Present(m) => rows[i] = NoRow
  BY DEF EditedRows
<1>3. rows = [i \in Ids |-> rows[i]]
  BY DEF EditedRows
<1> HIDE DEF rows
<1>4. rows \in Map
  BY <1>1, <1>2, <1>3 DEF Map
<1>5. Present(rows) = named \cap Present(m)
  BY <1>1, <1>2 DEF Present
<1> QED
  BY <1>1, <1>4, <1>5 DEF rows

\* The brands that a regrouping keeps and those that are new to it.
Chosen(r, family, kept, new, f, kids, rows) ==
    /\ kept \in SUBSET (family \ {req[r].id})
    /\ new \in SUBSET (Extends[req[r].id] \ {req[r].id})
    /\ kept \cap new = {}
    /\ new # {} => req[r].id \in family
    /\ f \in IF family = {} THEN {req[r].id} ELSE family
    /\ kids = {req[r].id} \cup kept \cup new
    /\ rows = Rewritten(r, req[r].map, f, kids, new)
    /\ RegroupTo(r, f, kids, new)

\* A regrouping ends or is such a choice.
LEMMA RegroupForm ==
  ASSUME NEW r \in Requests, Regroup(r),
         NEW family, family = Extends[req[r].id] \cap Present(req[r].map)
  PROVE  /\ req[r].pc = "apply" /\ req[r].op = "regroup" /\ UNCHANGED <<store, cache, holed, task>>
         /\ Finish(r) \/ \E kept, new, f, kids, rows : Chosen(r, family, kept, new, f, kids, rows)
<1> DEFINE i == req[r].id
<1>1. PICK kept \in SUBSET (family \ {i}), new \in SUBSET (IF family = {} THEN {} ELSE Extends[i] \ {i}) :
        /\ kept \cap new = {}
        /\ IF new # {} /\ i \notin family THEN Finish(r)
           ELSE \E f \in IF family = {} THEN {i} ELSE family :
                  RegroupTo(r, f, {i} \cup kept \cup new, new)
  BY DEF Regroup
<1>2. req[r].pc = "apply" /\ req[r].op = "regroup" /\ UNCHANGED <<store, cache, holed, task>>
  BY DEF Regroup, Applies
<1>3. CASE new # {} /\ i \notin family
  BY <1>1, <1>2, <1>3
<1>4. CASE new # {} => i \in family
  <2>1. PICK f \in IF family = {} THEN {i} ELSE family : RegroupTo(r, f, {i} \cup kept \cup new, new)
    BY <1>1, <1>4
  <2>2. PICK kids, rows : kids = {i} \cup kept \cup new /\ rows = Rewritten(r, req[r].map, f, kids, new)
    OBVIOUS
  <2>3. Chosen(r, family, kept, new, f, kids, rows)
    BY <1>1, <1>4, <2>1, <2>2 DEF Chosen
  <2> QED
    BY <1>2, <2>3
<1> QED
  BY <1>3, <1>4

\* Without the sets.
LEMMA RegroupWeak ==
  ASSUME NEW r \in Requests, Regroup(r)
  PROVE  Finish(r) \/ \E f, kids, new : RegroupTo(r, f, kids, new)
<1>1. PICK family : family = Extends[req[r].id] \cap Present(req[r].map)
  OBVIOUS
<1>2. SUFFICES ASSUME ~Finish(r) PROVE \E f, kids, new : RegroupTo(r, f, kids, new)
  OBVIOUS
<1>3. PICK kept, new, f, kids, rows : Chosen(r, family, kept, new, f, kids, rows)
  BY <1>1, <1>2, RegroupForm
<1> QED
  BY <1>3 DEF Chosen

\* The handler after it.
LEMMA RegroupToForm ==
  ASSUME TypeOK, NEW r \in Requests, NEW f, NEW kids, NEW new, RegroupTo(r, f, kids, new),
         NEW rows, rows = Rewritten(r, req[r].map, f, kids, new), rows \in Map
  PROVE  \E q \in Request :
           /\ req' = [req EXCEPT ![r] = q]
           /\ q.pc = "send" /\ q.map = EmptyMap /\ q.rows = rows
           /\ q.twins = new \cap Present(req[r].map)
           /\ q.op = req[r].op /\ q.id = req[r].id /\ q.old = req[r].old /\ q.again = req[r].again
           /\ q.null = req[r].null /\ q.gone = req[r].gone
<1>1. PICK twins : twins = new \cap Present(req[r].map)
  OBVIOUS
<1>2. PICK q : q = [req[r] EXCEPT !.pc = "send", !.map = EmptyMap, !.twins = twins, !.rows = rows]
  OBVIOUS
<1>3. req[r] \in Request /\ twins \in SUBSET Ids
  BY <1>1 DEF TypeOK, Present
<1>4. q \in Request
  BY <1>2, <1>3, EmptyMapType DEF Request
<1>5. /\ q.pc = "send" /\ q.map = EmptyMap /\ q.rows = rows /\ q.twins = twins
      /\ q.op = req[r].op /\ q.id = req[r].id /\ q.old = req[r].old /\ q.again = req[r].again
      /\ q.null = req[r].null /\ q.gone = req[r].gone
  BY <1>2, <1>3 DEF Request
<1>6. req' = [req EXCEPT ![r] = q]
  BY <1>1, <1>2 DEF RegroupTo
<1> QED
  BY <1>1, <1>4, <1>5, <1>6

\* What such a choice posts: a rewritten row keeps its key or, if it is new, has none.
Regrouping(r, family, kept, new, f, kids, rows) ==
    /\ RegroupTo(r, f, kids, new)
    /\ rows = Rewritten(r, req[r].map, f, kids, new)
    /\ kids = {req[r].id} \cup kept \cup new
    /\ kids \in SUBSET Extends[req[r].id] /\ kids \in SUBSET Ids
    /\ new # {} => f \in family
    /\ rows \in Map /\ Present(rows) = new \cup (kids \cap family)
    /\ \A i \in Present(rows) : rows[i].kids = kids /\ rows[i].by = r
    /\ \A i \in new : rows[i].key = NoKey /\ rows[i].st = req[r].map[f].st
    /\ \A i \in Present(rows) \ new : rows[i].key = req[r].map[i].key /\ rows[i].st = req[r].map[i].st

\* It does.
LEMMA RegroupRow ==
  ASSUME TypeOK, NEW r \in Requests, req[r].id \in Ids,
         NEW family, family = Extends[req[r].id] \cap Present(req[r].map),
         NEW kept, NEW new, NEW f, NEW kids, NEW rows, Chosen(r, family, kept, new, f, kids, rows)
  PROVE  Regrouping(r, family, kept, new, f, kids, rows)
<1>0. PICK m : m = req[r].map
  OBVIOUS
<1>a. Extends[req[r].id] \subseteq Ids /\ req[r].id \in Extends[req[r].id]
  BY ReportStoreAssumption
<1>b. kids \in SUBSET Extends[req[r].id] /\ kids \in SUBSET Ids /\ new \in SUBSET kids
  BY <1>a DEF Chosen
<1>c. m \in Map /\ (new # {} => f \in family /\ f \in Present(m))
  BY <1>0 DEF TypeOK, Request, Chosen
<1>d. kids \cap Present(m) = kids \cap family
  BY <1>0, <1>b
<1>e. rows = Rewritten(r, m, f, kids, new)
  BY <1>0 DEF Chosen
<1>1. ASSUME NEW i \in new
      PROVE  /\ rows[i] \in Row /\ rows[i] # NoRow /\ i \in Ids
             /\ rows[i].key = NoKey /\ rows[i].st = m[f].st /\ rows[i].kids = kids /\ rows[i].by = r
  <2>1. m[f] \in Row
    BY <1>1, <1>c, PresentRow
  <2>2. rows[i] = [key |-> NoKey, st |-> m[f].st, kids |-> kids, by |-> r]
    BY <1>1, <1>b, <1>e DEF Rewritten
  <2>3. rows[i] \in Row
    BY <1>b, <2>1, <2>2 DEF Row
  <2> QED
    BY <1>1, <1>b, <2>2, <2>3, ReportStoreAssumption
<1>2. ASSUME NEW i \in (kids \cap Present(m)) \ new
      PROVE  /\ rows[i] \in Row /\ rows[i] # NoRow /\ i \in Ids
             /\ rows[i].key = m[i].key /\ rows[i].st = m[i].st /\ rows[i].kids = kids /\ rows[i].by = r
  <2>1. m[i] \in Row
    BY <1>2, <1>c, PresentRow
  <2>2. rows[i] = [m[i] EXCEPT !.kids = kids, !.by = r]
    BY <1>2, <1>b, <1>e DEF Rewritten
  <2>3. rows[i] \in Row
    BY <1>b, <2>1, <2>2 DEF Row
  <2> QED
    BY <2>1, <2>2, <2>3, ReportStoreAssumption DEF Row
<1>3. \A i \in Ids : i \notin new \cup (kids \cap Present(m)) => rows[i] = NoRow
  BY <1>e DEF Rewritten
<1>4. rows = [i \in Ids |-> rows[i]]
  BY <1>e DEF Rewritten
<1>5. rows \in Map
  BY <1>b, <1>1, <1>2, <1>3, <1>4 DEF Map
<1>6. Present(rows) = new \cup (kids \cap Present(m))
  BY <1>b, <1>1, <1>2, <1>3 DEF Present
<1>7. Present(rows) = new \cup (kids \cap family)
  BY <1>d, <1>6
<1>8. RegroupTo(r, f, kids, new) /\ kids = {req[r].id} \cup kept \cup new
  BY DEF Chosen
<1>9. \A i \in Present(rows) : rows[i].kids = kids /\ rows[i].by = r
  BY <1>1, <1>2, <1>6
<1>10. \A i \in Present(rows) \ new : rows[i].key = m[i].key /\ rows[i].st = m[i].st
  BY <1>2, <1>6
<1>11. \A i \in new : rows[i].key = NoKey /\ rows[i].st = m[f].st
  BY <1>1
<1> QED
  BY ONLY <1>0, <1>b, <1>c, <1>e, <1>5, <1>7, <1>8, <1>9, <1>10, <1>11 DEF Regrouping

\* A run of the writer that is about to put, or ends, is a post.
LEMMA ToPutType ==
  ASSUME TypeOK, NEW r \in Requests, NEW k \in Kinds, NEW m \in Map, ToPut(r, k, m)
  PROVE  task' \in Tasks
<1>1. task[r][k] \in Task
  BY DEF TypeOK
<1>2. [task[r][k] EXCEPT !.state = "put", !.rows = EmptyMap, !.map = m] \in Task
  BY <1>1, EmptyMapType DEF Task
<1> QED
  BY <1>2, HandledType DEF TypeOK, ToPut, Tasks

\* A run of the writer that has read the map, or ends without one.
LEMMA ReadForm ==
  ASSUME TypeOK, NEW r \in Requests, NEW k \in Kinds, TaskRead(r, k),
         NEW old, old = task[r][k].old, NEW m,
         m = IF old # NoRow /\ old \in Present(cache) THEN Without(cache, Family(cache, old)) ELSE cache
  PROVE  /\ task[r][k].state = "sent" /\ UNCHANGED <<store, cache, holed, req>> /\ m \in Map
         /\ \E t \in Task :
              /\ task' = [task EXCEPT ![r][k] = t]
              /\ \/ holed /\ t = Handled
                 \/ /\ t.state = "persist" /\ t.rows = task[r][k].rows /\ t.old = old
                    /\ IF holed THEN t.map = task[r][k].map /\ t.null ELSE t.map = m /\ t.null = task[r][k].null
<1>0. task[r][k] \in Task /\ m \in Map /\ holed \in BOOLEAN
  BY WithoutType DEF TypeOK
<1>1. PICK read : read = [task[r][k] EXCEPT !.state = "persist", !.map = m]
  OBVIOUS
<1>2. PICK lost : lost = [task[r][k] EXCEPT !.state = "persist", !.null = TRUE]
  OBVIOUS
<1>3. /\ read \in Task /\ read.state = "persist" /\ read.rows = task[r][k].rows /\ read.old = old
      /\ read.map = m /\ read.null = task[r][k].null
  BY <1>0, <1>1 DEF Task
<1>4. /\ lost \in Task /\ lost.state = "persist" /\ lost.rows = task[r][k].rows /\ lost.old = old
      /\ lost.map = task[r][k].map /\ lost.null = TRUE
  BY <1>0, <1>2 DEF Task
<1>5. task[r][k].state = "sent" /\ UNCHANGED <<store, cache, holed, req>>
  BY DEF TaskRead
<1>6. CASE ~holed
  <2>1. task' = [task EXCEPT ![r][k] = read]
    BY <1>1, <1>6 DEF TaskRead
  <2> QED
    BY <1>0, <1>3, <1>5, <1>6, <2>1
<1>7. CASE holed /\ old = NoRow
  <2>1. task' = [task EXCEPT ![r][k] = lost]
    BY <1>2, <1>7 DEF TaskRead
  <2> QED
    BY <1>0, <1>4, <1>5, <1>7, <2>1
<1>8. CASE holed /\ old # NoRow
  <2>1. task' = [task EXCEPT ![r][k] = Handled]
    BY <1>8 DEF TaskRead
  <2> QED
    BY <1>0, <1>5, <1>8, <2>1, HandledType
<1> QED
  BY <1>0, <1>6, <1>7, <1>8

-----------------------------------------------------------------------------
(* A request that has started names a project.                              *)

HasId == \A r \in Requests : req[r].pc # "idle" => req[r].id \in Ids

\* Every step keeps it.
LEMMA HasIdStep == TypeOK /\ HasId /\ [Next]_vars => HasId'
<1> SUFFICES ASSUME TypeOK, HasId, [Next]_vars PROVE HasId'
  OBVIOUS
<1>0. \A r \in Requests : req[r] \in Request
  BY DEF TypeOK
<1>1. ASSUME NEW r \in Requests, NEW q, req' = [req EXCEPT ![r] = q], q.id \in Ids
      PROVE  HasId'
  BY <1>1 DEF HasId, TypeOK
<1>2. ASSUME UNCHANGED req PROVE HasId'
  BY <1>2 DEF HasId
<1>3. ASSUME NEW r \in Requests, Create(r) PROVE HasId'
  BY <1>0, <1>3 DEF Create, HasId, Request, TypeOK
<1>4. ASSUME NEW r \in Requests, Submit(r) PROVE HasId'
  BY <1>0, <1>4 DEF Submit, HasId, Request, TypeOK
<1>5. ASSUME NEW r \in Requests, req[r].pc # "idle", Finish(r) PROVE HasId'
  BY <1>0, <1>5 DEF Finish, Ended, HasId, Request, TypeOK
<1>6. ASSUME NEW r \in Requests, NEW pc, req[r].pc # "idle", Goto(r, pc) PROVE HasId'
  BY <1>0, <1>6 DEF Goto, HasId, Request, TypeOK
<1>7. ASSUME NEW r \in Requests, NEW rows, NEW old, req[r].pc # "idle", Posts(r, rows, old)
      PROVE  HasId'
  BY <1>0, <1>7 DEF Posts, HasId, Request, TypeOK
<1>8. ASSUME NEW r \in Requests, NEW m, req[r].pc # "idle", req' = [req EXCEPT ![r] = Loaded(r, m)]
      PROVE  HasId'
  <2>1. Loaded(r, m).id = req[r].id
    BY <1>0 DEF Loaded, Ended, Request
  <2> QED
    BY <1>1, <1>8, <2>1 DEF HasId
<1>9. ASSUME NEW r \in Requests, RequestStep(r) PROVE HasId'
  <2>1. CASE GetHit(r)
    BY <1>8, <2>1 DEF GetHit
  <2>2. CASE GetMiss(r)
    BY <1>6, <2>2 DEF GetMiss
  <2>3. CASE QueryLive(r)
    BY <1>0, <2>3 DEF QueryLive, HasId, Request, TypeOK
  <2>4. CASE Fill(r)
    BY <1>8, <2>4 DEF Fill
  <2>5. CASE Edit(r)
    <3>1. PICK named, po : EditTo(r, named, po)
      BY <2>5, EditForm
    <3>2. req[r].pc = "apply"
      BY <2>5, EditForm
    <3> QED
      BY <1>0, <3>1, <3>2 DEF EditTo, HasId, Request, TypeOK
  <2>6. CASE Unbrand(r)
    <3> DEFINE m == req[r].map
               i == req[r].id
               q == [req[r] EXCEPT !.pc = "sendDelete", !.rows[i] = [m[i] EXCEPT !.kids = {}, !.by = r]]
    <3>1. Finish(r) \/ req' = [req EXCEPT ![r] = q]
      BY <2>6 DEF Unbrand
    <3>2. req[r].pc # "idle"
      BY <2>6 DEF Unbrand, Applies
    <3>3. q.id \in Ids
      BY <1>0, <3>2 DEF HasId, Request
    <3> HIDE DEF q
    <3> QED
      BY <1>1, <1>5, <3>1, <3>2, <3>3
  <2>7. CASE SendDelete(r)
    BY <1>0, <2>7 DEF SendDelete, HasId, Request, TypeOK
  <2>8. CASE Disable(r)
    BY <1>7, <2>8 DEF Disable, Applies
  <2>9. CASE Initiate(r)
    BY <1>5, <1>7, <2>9 DEF Initiate, Applies
  <2>10. CASE Regroup(r)
    <3>1. PICK family : family = Extends[req[r].id] \cap Present(req[r].map)
      OBVIOUS
    <3>2. Finish(r) \/ \E f, kids, new : RegroupTo(r, f, kids, new)
      BY <2>10, RegroupWeak
    <3>3. req[r].pc = "apply"
      BY <2>10, <3>1, RegroupForm
    <3>4. CASE Finish(r)
      BY <1>5, <3>3, <3>4
    <3>5. ASSUME NEW f, NEW kids, NEW new, RegroupTo(r, f, kids, new) PROVE HasId'
      BY <1>0, <3>3, <3>5 DEF RegroupTo, HasId, Request, TypeOK
    <3> QED
      BY <3>2, <3>4, <3>5
  <2>11. CASE Put(r)
    BY <1>5, <1>6, <2>11 DEF Put
  <2>12. CASE Send(r)
    BY <1>0, <2>12 DEF Send, Sent, Ended, HasId, Request, TypeOK
  <2>13. CASE QueryFails(r)
    BY <1>8, <2>13 DEF QueryFails
  <2> QED
    BY <1>9, <2>1, <2>2, <2>3, <2>4, <2>5, <2>6, <2>7, <2>8, <2>9, <2>10, <2>11, <2>12, <2>13
       DEF RequestStep
<1>10. ASSUME NEW r \in Requests, Crash(r) PROVE HasId'
  BY <1>5, <1>10 DEF Crash
<1>11. ASSUME NEW r \in Requests, TaskStep(r) PROVE HasId'
  BY <1>2, <1>11 DEF TaskStep, TaskAppend, TaskAppendFails, TaskDelete, TaskDeleteFails, TaskRead, TaskPut
<1> QED
  BY <1>2, <1>3, <1>4, <1>9, <1>10, <1>11 DEF Next, vars, TaskLost, Evict, EvictChunk

-----------------------------------------------------------------------------
(* Type correctness, one lemma per group of actions.                        *)

\* The initial state is well formed.
LEMMA InitType == Init => TypeOK
<1> SUFFICES ASSUME Init PROVE TypeOK
  OBVIOUS
<1> USE ReportStoreAssumption
<1>1. \A i \in Ids : Seeds[i] # NoRow => SeedRow(i) \in Row
  BY DEF SeedRow, Row, Keys, Status
<1>2. SeedMap \in Map
  BY <1>1 DEF SeedMap, Map
<1>3. store \in [Keys -> {NoRow} \cup Entity]
  <2> SUFFICES ASSUME NEW k \in Keys, k[1] = "seed", Seeds[k[2]] # NoRow
               PROVE  [id |-> k[2], row |-> SeedRow(k[2])] \in Entity
    BY DEF Init
  <2>1. k[2] \in Ids
    BY DEF Keys
  <2> QED
    BY <1>1, <2>1 DEF Entity
<1>4. cache \in Map /\ holed \in BOOLEAN
  BY <1>2, EmptyMapType DEF Init
<1>5. req \in [Requests -> Request]
  BY EmptyMapType DEF Init, Request
<1>6. task \in [Requests -> [Kinds -> Task]]
  BY HandledType DEF Init
<1> QED
  BY <1>3, <1>4, <1>5, <1>6 DEF TypeOK

\* Starting a request and loading its map.
LEMMA LoadType ==
  ASSUME TypeOK, NEW r \in Requests,
         \/ Create(r) \/ Submit(r) \/ GetHit(r) \/ GetMiss(r) \/ QueryLive(r) \/ QueryFails(r) \/ Fill(r)
  PROVE  TypeOK'
<1> USE DEF Reqs
<1>0. req[r] \in Request /\ req[r].map \in Map
  BY DEF TypeOK, Request
<1>1. CASE Create(r)
  <2>1. PICK i \in Ids : \E brands \in SUBSET {d \in Dotted : Root[d] = i}, st \in {"New", "Active"} :
          LET kids == IF brands = {} THEN {} ELSE {i} \cup brands
              row == [key |-> NoKey, st |-> st, kids |-> kids, by |-> r]
          IN  req' = [req EXCEPT ![r] =
                [@ EXCEPT !.op = "create", !.id = i, !.pc = "send",
                          !.rows = [j \in Ids |-> IF j \in kids \cup {i} THEN row ELSE NoRow]]]
    BY <1>1 DEF Create
  <2>1a. PICK brands \in SUBSET {d \in Dotted : Root[d] = i}, st \in {"New", "Active"} :
          LET kids == IF brands = {} THEN {} ELSE {i} \cup brands
              row == [key |-> NoKey, st |-> st, kids |-> kids, by |-> r]
          IN  req' = [req EXCEPT ![r] =
                [@ EXCEPT !.op = "create", !.id = i, !.pc = "send",
                          !.rows = [j \in Ids |-> IF j \in kids \cup {i} THEN row ELSE NoRow]]]
    BY <2>1
  <2> DEFINE kids == IF brands = {} THEN {} ELSE {i} \cup brands
             row == [key |-> NoKey, st |-> st, kids |-> kids, by |-> r]
             rows == [j \in Ids |-> IF j \in kids \cup {i} THEN row ELSE NoRow]
  <2>2. kids \in SUBSET Ids
    BY ReportStoreAssumption
  <2>3. row \in Row
    BY <2>2 DEF Row, Status
  <2>4. rows \in Map
    BY <2>3 DEF Map
  <2> HIDE DEF kids, rows
  <2>5. [req[r] EXCEPT !.op = "create", !.id = i, !.pc = "send", !.rows = rows] \in Request
    BY <1>0, <1>1, <2>4 DEF Request, Create
  <2> QED
    BY <1>1, <2>1a, <2>5 DEF TypeOK, Create, rows, kids
<1>2. CASE Submit(r)
  <2>1. PICK op \in Ops, i \in Ids :
          req' = [req EXCEPT ![r] = [@ EXCEPT !.op = op, !.id = i, !.pc = "get"]]
    BY <1>2 DEF Submit
  <2>2. [req[r] EXCEPT !.op = op, !.id = i, !.pc = "get"] \in Request
    BY <1>0 DEF Request
  <2> QED
    BY <1>2, <2>1, <2>2 DEF TypeOK, Submit
<1>3. CASE GetHit(r)
  <2>1. Visible(Got) \in Map
    BY VisibleType, EmptyMapType DEF Got, TypeOK
  <2> QED
    BY <1>3, <2>1, LoadedType DEF TypeOK, GetHit
<1>4. CASE GetMiss(r)
  <2>1. [req[r] EXCEPT !.pc = "query"] \in Request
    BY <1>0 DEF Request
  <2> QED
    BY <1>4, <2>1 DEF TypeOK, GetMiss, Goto
<1>5. CASE QueryLive(r)
  <2>1. [req[r] EXCEPT !.pc = "fill", !.map = LiveMap] \in Request
    BY <1>0, LiveMapType DEF Request
  <2> QED
    BY <1>5, <2>1 DEF TypeOK, QueryLive
<1>6. CASE Fill(r)
  BY <1>6, <1>0, LoadedType DEF TypeOK, Fill
<1>7. CASE QueryFails(r)
  <2>1. PICK S \in SUBSET Present(LiveMap) : req' = [req EXCEPT ![r] = Loaded(r, Only(LiveMap, S))]
    BY <1>7 DEF QueryFails
  <2>2. Loaded(r, Only(LiveMap, S)) \in Request
    BY LiveMapType, OnlyType, LoadedType
  <2> QED
    BY <1>7, <2>1, <2>2 DEF TypeOK, QueryFails
<1> QED
  BY <1>1, <1>2, <1>3, <1>4, <1>5, <1>6, <1>7

\* The edits of one cell.
LEMMA EditType ==
  ASSUME TypeOK, NEW r \in Requests,
         Edit(r) \/ Unbrand(r) \/ SendDelete(r) \/ Put(r)
  PROVE  TypeOK'
<1> USE DEF Reqs
<1>0. req[r] \in Request /\ req[r].map \in Map /\ req[r].rows \in Map
  BY DEF TypeOK, Request
<1> DEFINE m == req[r].map
           i == req[r].id
<1>1. CASE Edit(r)
  <2>1. PICK named \in SUBSET Extends[req[r].id], po \in BOOLEAN : EditTo(r, named, po)
    BY <1>1, EditForm
  <2>2. PICK rows : rows = EditedRows(r, m, named, po)
    OBVIOUS
  <2>3. rows \in Map
    BY <1>0, <2>2, EditedRow
  <2>4. \E q \in Request : req' = [req EXCEPT ![r] = q]
    BY <2>1, <2>2, <2>3, EditToForm
  <2>5. UNCHANGED <<store, cache, holed, task>>
    BY <1>1, EditForm
  <2> QED
    BY <2>4, <2>5 DEF TypeOK
<1>3. CASE Unbrand(r)
  <2>1. i \in Ids /\ m[i] \in Row
    BY <1>0, <1>3, PresentRow DEF Unbrand
  <2> DEFINE row == [m[i] EXCEPT !.kids = {}, !.by = r]
  <2>2. row \in Row
    BY <2>1 DEF Row
  <2>3. [req[r].rows EXCEPT ![i] = row] \in Map
    BY <1>0, <2>1, <2>2 DEF Map
  <2> HIDE DEF row
  <2>4. [req[r] EXCEPT !.pc = "sendDelete", !.rows[i] = row] \in Request
    BY <1>0, <2>3 DEF Request
  <2> QED
    BY <1>3, <2>4, FinishType DEF TypeOK, Unbrand, row
<1>4. CASE SendDelete(r)
  <2>0. PICK rows, gone : rows = Only(m, m[i].kids \cap Dotted) /\ gone = {rows[j].key : j \in Present(rows)}
    OBVIOUS
  <2>1. rows \in Map
    BY <1>0, <2>0, OnlyType
  <2>2. gone \in SUBSET (Keys \cup {NoKey})
    BY <2>0, <2>1, PresentRow DEF Row
  <2>3. "delete" \in Kinds /\ task[r]["delete"] \in Task
    BY DEF TypeOK, Kinds
  <2>4. [task[r]["delete"] EXCEPT !.state = "sent", !.rows = rows] \in Task
    BY <2>1, <2>3 DEF Task
  <2>5. [req[r] EXCEPT !.pc = "get", !.map = EmptyMap, !.again = TRUE, !.gone = gone] \in Request
    BY <1>0, <2>2, EmptyMapType DEF Request
  <2>6. /\ task' = [task EXCEPT ![r]["delete"] = [@ EXCEPT !.state = "sent", !.rows = rows]]
        /\ req' = [req EXCEPT ![r] = [@ EXCEPT !.pc = "get", !.map = EmptyMap, !.again = TRUE,
                                              !.gone = gone]]
        /\ UNCHANGED <<store, cache, holed>>
    BY <1>4, <2>0 DEF SendDelete
  <2> QED
    BY <2>3, <2>4, <2>5, <2>6 DEF TypeOK
<1>5. CASE Put(r)
  <2>1. [req[r] EXCEPT !.pc = "send"] \in Request
    BY <1>0 DEF Request
  <2>2. req' \in Reqs
    BY <1>5, <2>1, FinishType DEF TypeOK, Put, Goto
  <2> QED
    BY <1>0, <1>5, <2>2 DEF TypeOK, Put
<1> QED
  BY <1>1, <1>3, <1>4, <1>5

\* The operations that change several rows, and the post.
LEMMA PostType ==
  ASSUME TypeOK, HasId, NEW r \in Requests, Disable(r) \/ Initiate(r) \/ Regroup(r) \/ Send(r)
  PROVE  TypeOK'
<1> USE DEF Reqs
<1>0. req[r] \in Request /\ req[r].map \in Map /\ req[r].rows \in Map
  BY DEF TypeOK, Request
<1> DEFINE m == req[r].map
           i == req[r].id
<1>1. CASE Disable(r)
  <2> DEFINE gone == Extends[i] \cap Present(m)
             rows == [j \in Ids |-> IF j \in gone THEN [m[j] EXCEPT !.st = "Disabled", !.by = r]
                                    ELSE NoRow]
  <2>0. ASSUME NEW j \in gone PROVE [m[j] EXCEPT !.st = "Disabled", !.by = r] \in Row
    <3>1. m[j] \in Row
      BY <1>0, PresentRow
    <3> QED
      BY <3>1 DEF Row, Status
  <2>1. rows \in Map
    BY <2>0 DEF Map
  <2>2. Posts(r, rows, NoRow)
    BY <1>1 DEF Disable
  <2> HIDE DEF rows
  <2> QED
    BY <2>1, <2>2, PostsType
<1>2. CASE Initiate(r)
  <2> DEFINE moved == IF m[i].kids = {} THEN {i} ELSE m[i].kids \cap Extends[i]
             rows == [k \in Ids |->
                  IF \E j \in moved : StudyId[j] = k
                  THEN LET j == CHOOSE j \in moved : StudyId[j] = k
                       IN  [m[j] EXCEPT !.kids = {StudyId[n] : n \in @}, !.by = r]
                  ELSE NoRow]
  <2>1. CASE i \notin Present(m) \/ ~(moved \subseteq Present(m))
    BY <1>2, <2>1, FinishType DEF TypeOK, Initiate
  <2>2. CASE i \in Present(m) /\ moved \subseteq Present(m)
    <3>1. ASSUME NEW j \in moved
          PROVE  [m[j] EXCEPT !.kids = {StudyId[n] : n \in @}, !.by = r] \in Row
      <4>1. m[j] \in Row
        BY <1>0, <2>2, PresentRow
      <4>2. {StudyId[n] : n \in m[j].kids} \in SUBSET Ids
        BY <4>1, ReportStoreAssumption DEF Row
      <4> QED
        BY <4>1, <4>2 DEF Row
    <3>2. rows \in Map
      BY <3>1 DEF Map
    <3>3. i \in Ids
      BY <2>2 DEF Present
    <3>4. Posts(r, rows, i)
      BY <1>2, <2>2 DEF Initiate
    <3> HIDE DEF rows
    <3> QED
      BY <3>2, <3>3, <3>4, PostsType
  <2> QED
    BY <2>1, <2>2
<1>3. CASE Regroup(r)
  <2>1. PICK family : family = Extends[i] \cap Present(m)
    OBVIOUS
  <2>2. i \in Ids /\ UNCHANGED <<store, cache, holed, task>>
    <3>1. req[r].pc = "apply" /\ UNCHANGED <<store, cache, holed, task>>
      BY <1>3, <2>1, RegroupForm
    <3> QED
      BY <3>1 DEF HasId
  <2>3. CASE Finish(r)
    BY <2>2, <2>3, FinishType DEF TypeOK
  <2>4. ASSUME NEW kept, NEW new, NEW f, NEW kids, NEW rows, Chosen(r, family, kept, new, f, kids, rows)
        PROVE  TypeOK'
    <3>0. Regrouping(r, family, kept, new, f, kids, rows)
      BY <2>1, <2>2, <2>4, RegroupRow
    <3>1. rows \in Map /\ RegroupTo(r, f, kids, new) /\ rows = Rewritten(r, m, f, kids, new)
      BY <3>0 DEF Regrouping
    <3>2. \E q \in Request : req' = [req EXCEPT ![r] = q]
      BY <3>1, RegroupToForm
    <3> QED
      BY <2>2, <3>2 DEF TypeOK
  <2> QED
    BY <1>3, <2>1, <2>3, <2>4, RegroupForm
<1>4. CASE Send(r)
  <2>1. "append" \in Kinds /\ task[r]["append"] \in Task
    BY DEF TypeOK, Kinds
  <2>2. [task[r]["append"] EXCEPT !.state = "sent", !.rows = req[r].rows, !.old = req[r].old,
                                  !.null = req[r].null] \in Task
    BY <1>0, <2>1 DEF Task, Request
  <2>3. Ended(r) \in Request /\ [Ended(r) EXCEPT !.pc = "get", !.again = TRUE] \in Request
    BY <1>0, EmptyMapType DEF Ended, Request
  <2>4. req' \in Reqs
    BY <1>4, <2>3 DEF Send, Sent, TypeOK
  <2> QED
    BY <1>4, <2>1, <2>2, <2>4 DEF TypeOK, Send
<1> QED
  BY <1>1, <1>2, <1>3, <1>4

\* The asynchronous writer.
LEMMA TaskType ==
  ASSUME TypeOK, NEW r \in Requests, TaskStep(r)
  PROVE  TypeOK'
<1> USE DEF Reqs, Tasks
<1>0. {"append", "delete"} \subseteq Kinds
  BY DEF Kinds
<1>1. \A k \in Kinds : task[r][k] \in Task
  BY DEF TypeOK
<1>2. \A k \in Kinds : task[r][k].map \in Map /\ task[r][k].rows \in Map
  BY <1>1 DEF Task
<1>3. ASSUME NEW k \in Kinds, task' = [task EXCEPT ![r][k] = Handled] PROVE task' \in Tasks
  BY <1>3, HandledType DEF TypeOK
<1>4. CASE TaskAppend(r)
  <2> DEFINE rows == Keyed(r, task[r]["append"].rows)
  <2>1. rows \in Map
    BY <1>0, <1>2, KeyedType
  <2>2. Over(task[r]["append"].map, rows) \in Map
    BY <1>0, <1>2, <2>1, OverType
  <2>3. /\ store' = Written(rows, Present(rows))
        /\ ToPut(r, "append", Over(task[r]["append"].map, rows))
        /\ UNCHANGED <<cache, holed, req>>
    BY <1>4 DEF TaskAppend
  <2> HIDE DEF rows
  <2>4. store' \in [Keys -> {NoRow} \cup Entity]
    BY <2>1, <2>3, WrittenType
  <2>5. task' \in Tasks
    BY <1>0, <2>2, <2>3, ToPutType
  <2> QED
    BY <2>3, <2>4, <2>5 DEF TypeOK
<1>5. CASE TaskAppendFails(r)
  <2> DEFINE rows == Keyed(r, task[r]["append"].rows)
  <2>1. rows \in Map
    BY <1>0, <1>2, KeyedType
  <2>2. PICK S \in SUBSET Present(rows) : store' = Written(rows, S)
    BY <1>5 DEF TaskAppendFails
  <2>3. store' \in [Keys -> {NoRow} \cup Entity]
    BY <2>1, <2>2, WrittenType
  <2>4. task' \in Tasks
    BY <1>0, <1>3, <1>5 DEF TaskAppendFails
  <2> QED
    BY <1>5, <2>3, <2>4 DEF TypeOK, TaskAppendFails
<1>6. CASE TaskDelete(r)
  <2> DEFINE t == task[r]["delete"]
  <2>1. Without(t.map, Present(t.rows)) \in Map
    BY <1>0, <1>2, WithoutType
  <2>2. task' \in Tasks
    BY <1>0, <1>6, <2>1, ToPutType DEF TaskDelete
  <2>3. store' \in [Keys -> {NoRow} \cup Entity]
    BY <1>6 DEF TypeOK, TaskDelete
  <2> QED
    BY <1>6, <2>2, <2>3 DEF TypeOK, TaskDelete
<1>7. CASE TaskDeleteFails(r)
  <2>1. task' \in Tasks
    BY <1>0, <1>3, <1>7 DEF TaskDeleteFails
  <2>2. store' \in [Keys -> {NoRow} \cup Entity]
    BY <1>7 DEF TypeOK, TaskDeleteFails
  <2> QED
    BY <1>7, <2>1, <2>2 DEF TypeOK, TaskDeleteFails
<1>8. ASSUME NEW k \in Kinds, TaskRead(r, k) PROVE TypeOK'
  <2>1. UNCHANGED <<store, cache, holed, req>> /\ \E t \in Task : task' = [task EXCEPT ![r][k] = t]
    BY <1>8, ReadForm
  <2> QED
    BY <1>8, <2>1 DEF TypeOK
<1>9. ASSUME NEW k \in Kinds, TaskPut(r, k) PROVE TypeOK'
  <2>1. task' \in Tasks
    BY <1>3, <1>9 DEF TaskPut
  <2> QED
    BY <1>2, <1>9, <2>1 DEF TypeOK, TaskPut
<1> QED
  BY <1>4, <1>5, <1>6, <1>7, <1>8, <1>9 DEF TaskStep

\* Memcache, the network and the instances.
LEMMA EnvironmentType ==
  ASSUME TypeOK,
         \/ Evict \/ EvictChunk
         \/ \E r \in Requests : Crash(r) \/ \E k \in Kinds : TaskLost(r, k)
  PROVE  TypeOK'
<1>1. CASE Evict \/ EvictChunk
  BY <1>1, EmptyMapType DEF TypeOK, Evict, EvictChunk
<1>2. ASSUME NEW r \in Requests, Crash(r) PROVE TypeOK'
  BY <1>2, FinishType DEF TypeOK, Crash, Reqs
<1>3. ASSUME NEW r \in Requests, NEW k \in Kinds, TaskLost(r, k) PROVE TypeOK'
  BY <1>3, HandledType DEF TypeOK, TaskLost
<1> QED
  BY <1>1, <1>2, <1>3

\* No step leaves the types.
LEMMA TypeStep == TypeOK /\ HasId /\ [Next]_vars => (TypeOK /\ HasId)'
<1> SUFFICES ASSUME TypeOK, HasId, [Next]_vars PROVE TypeOK'
  BY HasIdStep
<1>1. ASSUME NEW r \in Requests, Create(r) \/ Submit(r) PROVE TypeOK'
  BY <1>1, LoadType
<1>2. ASSUME NEW r \in Requests, RequestStep(r) PROVE TypeOK'
  BY <1>2, LoadType, EditType, PostType DEF RequestStep
<1>3. ASSUME NEW r \in Requests, TaskStep(r) PROVE TypeOK'
  BY <1>3, TaskType
<1>4. CASE UNCHANGED vars
  BY <1>4 DEF vars, TypeOK
<1> QED
  BY <1>1, <1>2, <1>3, <1>4, EnvironmentType DEF Next

\* The state of the report store is well formed, whatever the ids, the number of saves, the
\* evictions and the losses.
THEOREM TypeCorrect == Spec => []TypeOK
<1>1. Init => TypeOK /\ HasId
  BY InitType DEF Init, HasId
<1> QED
  BY <1>1, TypeStep, PTL DEF Spec

-----------------------------------------------------------------------------
(* Cached rows know their entity. The invariant follows a row on its way:   *)
(* from the store or the cache into a handler, from a handler back into the *)
(* cache, and from the writer into the store and the cache. Only the rows   *)
(* of a post, and of a handler about to post, may have no key.              *)

AllKeyed(m) == \A i \in Ids : m[i] # NoRow => m[i].key # NoKey

KeyedInv ==
    /\ AllKeyed(cache)
    /\ \A k \in Keys : store[k] # NoRow => store[k].row.key # NoKey
    /\ \A r \in Requests : AllKeyed(req[r].map)
    /\ \A r \in Requests : req[r].pc \notin {"send", "done"} => AllKeyed(req[r].rows)
    /\ \A r \in Requests, k \in Kinds : AllKeyed(task[r][k].map)

\* The same on the result of each operator.
LEMMA KeyedOperators ==
  ASSUME NEW m \in Map, AllKeyed(m)
  PROVE  /\ AllKeyed(EmptyMap)
         /\ AllKeyed(Visible(m))
         /\ \A S : AllKeyed(Without(m, S))
         /\ \A n \in Map : AllKeyed(n) => AllKeyed(Over(m, n))
  BY DEF AllKeyed, EmptyMap, Visible, Without, Over

LEMMA EmptyMapKeyed == AllKeyed(EmptyMap)
  BY DEF AllKeyed, EmptyMap

\* The query returns rows with keys.
LEMMA LiveMapKeyed == TypeOK /\ KeyedInv => AllKeyed(LiveMap)
<1> SUFFICES ASSUME TypeOK, KeyedInv, NEW i \in Ids, LiveKeys(i) # {}
             PROVE  store[CHOOSE k \in LiveKeys(i) : TRUE].row.key # NoKey
  BY DEF AllKeyed, LiveMap
<1> DEFINE k == CHOOSE k \in LiveKeys(i) : TRUE
<1>1. k \in LiveKeys(i)
  OBVIOUS
<1> QED
  BY <1>1 DEF LiveKeys, KeyedInv

\* Persisting leaves no row without a key.
LEMMA KeyedKeyed == ASSUME NEW r \in Requests, NEW rows \in Map PROVE AllKeyed(Keyed(r, rows))
<1> SUFFICES ASSUME NEW i \in Ids, Keyed(r, rows)[i] # NoRow
             PROVE  Keyed(r, rows)[i].key # NoKey
  BY DEF AllKeyed
<1>1. CASE i \in Present(rows) /\ rows[i].key = NoKey
  <2>1. Keyed(r, rows)[i] = [rows[i] EXCEPT !.key = <<r, i>>] /\ rows[i] \in Row
    BY <1>1, PresentRow DEF Keyed
  <2>2. Keyed(r, rows)[i].key = <<r, i>>
    BY <2>1 DEF Row
  <2>3. <<r, i>> \in Keys
    BY DEF Keys
  <2> QED
    BY <2>2, <2>3, ReportStoreAssumption
<1>2. CASE ~(i \in Present(rows) /\ rows[i].key = NoKey)
  BY <1>2 DEF Keyed, Present
<1> QED
  BY <1>1, <1>2

\* Rows with keys are stored with their keys.
LEMMA WrittenKeyed ==
  ASSUME KeyedInv, NEW rows, AllKeyed(rows), NEW S \in SUBSET Present(rows), NEW k \in Keys,
         Written(rows, S)[k] # NoRow
  PROVE  Written(rows, S)[k].row.key # NoKey
<1>1. CASE \E i \in S : rows[i].key = k
  <2> DEFINE i == CHOOSE i \in S : rows[i].key = k
  <2>1. i \in S /\ rows[i].key = k
    BY <1>1
  <2>2. i \in Ids /\ rows[i] # NoRow
    BY <2>1 DEF Present
  <2>3. Written(rows, S)[k].row = rows[i]
    BY <1>1 DEF Written
  <2> QED
    BY <2>2, <2>3 DEF AllKeyed
<1>2. CASE ~\E i \in S : rows[i].key = k
  BY <1>2 DEF Written, KeyedInv
<1> QED
  BY <1>1, <1>2

\* A handler that ends keeps the invariant.
LEMMA FinishKeyed ==
  ASSUME TypeOK, KeyedInv, NEW r \in Requests, Finish(r), UNCHANGED <<store, cache, task>>
  PROVE  KeyedInv'
<1>1. Ended(r).map = EmptyMap /\ Ended(r).pc = "done"
  BY DEF TypeOK, Request, Ended
<1>2. req' = [req EXCEPT ![r] = Ended(r)]
  BY DEF Finish
<1> QED
  BY <1>1, <1>2, EmptyMapKeyed DEF KeyedInv, TypeOK, AllKeyed

\* So does a handler that changes its local variables to q, when the rows of q have keys.
LEMMA LocalKeyed ==
  ASSUME TypeOK, KeyedInv, NEW r \in Requests, NEW q, req' = [req EXCEPT ![r] = q],
         AllKeyed(q.map), q.pc \notin {"send", "done"} => AllKeyed(q.rows),
         UNCHANGED <<store, task>>, cache' = cache \/ AllKeyed(cache')
  PROVE  KeyedInv'
  BY DEF KeyedInv, TypeOK, AllKeyed

\* A run of the writer that ends, or goes on with a keyed map.
LEMMA PostKeyed ==
  ASSUME TypeOK, KeyedInv, NEW r \in Requests, NEW k \in Kinds, NEW t,
         task' = [task EXCEPT ![r][k] = t], AllKeyed(t.map), UNCHANGED req,
         \A l \in Keys : store'[l] # NoRow => store'[l].row.key # NoKey, AllKeyed(cache')
  PROVE  KeyedInv'
  BY DEF KeyedInv, TypeOK, AllKeyed

\* Starting a request and loading its map.
LEMMA LoadKeyed ==
  ASSUME TypeOK, KeyedInv, NEW r \in Requests,
         \/ Create(r) \/ Submit(r) \/ GetHit(r) \/ GetMiss(r) \/ QueryLive(r) \/ QueryFails(r) \/ Fill(r)
  PROVE  KeyedInv'
<1>0. req[r] \in Request /\ req[r].map \in Map /\ req[r].rows \in Map
  BY DEF TypeOK, Request
<1>1. AllKeyed(req[r].map) /\ (req[r].pc \notin {"send", "done"} => AllKeyed(req[r].rows))
  BY DEF KeyedInv
<1>2. ASSUME NEW m \in Map, AllKeyed(m), req' = [req EXCEPT ![r] = Loaded(r, m)],
             req[r].pc \in {"get", "query", "fill"},
             UNCHANGED <<store, task>>, cache' = cache \/ AllKeyed(cache')
      PROVE  KeyedInv'
  <2>1. AllKeyed(Over(m, req[r].rows))
    BY <1>0, <1>1, <1>2, KeyedOperators
  <2>2. AllKeyed(Loaded(r, m).map) /\ AllKeyed(Loaded(r, m).rows)
    BY <1>0, <1>1, <1>2, <2>1, EmptyMapKeyed DEF Loaded, Ended, Request
  <2> QED
    BY <1>2, <2>2, LocalKeyed
<1>3. CASE Create(r)
  <2>1. \E i, rows : req' = [req EXCEPT ![r] =
          [@ EXCEPT !.op = "create", !.id = i, !.pc = "send", !.rows = rows]]
    BY <1>3 DEF Create
  <2>2. PICK i, rows : req' = [req EXCEPT ![r] =
          [@ EXCEPT !.op = "create", !.id = i, !.pc = "send", !.rows = rows]]
    BY <2>1
  <2> DEFINE q == [req[r] EXCEPT !.op = "create", !.id = i, !.pc = "send", !.rows = rows]
  <2>3. q.map = req[r].map /\ q.pc = "send"
    BY <1>0 DEF Request
  <2>4. req' = [req EXCEPT ![r] = q] /\ UNCHANGED <<store, task, cache>>
    BY <1>3, <2>2 DEF Create
  <2> HIDE DEF q
  <2> QED
    BY <1>1, <2>3, <2>4, LocalKeyed
<1>4. CASE Submit(r)
  <2>1. PICK op \in Ops, i \in Ids :
          req' = [req EXCEPT ![r] = [@ EXCEPT !.op = op, !.id = i, !.pc = "get"]]
    BY <1>4 DEF Submit
  <2> DEFINE q == [req[r] EXCEPT !.op = op, !.id = i, !.pc = "get"]
  <2>2. q.map = req[r].map /\ q.rows = req[r].rows /\ req[r].pc = "idle"
    BY <1>0, <1>4 DEF Request, Submit, Ready
  <2>3. req' = [req EXCEPT ![r] = q] /\ UNCHANGED <<store, task, cache>>
    BY <1>4, <2>1 DEF Submit
  <2> HIDE DEF q
  <2> QED
    BY <1>1, <2>2, <2>3, LocalKeyed
<1>5. CASE GetHit(r)
  <2>1. Visible(Got) \in Map /\ AllKeyed(Visible(Got))
    BY VisibleType, EmptyMapType, EmptyMapKeyed, KeyedOperators DEF Got, TypeOK, KeyedInv
  <2> QED
    BY <1>2, <1>5, <2>1 DEF GetHit
<1>6. CASE GetMiss(r)
  <2> DEFINE q == [req[r] EXCEPT !.pc = "query"]
  <2>1. q.map = req[r].map /\ q.rows = req[r].rows /\ req[r].pc = "get"
    BY <1>0, <1>6 DEF Request, GetMiss
  <2>2. req' = [req EXCEPT ![r] = q] /\ UNCHANGED <<store, task, cache>>
    BY <1>6 DEF GetMiss, Goto
  <2> HIDE DEF q
  <2> QED
    BY <1>1, <2>1, <2>2, LocalKeyed
<1>7. CASE QueryLive(r)
  <2> DEFINE q == [req[r] EXCEPT !.pc = "fill", !.map = LiveMap]
  <2>1. q.map = LiveMap /\ q.rows = req[r].rows /\ req[r].pc = "query"
    BY <1>0, <1>7 DEF Request, QueryLive
  <2>2. req' = [req EXCEPT ![r] = q] /\ UNCHANGED <<store, task, cache>>
    BY <1>7 DEF QueryLive
  <2> HIDE DEF q
  <2> QED
    BY <1>1, <2>1, <2>2, LiveMapKeyed, LocalKeyed
<1>8. CASE Fill(r)
  BY <1>0, <1>1, <1>2, <1>8 DEF Fill
<1>9. CASE QueryFails(r)
  <2>1. PICK S \in SUBSET Present(LiveMap) : req' = [req EXCEPT ![r] = Loaded(r, Only(LiveMap, S))]
    BY <1>9 DEF QueryFails
  <2>2. Only(LiveMap, S) \in Map /\ AllKeyed(Only(LiveMap, S))
    BY LiveMapType, LiveMapKeyed, OnlyType DEF AllKeyed, Only
  <2> QED
    BY <1>2, <1>9, <2>1, <2>2 DEF QueryFails
<1> QED
  BY <1>3, <1>4, <1>5, <1>6, <1>7, <1>8, <1>9

\* Changing rows and posting them.
LEMMA ChangeKeyed ==
  ASSUME TypeOK, KeyedInv, NEW r \in Requests,
         \/ Edit(r) \/ Unbrand(r) \/ SendDelete(r)
         \/ Disable(r) \/ Initiate(r) \/ Regroup(r) \/ Put(r) \/ Send(r)
  PROVE  KeyedInv'
<1>0. req[r] \in Request /\ req[r].map \in Map /\ req[r].rows \in Map
  BY DEF TypeOK, Request
<1>1. AllKeyed(req[r].map) /\ (req[r].pc \notin {"send", "done"} => AllKeyed(req[r].rows))
  BY DEF KeyedInv
<1> DEFINE m == req[r].map
           i == req[r].id
<1>2. ASSUME NEW rows, NEW old, Posts(r, rows, old) PROVE KeyedInv'
  <2> DEFINE q == [req[r] EXCEPT !.pc = "send", !.map = EmptyMap, !.rows = rows, !.old = old]
  <2>1. q.map = EmptyMap /\ q.pc = "send"
    BY <1>0 DEF Request
  <2>2. req' = [req EXCEPT ![r] = q] /\ UNCHANGED <<store, task, cache>>
    BY <1>2 DEF Posts
  <2> HIDE DEF q
  <2> QED
    BY <2>1, <2>2, EmptyMapKeyed, LocalKeyed
<1>3. CASE Edit(r)
  <2>1. PICK named \in SUBSET Extends[req[r].id], po \in BOOLEAN : EditTo(r, named, po)
    BY <1>3, EditForm
  <2>2. PICK rows : rows = EditedRows(r, m, named, po)
    OBVIOUS
  <2>3. rows \in Map /\ AllKeyed(rows)
    BY <1>0, <1>1, <2>2, EditedRow DEF AllKeyed, Present
  <2>4. AllKeyed(Over(m, rows))
    BY <1>0, <1>1, <2>3, KeyedOperators
  <2>5. PICK q \in Request : req' = [req EXCEPT ![r] = q] /\ q.map = Over(m, rows) /\ q.rows = rows
    BY <2>1, <2>2, <2>3, EditToForm
  <2>6. UNCHANGED <<store, task, cache>>
    BY <1>3, EditForm
  <2> QED
    BY <2>3, <2>4, <2>5, <2>6, LocalKeyed
<1>5. CASE Unbrand(r)
  <2>1. i \in Ids /\ m[i] \in Row /\ m[i].key # NoKey
    BY <1>0, <1>1, <1>5, PresentRow DEF Unbrand, AllKeyed, Present
  <2> DEFINE row == [m[i] EXCEPT !.kids = {}, !.by = r]
             q == [req[r] EXCEPT !.pc = "sendDelete", !.rows[i] = row]
  <2>2. row.key # NoKey
    BY <2>1 DEF Row
  <2>3. Finish(r) \/ req' = [req EXCEPT ![r] = q]
    BY <1>5 DEF Unbrand
  <2> HIDE DEF row
  <2>4. AllKeyed([req[r].rows EXCEPT ![i] = row])
    BY <1>0, <1>1, <1>5, <2>2 DEF AllKeyed, Map, Unbrand, Applies
  <2>5. q.map = m /\ q.rows = [req[r].rows EXCEPT ![i] = row]
    BY <1>0 DEF Request
  <2>6. UNCHANGED <<store, task, cache>>
    BY <1>5 DEF Unbrand
  <2> HIDE DEF q
  <2> QED
    BY <1>1, <2>3, <2>4, <2>5, <2>6, LocalKeyed, FinishKeyed
<1>6. CASE SendDelete(r)
  <2>1. /\ \E gone : req' = [req EXCEPT ![r] = [@ EXCEPT !.pc = "get", !.map = EmptyMap, !.again = TRUE, !.gone = gone]]
        /\ UNCHANGED <<store, cache, holed>>
        /\ req[r].pc = "sendDelete"
    BY <1>6 DEF SendDelete
  <2>1a. PICK gone : req' = [req EXCEPT ![r] = [@ EXCEPT !.pc = "get", !.map = EmptyMap, !.again = TRUE, !.gone = gone]]
    BY <2>1
  <2> DEFINE q == [req[r] EXCEPT !.pc = "get", !.map = EmptyMap, !.again = TRUE, !.gone = gone]
  <2>2. q.map = EmptyMap /\ q.rows = req[r].rows
    BY <1>0 DEF Request
  <2>3. \A n \in Requests, k \in Kinds : task'[n][k].map = task[n][k].map
    BY <1>6 DEF SendDelete, TypeOK, Task
  <2>4. req' = [req EXCEPT ![r] = q]
    BY <2>1a
  <2> HIDE DEF q
  <2> QED
    <3>1. \A n \in Requests, k \in Kinds : AllKeyed(task'[n][k].map)
      BY <2>3 DEF KeyedInv
    <3>2. \A n \in Requests : AllKeyed(req'[n].map)
      BY <2>2, <2>4, EmptyMapKeyed DEF KeyedInv, TypeOK
    <3>3. \A n \in Requests : req'[n].pc \notin {"send", "done"} => AllKeyed(req'[n].rows)
      BY <1>1, <2>1, <2>2, <2>4 DEF KeyedInv, TypeOK
    <3> QED
      BY <2>1, <3>1, <3>2, <3>3 DEF KeyedInv, AllKeyed
<1>7. CASE Disable(r)
  BY <1>2, <1>7 DEF Disable
<1>8. CASE Initiate(r)
  BY <1>2, <1>8, FinishKeyed DEF Initiate
<1>9. CASE Regroup(r)
  <2>1. PICK family : family = Extends[i] \cap Present(m)
    OBVIOUS
  <2>2. UNCHANGED <<store, cache, holed, task>> /\ (Finish(r) \/ \E f, kids, new : RegroupTo(r, f, kids, new))
    BY <1>9, <2>1, RegroupForm, RegroupWeak
  <2>3. ASSUME NEW f, NEW kids, NEW new, RegroupTo(r, f, kids, new) PROVE KeyedInv'
    <3>1. PICK twins, rows : twins = new \cap Present(m) /\ rows = Rewritten(r, m, f, kids, new)
      OBVIOUS
    <3>2. PICK q : q = [req[r] EXCEPT !.pc = "send", !.map = EmptyMap, !.twins = twins, !.rows = rows]
      OBVIOUS
    <3>3. q.map = EmptyMap /\ q.pc = "send"
      BY <1>0, <3>2 DEF Request
    <3>4. req' = [req EXCEPT ![r] = q]
      BY <2>3, <3>1, <3>2 DEF RegroupTo
    <3> QED
      BY <2>2, <3>3, <3>4, EmptyMapKeyed, LocalKeyed
  <2> QED
    BY <2>2, <2>3, FinishKeyed
<1>10. CASE Put(r)
  <2> DEFINE q == [req[r] EXCEPT !.pc = "send"]
  <2>1. cache' = m /\ UNCHANGED <<store, task>>
    BY <1>10 DEF Put
  <2>2. CASE req[r].rows = EmptyMap
    <3>1. req' = [req EXCEPT ![r] = Ended(r)]
      BY <1>10, <2>2 DEF Put, Finish
    <3>2. Ended(r).map = EmptyMap /\ Ended(r).pc = "done"
      BY <1>0 DEF Request, Ended
    <3> QED
      BY <1>1, <2>1, <3>1, <3>2, EmptyMapKeyed, LocalKeyed
  <2>3. CASE req[r].rows # EmptyMap
    <3>1. req' = [req EXCEPT ![r] = q]
      BY <1>10, <2>3 DEF Put, Goto
    <3>2. q.map = m /\ q.pc = "send"
      BY <1>0 DEF Request
    <3> HIDE DEF q
    <3> QED
      BY <1>1, <2>1, <3>1, <3>2, LocalKeyed
  <2> QED
    BY <2>2, <2>3
<1>11. CASE Send(r)
  <2>0. PICK q : q = IF req[r].op = "initiate" THEN [Ended(r) EXCEPT !.pc = "get", !.again = TRUE] ELSE Ended(r)
    OBVIOUS
  <2>1. req' = [req EXCEPT ![r] = q] /\ UNCHANGED <<store, cache>>
    BY <1>11, <2>0 DEF Send, Sent
  <2>2. q.map = EmptyMap /\ (q.pc \in {"send", "done"} \/ q.rows = EmptyMap)
    BY <1>0, <2>0 DEF Request, Ended
  <2>3. \A n \in Requests, k \in Kinds : task'[n][k].map = task[n][k].map
    BY <1>11 DEF Send, TypeOK, Task
  <2> QED
    BY <2>1, <2>2, <2>3, EmptyMapKeyed, ZenonT(40) DEF KeyedInv, TypeOK, AllKeyed
<1> QED
  BY <1>3, <1>5, <1>6, <1>7, <1>8, <1>9, <1>10, <1>11

\* The asynchronous writer: what it puts back is what it read and what it persisted.
LEMMA TaskKeyed ==
  ASSUME TypeOK, KeyedInv, NEW r \in Requests, TaskStep(r)
  PROVE  KeyedInv'
<1>0. {"append", "delete"} \subseteq Kinds
  BY DEF Kinds
<1>1. \A k \in Kinds : /\ task[r][k] \in Task /\ AllKeyed(task[r][k].map)
                       /\ task[r][k].map \in Map /\ task[r][k].rows \in Map
  BY DEF TypeOK, KeyedInv, Task
<1>2. AllKeyed(Handled.map)
  BY EmptyMapKeyed DEF Handled, NoTask
<1>3. ASSUME NEW k \in Kinds, NEW m, ToPut(r, k, m), AllKeyed(m), UNCHANGED <<cache, req>>,
             \A l \in Keys : store'[l] # NoRow => store'[l].row.key # NoKey
      PROVE  KeyedInv'
  <2> DEFINE t == IF task[r][k].null THEN Handled
                  ELSE [task[r][k] EXCEPT !.state = "put", !.rows = EmptyMap, !.map = m]
  <2>1. AllKeyed(t.map)
    <3>1. [task[r][k] EXCEPT !.state = "put", !.rows = EmptyMap, !.map = m].map = m
      BY <1>1 DEF Task
    <3> QED
      BY <1>2, <1>3, <3>1
  <2>2. task' = [task EXCEPT ![r][k] = t]
    BY <1>3 DEF ToPut, TypeOK
  <2>3. AllKeyed(cache')
    BY <1>3 DEF KeyedInv, AllKeyed
  <2> HIDE DEF t
  <2> QED
    BY <1>3, <2>1, <2>2, <2>3, PostKeyed
<1>4. ASSUME NEW k \in Kinds, task' = [task EXCEPT ![r][k] = Handled], UNCHANGED req,
             cache' = cache \/ AllKeyed(cache'),
             \A l \in Keys : store'[l] # NoRow => store'[l].row.key # NoKey
      PROVE  KeyedInv'
  <2>1. AllKeyed(cache')
    BY <1>4 DEF KeyedInv, AllKeyed
  <2> QED
    BY <1>2, <1>4, <2>1, PostKeyed
<1>5. CASE TaskAppend(r)
  <2> DEFINE rows == Keyed(r, task[r]["append"].rows)
  <2>1. rows \in Map /\ AllKeyed(rows)
    BY <1>0, <1>1, KeyedType, KeyedKeyed
  <2>2. AllKeyed(Over(task[r]["append"].map, rows))
    BY <1>0, <1>1, <2>1, KeyedOperators
  <2>3. /\ store' = Written(rows, Present(rows))
        /\ ToPut(r, "append", Over(task[r]["append"].map, rows))
        /\ UNCHANGED <<cache, req>>
    BY <1>5 DEF TaskAppend
  <2> HIDE DEF rows
  <2>4. \A l \in Keys : store'[l] # NoRow => store'[l].row.key # NoKey
    BY <2>1, <2>3, WrittenKeyed
  <2> QED
    BY <1>0, <1>3, <2>2, <2>3, <2>4
<1>6. CASE TaskAppendFails(r)
  <2> DEFINE rows == Keyed(r, task[r]["append"].rows)
  <2>1. rows \in Map /\ AllKeyed(rows)
    BY <1>0, <1>1, KeyedType, KeyedKeyed
  <2>2. PICK S \in SUBSET Present(rows) : store' = Written(rows, S)
    BY <1>6 DEF TaskAppendFails
  <2> HIDE DEF rows
  <2>3. \A l \in Keys : store'[l] # NoRow => store'[l].row.key # NoKey
    BY <2>1, <2>2, WrittenKeyed
  <2> QED
    BY <1>0, <1>4, <1>6, <2>3 DEF TaskAppendFails
<1>7. CASE TaskDelete(r)
  <2> DEFINE t == task[r]["delete"]
             m == Without(t.map, Present(t.rows))
  <2>1. AllKeyed(m)
    BY <1>0, <1>1, KeyedOperators
  <2>2. \A l \in Keys : store'[l] # NoRow => store'[l].row.key # NoKey
    BY <1>7 DEF TaskDelete, KeyedInv
  <2>3. ToPut(r, "delete", m) /\ UNCHANGED <<cache, req>>
    BY <1>7 DEF TaskDelete
  <2> HIDE DEF m
  <2> QED
    BY <1>0, <1>3, <2>1, <2>2, <2>3
<1>8. CASE TaskDeleteFails(r)
  <2>1. \A l \in Keys : store'[l] # NoRow => store'[l].row.key # NoKey
    BY <1>8 DEF TaskDeleteFails, KeyedInv
  <2> QED
    BY <1>0, <1>4, <1>8, <2>1 DEF TaskDeleteFails
<1>9. ASSUME NEW k \in Kinds, TaskRead(r, k) PROVE KeyedInv'
  <2>1. PICK old, m :
          /\ old = task[r][k].old
          /\ m = IF old # NoRow /\ old \in Present(cache) THEN Without(cache, Family(cache, old))
                 ELSE cache
    OBVIOUS
  <2>2. AllKeyed(m)
    BY <2>1, KeyedOperators DEF KeyedInv, TypeOK
  <2>3. PICK t : task' = [task EXCEPT ![r][k] = t] /\ (t = Handled \/ t.map = m \/ t.map = task[r][k].map)
    BY <1>9, <2>1, ReadForm
  <2>4. UNCHANGED <<store, cache, req>>
    BY <1>9 DEF TaskRead
  <2>5. AllKeyed(t.map)
    BY <1>1, <1>2, <2>2, <2>3
  <2>6. AllKeyed(cache') /\ \A l \in Keys : store'[l] # NoRow => store'[l].row.key # NoKey
    BY <2>4 DEF KeyedInv, AllKeyed
  <2> QED
    BY <2>3, <2>4, <2>5, <2>6, PostKeyed
<1>10. ASSUME NEW k \in Kinds, TaskPut(r, k) PROVE KeyedInv'
  <2>1. AllKeyed(cache')
    BY <1>1, <1>10 DEF TaskPut, AllKeyed
  <2>2. \A l \in Keys : store'[l] # NoRow => store'[l].row.key # NoKey
    BY <1>10 DEF TaskPut, KeyedInv
  <2> QED
    BY <1>4, <1>10, <2>1, <2>2 DEF TaskPut
<1> QED
  BY <1>5, <1>6, <1>7, <1>8, <1>9, <1>10 DEF TaskStep

\* The initial cache and store hold rows that were persisted before.
LEMMA InitKeyed == Init => KeyedInv
<1> SUFFICES ASSUME Init PROVE KeyedInv
  OBVIOUS
<1>1. \A i \in Ids : SeedRow(i).key # NoKey
  BY ReportStoreAssumption DEF SeedRow, Keys
<1>2. AllKeyed(SeedMap) /\ AllKeyed(EmptyMap)
  BY <1>1 DEF AllKeyed, SeedMap, EmptyMap
<1>3. AllKeyed(cache)
  BY <1>2 DEF Init
<1>4. \A k \in Keys : store[k] # NoRow => store[k].row.key # NoKey
  BY <1>1 DEF Init, Keys
<1>5. \A r \in Requests : AllKeyed(req[r].map) /\ AllKeyed(req[r].rows)
  BY <1>2 DEF Init
<1>6. \A r \in Requests, k \in Kinds : AllKeyed(task[r][k].map)
  BY <1>2 DEF Init, NoTask
<1> QED
  BY <1>3, <1>4, <1>5, <1>6 DEF KeyedInv

\* No step breaks the invariant.
LEMMA KeyedStep == TypeOK /\ KeyedInv /\ [Next]_vars => KeyedInv'
<1> SUFFICES ASSUME TypeOK, KeyedInv, [Next]_vars PROVE KeyedInv'
  OBVIOUS
<1>1. ASSUME NEW r \in Requests, Create(r) \/ Submit(r) PROVE KeyedInv'
  BY <1>1, LoadKeyed
<1>2. ASSUME NEW r \in Requests, RequestStep(r) PROVE KeyedInv'
  BY <1>2, LoadKeyed, ChangeKeyed DEF RequestStep
<1>3. ASSUME NEW r \in Requests, TaskStep(r) PROVE KeyedInv'
  BY <1>3, TaskKeyed
<1>4. ASSUME NEW r \in Requests, Crash(r) PROVE KeyedInv'
  BY <1>4, FinishKeyed DEF Crash
<1>5. ASSUME NEW r \in Requests, NEW k \in Kinds, TaskLost(r, k) PROVE KeyedInv'
  <2>1. AllKeyed(Handled.map)
    BY EmptyMapKeyed DEF Handled, NoTask
  <2>2. AllKeyed(cache') /\ \A l \in Keys : store'[l] # NoRow => store'[l].row.key # NoKey
    BY <1>5 DEF TaskLost, KeyedInv, AllKeyed
  <2> QED
    BY <1>5, <2>1, <2>2, PostKeyed DEF TaskLost
<1>6. CASE Evict \/ EvictChunk
  BY <1>6, EmptyMapKeyed DEF Evict, EvictChunk, KeyedInv, AllKeyed
<1>7. CASE UNCHANGED vars
  BY <1>7 DEF vars, KeyedInv, AllKeyed
<1> QED
  BY <1>1, <1>2, <1>3, <1>4, <1>5, <1>6, <1>7 DEF Next

\* Every cached row knows its entity, for any number of overlapping saves, any family of
\* ids and any loss or eviction: a row that was shown is never saved as a second entity.
THEOREM CachedRowsAreKeyed == Spec => []CachedRowsKeyed
<1>1. Init => TypeOK /\ HasId /\ KeyedInv
  BY InitType, InitKeyed DEF Init, HasId
<1>2. TypeOK /\ HasId /\ KeyedInv /\ [Next]_vars => (TypeOK /\ HasId /\ KeyedInv)'
  BY TypeStep, KeyedStep
<1>3. TypeOK /\ KeyedInv => CachedRowsKeyed
  BY PresentRow DEF KeyedInv, CachedRowsKeyed, AllKeyed, TypeOK, Present
<1> QED
  BY <1>1, <1>2, <1>3, PTL DEF Spec

-----------------------------------------------------------------------------
(***************************************************************************)
(* What a cached row says of the datastore, and what the datastore says of *)
(* a project, for any overlap of saves and any loss or eviction.           *)
(*                                                                         *)
(* The invariant follows keys. A key is made once, under an id that its    *)
(* request may use, and its row never leaves that id but for the id the    *)
(* study system gave to it. Entities are only deleted for a conversion     *)
(* that posted them. And it follows authors: what a save wrote is in no    *)
(* map and in no entity before its writer's run has come to storing it,    *)
(* unless AutoSaveData wrote it.                                           *)
(***************************************************************************)

\* The ids under which request r may store rows that are new.
Makes(r) ==
    CASE req[r].op = "create" -> {req[r].id} \cup {d \in Dotted : Root[d] = req[r].id}
      [] req[r].op = "regroup" -> Extends[req[r].id]
      [] OTHER -> {}

Made(k) == IF k[1] = "seed" THEN Seeds[k[2]] # NoRow ELSE k[2] \in Makes(k[1])

\* The ids under which the row with key k is ever found.
Places(k) == {k[2], StudyId[k[2]]}

\* A conversion posted the entity with key k for deletion.
Gone(k) == \E r \in Requests : k \in req[r].gone

\* What b wrote may be seen.
Through(b) ==
    b \in Requests /\ req[b].op \notin {"edit", "brand"}
      => task[b]["append"].state \in {"put", "done"}

Placed(m) == \A i \in Present(m) : m[i].key # NoKey => Made(m[i].key) /\ i \in Places(m[i].key)

Backed(m) == \A i \in Present(m) :
    /\ m[i].key # NoKey
    /\ store[m[i].key] # NoRow \/ Gone(m[i].key)
    /\ Through(m[i].by)

Good(m) == Placed(m) /\ Backed(m)

Anew(r, m) == \A i \in Present(m) : m[i].key = NoKey => i \in Makes(r)

Own(r, m) == \A i \in Present(m) : m[i].by = r

Entities == \A k \in Keys : store[k] # NoRow =>
    /\ Made(k) /\ store[k].id \in Places(k) /\ store[k].row.key = k
    /\ Through(store[k].row.by)

\* The id of a creation is nobody else's.
Issued == \A r \in Requests : req[r].op = "create" =>
    /\ req[r].id \in Ids \ Dotted /\ Seeds[req[r].id] = NoRow
    /\ \A j \in Ids \ {req[r].id} : StudyId[j] # req[r].id
    /\ \A s \in Requests \ {r} : req[s].op = "create" => req[s].id # req[r].id

\* The handler with the local variables q has not made its post of rows to be stored.
Unsent(q) == q.pc # "done" /\ ~(q.op = "initiate" /\ q.again)

\* The local variables q of a handler.
Held(r, q) ==
    /\ Good(q.map) /\ Placed(q.rows) /\ Anew(r, q.rows) /\ Own(r, q.rows)
    /\ q.pc # "send" => Backed(q.rows)
    /\ q.pc = "idle" => q.op = "none" /\ q.rows = EmptyMap
    /\ q.pc \in {"idle", "apply", "sendDelete"} => ~q.again
    /\ ~q.again => q.gone = {}
    /\ q.op = "initiate" /\ q.again => q.pc \in {"get", "query", "fill", "done"}

\* A post t of request r.
Carried(r, k, t) ==
    /\ Good(t.map) /\ Placed(t.rows) /\ Anew(r, t.rows)
    /\ k = "append" => Own(r, t.rows)
    /\ k = "delete" => \A i \in Present(t.rows) : t.rows[i].key \in Keys /\ t.rows[i].key \in req[r].gone

RowsInv ==
    /\ Good(cache)
    /\ Entities
    /\ Issued
    /\ \A r \in Requests : Held(r, req[r])
    /\ \A r \in Requests, k \in Kinds : Carried(r, k, task[r][k])
    /\ \A r \in Requests : Unsent(req[r]) => task[r]["append"].state = "none"

-----------------------------------------------------------------------------
(* Ids and maps.                                                            *)

\* A row that is moved to its study id is still in one of its places.
LEMMA PlaceMoves ==
  ASSUME NEW k \in Keys, NEW i \in Places(k)
  PROVE  StudyId[i] \in Places(k)
<1>1. k[2] \in Ids
  BY DEF Keys
<1> QED
  BY <1>1, IdsAssumption DEF Places

\* What is said of the rows of a map holds of the rows that the operators leave in it.
LEMMA GoodOperators ==
  ASSUME NEW m \in Map, Good(m)
  PROVE  /\ Good(EmptyMap)
         /\ Good(Visible(m))
         /\ \A S : Good(Without(m, S)) /\ Good(Only(m, S))
         /\ \A n \in Map : Good(n) => Good(Over(m, n))
  BY DEF Good, Placed, Backed, Present, EmptyMap, Visible, Without, Only, Over

LEMMA GoodEmpty == Good(EmptyMap) /\ Placed(EmptyMap) /\ \A r : Anew(r, EmptyMap)
  BY DEF Good, Placed, Backed, Anew, Present, EmptyMap

\* The query returns rows that are stored.
LEMMA GoodLive == TypeOK /\ RowsInv => Good(LiveMap)
<1> SUFFICES ASSUME TypeOK, RowsInv, NEW i \in Ids, LiveKeys(i) # {}
             PROVE  LET row == store[CHOOSE k \in LiveKeys(i) : TRUE].row
                    IN  /\ row.key # NoKey /\ store[row.key] # NoRow
                        /\ Made(row.key) /\ i \in Places(row.key) /\ Through(row.by)
  BY DEF Good, Placed, Backed, Present, LiveMap
<1> DEFINE k == CHOOSE k \in LiveKeys(i) : TRUE
<1>1. k \in LiveKeys(i)
  OBVIOUS
<1>2. k \in Keys /\ store[k] # NoRow /\ store[k].id = i
  BY <1>1 DEF LiveKeys
<1>3. store[k].row.key = k /\ Made(k) /\ i \in Places(k) /\ Through(store[k].row.by)
  BY <1>2 DEF RowsInv, Entities
<1> QED
  BY <1>2, <1>3, ReportStoreAssumption

-----------------------------------------------------------------------------
(* What no step takes back: an entity that disappears was posted for        *)
(* deletion, which stays known; what may be seen may be seen from then on.  *)

Grows ==
    /\ \A k \in Keys : store[k] # NoRow => store'[k] # NoRow \/ Gone(k)'
    /\ \A r \in Requests : Makes(r) \subseteq Makes(r)'
    /\ \A r \in Requests : req[r].gone \subseteq req'[r].gone
    /\ \A b : Through(b) => Through(b)'

LEMMA GoneStays == ASSUME Grows, NEW k, Gone(k) PROVE Gone(k)'
  BY DEF Grows, Gone

LEMMA MadeStays == ASSUME Grows, NEW k \in Keys, Made(k) PROVE Made(k)'
<1>1. k[1] \in Requests \cup {"seed"}
  BY DEF Keys
<1> QED
  BY <1>1 DEF Grows, Made

LEMMA PlacedStays == ASSUME Grows, NEW m \in Map, Placed(m) PROVE Placed(m)'
<1>1. \A i \in Present(m) : m[i].key # NoKey => m[i].key \in Keys
  BY PresentRow DEF Row
<1>2. \A i \in Present(m) : m[i].key # NoKey => Made(m[i].key)'
  BY <1>1, MadeStays DEF Placed
<1> QED
  BY <1>2 DEF Placed

LEMMA AnewStays ==
  ASSUME Grows, NEW r \in Requests, NEW m \in Map, Anew(r, m) PROVE Anew(r, m)'
  BY DEF Anew, Grows

LEMMA GoodStays == ASSUME Grows, NEW m \in Map, Good(m) PROVE Good(m)'
<1>1. Placed(m)'
  BY PlacedStays DEF Good
<1>2. ASSUME NEW i \in Present(m)
      PROVE  /\ m[i].key # NoKey /\ (store'[m[i].key] # NoRow \/ Gone(m[i].key)')
             /\ Through(m[i].by)'
  <2>1. m[i].key \in Keys
    BY PresentRow DEF Good, Backed, Row
  <2>2. Through(m[i].by) /\ (store[m[i].key] # NoRow \/ Gone(m[i].key))
    BY DEF Good, Backed
  <2> QED
    BY <2>1, <2>2, GoneStays, ReportStoreAssumption DEF Grows
<1>3. Backed(m)'
  BY <1>2 DEF Backed
<1> QED
  BY <1>1, <1>3 DEF Good

LEMMA EntitiesStay == ASSUME Grows, Entities, UNCHANGED store PROVE Entities'
<1> SUFFICES ASSUME NEW k \in Keys, store[k] # NoRow
             PROVE  /\ Made(k)' /\ store[k].id \in Places(k) /\ store[k].row.key = k
                    /\ Through(store[k].row.by)'
  BY DEF Entities
<1>1. PICK b : b = store[k].row.by
  OBVIOUS
<1>2. Made(k) /\ store[k].id \in Places(k) /\ store[k].row.key = k /\ Through(b)
  BY <1>1 DEF Entities
<1>3. Through(b)' /\ Made(k)'
  BY <1>2, MadeStays DEF Grows
<1> QED
  BY <1>1, <1>2, <1>3

LEMMA HeldStays ==
  ASSUME Grows, NEW r \in Requests, NEW q \in Request, Held(r, q) PROVE Held(r, q)'
<1>1. q.map \in Map /\ q.rows \in Map
  BY DEF Request
<1>2. Good(q.map)' /\ Placed(q.rows)' /\ Anew(r, q.rows)'
  BY <1>1, GoodStays, PlacedStays, AnewStays DEF Held
<1>3. q.pc # "send" => Backed(q.rows)'
  BY <1>1, GoodStays DEF Held, Good
<1> QED
  BY <1>2, <1>3 DEF Held, Own

LEMMA SentStays ==
  ASSUME Grows, NEW r \in Requests, NEW k \in Kinds, NEW t \in Task, Carried(r, k, t)
  PROVE  Carried(r, k, t)'
<1>1. t.map \in Map /\ t.rows \in Map
  BY DEF Task
<1>2. Good(t.map)' /\ Placed(t.rows)' /\ Anew(r, t.rows)'
  BY <1>1, GoodStays, PlacedStays, AnewStays DEF Carried
<1> QED
  BY <1>2 DEF Carried, Grows, Own

-----------------------------------------------------------------------------
(* The updates that several actions share.                                  *)

\* What stays of a request that has not ended.
Follows(r, q) ==
    /\ req[r].pc # "done"
    /\ q.op = req[r].op /\ q.id = req[r].id
    /\ req[r].again => q.again
    /\ req[r].gone \subseteq q.gone

LEMMA FollowsUnsent == ASSUME NEW r, NEW q, Follows(r, q), Unsent(q) PROVE Unsent(req[r])
  BY DEF Follows, Unsent

\* A request goes on with the local variables q, and may put the map c in the cache.
LEMMA LocalRows ==
  ASSUME TypeOK, RowsInv, NEW r \in Requests, NEW q \in Request, req' = [req EXCEPT ![r] = q],
         Follows(r, q), Held(r, q),
         UNCHANGED <<store, task>>, NEW c \in Map, Good(c), cache' = c
  PROVE  RowsInv'
<1>1. \A s \in Requests : /\ req'[s].op = req[s].op /\ req'[s].id = req[s].id
                          /\ req[s].gone \subseteq req'[s].gone
  BY DEF TypeOK, Follows
<1>2. \A s \in Requests : Makes(s)' = Makes(s)
  BY <1>1 DEF Makes
<1>3. \A b : Through(b) => Through(b)'
  BY <1>1 DEF Through
<1>4. Grows
  BY <1>1, <1>2, <1>3 DEF Grows
<1>5. Good(cache)'
  BY <1>4, GoodStays
<1>6. Entities'
  BY <1>4, EntitiesStay DEF RowsInv
<1>7. Issued'
  BY <1>1 DEF RowsInv, Issued
<1>8. ASSUME NEW s \in Requests PROVE Held(s, req[s])'
  <2>1. PICK p : p = req[s]
    OBVIOUS
  <2>2. p \in Request /\ Held(s, p)
    BY <2>1 DEF TypeOK, RowsInv
  <2>3. Held(s, p)' /\ Held(r, q)'
    BY <1>4, <2>2, HeldStays
  <2>4. req'[s] = IF s = r THEN q ELSE p
    BY <2>1 DEF TypeOK
  <2> QED
    BY <2>3, <2>4
<1>9. ASSUME NEW s \in Requests, NEW k \in Kinds PROVE Carried(s, k, task[s][k])'
  <2>1. PICK t : t = task[s][k]
    OBVIOUS
  <2>2. t \in Task /\ Carried(s, k, t)
    BY <2>1 DEF TypeOK, RowsInv
  <2>3. Carried(s, k, t)'
    BY <1>4, <2>2, SentStays
  <2> QED
    BY <2>1, <2>3
<1>10. ASSUME NEW s \in Requests, Unsent(req'[s]) PROVE task'[s]["append"].state = "none"
  <2>1. req'[s] = IF s = r THEN q ELSE req[s]
    BY DEF TypeOK
  <2>2. Unsent(req[s])
    BY <1>10, <2>1, FollowsUnsent
  <2> QED
    BY <2>2 DEF RowsInv
<1>11. \A s \in Requests : (Unsent(req[s]) => task[s]["append"].state = "none")'
  BY <1>10 DEF Unsent
<1> QED
  BY <1>5, <1>6, <1>7, <1>8, <1>9, <1>11 DEF RowsInv

\* A request that keeps the cache as it is.
LEMMA OwnRows ==
  ASSUME TypeOK, RowsInv, NEW r \in Requests, NEW q \in Request, req' = [req EXCEPT ![r] = q],
         Follows(r, q), Held(r, q), UNCHANGED <<store, task, cache>>
  PROVE  RowsInv'
<1>1. PICK c : c = cache
  OBVIOUS
<1>2. c \in Map /\ Good(c) /\ cache' = c
  BY <1>1 DEF TypeOK, RowsInv
<1> QED
  BY <1>2, LocalRows

\* A handler that ends.
LEMMA EndedHeld ==
  ASSUME TypeOK, RowsInv, NEW r \in Requests, req[r].pc # "done"
  PROVE  /\ Ended(r) \in Request /\ Held(r, Ended(r)) /\ Follows(r, Ended(r))
         /\ Ended(r).pc = "done"
<1>1. req[r] \in Request
  BY DEF TypeOK
<1>2. /\ Ended(r).map = EmptyMap /\ Ended(r).rows = EmptyMap /\ Ended(r).pc = "done"
      /\ Ended(r).op = req[r].op /\ Ended(r).id = req[r].id /\ Ended(r).again = req[r].again
      /\ Ended(r).gone = req[r].gone
  BY <1>1 DEF Request, Ended
<1>3. Ended(r) \in Request
  BY <1>1, EmptyMapType DEF Request, Ended
<1>4. Held(r, Ended(r))
  <2>1. Held(r, req[r]) /\ Own(r, EmptyMap)
    BY DEF RowsInv, Own, Present, EmptyMap
  <2> QED
    BY <1>2, <2>1, GoodEmpty DEF Held, Good
<1>5. Follows(r, Ended(r))
  BY <1>2 DEF Follows
<1> QED
  BY <1>2, <1>3, <1>4, <1>5

LEMMA FinishRows ==
  ASSUME TypeOK, RowsInv, NEW r \in Requests, req[r].pc # "done", Finish(r),
         UNCHANGED <<store, task, cache>>
  PROVE  RowsInv'
<1>1. PICK q : q = Ended(r)
  OBVIOUS
<1>2. q \in Request /\ Held(r, q) /\ Follows(r, q)
  BY <1>1, EndedHeld
<1>3. req' = [req EXCEPT ![r] = q]
  BY <1>1 DEF Finish
<1> QED
  BY <1>2, <1>3, OwnRows

\* A handler that posts rows it may post.
LEMMA PostsRows ==
  ASSUME TypeOK, RowsInv, NEW r \in Requests, NEW rows \in Map, NEW old \in Ids \cup {NoRow},
         Posts(r, rows, old), req[r].pc = "apply", Placed(rows), Anew(r, rows), Own(r, rows)
  PROVE  RowsInv'
<1>1. PICK q : q = [req[r] EXCEPT !.pc = "send", !.map = EmptyMap, !.rows = rows, !.old = old]
  OBVIOUS
<1>2. req[r] \in Request
  BY DEF TypeOK
<1>3. /\ q \in Request /\ q.pc = "send" /\ q.map = EmptyMap /\ q.rows = rows
      /\ q.op = req[r].op /\ q.id = req[r].id /\ q.again = req[r].again /\ q.gone = req[r].gone
  BY <1>1, <1>2, EmptyMapType DEF Request
<1>4. Held(r, q) /\ Follows(r, q)
  <2>1. Held(r, req[r])
    BY DEF RowsInv
  <2> QED
    BY <1>3, <2>1, GoodEmpty DEF Held, Follows
<1>5. req' = [req EXCEPT ![r] = q] /\ UNCHANGED <<store, task, cache>>
  BY <1>1 DEF Posts
<1> QED
  BY <1>3, <1>4, <1>5, OwnRows

\* A step that is not a request's: a post becomes t, the store keeps what Grows says.
LEMMA TaskRows ==
  ASSUME TypeOK, RowsInv, NEW r \in Requests, NEW k \in Kinds, NEW t,
         task' = [task EXCEPT ![r][k] = t], UNCHANGED req, task[r][k].state # "none",
         Grows, Entities', Carried(r, k, t)',
         NEW c \in Map, Good(c), cache' = c
  PROVE  RowsInv'
<1>1. Good(cache)'
  BY GoodStays
<1>2. Issued'
  BY DEF RowsInv, Issued
<1>3. ASSUME NEW s \in Requests PROVE Held(s, req[s])'
  <2>1. PICK p : p = req[s]
    OBVIOUS
  <2>2. p \in Request /\ Held(s, p)
    BY <2>1 DEF TypeOK, RowsInv
  <2> QED
    BY <2>1, <2>2, HeldStays
<1>4. ASSUME NEW s \in Requests, NEW n \in Kinds PROVE Carried(s, n, task[s][n])'
  <2>1. PICK u : u = task[s][n]
    OBVIOUS
  <2>2. u \in Task /\ Carried(s, n, u)
    BY <2>1 DEF TypeOK, RowsInv
  <2>3. Carried(s, n, u)'
    BY <2>2, SentStays
  <2>4. task'[s][n] = IF s = r /\ n = k THEN t ELSE u
    BY <2>1 DEF TypeOK
  <2> QED
    BY <2>3, <2>4
<1>5. ASSUME NEW s \in Requests, Unsent(req[s]) PROVE task'[s]["append"].state = "none"
  <2>1. task[s]["append"].state = "none"
    BY <1>5 DEF RowsInv
  <2>2. "append" \in Kinds /\ ~(s = r /\ k = "append")
    BY <2>1 DEF Kinds
  <2>3. task'[s]["append"] = task[s]["append"]
    BY <2>2 DEF TypeOK
  <2> QED
    BY <2>1, <2>3
<1>6. \A s \in Requests : (Unsent(req[s]) => task[s]["append"].state = "none")'
  BY <1>5 DEF Unsent
<1> QED
  BY <1>1, <1>2, <1>3, <1>4, <1>6 DEF RowsInv

\* A request starts: until now it could create nothing, and wrote nothing.
LEMMA StartGrows ==
  ASSUME TypeOK, RowsInv, NEW r \in Requests, req[r].pc = "idle", NEW q \in Request,
         req' = [req EXCEPT ![r] = q], UNCHANGED <<store, task>>
  PROVE  Grows
<1>1. Held(r, req[r])
  BY DEF RowsInv
<1>2. Makes(r) = {} /\ req[r].gone = {} /\ Unsent(req[r]) /\ req[r].op = "none"
  BY <1>1 DEF Held, Makes, Unsent
<1>3. \A s \in Requests \ {r} : req'[s] = req[s]
  OBVIOUS
<1>4. \A s \in Requests : Makes(s) \subseteq Makes(s)'
  BY <1>2, <1>3 DEF Makes
<1>5. \A b : Through(b) => Through(b)'
  <2>1. task[r]["append"].state = "none"
    BY <1>2 DEF RowsInv
  <2>2. ~Through(r)
    BY <1>2, <2>1 DEF Through
  <2> QED
    BY <1>3, <2>2 DEF Through
<1> QED
  BY <1>2, <1>3, <1>4, <1>5 DEF Grows

LEMMA StartRows ==
  ASSUME TypeOK, RowsInv, NEW r \in Requests, req[r].pc = "idle", NEW q \in Request,
         req' = [req EXCEPT ![r] = q], UNCHANGED <<store, task, cache>>, Held(r, q)', Issued'
  PROVE  RowsInv'
<1>2. Unsent(req[r])
  BY DEF RowsInv, Held, Unsent
<1>3. \A s \in Requests \ {r} : req'[s] = req[s]
  OBVIOUS
<1>6. Grows
  BY StartGrows
<1>7. PICK c : c = cache
  OBVIOUS
<1>8. c \in Map /\ Good(c) /\ cache' = c
  BY <1>7 DEF TypeOK, RowsInv
<1>9. Good(cache)'
  BY <1>6, <1>8, GoodStays
<1>10. Entities'
  BY <1>6, EntitiesStay DEF RowsInv
<1>11. ASSUME NEW s \in Requests PROVE Held(s, req[s])'
  <2>1. PICK p : p = req[s]
    OBVIOUS
  <2>2. p \in Request /\ Held(s, p)
    BY <2>1 DEF TypeOK, RowsInv
  <2>3. Held(s, p)'
    BY <1>6, <2>2, HeldStays
  <2>4. req'[s] = IF s = r THEN q ELSE p
    BY <2>1 DEF TypeOK
  <2> QED
    BY <2>3, <2>4
<1>12. ASSUME NEW s \in Requests, NEW k \in Kinds PROVE Carried(s, k, task[s][k])'
  <2>1. PICK t : t = task[s][k]
    OBVIOUS
  <2>2. t \in Task /\ Carried(s, k, t)
    BY <2>1 DEF TypeOK, RowsInv
  <2>3. Carried(s, k, t)'
    BY <1>6, <2>2, SentStays
  <2> QED
    BY <2>1, <2>3
<1>13. \A s \in Requests : (Unsent(req[s]) => task[s]["append"].state = "none")'
  <2>1. \A s \in Requests : Unsent(req[s]) => task[s]["append"].state = "none"
    BY DEF RowsInv
  <2> QED
    BY <1>2, <1>3, <2>1 DEF Unsent
<1> QED
  BY <1>9, <1>10, <1>11, <1>12, <1>13 DEF RowsInv

-----------------------------------------------------------------------------
(* One lemma per group of actions.                                          *)

\* A creation uses an id nobody has, and ids made of it.
LEMMA CreateRows == ASSUME TypeOK, RowsInv, NEW r \in Requests, Create(r) PROVE RowsInv'
<1>1. PICK i \in Ids : Fresh(i) /\ \E brands \in SUBSET {d \in Dotted : Root[d] = i}, st \in {"New", "Active"} :
        LET kids == IF brands = {} THEN {} ELSE {i} \cup brands
            row == [key |-> NoKey, st |-> st, kids |-> kids, by |-> r]
        IN  req' = [req EXCEPT ![r] =
              [@ EXCEPT !.op = "create", !.id = i, !.pc = "send",
                        !.rows = [j \in Ids |-> IF j \in kids \cup {i} THEN row ELSE NoRow]]]
  BY DEF Create
<1>2. PICK brands \in SUBSET {d \in Dotted : Root[d] = i}, st \in {"New", "Active"} :
        LET kids == IF brands = {} THEN {} ELSE {i} \cup brands
            row == [key |-> NoKey, st |-> st, kids |-> kids, by |-> r]
        IN  req' = [req EXCEPT ![r] =
              [@ EXCEPT !.op = "create", !.id = i, !.pc = "send",
                        !.rows = [j \in Ids |-> IF j \in kids \cup {i} THEN row ELSE NoRow]]]
  BY <1>1
<1> DEFINE kids == IF brands = {} THEN {} ELSE {i} \cup brands
           row == [key |-> NoKey, st |-> st, kids |-> kids, by |-> r]
<1>3. PICK rows : rows = [j \in Ids |-> IF j \in kids \cup {i} THEN row ELSE NoRow]
  OBVIOUS
<1>4. row \in Row
  <2>1. kids \in SUBSET Ids
    BY ReportStoreAssumption
  <2> QED
    BY <2>1 DEF Row, Status
<1>5. rows \in Map
  BY <1>3, <1>4 DEF Map
<1>6. /\ Present(rows) \subseteq {i} \cup {d \in Dotted : Root[d] = i} /\ Own(r, rows)
      /\ \A j \in Present(rows) : rows[j].key = NoKey
  BY <1>3 DEF Present, Own
<1>7. PICK q : q = [req[r] EXCEPT !.op = "create", !.id = i, !.pc = "send", !.rows = rows]
  OBVIOUS
<1>8. req[r] \in Request /\ req[r].map \in Map /\ req[r].pc = "idle" /\ Good(req[r].map)
      /\ "create" \in Ops
  BY DEF TypeOK, Request, Create, Ready, RowsInv, Held
<1>9. /\ q \in Request /\ q.op = "create" /\ q.id = i /\ q.pc = "send" /\ q.rows = rows
      /\ q.map = req[r].map /\ q.gone = req[r].gone /\ q.again = req[r].again
  BY <1>5, <1>7, <1>8 DEF Request
<1>10. req' = [req EXCEPT ![r] = q] /\ UNCHANGED <<store, task, cache>>
  BY <1>2, <1>3, <1>7 DEF Create
<1>11. req'[r] = q /\ \A s \in Requests \ {r} : req'[s] = req[s]
  BY <1>10 DEF TypeOK
<1>12. Held(r, q)'
  <2>1. Makes(r)' = {i} \cup {d \in Dotted : Root[d] = i}
    BY <1>9, <1>11 DEF Makes
  <2>2. Anew(r, rows)' /\ Placed(rows)'
    BY <1>6, <2>1 DEF Anew, Placed
  <2>3. PICK m : m = req[r].map
    OBVIOUS
  <2>4. Held(r, req[r])
    BY DEF RowsInv
  <2>5. ~req[r].again /\ req[r].gone = {}
    BY <1>8, <2>4 DEF Held
  <2>6. Grows
    BY <1>8, <1>9, <1>10, StartGrows
  <2>7. Good(m)'
    BY <1>8, <2>3, <2>6, GoodStays
  <2>8. Own(r, rows)'
    BY <1>6 DEF Own
  <2> QED
    BY <1>9, <2>2, <2>3, <2>5, <2>7, <2>8 DEF Held
<1>13. Issued'
  <2>1. /\ i \in Ids \ Dotted /\ Seeds[i] = NoRow
        /\ \A j \in Ids \ {i} : StudyId[j] # i
        /\ \A s \in Requests : req[s].op = "create" => req[s].id # i
    BY <1>1 DEF Fresh
  <2> QED
    BY <1>9, <1>11, <2>1 DEF RowsInv, Issued
<1> QED
  BY <1>8, <1>9, <1>10, <1>12, <1>13, StartRows

LEMMA SubmitRows == ASSUME TypeOK, RowsInv, NEW r \in Requests, Submit(r) PROVE RowsInv'
<1>1. PICK op \in Ops \ {"create"}, i \in Ids :
        req' = [req EXCEPT ![r] = [@ EXCEPT !.op = op, !.id = i, !.pc = "get"]]
  BY DEF Submit
<1>2. PICK q : q = [req[r] EXCEPT !.op = op, !.id = i, !.pc = "get"]
  OBVIOUS
<1>3. req[r] \in Request /\ req[r].pc = "idle" /\ Held(r, req[r])
  BY DEF TypeOK, Submit, Ready, RowsInv
<1>4. req[r].map \in Map /\ Good(req[r].map) /\ req[r].rows = EmptyMap /\ ~req[r].again
      /\ req[r].op = "none" /\ req[r].gone = {}
  BY <1>3 DEF Request, Held
<1>5. /\ q \in Request /\ q.op = op /\ q.id = i /\ q.pc = "get" /\ q.rows = EmptyMap
      /\ q.map = req[r].map /\ q.again = req[r].again /\ q.gone = req[r].gone
  BY <1>2, <1>3, <1>4 DEF Request
<1>6. req' = [req EXCEPT ![r] = q] /\ UNCHANGED <<store, task, cache>>
  BY <1>1, <1>2 DEF Submit
<1>7. req'[r] = q /\ \A s \in Requests \ {r} : req'[s] = req[s]
  BY <1>6 DEF TypeOK
<1>8. Held(r, q)'
  <2>1. PICK m : m = req[r].map
    OBVIOUS
  <2>2. Grows
    BY <1>3, <1>5, <1>6, StartGrows
  <2>3. Good(m)'
    BY <1>4, <2>1, <2>2, GoodStays
  <2>4. (Good(EmptyMap) /\ Placed(EmptyMap) /\ Anew(r, EmptyMap))'
    BY EmptyMapType, GoodEmpty, GoodStays, PlacedStays, AnewStays, <2>2
  <2>5. Own(r, EmptyMap)'
    BY DEF Own, Present, EmptyMap
  <2> QED
    BY <1>4, <1>5, <2>1, <2>3, <2>4, <2>5 DEF Held, Good
<1>9. Issued'
  BY <1>5, <1>7 DEF RowsInv, Issued
<1> QED
  BY <1>3, <1>5, <1>6, <1>8, <1>9, StartRows

\* A request loads its map: what it gets is backed, and so are the rows it kept.
LEMMA LoadedHeld ==
  ASSUME TypeOK, RowsInv, NEW r \in Requests, req[r].pc \in {"get", "query", "fill"},
         NEW m \in Map, Good(m), NEW q, q = Loaded(r, m)
  PROVE  q \in Request /\ Held(r, q) /\ Follows(r, q)
<1>1. req[r] \in Request /\ req[r].rows \in Map /\ Held(r, req[r])
  BY DEF TypeOK, Request, RowsInv
<1>2. Placed(req[r].rows) /\ Backed(req[r].rows) /\ Anew(r, req[r].rows) /\ Own(r, req[r].rows)
  BY <1>1 DEF Held
<1>3. Good(Over(m, req[r].rows))
  BY <1>1, <1>2, GoodOperators DEF Good
<1>4. CASE req[r].again /\ req[r].op # "brand"
  BY <1>4, EndedHeld DEF Loaded
<1>5. CASE ~(req[r].again /\ req[r].op # "brand")
  <2>1. /\ q.op = req[r].op /\ q.id = req[r].id /\ q.again = req[r].again /\ q.gone = req[r].gone
        /\ q.pc \in {"put", "apply"} /\ q.rows = req[r].rows /\ (q.pc = "apply" => ~q.again)
        /\ q.map = m \/ q.map = Over(m, req[r].rows)
    BY <1>1, <1>5 DEF Loaded, Request
  <2>2. q.op = "initiate" => ~q.again
    BY <1>5, <2>1
  <2>3. Held(r, q)
    BY <1>1, <1>2, <1>3, <2>1, <2>2 DEF Held
  <2>4. Follows(r, q)
    BY <2>1 DEF Follows
  <2> QED
    BY <2>3, <2>4, LoadedType
<1> QED
  BY <1>4, <1>5

LEMMA LoadRows ==
  ASSUME TypeOK, RowsInv, NEW r \in Requests,
         GetHit(r) \/ GetMiss(r) \/ QueryLive(r) \/ QueryFails(r) \/ Fill(r)
  PROVE  RowsInv'
<1>0. /\ req[r] \in Request /\ req[r].map \in Map /\ req[r].rows \in Map
      /\ Held(r, req[r]) /\ Good(req[r].map)
  BY DEF TypeOK, Request, RowsInv, Held
<1>1. ASSUME NEW m \in Map, Good(m), req[r].pc \in {"get", "query", "fill"},
             req' = [req EXCEPT ![r] = Loaded(r, m)], UNCHANGED <<store, task>>,
             cache' = cache \/ cache' = m
      PROVE  RowsInv'
  <2>1. PICK q : q = Loaded(r, m)
    OBVIOUS
  <2>2. q \in Request /\ Held(r, q) /\ Follows(r, q)
    BY <1>1, <2>1, LoadedHeld
  <2> QED
    BY <1>1, <2>1, <2>2, LocalRows, OwnRows
<1>2. CASE GetHit(r)
  <2>1. PICK m : m = Visible(Got)
    OBVIOUS
  <2>2. m \in Map /\ Good(m)
    BY <2>1, VisibleType, EmptyMapType, GoodEmpty, GoodOperators DEF Got, TypeOK, RowsInv
  <2> QED
    BY <1>1, <1>2, <2>1, <2>2 DEF GetHit
<1>3. CASE GetMiss(r)
  <2>1. PICK q : q = [req[r] EXCEPT !.pc = "query"]
    OBVIOUS
  <2>2. /\ q \in Request /\ q.op = req[r].op /\ q.id = req[r].id /\ q.again = req[r].again
        /\ q.map = req[r].map /\ q.rows = req[r].rows /\ q.pc = "query" /\ q.gone = req[r].gone
    BY <1>0, <2>1 DEF Request
  <2>3. Held(r, q) /\ Follows(r, q)
    BY <1>0, <1>3, <2>2 DEF Held, Follows, GetMiss
  <2>4. req' = [req EXCEPT ![r] = q] /\ UNCHANGED <<store, task, cache>>
    BY <1>3, <2>1 DEF GetMiss, Goto
  <2> QED
    BY <2>2, <2>3, <2>4, OwnRows
<1>4. CASE QueryLive(r)
  <2>1. PICK q : q = [req[r] EXCEPT !.pc = "fill", !.map = LiveMap]
    OBVIOUS
  <2>2. /\ q \in Request /\ q.op = req[r].op /\ q.id = req[r].id /\ q.again = req[r].again
        /\ q.map = LiveMap /\ q.rows = req[r].rows /\ q.pc = "fill" /\ q.gone = req[r].gone
    BY <1>0, <2>1, LiveMapType DEF Request
  <2>3. Held(r, q) /\ Follows(r, q)
    BY <1>0, <1>4, <2>2, GoodLive DEF Held, Follows, QueryLive
  <2>4. req' = [req EXCEPT ![r] = q] /\ UNCHANGED <<store, task, cache>>
    BY <1>4, <2>1 DEF QueryLive
  <2> QED
    BY <2>2, <2>3, <2>4, OwnRows
<1>5. CASE Fill(r)
  BY <1>0, <1>1, <1>5 DEF Fill
<1>6. CASE QueryFails(r)
  <2>1. PICK S \in SUBSET Present(LiveMap) : req' = [req EXCEPT ![r] = Loaded(r, Only(LiveMap, S))]
    BY <1>6 DEF QueryFails
  <2>2. PICK m : m = Only(LiveMap, S)
    OBVIOUS
  <2>3. m \in Map /\ Good(m)
    BY <2>2, LiveMapType, GoodLive, OnlyType, GoodOperators
  <2> QED
    BY <1>1, <1>6, <2>1, <2>2, <2>3 DEF QueryFails
<1> QED
  BY <1>2, <1>3, <1>4, <1>5, <1>6

\* What AutoSaveData wrote may be seen at once.
LEMMA EditsThrough == ASSUME NEW r, req[r].op \in {"edit", "brand"} PROVE Through(r)
  BY DEF Through

\* An edit changes what a row says and neither its key nor its id.
LEMMA EditRows == ASSUME TypeOK, RowsInv, NEW r \in Requests, Edit(r) PROVE RowsInv'
<1>0. /\ req[r] \in Request /\ req[r].map \in Map /\ Held(r, req[r]) /\ Good(req[r].map)
  BY DEF TypeOK, Request, RowsInv, Held
<1>1. PICK m : m = req[r].map
  OBVIOUS
<1>2. PICK named \in SUBSET Extends[req[r].id], po \in BOOLEAN : EditTo(r, named, po)
  BY EditForm
<1>3. req[r].pc = "apply" /\ Through(r) /\ UNCHANGED <<store, cache, task>>
  BY EditForm, EditsThrough
<1>4. PICK rows : rows = EditedRows(r, m, named, po)
  OBVIOUS
<1>5. /\ rows \in Map /\ Present(rows) \subseteq Present(m)
      /\ \A i \in Present(rows) : rows[i].key = m[i].key /\ rows[i].by = r
  BY <1>0, <1>1, <1>4, EditedRow
<1>6. Good(rows) /\ Anew(r, rows) /\ Own(r, rows)
  BY <1>0, <1>1, <1>3, <1>5 DEF Good, Placed, Backed, Anew, Own
<1>7. Good(Over(m, rows))
  BY <1>0, <1>1, <1>5, <1>6, GoodOperators
<1>8. PICK q \in Request :
        /\ req' = [req EXCEPT ![r] = q]
        /\ q.pc = "put" /\ q.map = Over(m, rows) /\ q.rows = rows
        /\ q.op = req[r].op /\ q.id = req[r].id /\ q.again = req[r].again /\ q.gone = req[r].gone
  BY <1>1, <1>2, <1>4, <1>5, EditToForm
<1>9. Held(r, q) /\ Follows(r, q)
  BY <1>0, <1>3, <1>6, <1>7, <1>8 DEF Held, Follows, Good
<1> QED
  BY <1>3, <1>8, <1>9, OwnRows

\* So does taking the brands off.
LEMMA UnbrandRows == ASSUME TypeOK, RowsInv, NEW r \in Requests, Unbrand(r) PROVE RowsInv'
<1>0. /\ req[r] \in Request /\ req[r].map \in Map /\ req[r].rows \in Map
      /\ Held(r, req[r]) /\ Good(req[r].map)
  BY DEF TypeOK, Request, RowsInv, Held
<1>1. PICK m : m = req[r].map
  OBVIOUS
<1>2. PICK i : i = req[r].id
  OBVIOUS
<1>3. PICK rows : rows = req[r].rows
  OBVIOUS
<1>4. req[r].pc = "apply" /\ req[r].op = "brand" /\ i \in Present(m)
  BY <1>1, <1>2 DEF Unbrand, Applies
<1>5. m \in Map /\ rows \in Map /\ Good(m) /\ Good(rows) /\ Anew(r, rows) /\ Own(r, rows)
  BY <1>0, <1>1, <1>3, <1>4 DEF Held, Good
<1>6. i \in Ids /\ m[i] \in Row
  BY <1>4, <1>5, PresentRow
<1>7. PICK row : row = [m[i] EXCEPT !.kids = {}, !.by = r]
  OBVIOUS
<1>8. row \in Row /\ row.key = m[i].key /\ row.by = r /\ row # NoRow
  BY <1>6, <1>7, ReportStoreAssumption DEF Row
<1>9. PICK new : new = [rows EXCEPT ![i] = row]
  OBVIOUS
<1>10. /\ new \in Map
       /\ \A j \in Present(new) : IF j = i THEN new[j] = row ELSE j \in Present(rows) /\ new[j] = rows[j]
  BY <1>5, <1>6, <1>8, <1>9 DEF Map, Present
<1>11. /\ row.key # NoKey /\ (store[row.key] # NoRow \/ Gone(row.key))
       /\ Made(row.key) /\ i \in Places(row.key) /\ Through(row.by)
  BY <1>4, <1>5, <1>8, EditsThrough DEF Good, Placed, Backed
<1>12. Good(new) /\ Anew(r, new) /\ Own(r, new)
  BY <1>5, <1>8, <1>10, <1>11 DEF Good, Placed, Backed, Anew, Own
<1>13. PICK q : q = [req[r] EXCEPT !.pc = "sendDelete", !.rows[i] = row]
  OBVIOUS
<1>14. /\ q \in Request /\ q.op = req[r].op /\ q.id = req[r].id /\ q.again = req[r].again
       /\ q.gone = req[r].gone /\ q.pc = "sendDelete" /\ q.map = m /\ q.rows = new
  BY <1>0, <1>1, <1>3, <1>9, <1>10, <1>13 DEF Request
<1>15. Held(r, q) /\ Follows(r, q)
  BY <1>0, <1>4, <1>5, <1>12, <1>14 DEF Held, Follows, Good
<1>16. Finish(r) \/ req' = [req EXCEPT ![r] = q]
  BY <1>1, <1>2, <1>7, <1>13 DEF Unbrand
<1>17. UNCHANGED <<store, task, cache>>
  BY DEF Unbrand
<1> QED
  BY <1>4, <1>14, <1>15, <1>16, <1>17, OwnRows, FinishRows

\* A request goes on with q and makes the post t.
LEMMA SendRows ==
  ASSUME TypeOK, RowsInv, NEW r \in Requests, NEW q \in Request, req' = [req EXCEPT ![r] = q],
         Follows(r, q), Held(r, q),
         NEW k \in Kinds, NEW t \in Task, task' = [task EXCEPT ![r][k] = t],
         Good(t.map), Placed(t.rows), Anew(r, t.rows),
         k = "append" => Own(r, t.rows) /\ Unsent(req[r]) /\ ~Unsent(q),
         k = "delete" => \A i \in Present(t.rows) : t.rows[i].key \in Keys /\ t.rows[i].key \in q.gone,
         UNCHANGED <<store, cache>>
  PROVE  RowsInv'
<1>0. "append" \in Kinds /\ k \in {"append", "delete"}
  BY DEF Kinds
<1>1. \A s \in Requests : /\ req'[s].op = req[s].op /\ req'[s].id = req[s].id
                          /\ req[s].gone \subseteq req'[s].gone
  BY DEF TypeOK, Follows
<1>2. \A s \in Requests : Makes(s)' = Makes(s)
  BY <1>1 DEF Makes
<1>3. ASSUME NEW b, Through(b) PROVE Through(b)'
  <2>1. CASE b = r /\ k = "append"
    <3>1. task[r]["append"].state = "none"
      BY <2>1 DEF RowsInv
    <3> QED
      BY <1>1, <1>3, <2>1, <3>1 DEF Through
  <2>2. CASE b \in Requests /\ ~(b = r /\ k = "append")
    <3>1. task'[b]["append"] = task[b]["append"]
      BY <1>0, <2>2 DEF TypeOK
    <3> QED
      BY <1>1, <1>3, <2>2, <3>1 DEF Through
  <2> QED
    BY <2>1, <2>2 DEF Through
<1>4. Grows
  BY <1>1, <1>2, <1>3 DEF Grows
<1>5. PICK c : c = cache
  OBVIOUS
<1>6. c \in Map /\ Good(c) /\ cache' = c
  BY <1>5 DEF TypeOK, RowsInv
<1>7. Good(cache)'
  BY <1>4, <1>6, GoodStays
<1>8. Entities'
  BY <1>4, EntitiesStay DEF RowsInv
<1>9. Issued'
  BY <1>1 DEF RowsInv, Issued
<1>10. ASSUME NEW s \in Requests PROVE Held(s, req[s])'
  <2>1. PICK p : p = req[s]
    OBVIOUS
  <2>2. p \in Request /\ Held(s, p)
    BY <2>1 DEF TypeOK, RowsInv
  <2>3. Held(s, p)' /\ Held(r, q)'
    BY <1>4, <2>2, HeldStays
  <2>4. req'[s] = IF s = r THEN q ELSE p
    BY <2>1 DEF TypeOK
  <2> QED
    BY <2>3, <2>4
<1>11. Carried(r, k, t)'
  <2>1. t.map \in Map /\ t.rows \in Map
    BY DEF Task
  <2>2. Good(t.map)' /\ Placed(t.rows)' /\ Anew(r, t.rows)'
    BY <1>4, <2>1, GoodStays, PlacedStays, AnewStays
  <2>3. req'[r] = q
    BY DEF TypeOK
  <2> QED
    BY <2>2, <2>3 DEF Carried, Own
<1>12. ASSUME NEW s \in Requests, NEW n \in Kinds PROVE Carried(s, n, task[s][n])'
  <2>1. PICK u : u = task[s][n]
    OBVIOUS
  <2>2. u \in Task /\ Carried(s, n, u)
    BY <2>1 DEF TypeOK, RowsInv
  <2>3. Carried(s, n, u)'
    BY <1>4, <2>2, SentStays
  <2>4. task'[s][n] = IF s = r /\ n = k THEN t ELSE u
    BY <2>1 DEF TypeOK
  <2> QED
    BY <1>11, <2>3, <2>4
<1>13. ASSUME NEW s \in Requests, Unsent(req'[s]) PROVE task'[s]["append"].state = "none"
  <2>1. req'[s] = IF s = r THEN q ELSE req[s]
    BY DEF TypeOK
  <2>2. Unsent(req[s])
    BY <1>13, <2>1, FollowsUnsent
  <2>3. ~(s = r /\ k = "append")
    BY <1>13, <2>1
  <2>4. task'[s]["append"] = task[s]["append"]
    BY <1>0, <2>3 DEF TypeOK
  <2> QED
    BY <2>2, <2>4 DEF RowsInv
<1>14. \A s \in Requests : (Unsent(req[s]) => task[s]["append"].state = "none")'
  BY <1>13 DEF Unsent
<1> QED
  BY <1>7, <1>8, <1>9, <1>10, <1>12, <1>14 DEF RowsInv

\* The two kinds of posts, and the map that AutoSaveData puts back.
LEMMA PostRows ==
  ASSUME TypeOK, RowsInv, NEW r \in Requests, SendDelete(r) \/ Send(r) \/ Put(r)
  PROVE  RowsInv'
<1>0. /\ req[r] \in Request /\ req[r].map \in Map /\ req[r].rows \in Map
      /\ Held(r, req[r]) /\ Good(req[r].map)
  BY DEF TypeOK, Request, RowsInv, Held
<1>1. "delete" \in Kinds /\ "append" \in Kinds /\ task[r]["delete"] \in Task /\ task[r]["append"] \in Task
  BY DEF TypeOK, Kinds
<1>2. Good(task[r]["delete"].map) /\ Good(task[r]["append"].map)
  BY <1>1 DEF RowsInv, Carried
<1>3. CASE SendDelete(r)
  <2>1. PICK brands : brands = req[r].map[req[r].id].kids \cap Dotted
    OBVIOUS
  <2>2. PICK rows : rows = Only(req[r].map, brands)
    OBVIOUS
  <2>3. rows \in Map /\ Good(rows)
    BY <1>0, <2>2, OnlyType, GoodOperators
  <2>3a. \A i \in Present(rows) : rows[i].key \in Keys
    BY <2>3, PresentRow DEF Good, Backed, Row
  <2>4. PICK gone : gone = {rows[j].key : j \in Present(rows)}
    OBVIOUS
  <2>5. PICK q : q = [req[r] EXCEPT !.pc = "get", !.map = EmptyMap, !.again = TRUE, !.gone = gone]
    OBVIOUS
  <2>6. /\ q \in Request /\ q.op = req[r].op /\ q.id = req[r].id /\ q.again /\ q.gone = gone
        /\ q.map = EmptyMap /\ q.rows = req[r].rows /\ q.pc = "get"
    <3>1. gone \in SUBSET (Keys \cup {NoKey})
      BY <2>3a, <2>4
    <3> QED
      BY <1>0, <2>5, <3>1, EmptyMapType DEF Request
  <2>7. req[r].pc = "sendDelete"
    BY <1>3 DEF SendDelete
  <2>8. Held(r, q) /\ Follows(r, q)
    BY <1>0, <2>6, <2>7, GoodEmpty DEF Held, Follows
  <2>9. PICK t : t = [task[r]["delete"] EXCEPT !.state = "sent", !.rows = rows]
    OBVIOUS
  <2>10. t \in Task /\ t.rows = rows /\ t.map = task[r]["delete"].map
    BY <1>1, <2>3, <2>9 DEF Task
  <2>11. /\ req' = [req EXCEPT ![r] = q] /\ task' = [task EXCEPT ![r]["delete"] = t]
         /\ UNCHANGED <<store, cache>>
    BY <1>3, <2>1, <2>2, <2>4, <2>5, <2>9 DEF SendDelete, TypeOK
  <2>12. Placed(rows) /\ Anew(r, rows) /\ Good(t.map)
    BY <1>2, <2>3, <2>10 DEF Good, Anew, Backed
  <2>13. \A i \in Present(t.rows) : t.rows[i].key \in Keys /\ t.rows[i].key \in q.gone
    BY <2>3a, <2>4, <2>6, <2>10
  <2> QED
    BY <1>1, <2>6, <2>8, <2>10, <2>11, <2>12, <2>13, SendRows
<1>4. CASE Send(r)
  <2>0. req[r].pc = "send"
    BY <1>4 DEF Send
  <2>1. PICK q : q = IF req[r].op = "initiate" THEN [Ended(r) EXCEPT !.pc = "get", !.again = TRUE]
                     ELSE Ended(r)
    OBVIOUS
  <2>2. q \in Request /\ Held(r, q) /\ Follows(r, q) /\ ~Unsent(q) /\ Unsent(req[r])
    <3>1. PICK p : p = Ended(r)
      OBVIOUS
    <3>2. p \in Request /\ Held(r, p) /\ Follows(r, p) /\ p.pc = "done" /\ p.rows = EmptyMap
      BY <2>0, <3>1, EndedHeld DEF Ended, TypeOK, Request
    <3>3. Unsent(req[r])
      BY <1>0, <2>0 DEF Held, Unsent
    <3>4. CASE req[r].op = "initiate"
      <4>1. /\ q \in Request /\ q.pc = "get" /\ q.again /\ q.map = p.map /\ q.rows = p.rows
            /\ q.op = p.op /\ q.id = p.id /\ q.gone = p.gone
        BY <2>1, <3>1, <3>2, <3>4 DEF Request
      <4> QED
        BY <2>0, <3>2, <3>3, <3>4, <4>1 DEF Held, Follows, Unsent
    <3>5. CASE req[r].op # "initiate"
      BY <2>1, <3>1, <3>2, <3>3, <3>5 DEF Unsent
    <3> QED
      BY <3>4, <3>5
  <2>3. PICK t : t = [task[r]["append"] EXCEPT !.state = "sent", !.rows = req[r].rows, !.old = req[r].old,
                                               !.null = req[r].null]
    OBVIOUS
  <2>4. t \in Task /\ t.rows = req[r].rows /\ t.map = task[r]["append"].map
    BY <1>0, <1>1, <2>3 DEF Task, Request
  <2>5. /\ req' = [req EXCEPT ![r] = q] /\ task' = [task EXCEPT ![r]["append"] = t]
        /\ UNCHANGED <<store, cache>>
    BY <1>4, <2>1, <2>3 DEF Send, Sent, TypeOK
  <2>6. Placed(t.rows) /\ Anew(r, t.rows) /\ Own(r, t.rows) /\ Good(t.map)
    BY <1>0, <1>2, <2>4 DEF Held
  <2> QED
    BY <1>1, <2>2, <2>4, <2>5, <2>6, SendRows
<1>5. CASE Put(r)
  <2>1. PICK m : m = req[r].map
    OBVIOUS
  <2>2. m \in Map /\ Good(m) /\ cache' = m /\ UNCHANGED <<store, task>>
    BY <1>0, <1>5, <2>1 DEF Put
  <2>3. CASE req[r].rows = EmptyMap
    <3>1. PICK q : q = Ended(r)
      OBVIOUS
    <3>2. q \in Request /\ Held(r, q) /\ Follows(r, q)
      BY <1>5, <3>1, EndedHeld DEF Put
    <3>3. req' = [req EXCEPT ![r] = q]
      BY <1>5, <2>3, <3>1 DEF Put, Finish
    <3> QED
      BY <2>2, <3>2, <3>3, LocalRows
  <2>4. CASE req[r].rows # EmptyMap
    <3>1. PICK q : q = [req[r] EXCEPT !.pc = "send"]
      OBVIOUS
    <3>2. /\ q \in Request /\ q.op = req[r].op /\ q.id = req[r].id /\ q.again = req[r].again
          /\ q.map = req[r].map /\ q.rows = req[r].rows /\ q.pc = "send" /\ q.gone = req[r].gone
      BY <1>0, <3>1 DEF Request
    <3>3. Held(r, q) /\ Follows(r, q)
      BY <1>0, <1>5, <3>2 DEF Held, Follows, Put
    <3>4. req' = [req EXCEPT ![r] = q]
      BY <1>5, <2>4, <3>1 DEF Put, Goto
    <3> QED
      BY <2>2, <3>2, <3>3, <3>4, LocalRows
  <2> QED
    BY <2>3, <2>4
<1> QED
  BY <1>3, <1>4, <1>5

\* Disabling changes rows where they are.
LEMMA DisableRows == ASSUME TypeOK, RowsInv, NEW r \in Requests, Disable(r) PROVE RowsInv'
<1>1. PICK m : m = req[r].map
  OBVIOUS
<1>2. m \in Map /\ Good(m)
  BY <1>1 DEF TypeOK, Request, RowsInv, Held
<1>3. PICK gone : gone = Extends[req[r].id] \cap Present(m)
  OBVIOUS
<1>4. PICK rows : rows = [j \in Ids |-> IF j \in gone THEN [m[j] EXCEPT !.st = "Disabled", !.by = r]
                                        ELSE NoRow]
  OBVIOUS
<1>5. ASSUME NEW j \in gone
      PROVE  LET row == [m[j] EXCEPT !.st = "Disabled", !.by = r]
             IN  row \in Row /\ row.key = m[j].key /\ row.by = r
  <2>1. m[j] \in Row
    BY <1>2, <1>3, PresentRow
  <2> QED
    BY <2>1 DEF Row, Status
<1>6. rows \in Map
  BY <1>4, <1>5 DEF Map
<1>7. \A j \in Present(rows) : j \in Present(m) /\ rows[j].key = m[j].key /\ rows[j].by = r
  BY <1>3, <1>4, <1>5 DEF Present
<1>8. Placed(rows) /\ Anew(r, rows) /\ Own(r, rows)
  BY <1>2, <1>7 DEF Good, Placed, Backed, Anew, Own
<1>9. Posts(r, rows, NoRow) /\ req[r].pc = "apply"
  BY <1>1, <1>3, <1>4 DEF Disable, Applies
<1> QED
  BY <1>6, <1>8, <1>9, PostsRows

\* Initiation moves rows to the ids the study system gave to theirs.
LEMMA InitiateRows == ASSUME TypeOK, RowsInv, NEW r \in Requests, Initiate(r) PROVE RowsInv'
<1>1. PICK m : m = req[r].map
  OBVIOUS
<1>2. m \in Map /\ Good(m)
  BY <1>1 DEF TypeOK, Request, RowsInv, Held
<1>3. PICK i : i = req[r].id
  OBVIOUS
<1>4. PICK moved : moved = IF m[i].kids = {} THEN {i} ELSE m[i].kids \cap Extends[i]
  OBVIOUS
<1>5. PICK rows : rows = [k \in Ids |->
        IF \E j \in moved : StudyId[j] = k
        THEN LET j == CHOOSE j \in moved : StudyId[j] = k
             IN  [m[j] EXCEPT !.kids = {StudyId[n] : n \in @}, !.by = r]
        ELSE NoRow]
  OBVIOUS
<1>6. CASE i \notin Present(m) \/ ~(moved \subseteq Present(m))
  <2>1. Finish(r) /\ UNCHANGED <<store, cache, task>> /\ req[r].pc = "apply"
    BY <1>1, <1>3, <1>4, <1>6 DEF Initiate, Applies
  <2> QED
    BY <2>1, FinishRows
<1>7. CASE i \in Present(m) /\ moved \subseteq Present(m)
  <2>1. ASSUME NEW j \in moved
        PROVE  LET row == [m[j] EXCEPT !.kids = {StudyId[n] : n \in @}, !.by = r]
               IN  row \in Row /\ row.key = m[j].key /\ row.by = r
    <3>1. m[j] \in Row
      BY <1>2, <1>7, PresentRow
    <3>2. {StudyId[n] : n \in m[j].kids} \in SUBSET Ids
      BY <3>1, ReportStoreAssumption DEF Row
    <3> QED
      BY <3>1, <3>2 DEF Row
  <2>2. rows \in Map
    BY <1>5, <2>1 DEF Map
  <2>3. ASSUME NEW k \in Present(rows)
        PROVE  \E j \in Present(m) : StudyId[j] = k /\ rows[k].key = m[j].key /\ rows[k].by = r
    <3>1. k \in Ids /\ \E j \in moved : StudyId[j] = k
      BY <1>5, <2>3 DEF Present
    <3>2. PICK j : j = CHOOSE n \in moved : StudyId[n] = k
      OBVIOUS
    <3>3. j \in moved /\ StudyId[j] = k
      BY <3>1, <3>2
    <3>4. rows[k] = [m[j] EXCEPT !.kids = {StudyId[n] : n \in @}, !.by = r]
      BY <1>5, <3>1, <3>2
    <3> QED
      BY <1>7, <2>1, <3>3, <3>4
  <2>4. ASSUME NEW k \in Present(rows)
        PROVE  rows[k].key # NoKey /\ Made(rows[k].key) /\ k \in Places(rows[k].key) /\ rows[k].by = r
    <3>1. PICK j \in Present(m) : StudyId[j] = k /\ rows[k].key = m[j].key /\ rows[k].by = r
      BY <2>3
    <3>2. m[j].key # NoKey /\ Made(m[j].key) /\ j \in Places(m[j].key) /\ m[j].key \in Keys
      BY <1>2, PresentRow DEF Good, Placed, Backed, Row
    <3>3. StudyId[j] \in Places(m[j].key)
      BY <3>2, PlaceMoves
    <3> QED
      BY <3>1, <3>2, <3>3
  <2>5. Placed(rows) /\ Anew(r, rows) /\ Own(r, rows)
    BY <2>4 DEF Placed, Anew, Own
  <2>6. Posts(r, rows, i) /\ i \in Ids /\ req[r].pc = "apply"
    BY <1>1, <1>3, <1>4, <1>5, <1>7 DEF Initiate, Present, Applies
  <2> QED
    BY <2>2, <2>5, <2>6, PostsRows
<1> QED
  BY <1>6, <1>7

\* Regrouping keeps the rows of a family where they are and adds new ones under ids of the
\* family.
LEMMA RegroupRows ==
  ASSUME TypeOK, HasId, RowsInv, NEW r \in Requests, Regroup(r) PROVE RowsInv'
<1>0. PICK m, family : m = req[r].map /\ family = Extends[req[r].id] \cap Present(m)
  OBVIOUS
<1>1. m \in Map /\ Good(m) /\ Held(r, req[r])
  BY <1>0 DEF TypeOK, Request, RowsInv, Held
<1>2. /\ req[r].pc = "apply" /\ req[r].op = "regroup" /\ UNCHANGED <<store, cache, task>>
      /\ Finish(r) \/ \E kept, new, f, kids, rows : Chosen(r, family, kept, new, f, kids, rows)
  BY <1>0, RegroupForm
<1>3. req[r].id \in Ids /\ Makes(r) = Extends[req[r].id]
  BY <1>2 DEF HasId, Makes
<1>4. CASE Finish(r)
  BY <1>2, <1>4, FinishRows
<1>5. ASSUME NEW kept, NEW new, NEW f, NEW kids, NEW rows, Chosen(r, family, kept, new, f, kids, rows)
      PROVE  RowsInv'
  <2>1. Regrouping(r, family, kept, new, f, kids, rows)
    BY <1>0, <1>3, <1>5, RegroupRow
  <2>2. /\ RegroupTo(r, f, kids, new) /\ rows \in Map /\ rows = Rewritten(r, m, f, kids, new)
        /\ kids \subseteq Extends[req[r].id]
        /\ Present(rows) = new \cup (kids \cap family) /\ new \subseteq kids
        /\ \A i \in Present(rows) : rows[i].by = r
        /\ \A i \in new : rows[i].key = NoKey
        /\ \A i \in Present(rows) \ new : rows[i].key = m[i].key
    BY <1>0, <2>1 DEF Regrouping
  <2>3. \A i \in Present(rows) : \/ i \in Makes(r) /\ rows[i].key = NoKey
                                 \/ i \in Present(m) /\ rows[i].key = m[i].key
    BY <1>0, <1>3, <2>2
  <2>4. Placed(rows) /\ Anew(r, rows) /\ Own(r, rows)
    BY <1>1, <2>2, <2>3 DEF Good, Placed, Backed, Anew, Own
  <2>5. PICK q \in Request :
          /\ req' = [req EXCEPT ![r] = q] /\ q.pc = "send" /\ q.map = EmptyMap /\ q.rows = rows
          /\ q.op = req[r].op /\ q.id = req[r].id /\ q.again = req[r].again /\ q.gone = req[r].gone
    BY <1>0, <2>2, RegroupToForm
  <2>6. Held(r, q) /\ Follows(r, q)
    BY <1>1, <1>2, <2>4, <2>5, GoodEmpty DEF Held, Follows
  <2> QED
    BY <1>2, <2>5, <2>6, OwnRows
<1> QED
  BY <1>2, <1>4, <1>5

-----------------------------------------------------------------------------
(* The asynchronous writer.                                                 *)

\* Persisting gives a key only under an id that the request may use.
LEMMA KeyedPlaced ==
  ASSUME NEW r \in Requests, NEW rows \in Map, Placed(rows), Anew(r, rows), Own(r, rows)
  PROVE  /\ Keyed(r, rows) \in Map
         /\ Present(Keyed(r, rows)) = Present(rows)
         /\ Own(r, Keyed(r, rows))
         /\ \A i \in Present(rows) : /\ Keyed(r, rows)[i].key \in Keys
                                     /\ Made(Keyed(r, rows)[i].key)
                                     /\ i \in Places(Keyed(r, rows)[i].key)
<1>1. ASSUME NEW i \in Present(rows)
      PROVE  /\ Keyed(r, rows)[i] \in Row
             /\ Keyed(r, rows)[i].key \in Keys
             /\ Made(Keyed(r, rows)[i].key)
             /\ i \in Places(Keyed(r, rows)[i].key)
             /\ Keyed(r, rows)[i].by = r
  <2>1. i \in Ids /\ rows[i] \in Row /\ rows[i].by = r
    BY PresentRow DEF Own
  <2>2. CASE rows[i].key = NoKey
    <3>1. Keyed(r, rows)[i] = [rows[i] EXCEPT !.key = <<r, i>>]
      BY <2>1, <2>2 DEF Keyed
    <3>2. <<r, i>> \in Keys
      BY <2>1 DEF Keys
    <3>3. Keyed(r, rows)[i] \in Row /\ Keyed(r, rows)[i].key = <<r, i>> /\ Keyed(r, rows)[i].by = r
      BY <2>1, <3>1, <3>2 DEF Row
    <3>4. Made(<<r, i>>)
      BY <2>2, ReportStoreAssumption DEF Made, Anew
    <3> QED
      BY <3>2, <3>3, <3>4 DEF Places
  <2>3. CASE rows[i].key # NoKey
    BY <2>1, <2>3 DEF Keyed, Placed, Row
  <2> QED
    BY <2>2, <2>3
<1>2. Keyed(r, rows) \in Map
  BY KeyedType
<1>3. Present(Keyed(r, rows)) = Present(rows)
  BY <1>1, ReportStoreAssumption DEF Keyed, Present
<1>4. Own(r, Keyed(r, rows))
  BY <1>1, <1>3 DEF Own
<1> QED
  BY <1>1, <1>2, <1>3, <1>4

\* A post that becomes t and is as far as it was lets everything be seen that could be seen.
LEMMA TaskThrough ==
  ASSUME TypeOK, NEW r \in Requests, NEW k \in Kinds, NEW t, task' = [task EXCEPT ![r][k] = t],
         UNCHANGED req, task[r][k].state \in {"put", "done"} => t.state \in {"put", "done"}
  PROVE  /\ \A b : Through(b) => Through(b)'
         /\ k = "append" /\ t.state \in {"put", "done"} => Through(r)'
<1>0. "append" \in Kinds
  BY DEF Kinds
<1>1. \A b \in Requests : task'[b]["append"] = IF b = r /\ k = "append" THEN t ELSE task[b]["append"]
  BY <1>0 DEF TypeOK
<1> QED
  BY <1>1 DEF Through

\* Writing rows takes no entity away and leaves every entity in one of its places.
LEMMA WrittenRows ==
  ASSUME TypeOK, RowsInv, NEW r \in Requests, NEW rows \in Map, NEW S \in SUBSET Present(rows),
         \A i \in Present(rows) : /\ rows[i].key \in Keys /\ Made(rows[i].key)
                                  /\ i \in Places(rows[i].key),
         Own(r, rows), Through(r)', \A b : Through(b) => Through(b)',
         store' = Written(rows, S), UNCHANGED req
  PROVE  Grows /\ Entities' /\ \A i \in S : store'[rows[i].key] # NoRow
<1>1. ASSUME NEW k \in Keys, \E i \in S : rows[i].key = k
      PROVE  /\ store'[k] # NoRow /\ store'[k].id \in Places(k) /\ Made(k)
             /\ store'[k].row.key = k /\ store'[k].row.by = r
  <2>1. PICK i : i = CHOOSE j \in S : rows[j].key = k
    OBVIOUS
  <2>2. i \in S /\ rows[i].key = k
    BY <1>1, <2>1
  <2>3. store'[k] = [id |-> i, row |-> rows[i]]
    BY <1>1, <2>1 DEF Written
  <2>4. i \in Ids /\ rows[i] \in Row /\ rows[i].by = r
    BY <2>2, PresentRow DEF Own
  <2>5. store'[k] \in Entity
    BY <2>3, <2>4 DEF Entity
  <2> QED
    BY <2>2, <2>3, <2>4, <2>5, ReportStoreAssumption
<1>2. ASSUME NEW k \in Keys, ~\E i \in S : rows[i].key = k PROVE store'[k] = store[k]
  BY <1>2 DEF Written
<1>3. Grows
  <2>1. \A k \in Keys : store[k] # NoRow => store'[k] # NoRow
    BY <1>1, <1>2
  <2> QED
    BY <2>1 DEF Grows, Makes
<1>4. Entities'
  <2>1. ASSUME NEW k \in Keys, store'[k] # NoRow
        PROVE  /\ Made(k) /\ store'[k].id \in Places(k) /\ store'[k].row.key = k
               /\ Through(store[k].row.by)'
    <3>1. CASE \E i \in S : rows[i].key = k
      BY <1>1, <3>1 DEF Through
    <3>2. CASE ~\E i \in S : rows[i].key = k
      <4>1. PICK b : b = store[k].row.by
        OBVIOUS
      <4>2. store'[k] = store[k] /\ Through(b)'
        BY <1>2, <2>1, <3>2, <4>1 DEF RowsInv, Entities
      <4>3. store'[k].row.by = b
        BY <4>1, <4>2
      <4>4. Made(k) /\ store[k].id \in Places(k) /\ store[k].row.key = k
        BY <2>1, <4>2 DEF RowsInv, Entities
      <4> QED
        BY <4>2, <4>3, <4>4
    <3> QED
      BY <3>1, <3>2
  <2>2. \A k \in Keys : Made(k) => Made(k)'
    BY <1>3, MadeStays
  <2> QED
    BY <2>1, <2>2 DEF Entities
<1> QED
  BY <1>1, <1>3, <1>4

\* Deleting the brands of a conversion takes away brands only.
LEMMA DeletedRows ==
  ASSUME TypeOK, RowsInv, NEW r \in Requests, NEW S \in SUBSET Posted(r),
         \A b : Through(b) => Through(b)',
         store' = [k \in Keys |-> IF k \in S THEN NoRow ELSE store[k]], UNCHANGED req
  PROVE  Grows /\ Entities'
<1>1. PICK t : t = task[r]["delete"]
  OBVIOUS
<1>2. t \in Task /\ t.rows \in Map /\ Carried(r, "delete", t)
  BY <1>1 DEF TypeOK, RowsInv, Task, Kinds
<1>3. ASSUME NEW k \in S PROVE k \in req[r].gone
  <2>1. PICK i \in Present(t.rows) : k = t.rows[i].key
    BY <1>1 DEF Posted
  <2> QED
    BY <1>2, <2>1 DEF Carried
<1>4. \A k \in Keys : store[k] # NoRow => store'[k] # NoRow \/ Gone(k)
  BY <1>3 DEF Gone
<1>5. Grows
  BY <1>4 DEF Grows, Makes, Gone
<1>6. Entities'
  <2> SUFFICES ASSUME NEW k \in Keys, store'[k] # NoRow
               PROVE  /\ Made(k)' /\ store'[k].id \in Places(k) /\ store'[k].row.key = k
                      /\ Through(store[k].row.by)'
    BY DEF Entities
  <2>1. PICK e : e = store[k]
    OBVIOUS
  <2>2. store'[k] = e /\ e # NoRow
    BY <2>1
  <2>3. PICK b : b = e.row.by
    OBVIOUS
  <2>4. Made(k) /\ e.id \in Places(k) /\ e.row.key = k /\ Through(b)
    BY <2>1, <2>2, <2>3 DEF RowsInv, Entities
  <2>5. Made(k)' /\ Through(b)'
    BY <1>5, <2>4, MadeStays
  <2> QED
    BY <2>2, <2>3, <2>4, <2>5
<1> QED
  BY <1>5, <1>6

\* A run of the writer that ends, or puts the map m if it has one.
LEMMA HandledSent ==
  /\ \A r, k : Carried(r, k, Handled)
  /\ Handled.rows = EmptyMap /\ Handled.map = EmptyMap /\ Handled.state = "done"
<1>1. Handled.rows = EmptyMap /\ Handled.map = EmptyMap /\ Handled.state = "done"
  BY DEF Handled, NoTask
<1> QED
  BY <1>1, GoodEmpty DEF Carried, Own, Present, EmptyMap

LEMMA ToPutForm ==
  ASSUME TypeOK, NEW r \in Requests, NEW k \in Kinds, NEW m, ToPut(r, k, m)
  PROVE  \E t : /\ task' = [task EXCEPT ![r][k] = t] /\ t.state \in {"put", "done"}
                /\ t.rows = EmptyMap /\ t.map \in {EmptyMap, m}
<1>1. PICK t : t = IF task[r][k].null THEN Handled
                   ELSE [task[r][k] EXCEPT !.state = "put", !.rows = EmptyMap, !.map = m]
  OBVIOUS
<1>2. task[r][k] \in Task
  BY DEF TypeOK
<1>3. t = Handled \/ (t.rows = EmptyMap /\ t.map = m /\ t.state = "put")
  BY <1>1, <1>2 DEF Task
<1>4. task' = [task EXCEPT ![r][k] = t]
  BY <1>1 DEF ToPut, TypeOK
<1> QED
  BY <1>3, <1>4, HandledSent

LEMMA ToPutSent ==
  ASSUME NEW r, NEW k, NEW t, NEW m, Good(m)', t.rows = EmptyMap, t.map \in {EmptyMap, m}
  PROVE  Carried(r, k, t)'
<1>1. (Good(EmptyMap) /\ Placed(EmptyMap) /\ Anew(r, EmptyMap))' /\ Present(EmptyMap) = {}
  BY DEF Good, Placed, Backed, Anew, Present, EmptyMap
<1> QED
  BY <1>1 DEF Carried, Own

LEMMA WriterRows == ASSUME TypeOK, RowsInv, NEW r \in Requests, TaskStep(r) PROVE RowsInv'
<1>0. "append" \in Kinds /\ "delete" \in Kinds
  BY DEF Kinds
<1>1. \A k \in Kinds : /\ task[r][k] \in Task /\ Carried(r, k, task[r][k]) /\ Good(task[r][k].map)
                       /\ task[r][k].map \in Map /\ task[r][k].rows \in Map
  BY DEF TypeOK, RowsInv, Carried, Task
<1>2. PICK c : c = cache
  OBVIOUS
<1>3. c \in Map /\ Good(c)
  BY <1>2 DEF TypeOK, RowsInv
<1>4. ASSUME NEW k \in Kinds, NEW t, task' = [task EXCEPT ![r][k] = t], t = Handled,
             task[r][k].state # "none", Grows, Entities', NEW d \in Map, Good(d), cache' = d,
             UNCHANGED req
      PROVE  RowsInv'
  <2>1. t.rows = EmptyMap /\ t.map \in {EmptyMap} /\ Good(EmptyMap)'
    BY <1>4, HandledSent DEF Good, Placed, Backed, Present, EmptyMap
  <2>2. Carried(r, k, t)'
    BY <2>1, ToPutSent
  <2> QED
    BY <1>4, <2>2, TaskRows
<1>5. ASSUME UNCHANGED <<store, req>>, \A b : Through(b) => Through(b)' PROVE Grows /\ Entities'
  <2>1. Grows
    BY <1>5 DEF Grows, Makes
  <2> QED
    BY <1>5, <2>1, EntitiesStay DEF RowsInv
<1>6. PICK rows : rows = Keyed(r, task[r]["append"].rows)
  OBVIOUS
<1>7. PICK m : m = task[r]["append"].map
  OBVIOUS
<1>8. /\ rows \in Map /\ m \in Map /\ Good(m) /\ Own(r, rows)
      /\ \A i \in Present(rows) : /\ rows[i].key \in Keys /\ Made(rows[i].key)
                                  /\ i \in Places(rows[i].key)
  <2>1. PICK posted : posted = task[r]["append"].rows
    OBVIOUS
  <2>2. posted \in Map /\ Placed(posted) /\ Anew(r, posted) /\ Own(r, posted)
    BY <1>0, <1>1, <2>1 DEF Carried
  <2> QED
    BY <1>0, <1>1, <1>6, <1>7, <2>1, <2>2, KeyedPlaced
<1>9. CASE TaskAppend(r)
  <2>1. /\ store' = Written(rows, Present(rows))
        /\ ToPut(r, "append", Over(m, rows))
        /\ UNCHANGED <<cache, req>> /\ task[r]["append"].state = "persist"
    BY <1>6, <1>7, <1>9 DEF TaskAppend
  <2>2. PICK t : /\ task' = [task EXCEPT ![r]["append"] = t] /\ t.state \in {"put", "done"}
                 /\ t.rows = EmptyMap /\ t.map \in {EmptyMap, Over(m, rows)}
    BY <1>0, <2>1, ToPutForm
  <2>3. Through(r)' /\ \A b : Through(b) => Through(b)'
    BY <1>0, <2>1, <2>2, TaskThrough
  <2>4. Grows /\ Entities' /\ \A i \in Present(rows) : store'[rows[i].key] # NoRow
    BY <1>8, <2>1, <2>3, WrittenRows
  <2>5. Good(m)'
    BY <1>8, <2>4, GoodStays
  <2>6. Good(rows)'
    <3>1. \A i \in Present(rows) : Made(rows[i].key)'
      BY <1>8, <2>4, MadeStays
    <3>2. \A i \in Present(rows) : rows[i].key # NoKey
      BY <1>8, ReportStoreAssumption
    <3>3. Placed(rows)'
      BY <1>8, <3>1 DEF Placed
    <3>4. \A i \in Present(rows) : Through(rows[i].by)'
      BY <1>8, <2>3 DEF Own
    <3>5. Backed(rows)'
      BY <2>4, <3>2, <3>4 DEF Backed
    <3> QED
      BY <3>3, <3>5 DEF Good
  <2>7. Good(Over(m, rows))'
    BY <1>8, <2>5, <2>6 DEF Good, Placed, Backed, Present, Over
  <2>8. Carried(r, "append", t)'
    BY <2>2, <2>7, ToPutSent
  <2> QED
    BY <1>0, <1>2, <1>3, <2>1, <2>2, <2>4, <2>8, TaskRows
<1>10. CASE TaskAppendFails(r)
  <2>1. PICK S \in SUBSET Present(rows) : store' = Written(rows, S)
    BY <1>6, <1>10 DEF TaskAppendFails
  <2>2. PICK t : t = Handled
    OBVIOUS
  <2>3. /\ UNCHANGED <<cache, req>> /\ task' = [task EXCEPT ![r]["append"] = t]
        /\ task[r]["append"].state = "persist" /\ t.state = "done"
    BY <1>10, <2>2, HandledSent DEF TaskAppendFails
  <2>4. Through(r)' /\ \A b : Through(b) => Through(b)'
    BY <1>0, <2>3, TaskThrough
  <2>5. Grows /\ Entities'
    BY <1>8, <2>1, <2>3, <2>4, WrittenRows
  <2> QED
    BY <1>0, <1>2, <1>3, <1>4, <2>2, <2>3, <2>5
<1>11. CASE TaskDelete(r)
  <2>1. PICK n : n = task[r]["delete"].map
    OBVIOUS
  <2>2. PICK S : S = Present(task[r]["delete"].rows)
    OBVIOUS
  <2>3. /\ store' = [k \in Keys |-> IF k \in Posted(r) THEN NoRow ELSE store[k]]
        /\ ToPut(r, "delete", Without(n, S)) /\ UNCHANGED <<cache, req>>
        /\ task[r]["delete"].state = "persist"
    BY <1>11, <2>1, <2>2 DEF TaskDelete
  <2>4. PICK t : /\ task' = [task EXCEPT ![r]["delete"] = t] /\ t.state \in {"put", "done"}
                 /\ t.rows = EmptyMap /\ t.map \in {EmptyMap, Without(n, S)}
    BY <1>0, <2>3, ToPutForm
  <2>5. \A b : Through(b) => Through(b)'
    BY <1>0, <2>3, <2>4, TaskThrough
  <2>6. Grows /\ Entities'
    BY <2>3, <2>5, DeletedRows
  <2>7. n \in Map /\ Good(n)
    BY <1>0, <1>1, <2>1
  <2>8. Good(n)'
    BY <2>6, <2>7, GoodStays
  <2>9. Good(Without(n, S))'
    BY <2>7, <2>8 DEF Good, Placed, Backed, Present, Without
  <2>10. Carried(r, "delete", t)'
    BY <2>4, <2>9, ToPutSent
  <2> QED
    BY <1>0, <1>2, <1>3, <2>3, <2>4, <2>6, <2>10, TaskRows
<1>12. CASE TaskDeleteFails(r)
  <2>1. PICK S \in SUBSET Posted(r) :
          store' = [k \in Keys |-> IF k \in S THEN NoRow ELSE store[k]]
    BY <1>12 DEF TaskDeleteFails
  <2>2. PICK t : t = Handled
    OBVIOUS
  <2>3. /\ UNCHANGED <<cache, req>> /\ task' = [task EXCEPT ![r]["delete"] = t]
        /\ task[r]["delete"].state = "persist" /\ t.state = "done"
    BY <1>12, <2>2, HandledSent DEF TaskDeleteFails
  <2>4. \A b : Through(b) => Through(b)'
    BY <1>0, <2>3, TaskThrough
  <2>5. Grows /\ Entities'
    BY <2>1, <2>3, <2>4, DeletedRows
  <2> QED
    BY <1>0, <1>2, <1>3, <1>4, <2>2, <2>3, <2>5
<1>13. ASSUME NEW k \in Kinds, TaskRead(r, k) PROVE RowsInv'
  <2>1. PICK old : old = task[r][k].old
    OBVIOUS
  <2>2. PICK n : n = IF old # NoRow /\ old \in Present(cache) THEN Without(cache, Family(cache, old))
                     ELSE cache
    OBVIOUS
  <2>3. /\ task[r][k].state = "sent" /\ UNCHANGED <<store, cache, holed, req>> /\ n \in Map
        /\ \E t \in Task :
             /\ task' = [task EXCEPT ![r][k] = t]
             /\ \/ holed /\ t = Handled
                \/ /\ t.state = "persist" /\ t.rows = task[r][k].rows /\ t.old = old
                   /\ IF holed THEN t.map = task[r][k].map /\ t.null
                      ELSE t.map = n /\ t.null = task[r][k].null
    BY <1>13, <2>1, <2>2, ReadForm
  <2>4. PICK t \in Task :
             /\ task' = [task EXCEPT ![r][k] = t]
             /\ \/ t = Handled
                \/ t.state = "persist" /\ t.rows = task[r][k].rows /\ t.map \in {task[r][k].map, n}
    BY <2>3
  <2>5. \A b : Through(b) => Through(b)'
    BY <2>3, <2>4, TaskThrough
  <2>6. Grows /\ Entities'
    BY <1>5, <2>3, <2>5
  <2>7. CASE t = Handled
    BY <1>2, <1>3, <1>4, <2>3, <2>4, <2>6, <2>7
  <2>8. CASE t.rows = task[r][k].rows /\ t.map \in {task[r][k].map, n}
    <3>1. Good(n)
      BY <1>2, <1>3, <2>2, GoodOperators
    <3>2. Carried(r, k, t)
      BY <1>1, <2>8, <3>1 DEF Carried
    <3>3. Carried(r, k, t)'
      BY <2>6, <3>2, SentStays
    <3> QED
      BY <1>2, <1>3, <2>3, <2>4, <2>6, <3>3, TaskRows
  <2> QED
    BY <2>4, <2>7, <2>8
<1>14. ASSUME NEW k \in Kinds, TaskPut(r, k) PROVE RowsInv'
  <2>1. PICK n : n = task[r][k].map
    OBVIOUS
  <2>2. PICK t : t = Handled
    OBVIOUS
  <2>3. /\ n \in Map /\ Good(n) /\ cache' = n /\ UNCHANGED <<store, req>>
        /\ task' = [task EXCEPT ![r][k] = t] /\ task[r][k].state = "put" /\ t.state = "done"
    BY <1>1, <1>14, <2>1, <2>2, HandledSent DEF TaskPut
  <2>4. \A b : Through(b) => Through(b)'
    BY <2>3, TaskThrough
  <2> QED
    BY <1>4, <1>5, <2>2, <2>3, <2>4
<1> QED
  BY <1>9, <1>10, <1>11, <1>12, <1>13, <1>14 DEF TaskStep

-----------------------------------------------------------------------------
(* The invariant.                                                           *)

\* Memcache, the network and the instances.
LEMMA EnvironmentRows ==
  ASSUME TypeOK, RowsInv,
         \/ Evict \/ EvictChunk \/ UNCHANGED vars
         \/ \E r \in Requests : Crash(r) \/ \E k \in Kinds : TaskLost(r, k)
  PROVE  RowsInv'
<1>1. CASE Evict \/ EvictChunk \/ UNCHANGED vars
  <2>1. UNCHANGED <<store, req, task>> /\ (cache' = cache \/ cache' = EmptyMap)
    BY <1>1 DEF Evict, EvictChunk, vars
  <2>2. Grows
    BY <2>1 DEF Grows, Makes, Through
  <2>3. Entities' /\ Issued'
    BY <2>1, <2>2, EntitiesStay DEF RowsInv, Issued
  <2>4. PICK c : c = cache'
    OBVIOUS
  <2>5. c \in Map /\ Good(c)
    BY <2>1, <2>4, EmptyMapType, GoodEmpty DEF TypeOK, RowsInv
  <2>6. Good(cache)'
    BY <2>2, <2>4, <2>5, GoodStays
  <2>7. ASSUME NEW s \in Requests PROVE Held(s, req[s])'
    <3>1. PICK p : p = req[s]
      OBVIOUS
    <3>2. p \in Request /\ Held(s, p)
      BY <3>1 DEF TypeOK, RowsInv
    <3>3. Held(s, p)' /\ req'[s] = p
      BY <2>1, <2>2, <3>1, <3>2, HeldStays
    <3> QED
      BY <3>3
  <2>8. ASSUME NEW s \in Requests, NEW k \in Kinds PROVE Carried(s, k, task[s][k])'
    <3>1. PICK t : t = task[s][k]
      OBVIOUS
    <3>2. t \in Task /\ Carried(s, k, t)
      BY <3>1 DEF TypeOK, RowsInv
    <3>3. Carried(s, k, t)' /\ task'[s][k] = t
      BY <2>1, <2>2, <3>1, <3>2, SentStays
    <3> QED
      BY <3>3
  <2>9. \A s \in Requests : (Unsent(req[s]) => task[s]["append"].state = "none")'
    BY <2>1 DEF RowsInv, Unsent
  <2> QED
    BY <2>3, <2>6, <2>7, <2>8, <2>9 DEF RowsInv
<1>2. ASSUME NEW r \in Requests, Crash(r) PROVE RowsInv'
  BY <1>2, FinishRows DEF Crash
<1>3. ASSUME NEW r \in Requests, NEW k \in Kinds, TaskLost(r, k) PROVE RowsInv'
  <2>1. PICK c : c = cache
    OBVIOUS
  <2>2. c \in Map /\ Good(c) /\ cache' = c
    BY <1>3, <2>1 DEF TypeOK, RowsInv, TaskLost
  <2>3. PICK t : t = Handled
    OBVIOUS
  <2>4. /\ task' = [task EXCEPT ![r][k] = t] /\ UNCHANGED <<store, req>> /\ t.state = "done"
        /\ task[r][k].state # "none"
    BY <1>3, <2>3, HandledSent DEF TaskLost
  <2>5. \A b : Through(b) => Through(b)'
    BY <2>4, TaskThrough
  <2>6. Grows
    BY <2>4, <2>5 DEF Grows, Makes
  <2>7. Entities'
    BY <2>4, <2>6, EntitiesStay DEF RowsInv
  <2>8. t.rows = EmptyMap /\ t.map \in {EmptyMap} /\ Good(EmptyMap)'
    BY <2>3, HandledSent DEF Good, Placed, Backed, Present, EmptyMap
  <2>9. Carried(r, k, t)'
    BY <2>8, ToPutSent
  <2> QED
    BY <2>2, <2>4, <2>6, <2>7, <2>9, TaskRows
<1> QED
  BY <1>1, <1>2, <1>3

\* The seeds are stored under their own ids.
LEMMA InitRows == Init => RowsInv
<1> SUFFICES ASSUME Init PROVE RowsInv
  OBVIOUS
<1> USE ReportStoreAssumption
<1>1. ASSUME NEW i \in Ids, Seeds[i] # NoRow
      PROVE  /\ <<"seed", i>> \in Keys /\ SeedRow(i).key = <<"seed", i>>
             /\ Made(<<"seed", i>>) /\ i \in Places(<<"seed", i>>)
             /\ store[<<"seed", i>>] = [id |-> i, row |-> SeedRow(i)]
             /\ store[<<"seed", i>>] # NoRow /\ Through(SeedRow(i).by)
  <2>1. <<"seed", i>> \in Keys /\ SeedRow(i).key = <<"seed", i>>
    BY DEF Keys, SeedRow
  <2>2. store[<<"seed", i>>] = [id |-> i, row |-> SeedRow(i)]
    BY <1>1, <2>1 DEF Init
  <2>3. SeedRow(i) \in Row
    BY <1>1, <2>1 DEF SeedRow, Row, Status
  <2>4. [id |-> i, row |-> SeedRow(i)] \in Entity
    BY <2>3 DEF Entity
  <2>5. SeedRow(i).by = "seed" /\ Through("seed")
    BY DEF SeedRow, Through
  <2>6. Through(SeedRow(i).by)
    BY <2>5
  <2> QED
    BY <1>1, <2>1, <2>2, <2>4, <2>6 DEF Made, Places
<1>2. Good(SeedMap)
  <2>1. \A i \in Present(SeedMap) : i \in Ids /\ Seeds[i] # NoRow /\ SeedMap[i] = SeedRow(i)
    BY DEF Present, SeedMap
  <2>2. ASSUME NEW i \in Present(SeedMap)
        PROVE  /\ SeedMap[i].key # NoKey /\ store[SeedMap[i].key] # NoRow
               /\ Made(SeedMap[i].key) /\ i \in Places(SeedMap[i].key)
               /\ Through(SeedMap[i].by)
    <3>1. i \in Ids /\ Seeds[i] # NoRow /\ SeedMap[i] = SeedRow(i)
      BY <2>1
    <3>2. SeedMap[i].key = <<"seed", i>>
      BY <1>1, <3>1
    <3> QED
      BY <1>1, <3>1, <3>2
  <2> QED
    BY <2>2 DEF Good, Placed, Backed
<1>3. Good(cache)
  BY <1>2, GoodEmpty DEF Init
<1>4. Entities
  <2> SUFFICES ASSUME NEW k \in Keys, store[k] # NoRow
               PROVE  /\ Made(k) /\ store[k].id \in Places(k) /\ store[k].row.key = k
                      /\ Through(store[k].row.by)
    BY DEF Entities
  <2>1. k[1] = "seed" /\ k[2] \in Ids /\ Seeds[k[2]] # NoRow
    BY DEF Init, Keys
  <2>2. k = <<"seed", k[2]>>
    BY <2>1 DEF Keys
  <2>3. PICK i \in Ids : i = k[2] /\ Seeds[i] # NoRow
    BY <2>1
  <2>4. k = <<"seed", i>>
    BY <2>2, <2>3
  <2>5. /\ Made(k) /\ i \in Places(k) /\ SeedRow(i).key = k
        /\ store[k] = [id |-> i, row |-> SeedRow(i)] /\ Through(SeedRow(i).by)
    BY <1>1, <2>3, <2>4
  <2> QED
    BY <2>5
<1>5. Issued
  BY DEF Init, Issued
<1>6. \A r \in Requests : Held(r, req[r])
  <2>1. \A r : Own(r, EmptyMap)
    BY DEF Own, Present, EmptyMap
  <2> QED
    BY <2>1, GoodEmpty DEF Init, Held, Good
<1>7. \A r \in Requests, k \in Kinds : Carried(r, k, task[r][k])
  BY GoodEmpty DEF Init, NoTask, Carried, Own, Present, EmptyMap
<1>8. \A r \in Requests : task[r]["append"].state = "none"
  BY DEF Init, NoTask, Kinds
<1> QED
  BY <1>3, <1>4, <1>5, <1>6, <1>7, <1>8 DEF RowsInv

\* No step breaks the invariant.
LEMMA RowsStep == TypeOK /\ HasId /\ RowsInv /\ [Next]_vars => RowsInv'
<1> SUFFICES ASSUME TypeOK, HasId, RowsInv, [Next]_vars PROVE RowsInv'
  OBVIOUS
<1>1. ASSUME NEW r \in Requests, Create(r) \/ Submit(r) PROVE RowsInv'
  BY <1>1, CreateRows, SubmitRows
<1>2. ASSUME NEW r \in Requests, RequestStep(r) PROVE RowsInv'
  BY <1>2, LoadRows, EditRows, UnbrandRows, PostRows, DisableRows, InitiateRows, RegroupRows
     DEF RequestStep
<1>3. ASSUME NEW r \in Requests, TaskStep(r) PROVE RowsInv'
  BY <1>3, WriterRows
<1> QED
  BY <1>1, <1>2, <1>3, EnvironmentRows DEF Next

\* The invariant of all the theorems below.
LEMMA RowsInvariant == Spec => [](TypeOK /\ HasId /\ RowsInv)
<1>1. Init => TypeOK /\ HasId /\ RowsInv
  BY InitType, InitRows DEF Init, HasId
<1>2. TypeOK /\ HasId /\ RowsInv /\ [Next]_vars => (TypeOK /\ HasId /\ RowsInv)'
  BY TypeStep, RowsStep
<1> QED
  BY <1>1, <1>2, PTL DEF Spec

\* What is shown, for any number of overlapping saves, whatever is lost and whatever memcache
\* evicts: a row has an entity, or had one that a conversion posted for deletion; and of a save
\* by any servlet but AutoSaveData, nothing is shown before its writer's run has come to storing
\* it.
THEOREM ShownRowsAreStored == Spec => []CachedRowsStored
<1>1. TypeOK /\ HasId /\ RowsInv => CachedRowsStored
  BY DEF RowsInv, Good, Backed, Gone, Through, CachedRowsStored
<1> QED
  BY <1>1, RowsInvariant, PTL

\* The id of a key that was made is nobody's study id.
LEMMA NotTaken ==
  ASSUME TypeOK, RowsInv, "regroup" \notin Ops, NEW k \in Keys, Made(k),
         NEW b \in Ids, b # k[2]
  PROVE  StudyId[b] # k[2]
<1>1. SUFFICES ASSUME StudyId[b] = k[2] PROVE FALSE
  OBVIOUS
<1>2. k[1] \in Requests \cup {"seed"} /\ k[2] \in Ids
  BY DEF Keys
<1>3. CASE k[1] = "seed"
  BY <1>1, <1>2, <1>3, IdsAssumption DEF Made
<1>4. CASE k[1] # "seed"
  <2>1. PICK r \in Requests : r = k[1]
    BY <1>2, <1>4
  <2>2. req[r].op \in Ops \cup {"none"}
    BY DEF TypeOK, Request
  <2>3. req[r].op = "create" /\ (k[2] = req[r].id \/ (k[2] \in Dotted /\ Root[k[2]] = req[r].id))
    BY <1>4, <2>1, <2>2 DEF Made, Makes
  <2>4. \A j \in Ids \ {req[r].id} : StudyId[j] # req[r].id
    BY <2>3 DEF RowsInv, Issued
  <2>5. CASE k[2] = req[r].id
    BY <1>1, <2>4, <2>5
  <2>6. CASE k[2] \in Dotted /\ Root[k[2]] = req[r].id
    <3>1. b \in Dotted /\ Root[b] \in Ids
      BY <1>1, <2>6, IdsAssumption, ReportStoreAssumption
    <3>2. StudyId[Root[b]] = req[r].id
      BY <1>1, <2>6, <3>1, IdsAssumption
    <3>3. Root[b] = req[r].id
      BY <2>4, <3>1, <3>2
    <3> QED
      BY <1>1, <3>1, <3>2, <3>3, IdsAssumption
  <2> QED
    BY <2>3, <2>5, <2>6
<1> QED
  BY <1>3, <1>4

\* An id is used for one new row.
LEMMA MadeOnce ==
  ASSUME TypeOK, RowsInv, "regroup" \notin Ops, NEW k \in Keys, NEW l \in Keys, Made(k), Made(l),
         k[2] = l[2]
  PROVE  k = l
<1>1. k = <<k[1], k[2]>> /\ l = <<l[1], l[2]>> /\ {k[1], l[1]} \subseteq Requests \cup {"seed"}
  BY DEF Keys
<1>2. \A r \in Requests : req[r].op # "regroup"
  BY DEF TypeOK, Request
<1>3. ASSUME NEW n \in Keys, Made(n), n[1] # "seed"
      PROVE  /\ n[1] \in Requests /\ req[n[1]].op = "create"
             /\ \/ n[2] = req[n[1]].id /\ n[2] \notin Dotted
                \/ n[2] \in Dotted /\ Root[n[2]] = req[n[1]].id
             /\ Seeds[n[2]] = NoRow
  <2>1. n[1] \in Requests
    BY <1>3 DEF Keys
  <2>2. /\ req[n[1]].op = "create"
        /\ n[2] = req[n[1]].id \/ (n[2] \in Dotted /\ Root[n[2]] = req[n[1]].id)
    BY <1>2, <1>3, <2>1 DEF Made, Makes
  <2>3. req[n[1]].id \in Ids \ Dotted /\ Seeds[req[n[1]].id] = NoRow
    BY <2>1, <2>2 DEF RowsInv, Issued
  <2> QED
    BY <2>1, <2>2, <2>3, IdsAssumption
<1>4. CASE k[1] = "seed" \/ l[1] = "seed"
  BY <1>1, <1>3, <1>4 DEF Made
<1>5. CASE k[1] # "seed" /\ l[1] # "seed"
  <2>1. req[k[1]].op = "create" /\ req[l[1]].op = "create" /\ req[k[1]].id = req[l[1]].id
    BY <1>3, <1>5
  <2>2. k[1] = l[1]
    BY <1>3, <1>5, <2>1 DEF RowsInv, Issued
  <2> QED
    BY <1>1, <2>2
<1> QED
  BY <1>4, <1>5

\* A project has one row in the datastore, as long as no family is re-written (regroup makes
\* rows under ids that others may be making): for any number of overlapping creations, edits,
\* conversions, initiations and removals, whatever is lost or evicted.
THEOREM ProjectsHaveOneRow == ASSUME "regroup" \notin Ops PROVE Spec => []NoTwins
<1>1. TypeOK /\ HasId /\ RowsInv => NoTwins
  <2> SUFFICES ASSUME TypeOK, RowsInv, NEW i \in Ids, NEW k \in LiveKeys(i), NEW l \in LiveKeys(i)
               PROVE  k = l
    BY DEF NoTwins
  <2>1. /\ k \in Keys /\ l \in Keys /\ k[2] \in Ids /\ l[2] \in Ids
        /\ Made(k) /\ Made(l) /\ i \in Places(k) /\ i \in Places(l)
    BY DEF LiveKeys, RowsInv, Entities, Keys
  <2>2. k[2] = l[2]
    <3>1. k[2] # l[2] => StudyId[k[2]] # l[2] /\ StudyId[l[2]] # k[2]
      BY <2>1, NotTaken
    <3>2. CASE i = k[2] \/ i = l[2]
      BY <2>1, <3>1, <3>2 DEF Places
    <3>3. CASE i = StudyId[k[2]] /\ i = StudyId[l[2]]
      BY <2>1, <3>1, <3>3, IdsAssumption, ZenonT(40)
    <3> QED
      BY <2>1, <3>2, <3>3 DEF Places
  <2> QED
    BY <2>1, <2>2, MadeOnce
<1> QED
  BY <1>1, RowsInvariant, PTL

-----------------------------------------------------------------------------
(***************************************************************************)
(* Saves that do not overlap: the cache shows what is stored, and the      *)
(* store is the table of ProjectTable, on which each save acts once. For   *)
(* any ids, any number of saves and any of their histories, as long as the *)
(* platform loses nothing and no project is converted to a single brand.   *)
(* Pages may be as old as they like. What one of them adds a second time   *)
(* is spoilt: it is stored twice and shown once, and all the rest is as it *)
(* should be.                                                              *)
(*                                                                         *)
(* The invariant goes by phases of the one save that is under way. Until   *)
(* its rows are persisted they are pending: with them, the map that the    *)
(* writer will put is exactly what will be stored.                         *)
(***************************************************************************)

\* The projects and their brands: an id contains that of a project only if it is one of its
\* brands, and a stored family consists of a project and its brands.
Families ==
    /\ \A i \in Ids \ Dotted : Extends[i] = {i} \cup {d \in Dotted : Root[d] = i}
    /\ \A i \in Ids \ Dotted : Seeds[i] # NoRow /\ Seeds[i] # {} =>
         i \in Seeds[i] /\ Seeds[i] \subseteq Extends[i]

\* Saves one after the other, and nothing lost.
OneAtATime ==
    /\ Serial /\ WarmCache /\ Evicts = {} /\ ~Loses
    /\ "brand" \notin Ops
    /\ Families

-----------------------------------------------------------------------------
(* What a map shows.                                                        *)

Showing(m) == {i \in Ids : m[i] # NoRow /\ m[i].st # "Disabled"}

LiveAt(k) == store[k] # NoRow /\ store[k].row.st # "Disabled"

\* What a map shows is stored, and of what is stored it hides nothing that is not spoilt.
Exact(m) ==
    /\ \A i \in Showing(m) : m[i].key \in Keys /\ store[m[i].key] = [id |-> i, row |-> m[i]]
    /\ \A k \in Keys : LiveAt(k) => store[k].id \in Spoilt \/ m[store[k].id] = store[k].row

Project(i) == IF i \in Dotted THEN Root[i] ELSE i

Origin(i) == Seeds[i] # NoRow \/ \E r \in Requests : req[r].op = "create" /\ req[r].id = i

\* Every id comes from a seed or a creation, perhaps by initiation; ...
Descends(i) == \E j \in Ids : Origin(j) /\ Project(i) \in {j, StudyId[j]}
Sourced(m) == \A i \in Showing(m) : Descends(i)

\* ... the study id of a project is free as long as the project has its own; ...
Unclaimed(m) == \A i \in Showing(m) \ Dotted, j \in Showing(m) :
    StudyId[i] # i => Project(j) # StudyId[i]

\* ... and a family is a project and brands of its own.
Related(m) == \A i \in Showing(m) \ Dotted :
    m[i].kids # {} => i \in m[i].kids /\ m[i].kids \subseteq Extends[i]

Orderly(m) == Sourced(m) /\ Unclaimed(m) /\ Related(m)

Fits(m) == Exact(m) /\ Orderly(m)

-----------------------------------------------------------------------------
(* The actions of ProjectTable, as relations between two tables, of which   *)
(* the second may be anything at the ids in D.                              *)

Tabled(m) == [i \in Ids |-> IF i \in Showing(m) THEN Shown(m[i]) ELSE NoRow]

Now == [i \in Ids |-> IF LiveKeys(i) = {} THEN NoRow ELSE Shown(LiveMap[i])]

In(t) == {i \in Ids : t[i] # NoRow}

Rests(D, t, u) == \A j \in Ids \ D : u[j] = t[j]

Edits(D, r, S, t, u) ==
    /\ S \subseteq In(t)
    /\ \E po \in BOOLEAN : \A j \in Ids \ D :
         u[j] = IF j \in S THEN [t[j] EXCEPT !.st = IF po THEN "Active" ELSE @, !.by = r] ELSE t[j]

Disables(D, r, i, t, u) == \A j \in Ids \ D : u[j] = IF j \in Extends[i] THEN NoRow ELSE t[j]

Creates(D, r, i, kids, t, u) ==
    /\ i \notin In(t)
    /\ \E st \in {"New", "Active"} : \A j \in Ids \ D :
         u[j] = IF j \in kids \cup {i} THEN [st |-> st, kids |-> kids, by |-> r] ELSE t[j]

Initiates(D, r, i, t, u) ==
    LET moved == IF t[i].kids = {} THEN {i} ELSE t[i].kids \cap Extends[i]
        new == {StudyId[j] : j \in moved}
    IN  /\ i \in In(t) /\ moved \subseteq In(t)
        /\ \A k \in Ids \ D :
             u[k] = IF k \in new
                    THEN LET j == CHOOSE j \in moved : StudyId[j] = k
                         IN  [t[j] EXCEPT !.kids = {StudyId[n] : n \in @}, !.by = r]
                    ELSE IF k \in moved THEN NoRow ELSE t[k]

Regroups(D, r, i, kids, t, u) ==
    /\ i \in kids
    /\ i \in In(t) \/ kids \ {i} \subseteq In(t)
    /\ \E f \in In(t) \cap Extends[i], st \in {"New", "Active"} :
         /\ f \in D \/ st = t[f].st
         /\ \A j \in Ids \ D :
              u[j] = CASE j \notin kids \/ (j = i /\ i \notin In(t)) -> t[j]
                       [] j \in kids \cap In(t) -> [t[j] EXCEPT !.kids = kids, !.by = r]
                       [] OTHER -> [st |-> st, kids |-> kids, by |-> r]

Acts(D, r, t, u) == \E i \in Ids :
    \/ Disables(D, r, i, t, u) \/ Initiates(D, r, i, t, u) \/ Rests(D, t, u)
    \/ \E S \in SUBSET Extends[i] :
         Edits(D, r, S, t, u) \/ Creates(D, r, i, S, t, u) \/ Regroups(D, r, i, S, t, u)

-----------------------------------------------------------------------------
(* The invariant.                                                           *)

\* When r persists rows, m with them over it becomes exact, but for the ids in D.
Completes(D, r, m, rows) ==
    LET put == Keyed(r, rows)
    IN  /\ \A i, j \in Present(rows) : put[i].key = put[j].key => i = j
        /\ \A i \in Present(rows) : rows[i].key # NoKey => store[rows[i].key] # NoRow
        /\ \A i \in Showing(m) \ Present(rows) :
             /\ m[i].key \in Keys /\ store[m[i].key] = [id |-> i, row |-> m[i]]
             /\ \A j \in Present(rows) : put[j].key # m[i].key
        /\ \A k \in Keys : LiveAt(k) =>
             \/ \E j \in Present(rows) : put[j].key = k
             \/ store[k].id \in D
             \/ store[k].id \notin Present(rows) /\ m[store[k].id] = store[k].row

Pending(r, m, rows) ==
    /\ Completes(Spoilt, r, m, rows) /\ Orderly(Over(m, rows))
    /\ Acts(Spoilt, r, Now, Tabled(Over(m, rows)))

\* The map that the writer begins with.
Stripped(m, old) ==
    IF old # NoRow /\ old \in Present(m) THEN Without(m, Family(m, old)) ELSE m

\* With a null among the rows the writer puts nothing: they have to be in the map already.
Has(m, rows) == \A i \in Present(rows) : m[i] = rows[i] /\ rows[i].key # NoKey

Lively(rows) == \E i \in Present(rows) : rows[i].st # "Disabled"

\* Where a handler q of r is, and where a post t of r is. An initiation reads the map again
\* after its post, when the writer may or may not have put its own.
At(r, q) ==
    /\ q.pc \in {"get", "query", "apply"} /\ ~q.again => Fits(cache)
    /\ q.pc = "query" => Showing(cache) = {}
    /\ q.pc = "fill" => Fits(q.map) /\ Present(q.map) = Showing(q.map)
    /\ q.pc = "apply" => q.map = Visible(cache)
    /\ q.pc = "put" => IF q.rows = EmptyMap THEN Fits(q.map)
                       ELSE Pending(r, q.map, q.rows) /\ (q.null => Has(q.map, q.rows))
    /\ q.pc = "send" => /\ Pending(r, Stripped(cache, q.old), q.rows)
                        /\ q.null => q.old = NoRow /\ Has(cache, q.rows)
                        /\ q.op = "initiate" => Showing(cache) # {} /\ Lively(q.rows)
    /\ q.pc = "get" /\ q.again => Showing(cache) # {}

On(r, t) ==
    /\ t.state = "sent" => /\ Pending(r, Stripped(cache, t.old), t.rows)
                           /\ t.null => t.old = NoRow /\ Has(cache, t.rows)
                           /\ req[r].op = "initiate" => Lively(t.rows)
    /\ t.state = "persist" => /\ Pending(r, t.map, t.rows)
                              /\ t.null => t.map = cache /\ Has(cache, t.rows)
                              /\ req[r].op = "initiate" => Lively(t.rows)
    /\ t.state = "put" => Fits(t.map) /\ (req[r].op = "initiate" => Showing(t.map) # {})

\* What is true of a handler and of the posts of r all the time.
Proper(q) ==
    /\ q.pc # "sendDelete" /\ q.op # "brand"
    /\ q.again => q.op = "initiate" /\ q.pc \in {"get", "done"}
    /\ q.pc = "idle" => q.op = "none"
    /\ q.pc \in {"idle", "get", "query", "fill", "apply"} =>
         q.rows = EmptyMap /\ q.old = NoRow /\ ~q.null
    /\ q.pc = "put" => q.old = NoRow /\ q.op = "edit"
    /\ q.op \in {"initiate", "regroup"} => q.id \notin Dotted
    /\ q.op = "initiate" => StudyId[q.id] # q.id
    /\ q.twins \subseteq Dotted
    /\ q.op # "regroup" \/ q.pc \in {"idle", "get", "query", "fill", "apply"} => q.twins = {}

Regular(r) ==
    LET t == task[r]["append"]
    IN  /\ Proper(req[r])
        /\ Unsent(req[r]) => t.state = "none"
        /\ task[r]["delete"].state = "none"
        /\ t.state \in {"none", "sent", "persist"} => \A i \in Ids : store[<<r, i>>] = NoRow

\* A save that has not acted on the map yet, and a save that is not over.
Working(r) ==
    \/ Unsent(req[r]) /\ req[r].pc # "idle"
    \/ task[r]["append"].state \notin {"none", "done"}

Busy(r) == req[r].pc \notin {"idle", "done"} \/ task[r]["append"].state \notin {"none", "done"}

SerialInv ==
    /\ ~holed
    /\ (\A r \in Requests : ~Working(r)) => Fits(cache)
    /\ \A r \in Requests : At(r, req[r]) /\ On(r, task[r]["append"]) /\ Regular(r)
    /\ \A r \in Requests : \A i \in req[r].twins : Descends(i)
    /\ \A r, s \in Requests : Busy(r) /\ Busy(s) => r = s

-----------------------------------------------------------------------------
(* Maps that fit.                                                           *)

LEMMA ShowingPresent == ASSUME NEW m PROVE Showing(m) \subseteq Present(m) /\ Showing(m) \subseteq Ids
  BY DEF Showing, Present

\* What is spoilt are brands that were added once before, and their study ids.
LEMMA SpoiltBrands ==
  ASSUME SerialInv
  PROVE  /\ Spoilt \subseteq Dotted /\ Spoilt \subseteq Ids
         /\ \A i \in Spoilt : StudyId[i] \in Spoilt
         /\ \A i \in Spoilt : Descends(i)
<1>1. \A i \in Doubled : i \in Dotted /\ Descends(i)
  BY DEF Doubled, SerialInv, Regular, Proper
<1>2. \A i \in Doubled : StudyId[i] \in Dotted /\ StudyId[StudyId[i]] = StudyId[i]
  BY <1>1, ReportStoreAssumption, IdsAssumption
<1>3. ASSUME NEW i \in Doubled PROVE Descends(StudyId[i])
  <2>1. PICK j \in Ids : Origin(j) /\ Root[i] \in {j, StudyId[j]}
    BY <1>1 DEF Descends, Project
  <2>2. Project(StudyId[i]) = StudyId[Root[i]]
    BY <1>1, <1>2, IdsAssumption DEF Project
  <2>3. StudyId[Root[i]] = StudyId[j]
    BY <2>1, IdsAssumption
  <2> QED
    BY <2>1, <2>2, <2>3 DEF Descends
<1> QED
  BY <1>1, <1>2, <1>3, ReportStoreAssumption DEF Spoilt

\* A live row is the row of a live entity of its id.
LEMMA LiveRow ==
  ASSUME TypeOK, NEW k \in Keys, LiveAt(k)
  PROVE  store[k] \in Entity /\ store[k].id \in Ids /\ store[k].row \in Row /\ store[k].row # NoRow
  BY ReportStoreAssumption DEF TypeOK, LiveAt, Entity

\* Maps that show the same fit alike.
LEMMA SameShown ==
  ASSUME TypeOK, NEW m, NEW n, Fits(m), Showing(n) = Showing(m),
         \A i \in Showing(m) : n[i] = m[i]
  PROVE  Fits(n)
<1>1. Orderly(n)
  BY DEF Fits, Orderly, Sourced, Unclaimed, Related
<1>2. ASSUME NEW k \in Keys, LiveAt(k), store[k].id \notin Spoilt PROVE n[store[k].id] = store[k].row
  <2>1. m[store[k].id] = store[k].row /\ store[k].row.st # "Disabled"
    BY <1>2 DEF Fits, Exact, LiveAt
  <2>2. store[k].id \in Showing(m)
    BY <1>2, <2>1, LiveRow DEF Showing
  <2> QED
    BY <2>1, <2>2
<1> QED
  BY <1>1, <1>2 DEF Fits, Exact

LEMMA VisibleShows ==
  ASSUME NEW m \in Map
  PROVE  /\ Showing(Visible(m)) = Showing(m) /\ Present(Visible(m)) = Showing(m)
         /\ \A i \in Showing(m) : Visible(m)[i] = m[i]
  BY DEF Showing, Visible, Present

LEMMA VisibleFits ==
  ASSUME TypeOK, NEW m \in Map, Fits(m)
  PROVE  Fits(Visible(m)) /\ Present(Visible(m)) = Showing(Visible(m))
  BY VisibleShows, SameShown

\* A row that is shown has an entity of its own, ...
LEMMA ExactRow ==
  ASSUME TypeOK, NEW m \in Map, Exact(m), NEW i \in Showing(m)
  PROVE  /\ i \in Ids /\ m[i] \in Row /\ m[i] # NoRow /\ m[i].st # "Disabled"
         /\ m[i].key \in Keys /\ m[i].key # NoKey /\ store[m[i].key] # NoRow
         /\ store[m[i].key] = [id |-> i, row |-> m[i]]
         /\ \A j \in Showing(m) : m[j].key = m[i].key => j = i
<1>1. i \in Ids /\ m[i] \in Row /\ m[i] # NoRow /\ m[i].st # "Disabled"
  BY ShowingPresent, PresentRow DEF Showing
<1>2. m[i].key \in Keys /\ store[m[i].key] = [id |-> i, row |-> m[i]]
  BY DEF Exact
<1>3. [id |-> i, row |-> m[i]] \in Entity
  BY <1>1 DEF Entity
<1>4. \A j \in Showing(m) : m[j].key = m[i].key => j = i
  <2> SUFFICES ASSUME NEW j \in Showing(m), m[j].key = m[i].key PROVE j = i
    OBVIOUS
  <2>1. store[m[j].key] = [id |-> j, row |-> m[j]]
    BY DEF Exact
  <2> QED
    BY <1>2, <2>1
<1> QED
  BY <1>1, <1>2, <1>3, <1>4, ReportStoreAssumption

\* ... and a live entity that is not spoilt shows under its id.
LEMMA ExactEntity ==
  ASSUME TypeOK, RowsInv, NEW m, Exact(m), NEW k \in Keys, LiveAt(k), store[k].id \notin Spoilt
  PROVE  /\ store[k].id \in Showing(m) /\ m[store[k].id] = store[k].row
         /\ m[store[k].id].key = k
<1>1. m[store[k].id] = store[k].row /\ store[k].row.key = k
  BY DEF Exact, RowsInv, Entities, LiveAt
<1> QED
  BY <1>1, LiveRow DEF Showing, LiveAt

\* What a map shows exactly is what the query returns.
LEMMA ExactLive ==
  ASSUME TypeOK, RowsInv, NEW m \in Map, Exact(m), NEW i \in Ids
  PROVE  /\ i \in Showing(m) => m[i].key \in LiveKeys(i) /\ store[m[i].key].row = m[i]
         /\ i \notin Spoilt /\ i \in Showing(m) => LiveKeys(i) = {m[i].key}
         /\ i \notin Spoilt /\ i \notin Showing(m) => LiveKeys(i) = {}
<1>1. ASSUME NEW k \in LiveKeys(i), i \notin Spoilt PROVE i \in Showing(m) /\ k = m[i].key
  <2>1. k \in Keys /\ LiveAt(k) /\ store[k].id = i
    BY DEF LiveKeys, LiveAt
  <2> QED
    BY <1>1, <2>1, ExactEntity
<1>2. ASSUME i \in Showing(m) PROVE m[i].key \in LiveKeys(i) /\ store[m[i].key].row = m[i]
  <2>1. /\ m[i].key \in Keys /\ store[m[i].key] = [id |-> i, row |-> m[i]] /\ m[i].st # "Disabled"
        /\ store[m[i].key] # NoRow
    BY <1>2, ExactRow
  <2>2. store[m[i].key].id = i /\ store[m[i].key].row = m[i]
    BY <2>1
  <2> QED
    BY <2>1, <2>2 DEF LiveKeys
<1> QED
  BY <1>1, <1>2

LEMMA ExactQuery ==
  ASSUME TypeOK, RowsInv, NEW m \in Map, Exact(m)
  PROVE  /\ \A i \in Ids \ Spoilt : /\ LiveMap[i] = Visible(m)[i] /\ Now[i] = Tabled(m)[i]
                                   /\ \A k, l \in LiveKeys(i) : k = l
         /\ Showing(m) \subseteq In(Now)
<1>0. \A i \in Ids : LiveKeys(i) # {} => Now[i] # NoRow
  <2> SUFFICES ASSUME NEW i \in Ids, LiveKeys(i) # {} PROVE Now[i] # NoRow
    OBVIOUS
  <2>1. Now[i] = Shown(LiveMap[i])
    BY DEF Now
  <2>2. PICK k \in LiveKeys(i) : LiveMap[i] = store[k].row
    BY DEF LiveMap
  <2>3. store[k].row \in Row
    BY LiveRow DEF LiveKeys, LiveAt
  <2>4. Shown(store[k].row) \in [st : Status, kids : SUBSET Ids, by : Requests \cup {"seed"}]
    BY <2>3 DEF Shown, Row
  <2> QED
    BY <2>1, <2>2, <2>4, ReportStoreAssumption
<1>1. ASSUME NEW i \in Ids \ Spoilt PROVE LiveMap[i] = Visible(m)[i]
  <2>1. CASE i \in Showing(m)
    <3>1. LiveKeys(i) = {m[i].key} /\ store[m[i].key].row = m[i]
      BY <2>1, ExactLive
    <3>2. LiveMap[i] = store[CHOOSE k \in LiveKeys(i) : TRUE].row
      BY <3>1 DEF LiveMap
    <3> QED
      BY <2>1, <3>1, <3>2, VisibleShows
  <2>2. CASE i \notin Showing(m)
    <3>1. LiveKeys(i) = {}
      BY <2>2, ExactLive
    <3> QED
      BY <2>2, <3>1 DEF LiveMap, Visible, Showing, Present
  <2> QED
    BY <2>1, <2>2
<1>2. ASSUME NEW i \in Ids \ Spoilt PROVE Now[i] = Tabled(m)[i]
  <2>1. CASE i \in Showing(m)
    BY <1>1, <2>1, ExactLive, VisibleShows DEF Now, Tabled
  <2>2. CASE i \notin Showing(m)
    BY <2>2, ExactLive DEF Now, Tabled
  <2> QED
    BY <2>1, <2>2
<1>3. ASSUME NEW i \in Ids \ Spoilt, NEW k \in LiveKeys(i), NEW l \in LiveKeys(i) PROVE k = l
  BY ExactLive
<1>4. \A i \in Showing(m) : i \in Ids /\ LiveKeys(i) # {}
  BY ExactLive, ShowingPresent
<1> QED
  BY <1>0, <1>1, <1>2, <1>3, <1>4 DEF In

\* When a map shows nothing, what the query returns fits: it is all spoilt.
LEMMA QueryFits ==
  ASSUME TypeOK, RowsInv, SerialInv, NEW c \in Map, Fits(c), Showing(c) = {}
  PROVE  LiveMap \in Map /\ Fits(LiveMap) /\ Present(LiveMap) = Showing(LiveMap)
<1>1. PICK m : m = LiveMap
  OBVIOUS
<1>2. m \in Map
  BY <1>1, LiveMapType
<1>3. ASSUME NEW i \in Present(m)
      PROVE  /\ i \in Spoilt /\ i \in Showing(m) /\ m[i].key \in Keys
             /\ store[m[i].key] = [id |-> i, row |-> m[i]]
  <2>1. i \in Ids /\ LiveKeys(i) # {}
    BY <1>1 DEF Present, LiveMap
  <2>2. PICK k \in LiveKeys(i) : m[i] = store[k].row
    BY <1>1, <2>1 DEF LiveMap
  <2>3. k \in Keys /\ LiveAt(k) /\ store[k].id = i
    BY <2>2 DEF LiveKeys, LiveAt
  <2>4. store[k].row.key = k
    BY <2>3 DEF RowsInv, Entities, LiveAt
  <2>5. store[k] = [id |-> i, row |-> m[i]]
    BY <2>2, <2>3, LiveRow DEF Entity
  <2>6. i \in Spoilt
    BY <2>1, ExactLive DEF Fits
  <2> QED
    BY <2>1, <2>2, <2>3, <2>4, <2>5, <2>6, LiveRow DEF Showing, LiveAt
<1>4. Present(m) = Showing(m)
  BY <1>3, ShowingPresent
<1>5. Exact(m)
  <2> SUFFICES ASSUME NEW k \in Keys, LiveAt(k), store[k].id \notin Spoilt PROVE FALSE
    BY <1>3, <1>4 DEF Exact
  <2> QED
    BY ExactEntity DEF Fits
<1>6. Orderly(m)
  BY <1>3, <1>4, SpoiltBrands DEF Orderly, Sourced, Unclaimed, Related
<1> QED
  BY <1>1, <1>2, <1>4, <1>5, <1>6 DEF Fits

-----------------------------------------------------------------------------
(* Persisting.                                                              *)

LEMMA KeyedLooks ==
  ASSUME NEW r \in Requests, NEW rows \in Map
  PROVE  /\ Keyed(r, rows) \in Map
         /\ Present(Keyed(r, rows)) = Present(rows)
         /\ \A i \in Present(rows) :
              /\ Keyed(r, rows)[i].key \in Keys
              /\ Keyed(r, rows)[i].key = IF rows[i].key = NoKey THEN <<r, i>> ELSE rows[i].key
              /\ Keyed(r, rows)[i].st = rows[i].st /\ Keyed(r, rows)[i].kids = rows[i].kids
              /\ Keyed(r, rows)[i].by = rows[i].by
<1>1. PICK put : put = Keyed(r, rows)
  OBVIOUS
<1>2. put \in Map
  BY <1>1, KeyedType
<1>3. ASSUME NEW i \in Present(rows)
      PROVE  /\ i \in Present(put) /\ put[i].key \in Keys
             /\ put[i].key = IF rows[i].key = NoKey THEN <<r, i>> ELSE rows[i].key
             /\ put[i].st = rows[i].st /\ put[i].kids = rows[i].kids /\ put[i].by = rows[i].by
  <2>1. i \in Ids /\ rows[i] \in Row
    BY PresentRow
  <2>2. CASE rows[i].key = NoKey
    <3>1. put[i] = [rows[i] EXCEPT !.key = <<r, i>>] /\ <<r, i>> \in Keys
      BY <1>1, <2>1, <2>2 DEF Keyed, Keys
    <3>2. put[i] \in Row
      BY <2>1, <3>1 DEF Row
    <3> QED
      BY <2>1, <2>2, <3>1, <3>2, ReportStoreAssumption DEF Row, Present
  <2>3. CASE rows[i].key # NoKey
    <3>1. put[i] = rows[i]
      BY <1>1, <2>1, <2>3 DEF Keyed
    <3> QED
      BY <2>1, <2>3, <3>1 DEF Row, Present
  <2> QED
    BY <2>2, <2>3
<1>4. ASSUME NEW i \in Present(put) PROVE i \in Present(rows)
  BY <1>1 DEF Keyed, Present
<1> QED
  BY <1>1, <1>2, <1>3, <1>4

\* With the keys they are given, the rows of a post show the same.
LEMMA OverKeyed ==
  ASSUME NEW r \in Requests, NEW rows \in Map, NEW m
  PROVE  /\ Orderly(Over(m, rows)) => Orderly(Over(m, Keyed(r, rows)))
         /\ Tabled(Over(m, Keyed(r, rows))) = Tabled(Over(m, rows))
<1>1. PICK put : put = Keyed(r, rows)
  OBVIOUS
<1>2. PICK a : a = Over(m, rows)
  OBVIOUS
<1>3. PICK b : b = Over(m, put)
  OBVIOUS
<1>4. ASSUME NEW i \in Ids
      PROVE  \/ a[i] = b[i]
             \/ /\ a[i] # NoRow /\ b[i] # NoRow
                /\ b[i].st = a[i].st /\ b[i].kids = a[i].kids /\ b[i].by = a[i].by
  <2>1. CASE i \in Present(rows)
    <3>1. i \in Present(put)
      BY <1>1, <2>1, KeyedLooks
    <3>2. a[i] = rows[i] /\ b[i] = put[i] /\ a[i] # NoRow /\ b[i] # NoRow
      BY <1>2, <1>3, <2>1, <3>1 DEF Over, Present
    <3>3. put[i].st = rows[i].st /\ put[i].kids = rows[i].kids /\ put[i].by = rows[i].by
      BY <1>1, <2>1, KeyedLooks
    <3> QED
      BY <3>2, <3>3
  <2>2. CASE i \notin Present(rows)
    <3>1. i \notin Present(put)
      BY <1>1, <2>2, KeyedLooks
    <3>2. a[i] = m[i] /\ b[i] = m[i]
      BY <1>2, <1>3, <2>2, <3>1 DEF Over, Present
    <3> QED
      BY <3>2
  <2> QED
    BY <2>1, <2>2
<1>5. Showing(a) = Showing(b) /\ \A i \in Showing(a) : a[i].kids = b[i].kids /\ Shown(a[i]) = Shown(b[i])
  BY <1>4 DEF Showing, Shown
<1>6. Orderly(a) => Orderly(b)
  BY <1>5 DEF Orderly, Sourced, Unclaimed, Related
<1>7. Tabled(a) = Tabled(b)
  BY <1>5 DEF Tabled
<1> QED
  BY <1>1, <1>2, <1>3, <1>6, <1>7

LEMMA KeyedKey ==
  ASSUME NEW r \in Requests, NEW rows \in Map, NEW put, put = Keyed(r, rows),
         NEW i \in Present(rows)
  PROVE  /\ rows[i].key = NoKey => put[i].key = <<r, i>>
         /\ rows[i].key # NoKey => put[i].key = rows[i].key
  BY KeyedLooks

\* Rows that a map has already change nothing when they are persisted and put over it.
LEMMA HasKeyed ==
  ASSUME NEW r \in Requests, NEW rows \in Map, NEW m \in Map, Has(m, rows)
  PROVE  Over(m, Keyed(r, rows)) = m /\ Over(m, rows) = m
<1>1. PICK put : put = Keyed(r, rows)
  OBVIOUS
<1>2. ASSUME NEW i \in Ids PROVE put[i] = rows[i] /\ (rows[i] # NoRow => m[i] = rows[i])
  <2>1. CASE i \in Present(rows)
    BY <1>1, <2>1 DEF Keyed, Has
  <2>2. CASE i \notin Present(rows)
    BY <1>1, <2>2 DEF Keyed, Present
  <2> QED
    BY <2>1, <2>2 DEF Present
<1>3. m = [i \in Ids |-> m[i]]
  BY DEF Map
<1> QED
  BY <1>1, <1>2, <1>3 DEF Over

LEMMA PersistExact ==
  ASSUME TypeOK, NEW r \in Requests, NEW m \in Map, NEW rows \in Map, Completes(Spoilt, r, m, rows),
         NEW put, put = Keyed(r, rows), store' = Written(put, Present(put)), Spoilt \subseteq Spoilt'
  PROVE  Exact(Over(m, put))'
<1>0. Present(put) = Present(rows) /\ put \in Map /\ \A i \in Present(rows) : put[i].key \in Keys
  BY KeyedLooks
<1>1. ASSUME NEW i \in Present(rows) PROVE store'[put[i].key] = [id |-> i, row |-> put[i]]
  <2>1. PICK k : k = put[i].key
    OBVIOUS
  <2>2. k \in Keys /\ \E j \in Present(put) : put[j].key = k
    BY <1>0, <2>1
  <2> DEFINE j == CHOOSE j \in Present(put) : put[j].key = k
  <2>3. store'[k] = [id |-> j, row |-> put[j]]
    BY <2>2 DEF Written
  <2>4. j \in Present(rows) /\ put[j].key = k
    BY <1>0, <2>2
  <2>5. j = i
    BY <2>1, <2>4 DEF Completes
  <2> QED
    BY <2>1, <2>3, <2>5
<1>2. ASSUME NEW k \in Keys, \A i \in Present(rows) : put[i].key # k PROVE store'[k] = store[k]
  BY <1>0, <1>2 DEF Written
<1>3. PICK o : o = Over(m, put)
  OBVIOUS
<1>4. \A i \in Ids : o[i] = IF i \in Present(rows) THEN put[i] ELSE m[i]
  BY <1>0, <1>3 DEF Over, Present
<1>5. ASSUME NEW i \in Showing(o) PROVE o[i].key \in Keys /\ store'[o[i].key] = [id |-> i, row |-> o[i]]
  <2>1. i \in Ids
    BY DEF Showing
  <2>2. CASE i \in Present(rows)
    BY <1>0, <1>1, <1>4, <2>1, <2>2
  <2>3. CASE i \notin Present(rows)
    <3>1. o[i] = m[i] /\ i \in Showing(m) \ Present(rows)
      BY <1>4, <2>1, <2>3 DEF Showing
    <3>2. /\ m[i].key \in Keys /\ store[m[i].key] = [id |-> i, row |-> m[i]]
          /\ \A j \in Present(rows) : put[j].key # m[i].key
      BY <3>1 DEF Completes
    <3> QED
      BY <1>2, <3>1, <3>2
  <2> QED
    BY <2>2, <2>3
<1>6. ASSUME NEW k \in Keys, LiveAt(k)', store'[k].id \notin Spoilt' PROVE o[store'[k].id] = store'[k].row
  <2>1. CASE \E j \in Present(rows) : put[j].key = k
    <3>1. PICK j \in Present(rows) : put[j].key = k
      BY <2>1
    <3>2. store'[k] = [id |-> j, row |-> put[j]] /\ j \in Ids
      BY <1>1, <3>1, PresentRow
    <3> QED
      BY <1>4, <3>1, <3>2
  <2>2. CASE \A j \in Present(rows) : put[j].key # k
    <3>1. store'[k] = store[k]
      BY <1>2, <2>2
    <3>2. LiveAt(k)
      BY <1>6, <3>1 DEF LiveAt
    <3>3. store[k].id \notin Present(rows) /\ m[store[k].id] = store[k].row
      BY <1>6, <2>2, <3>1, <3>2 DEF Completes
    <3> QED
      BY <1>4, <3>1, <3>2, <3>3, LiveRow
  <2> QED
    BY <2>1, <2>2
<1> QED
  BY <1>3, <1>5, <1>6 DEF Exact, Over, Showing

-----------------------------------------------------------------------------
(* What a step leaves alone.                                                *)

OriginsStay == (\A i \in Ids : Origin(i) => Origin(i)') /\ Spoilt \subseteq Spoilt'

LEMMA OrderlyStays == ASSUME OriginsStay, NEW m, Orderly(m) PROVE Orderly(m)'
<1>1. Sourced(m)'
  BY DEF OriginsStay, Orderly, Sourced, Descends, Showing
<1>2. Unclaimed(m)' /\ Related(m)'
  BY DEF Orderly, Unclaimed, Related, Showing
<1> QED
  BY <1>1, <1>2 DEF Orderly

LEMMA ExactStays == ASSUME UNCHANGED store, OriginsStay, NEW m, Exact(m) PROVE Exact(m)'
  BY DEF Exact, Showing, LiveAt, OriginsStay

LEMMA FitsStays == ASSUME UNCHANGED store, OriginsStay, NEW m, Fits(m) PROVE Fits(m)'
  BY OrderlyStays, ExactStays DEF Fits

LEMMA NowStays == ASSUME UNCHANGED store PROVE Now' = Now
  BY DEF Now, LiveKeys, LiveMap

LEMMA CompletesStays ==
  ASSUME UNCHANGED store, NEW D, NEW E, D \subseteq E, NEW r, NEW m, NEW rows, Completes(D, r, m, rows)
  PROVE  Completes(E, r, m, rows)'
  BY DEF Completes, LiveAt, Keyed, Present, Showing

\* An action that is right but for the ids in D is right but for more of them, whatever those are.
LEMMA ActsGrow ==
  ASSUME NEW D, NEW E, D \subseteq E, NEW r, NEW t, NEW u, NEW v, \A j \in Ids \ E : v[j] = u[j],
         Acts(D, r, t, u)
  PROVE  Acts(E, r, t, v)
<1>1. \A j \in Ids \ E : j \in Ids \ D /\ v[j] = u[j]
  OBVIOUS
<1>2. PICK i \in Ids :
        \/ Disables(D, r, i, t, u) \/ Initiates(D, r, i, t, u) \/ Rests(D, t, u)
        \/ \E S \in SUBSET Extends[i] :
             Edits(D, r, S, t, u) \/ Creates(D, r, i, S, t, u) \/ Regroups(D, r, i, S, t, u)
  BY DEF Acts
<1>3. Disables(D, r, i, t, u) => Disables(E, r, i, t, v)
  BY <1>1 DEF Disables
<1>4. Initiates(D, r, i, t, u) => Initiates(E, r, i, t, v)
  BY <1>1 DEF Initiates
<1>5. Rests(D, t, u) => Rests(E, t, v)
  BY <1>1 DEF Rests
<1>6. ASSUME NEW S, Edits(D, r, S, t, u) PROVE Edits(E, r, S, t, v)
  <2>1. PICK po \in BOOLEAN : \A j \in Ids \ D :
          u[j] = IF j \in S THEN [t[j] EXCEPT !.st = IF po THEN "Active" ELSE @, !.by = r] ELSE t[j]
    BY <1>6 DEF Edits
  <2> QED
    BY <1>1, <1>6, <2>1 DEF Edits
<1>7. ASSUME NEW S, Creates(D, r, i, S, t, u) PROVE Creates(E, r, i, S, t, v)
  <2>1. PICK st \in {"New", "Active"} : \A j \in Ids \ D :
          u[j] = IF j \in S \cup {i} THEN [st |-> st, kids |-> S, by |-> r] ELSE t[j]
    BY <1>7 DEF Creates
  <2> QED
    BY <1>1, <1>7, <2>1 DEF Creates
<1>8. ASSUME NEW S, Regroups(D, r, i, S, t, u) PROVE Regroups(E, r, i, S, t, v)
  <2>1. PICK f \in In(t) \cap Extends[i], st \in {"New", "Active"} :
         /\ f \in D \/ st = t[f].st
         /\ \A j \in Ids \ D :
              u[j] = CASE j \notin S \/ (j = i /\ i \notin In(t)) -> t[j]
                       [] j \in S \cap In(t) -> [t[j] EXCEPT !.kids = S, !.by = r]
                       [] OTHER -> [st |-> st, kids |-> S, by |-> r]
    BY <1>8 DEF Regroups
  <2>2. \A j \in Ids \ E :
              v[j] = CASE j \notin S \/ (j = i /\ i \notin In(t)) -> t[j]
                       [] j \in S \cap In(t) -> [t[j] EXCEPT !.kids = S, !.by = r]
                       [] OTHER -> [st |-> st, kids |-> S, by |-> r]
    BY <1>1, <2>1
  <2>3. f \in E \/ st = t[f].st
    BY <2>1
  <2> QED
    BY <1>8, <2>2, <2>3 DEF Regroups
<1>9. CASE Disables(D, r, i, t, u) \/ Initiates(D, r, i, t, u) \/ Rests(D, t, u)
  BY <1>3, <1>4, <1>5, <1>9 DEF Acts
<1>10. CASE \E S \in SUBSET Extends[i] :
             Edits(D, r, S, t, u) \/ Creates(D, r, i, S, t, u) \/ Regroups(D, r, i, S, t, u)
  <2>1. PICK S \in SUBSET Extends[i] :
             Edits(D, r, S, t, u) \/ Creates(D, r, i, S, t, u) \/ Regroups(D, r, i, S, t, u)
    BY <1>10
  <2>2. Edits(E, r, S, t, v) \/ Creates(E, r, i, S, t, v) \/ Regroups(E, r, i, S, t, v)
    BY <1>6, <1>7, <1>8, <2>1
  <2> QED
    BY <2>2 DEF Acts
<1> QED
  BY <1>2, <1>9, <1>10

\* What is pending but for the ids in D is pending once these are spoilt.
LEMMA PendingComes ==
  ASSUME UNCHANGED store, NEW D, D \subseteq Spoilt', NEW r, NEW m, NEW rows,
         Completes(D, r, m, rows), Orderly(Over(m, rows))', Acts(D, r, Now, Tabled(Over(m, rows)))
  PROVE  Pending(r, m, rows)'
<1>1. PICK E : E = Spoilt'
  OBVIOUS
<1>2. Completes(E, r, m, rows)'
  BY <1>1, CompletesStays
<1>4. PICK u : u = Tabled(Over(m, rows))
  OBVIOUS
<1>5. Acts(E, r, Now, u)
  BY <1>1, <1>4, ActsGrow
<1>6. Acts(E, r, Now', u)
  BY <1>5, NowStays
<1>7. Completes(Spoilt, r, m, rows)'
  BY <1>1, <1>2 DEF Completes
<1> QED
  BY <1>1, <1>4, <1>6, <1>7 DEF Pending

LEMMA PendingStays ==
  ASSUME UNCHANGED store, OriginsStay, NEW r, NEW m, NEW rows, Pending(r, m, rows)
  PROVE  Pending(r, m, rows)'
<1>1. Spoilt \subseteq Spoilt'
  BY DEF OriginsStay
<1>2. PICK o : o = Over(m, rows)
  OBVIOUS
<1>3. Orderly(o)'
  BY <1>2, OrderlyStays DEF Pending
<1>4. Orderly(Over(m, rows))'
  BY <1>2, <1>3
<1>5. Completes(Spoilt, r, m, rows) /\ Acts(Spoilt, r, Now, Tabled(Over(m, rows)))
  BY DEF Pending
<1> QED
  BY <1>1, <1>4, <1>5, PendingComes

\* The id of a save that has one is not changed, and what it added again it does not forget.
LEMMA OriginsKept ==
  ASSUME TypeOK, NEW r \in Requests, NEW q, req' = [req EXCEPT ![r] = q],
         req[r].op = "none" \/ (q.op = req[r].op /\ q.id = req[r].id), req[r].twins \subseteq q.twins
  PROVE  OriginsStay
<1>1. \A i \in Ids : Origin(i) => Origin(i)'
  BY DEF Origin, TypeOK
<1>2. \A s \in Requests : req[s].twins \subseteq req'[s].twins
  BY DEF TypeOK
<1>3. Doubled \subseteq Doubled'
  BY <1>2 DEF Doubled
<1> QED
  BY <1>1, <1>3 DEF OriginsStay, Spoilt

LEMMA OriginsSame == ASSUME UNCHANGED req PROVE OriginsStay /\ Spoilt' = Spoilt
  BY DEF OriginsStay, Origin, Spoilt, Doubled

\* While a save is under way, no other one is.
LEMMA OthersRest ==
  ASSUME SerialInv, NEW r \in Requests, Busy(r)
  PROVE  \A s \in Requests \ {r} : ~Busy(s)
  BY DEF SerialInv

\* A request that has not posted and has nothing to read again.
Starting(r) == req[r].pc # "done" /\ ~req[r].again

\* A step of a handler before its post.
LEMMA HandlerMoves ==
  ASSUME TypeOK, SerialInv, NEW r \in Requests, NEW q \in Request, req' = [req EXCEPT ![r] = q],
         UNCHANGED <<store, task>>, ~holed', \A s \in Requests \ {r} : ~Busy(s), OriginsStay,
         Starting(r), ~q.again, Proper(q), At(r, q)', q.pc \in {"idle", "done"} => Fits(cache)',
         \A i \in q.twins : Descends(i)'
  PROVE  SerialInv'
<1>1. req'[r] = q /\ \A s \in Requests \ {r} : req'[s] = req[s]
  BY DEF TypeOK
<1>2. \A s \in Requests \ {r} : ~Busy(s)'
  BY <1>1 DEF Busy
<1>3. \A s \in Requests \ {r} : (At(s, req[s]) /\ On(s, task[s]["append"]))'
  BY <1>2 DEF Busy, At, On
<1>4. \A s \in Requests \ {r} : Regular(s)'
  BY <1>1 DEF SerialInv, Regular, Proper, Unsent
<1>5. task[r]["append"].state = "none" /\ Regular(r)
  BY DEF SerialInv, Regular, Unsent, Starting
<1>6. Regular(r)'
  BY <1>1, <1>5 DEF Regular, Proper
<1>7. On(r, task[r]["append"])'
  BY <1>5 DEF On
<1>8. At(r, req[r])'
  BY <1>1 DEF At
<1>9. (\A s \in Requests : ~Working(s)') => Fits(cache)'
  <2>1. CASE q.pc \in {"idle", "done"}
    BY <2>1
  <2>2. CASE q.pc \notin {"idle", "done"}
    BY <1>1, <2>2 DEF Working, Unsent
  <2> QED
    BY <2>1, <2>2
<1>10. \A s \in Requests : \A i \in req'[s].twins : Descends(i)'
  BY <1>1 DEF SerialInv, OriginsStay, Descends
<1> QED
  BY <1>2, <1>3, <1>4, <1>6, <1>7, <1>8, <1>9, <1>10 DEF SerialInv

\* A step of the writer.
LEMMA WriterMoves ==
  ASSUME TypeOK, SerialInv, NEW r \in Requests, NEW t \in Task,
         task' = [task EXCEPT ![r]["append"] = t],
         UNCHANGED req, ~holed', \A s \in Requests \ {r} : ~Busy(s), ~Unsent(req[r]),
         \A s \in Requests \ {r}, i \in Ids : store[<<s, i>>] = NoRow => store'[<<s, i>>] = NoRow,
         On(r, t)', t.state \in {"none", "done"} => Fits(cache)',
         req[r].again /\ req[r].pc = "get" => Showing(cache)' # {},
         t.state \in {"none", "sent", "persist"} => \A i \in Ids : store'[<<r, i>>] = NoRow
  PROVE  SerialInv'
<1>1. /\ task'[r]["append"] = t /\ task'[r]["delete"] = task[r]["delete"]
      /\ \A s \in Requests \ {r} : task'[s] = task[s]
  BY DEF TypeOK, Kinds
<1>2. \A s \in Requests \ {r} : ~Busy(s)'
  BY <1>1 DEF Busy
<1>3. \A s \in Requests \ {r} : (At(s, req[s]) /\ On(s, task[s]["append"]))'
  BY <1>2 DEF Busy, At, On
<1>4. \A s \in Requests \ {r} : Regular(s)'
  BY <1>1 DEF SerialInv, Regular, Proper, Unsent
<1>5. Regular(r)
  BY DEF SerialInv
<1>6. Regular(r)'
  BY <1>1, <1>5 DEF Regular, Proper, Unsent
<1>7. On(r, task[r]["append"])'
  BY <1>1 DEF On
<1>8. At(r, req[r])'
  <2>1. req[r].pc = "done" \/ (req[r].pc = "get" /\ req[r].again)
    BY <1>5 DEF Unsent, Regular, Proper
  <2> QED
    BY <2>1 DEF At
<1>9. (\A s \in Requests : ~Working(s)') => Fits(cache)'
  BY <1>1 DEF Working
<1>10. \A s \in Requests : \A i \in req'[s].twins : Descends(i)'
  BY OriginsSame DEF SerialInv, OriginsStay, Descends
<1> QED
  BY <1>2, <1>3, <1>4, <1>6, <1>7, <1>8, <1>9, <1>10 DEF SerialInv

-----------------------------------------------------------------------------
(* A save begins.                                                           *)

LEMMA Begins ==
  ASSUME TypeOK, SerialInv, OneAtATime, NEW r \in Requests, Ready(r)
  PROVE  /\ req[r] \in Request /\ req[r].pc = "idle" /\ req[r].op = "none" /\ Proper(req[r])
         /\ Fits(cache) /\ ~holed /\ \A s \in Requests \ {r} : ~Busy(s)
         /\ \A i \in Ids : store[<<r, i>>] = NoRow
         /\ Starting(r) /\ ~req[r].null /\ req[r].old = NoRow /\ req[r].twins = {} /\ req[r].rows = EmptyMap
<1>1. Settled /\ req[r].pc = "idle"
  BY DEF OneAtATime, Ready
<1>2. \A s \in Requests : ~Busy(s) /\ ~Working(s)
  BY <1>1 DEF Settled, Busy, Working, Unsent, Kinds
<1>3. Regular(r)
  BY DEF SerialInv
<1>4. Proper(req[r]) /\ task[r]["append"].state = "none"
  BY <1>1, <1>3 DEF Regular, Proper, Unsent
<1>5. /\ req[r].op = "none" /\ Starting(r) /\ ~req[r].null /\ req[r].old = NoRow
      /\ req[r].twins = {} /\ req[r].rows = EmptyMap
  BY <1>1, <1>4 DEF Proper, Starting
<1>6. \A i \in Ids : store[<<r, i>>] = NoRow
  BY <1>3, <1>4 DEF Regular
<1> QED
  BY <1>1, <1>2, <1>4, <1>5, <1>6 DEF SerialInv, TypeOK

LEMMA SubmitSerial ==
  ASSUME TypeOK, SerialInv, OneAtATime, NEW r \in Requests, Submit(r)
  PROVE  SerialInv'
<1>1. PICK op \in Ops \ {"create"}, i \in Ids :
        /\ op \in {"initiate", "regroup"} => i \notin Dotted
        /\ op = "initiate" => StudyId[i] # i
        /\ req' = [req EXCEPT ![r] = [@ EXCEPT !.op = op, !.id = i, !.pc = "get"]]
  BY DEF Submit
<1>2. Ready(r) /\ UNCHANGED <<store, cache, holed, task>>
  BY DEF Submit
<1>3. PICK q : q = [req[r] EXCEPT !.op = op, !.id = i, !.pc = "get"]
  OBVIOUS
<1>4. /\ req[r] \in Request /\ req[r].pc = "idle" /\ req[r].op = "none" /\ Proper(req[r])
      /\ Fits(cache) /\ ~holed /\ \A s \in Requests \ {r} : ~Busy(s)
      /\ Starting(r) /\ req[r].twins = {}
  BY <1>2, Begins
<1>5. /\ q \in Request /\ q.pc = "get" /\ q.op = op /\ q.id = i /\ q.rows = req[r].rows
      /\ q.old = req[r].old /\ q.again = req[r].again /\ q.null = req[r].null /\ q.twins = {}
  BY <1>3, <1>4 DEF Request
<1>6. req' = [req EXCEPT ![r] = q]
  BY <1>1, <1>3
<1>7. OriginsStay
  BY <1>4, <1>5, <1>6, OriginsKept
<1>8. op # "brand" /\ ~q.again
  BY <1>4, <1>5 DEF OneAtATime, Starting
<1>9. Proper(q)
  BY <1>1, <1>4, <1>5, <1>8 DEF Proper
<1>10. Fits(cache)'
  BY <1>2, <1>4, <1>7, FitsStays
<1>11. At(r, q)'
  BY <1>5, <1>8, <1>10 DEF At
<1> QED
  BY <1>2, <1>4, <1>5, <1>6, <1>7, <1>8, <1>9, <1>11, HandlerMoves
LEMMA FreshUnused ==
  ASSUME TypeOK, NEW i \in Ids, Fresh(i), NEW m, Sourced(m)
  PROVE  i \notin Dotted /\ ~Origin(i) /\ \A j \in Showing(m) : Project(j) # i
  BY DEF Fresh, Sourced, Descends, Origin

\* What is shown does not belong to the study id of one that is fresh.
LEMMA FreshUnclaimed ==
  ASSUME TypeOK, RowsInv, NEW i \in Ids, Fresh(i), NEW m, Sourced(m), StudyId[i] # i,
         NEW j \in Showing(m)
  PROVE  Project(j) # StudyId[i]
<1> SUFFICES ASSUME Project(j) = StudyId[i] PROVE FALSE
  OBVIOUS
<1>1. PICK n \in Ids : Origin(n) /\ StudyId[i] \in {n, StudyId[n]}
  BY DEF Sourced, Descends
<1>2. StudyId[i] \in Ids /\ n # i
  BY <1>1, FreshUnused, ReportStoreAssumption
<1>3. n = StudyId[i]
  BY <1>1, <1>2, IdsAssumption
<1>4. Seeds[n] = NoRow
  BY <1>3, IdsAssumption
<1>5. PICK r \in Requests : req[r].op = "create" /\ req[r].id = n
  BY <1>1, <1>4 DEF Origin
<1>6. StudyId[i] # n
  BY <1>2, <1>5 DEF RowsInv, Issued
<1> QED
  BY <1>3, <1>6

\* The rows that StoreReport posts.
WithBrands(i, brands) == IF brands = {} THEN {} ELSE {i} \cup brands
NewRows(r, i, brands, st) == [j \in Ids |->
    IF j \in WithBrands(i, brands) \cup {i}
    THEN [key |-> NoKey, st |-> st, kids |-> WithBrands(i, brands), by |-> r] ELSE NoRow]

LEMMA CreatePending ==
  ASSUME TypeOK, RowsInv, SerialInv, OneAtATime, NEW r \in Requests, NEW c \in Map, Fits(c),
         NEW i \in Ids, Fresh(i), \A j \in Ids : store[<<r, j>>] = NoRow,
         NEW brands \in SUBSET {d \in Dotted : Root[d] = i}, NEW st \in {"New", "Active"},
         OriginsStay, Origin(i)', UNCHANGED store
  PROVE  Pending(r, c, NewRows(r, i, brands, st))'
<1> DEFINE kids == WithBrands(i, brands)
           row == [key |-> NoKey, st |-> st, kids |-> kids, by |-> r]
<1>0. kids = IF brands = {} THEN {} ELSE {i} \cup brands
  BY DEF WithBrands
<1>0a. row.key = NoKey /\ row.st = st /\ row.kids = kids /\ row.by = r
  OBVIOUS
<1>0b. kids \in SUBSET Ids => row \in Row
  BY DEF Row, Status
<1>0c. Shown(row) = [st |-> st, kids |-> kids, by |-> r]
  BY DEF Shown
<1>0d. PICK rows : rows = NewRows(r, i, brands, st)
  OBVIOUS
<1>0e. rows = [j \in Ids |-> IF j \in kids \cup {i} THEN row ELSE NoRow]
  BY <1>0d DEF NewRows
<1> HIDE DEF kids, row
<1>1. i \notin Dotted /\ kids \subseteq Extends[i] /\ kids \subseteq Ids
  <2>1. i \notin Dotted
    BY DEF Fresh
  <2>2. {i} \cup brands \subseteq Extends[i]
    BY <2>1 DEF OneAtATime, Families
  <2> QED
    BY <1>0, <2>1, <2>2, ReportStoreAssumption
<1>2. row \in Row /\ row.key = NoKey /\ row.st = st /\ row.kids = kids /\ row.by = r
  BY <1>0a, <1>0b, <1>1
<1>3. PICK new : new = kids \cup {i}
  OBVIOUS
<1>4. new \subseteq Ids /\ \A j \in new : Project(j) = i /\ (j \notin Dotted => j = i)
  BY <1>0, <1>1, <1>3 DEF Project
<1>5. rows \in Map /\ Present(rows) = new /\ \A j \in new : rows[j] = row
  BY <1>0e, <1>2, <1>3, <1>4, ReportStoreAssumption DEF Map, Present
<1>6. Orderly(c) /\ Sourced(c) /\ Unclaimed(c) /\ Related(c) /\ Exact(c)
  BY DEF Fits, Orderly
<1>7. new \cap Showing(c) = {}
  BY <1>4, <1>6, FreshUnused
<1>8. Completes(Spoilt, r, c, rows)
  <2>1. PICK put : put = Keyed(r, rows)
    OBVIOUS
  <2>2. ASSUME NEW j \in new PROVE put[j].key = <<r, j>>
    <3>1. rows[j].key = NoKey /\ j \in Present(rows)
      BY <1>2, <1>5
    <3> QED
      BY ONLY r \in Requests, <1>5, <2>1, <3>1, KeyedKey
  <2>3. ASSUME NEW j \in Showing(c)
        PROVE  /\ c[j].key \in Keys /\ store[c[j].key] = [id |-> j, row |-> c[j]]
               /\ \A n \in new : put[n].key # c[j].key
    <3>1. c[j].key \in Keys /\ store[c[j].key] = [id |-> j, row |-> c[j]]
      BY <1>6 DEF Exact
    <3>2. [id |-> j, row |-> c[j]] \in Entity
      BY ShowingPresent, PresentRow DEF Entity
    <3>3. store[c[j].key] # NoRow
      BY <3>1, <3>2, ReportStoreAssumption
    <3> QED
      BY <1>4, <2>2, <3>1, <3>3
  <2>4. ASSUME NEW k \in Keys, LiveAt(k)
        PROVE  store[k].id \in Spoilt \/ (store[k].id \notin new /\ c[store[k].id] = store[k].row)
    <3> SUFFICES ASSUME store[k].id \notin Spoilt
                 PROVE  store[k].id \notin new /\ c[store[k].id] = store[k].row
      OBVIOUS
    <3>1. c[store[k].id] = store[k].row
      BY <1>6, <2>4 DEF Exact
    <3>2. store[k].id \in Showing(c)
      BY <2>4, <3>1, LiveRow DEF Showing, LiveAt
    <3> QED
      BY <1>7, <3>1, <3>2
  <2>5. \A j, n \in new : put[j].key = put[n].key => j = n
    BY <2>2
  <2>6. \A j \in new : rows[j].key = NoKey
    BY <1>2, <1>5
  <2>7. /\ \A j, n \in Present(rows) : put[j].key = put[n].key => j = n
        /\ \A j \in Present(rows) : rows[j].key = NoKey
        /\ \A j \in Showing(c) : /\ c[j].key \in Keys /\ store[c[j].key] = [id |-> j, row |-> c[j]]
                                 /\ \A n \in Present(rows) : put[n].key # c[j].key
        /\ \A k \in Keys : LiveAt(k) =>
             store[k].id \in Spoilt \/ (store[k].id \notin Present(rows) /\ c[store[k].id] = store[k].row)
    BY <1>5, <2>3, <2>4, <2>5, <2>6
  <2> QED
    BY <2>1, <2>7 DEF Completes
<1>9. PICK o : o = Over(c, rows)
  OBVIOUS
<1>10. \A j \in Ids : o[j] = IF j \in new THEN row ELSE c[j]
  BY <1>2, <1>5, <1>9, ReportStoreAssumption DEF Over, Present
<1>11. Showing(o) = Showing(c) \cup new
  BY <1>2, <1>4, <1>10, ReportStoreAssumption DEF Showing
<1>12. Orderly(o)'
  <2>1. ASSUME NEW j \in Showing(o) PROVE Descends(j)'
    BY <1>4, <1>6, <1>11 DEF Sourced, Descends, OriginsStay
  <2>2. ASSUME NEW j \in Showing(o) \ Dotted, NEW n \in Showing(o), StudyId[j] # j
        PROVE  Project(n) # StudyId[j]
    <3>1. CASE j \in Showing(c) /\ n \in Showing(c)
      BY <1>6, <2>2, <3>1 DEF Unclaimed
    <3>2. CASE j \in Showing(c) /\ n \in new
      <4>1. j \in Ids \ {i}
        BY <1>3, <1>7, <3>2, ShowingPresent
      <4> QED
        BY <1>4, <3>2, <4>1 DEF Fresh
    <3>3. CASE j \in new /\ n \in new
      BY <1>4, <2>2, <3>3
    <3>4. CASE j \in new /\ n \in Showing(c)
      BY <1>4, <1>6, <2>2, <3>4, FreshUnclaimed
    <3> QED
      BY <1>11, <3>1, <3>2, <3>3, <3>4
  <2>3. ASSUME NEW j \in Showing(o) \ Dotted, o[j].kids # {}
        PROVE  j \in o[j].kids /\ o[j].kids \subseteq Extends[j]
    <3>1. CASE j \in new
      BY <1>0, <1>1, <1>2, <1>4, <1>10, <2>3, <3>1
    <3>2. CASE j \notin new
      <4>1. o[j] = c[j] /\ j \in Showing(c) \ Dotted
        BY <1>10, <1>11, <3>2, ShowingPresent
      <4> QED
        BY <1>6, <2>3, <4>1 DEF Related
    <3> QED
      BY <3>1, <3>2
  <2> QED
    BY <2>1, <2>2, <2>3 DEF Orderly, Sourced, Unclaimed, Related, Showing
<1>13. Acts(Spoilt, r, Now, Tabled(o))
  <2>1. \A j \in Ids \ Spoilt : Now[j] = Tabled(c)[j]
    BY <1>6, ExactQuery
  <2>2. i \notin In(Now)
    <3>1. i \in Ids \ Spoilt
      BY <1>1, SpoiltBrands
    <3> QED
      BY <1>3, <1>7, <2>1, <3>1 DEF In, Tabled
  <2>3. \A j \in Ids \ Spoilt :
          Tabled(o)[j] = IF j \in kids \cup {i} THEN [st |-> st, kids |-> kids, by |-> r] ELSE Now[j]
    <3> SUFFICES ASSUME NEW j \in Ids \ Spoilt
          PROVE  Tabled(o)[j] = IF j \in kids \cup {i} THEN [st |-> st, kids |-> kids, by |-> r]
                                ELSE Now[j]
      OBVIOUS
    <3>1. CASE j \in new
      BY <1>0c, <1>3, <1>10, <1>11, <3>1 DEF Tabled
    <3>2. CASE j \notin new
      BY <1>3, <1>10, <1>11, <2>1, <3>2 DEF Tabled
    <3> QED
      BY <3>1, <3>2
  <2>4. Creates(Spoilt, r, i, kids, Now, Tabled(o))
    BY <2>2, <2>3 DEF Creates
  <2> QED
    BY <1>1, <2>4 DEF Acts
<1>14. Spoilt \subseteq Spoilt'
  BY DEF OriginsStay
<1>15. Orderly(Over(c, rows))' /\ Acts(Spoilt, r, Now, Tabled(Over(c, rows)))
  BY <1>9, <1>12, <1>13
<1> QED
  BY <1>0d, <1>8, <1>14, <1>15, PendingComes

LEMMA CreateSerial ==
  ASSUME TypeOK, RowsInv, SerialInv, OneAtATime, NEW r \in Requests, Create(r)
  PROVE  SerialInv'
<1>1. PICK i \in Ids : Fresh(i) /\ \E brands \in SUBSET {d \in Dotted : Root[d] = i}, st \in {"New", "Active"} :
        LET kids == IF brands = {} THEN {} ELSE {i} \cup brands
            row == [key |-> NoKey, st |-> st, kids |-> kids, by |-> r]
        IN  req' = [req EXCEPT ![r] =
              [@ EXCEPT !.op = "create", !.id = i, !.pc = "send",
                        !.rows = [j \in Ids |-> IF j \in kids \cup {i} THEN row ELSE NoRow]]]
  BY DEF Create
<1>2. PICK brands \in SUBSET {d \in Dotted : Root[d] = i}, st \in {"New", "Active"} :
        LET kids == IF brands = {} THEN {} ELSE {i} \cup brands
            row == [key |-> NoKey, st |-> st, kids |-> kids, by |-> r]
        IN  req' = [req EXCEPT ![r] =
              [@ EXCEPT !.op = "create", !.id = i, !.pc = "send",
                        !.rows = [j \in Ids |-> IF j \in kids \cup {i} THEN row ELSE NoRow]]]
  BY <1>1
<1>3. PICK rows : rows = NewRows(r, i, brands, st)
  OBVIOUS
<1>4. rows = [j \in Ids |-> IF j \in WithBrands(i, brands) \cup {i}
        THEN [key |-> NoKey, st |-> st, kids |-> WithBrands(i, brands), by |-> r] ELSE NoRow]
  BY <1>3 DEF NewRows
<1>6. PICK q : q = [req[r] EXCEPT !.op = "create", !.id = i, !.pc = "send", !.rows = rows]
  OBVIOUS
<1>7. req' = [req EXCEPT ![r] = q]
  BY <1>2, <1>4, <1>6 DEF WithBrands
<1>8. Ready(r) /\ UNCHANGED <<store, cache, holed, task>>
  BY DEF Create
<1>9. /\ req[r] \in Request /\ req[r].pc = "idle" /\ req[r].op = "none" /\ Proper(req[r])
      /\ Fits(cache) /\ ~holed /\ \A s \in Requests \ {r} : ~Busy(s)
      /\ \A j \in Ids : store[<<r, j>>] = NoRow
      /\ Starting(r) /\ ~req[r].null /\ req[r].old = NoRow /\ req[r].twins = {}
  BY <1>8, Begins
<1>10. "create" \in Ops
  BY DEF Create
<1>11. rows \in Map
  <2>1. WithBrands(i, brands) \in SUBSET Ids
    BY ReportStoreAssumption DEF WithBrands
  <2>2. [key |-> NoKey, st |-> st, kids |-> WithBrands(i, brands), by |-> r] \in Row
    BY <2>1 DEF Row, Status
  <2> QED
    BY <1>4, <2>2 DEF Map
<1>12. /\ q \in Request /\ q.pc = "send" /\ q.op = "create" /\ q.id = i /\ q.rows = rows
       /\ q.old = NoRow /\ q.again = req[r].again /\ ~q.null /\ q.twins = {}
  BY <1>6, <1>9, <1>10, <1>11 DEF Request
<1>13. OriginsStay
  BY <1>7, <1>9, OriginsKept
<1>14. Origin(i)'
  <2>1. req'[r] = q
    BY <1>7 DEF TypeOK
  <2> QED
    BY <1>12, <2>1 DEF Origin
<1>15. PICK c : c = cache
  OBVIOUS
<1>16. c \in Map /\ Fits(c)
  BY <1>9, <1>15 DEF TypeOK
<1>17. Fresh(i) /\ store' = store
  BY <1>1, <1>8
<1>18. Pending(r, c, rows)'
  BY <1>3, <1>9, <1>13, <1>14, <1>16, <1>17, CreatePending
<1>19. Proper(q)
  BY <1>9, <1>12 DEF Proper, Starting
<1>20. At(r, q)'
  <2>2. Stripped(cache, q.old)' = c
    BY <1>8, <1>12, <1>15 DEF Stripped
  <2> QED
    BY <1>12, <1>18, <2>2 DEF At
<1> QED
  BY <1>7, <1>8, <1>9, <1>12, <1>13, <1>19, <1>20, HandlerMoves DEF Starting

-----------------------------------------------------------------------------
(* A save loads the map.                                                    *)

LEMMA Running ==
  ASSUME TypeOK, SerialInv, NEW r \in Requests, req[r].pc \notin {"idle", "done"}
  PROVE  /\ req[r] \in Request /\ req[r].map \in Map /\ req[r].rows \in Map /\ cache \in Map
         /\ Proper(req[r]) /\ At(r, req[r]) /\ ~holed
         /\ \A s \in Requests \ {r} : ~Busy(s)
         /\ ~req[r].again => /\ Starting(r) /\ task[r]["append"].state = "none"
                             /\ \A i \in Ids : store[<<r, i>>] = NoRow
         /\ req[r].again => req[r].op = "initiate" /\ req[r].pc = "get"
<1>1. Busy(r) /\ Regular(r)
  BY DEF SerialInv, Busy
<1> QED
  BY <1>1, OthersRest DEF SerialInv, Regular, Proper, Starting, Unsent, TypeOK, Request

\* What the next place of a handler has to keep.
LEMMA HandlerGoes ==
  ASSUME TypeOK, SerialInv, NEW r \in Requests, req[r].pc \notin {"idle", "send", "done"},
         ~req[r].again, NEW q \in Request, req' = [req EXCEPT ![r] = q],
         UNCHANGED <<store, task>>, ~holed', q.pc \notin {"idle", "sendDelete"},
         q.op = req[r].op, q.id = req[r].id, q.again = req[r].again, q.twins = req[r].twins,
         q.pc \in {"get", "query", "fill", "apply"} => q.rows = EmptyMap /\ ~q.null,
         q.pc \in {"get", "query", "fill", "apply", "put"} => q.old = NoRow,
         q.pc = "put" => q.op = "edit", At(r, q)', q.pc = "done" => Fits(cache)'
  PROVE  SerialInv'
<1>1. Proper(req[r]) /\ Starting(r) /\ \A s \in Requests \ {r} : ~Busy(s)
  BY Running
<1>2. req[r].pc \in {"get", "query", "fill", "apply", "put"}
  BY <1>1 DEF Proper, TypeOK, Request
<1>3. q.twins = {}
  BY <1>1, <1>2 DEF Proper
<1>4. Proper(q)
  BY <1>1, <1>3 DEF Proper
<1>5. OriginsStay
  BY OriginsKept
<1> QED
  BY <1>1, <1>3, <1>4, <1>5, HandlerMoves

LEMMA EndedFields ==
  ASSUME TypeOK, NEW r \in Requests
  PROVE  /\ Ended(r) \in Request /\ Ended(r).pc = "done" /\ Ended(r).op = req[r].op
         /\ Ended(r).id = req[r].id /\ Ended(r).again = req[r].again
         /\ Ended(r).twins = req[r].twins /\ Ended(r).rows = EmptyMap /\ Ended(r).old = NoRow
         /\ ~Ended(r).null
  BY EmptyMapType DEF TypeOK, Ended, Request

LEMMA OnStays ==
  ASSUME UNCHANGED <<store, cache>>, OriginsStay, NEW r, req'[r].op = req[r].op, NEW t, On(r, t)
  PROVE  On(r, t)'
<1>1. PICK m : m = Stripped(cache, t.old)
  OBVIOUS
<1>2. Stripped(cache, t.old)' = m
  BY <1>1 DEF Stripped
<1>3. PICK n : n = t.map
  OBVIOUS
<1>4. PICK rows : rows = t.rows
  OBVIOUS
<1>5. Pending(r, m, rows) => Pending(r, m, rows)'
  BY PendingStays
<1>6. Pending(r, n, rows) => Pending(r, n, rows)'
  BY PendingStays
<1>7. Fits(n) => Fits(n)'
  BY FitsStays
<1> QED
  BY <1>1, <1>2, <1>3, <1>4, <1>5, <1>6, <1>7 DEF On, Has, Lively, Showing, Present

\* An initiation has read the map again.
LEMMA LingerSerial ==
  ASSUME TypeOK, SerialInv, NEW r \in Requests, req[r].again, req' = [req EXCEPT ![r] = Ended(r)],
         req[r].pc \notin {"idle", "done"}, UNCHANGED <<store, cache, holed, task>>
  PROVE  SerialInv'
<1>1. PICK q : q = Ended(r)
  OBVIOUS
<1>2. /\ q.pc = "done" /\ q.op = req[r].op /\ q.id = req[r].id /\ q.again = req[r].again
      /\ q.twins = req[r].twins
  BY <1>1, EndedFields
<1>3. /\ Proper(req[r]) /\ ~holed /\ (\A s \in Requests \ {r} : ~Busy(s))
      /\ req[r].op = "initiate" /\ req[r].pc = "get"
  BY Running
<1>4. /\ req' = [req EXCEPT ![r] = q] /\ req'[r] = q
      /\ \A s \in Requests \ {r} : req'[s] = req[s]
  BY <1>1 DEF TypeOK
<1>5. OriginsStay
  BY <1>2, <1>4, OriginsKept
<1>6. \A s \in Requests \ {r} : ~Busy(s)'
  BY <1>3, <1>4 DEF Busy
<1>7. \A s \in Requests \ {r} : (At(s, req[s]) /\ On(s, task[s]["append"]))'
  BY <1>6 DEF Busy, At, On
<1>8. \A s \in Requests : Working(s)' <=> Working(s)
  BY <1>2, <1>3, <1>4 DEF Working, Unsent
<1>9. (\A s \in Requests : ~Working(s)') => Fits(cache)'
  <2>1. PICK c : c = cache
    OBVIOUS
  <2>2. (\A s \in Requests : ~Working(s)') => Fits(c)
    BY <1>8, <2>1 DEF SerialInv
  <2>3. Fits(c) => Fits(c)'
    BY <1>5, FitsStays
  <2> QED
    BY <2>1, <2>2, <2>3
<1>10. \A s \in Requests \ {r} : Regular(s)'
  BY <1>4 DEF SerialInv, Regular, Proper, Unsent
<1>11. Regular(r)'
  <2>1. Regular(r)
    BY DEF SerialInv
  <2>2. Proper(q)
    BY <1>2, <1>3 DEF Proper
  <2>3. Unsent(q) => Unsent(req[r])
    BY <1>2 DEF Unsent
  <2> QED
    BY <1>4, <2>1, <2>2, <2>3 DEF Regular
<1>12. On(r, task[r]["append"])'
  <2>1. PICK t : t = task[r]["append"]
    OBVIOUS
  <2>2. On(r, t)'
    BY <1>2, <1>4, <1>5, <2>1, OnStays DEF SerialInv
  <2> QED
    BY <2>1, <2>2
<1>13. At(r, req[r])'
  BY <1>2, <1>4 DEF At
<1>14. \A s \in Requests : \A i \in req'[s].twins : Descends(i)'
  BY <1>2, <1>4, <1>5 DEF SerialInv, OriginsStay, Descends
<1> QED
  BY <1>3, <1>6, <1>7, <1>9, <1>10, <1>11, <1>12, <1>13, <1>14 DEF SerialInv

LEMMA LoadAgain ==
  ASSUME TypeOK, SerialInv, NEW r \in Requests, req[r].again,
         GetHit(r) \/ GetMiss(r) \/ QueryLive(r) \/ Fill(r)
  PROVE  SerialInv'
<1>1. req[r].pc \notin {"idle", "done"}
  BY DEF GetHit, GetMiss, QueryLive, Fill
<1>2. At(r, req[r]) /\ cache \in Map /\ ~holed /\ req[r].op = "initiate" /\ req[r].pc = "get"
  BY <1>1, Running
<1>3. Visible(Got) # EmptyMap
  <2>1. Present(Visible(cache)) # {}
    BY <1>2, VisibleShows DEF At
  <2> QED
    BY <1>2, <2>1 DEF Got, Present, EmptyMap
<1>4. GetHit(r)
  BY <1>2, <1>3 DEF GetMiss, QueryLive, Fill
<1>5. req' = [req EXCEPT ![r] = Ended(r)] /\ UNCHANGED <<store, cache, holed, task>>
  BY <1>2, <1>4 DEF GetHit, Loaded
<1> QED
  BY <1>1, <1>5, LingerSerial

LEMMA LoadSerial ==
  ASSUME TypeOK, RowsInv, SerialInv, NEW r \in Requests,
         GetHit(r) \/ GetMiss(r) \/ QueryLive(r) \/ Fill(r)
  PROVE  SerialInv'
<1> SUFFICES ASSUME ~req[r].again PROVE SerialInv'
  BY LoadAgain
<1>1. PICK p : p = req[r].pc
  OBVIOUS
<1>2. p \in {"get", "query", "fill"} /\ UNCHANGED <<store, task>> /\ ~holed'
  BY <1>1, Running DEF GetHit, GetMiss, QueryLive, Fill
<1>3. /\ req[r] \in Request /\ req[r].map \in Map /\ req[r].rows = EmptyMap /\ cache \in Map
      /\ req[r].old = NoRow /\ ~req[r].null /\ At(r, req[r]) /\ ~holed
  BY <1>1, <1>2, Running DEF Proper
<1>4. ASSUME NEW q \in Request, req' = [req EXCEPT ![r] = q], q.op = req[r].op, q.id = req[r].id,
             q.twins = req[r].twins
      PROVE  OriginsStay
  BY <1>4, OriginsKept
<1>5. ASSUME NEW m \in Map, NEW q, q = Loaded(r, m)
      PROVE  /\ q \in Request /\ q.pc = "apply" /\ q.map = m /\ q.op = req[r].op /\ q.id = req[r].id
             /\ q.again = req[r].again /\ q.twins = req[r].twins
             /\ q.rows = EmptyMap /\ q.old = NoRow /\ ~q.null
  BY <1>3, <1>5 DEF Loaded, Request
<1>6. PICK c : c = cache
  OBVIOUS
<1>7. CASE GetHit(r)
  <2>1. p = "get" /\ Fits(c) /\ cache' = c
    BY <1>1, <1>3, <1>6, <1>7 DEF GetHit, At
  <2>2. PICK m : m = Visible(c)
    OBVIOUS
  <2>3. m \in Map
    BY <1>3, <1>6, <2>2, VisibleType
  <2>4. PICK q : q = Loaded(r, m)
    OBVIOUS
  <2>5. req' = [req EXCEPT ![r] = q]
    BY <1>3, <1>6, <1>7, <2>2, <2>4 DEF GetHit, Got
  <2>6. OriginsStay
    BY <1>4, <1>5, <2>3, <2>4, <2>5
  <2>7. Fits(c)'
    BY <1>2, <2>1, <2>6, FitsStays
  <2>8. /\ q \in Request /\ q.pc = "apply" /\ q.map = m /\ q.op = req[r].op /\ q.id = req[r].id
        /\ q.again = req[r].again /\ q.twins = req[r].twins
        /\ q.rows = EmptyMap /\ q.old = NoRow /\ ~q.null
    BY <1>5, <2>3, <2>4
  <2>9. m = Visible(cache)'
    BY <2>1, <2>2 DEF Visible, Present
  <2>10. At(r, q)'
    BY <2>1, <2>7, <2>8, <2>9 DEF At
  <2> QED
    BY <1>1, <1>2, <2>5, <2>8, <2>10, HandlerGoes
<1>8. CASE GetMiss(r)
  <2>1. p = "get" /\ Fits(c) /\ cache' = c /\ Visible(c) = EmptyMap
    BY <1>1, <1>3, <1>6, <1>8 DEF GetMiss, At, Got
  <2>2. Showing(c) = {}
    BY <1>3, <1>6, <2>1, VisibleShows DEF Present, EmptyMap
  <2>3. PICK q : q = [req[r] EXCEPT !.pc = "query"]
    OBVIOUS
  <2>4. /\ q \in Request /\ q.op = req[r].op /\ q.id = req[r].id /\ q.again = req[r].again
        /\ q.twins = req[r].twins /\ q.rows = EmptyMap /\ q.old = NoRow /\ q.pc = "query" /\ ~q.null
    BY <1>3, <2>3 DEF Request
  <2>5. req' = [req EXCEPT ![r] = q]
    BY <1>8, <2>3 DEF GetMiss, Goto
  <2>6. OriginsStay
    BY <1>4, <2>4, <2>5
  <2>7. Fits(c)'
    BY <1>2, <2>1, <2>6, FitsStays
  <2>8. At(r, q)'
    BY <2>1, <2>2, <2>4, <2>7 DEF At, Showing
  <2> QED
    BY <1>1, <1>2, <2>4, <2>5, <2>8, HandlerGoes
<1>9. CASE QueryLive(r)
  <2>1. p = "query" /\ Fits(c) /\ cache' = c /\ Showing(c) = {}
    BY <1>1, <1>3, <1>6, <1>9 DEF QueryLive, At
  <2>2. PICK m : m = LiveMap
    OBVIOUS
  <2>3. m \in Map /\ Fits(m) /\ Present(m) = Showing(m)
    BY <1>3, <1>6, <2>1, <2>2, QueryFits
  <2>4. PICK q : q = [req[r] EXCEPT !.pc = "fill", !.map = m]
    OBVIOUS
  <2>5. /\ q \in Request /\ q.op = req[r].op /\ q.id = req[r].id /\ q.again = req[r].again
        /\ q.twins = req[r].twins /\ ~q.null
        /\ q.map = m /\ q.rows = EmptyMap /\ q.old = NoRow /\ q.pc = "fill"
    BY <1>3, <2>3, <2>4 DEF Request
  <2>6. req' = [req EXCEPT ![r] = q]
    BY <1>9, <2>2, <2>4 DEF QueryLive
  <2>7. OriginsStay
    BY <1>4, <2>5, <2>6
  <2>8. Fits(m)'
    BY <1>2, <2>3, <2>7, FitsStays
  <2>9. At(r, q)'
    BY <2>3, <2>5, <2>8 DEF At, Present, Showing
  <2> QED
    BY <1>1, <1>2, <2>5, <2>6, <2>9, HandlerGoes
<1>10. CASE Fill(r)
  <2>1. PICK m : m = req[r].map
    OBVIOUS
  <2>2. p = "fill" /\ m \in Map /\ Fits(m) /\ Present(m) = Showing(m) /\ cache' = m
    BY <1>1, <1>3, <1>10, <2>1 DEF Fill, At
  <2>3. PICK q : q = Loaded(r, m)
    OBVIOUS
  <2>4. req' = [req EXCEPT ![r] = q]
    BY <1>10, <2>1, <2>3 DEF Fill
  <2>5. OriginsStay
    BY <1>4, <1>5, <2>2, <2>3, <2>4
  <2>6. Fits(m)'
    BY <1>2, <2>2, <2>5, FitsStays
  <2>7. m = Visible(cache)'
    <3>1. m = Visible(m)
      BY <2>2 DEF Visible, Map, Present, Showing
    <3> QED
      BY <2>2, <3>1 DEF Visible, Present
  <2>8. /\ q \in Request /\ q.pc = "apply" /\ q.map = m /\ q.op = req[r].op /\ q.id = req[r].id
        /\ q.again = req[r].again /\ q.twins = req[r].twins
        /\ q.rows = EmptyMap /\ q.old = NoRow /\ ~q.null
    BY <1>5, <2>2, <2>3
  <2>9. At(r, q)'
    BY <2>2, <2>6, <2>7, <2>8 DEF At
  <2> QED
    BY <1>1, <1>2, <2>4, <2>8, <2>9, HandlerGoes
<1> QED
  BY <1>7, <1>8, <1>9, <1>10

-----------------------------------------------------------------------------
(* A save posts, and the writer does what was posted.                       *)

LEMMA PutSerial ==
  ASSUME TypeOK, SerialInv, NEW r \in Requests, Put(r)
  PROVE  SerialInv'
<1>1. req[r].pc = "put" /\ UNCHANGED <<store, task>> /\ ~holed' /\ cache' = req[r].map
  BY DEF Put
<1>2. req[r] \in Request /\ Proper(req[r]) /\ At(r, req[r]) /\ ~req[r].again /\ req[r].old = NoRow
  BY <1>1, Running DEF Proper
<1>3. PICK m : m = req[r].map
  OBVIOUS
<1>4. PICK rows : rows = req[r].rows
  OBVIOUS
<1>5. CASE rows = EmptyMap
  <2>1. PICK q : q = Ended(r)
    OBVIOUS
  <2>2. req' = [req EXCEPT ![r] = q]
    BY <1>4, <1>5, <2>1 DEF Put, Finish
  <2>3. /\ q \in Request /\ q.pc = "done" /\ q.op = req[r].op
        /\ q.id = req[r].id /\ q.again = req[r].again /\ q.twins = req[r].twins
    BY <2>1, EndedFields
  <2>4. OriginsStay
    BY <2>2, <2>3, OriginsKept
  <2>5. Fits(m)'
    BY <1>1, <1>2, <1>3, <1>4, <1>5, <2>4, FitsStays DEF At
  <2>6. Fits(cache)'
    BY <1>1, <1>3, <2>5
  <2>7. At(r, q)'
    BY <2>3 DEF At
  <2> QED
    BY <1>1, <1>2, <2>2, <2>3, <2>6, <2>7, HandlerGoes
<1>6. CASE rows # EmptyMap
  <2>1. PICK q : q = [req[r] EXCEPT !.pc = "send"]
    OBVIOUS
  <2>2. req' = [req EXCEPT ![r] = q]
    BY <1>4, <1>6, <2>1 DEF Put, Goto
  <2>3. /\ q \in Request /\ q.pc = "send" /\ q.op = req[r].op /\ q.id = req[r].id
        /\ q.again = req[r].again /\ q.rows = rows /\ q.old = req[r].old
        /\ q.null = req[r].null /\ q.twins = req[r].twins
    BY <1>2, <1>4, <2>1 DEF Request
  <2>4. OriginsStay
    BY <2>2, <2>3, OriginsKept
  <2>5. Pending(r, m, rows) /\ (q.null => Has(m, rows)) /\ q.op = "edit"
    BY <1>1, <1>2, <1>3, <1>4, <1>6, <2>3 DEF At, Proper
  <2>6. Pending(r, m, rows)'
    BY <1>1, <2>4, <2>5, PendingStays
  <2>7. Stripped(cache, q.old)' = m
    BY <1>1, <1>2, <1>3, <2>3 DEF Stripped
  <2>8. At(r, q)'
    BY <1>1, <1>2, <1>3, <2>3, <2>5, <2>6, <2>7 DEF At, Has, Present
  <2> QED
    BY <1>1, <1>2, <2>2, <2>3, <2>8, HandlerGoes
<1> QED
  BY <1>5, <1>6

LEMMA SendSerial ==
  ASSUME TypeOK, SerialInv, NEW r \in Requests, Send(r)
  PROVE  SerialInv'
<1>1. /\ req[r].pc = "send" /\ UNCHANGED <<store, cache, holed>>
      /\ task' = [task EXCEPT ![r]["append"] =
           [@ EXCEPT !.state = "sent", !.rows = req[r].rows, !.old = req[r].old,
                     !.null = req[r].null]]
      /\ req' = [req EXCEPT ![r] =
           IF req[r].op = "initiate" THEN [Ended(r) EXCEPT !.pc = "get", !.again = TRUE] ELSE Ended(r)]
  BY DEF Send, Sent
<1>2. /\ req[r] \in Request /\ req[r].rows \in Map /\ Proper(req[r]) /\ At(r, req[r]) /\ ~holed
      /\ \A s \in Requests \ {r} : ~Busy(s)
  BY <1>1, Running
<1>2a. /\ ~req[r].again
       /\ task[r]["append"].state = "none" /\ \A i \in Ids : store[<<r, i>>] = NoRow
  BY <1>1, <1>2, Running
<1>3. PICK q : q = IF req[r].op = "initiate" THEN [Ended(r) EXCEPT !.pc = "get", !.again = TRUE]
                   ELSE Ended(r)
  OBVIOUS
<1>4. PICK t : t = [task[r]["append"] EXCEPT !.state = "sent", !.rows = req[r].rows,
                                             !.old = req[r].old, !.null = req[r].null]
  OBVIOUS
<1>5. /\ q.op = req[r].op /\ q.id = req[r].id /\ q.twins = req[r].twins
      /\ q.rows = EmptyMap /\ q.old = NoRow /\ ~q.null
      /\ IF q.op = "initiate" THEN q.pc = "get" /\ q.again ELSE q.pc = "done" /\ ~q.again
  <2>1. PICK e : e = Ended(r)
    OBVIOUS
  <2>2. /\ e \in Request /\ e.pc = "done" /\ e.op = req[r].op /\ e.id = req[r].id
        /\ e.again = req[r].again /\ e.twins = req[r].twins /\ e.rows = EmptyMap /\ e.old = NoRow
        /\ ~e.null
    BY <2>1, EndedFields
  <2>3. q = IF req[r].op = "initiate" THEN [e EXCEPT !.pc = "get", !.again = TRUE] ELSE e
    BY <1>3, <2>1
  <2> QED
    BY <1>2a, <2>2, <2>3 DEF Request
<1>6. task[r]["append"] \in Task /\ task[r]["delete"] \in Task
  BY DEF TypeOK, Kinds
<1>7. t.state = "sent" /\ t.rows = req[r].rows /\ t.old = req[r].old /\ t.null = req[r].null
  BY <1>4, <1>6 DEF Task
<1>8. /\ req'[r] = q /\ task'[r]["append"] = t /\ task'[r]["delete"] = task[r]["delete"]
      /\ \A s \in Requests \ {r} : req'[s] = req[s] /\ task'[s] = task[s]
  BY <1>1, <1>3, <1>4 DEF TypeOK, Kinds
<1>9. \A s \in Requests \ {r} : ~Busy(s)'
  BY <1>2, <1>8 DEF Busy
<1>10. \A s \in Requests \ {r} : (At(s, req[s]) /\ On(s, task[s]["append"]))'
  BY <1>9 DEF Busy, At, On
<1>11. \A s \in Requests \ {r} : Regular(s)'
  BY <1>1, <1>8 DEF SerialInv, Regular, Proper, Unsent
<1>12. OriginsStay
  BY <1>1, <1>3, <1>5, OriginsKept
<1>13. PICK m : m = Stripped(cache, req[r].old)
  OBVIOUS
<1>14. PICK rows : rows = req[r].rows
  OBVIOUS
<1>15. /\ Pending(r, m, rows) /\ (req[r].null => req[r].old = NoRow /\ Has(cache, rows))
       /\ req[r].op = "initiate" => Showing(cache) # {} /\ Lively(rows)
  BY <1>1, <1>2, <1>13, <1>14 DEF At
<1>16. Pending(r, m, rows)'
  BY <1>1, <1>12, <1>15, PendingStays
<1>17. On(r, t)'
  <2>1. Stripped(cache, t.old)' = m
    BY <1>1, <1>7, <1>13 DEF Stripped
  <2> QED
    BY <1>1, <1>5, <1>7, <1>8, <1>14, <1>15, <1>16, <2>1 DEF On, Has, Lively, Present
<1>18. At(r, q)'
  BY <1>1, <1>5, <1>15 DEF At, Showing
<1>19. Regular(r)'
  <2>1. Regular(r)
    BY DEF SerialInv
  <2>2. Proper(q)
    BY <1>2, <1>5 DEF Proper
  <2>3. ~Unsent(q)
    BY <1>5 DEF Unsent
  <2> QED
    BY <1>1, <1>2a, <1>7, <1>8, <2>1, <2>2, <2>3 DEF Regular
<1>20. Busy(r)' /\ Working(r)'
  BY <1>7, <1>8 DEF Busy, Working
<1>21. \A s \in Requests : \A i \in req'[s].twins : Descends(i)'
  BY <1>5, <1>8, <1>12 DEF SerialInv, OriginsStay, Descends
<1> QED
  BY <1>1, <1>2, <1>8, <1>9, <1>10, <1>11, <1>17, <1>18, <1>19, <1>20, <1>21 DEF SerialInv

LEMMA Writing ==
  ASSUME TypeOK, SerialInv, NEW r \in Requests, task[r]["append"].state \notin {"none", "done"}
  PROVE  /\ task[r]["append"] \in Task /\ cache \in Map /\ ~holed
         /\ On(r, task[r]["append"]) /\ ~Unsent(req[r])
         /\ req[r].again /\ req[r].pc = "get" => Showing(cache) # {}
         /\ req[r].again => req[r].op = "initiate"
         /\ \A s \in Requests \ {r} : ~Busy(s)
         /\ task[r]["append"].state \in {"sent", "persist"} => \A i \in Ids : store[<<r, i>>] = NoRow
<1>1. Busy(r) /\ Regular(r) /\ At(r, req[r])
  BY DEF SerialInv, Busy
<1> QED
  BY <1>1, OthersRest DEF SerialInv, Regular, Proper, At, TypeOK, Kinds

LEMMA ReadSerial ==
  ASSUME TypeOK, SerialInv, NEW r \in Requests, NEW k \in Kinds, TaskRead(r, k)
  PROVE  SerialInv'
<1>1. task[r][k].state = "sent" /\ UNCHANGED <<store, cache, holed, req>>
  BY DEF TaskRead
<1>2. k = "append"
  BY <1>1 DEF Kinds, SerialInv, Regular
<1>3. PICK p : p = task[r]["append"]
  OBVIOUS
<1>4. /\ p \in Task /\ p.state = "sent" /\ cache \in Map /\ ~holed /\ On(r, p) /\ ~Unsent(req[r])
      /\ req[r].again /\ req[r].pc = "get" => Showing(cache) # {}
      /\ \A s \in Requests \ {r} : ~Busy(s)
      /\ \A i \in Ids : store[<<r, i>>] = NoRow
  BY <1>1, <1>2, <1>3, Writing
<1>5. PICK m : m = Stripped(cache, p.old)
  OBVIOUS
<1>6. PICK t \in Task :
        /\ task' = [task EXCEPT ![r]["append"] = t]
        /\ t.state = "persist" /\ t.rows = p.rows /\ t.old = p.old /\ t.map = m /\ t.null = p.null
  <2>1. m = IF p.old # NoRow /\ p.old \in Present(cache) THEN Without(cache, Family(cache, p.old))
            ELSE cache
    BY <1>5 DEF Stripped
  <2>2. \E t \in Task :
              /\ task' = [task EXCEPT ![r][k] = t]
              /\ \/ holed /\ t = Handled
                 \/ /\ t.state = "persist" /\ t.rows = task[r][k].rows /\ t.old = p.old
                    /\ IF holed THEN t.map = task[r][k].map /\ t.null ELSE t.map = m /\ t.null = task[r][k].null
    BY <1>2, <1>3, <2>1, ReadForm
  <2> QED
    BY <1>2, <1>3, <1>4, <2>2
<1>7. OriginsStay
  BY <1>1, OriginsSame
<1>8. PICK rows : rows = p.rows
  OBVIOUS
<1>9. /\ Pending(r, m, rows) /\ (p.null => p.old = NoRow /\ Has(cache, rows))
      /\ req[r].op = "initiate" => Lively(rows)
  BY <1>4, <1>5, <1>8 DEF On
<1>10. Pending(r, m, rows)'
  BY <1>1, <1>7, <1>9, PendingStays
<1>11. p.null => m = cache
  BY <1>5, <1>9 DEF Stripped
<1>12. On(r, t)'
  BY <1>1, <1>6, <1>8, <1>9, <1>10, <1>11 DEF On, Has, Lively, Present
<1> QED
  BY <1>1, <1>4, <1>6, <1>12, WriterMoves DEF Showing

LEMMA ShownSerial ==
  ASSUME TypeOK, SerialInv, NEW r \in Requests, NEW k \in Kinds, TaskPut(r, k)
  PROVE  SerialInv'
<1>1. /\ task[r][k].state = "put" /\ UNCHANGED <<store, req>> /\ cache' = task[r][k].map
      /\ holed' = FALSE /\ task' = [task EXCEPT ![r][k] = Handled]
  BY DEF TaskPut
<1>2. k = "append"
  BY <1>1 DEF Kinds, SerialInv, Regular
<1>3. PICK p : p = task[r]["append"]
  OBVIOUS
<1>4. /\ p.state = "put" /\ On(r, p) /\ ~Unsent(req[r]) /\ (req[r].again => req[r].op = "initiate")
      /\ \A s \in Requests \ {r} : ~Busy(s)
  BY <1>1, <1>2, <1>3, Writing
<1>5. Handled \in Task /\ Handled.state = "done"
  BY HandledType DEF Handled, NoTask
<1>6. OriginsStay
  BY <1>1, OriginsSame
<1>7. PICK m : m = p.map
  OBVIOUS
<1>8. Fits(m)'
  BY <1>1, <1>4, <1>6, <1>7, FitsStays DEF On
<1>9. Fits(cache)' /\ (req[r].again => Showing(cache)' # {})
  BY <1>1, <1>2, <1>3, <1>4, <1>7, <1>8 DEF On, Showing
<1>10. PICK t : t = Handled
  OBVIOUS
<1>11. On(r, t)'
  BY <1>5, <1>10 DEF On
<1> QED
  BY <1>1, <1>2, <1>4, <1>5, <1>9, <1>10, <1>11, WriterMoves

AllQuery == \A m \in Map : TypeOK /\ RowsInv /\ Exact(m) =>
    \A i \in Ids \ Spoilt : Now[i] = Tabled(m)[i]

LEMMA QueryAlways == AllQuery
  BY ExactQuery DEF AllQuery

\* The one step of a save that changes the table.
LEMMA AppendActs ==
  ASSUME TypeOK, SerialInv, NEW r \in Requests, TaskAppend(r), TypeOK', RowsInv', AllQuery'
  PROVE  SerialInv' /\ Acts(Spoilt, r, Now, Now')
<1>1. PICK p : p = task[r]["append"]
  OBVIOUS
<1>2. p.state = "persist" /\ UNCHANGED <<cache, holed, req>>
  BY <1>1 DEF TaskAppend
<1>3. /\ p \in Task /\ ~holed /\ On(r, p) /\ ~Unsent(req[r]) /\ cache \in Map
      /\ req[r].again /\ req[r].pc = "get" => Showing(cache) # {}
      /\ \A s \in Requests \ {r} : ~Busy(s)
  BY <1>1, <1>2, Writing
<1>4. PICK m : m = p.map
  OBVIOUS
<1>5. PICK rows : rows = p.rows
  OBVIOUS
<1>6. PICK put : put = Keyed(r, rows)
  OBVIOUS
<1>7. PICK o : o = Over(m, put)
  OBVIOUS
<1>8. m \in Map /\ rows \in Map /\ put \in Map /\ o \in Map
  BY <1>3, <1>4, <1>5, <1>6, <1>7, KeyedType, OverType DEF Task
<1>9. /\ Pending(r, m, rows) /\ (p.null => m = cache /\ Has(cache, rows))
      /\ req[r].op = "initiate" => Lively(rows)
  BY <1>2, <1>3, <1>4, <1>5 DEF On
<1>10. store' = Written(put, Present(put))
  BY <1>1, <1>5, <1>6 DEF TaskAppend
<1>11. OriginsStay /\ Spoilt' = Spoilt
  BY <1>2, OriginsSame
<1>12. Exact(o)'
  <2>1. Completes(Spoilt, r, m, rows) /\ Spoilt \subseteq Spoilt'
    BY <1>9, <1>11 DEF Pending
  <2> QED
    BY <1>6, <1>7, <1>8, <1>10, <2>1, PersistExact
<1>13. Orderly(o)' /\ Tabled(o) = Tabled(Over(m, rows))
  <2>1. Orderly(o) /\ Tabled(o) = Tabled(Over(m, rows))
    BY <1>6, <1>7, <1>8, <1>9, OverKeyed DEF Pending
  <2> QED
    BY <1>11, <2>1, OrderlyStays
<1>14. Fits(o)'
  BY <1>12, <1>13 DEF Fits
<1>15. Acts(Spoilt, r, Now, Now')
  <2>1. PICK u : u = Tabled(o)
    OBVIOUS
  <2>2. PICK v : v = Now'
    OBVIOUS
  <2>3. PICK D : D = Spoilt
    OBVIOUS
  <2>4. \A j \in Ids \ D : v[j] = u[j]
    BY <1>8, <1>11, <1>12, <2>1, <2>2, <2>3 DEF AllQuery, Tabled, Showing
  <2>5. Acts(D, r, Now, u)
    BY <1>9, <1>13, <2>1, <2>3 DEF Pending
  <2>6. Acts(D, r, Now, v)
    BY <2>4, <2>5, ActsGrow
  <2> QED
    BY <2>2, <2>3, <2>6
<1>16. ASSUME NEW s \in Requests \ {r}, NEW i \in Ids, store[<<s, i>>] = NoRow
       PROVE  store'[<<s, i>>] = NoRow
  <2>1. PICK k : k = <<s, i>>
    OBVIOUS
  <2>2. k \in Keys /\ store[k] = NoRow /\ k[1] # r
    BY <1>16, <2>1 DEF Keys
  <2>3. ASSUME NEW j \in Present(put) PROVE put[j].key # k
    <3>1. j \in Present(rows)
      BY <1>6, <1>8, KeyedLooks
    <3>2. CASE rows[j].key = NoKey
      <4>1. put[j].key = <<r, j>>
        BY <1>6, <1>8, <3>1, <3>2, KeyedLooks
      <4> QED
        BY <2>2, <4>1
    <3>3. CASE rows[j].key # NoKey
      <4>1. put[j].key = rows[j].key
        BY <1>6, <1>8, <3>1, <3>3, KeyedLooks
      <4>2. store[rows[j].key] # NoRow
        BY <1>9, <3>1, <3>3 DEF Pending, Completes
      <4> QED
        BY <2>2, <4>1, <4>2
    <3> QED
      BY <3>2, <3>3
  <2>4. store'[k] = store[k]
    BY <1>10, <2>2, <2>3 DEF Written
  <2> QED
    BY <2>1, <2>2, <2>4
<1>17. task' = [task EXCEPT ![r]["append"] =
         IF @.null THEN Handled ELSE [@ EXCEPT !.state = "put", !.rows = EmptyMap, !.map = o]]
  BY <1>1, <1>4, <1>5, <1>6, <1>7 DEF TaskAppend, ToPut
<1>18. \A s \in Requests \ {r} : \A i \in Ids : store[<<s, i>>] = NoRow => store'[<<s, i>>] = NoRow
  BY <1>16
<1>19. Showing(cache)' = Showing(cache) /\ ~holed'
  BY <1>2, <1>3 DEF Showing
<1>20. CASE ~p.null
  <2>1. PICK t : t = [p EXCEPT !.state = "put", !.rows = EmptyMap, !.map = o]
    OBVIOUS
  <2>2. t \in Task /\ t.state = "put" /\ t.map = o
    BY <1>3, <1>8, <2>1, EmptyMapType DEF Task
  <2>3. task' = [task EXCEPT ![r]["append"] = t]
    BY <1>1, <1>17, <1>20, <2>1
  <2>4. Lively(rows) => Showing(o) # {}
    <3> SUFFICES ASSUME NEW i \in Present(rows), rows[i].st # "Disabled" PROVE i \in Showing(o)
      BY DEF Lively
    <3>1. i \in Present(put) /\ put[i].st = rows[i].st /\ i \in Ids
      BY <1>6, <1>8, KeyedLooks, PresentRow
    <3>2. o[i] = put[i] /\ put[i] # NoRow
      BY <1>7, <3>1 DEF Over, Present
    <3> QED
      BY <3>1, <3>2 DEF Showing
  <2>5. On(r, t)'
    BY <1>2, <1>9, <1>14, <2>2, <2>4 DEF On, Showing
  <2> QED
    BY <1>2, <1>3, <1>15, <1>18, <1>19, <2>2, <2>3, <2>5, WriterMoves
<1>21. CASE p.null
  <2>1. PICK t : t = Handled
    OBVIOUS
  <2>2. t \in Task /\ t.state = "done"
    BY <2>1, HandledType DEF Handled, NoTask
  <2>3. task' = [task EXCEPT ![r]["append"] = t]
    BY <1>1, <1>17, <1>21, <2>1
  <2>4. o = cache
    BY <1>3, <1>6, <1>7, <1>8, <1>9, <1>21, HasKeyed
  <2>5. Fits(cache)'
    BY <1>2, <1>14, <2>4
  <2>6. On(r, t)'
    BY <2>2 DEF On
  <2> QED
    BY <1>2, <1>3, <1>15, <1>18, <1>19, <2>2, <2>3, <2>5, <2>6, WriterMoves
<1> QED
  BY <1>20, <1>21

\* What cannot happen then.
LEMMA NeverSerial ==
  ASSUME TypeOK, SerialInv, OneAtATime, NEW r \in Requests
  PROVE  /\ ~TaskAppendFails(r) /\ ~TaskDelete(r) /\ ~TaskDeleteFails(r) /\ ~QueryFails(r)
         /\ ~Unbrand(r) /\ ~SendDelete(r) /\ ~Crash(r) /\ ~Evict /\ ~EvictChunk
         /\ \A k \in Kinds : ~TaskLost(r, k)
<1>1. Regular(r) /\ ~Loses /\ Evicts = {}
  BY DEF SerialInv, OneAtATime
<1>2. ~TaskDelete(r) /\ ~TaskDeleteFails(r) /\ ~Unbrand(r) /\ ~SendDelete(r)
  BY <1>1 DEF TaskDelete, TaskDeleteFails, Unbrand, SendDelete, Applies, Regular, Proper
<1>3. ~Crash(r) /\ ~Evict /\ ~EvictChunk /\ ~QueryFails(r) /\ \A k \in Kinds : ~TaskLost(r, k)
  BY <1>1 DEF Crash, Evict, EvictChunk, QueryFails, TaskLost
<1>4. ASSUME TaskAppendFails(r) PROVE FALSE
  <2>1. PICK rows : rows = task[r]["append"].rows
    OBVIOUS
  <2>2. task[r]["append"].state = "persist"
    BY <1>4 DEF TaskAppendFails
  <2>3. \E i \in Present(rows) : rows[i].key # NoKey /\ store[rows[i].key] = NoRow
    BY <1>1, <1>4, <2>1 DEF TaskAppendFails
  <2>4. \A i \in Present(rows) : rows[i].key # NoKey => store[rows[i].key] # NoRow
    BY <2>1, <2>2, Writing DEF On, Pending, Completes
  <2> QED
    BY <2>3, <2>4
<1> QED
  BY <1>2, <1>3, <1>4

-----------------------------------------------------------------------------
(* The operations. Each starts from a map that shows what is stored.        *)

Shape == [st : Status, kids : SUBSET Ids, by : Requests \cup {"seed"}]

LEMMA SameShape ==
  ASSUME NEW x \in Shape, NEW y \in Shape, x.st = y.st, x.kids = y.kids, x.by = y.by
  PROVE  x = y
  BY DEF Shape

LEMMA ShownShape ==
  ASSUME NEW row \in Row
  PROVE  /\ Shown(row) \in Shape /\ Shown(row) # NoRow
         /\ Shown(row).st = row.st /\ Shown(row).kids = row.kids /\ Shown(row).by = row.by
<1>1. PICK x : x = Shown(row)
  OBVIOUS
<1>2. x \in Shape /\ x.st = row.st /\ x.kids = row.kids /\ x.by = row.by
  BY <1>1 DEF Shown, Row, Shape
<1> QED
  BY <1>1, <1>2, ReportStoreAssumption DEF Shape

\* A handler that goes on to post.
LEMMA PostsSerial ==
  ASSUME TypeOK, SerialInv, NEW r \in Requests, req[r].pc = "apply",
         NEW rows \in Map, NEW old \in Ids \cup {NoRow}, Posts(r, rows, old),
         Pending(r, Stripped(cache, old), rows),
         req[r].op = "initiate" => Showing(cache) # {} /\ Lively(rows)
  PROVE  SerialInv'
<1>1. UNCHANGED <<store, cache, holed, task>>
  BY DEF Posts
<1>2. req[r] \in Request /\ ~holed /\ ~req[r].again /\ ~req[r].null
  BY Running DEF Proper
<1>3. PICK q : q = [req[r] EXCEPT !.pc = "send", !.map = EmptyMap, !.rows = rows, !.old = old]
  OBVIOUS
<1>4. /\ q \in Request /\ q.pc = "send" /\ q.rows = rows /\ q.old = old
      /\ q.op = req[r].op /\ q.id = req[r].id /\ q.again = req[r].again
      /\ q.twins = req[r].twins /\ q.null = req[r].null
  BY <1>2, <1>3, EmptyMapType DEF Request
<1>5. req' = [req EXCEPT ![r] = q]
  BY <1>3 DEF Posts
<1>6. OriginsStay
  BY <1>4, <1>5, OriginsKept
<1>7. PICK m : m = Stripped(cache, old)
  OBVIOUS
<1>8. Pending(r, m, rows)'
  BY <1>1, <1>6, <1>7, PendingStays
<1>9. Stripped(cache, q.old)' = m
  BY <1>1, <1>4, <1>7 DEF Stripped
<1>10. At(r, q)'
  BY <1>1, <1>2, <1>4, <1>8, <1>9 DEF At, Showing, Lively, Present
<1> QED
  BY <1>1, <1>2, <1>4, <1>5, <1>10, HandlerGoes

\* A handler that gives up.
LEMMA FinishSerial ==
  ASSUME TypeOK, SerialInv, NEW r \in Requests, req[r].pc = "apply", Finish(r),
         UNCHANGED <<store, cache, holed, task>>
  PROVE  SerialInv'
<1>1. PICK q : q = Ended(r)
  OBVIOUS
<1>2. PICK c : c = cache
  OBVIOUS
<1>3. req' = [req EXCEPT ![r] = q]
  BY <1>1 DEF Finish
<1>4. /\ q \in Request /\ q.pc = "done" /\ q.op = req[r].op /\ q.id = req[r].id
      /\ q.again = req[r].again /\ q.twins = req[r].twins
  BY <1>1, EndedFields
<1>5. OriginsStay
  BY <1>3, <1>4, OriginsKept
<1>6. ~holed /\ Fits(c) /\ ~req[r].again
  BY <1>2, Running DEF At, Proper
<1>7. Fits(c)'
  BY <1>5, <1>6, FitsStays
<1>8. At(r, q)'
  BY <1>4 DEF At
<1> QED
  BY <1>2, <1>3, <1>4, <1>6, <1>7, <1>8, HandlerGoes

\* The posted rows take the entities of the rows from[j], or get new ones, and b is what is
\* left of c, but for the ids in D.
Takes(D, r, c, b, rows, new, from) ==
    LET old == Present(rows) \ new
    IN  /\ new \subseteq Present(rows) /\ \A j \in new : rows[j].key = NoKey
        /\ \A j \in old : from[j] \in Showing(c) /\ rows[j].key = c[from[j]].key
        /\ \A j, n \in old : from[j] = from[n] => j = n
        /\ \A i \in Showing(c) : \/ \E j \in old : from[j] = i
                                 \/ i \in D
                                 \/ i \notin Present(rows) /\ b[i] = c[i]
        /\ \A i \in Showing(b) \ Present(rows) :
             i \in Showing(c) /\ b[i] = c[i] /\ \A j \in old : from[j] # i

LEMMA CompletesRows ==
  ASSUME TypeOK, RowsInv, NEW r \in Requests, \A i \in Ids : store[<<r, i>>] = NoRow,
         NEW c \in Map, Exact(c), NEW b, NEW rows \in Map, NEW new, NEW from,
         NEW D, Spoilt \subseteq D, Takes(D, r, c, b, rows, new, from)
  PROVE  Completes(D, r, b, rows)
<1>1. PICK put : put = Keyed(r, rows)
  OBVIOUS
<1>2. PICK old : old = Present(rows) \ new
  OBVIOUS
<1>3. /\ new \subseteq Present(rows) /\ \A j \in new : rows[j].key = NoKey
      /\ \A j \in old : from[j] \in Showing(c) /\ rows[j].key = c[from[j]].key
      /\ \A j, n \in old : from[j] = from[n] => j = n
      /\ \A i \in Showing(c) : \/ \E j \in old : from[j] = i
                               \/ i \in D
                               \/ i \notin Present(rows) /\ b[i] = c[i]
      /\ \A i \in Showing(b) \ Present(rows) :
           i \in Showing(c) /\ b[i] = c[i] /\ \A j \in old : from[j] # i
  BY <1>2 DEF Takes
<1>4. ASSUME NEW j \in new
      PROVE  j \in Ids /\ rows[j].key = NoKey /\ put[j].key = <<r, j>> /\ store[put[j].key] = NoRow
  <2>1. j \in Present(rows) /\ rows[j].key = NoKey /\ j \in Ids
    BY <1>3, PresentRow
  <2>2. put[j].key = <<r, j>>
    BY ONLY r \in Requests, rows \in Map, <1>1, <2>1, KeyedKey
  <2> QED
    BY <2>1, <2>2
<1>5. ASSUME NEW j \in old
      PROVE  /\ from[j] \in Showing(c) /\ rows[j].key = c[from[j]].key /\ rows[j].key # NoKey
             /\ put[j].key = c[from[j]].key /\ store[c[from[j]].key] # NoRow
  <2>1. from[j] \in Showing(c) /\ rows[j].key = c[from[j]].key /\ j \in Present(rows)
    BY <1>2, <1>3
  <2>2. c[from[j]].key # NoKey /\ store[c[from[j]].key] # NoRow
    BY <2>1, ExactRow
  <2>3. rows[j].key # NoKey
    BY <2>1, <2>2
  <2>4. put[j].key = rows[j].key
    BY ONLY r \in Requests, rows \in Map, <1>1, <2>1, <2>3, KeyedKey
  <2> QED
    BY <2>1, <2>2, <2>4
<1>6. \A j \in Present(rows) : j \in new \/ j \in old
  BY <1>2
<1>7. ASSUME NEW i \in Present(rows), NEW j \in Present(rows), put[i].key = put[j].key PROVE i = j
  <2>1. CASE i \in new /\ j \in new
    BY <1>4, <1>7, <2>1
  <2>2. CASE i \in old /\ j \in old
    <3>1. c[from[i]].key = c[from[j]].key /\ from[i] \in Showing(c) /\ from[j] \in Showing(c)
      BY <1>5, <1>7, <2>2
    <3>2. from[i] = from[j]
      BY <3>1, ExactRow
    <3> QED
      BY <1>3, <2>2, <3>2
  <2>3. CASE i \in new /\ j \in old
    BY <1>4, <1>5, <1>7, <2>3
  <2>4. CASE i \in old /\ j \in new
    BY <1>4, <1>5, <1>7, <2>4
  <2> QED
    BY <1>6, <2>1, <2>2, <2>3, <2>4
<1>8. ASSUME NEW i \in Present(rows), rows[i].key # NoKey PROVE store[rows[i].key] # NoRow
  <2>1. i \in old
    BY <1>4, <1>6, <1>8
  <2> QED
    BY <1>5, <2>1
<1>9. ASSUME NEW i \in Showing(b) \ Present(rows)
      PROVE  /\ b[i].key \in Keys /\ store[b[i].key] = [id |-> i, row |-> b[i]]
             /\ \A j \in Present(rows) : put[j].key # b[i].key
  <2>1. i \in Showing(c) /\ b[i] = c[i] /\ \A j \in old : from[j] # i
    BY <1>3
  <2>2. c[i].key \in Keys /\ store[c[i].key] = [id |-> i, row |-> c[i]] /\ store[c[i].key] # NoRow
    BY <2>1, ExactRow
  <2>3. ASSUME NEW j \in Present(rows) PROVE put[j].key # c[i].key
    <3>1. CASE j \in new
      BY <1>4, <2>2, <3>1
    <3>2. CASE j \in old
      <4>1. from[j] # i /\ from[j] \in Showing(c) /\ put[j].key = c[from[j]].key
        BY <1>5, <2>1, <3>2
      <4>2. \A n \in Showing(c) : c[n].key = c[i].key => n = i
        BY <2>1, ExactRow
      <4> QED
        BY <4>1, <4>2
    <3> QED
      BY <1>6, <3>1, <3>2
  <2> QED
    BY <2>1, <2>2, <2>3
<1>10. ASSUME NEW k \in Keys, LiveAt(k)
       PROVE  \/ \E j \in Present(rows) : put[j].key = k
              \/ store[k].id \in D
              \/ store[k].id \notin Present(rows) /\ b[store[k].id] = store[k].row
  <2>1. PICK i : i = store[k].id
    OBVIOUS
  <2> SUFFICES ASSUME i \notin D
               PROVE  \/ \E j \in Present(rows) : put[j].key = k
                      \/ store[k].id \notin Present(rows) /\ b[store[k].id] = store[k].row
    BY <2>1
  <2>2. i \in Showing(c) /\ c[i] = store[k].row /\ c[i].key = k
    BY <1>10, <2>1, ExactEntity
  <2>3. CASE \E j \in old : from[j] = i
    <3>1. PICK j \in old : from[j] = i
      BY <2>3
    <3>2. j \in Present(rows) /\ put[j].key = k
      BY <1>2, <1>5, <2>2, <3>1
    <3> QED
      BY <3>2
  <2>4. CASE i \notin Present(rows) /\ b[i] = c[i]
    BY <2>1, <2>2, <2>4
  <2> QED
    BY <1>3, <2>2, <2>3, <2>4
<1> QED
  BY <1>1, <1>7, <1>8, <1>9, <1>10 DEF Completes

\* The map of a request shows what is cached.
LEMMA Applying ==
  ASSUME TypeOK, SerialInv, NEW r \in Requests, req[r].pc = "apply"
  PROVE  /\ req[r].map \in Map /\ cache \in Map /\ Fits(cache)
         /\ Fits(req[r].map) /\ Showing(req[r].map) = Showing(cache)
         /\ Present(req[r].map) = Showing(cache)
         /\ \A i \in Showing(cache) : req[r].map[i] = cache[i]
         /\ \A i \in Ids : store[<<r, i>>] = NoRow
<1>1. /\ req[r].map \in Map /\ cache \in Map /\ req[r].map = Visible(cache) /\ ~req[r].again
      /\ \A i \in Ids : store[<<r, i>>] = NoRow
  BY Running DEF At, Proper
<1>2. Fits(cache)
  BY <1>1, Running DEF At
<1> QED
  BY <1>1, <1>2, VisibleFits, VisibleShows

LEMMA EditPending ==
  ASSUME TypeOK, RowsInv, NEW r \in Requests, \A i \in Ids : store[<<r, i>>] = NoRow,
         NEW m \in Map, Fits(m), Present(m) = Showing(m),
         NEW i \in Ids, NEW named \in SUBSET Extends[i], NEW po \in BOOLEAN,
         NEW rows, rows = EditedRows(r, m, named, po)
  PROVE  rows \in Map /\ Over(m, rows) \in Map /\ Has(Over(m, rows), rows) /\ Pending(r, Over(m, rows), rows)
<1>1. PICK S : S = named \cap Present(m)
  OBVIOUS
<1>2. Exact(m) /\ Orderly(m)
  BY DEF Fits
<1>3. /\ rows \in Map /\ Present(rows) = S
      /\ \A j \in S : /\ rows[j].key = m[j].key /\ rows[j].kids = m[j].kids /\ rows[j].by = r
                      /\ rows[j].st = IF po THEN "Active" ELSE m[j].st
  BY <1>1, EditedRow
<1>4. S \subseteq Showing(m) /\ S \subseteq Ids
  BY <1>1, ShowingPresent
<1>5. PICK n : n = Over(m, rows)
  OBVIOUS
<1>6. n \in Map /\ \A j \in Ids : n[j] = IF j \in S THEN rows[j] ELSE m[j]
  BY <1>3, <1>5, OverType DEF Over, Present
<1>7. Has(n, rows)
  <2>1. ASSUME NEW j \in S PROVE rows[j].key # NoKey
    <3>1. j \in Showing(m)
      BY <1>4
    <3>2. m[j].key # NoKey
      BY <1>2, <3>1, ExactRow
    <3>3. rows[j].key = m[j].key
      BY <1>3
    <3> QED
      BY <3>2, <3>3
  <2> QED
    BY <1>3, <1>4, <1>6, <2>1 DEF Has
<1>8. Over(n, rows) = n
  BY <1>3, <1>6, <1>7, HasKeyed
<1>9. \A j \in S : rows[j] # NoRow /\ rows[j] \in Row /\ rows[j].st # "Disabled"
  <2> SUFFICES ASSUME NEW j \in S PROVE rows[j] # NoRow /\ rows[j] \in Row /\ rows[j].st # "Disabled"
    OBVIOUS
  <2>1. m[j].st # "Disabled"
    BY <1>4 DEF Showing
  <2>2. rows[j].st # "Disabled"
    BY <1>3, <2>1
  <2> QED
    BY <1>3, <2>2, PresentRow DEF Present
<1>10. Showing(n) = Showing(m)
  BY <1>4, <1>6, <1>9 DEF Showing
<1>11. Completes(Spoilt, r, n, rows)
  <2>1. PICK from : from = [j \in Ids |-> j]
    OBVIOUS
  <2>2. \A j \in Ids : from[j] = j
    BY <2>1
  <2>3. Takes(Spoilt, r, m, n, rows, {}, from)
    BY <1>3, <1>4, <1>6, <1>10, <2>2, ShowingPresent DEF Takes
  <2> QED
    BY <1>2, <1>3, <2>3, CompletesRows
<1>12. Orderly(n)
  <2>1. \A j \in Showing(m) : n[j].kids = m[j].kids
    BY <1>3, <1>6, ShowingPresent
  <2> QED
    BY <1>2, <1>10, <2>1 DEF Orderly, Sourced, Unclaimed, Related
<1>13. Edits(Spoilt, r, S, Now, Tabled(n))
  <2>1. PICK t : t = Tabled(m)
    OBVIOUS
  <2>2. PICK u : u = Tabled(n)
    OBVIOUS
  <2>3. (\A j \in Ids \ Spoilt : Now[j] = t[j]) /\ S \subseteq In(Now)
    BY <1>2, <1>4, <2>1, ExactQuery
  <2>4. ASSUME NEW j \in Ids
        PROVE  u[j] = IF j \in S THEN [t[j] EXCEPT !.st = IF po THEN "Active" ELSE @, !.by = r] ELSE t[j]
    <3>1. CASE j \notin S
      BY <1>6, <1>10, <2>1, <2>2, <3>1 DEF Tabled
    <3>2. CASE j \in S
      <4>1. u[j] = Shown(rows[j]) /\ t[j] = Shown(m[j]) /\ m[j] \in Row
        BY <1>4, <1>6, <1>10, <2>1, <2>2, <3>2, PresentRow DEF Tabled
      <4>2. /\ u[j] \in Shape /\ u[j].st = (IF po THEN "Active" ELSE m[j].st)
            /\ u[j].kids = m[j].kids /\ u[j].by = r
        BY <1>3, <1>9, <3>2, <4>1, ShownShape
      <4>3. t[j] \in Shape /\ t[j].st = m[j].st /\ t[j].kids = m[j].kids
        BY <4>1, ShownShape
      <4>4. PICK x : x = [t[j] EXCEPT !.st = IF po THEN "Active" ELSE @, !.by = r]
        OBVIOUS
      <4>5. /\ x \in Shape /\ x.st = (IF po THEN "Active" ELSE m[j].st)
            /\ x.kids = m[j].kids /\ x.by = r
        BY <4>2, <4>3, <4>4 DEF Shape
      <4>6. u[j] = x
        BY <4>2, <4>5, SameShape
      <4> QED
        BY <3>2, <4>4, <4>6
    <3> QED
      BY <3>1, <3>2
  <2>5. \A j \in Ids \ Spoilt :
          u[j] = IF j \in S THEN [Now[j] EXCEPT !.st = IF po THEN "Active" ELSE @, !.by = r] ELSE Now[j]
    BY <2>3, <2>4
  <2> QED
    BY <2>2, <2>3, <2>5 DEF Edits
<1>14. Acts(Spoilt, r, Now, Tabled(n))
  BY <1>1, <1>13 DEF Acts
<1> QED
  BY <1>3, <1>5, <1>6, <1>7, <1>8, <1>11, <1>12, <1>14 DEF Pending

LEMMA EditSerial ==
  ASSUME TypeOK, RowsInv, SerialInv, NEW r \in Requests, req[r].id \in Ids, Edit(r)
  PROVE  SerialInv'
<1>1. PICK m : m = req[r].map
  OBVIOUS
<1>2. PICK i : i = req[r].id
  OBVIOUS
<1>3. req[r].pc = "apply" /\ UNCHANGED <<store, cache, holed, task>> /\ req[r].op \in {"edit", "brand"}
  BY EditForm
<1>4. PICK named \in SUBSET Extends[i], po \in BOOLEAN : EditTo(r, named, po)
  BY <1>2, EditForm
<1>5. req[r].op = "edit" /\ req[r].old = NoRow /\ ~holed /\ ~req[r].again
  BY <1>3, Running DEF Proper
<1>6. /\ m \in Map /\ Fits(m) /\ Present(m) = Showing(m)
      /\ \A j \in Ids : store[<<r, j>>] = NoRow
  BY <1>1, <1>3, Applying
<1>7. PICK rows : rows = EditedRows(r, m, named, po)
  OBVIOUS
<1>8. PICK n : n = Over(m, rows)
  OBVIOUS
<1>9. rows \in Map /\ n \in Map /\ Has(n, rows) /\ Pending(r, n, rows)
  BY <1>2, <1>6, <1>7, <1>8, EditPending
<1>10. PICK q \in Request :
         /\ req' = [req EXCEPT ![r] = q]
         /\ q.pc = "put" /\ q.map = n /\ q.rows = rows
         /\ q.op = req[r].op /\ q.id = req[r].id /\ q.old = req[r].old /\ q.again = req[r].again
         /\ q.twins = req[r].twins
  BY <1>1, <1>4, <1>7, <1>8, <1>9, EditToForm
<1>11. OriginsStay
  BY <1>10, OriginsKept
<1>12. Pending(r, n, rows)'
  BY <1>3, <1>9, <1>11, PendingStays
<1>13. rows = EmptyMap => n = m
  <2>1. m = [j \in Ids |-> m[j]]
    BY <1>6 DEF Map
  <2> QED
    BY <1>8, <2>1 DEF Over, EmptyMap
<1>14. Fits(m)'
  BY <1>3, <1>6, <1>11, FitsStays
<1>15. At(r, q)'
  BY <1>9, <1>10, <1>12, <1>13, <1>14 DEF At, Has, Present, EmptyMap
<1> QED
  BY <1>3, <1>5, <1>10, <1>15, HandlerGoes

DisabledRows(r, m, gone) ==
    [j \in Ids |-> IF j \in gone THEN [m[j] EXCEPT !.st = "Disabled", !.by = r] ELSE NoRow]

LEMMA DisablePending ==
  ASSUME TypeOK, RowsInv, NEW r \in Requests, \A i \in Ids : store[<<r, i>>] = NoRow,
         NEW c \in Map, Fits(c), NEW i \in Ids
  PROVE  Pending(r, c, DisabledRows(r, c, Extends[i] \cap Showing(c)))
<1>1. PICK gone : gone = Extends[i] \cap Showing(c)
  OBVIOUS
<1>2. PICK rows : rows = DisabledRows(r, c, gone)
  OBVIOUS
<1>3. Exact(c) /\ Orderly(c)
  BY DEF Fits
<1>4. ASSUME NEW j \in gone
      PROVE  /\ j \in Ids /\ rows[j] \in Row /\ rows[j] # NoRow
             /\ rows[j].st = "Disabled" /\ rows[j].key = c[j].key
  <2>1. j \in Ids /\ c[j] \in Row
    BY <1>1, ShowingPresent, PresentRow
  <2>2. rows[j] = [c[j] EXCEPT !.st = "Disabled", !.by = r]
    BY <1>2, <2>1 DEF DisabledRows
  <2>3. PICK row : row = rows[j]
    OBVIOUS
  <2>4. row \in Row /\ row.st = "Disabled" /\ row.key = c[j].key
    BY <2>1, <2>2, <2>3 DEF Row, Status
  <2> QED
    BY <2>1, <2>3, <2>4, ReportStoreAssumption
<1>5. rows \in Map /\ Present(rows) = gone
  <2>1. \A j \in Ids : IF j \in gone THEN rows[j] \in Row /\ rows[j] # NoRow ELSE rows[j] = NoRow
    BY <1>2, <1>4 DEF DisabledRows
  <2>2. rows = [j \in Ids |-> rows[j]]
    BY <1>2 DEF DisabledRows
  <2>3. rows \in Map
    BY <2>1, <2>2 DEF Map
  <2>4. gone \subseteq Ids
    BY <1>4
  <2> QED
    BY <2>1, <2>3, <2>4 DEF Present
<1>6. Completes(Spoilt, r, c, rows)
  <2>1. PICK from : from = [j \in Ids |-> j]
    OBVIOUS
  <2>2. \A j \in Ids : from[j] = j
    BY <2>1
  <2>3. Takes(Spoilt, r, c, c, rows, {}, from)
    BY <1>1, <1>4, <1>5, <2>2, ShowingPresent DEF Takes
  <2> QED
    BY <1>3, <1>5, <2>3, CompletesRows
<1>7. PICK o : o = Over(c, rows)
  OBVIOUS
<1>8. Showing(o) = Showing(c) \ gone /\ \A j \in Showing(o) : o[j] = c[j]
  <2>1. \A j \in Ids : o[j] = IF j \in gone THEN rows[j] ELSE c[j]
    BY <1>5, <1>7 DEF Over, Present
  <2> QED
    BY <1>4, <2>1 DEF Showing
<1>9. Orderly(o)
  BY <1>3, <1>8 DEF Orderly, Sourced, Unclaimed, Related
<1>10. Disables(Spoilt, r, i, Now, Tabled(o))
  <2>1. PICK t : t = Tabled(c)
    OBVIOUS
  <2>2. \A j \in Ids \ Spoilt : Now[j] = t[j]
    BY <1>3, <2>1, ExactQuery
  <2>3. \A j \in Ids : Tabled(o)[j] = IF j \in Extends[i] THEN NoRow ELSE t[j]
    BY <1>1, <1>8, <2>1 DEF Tabled
  <2> QED
    BY <2>2, <2>3 DEF Disables
<1> QED
  BY <1>1, <1>2, <1>6, <1>7, <1>9, <1>10 DEF Pending, Acts

LEMMA DisableSerial ==
  ASSUME TypeOK, RowsInv, SerialInv, NEW r \in Requests, req[r].id \in Ids, Disable(r)
  PROVE  SerialInv'
<1>1. PICK m : m = req[r].map
  OBVIOUS
<1>2. PICK c : c = cache
  OBVIOUS
<1>3. PICK i : i = req[r].id
  OBVIOUS
<1>4. PICK gone : gone = Extends[i] \cap Showing(c)
  OBVIOUS
<1>5. req[r].pc = "apply" /\ req[r].op = "disable"
  BY DEF Disable, Applies
<1>6. /\ m \in Map /\ c \in Map /\ Fits(c) /\ Present(m) = Showing(c)
      /\ \A j \in Showing(c) : m[j] = c[j]
      /\ \A j \in Ids : store[<<r, j>>] = NoRow
  BY <1>1, <1>2, <1>5, Applying
<1>7. PICK rows : rows = DisabledRows(r, c, gone)
  OBVIOUS
<1>8. Pending(r, c, rows)
  BY <1>3, <1>4, <1>6, <1>7, DisablePending
<1>9. Posts(r, rows, NoRow)
  <2>1. Posts(r, DisabledRows(r, m, gone), NoRow)
    BY <1>1, <1>3, <1>4, <1>6 DEF Disable, DisabledRows
  <2>2. DisabledRows(r, m, gone) = rows
    BY <1>4, <1>6, <1>7 DEF DisabledRows
  <2> QED
    BY <2>1, <2>2
<1>10. rows \in Map
  <2>1. \A j \in gone : c[j] \in Row
    BY <1>4, <1>6, ShowingPresent, PresentRow
  <2>2. \A j \in gone : [c[j] EXCEPT !.st = "Disabled", !.by = r] \in Row
    BY <2>1 DEF Row, Status
  <2> QED
    BY <1>7, <2>2 DEF DisabledRows, Map
<1>11. Pending(r, Stripped(cache, NoRow), rows)
  BY <1>2, <1>8 DEF Stripped
<1> QED
  BY <1>5, <1>9, <1>10, <1>11, PostsSerial

\* The rows of a family under the study ids.
Moved(r, row) == [row EXCEPT !.kids = {StudyId[n] : n \in @}, !.by = r]
MovedRows(r, m, moved) ==
    [k \in Ids |-> IF \E j \in moved : StudyId[j] = k
                   THEN Moved(r, m[CHOOSE j \in moved : StudyId[j] = k]) ELSE NoRow]

\* A project and its brands keep apart when they move, and move where nobody is.
LEMMA FamilyMoves ==
  ASSUME OneAtATime, NEW i \in Ids \ Dotted, StudyId[i] # i, NEW moved, i \in moved, moved \subseteq Extends[i]
  PROVE  /\ StudyId[i] \in Ids \ Dotted /\ moved \subseteq Ids
         /\ \A j \in moved : StudyId[j] \in Ids /\ Project(StudyId[j]) = StudyId[i]
         /\ \A j \in moved : StudyId[j] \notin Dotted => j = i
         /\ \A j \in moved : StudyId[j] \in Extends[StudyId[i]]
         /\ \A j, n \in moved : StudyId[j] = StudyId[n] => j = n
<1>1. StudyId[i] \in Ids \ Dotted
  BY ReportStoreAssumption, IdsAssumption
<1>2. \A j \in moved : j = i \/ (j \in Dotted /\ Root[j] = i)
  BY DEF OneAtATime, Families
<1>3. \A j \in moved : j \in Ids /\ StudyId[j] \in Ids
  BY <1>2, ReportStoreAssumption
<1>4. \A j \in moved : j = i \/ (j \in Dotted /\ StudyId[j] \in Dotted /\ Root[StudyId[j]] = StudyId[i])
  BY <1>2, IdsAssumption
<1>5. \A j \in moved : Project(StudyId[j]) = StudyId[i]
  BY <1>1, <1>4 DEF Project
<1>6. \A j \in moved : StudyId[j] # j
  BY <1>2, <1>4
<1>7. \A j, n \in moved : StudyId[j] = StudyId[n] => j = n
  BY <1>3, <1>6, IdsAssumption
<1>8. \A j \in moved : StudyId[j] \in Extends[StudyId[i]]
  BY <1>1, <1>4 DEF OneAtATime, Families
<1> QED
  BY <1>1, <1>3, <1>4, <1>5, <1>7, <1>8

\* The family of a project that is shown.
LEMMA FamilyOf ==
  ASSUME NEW c, Orderly(c), NEW i \in Showing(c) \ Dotted, i \in Extends[i]
  PROVE  /\ i \in Family(c, i) /\ Family(c, i) \subseteq Extends[i]
         /\ Family(c, i) = IF c[i].kids = {} THEN {i} ELSE c[i].kids \cap Extends[i]
         /\ c[i].kids # {} => c[i].kids = Family(c, i)
  BY DEF Family, Orderly, Related

LEMMA InitiatePending ==
  ASSUME TypeOK, RowsInv, SerialInv, OneAtATime, NEW r \in Requests,
         \A n \in Ids : store[<<r, n>>] = NoRow,
         NEW c \in Map, Fits(c), NEW i \in Showing(c) \ Dotted, StudyId[i] # i,
         Family(c, i) \subseteq Showing(c)
  PROVE  Pending(r, Without(c, Family(c, i)), MovedRows(r, c, Family(c, i)))
<1>1. PICK moved : moved = Family(c, i)
  OBVIOUS
<1>2. PICK s : s = StudyId[i]
  OBVIOUS
<1>3. PICK new : new = {StudyId[j] : j \in moved}
  OBVIOUS
<1>4. PICK rows : rows = MovedRows(r, c, moved)
  OBVIOUS
<1>5. PICK b : b = Without(c, moved)
  OBVIOUS
<1>6. Exact(c) /\ Orderly(c) /\ Sourced(c) /\ Unclaimed(c) /\ Related(c)
  BY DEF Fits, Orderly
<1>7. /\ i \in Ids /\ i \in moved /\ moved \subseteq Extends[i] /\ moved \subseteq Showing(c)
      /\ moved = IF c[i].kids = {} THEN {i} ELSE c[i].kids \cap Extends[i]
      /\ c[i].kids # {} => c[i].kids = moved
  BY <1>1, <1>6, FamilyOf, ShowingPresent, ReportStoreAssumption
<1>8. /\ s \in Ids \ Dotted /\ s # i /\ moved \subseteq Ids
      /\ \A j \in moved : StudyId[j] \in Ids /\ Project(StudyId[j]) = s
      /\ \A j \in moved : StudyId[j] \notin Dotted => j = i
      /\ \A j \in moved : StudyId[j] \in Extends[s]
      /\ \A j, n \in moved : StudyId[j] = StudyId[n] => j = n
  BY <1>2, <1>7, FamilyMoves
<1>9. new \subseteq Ids /\ new \cap Showing(c) = {} /\ s \in new
  <2>1. \A j \in Showing(c) : Project(j) # s
    BY <1>2, <1>6 DEF Unclaimed
  <2> QED
    BY <1>2, <1>3, <1>7, <1>8, <2>1
<1>10. ASSUME NEW j \in moved
       PROVE  /\ rows[StudyId[j]] = Moved(r, c[j]) /\ rows[StudyId[j]] \in Row
              /\ rows[StudyId[j]] # NoRow
              /\ rows[StudyId[j]].key = c[j].key /\ rows[StudyId[j]].st = c[j].st
              /\ rows[StudyId[j]].by = r /\ rows[StudyId[j]].kids = {StudyId[n] : n \in c[j].kids}
  <2>1. PICK k : k = StudyId[j]
    OBVIOUS
  <2>2. k \in Ids /\ \E n \in moved : StudyId[n] = k
    BY <1>8, <2>1
  <2>3. (CHOOSE n \in moved : StudyId[n] = k) = j
    BY <1>8, <2>1, <2>2
  <2>4. rows[k] = Moved(r, c[j])
    BY <1>4, <2>2, <2>3 DEF MovedRows
  <2>5. c[j] \in Row
    BY <1>7, ShowingPresent, PresentRow
  <2>6. {StudyId[n] : n \in c[j].kids} \in SUBSET Ids
    BY <2>5, ReportStoreAssumption DEF Row
  <2>7. PICK row : row = Moved(r, c[j])
    OBVIOUS
  <2>8. /\ row \in Row /\ row.key = c[j].key /\ row.st = c[j].st
        /\ row.by = r /\ row.kids = {StudyId[n] : n \in c[j].kids}
    BY <2>5, <2>6, <2>7 DEF Row, Moved
  <2> QED
    BY <2>1, <2>4, <2>7, <2>8, ReportStoreAssumption
<1>11. rows \in Map /\ Present(rows) = new
  <2>1. rows = [k \in Ids |-> rows[k]]
    BY <1>4 DEF MovedRows
  <2>2. \A k \in new : rows[k] \in Row /\ rows[k] # NoRow
    BY <1>3, <1>10
  <2>3. \A k \in Ids \ new : rows[k] = NoRow
    BY <1>3, <1>4 DEF MovedRows
  <2>4. rows \in Map
    BY <2>1, <2>2, <2>3 DEF Map
  <2> QED
    BY <1>9, <2>2, <2>3, <2>4 DEF Present
<1>12. Showing(b) = Showing(c) \ moved /\ \A j \in Showing(b) : b[j] = c[j]
  BY <1>5 DEF Without, Showing
<1>13. PICK from : from = [k \in new |-> CHOOSE j \in moved : StudyId[j] = k]
  OBVIOUS
<1>14. \A k \in new : from[k] \in moved /\ StudyId[from[k]] = k
  BY <1>3, <1>13
<1>15. Completes(Spoilt, r, b, rows)
  <2>1. \A k \in new : from[k] \in Showing(c) /\ rows[k].key = c[from[k]].key
    <3> SUFFICES ASSUME NEW k \in new PROVE from[k] \in Showing(c) /\ rows[k].key = c[from[k]].key
      OBVIOUS
    <3>1. PICK j : j = from[k]
      OBVIOUS
    <3>2. j \in moved /\ StudyId[j] = k
      BY <1>14, <3>1
    <3> QED
      BY <1>7, <1>10, <3>1, <3>2
  <2>2. \A k, l \in new : from[k] = from[l] => k = l
    BY <1>14
  <2>3. \A j \in Showing(c) : (\E k \in new : from[k] = j) \/ (j \notin new /\ b[j] = c[j])
    <3> SUFFICES ASSUME NEW j \in Showing(c), b[j] # c[j] PROVE \E k \in new : from[k] = j
      BY <1>9
    <3>1. j \in moved
      BY <1>12
    <3>2. StudyId[j] \in new
      BY <1>3, <3>1
    <3>3. from[StudyId[j]] = j
      BY <1>8, <1>14, <3>1, <3>2
    <3> QED
      BY <3>2, <3>3
  <2>4. \A j \in Showing(b) \ new : j \in Showing(c) /\ b[j] = c[j] /\ \A k \in new : from[k] # j
    BY <1>12, <1>14
  <2>5. Takes(Spoilt, r, c, b, rows, {}, from)
    BY <1>11, <2>1, <2>2, <2>3, <2>4 DEF Takes
  <2> QED
    BY <1>6, <1>11, <2>5, CompletesRows
<1>16. PICK o : o = Over(b, rows)
  OBVIOUS
<1>17. \A k \in Ids : o[k] = IF k \in new THEN rows[k] ELSE IF k \in moved THEN NoRow ELSE c[k]
  BY <1>5, <1>11, <1>16 DEF Over, Present, Without
<1>18. \A j \in moved : c[j].st # "Disabled" /\ c[j] # NoRow
  BY <1>7 DEF Showing
<1>19. Showing(o) = (Showing(c) \ moved) \cup new
  <2>1. ASSUME NEW k \in new PROVE k \in Showing(o)
    <3>1. PICK j \in moved : k = StudyId[j]
      BY <1>3
    <3>2. rows[k] # NoRow /\ rows[k].st # "Disabled"
      BY <1>10, <1>18, <3>1
    <3> QED
      BY <1>9, <1>17, <3>2 DEF Showing
  <2>2. ASSUME NEW k \in Ids \ new PROVE k \in Showing(o) <=> k \in Showing(c) \ moved
    BY <1>17 DEF Showing
  <2> QED
    BY <1>9, <2>1, <2>2, ShowingPresent
<1>20. Orderly(o)
  <2>1. \A k \in new : Project(k) = s /\ (k \notin Dotted => k = s)
    BY <1>2, <1>3, <1>8
  <2>2. Project(i) = i
    BY DEF Project
  <2>3. ASSUME NEW j \in Showing(o) PROVE Descends(j)
    <3>1. CASE j \in Showing(c)
      BY <1>6, <3>1 DEF Sourced
    <3>2. CASE j \in new
      <4>1. PICK n \in Ids : Origin(n) /\ i \in {n, StudyId[n]}
        BY <1>6, <2>2 DEF Sourced, Descends
      <4>2. s = StudyId[n]
        BY <1>2, <1>8, <4>1, IdsAssumption
      <4> QED
        BY <2>1, <3>2, <4>1, <4>2 DEF Descends
    <3> QED
      BY <1>19, <3>1, <3>2
  <2>4. ASSUME NEW j \in Showing(o) \ Dotted, NEW n \in Showing(o), StudyId[j] # j
        PROVE  Project(n) # StudyId[j]
    <3>1. StudyId[s] = s
      BY <1>2, <1>7, IdsAssumption
    <3>2. j \in Showing(c) \ moved
      BY <1>19, <2>1, <2>4, <3>1
    <3>3. CASE n \in Showing(c)
      BY <1>6, <2>4, <3>2, <3>3 DEF Unclaimed
    <3>4. CASE n \in new
      <4>1. j \in Ids /\ j # i
        BY <1>7, <3>2, ShowingPresent
      <4>2. StudyId[j] # s
        BY <1>2, <1>7, <1>8, <2>4, <4>1, IdsAssumption
      <4> QED
        BY <2>1, <3>4, <4>2
    <3> QED
      BY <1>19, <3>3, <3>4
  <2>5. ASSUME NEW j \in Showing(o) \ Dotted, o[j].kids # {}
        PROVE  j \in o[j].kids /\ o[j].kids \subseteq Extends[j]
    <3>1. CASE j \in new
      <4>1. j = s
        BY <2>1, <2>5, <3>1
      <4>2. o[j].kids = {StudyId[n] : n \in c[i].kids}
        BY <1>2, <1>7, <1>9, <1>10, <1>17, <4>1
      <4>3. c[i].kids = moved
        BY <1>7, <2>5, <4>2
      <4> QED
        BY <1>2, <1>7, <1>8, <4>1, <4>2, <4>3
    <3>2. CASE j \notin new
      <4>1. o[j] = c[j] /\ j \in Showing(c) \ Dotted
        BY <1>17, <1>19, <3>2, ShowingPresent
      <4> QED
        BY <1>6, <2>5, <4>1 DEF Related
    <3> QED
      BY <3>1, <3>2
  <2> QED
    BY <2>3, <2>4, <2>5 DEF Orderly, Sourced, Unclaimed, Related
<1>21. Acts(Spoilt, r, Now, Tabled(o))
  <2>1. PICK t : t = Tabled(c)
    OBVIOUS
  <2>2. (\A j \in Ids \ Spoilt : Now[j] = t[j]) /\ Showing(c) \subseteq In(Now)
    BY <1>6, <2>1, ExactQuery
  <2>3. ASSUME NEW j \in Showing(c)
        PROVE  t[j] = Shown(c[j]) /\ j \in In(t) /\ t[j].kids = c[j].kids /\ t[j] \in Shape /\ t[j].st = c[j].st
    <3>1. j \in Ids /\ c[j] \in Row
      BY ShowingPresent, PresentRow
    <3> QED
      BY <2>1, <3>1, ShownShape DEF Tabled, In
  <2>4. moved = IF t[i].kids = {} THEN {i} ELSE t[i].kids \cap Extends[i]
    BY <1>7, <2>3
  <2>5. ASSUME NEW j \in moved
        PROVE  Shown(rows[StudyId[j]]) = [t[j] EXCEPT !.kids = {StudyId[n] : n \in @}, !.by = r]
    <3>1. PICK x : x = [t[j] EXCEPT !.kids = {StudyId[n] : n \in @}, !.by = r]
      OBVIOUS
    <3>2. /\ t[j] \in Shape /\ t[j].st = c[j].st /\ t[j].kids = c[j].kids /\ j \in Showing(c)
      BY <1>7, <2>3
    <3>3. PICK kids : kids = {StudyId[n] : n \in c[j].kids}
      OBVIOUS
    <3>4. kids \in SUBSET Ids
      BY <1>10, <3>3 DEF Row
    <3>5. x = [t[j] EXCEPT !.kids = kids, !.by = r]
      BY <3>1, <3>2, <3>3
    <3>6. x \in Shape /\ x.st = c[j].st /\ x.kids = kids /\ x.by = r
      BY <3>2, <3>4, <3>5 DEF Shape
    <3>7. /\ Shown(rows[StudyId[j]]) \in Shape /\ Shown(rows[StudyId[j]]).st = c[j].st
          /\ Shown(rows[StudyId[j]]).kids = kids /\ Shown(rows[StudyId[j]]).by = r
      BY <1>10, <3>3, ShownShape
    <3> QED
      BY <3>1, <3>6, <3>7, SameShape
  <2>6. ASSUME NEW k \in Ids
        PROVE  Tabled(o)[k] =
                 IF k \in new
                 THEN LET j == CHOOSE j \in moved : StudyId[j] = k
                      IN  [t[j] EXCEPT !.kids = {StudyId[n] : n \in @}, !.by = r]
                 ELSE IF k \in moved THEN NoRow ELSE t[k]
    <3>1. CASE k \in new
      <4>1. PICK j : j = CHOOSE n \in moved : StudyId[n] = k
        OBVIOUS
      <4>2. j \in moved /\ StudyId[j] = k
        BY <1>3, <3>1, <4>1
      <4>3. Tabled(o)[k] = Shown(rows[k])
        BY <1>17, <1>19, <3>1 DEF Tabled
      <4>4. Shown(rows[k]) = [t[j] EXCEPT !.kids = {StudyId[n] : n \in @}, !.by = r]
        BY <2>5, <4>2
      <4> QED
        BY <3>1, <4>1, <4>3, <4>4
    <3>2. CASE k \notin new
      BY <1>17, <1>19, <2>1, <3>2 DEF Tabled
    <3> QED
      BY <3>1, <3>2
  <2>7. Initiates(Spoilt, r, i, Now, Tabled(o))
    <3>1. i \in In(Now) /\ moved \subseteq In(Now)
      BY <1>7, <2>2
    <3>2. i \in Ids \ Spoilt /\ Now[i] = t[i]
      BY <1>7, <2>2, SpoiltBrands
    <3>3. moved = IF Now[i].kids = {} THEN {i} ELSE Now[i].kids \cap Extends[i]
      BY <2>4, <3>2
    <3>4. ASSUME NEW k \in Ids \ Spoilt
          PROVE  Tabled(o)[k] =
                   IF k \in new
                   THEN LET j == CHOOSE j \in moved : StudyId[j] = k
                        IN  [Now[j] EXCEPT !.kids = {StudyId[n] : n \in @}, !.by = r]
                   ELSE IF k \in moved THEN NoRow ELSE Now[k]
      <4>1. CASE k \in new
        <5>1. PICK j : j = CHOOSE n \in moved : StudyId[n] = k
          OBVIOUS
        <5>2. j \in moved /\ StudyId[j] = k
          BY <1>3, <4>1, <5>1
        <5>3. j \in Ids \ Spoilt
          BY <1>8, <5>2, SpoiltBrands
        <5>4. Now[j] = t[j]
          BY <2>2, <5>3
        <5> QED
          BY <2>6, <4>1, <5>1, <5>4
      <4>2. CASE k \notin new
        BY <2>2, <2>6, <4>2
      <4> QED
        BY <4>1, <4>2
    <3> QED
      BY <1>3, <3>1, <3>3, <3>4 DEF Initiates
  <2> QED
    BY <1>7, <2>7 DEF Acts
<1> QED
  BY <1>1, <1>4, <1>5, <1>15, <1>16, <1>20, <1>21 DEF Pending

LEMMA InitiateSerial ==
  ASSUME TypeOK, RowsInv, SerialInv, OneAtATime, NEW r \in Requests, req[r].id \in Ids, Initiate(r)
  PROVE  SerialInv'
<1>1. PICK m : m = req[r].map
  OBVIOUS
<1>2. PICK c : c = cache
  OBVIOUS
<1>3. PICK i : i = req[r].id
  OBVIOUS
<1>4. PICK moved : moved = IF m[i].kids = {} THEN {i} ELSE m[i].kids \cap Extends[i]
  OBVIOUS
<1>5. req[r].pc = "apply" /\ req[r].op = "initiate"
  BY DEF Initiate, Applies
<1>6. i \in Ids \ Dotted /\ StudyId[i] # i
  BY <1>3, <1>5, Running DEF Proper
<1>7. /\ m \in Map /\ c \in Map /\ Fits(c) /\ Present(m) = Showing(c)
      /\ \A j \in Showing(c) : m[j] = c[j]
      /\ \A j \in Ids : store[<<r, j>>] = NoRow
  BY <1>1, <1>2, <1>5, Applying
<1>8. CASE i \notin Present(m) \/ ~(moved \subseteq Present(m))
  BY <1>1, <1>3, <1>4, <1>5, <1>8, FinishSerial DEF Initiate
<1>9. CASE i \in Present(m) /\ moved \subseteq Present(m)
  <2>1. i \in Showing(c) \ Dotted /\ m[i] = c[i] /\ i \in Extends[i]
    BY <1>6, <1>7, <1>9, ReportStoreAssumption
  <2>2. moved = Family(c, i)
    BY <1>4, <1>7, <2>1, FamilyOf DEF Fits
  <2>3. PICK rows : rows = MovedRows(r, c, moved)
    OBVIOUS
  <2>4. Pending(r, Without(c, moved), rows)
    BY <1>6, <1>7, <1>9, <2>1, <2>2, <2>3, InitiatePending
  <2>5. Stripped(cache, i) = Without(c, moved)
    BY <1>2, <2>1, <2>2, ShowingPresent, ReportStoreAssumption DEF Stripped, Present, Showing
  <2>6. MovedRows(r, m, moved) = rows
    <3>1. ASSUME NEW k \in Ids, \E j \in moved : StudyId[j] = k
          PROVE  m[CHOOSE j \in moved : StudyId[j] = k] = c[CHOOSE j \in moved : StudyId[j] = k]
      <4>1. (CHOOSE j \in moved : StudyId[j] = k) \in moved
        BY <3>1
      <4> QED
        BY <1>7, <1>9, <4>1
    <3> QED
      BY <2>3, <3>1 DEF MovedRows
  <2>7. Posts(r, MovedRows(r, m, moved), i)
    BY <1>1, <1>3, <1>4, <1>9 DEF Initiate, MovedRows, Moved
  <2>8. rows \in Map
    <3>1. ASSUME NEW j \in moved PROVE Moved(r, c[j]) \in Row
      <4>1. c[j] \in Row
        BY <1>7, <1>9, ShowingPresent, PresentRow
      <4>2. {StudyId[n] : n \in c[j].kids} \in SUBSET Ids
        BY <4>1, ReportStoreAssumption DEF Row
      <4> QED
        BY <4>1, <4>2 DEF Moved, Row
    <3>2. ASSUME NEW k \in Ids, \E j \in moved : StudyId[j] = k
          PROVE  Moved(r, c[CHOOSE j \in moved : StudyId[j] = k]) \in Row
      <4>1. (CHOOSE j \in moved : StudyId[j] = k) \in moved
        BY <3>2
      <4> QED
        BY <3>1, <4>1
    <3> QED
      BY <2>3, <3>2 DEF MovedRows, Map
  <2>9. Pending(r, Stripped(cache, i), rows)
    BY <2>4, <2>5
  <2>10. Lively(rows)
    <3>1. PICK k : k = StudyId[i]
      OBVIOUS
    <3>2. i \in moved /\ k \in Ids
      <4>1. Orderly(c)
        BY <1>7 DEF Fits
      <4>2. i \in Family(c, i)
        BY <2>1, <4>1, FamilyOf
      <4> QED
        BY <1>6, <2>2, <3>1, <4>2, ReportStoreAssumption
    <3>3. PICK j : j = CHOOSE n \in moved : StudyId[n] = k
      OBVIOUS
    <3>4. j \in moved
      BY <3>1, <3>2, <3>3
    <3>5. c[j] \in Row /\ c[j].st # "Disabled"
      BY <1>7, <1>9, <3>4, ShowingPresent, PresentRow DEF Showing
    <3>6. rows[k] = Moved(r, c[j])
      BY <2>3, <3>1, <3>2, <3>3 DEF MovedRows
    <3>7. rows[k].st = c[j].st /\ rows[k] # NoRow
      <4>1. PICK row : row = Moved(r, c[j])
        OBVIOUS
      <4>2. {StudyId[n] : n \in c[j].kids} \in SUBSET Ids
        BY <3>5, ReportStoreAssumption DEF Row
      <4>3. row.st = c[j].st /\ row \in Row
        BY <3>5, <4>1, <4>2 DEF Moved, Row
      <4> QED
        BY <3>6, <4>1, <4>3, ReportStoreAssumption
    <3> QED
      BY <3>2, <3>5, <3>7 DEF Lively, Present
  <2> QED
    BY <1>2, <1>5, <1>6, <2>1, <2>6, <2>7, <2>8, <2>9, <2>10, PostsSerial
<1> QED
  BY <1>8, <1>9

\* A post without rows changes nothing.
LEMMA EmptyPending ==
  ASSUME TypeOK, RowsInv, NEW r \in Requests, \A n \in Ids : store[<<r, n>>] = NoRow,
         NEW c \in Map, Fits(c), NEW i \in Ids
  PROVE  Pending(r, c, EmptyMap)
<1>1. PICK rows : rows = EmptyMap
  OBVIOUS
<1>2. rows \in Map /\ Present(rows) = {} /\ \A j \in Ids : rows[j] = NoRow
  BY <1>1, EmptyMapType DEF EmptyMap, Present
<1>3. Exact(c) /\ Orderly(c)
  BY DEF Fits
<1>4. Completes(Spoilt, r, c, rows)
  <2>1. Takes(Spoilt, r, c, c, rows, {}, rows)
    BY <1>2 DEF Takes
  <2> QED
    BY <1>2, <1>3, <2>1, CompletesRows
<1>5. Over(c, rows) = c
  BY <1>2 DEF Over, Map
<1>6. Rests(Spoilt, Now, Tabled(c))
  BY <1>3, ExactQuery DEF Rests
<1> QED
  BY <1>1, <1>3, <1>4, <1>5, <1>6 DEF Pending, Acts

\* The rows of the page, for a map that shows the family: f is the row whose status new
\* brands take.
LooksLike(r, m, i, family, new, f, kids, rows) ==
    /\ i \in kids /\ new \subseteq kids \ {i} /\ kids \subseteq Extends[i]
    /\ kids \ {i} \subseteq family \cup new
    /\ f \in family /\ (new # {} => i \in family)
    /\ rows \in Map /\ Present(rows) = new \cup (kids \cap family)
    /\ \A j \in Present(rows) : rows[j].kids = kids /\ rows[j].by = r
    /\ \A j \in new : rows[j].key = NoKey /\ rows[j].st = m[f].st
    /\ \A j \in Present(rows) \ new : rows[j].key = m[j].key /\ rows[j].st = m[j].st

\* The new rows that the map has already are spoilt by this post, and no others.
LEMMA RegroupPending ==
  ASSUME TypeOK, RowsInv, SerialInv, OneAtATime, NEW r \in Requests,
         \A n \in Ids : store[<<r, n>>] = NoRow,
         NEW c \in Map, Fits(c), NEW i \in Ids \ Dotted,
         NEW family, family = Extends[i] \cap Showing(c), NEW new, NEW f, NEW kids, NEW rows,
         LooksLike(r, c, i, family, new, f, kids, rows),
         NEW D, Spoilt \subseteq D, new \cap Showing(c) \subseteq D, D \subseteq Dotted
  PROVE  /\ Completes(D, r, c, rows) /\ Orderly(Over(c, rows))
         /\ Acts(D, r, Now, Tabled(Over(c, rows)))
<1>1. PICK old : old = (kids \cap family) \ new
  OBVIOUS
<1>2. Exact(c) /\ Orderly(c) /\ Sourced(c) /\ Unclaimed(c) /\ Related(c)
  BY DEF Fits, Orderly
<1>3. /\ i \in Extends[i] /\ kids \subseteq Extends[i] /\ kids \subseteq Ids /\ i \in kids
      /\ \A j \in kids : Project(j) = i /\ (j \notin Dotted => j = i)
  <2>1. i \in Extends[i] /\ Extends[i] \in SUBSET Ids
    BY ReportStoreAssumption
  <2>2. \A j \in Extends[i] : j = i \/ (j \in Dotted /\ Root[j] = i)
    BY DEF OneAtATime, Families
  <2>3. kids \subseteq Extends[i] /\ i \in kids
    BY DEF LooksLike
  <2> QED
    BY <2>1, <2>2, <2>3 DEF Project
<1>4. /\ rows \in Map /\ Present(rows) = new \cup old /\ f \in family
      /\ \A j \in new \cup old :
           /\ rows[j].kids = kids /\ rows[j].by = r
           /\ rows[j].key = IF j \in new THEN NoKey ELSE c[j].key
           /\ rows[j].st = IF j \in new THEN c[f].st ELSE c[j].st
  BY <1>1 DEF LooksLike
<1>5. /\ old \subseteq Showing(c) /\ new \cup old \subseteq kids /\ new \cap old = {} /\ i \notin new
      /\ \A j \in Showing(c) \cap kids : j \in new \cup old
      /\ \A j \in kids : j \in new \cup old \/ (j = i /\ i \notin Showing(c))
      /\ (new # {} => i \in Showing(c)) /\ f \in Showing(c) /\ f \in Extends[i]
      /\ kids \ {i} \subseteq Showing(c) \cup new
  BY <1>1, <1>3 DEF LooksLike
<1>6. Completes(D, r, c, rows)
  <2>1. PICK from : from = [j \in Ids |-> j]
    OBVIOUS
  <2>2. \A j \in Ids : from[j] = j
    BY <2>1
  <2>3. /\ \A j \in new : rows[j].key = NoKey
        /\ \A j \in old : from[j] = j /\ j \in Showing(c) /\ rows[j].key = c[j].key
    BY <1>4, <1>5, <2>2, ShowingPresent
  <2>4. Present(rows) \ new = old
    BY <1>4, <1>5
  <2>5. Takes(D, r, c, c, rows, new, from)
    BY <1>4, <1>5, <2>3, <2>4 DEF Takes
  <2> QED
    BY <1>2, <1>4, <2>5, CompletesRows
<1>7. PICK o : o = Over(c, rows)
  OBVIOUS
<1>8. \A j \in Ids : o[j] = IF j \in new \cup old THEN rows[j] ELSE c[j]
  BY <1>4, <1>7 DEF Over, Present
<1>9. \A j \in new \cup old : rows[j] \in Row /\ rows[j] # NoRow /\ rows[j].st # "Disabled"
  BY <1>4, <1>5, PresentRow DEF Showing, Present
<1>10. Showing(o) = Showing(c) \cup new
  <2>1. ASSUME NEW j \in Ids PROVE j \in Showing(o) <=> j \in Showing(c) \cup new
    BY <1>5, <1>8, <1>9 DEF Showing
  <2> QED
    BY <1>3, <1>5, <2>1, ShowingPresent
<1>11. Orderly(o)
  <2>1. ASSUME NEW j \in Showing(o) PROVE Descends(j)
    <3>1. CASE j \in Showing(c)
      BY <1>2, <3>1 DEF Sourced
    <3>2. CASE j \in new
      <4>1. Project(j) = Project(i)
        BY <1>3, <1>5, <3>2
      <4> QED
        BY <1>2, <1>5, <3>2, <4>1 DEF Sourced, Descends
    <3> QED
      BY <1>10, <3>1, <3>2
  <2>2. ASSUME NEW j \in Showing(o) \ Dotted, NEW n \in Showing(o), StudyId[j] # j
        PROVE  Project(n) # StudyId[j]
    <3>1. j \in Showing(c)
      BY <1>3, <1>5, <1>10
    <3>2. CASE n \in Showing(c)
      BY <1>2, <2>2, <3>1, <3>2 DEF Unclaimed
    <3>3. CASE n \in new
      <4>1. Project(n) = Project(i) /\ i \in Showing(c)
        BY <1>3, <1>5, <3>3
      <4> QED
        BY <1>2, <2>2, <3>1, <4>1 DEF Unclaimed
    <3> QED
      BY <1>10, <3>2, <3>3
  <2>3. ASSUME NEW j \in Showing(o) \ Dotted, o[j].kids # {}
        PROVE  j \in o[j].kids /\ o[j].kids \subseteq Extends[j]
    <3>0. j \in Ids
      BY ShowingPresent
    <3>1. CASE j \in new \cup old
      <4>1. j = i /\ o[j].kids = kids
        BY <1>3, <1>4, <1>5, <1>8, <3>0, <3>1
      <4> QED
        BY <1>3, <4>1
    <3>2. CASE j \notin new \cup old
      <4>1. o[j] = c[j] /\ j \in Showing(c) \ Dotted
        BY <1>8, <1>10, <3>0, <3>2
      <4> QED
        BY <1>2, <2>3, <4>1 DEF Related
    <3> QED
      BY <3>1, <3>2
  <2> QED
    BY <2>1, <2>2, <2>3 DEF Orderly, Sourced, Unclaimed, Related
<1>12. PICK t : t = Tabled(c)
  OBVIOUS
<1>13. PICK u : u = Tabled(o)
  OBVIOUS
<1>14. (\A j \in Ids \ Spoilt : Now[j] = t[j]) /\ Showing(c) \subseteq In(Now)
  BY <1>2, <1>12, ExactQuery
<1>15. ASSUME NEW j \in Showing(c)
       PROVE  /\ t[j] = Shown(c[j]) /\ j \in In(t) /\ t[j].st = c[j].st /\ t[j].kids = c[j].kids
              /\ t[j] \in Shape
  <2>1. j \in Ids /\ c[j] \in Row
    BY ShowingPresent, PresentRow
  <2> QED
    BY <1>12, <2>1, ShownShape DEF Tabled, In
<1>16. \A j \in Ids \ D : j \in In(Now) <=> j \in Showing(c)
  <2>1. ASSUME NEW j \in Ids \ D, j \notin Showing(c) PROVE j \notin In(Now)
    BY <1>12, <1>14, <2>1 DEF In, Tabled
  <2> QED
    BY <1>14, <2>1
<1>17. i \in Ids \ D
  OBVIOUS
<1>18. PICK st : st = c[f].st
  OBVIOUS
<1>19. st \in {"New", "Active"} /\ (f \in D \/ st = Now[f].st)
  <2>1. c[f] \in Row /\ c[f].st # "Disabled" /\ f \in Ids
    BY <1>5, ShowingPresent, PresentRow DEF Showing
  <2>2. st \in {"New", "Active"}
    BY <1>18, <2>1 DEF Row, Status
  <2>3. f \notin D => Now[f] = t[f]
    BY <1>14, <2>1
  <2> QED
    BY <1>5, <1>15, <1>18, <2>2, <2>3
<1>20. ASSUME NEW j \in Ids \ D
       PROVE  u[j] = CASE j \notin kids \/ (j = i /\ i \notin In(Now)) -> Now[j]
                       [] j \in kids \cap In(Now) -> [Now[j] EXCEPT !.kids = kids, !.by = r]
                       [] OTHER -> [st |-> st, kids |-> kids, by |-> r]
  <2>0. Now[j] = t[j]
    BY <1>14
  <2>1. CASE j \in new
    <3>1. u[j] = Shown(rows[j])
      BY <1>8, <1>10, <1>13, <2>1 DEF Tabled
    <3>2. j \in kids /\ j \notin In(Now) /\ j # i
      BY <1>5, <1>16, <2>1
    <3>3. Shown(rows[j]) = [st |-> st, kids |-> kids, by |-> r]
      BY <1>4, <1>18, <2>1 DEF Shown
    <3> QED
      BY <3>1, <3>2, <3>3
  <2>2. CASE j \in old
    <3>1. u[j] = Shown(rows[j]) /\ j \in Showing(c)
      BY <1>5, <1>8, <1>10, <1>13, <2>2 DEF Tabled
    <3>2. j \in kids /\ j \in In(Now) /\ j \notin new
      BY <1>5, <1>16, <2>2
    <3>3. Shown(rows[j]) = [t[j] EXCEPT !.kids = kids, !.by = r]
      <4>1. PICK x : x = [t[j] EXCEPT !.kids = kids, !.by = r]
        OBVIOUS
      <4>2. t[j] \in Shape /\ t[j].st = c[j].st
        BY <1>15, <3>1
      <4>3. kids \in SUBSET Ids
        BY <1>3
      <4>4. x \in Shape /\ x.st = c[j].st /\ x.kids = kids /\ x.by = r
        BY <4>1, <4>2, <4>3 DEF Shape
      <4>5. rows[j] \in Row /\ rows[j].st = c[j].st /\ rows[j].kids = kids /\ rows[j].by = r
        BY <1>4, <1>9, <2>2, <3>2
      <4>6. /\ Shown(rows[j]) \in Shape /\ Shown(rows[j]).st = c[j].st
            /\ Shown(rows[j]).kids = kids /\ Shown(rows[j]).by = r
        BY <4>5, ShownShape
      <4> QED
        BY <4>1, <4>4, <4>6, SameShape
    <3>4. i \notin In(Now) => j # i
      BY <3>2
    <3> QED
      BY <2>0, <3>1, <3>2, <3>3, <3>4
  <2>3. CASE j \notin new \cup old
    <3>1. u[j] = t[j]
      BY <1>8, <1>10, <1>12, <1>13, <2>3 DEF Tabled
    <3>2. j \notin kids \/ (j = i /\ i \notin In(Now))
      BY <1>5, <1>16, <1>17, <2>3
    <3> QED
      BY <2>0, <3>1, <3>2
  <2> QED
    BY <2>1, <2>2, <2>3
<1>21. i \in In(Now) \/ kids \ {i} \subseteq In(Now)
  BY <1>5, <1>14
<1>22. f \in In(Now) \cap Extends[i]
  BY <1>5, <1>14
<1>23. Regroups(D, r, i, kids, Now, u)
  BY ONLY <1>3, <1>19, <1>20, <1>21, <1>22 DEF Regroups
<1>24. Acts(D, r, Now, u)
  BY <1>3, <1>23 DEF Acts
<1> QED
  BY <1>6, <1>7, <1>11, <1>13, <1>24

LEMMA RegroupSerial ==
  ASSUME TypeOK, RowsInv, SerialInv, OneAtATime, NEW r \in Requests, req[r].id \in Ids, Regroup(r)
  PROVE  SerialInv'
<1>1. PICK m : m = req[r].map
  OBVIOUS
<1>2. PICK c : c = cache
  OBVIOUS
<1>3. PICK i : i = req[r].id
  OBVIOUS
<1>4. PICK family : family = Extends[i] \cap Present(m)
  OBVIOUS
<1>5. req[r].pc = "apply" /\ req[r].op = "regroup" /\ UNCHANGED <<store, cache, holed, task>>
  BY RegroupForm
<1>6. /\ i \in Ids \ Dotted /\ Extends[i] \in SUBSET Ids /\ Proper(req[r]) /\ ~holed
      /\ ~req[r].again /\ ~req[r].null /\ req[r].old = NoRow /\ req[r].twins = {}
      /\ Starting(r) /\ \A s \in Requests \ {r} : ~Busy(s)
  BY <1>3, <1>5, Running, ReportStoreAssumption DEF Proper
<1>7. /\ m \in Map /\ c \in Map /\ Fits(c) /\ Present(m) = Showing(c)
      /\ \A j \in Showing(c) : m[j] = c[j]
      /\ \A j \in Ids : store[<<r, j>>] = NoRow
  BY <1>1, <1>2, <1>5, Applying
<1>8. family = Extends[i] \cap Showing(c)
  BY <1>4, <1>7
<1>9. CASE Finish(r)
  BY <1>5, <1>9, FinishSerial
<1>10. CASE ~Finish(r)
  <2>1. \E kept, new, f, kids, rows : Chosen(r, family, kept, new, f, kids, rows)
    BY <1>1, <1>3, <1>4, <1>10, RegroupForm
  <2>2. PICK kept, new, f, kids, rows : Chosen(r, family, kept, new, f, kids, rows)
    BY <2>1
  <2>3. Regrouping(r, family, kept, new, f, kids, rows)
    BY <1>1, <1>3, <1>4, <2>2, RegroupRow
  <2>4. /\ RegroupTo(r, f, kids, new) /\ rows = Rewritten(r, m, f, kids, new) /\ rows \in Map
        /\ Present(rows) = new \cup (kids \cap family) /\ kids = {i} \cup kept \cup new
    BY <1>1, <1>3, <2>3 DEF Regrouping
  <2>5. /\ kept \subseteq family \ {i} /\ new \subseteq Extends[i] \ {i}
        /\ (new # {} => i \in family) /\ (family # {} => f \in family)
    BY <1>3, <2>2 DEF Chosen
  <2>6. PICK twins : twins = new \cap Showing(c)
    OBVIOUS
  <2>7. PICK q \in Request :
          /\ req' = [req EXCEPT ![r] = q]
          /\ q.pc = "send" /\ q.rows = rows /\ q.twins = twins
          /\ q.op = req[r].op /\ q.id = req[r].id /\ q.old = req[r].old /\ q.again = req[r].again
          /\ q.null = req[r].null
    BY <1>1, <1>7, <2>4, <2>6, RegroupToForm
  <2>8. OriginsStay
    BY <1>6, <2>7, OriginsKept
  <2>9. twins \subseteq Dotted
    BY <1>6, <2>5, <2>6 DEF OneAtATime, Families
  <2>10. ASSUME NEW j \in twins PROVE Descends(j)'
    <3>1. Descends(j)
      BY <1>7, <2>6 DEF Fits, Orderly, Sourced
    <3> QED
      BY <2>8, <3>1 DEF Descends, OriginsStay
  <2>11. Proper(q)
    BY <1>5, <1>6, <2>7, <2>9 DEF Proper
  <2>12. PICK D : D = Spoilt \cup twins
    OBVIOUS
  <2>13. D \subseteq Spoilt' /\ D \subseteq Dotted
    <3>1. req'[r].twins = twins
      BY <2>7 DEF TypeOK
    <3>2. twins \subseteq Spoilt'
      BY <3>1 DEF Spoilt, Doubled
    <3>3. Spoilt \subseteq Spoilt'
      BY <2>8 DEF OriginsStay
    <3> QED
      BY <2>9, <2>12, <3>2, <3>3, SpoiltBrands
  <2>14. PICK o : o = Over(c, rows)
    OBVIOUS
  <2>15. Completes(D, r, c, rows) /\ Orderly(o) /\ Acts(D, r, Now, Tabled(o))
    <3>1. CASE family = {}
      <4>1. Present(rows) = {} /\ twins = {}
        BY <2>4, <2>5, <2>6, <3>1
      <4>2. rows = EmptyMap
        BY <2>4, <4>1 DEF Map, Present, EmptyMap
      <4>3. Pending(r, c, EmptyMap)
        BY <1>6, <1>7, EmptyPending
      <4>4. D = Spoilt
        BY <2>12, <4>1
      <4> QED
        BY <2>14, <4>2, <4>3, <4>4 DEF Pending
    <3>2. CASE family # {}
      <4>1. /\ \A j \in Present(rows) : rows[j].kids = kids /\ rows[j].by = r
            /\ \A j \in new : rows[j].key = NoKey /\ rows[j].st = m[f].st
            /\ \A j \in Present(rows) \ new : rows[j].key = m[j].key /\ rows[j].st = m[j].st
            /\ kids \in SUBSET Extends[i]
        BY <1>1, <1>3, <2>3 DEF Regrouping
      <4>2. f \in family /\ m[f] = c[f] /\ \A j \in Present(rows) \ new : m[j] = c[j]
        BY <1>7, <1>8, <2>4, <2>5, <3>2
      <4>3. LooksLike(r, c, i, family, new, f, kids, rows)
        BY <2>4, <2>5, <4>1, <4>2 DEF LooksLike
      <4>4. Spoilt \subseteq D /\ new \cap Showing(c) \subseteq D /\ D \subseteq Dotted
        BY <2>6, <2>12, <2>13
      <4> QED
        BY <1>6, <1>7, <1>8, <2>14, <4>3, <4>4, RegroupPending
    <3> QED
      BY <3>1, <3>2
  <2>16. Pending(r, c, rows)'
    <3>1. Orderly(o)'
      BY <2>8, <2>15, OrderlyStays
    <3>2. Orderly(Over(c, rows))' /\ Acts(D, r, Now, Tabled(Over(c, rows)))
      BY <2>14, <2>15, <3>1
    <3> QED
      BY <1>5, <2>13, <2>15, <3>2, PendingComes
  <2>17. Stripped(cache, q.old)' = c
    BY <1>2, <1>5, <1>6, <2>7 DEF Stripped
  <2>18. At(r, q)'
    BY <1>5, <1>6, <2>7, <2>16, <2>17 DEF At
  <2> QED
    BY <1>5, <1>6, <2>7, <2>8, <2>10, <2>11, <2>18, HandlerMoves
<1> QED
  BY <1>9, <1>10

-----------------------------------------------------------------------------
(* The invariant.                                                           *)

LEMMA SeedRows ==
  ASSUME Init, NEW i \in Ids, Seeds[i] # NoRow
  PROVE  /\ <<"seed", i>> \in Keys /\ SeedMap[i] = SeedRow(i) /\ SeedRow(i) # NoRow
         /\ SeedRow(i).key = <<"seed", i>> /\ SeedRow(i).st = "New" /\ SeedRow(i).kids = Seeds[i]
         /\ store[<<"seed", i>>] = [id |-> i, row |-> SeedRow(i)]
<1>1. <<"seed", i>> \in Keys
  BY DEF Keys
<1>2. SeedRow(i) \in Row
  BY <1>1, ReportStoreAssumption DEF SeedRow, Row, Status
<1>3. SeedRow(i) # NoRow
  BY <1>2, ReportStoreAssumption
<1>4. SeedRow(i).key = <<"seed", i>> /\ SeedRow(i).st = "New" /\ SeedRow(i).kids = Seeds[i]
  BY DEF SeedRow
<1>5. SeedMap[i] = SeedRow(i)
  BY DEF SeedMap
<1>6. store[<<"seed", i>>] = [id |-> i, row |-> SeedRow(i)]
  BY <1>1 DEF Init
<1> QED
  BY <1>1, <1>3, <1>4, <1>5, <1>6

LEMMA SeedFits ==
  ASSUME Init, OneAtATime
  PROVE  Fits(SeedMap)
<1>1. PICK c : c = SeedMap
  OBVIOUS
<1>2. Showing(c) = {i \in Ids : Seeds[i] # NoRow}
  <2>1. \A i \in Ids : Seeds[i] = NoRow => c[i] = NoRow
    BY <1>1 DEF SeedMap
  <2>2. \A i \in Ids : Seeds[i] # NoRow => c[i] # NoRow /\ c[i].st = "New"
    BY <1>1, SeedRows
  <2> QED
    BY <2>1, <2>2 DEF Showing
<1>3. ASSUME NEW i \in Showing(c)
      PROVE  /\ i \in Ids /\ c[i].key = <<"seed", i>> /\ c[i].kids = Seeds[i]
             /\ c[i].key \in Keys /\ store[c[i].key] = [id |-> i, row |-> c[i]]
  BY <1>1, <1>2, SeedRows
<1>4. ASSUME NEW k \in Keys, LiveAt(k) PROVE store[k].id \in Spoilt \/ c[store[k].id] = store[k].row
  <2>1. k[1] = "seed" /\ k[2] \in Ids /\ Seeds[k[2]] # NoRow
    BY <1>4 DEF Init, Keys, LiveAt
  <2>2. store[k] = [id |-> k[2], row |-> SeedRow(k[2])]
    BY <2>1 DEF Init
  <2>3. c[k[2]] = SeedRow(k[2])
    BY <1>1, <2>1, SeedRows
  <2> QED
    BY <2>2, <2>3
<1>5. \A i \in Showing(c) : Project(i) \in Ids /\ Seeds[Project(i)] # NoRow
  BY <1>2, <1>3, ReportStoreAssumption, IdsAssumption DEF Project
<1>6. \A i \in Showing(c) : Descends(i)
  BY <1>5 DEF Origin, Descends
<1>7. \A i \in Showing(c), j \in Showing(c) : StudyId[i] # i => Project(j) # StudyId[i]
  <2>1. \A i \in Ids : StudyId[i] # i => Seeds[StudyId[i]] = NoRow
    BY IdsAssumption
  <2> QED
    BY <1>3, <1>5, <2>1
<1>8. \A i \in Showing(c) \ Dotted : c[i].kids # {} => i \in c[i].kids /\ c[i].kids \subseteq Extends[i]
  BY <1>2, <1>3 DEF OneAtATime, Families
<1>9. Exact(c)
  BY <1>3, <1>4 DEF Exact
<1>10. Orderly(c)
  BY <1>6, <1>7, <1>8 DEF Orderly, Sourced, Unclaimed, Related
<1> QED
  BY <1>1, <1>9, <1>10 DEF Fits

LEMMA InitSerial == ASSUME Init, OneAtATime PROVE SerialInv
<1>1. cache = SeedMap /\ ~holed
  BY DEF Init, OneAtATime
<1>2. Fits(cache)
  BY <1>1, SeedFits
<1>3. ASSUME NEW r \in Requests
      PROVE  /\ req[r].pc = "idle" /\ req[r].op = "none" /\ req[r].rows = EmptyMap
             /\ req[r].old = NoRow /\ ~req[r].again /\ ~req[r].null /\ req[r].twins = {}
             /\ task[r]["append"].state = "none" /\ task[r]["delete"].state = "none"
             /\ ~task[r]["append"].null
  BY DEF Init, NoTask, Kinds
<1>4. \A r \in Requests, i \in Ids : store[<<r, i>>] = NoRow
  <2> SUFFICES ASSUME NEW r \in Requests, NEW i \in Ids PROVE store[<<r, i>>] = NoRow
    OBVIOUS
  <2>1. PICK k : k = <<r, i>>
    OBVIOUS
  <2>2. k \in Keys /\ k[1] # "seed"
    BY <2>1, ReportStoreAssumption DEF Keys
  <2> QED
    BY <2>1, <2>2 DEF Init
<1>5. \A r \in Requests : At(r, req[r]) /\ On(r, task[r]["append"]) /\ ~Busy(r)
  BY <1>3 DEF At, On, Busy
<1>6. \A r \in Requests : Regular(r)
  BY <1>3, <1>4 DEF Regular, Proper
<1>7. \A r \in Requests : \A i \in req[r].twins : Descends(i)
  BY <1>3
<1> QED
  BY <1>1, <1>2, <1>5, <1>6, <1>7 DEF SerialInv

LEMMA AtStays ==
  ASSUME UNCHANGED <<store, cache>>, OriginsStay, NEW r, NEW q, At(r, q)
  PROVE  At(r, q)'
<1>1. PICK c : c = cache
  OBVIOUS
<1>2. PICK m : m = Stripped(cache, q.old)
  OBVIOUS
<1>3. Stripped(cache, q.old)' = m
  BY <1>2 DEF Stripped
<1>4. PICK n, rows : n = q.map /\ rows = q.rows
  OBVIOUS
<1>5. Fits(cache) => Fits(cache)'
  <2>1. Fits(c) => Fits(c)'
    BY FitsStays
  <2> QED
    BY <1>1, <2>1
<1>6. (Fits(n) => Fits(n)') /\ (Pending(r, n, rows) => Pending(r, n, rows)')
  BY FitsStays, PendingStays
<1>7. Pending(r, m, rows) => Pending(r, m, rows)'
  BY PendingStays
<1> QED
  BY <1>2, <1>3, <1>4, <1>5, <1>6, <1>7 DEF At, Present, Showing, Has, Lively, Visible

LEMMA StutterSerial == ASSUME TypeOK, SerialInv, UNCHANGED vars PROVE SerialInv'
<1>1. UNCHANGED <<store, cache, holed, req, task>> /\ OriginsStay
  BY OriginsSame DEF vars
<1>2. \A r \in Requests : Regular(r)' /\ (Busy(r)' <=> Busy(r)) /\ (Working(r)' <=> Working(r))
  BY <1>1 DEF SerialInv, Regular, Proper, Busy, Working, Unsent
<1>3. Fits(cache) => Fits(cache)'
  <2>1. PICK c : c = cache
    OBVIOUS
  <2>2. Fits(c) => Fits(c)'
    BY <1>1, FitsStays
  <2> QED
    BY <1>1, <2>1, <2>2
<1>4. ASSUME NEW r \in Requests PROVE At(r, req[r])' /\ On(r, task[r]["append"])'
  <2>1. PICK q, t : q = req[r] /\ t = task[r]["append"]
    OBVIOUS
  <2>2. At(r, q)' /\ On(r, t)'
    BY <1>1, <2>1, AtStays, OnStays DEF SerialInv
  <2> QED
    BY <1>1, <2>1, <2>2
<1>5. \A r \in Requests : \A i \in req'[r].twins : Descends(i)'
  BY <1>1 DEF SerialInv, Descends, OriginsStay
<1> QED
  BY <1>1, <1>2, <1>3, <1>4, <1>5 DEF SerialInv

-----------------------------------------------------------------------------
(* What a step does to the table.                                           *)

\* The saves that have acted.
Applied == {r \in Requests : task[r]["append"].state \in {"put", "done"}}

\* Brands that are live are added again.
Adds ==
    /\ Now' = Now /\ Applied' = Applied
    /\ \E i \in In(Now) : \E brands \in SUBSET Extends[i] :
         /\ brands \subseteq In(Now) \ {i}
         /\ Spoilt' = Spoilt \cup brands \cup {StudyId[j] : j \in brands}

\* Nothing, or one action of one save, or that.
Effect ==
    \/ Now' = Now /\ Applied' = Applied /\ Spoilt' = Spoilt
    \/ /\ \E r \in Requests \ Applied : Applied' = Applied \cup {r} /\ Acts(Spoilt, r, Now, Now')
       /\ Spoilt' = Spoilt
    \/ Adds

Twinned == \A r \in Requests : req'[r].twins = req[r].twins

LEMMA TwinsKept == ASSUME Twinned PROVE Spoilt' = Spoilt
<1>1. Doubled' = Doubled
  BY DEF Twinned, Doubled
<1> QED
  BY <1>1 DEF Spoilt

LEMMA Unseen == ASSUME UNCHANGED <<store, task>>, Twinned PROVE Effect
  BY NowStays, TwinsKept DEF Effect, Applied

LEMMA TwinsOf ==
  ASSUME TypeOK, NEW r \in Requests, NEW q, req' = [req EXCEPT ![r] = q], q.twins = req[r].twins
  PROVE  Twinned
  BY DEF Twinned, TypeOK

LEMMA EndTwins == ASSUME TypeOK, NEW r \in Requests, Finish(r) PROVE Twinned
<1>1. PICK q : q = Ended(r)
  OBVIOUS
<1> QED
  BY <1>1, EndedFields, TwinsOf DEF Finish

LEMMA GotoTwins == ASSUME TypeOK, NEW r \in Requests, NEW pc, Goto(r, pc) PROVE Twinned
<1>1. PICK q : q = [req[r] EXCEPT !.pc = pc]
  OBVIOUS
<1>2. q.twins = req[r].twins
  BY <1>1 DEF TypeOK, Request
<1> QED
  BY <1>1, <1>2, TwinsOf DEF Goto

LEMMA PostsTwins == ASSUME TypeOK, NEW r \in Requests, NEW rows, NEW old, Posts(r, rows, old) PROVE Twinned
<1>1. PICK q : q = [req[r] EXCEPT !.pc = "send", !.map = EmptyMap, !.rows = rows, !.old = old]
  OBVIOUS
<1>2. q.twins = req[r].twins
  BY <1>1 DEF TypeOK, Request
<1> QED
  BY <1>1, <1>2, TwinsOf DEF Posts

LEMMA StartTwins == ASSUME TypeOK, NEW r \in Requests, Create(r) \/ Submit(r) PROVE Twinned
<1>1. CASE Create(r)
  <2>1. PICK i \in Ids : \E brands \in SUBSET {d \in Dotted : Root[d] = i}, st \in {"New", "Active"} :
          LET kids == IF brands = {} THEN {} ELSE {i} \cup brands
              row == [key |-> NoKey, st |-> st, kids |-> kids, by |-> r]
          IN  req' = [req EXCEPT ![r] =
                [@ EXCEPT !.op = "create", !.id = i, !.pc = "send",
                          !.rows = [j \in Ids |-> IF j \in kids \cup {i} THEN row ELSE NoRow]]]
    BY <1>1 DEF Create
  <2>2. \E rows : req' = [req EXCEPT ![r] =
                [@ EXCEPT !.op = "create", !.id = i, !.pc = "send", !.rows = rows]]
    BY <2>1
  <2>3. PICK rows : req' = [req EXCEPT ![r] =
                [@ EXCEPT !.op = "create", !.id = i, !.pc = "send", !.rows = rows]]
    BY <2>2
  <2>4. PICK q : q = [req[r] EXCEPT !.op = "create", !.id = i, !.pc = "send", !.rows = rows]
    OBVIOUS
  <2>5. q.twins = req[r].twins
    BY <2>4 DEF TypeOK, Request
  <2> QED
    BY <2>3, <2>4, <2>5, TwinsOf
<1>2. CASE Submit(r)
  <2>1. PICK op \in Ops \ {"create"}, i \in Ids :
          req' = [req EXCEPT ![r] = [@ EXCEPT !.op = op, !.id = i, !.pc = "get"]]
    BY <1>2 DEF Submit
  <2>2. PICK q : q = [req[r] EXCEPT !.op = op, !.id = i, !.pc = "get"]
    OBVIOUS
  <2>3. q.twins = req[r].twins
    BY <2>2 DEF TypeOK, Request
  <2> QED
    BY <2>1, <2>2, <2>3, TwinsOf
<1> QED
  BY <1>1, <1>2

LEMMA LoadTwins ==
  ASSUME TypeOK, NEW r \in Requests, GetHit(r) \/ GetMiss(r) \/ QueryLive(r) \/ Fill(r)
  PROVE  Twinned
<1>1. ASSUME NEW m, req' = [req EXCEPT ![r] = Loaded(r, m)] PROVE Twinned
  <2>1. PICK q : q = Loaded(r, m)
    OBVIOUS
  <2>2. q.twins = req[r].twins
    BY <2>1, EndedFields DEF Loaded, TypeOK, Request
  <2> QED
    BY <1>1, <2>1, <2>2, TwinsOf
<1>2. CASE GetMiss(r)
  BY <1>2, GotoTwins DEF GetMiss
<1>3. CASE QueryLive(r)
  <2>1. PICK q : q = [req[r] EXCEPT !.pc = "fill", !.map = LiveMap]
    OBVIOUS
  <2>2. q.twins = req[r].twins
    BY <2>1 DEF TypeOK, Request
  <2> QED
    BY <1>3, <2>1, <2>2, TwinsOf DEF QueryLive
<1> QED
  BY <1>1, <1>2, <1>3 DEF GetHit, Fill

LEMMA EditTwins == ASSUME TypeOK, NEW r \in Requests, Edit(r) PROVE Twinned
<1>1. PICK named, po : EditTo(r, named, po)
  BY EditForm
<1>2. PICK m, rows, null : req' = [req EXCEPT ![r] =
          [@ EXCEPT !.pc = "put", !.map = m, !.rows = rows, !.null = null]]
  BY <1>1 DEF EditTo
<1>3. PICK q : q = [req[r] EXCEPT !.pc = "put", !.map = m, !.rows = rows, !.null = null]
  OBVIOUS
<1>4. q.twins = req[r].twins
  BY <1>3 DEF TypeOK, Request
<1> QED
  BY <1>2, <1>3, <1>4, TwinsOf

LEMMA SendTwins == ASSUME TypeOK, NEW r \in Requests, Put(r) \/ Send(r) PROVE Twinned
<1>1. CASE Put(r)
  BY <1>1, GotoTwins, EndTwins DEF Put
<1>2. CASE Send(r)
  <2>1. PICK e : e = Ended(r)
    OBVIOUS
  <2>2. e \in Request /\ e.twins = req[r].twins
    BY <2>1, EndedFields
  <2>3. PICK q : q = IF req[r].op = "initiate" THEN [e EXCEPT !.pc = "get", !.again = TRUE] ELSE e
    OBVIOUS
  <2>4. q.twins = req[r].twins
    BY <2>2, <2>3 DEF Request
  <2>5. req' = [req EXCEPT ![r] = q]
    BY <1>2, <2>1, <2>3 DEF Send, Sent
  <2> QED
    BY <2>4, <2>5, TwinsOf
<1> QED
  BY <1>1, <1>2

\* A regrouping adds again the brands that it inserts although they are live.
LEMMA RegroupAdds ==
  ASSUME TypeOK, RowsInv, SerialInv, OneAtATime, NEW r \in Requests, req[r].id \in Ids, Regroup(r)
  PROVE  Effect
<1>1. PICK m : m = req[r].map
  OBVIOUS
<1>2. PICK i : i = req[r].id
  OBVIOUS
<1>3. PICK family : family = Extends[i] \cap Present(m)
  OBVIOUS
<1>4. req[r].pc = "apply" /\ req[r].op = "regroup" /\ UNCHANGED <<store, cache, holed, task>>
  BY RegroupForm
<1>5. CASE Finish(r)
  BY <1>4, <1>5, EndTwins, Unseen
<1>6. CASE ~Finish(r)
  <2>1. \E kept, new, f, kids, rows : Chosen(r, family, kept, new, f, kids, rows)
    BY <1>1, <1>2, <1>3, <1>6, RegroupForm
  <2>2. PICK kept, new, f, kids, rows : Chosen(r, family, kept, new, f, kids, rows)
    BY <2>1
  <2>3. Regrouping(r, family, kept, new, f, kids, rows)
    BY <1>1, <1>2, <1>3, <2>2, RegroupRow
  <2>4. RegroupTo(r, f, kids, new) /\ rows = Rewritten(r, m, f, kids, new) /\ rows \in Map
    BY <1>1, <2>3 DEF Regrouping
  <2>5. new \subseteq Extends[i] \ {i} /\ (new # {} => i \in family)
    BY <1>2, <2>2 DEF Chosen
  <2>6. PICK q \in Request : req' = [req EXCEPT ![r] = q] /\ q.twins = new \cap Present(m)
    BY <1>1, <2>4, RegroupToForm
  <2>7. PICK brands : brands = new \cap Present(m)
    OBVIOUS
  <2>8. req[r].twins = {}
    BY <1>4, Running DEF Proper
  <2>9. /\ Present(m) = Showing(cache) /\ cache \in Map /\ Exact(cache)
    BY <1>1, <1>4, Applying DEF Fits
  <2>10. Showing(cache) \subseteq In(Now)
    BY <2>9, ExactQuery
  <2>11. CASE brands = {}
    <3>1. Twinned
      BY <2>6, <2>7, <2>8, <2>11, TwinsOf
    <3> QED
      BY <1>4, <3>1, Unseen
  <2>12. CASE brands # {}
    <3>1. i \in In(Now) /\ brands \in SUBSET Extends[i] /\ brands \subseteq In(Now) \ {i}
      BY <1>3, <2>5, <2>7, <2>9, <2>10, <2>12
    <3>2. req'[r].twins = brands /\ \A s \in Requests \ {r} : req'[s].twins = req[s].twins
      BY <2>6, <2>7 DEF TypeOK
    <3>3. Doubled' = Doubled \cup brands
      BY <2>8, <3>2 DEF Doubled
    <3>4. Spoilt' = Spoilt \cup brands \cup {StudyId[j] : j \in brands}
      BY <3>3 DEF Spoilt
    <3>5. Now' = Now /\ Applied' = Applied
      BY <1>4, NowStays DEF Applied
    <3> QED
      BY <3>1, <3>4, <3>5 DEF Adds, Effect
  <2> QED
    BY <2>11, <2>12
<1> QED
  BY <1>5, <1>6

LEMMA TaskEffect ==
  ASSUME TypeOK, NEW r \in Requests, NEW t, task' = [task EXCEPT ![r]["append"] = t]
  PROVE  /\ t.state \in {"put", "done"} => Applied' = Applied \cup {r}
         /\ t.state \notin {"put", "done"} /\ r \notin Applied => Applied' = Applied
<1>1. task'[r]["append"] = t /\ \A s \in Requests \ {r} : task'[s] = task[s]
  BY DEF TypeOK, Kinds
<1> QED
  BY <1>1 DEF Applied

LEMMA SameReq == ASSUME UNCHANGED req PROVE Twinned
  BY DEF Twinned

LEMMA SerialStep ==
  ASSUME TypeOK, HasId, RowsInv, SerialInv, OneAtATime, [Next]_vars, TypeOK', RowsInv', AllQuery'
  PROVE  SerialInv' /\ Effect
<1>1. \A r \in Requests : req[r].pc # "idle" => req[r].id \in Ids
  BY DEF HasId
<1>2. ASSUME NEW r \in Requests, Create(r) \/ Submit(r) PROVE SerialInv' /\ Effect
  <2>1. UNCHANGED <<store, task>>
    BY <1>2 DEF Create, Submit
  <2> QED
    BY <1>2, <2>1, CreateSerial, SubmitSerial, StartTwins, Unseen
<1>3. ASSUME NEW r \in Requests, GetHit(r) \/ GetMiss(r) \/ QueryLive(r) \/ Fill(r)
      PROVE  SerialInv' /\ Effect
  <2>1. UNCHANGED <<store, task>>
    BY <1>3 DEF GetHit, GetMiss, QueryLive, Fill
  <2> QED
    BY <1>3, <2>1, LoadSerial, LoadTwins, Unseen
<1>4. ASSUME NEW r \in Requests, Edit(r) PROVE SerialInv' /\ Effect
  <2>1. req[r].pc = "apply" /\ UNCHANGED <<store, task>>
    BY <1>4, EditForm
  <2> QED
    BY <1>1, <1>4, <2>1, EditSerial, EditTwins, Unseen
<1>5. ASSUME NEW r \in Requests, Put(r) PROVE SerialInv' /\ Effect
  <2>1. UNCHANGED <<store, task>>
    BY <1>5 DEF Put
  <2> QED
    BY <1>5, <2>1, PutSerial, SendTwins, Unseen
<1>6. ASSUME NEW r \in Requests, Disable(r) PROVE SerialInv' /\ Effect
  <2>1. req[r].pc = "apply" /\ UNCHANGED <<store, task>> /\ Twinned
    BY <1>6, PostsTwins DEF Disable, Applies, Posts
  <2> QED
    BY <1>1, <1>6, <2>1, DisableSerial, Unseen
<1>7. ASSUME NEW r \in Requests, Initiate(r) PROVE SerialInv' /\ Effect
  <2>1. req[r].pc = "apply" /\ UNCHANGED <<store, task>>
    BY <1>7 DEF Initiate, Applies, Posts
  <2>2. Finish(r) \/ \E rows, old : Posts(r, rows, old)
    BY <1>7 DEF Initiate
  <2>3. Twinned
    BY <2>2, EndTwins, PostsTwins
  <2> QED
    BY <1>1, <1>7, <2>1, <2>3, InitiateSerial, Unseen
<1>8. ASSUME NEW r \in Requests, Regroup(r) PROVE SerialInv' /\ Effect
  <2>1. req[r].id \in Ids
    BY <1>1, <1>8, RegroupForm
  <2> QED
    BY <1>8, <2>1, RegroupSerial, RegroupAdds
<1>9. ASSUME NEW r \in Requests, Send(r) PROVE SerialInv' /\ Effect
  <2>1. PICK t : t = [task[r]["append"] EXCEPT !.state = "sent", !.rows = req[r].rows, !.old = req[r].old,
                                               !.null = req[r].null]
    OBVIOUS
  <2>2. task' = [task EXCEPT ![r]["append"] = t] /\ UNCHANGED store /\ req[r].pc = "send"
    BY <1>9, <2>1 DEF Send
  <2>3. task[r]["append"].state = "none"
    BY <2>2, Running DEF Proper
  <2>4. t.state = "sent" /\ r \notin Applied
    BY <2>1, <2>3 DEF Applied, TypeOK, Task, Kinds
  <2>5. Applied' = Applied
    BY <2>2, <2>4, TaskEffect
  <2>6. Spoilt' = Spoilt
    BY <1>9, SendTwins, TwinsKept
  <2> QED
    BY <1>9, <2>2, <2>5, <2>6, SendSerial, NowStays DEF Effect
<1>10. ASSUME NEW r \in Requests, NEW k \in Kinds, TaskRead(r, k) PROVE SerialInv' /\ Effect
  <2>1. task[r][k].state = "sent" /\ UNCHANGED <<store, req>>
    BY <1>10 DEF TaskRead
  <2>2. k = "append"
    BY <2>1 DEF Kinds, SerialInv, Regular
  <2>3. ~holed
    BY DEF SerialInv
  <2>4. task'[r]["append"].state = "persist" /\ \A s \in Requests \ {r} : task'[s] = task[s]
    BY <1>10, <2>2, <2>3 DEF TaskRead, TypeOK, Kinds, Task
  <2>5. Applied' = Applied
    BY <2>1, <2>2, <2>4 DEF Applied
  <2> QED
    BY <1>10, <2>1, <2>5, ReadSerial, NowStays, SameReq, TwinsKept DEF Effect
<1>11. ASSUME NEW r \in Requests, NEW k \in Kinds, TaskPut(r, k) PROVE SerialInv' /\ Effect
  <2>1. task[r][k].state = "put" /\ task' = [task EXCEPT ![r][k] = Handled] /\ UNCHANGED <<store, req>>
    BY <1>11 DEF TaskPut
  <2>2. k = "append"
    BY <2>1 DEF Kinds, SerialInv, Regular
  <2>3. Handled.state = "done" /\ r \in Applied
    BY <2>1, <2>2 DEF Handled, NoTask, Applied
  <2>4. Applied' = Applied
    BY <2>1, <2>2, <2>3, TaskEffect
  <2> QED
    BY <1>11, <2>1, <2>4, ShownSerial, NowStays, SameReq, TwinsKept DEF Effect
<1>12. ASSUME NEW r \in Requests, TaskAppend(r) PROVE SerialInv' /\ Effect
  <2>1. SerialInv' /\ Acts(Spoilt, r, Now, Now')
    BY <1>12, AppendActs
  <2>2. /\ task[r]["append"].state = "persist" /\ UNCHANGED req
        /\ \E m : ToPut(r, "append", m)
    BY <1>12 DEF TaskAppend
  <2>3. PICK t : task' = [task EXCEPT ![r]["append"] = t] /\ t.state \in {"put", "done"}
    BY <2>2, ToPutForm DEF Kinds
  <2>4. r \notin Applied /\ Applied' = Applied \cup {r}
    BY <2>2, <2>3, TaskEffect DEF Applied
  <2> QED
    BY <2>1, <2>2, <2>4, SameReq, TwinsKept DEF Effect
<1>13. CASE UNCHANGED vars
  BY <1>13, StutterSerial, SameReq, Unseen DEF vars
<1>14. ASSUME NEW r \in Requests, RequestStep(r) PROVE SerialInv' /\ Effect
  BY <1>3, <1>4, <1>5, <1>6, <1>7, <1>8, <1>9, <1>14, NeverSerial DEF RequestStep
<1>15. ASSUME NEW r \in Requests, TaskStep(r) PROVE SerialInv' /\ Effect
  BY <1>10, <1>11, <1>12, <1>15, NeverSerial DEF TaskStep
<1>16. ASSUME NEW r \in Requests, Crash(r) \/ \E k \in Kinds : TaskLost(r, k) PROVE FALSE
  BY <1>16, NeverSerial
<1>17. ~Evict /\ ~EvictChunk
  BY DEF OneAtATime, Evict, EvictChunk
<1>18. CASE Next
  BY <1>2, <1>14, <1>15, <1>16, <1>17, <1>18 DEF Next
<1> QED
  BY <1>13, <1>18

LEMMA SerialInvariant == ASSUME OneAtATime PROVE Spec => []SerialInv
<1>1. Init => SerialInv
  BY InitSerial
<1>2. /\ TypeOK /\ HasId /\ RowsInv /\ SerialInv /\ [Next]_vars /\ (TypeOK /\ HasId /\ RowsInv)'
      /\ AllQuery'
      => SerialInv'
  BY SerialStep
<1>3. AllQuery
  BY QueryAlways
<1> QED
  BY <1>1, <1>2, <1>3, RowsInvariant, PTL DEF Spec

\* While saves do not overlap, none converts a project to a single brand and nothing is lost,
\* the cache agrees with the datastore whenever nothing is under way, for any ids, any number
\* of saves from pages of any age and any order of them: what the writer puts back is what was
\* stored, and each project has one row. Only the brands that a page added a second time, and
\* the ids that initiation gives to those, are out of it.
THEOREM CacheAgrees == ASSUME OneAtATime PROVE Spec => []Coherent
<1>1. TypeOK /\ HasId /\ RowsInv /\ SerialInv => Coherent
  <2> SUFFICES ASSUME TypeOK, RowsInv, SerialInv, Settled, NEW i \in Ids \ Spoilt
               PROVE  /\ \A k, l \in LiveKeys(i) : k = l
                      /\ Visible(Got)[i] = LiveMap[i]
    BY DEF Coherent
  <2>1. \A r \in Requests : ~Working(r)
    BY DEF Settled, Working, Unsent, Kinds
  <2>2. cache \in Map /\ Exact(cache) /\ Got = cache
    BY <2>1 DEF SerialInv, Fits, TypeOK, Got
  <2> QED
    BY <2>2, ExactQuery
<1> QED
  BY <1>1, RowsInvariant, SerialInvariant, PTL

\* What the store shows is a table of live projects.
Typed == TypeOK => Now \in [Ids -> {NoRow} \cup Table!Project]

LEMMA NowType == Typed
<1> SUFFICES ASSUME TypeOK PROVE Now \in [Ids -> {NoRow} \cup Table!Project]
  BY DEF Typed
<1>1. ASSUME NEW i \in Ids, LiveKeys(i) # {} PROVE Now[i] \in Table!Project
  <2>1. PICK k : k = CHOOSE n \in LiveKeys(i) : TRUE
    OBVIOUS
  <2>2. k \in LiveKeys(i)
    BY <1>1, <2>1
  <2>3. PICK row : row = store[k].row
    OBVIOUS
  <2>4. row \in Row /\ row.st # "Disabled"
    BY <2>2, <2>3, LiveRow DEF LiveKeys, LiveAt
  <2>5. PICK x : x = Shown(row)
    OBVIOUS
  <2>6. x \in Table!Project
    BY <2>4, <2>5, ShownShape DEF Shape, Status, Table!Project
  <2>7. LiveMap[i] = row
    BY <1>1, <2>1, <2>3 DEF LiveMap
  <2> QED
    BY <1>1, <2>5, <2>6, <2>7 DEF Now
<1> QED
  BY <1>1 DEF Now

LEMMA TableInit ==
  ASSUME TypeOK, Init
  PROVE  Table!Init
<1>1. Applied = {}
  BY DEF Applied, Init, NoTask, Kinds
<1>2. Spoilt = {}
  BY DEF Spoilt, Doubled, Init
<1> QED
  BY <1>1, <1>2, NowType DEF Typed, Table!Init, Now, Applied

\* The actions of the table.
LEMMA TableAdds ==
  ASSUME NEW i \in Ids, NEW S \in SUBSET Extends[i], Table!AddAgain(i, S)
  PROVE  Table!Next
  BY DEF Table!Next

LEMMA TableActs ==
  ASSUME NEW i \in Ids, NEW r \in Requests, Table!Disable(r, i) \/ Table!Initiate(r, i) \/ Table!Nothing(r)
  PROVE  Table!Next
  BY DEF Table!Next

LEMMA TableFamilyActs ==
  ASSUME NEW i \in Ids, NEW r \in Requests, NEW S \in SUBSET Extends[i],
         Table!Create(r, i, S) \/ Table!Edit(r, S) \/ Table!Regroup(r, i, S)
  PROVE  Table!Next
  BY DEF Table!Next

LEMMA NowLive == Table!Live = In(Now)
  BY DEF Table!Live, In, Now

LEMMA ActAdds ==
  ASSUME Adds
  PROVE  Table!Next
<1> SUFFICES ASSUME NEW i \in In(Now), NEW S \in SUBSET Extends[i], S \subseteq In(Now) \ {i},
                    Spoilt' = Spoilt \cup S \cup {StudyId[j] : j \in S}
             PROVE  Table!Next
  BY DEF Adds
<1>1. Now' = Now /\ Applied' = Applied
  BY DEF Adds
<1>2. Table!AddAgain(i, S)
  BY <1>1, NowLive, Zenon DEF Table!AddAgain, Now, Applied
<1>3. i \in Ids
  BY DEF In
<1>4. Table!Next
  BY <1>2, <1>3, TableAdds
<1> QED
  BY <1>4

\* A save acts: what it does to the table is right but for what is spoilt.
Acting(r) ==
    /\ r \in Requests /\ r \notin Applied /\ Applied' = Applied \cup {r} /\ Spoilt' = Spoilt
    /\ Now' \in [Ids -> {NoRow} \cup Table!Project]

LEMMA ActingOnce == ASSUME NEW r, Acting(r) PROVE Table!Act(r)
  BY DEF Acting, Table!Act, Applied

LEMMA ActingTo ==
  ASSUME NEW r, Acting(r), NEW x, \A j \in Ids \ Spoilt : Now'[j] = x[j]
  PROVE  Table!Becomes(x)
  BY Zenon DEF Acting, Table!Becomes, Now

LEMMA ActDisables ==
  ASSUME NEW r \in Requests, NEW i \in Ids, Acting(r), Disables(Spoilt, r, i, Now, Now')
  PROVE  Table!Next
<1>1. PICK x : x = [j \in Ids |-> IF j \in Extends[i] THEN NoRow ELSE Now[j]]
  OBVIOUS
<1>2. \A j \in Ids \ Spoilt : Now'[j] = x[j]
  BY <1>1 DEF Disables
<1>3. Table!Becomes(x) /\ Table!Act(r)
  BY <1>2, ActingTo, ActingOnce
<1>4. Table!Disable(r, i)
  BY <1>1, <1>3, Zenon DEF Table!Disable, Now
<1> QED
  BY <1>4, TableActs

LEMMA ActInitiates ==
  ASSUME NEW r \in Requests, NEW i \in Ids, Acting(r), Initiates(Spoilt, r, i, Now, Now')
  PROVE  Table!Next
<1> DEFINE moved == IF Now[i].kids = {} THEN {i} ELSE Now[i].kids \cap Extends[i]
           new == {StudyId[j] : j \in moved}
           x == [k \in Ids |->
             IF k \in new
             THEN LET j == CHOOSE j \in moved : StudyId[j] = k
                  IN  [Now[j] EXCEPT !.kids = {StudyId[n] : n \in @}, !.by = r]
             ELSE IF k \in moved THEN NoRow ELSE Now[k]]
<1>1. i \in In(Now) /\ moved \subseteq In(Now)
  BY Zenon DEF Initiates
<1>2. \A j \in Ids \ Spoilt : Now'[j] = x[j]
  BY DEF Initiates
<1>3. Table!Becomes(x) /\ Table!Act(r)
  BY <1>2, ActingTo, ActingOnce
<1>4. Table!Initiate(r, i)
  BY <1>1, <1>3, NowLive, Zenon DEF Table!Initiate, Now
<1> QED
  BY <1>4, TableActs

LEMMA ActRests ==
  ASSUME NEW r \in Requests, NEW i \in Ids, Acting(r), Rests(Spoilt, Now, Now')
  PROVE  Table!Next
<1>1. Table!Becomes(Now) /\ Table!Act(r)
  BY ActingTo, ActingOnce DEF Rests
<1>2. Table!Nothing(r)
  BY <1>1, Zenon DEF Table!Nothing, Now
<1> QED
  BY <1>2, TableActs

LEMMA ActEdits ==
  ASSUME NEW r \in Requests, NEW i \in Ids, NEW S \in SUBSET Extends[i], Acting(r), Edits(Spoilt, r, S, Now, Now')
  PROVE  Table!Next
<1>1. PICK po \in BOOLEAN : \A j \in Ids \ Spoilt :
        Now'[j] = IF j \in S THEN [Now[j] EXCEPT !.st = IF po THEN "Active" ELSE @, !.by = r] ELSE Now[j]
  BY DEF Edits
<1>2. PICK x : x = [j \in Ids |->
        IF j \in S THEN [Now[j] EXCEPT !.st = IF po THEN "Active" ELSE @, !.by = r] ELSE Now[j]]
  OBVIOUS
<1>3. \A j \in Ids \ Spoilt : Now'[j] = x[j]
  BY <1>1, <1>2
<1>4. Table!Becomes(x) /\ Table!Act(r) /\ S \subseteq Table!Live
  BY <1>3, ActingTo, ActingOnce, NowLive DEF Edits
<1>5. Table!Edit(r, S)
  BY <1>2, <1>4, Zenon DEF Table!Edit, Now
<1> QED
  BY <1>5, TableFamilyActs

LEMMA ActCreates ==
  ASSUME NEW r \in Requests, NEW i \in Ids, NEW S \in SUBSET Extends[i], Acting(r), Creates(Spoilt, r, i, S, Now, Now')
  PROVE  Table!Next
<1>1. PICK st \in {"New", "Active"} : \A j \in Ids \ Spoilt :
        Now'[j] = IF j \in S \cup {i} THEN [st |-> st, kids |-> S, by |-> r] ELSE Now[j]
  BY DEF Creates
<1>2. PICK x : x = [j \in Ids |->
        IF j \in S \cup {i} THEN [st |-> st, kids |-> S, by |-> r] ELSE Now[j]]
  OBVIOUS
<1>3. \A j \in Ids \ Spoilt : Now'[j] = x[j]
  BY <1>1, <1>2
<1>4. Table!Becomes(x) /\ Table!Act(r) /\ i \notin Table!Live
  BY <1>3, ActingTo, ActingOnce, NowLive DEF Creates
<1>5. Table!Create(r, i, S)
  BY <1>2, <1>4, Zenon DEF Table!Create, Now
<1> QED
  BY <1>5, TableFamilyActs

LEMMA ActRegroups ==
  ASSUME NEW r \in Requests, NEW i \in Ids, NEW S \in SUBSET Extends[i], Acting(r), Regroups(Spoilt, r, i, S, Now, Now')
  PROVE  Table!Next
<1>1. PICK f \in In(Now) \cap Extends[i], st \in {"New", "Active"} :
        /\ f \in Spoilt \/ st = Now[f].st
        /\ \A j \in Ids \ Spoilt :
             Now'[j] = CASE j \notin S \/ (j = i /\ i \notin In(Now)) -> Now[j]
                         [] j \in S \cap In(Now) -> [Now[j] EXCEPT !.kids = S, !.by = r]
                         [] OTHER -> [st |-> st, kids |-> S, by |-> r]
  BY DEF Regroups
<1>2. PICK x : x = [j \in Ids |->
        CASE j \notin S \/ (j = i /\ i \notin In(Now)) -> Now[j]
          [] j \in S \cap In(Now) -> [Now[j] EXCEPT !.kids = S, !.by = r]
          [] OTHER -> [st |-> st, kids |-> S, by |-> r]]
  OBVIOUS
<1>3. \A j \in Ids \ Spoilt : Now'[j] = x[j]
  BY <1>1, <1>2
<1>4. Table!Becomes(x) /\ Table!Act(r)
  BY <1>3, ActingTo, ActingOnce
<1>5. PICK y : y = [j \in Ids |->
        CASE j \notin S \/ (j = i /\ i \notin Table!Live) -> Now[j]
          [] j \in S \cap Table!Live -> [Now[j] EXCEPT !.kids = S, !.by = r]
          [] OTHER -> [st |-> st, kids |-> S, by |-> r]]
  OBVIOUS
<1>6. y = x
  BY <1>2, <1>5, NowLive
<1>7. Table!Becomes(y) /\ (f \in Spoilt \/ st = Now[f].st) /\ f \in Table!Live \cap Extends[i]
  BY <1>1, <1>4, <1>6, NowLive
<1>8. i \in S /\ (i \in Table!Live \/ S \ {i} \subseteq Table!Live)
  BY NowLive DEF Regroups
<1>9. Table!Regroup(r, i, S)
  BY <1>4, <1>5, <1>7, <1>8, Zenon DEF Table!Regroup, Now
<1> QED
  BY <1>9, TableFamilyActs

LEMMA TableStep ==
  ASSUME Effect, TypeOK', Typed' PROVE [Table!Next]_(Table!vars)
<1>1. Now' \in [Ids -> {NoRow} \cup Table!Project]
  BY DEF Typed
<1>2. CASE Now' = Now /\ Applied' = Applied /\ Spoilt' = Spoilt
  BY <1>2 DEF Table!vars, Now, Applied
<1>3. CASE Adds
  BY <1>3, ActAdds
<1>4. CASE /\ \E r \in Requests \ Applied : Applied' = Applied \cup {r} /\ Acts(Spoilt, r, Now, Now')
           /\ Spoilt' = Spoilt
  <2>1. PICK r \in Requests : Acting(r) /\ Acts(Spoilt, r, Now, Now')
    BY <1>1, <1>4 DEF Acting
  <2>2. PICK i \in Ids :
          \/ Disables(Spoilt, r, i, Now, Now') \/ Initiates(Spoilt, r, i, Now, Now')
          \/ Rests(Spoilt, Now, Now')
          \/ \E S \in SUBSET Extends[i] :
               \/ Edits(Spoilt, r, S, Now, Now') \/ Creates(Spoilt, r, i, S, Now, Now')
               \/ Regroups(Spoilt, r, i, S, Now, Now')
    BY <2>1 DEF Acts
  <2> QED
    BY <2>1, <2>2, ActDisables, ActInitiates, ActRests, ActEdits, ActCreates, ActRegroups
<1> QED
  BY <1>2, <1>3, <1>4 DEF Effect

\* While saves do not overlap, none converts a project to a single brand and nothing is lost,
\* the store is the table of ProjectTable: each save acts once, at one moment, on all the rows
\* it concerns, and what it does there is what the user asked of the table as it then was,
\* however old the page. A page that adds a live brand again spoils that brand and no other.
THEOREM StoreIsTheTable == ASSUME OneAtATime PROVE Spec => ImplementsTable
<1>1. TypeOK /\ Init => Table!Init
  BY TableInit
<1>2. /\ TypeOK /\ HasId /\ RowsInv /\ SerialInv /\ [Next]_vars /\ (TypeOK /\ HasId /\ RowsInv)'
      /\ AllQuery' /\ Typed'
      => [Table!Next]_(Table!vars)
  BY SerialStep, TableStep
<1>3. AllQuery /\ Typed
  BY QueryAlways, NowType
<1> QED
  BY <1>1, <1>2, <1>3, RowsInvariant, SerialInvariant, PTL DEF Spec, ImplementsTable, Table!Spec
=============================================================================
