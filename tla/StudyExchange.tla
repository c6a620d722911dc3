---------------------------- MODULE StudyExchange ----------------------------
(***************************************************************************)
(* The projects this program shares with the study system, and their PO    *)
(* numbers.                                                                *)
(*                                                                         *)
(* A project starts here under an id of our own.  To initiate it the study *)
(* system is called, makes a project and answers with the id that replaces *)
(* ours; to disable an initiated one the study system is asked first.  In  *)
(* the other direction the study system calls two web services: one tells  *)
(* of its project (which is made here when it is not known, or closed) and *)
(* one has it disabled.  PO numbers are looked up in all cost centers and  *)
(* used afterwards.                                                        *)
(*                                                                         *)
(* A handler loads rows, decides, and posts whole rows without waiting; a  *)
(* post is stored later, or never.  The map a load returns is the rows     *)
(* that are stored and not disabled: memcache and its races are the        *)
(* subject of ReportStore, as are the brands, which go the way of their    *)
(* project.  The study system is not part of this program; it is modelled  *)
(* as it is used: it may make, refuse, tell of and ask for at any time.    *)
(***************************************************************************)
EXTENDS Integers, Sequences

CONSTANTS
  Dummies,     \* ids given out here (ten digits)
  StudyIds,    \* ids given out by the study system
  MaxRequests, \* bound of the model: requests from either side, numbered as they begin
  Within,      \* Within[i]: the ids of at most ten characters whose text contains i
  POs,         \* PO numbers
  Centers,     \* cost centers
  Seeds,       \* the tables of rows the program may start with, by their keys
  CenterLists, \* the cost centers a web service may be called with, in order
  Ops,         \* the requests of this instance
  NoPO,        \* the empty PO number
  None         \* no row, no id

Ids == Dummies \cup StudyIds
Requests == 1..MaxRequests
Keys == Ids \cup Requests
Row == [id : Ids, st : {"New", "Active", "Closed", "Disabled"}, po : POs \cup {NoPO}, cc : Centers]

ASSUME StudyAssumption ==
  /\ MaxRequests \in Nat
  /\ Dummies \cap StudyIds = {} /\ Ids \cap (Requests \cup POs) = {} /\ NoPO \notin Ids \cup POs
  /\ None \notin Row \cup Keys \cup Centers
  /\ Within \in [StudyIds -> SUBSET Ids] /\ \A i \in StudyIds : i \in Within[i]
  /\ \A seed \in Seeds :
       \* a new project has no PO number, two projects have different ones
       /\ \A k \in DOMAIN seed : /\ k = seed[k].id /\ seed[k] \in Row /\ seed[k].st # "Disabled"
                                 /\ seed[k].st = "New" => seed[k].po = NoPO
       /\ \A k, l \in DOMAIN seed : seed[k].po = seed[l].po => k = l \/ seed[k].po = NoPO
  /\ \A l \in CenterLists : l \in Seq(Centers) /\ l # <<>>
  /\ Ops \subseteq {"create", "po", "initiate", "disable", "told", "remove"}

VARIABLES
  rows,     \* the stored rows
  study,    \* what the study system has under an id: nothing, a project, or one that is off
  req,      \* the requests
  known,    \* history: the ids that projects were given here
  upset     \* history: ids and PO numbers that two requests under way at a time were about, or
            \* about which a post, a call or an answer was lost, and the ids such a project got since

studyVars == <<rows, study, req, known, upset>>

Request ==
  [pc : {"idle", "check", "answer", "again", "store", "done"}, op : Ops \cup {"none"},
   about : SUBSET (Ids \cup POs), id : Ids \cup {None}, to : StudyIds \cup {None}, po : POs \cup {NoPO},
   maps : SUBSET Centers, last : Centers \cup {None}, ok : BOOLEAN, key : Keys \cup {None}, row : Row \cup {None},
   off : SUBSET Keys] \* the rows that are posted with row, to be disabled as well

Fresh == [pc |-> "idle", op |-> "none", about |-> {}, id |-> None, to |-> None, po |-> NoPO, maps |-> {},
          last |-> None, ok |-> TRUE, key |-> None, row |-> None, off |-> {}]
Done == [Fresh EXCEPT !.pc = "done"]

StudyInit ==
  /\ \E seed \in Seeds :
       /\ rows = [k \in Keys |-> IF k \in DOMAIN seed THEN seed[k] ELSE None]
       /\ study = [i \in StudyIds |-> IF i \in DOMAIN seed THEN "on" ELSE "none"]
       /\ known = DOMAIN seed
  /\ req = [r \in Requests |-> Fresh]
  /\ upset = {}

-----------------------------------------------------------------------------
(* Loading, posting and storing.                                            *)

\* The rows a loaded map may hold under an id.
Live(i) == {k \in Keys : rows[k] # None /\ rows[k].id = i /\ rows[k].st # "Disabled"}

\* The requests under way that are about one of these ids and numbers.
Others(things) == {r \in Requests : req[r].about \cap things # {}}

\* What two requests get in each other's way with: a number, or projects.
Conflict(a, b) == IF a \cap b \cap Ids # {} THEN a \cup b ELSE a \cap b

\* A request begins.  If it is about an upset project, so is what that becomes.
Begin(r, op, things, q) ==
  /\ req[r] = Fresh /\ (r > 1 => req[r - 1] # Fresh) /\ op \in Ops
  /\ req' = [req EXCEPT ![r] = [q EXCEPT !.op = op, !.about = things]]
  /\ upset' = upset \cup (UNION {Conflict(things, req[s].about) : s \in Others(things)})
                   \cup (IF things \cap Ids \cap upset = {} THEN {} ELSE things \cap Ids)

At(r, step, op) == req[r].pc = step /\ req[r].op = op
Become(r, q) == req' = [req EXCEPT ![r] = q]

\* generateProjectIdUsingJDOTxn(): a changed or a new row is posted.
Posting(q, key, row) == [q EXCEPT !.pc = "store", !.key = key, !.row = row]
Disabling(q, k) == Posting(q, k, [rows[k] EXCEPT !.st = "Disabled"])

\* The row is stored as a whole, over whatever has been stored since it was loaded. (Of the rows
\* in off no more than that they are disabled is told: a disabled row is not looked at again.)
Store(r) ==
  /\ req[r].pc = "store"
  /\ rows' = [k \in Keys |-> IF k = req[r].key THEN req[r].row
                             ELSE IF k \in req[r].off THEN [rows[k] EXCEPT !.st = "Disabled"] ELSE rows[k]]
  /\ Become(r, Done)
  /\ UNCHANGED <<study, known, upset>>

\* A post or an answer is lost, or its instance dies: nobody notices.
Lose(r) ==
  /\ req[r].pc \in {"store", "answer"}
  /\ Become(r, Done)
  /\ upset' = upset \cup req[r].about
  /\ UNCHANGED <<rows, study, known>>

-----------------------------------------------------------------------------
(* PO numbers.                                                              *)

\* Mutant of POTaken: closed projects are not looked at.
POTakenActive(p) == \E k \in Keys : rows[k] # None /\ rows[k].st = "Active" /\ rows[k].po = p

\* validatePONum(): the number of a project, of any cost center, that is not new.
POTaken(p) == \E k \in Keys : rows[k] # None /\ rows[k].st \notin {"Disabled", "New"} /\ rows[k].po = p

\* StoreReport: a project without a number is new, one with a number that is not taken is
\* active.  Two projects of one submission are two requests here: both are looked up before
\* either is stored.
Create(r) ==
  \E d \in Dummies \ known, p \in POs \cup {NoPO}, c \in Centers :
    LET row == [id |-> d, st |-> IF p = NoPO THEN "New" ELSE "Active", po |-> p, cc |-> c]
    IN  /\ p = NoPO \/ ~POTaken(p)
        /\ Begin(r, "create", {d, p} \ {NoPO}, Posting(Fresh, r, row))
        /\ known' = known \cup {d}
        /\ UNCHANGED <<rows, study>>

\* AutoSaveData, a PO number was typed or cleared: the row is loaded ...
EditPO(r) ==
  \E i \in Ids, p \in POs \cup {NoPO} : \E k \in Live(i) :
    /\ Begin(r, "po", {i, p} \ {NoPO}, [Fresh EXCEPT !.pc = "check", !.po = p, !.key = k, !.row = rows[k]])
    /\ UNCHANGED <<rows, study, known>>

\* ... the number is looked up, and the row is posted, with the number or as it was. The empty
\* one is looked up too, and is taken when an active or closed project has none.
CheckPO(r) ==
  LET q == req[r]
      row == IF POTaken(q.po) THEN q.row ELSE [q.row EXCEPT !.po = q.po, !.st = "Active"]
  IN  /\ At(r, "check", "po")
      /\ Become(r, Posting(q, q.key, row))
      /\ UNCHANGED <<rows, study, known, upset>>

-----------------------------------------------------------------------------
(* Calls of the study system.                                               *)

\* InitiateProjectServlet: the study system makes a project or refuses to.  Whether ours is
\* still there is not looked up before.
Initiate(r) ==
  \E d \in Dummies \cap known, s \in {None} \cup {i \in StudyIds : study[i] = "none"} :
    /\ study' = [i \in StudyIds |-> IF i = s THEN "on" ELSE study[i]]
    /\ Begin(r, "initiate", {d, s} \ {None}, [Fresh EXCEPT !.pc = "answer", !.id = d, !.to = s])
    /\ UNCHANGED <<rows, known>>

\* Mutant of InitiateAnswered: an answer without an id is taken for one.
InitiateAnsweredAnyhow(r) ==
  LET q == req[r]
  IN  /\ At(r, "answer", "initiate")
      /\ IF Live(q.id) = {} THEN Become(r, Done) /\ known' = known
         ELSE /\ \E k \in Live(q.id) : Become(r, Posting(q, k, [rows[k] EXCEPT !.id = q.to]))
              /\ known' = known \cup {q.to}
      /\ UNCHANGED <<rows, study, upset>>

\* updateGMemoriIdInBudget(): the row takes the new id, if it is found under the old one.
InitiateAnswered(r) ==
  LET q == req[r]
  IN  /\ At(r, "answer", "initiate")
      /\ IF q.to = None \/ Live(q.id) = {} THEN Become(r, Done) /\ known' = known
         ELSE /\ \E k \in Live(q.id) : Become(r, Posting(q, k, [rows[k] EXCEPT !.id = q.to]))
              /\ known' = known \cup {q.to}
      /\ UNCHANGED <<rows, study, upset>>

\* DisableProjectServlet: a project with an id of our own is disabled at once ...
DisableDummy(r) ==
  \E i \in Dummies : \E k \in Live(i) :
    /\ Begin(r, "disable", {i}, Disabling(Fresh, k))
    /\ UNCHANGED <<rows, study, known>>

\* ... another one is taken off in the study system first, which may refuse.
Disable(r) ==
  \E i \in StudyIds \cap known, ok \in BOOLEAN :
    /\ study' = IF ok THEN [study EXCEPT ![i] = "off"] ELSE study
    /\ Begin(r, "disable", {i}, [Fresh EXCEPT !.pc = "answer", !.id = i, !.ok = ok])
    /\ UNCHANGED <<rows, known>>

\* Mutant of DisableAnswered: the status of the answer is not looked at.
DisableAnsweredAnyhow(r) ==
  /\ At(r, "answer", "disable")
  /\ IF Live(req[r].id) = {} THEN Become(r, Done)
     ELSE \E k \in Live(req[r].id) : Become(r, Disabling(req[r], k))
  /\ UNCHANGED <<rows, study, known, upset>>

\* Mutant of DisableAnswered: the condition of the web service is asked for here as well.
DisableAnsweredNew(r) ==
  LET new == {k \in Live(req[r].id) : rows[k].st = "New"}
  IN  /\ At(r, "answer", "disable")
      /\ IF ~req[r].ok \/ new = {} THEN Become(r, Done)
         ELSE \E k \in new : Become(r, Disabling(req[r], k))
      /\ UNCHANGED <<rows, study, known, upset>>

DisableAnswered(r) ==
  /\ At(r, "answer", "disable")
  /\ IF ~req[r].ok \/ Live(req[r].id) = {} THEN Become(r, Done)
     ELSE \E k \in Live(req[r].id) : Become(r, Disabling(req[r], k))
  /\ UNCHANGED <<rows, study, known, upset>>

-----------------------------------------------------------------------------
(* Calls by the study system, about a project it has.  A caller who is not  *)
(* mapped to a cost center of the call, or does not own the project, is     *)
(* refused and changes nothing.                                             *)

\* The cost centers of a call that its user is mapped to.
Selected(list, mapped) == {list[n] : n \in DOMAIN list} \cap mapped

\* UpdateStudyInBudget: a project that is not found is made in the first cost center of the
\* call; one that is found, and is to be closed, is loaded again.
Told(r) ==
  \E i \in StudyIds, list \in CenterLists, mapped \in SUBSET Centers :
    LET selected == Selected(list, mapped)
        row == [id |-> i, st |-> "New", po |-> NoPO, cc |-> Head(list)]
    IN  /\ study[i] = "on" /\ selected # {}
        /\ \/ Live(i) = {} /\ Begin(r, "told", {i}, Posting(Fresh, r, row))
           \/ /\ \E k \in Live(i) : rows[k].cc \in selected
              /\ Begin(r, "told", {i}, [Fresh EXCEPT !.pc = "again", !.id = i])
        /\ known' = known \cup {i}
        /\ UNCHANGED <<rows, study>>

\* One that is gone by now (NullPointerException) or has no PO number is not closed.
Close(r) ==
  LET numbered == {k \in Live(req[r].id) : rows[k].po # NoPO}
  IN  /\ At(r, "again", "told")
      /\ IF numbered = {} THEN Become(r, Done)
         ELSE \E k \in numbered : Become(r, Posting(req[r], k, [rows[k] EXCEPT !.st = "Closed"]))
      /\ UNCHANGED <<rows, study, known, upset>>

\* DeleteStudyPrjFromBudget: the project is looked up ...
AskedToRemove(r) ==
  \E i \in StudyIds, list \in CenterLists, mapped \in SUBSET Centers :
    LET selected == Selected(list, mapped)
    IN  /\ study[i] = "on"
        /\ \E k \in Live(i) : rows[k].cc \in selected
        /\ \E n \in DOMAIN list :
             /\ list[n] \in selected /\ \A m \in DOMAIN list : m > n => list[m] \notin selected
             /\ Begin(r, "remove", {i},
                  [Fresh EXCEPT !.pc = "again", !.id = i, !.maps = selected, !.last = list[n]])
        /\ UNCHANGED <<rows, study, known>>

\* Rows as a map may hold them: one of each id in S.
OneEach(S) == {L \in SUBSET S :
  {rows[k].id : k \in L} = {rows[k].id : k \in S} /\ \A k, l \in L : rows[k].id = rows[l].id => k = l}

\* ... and loaded again, with all maps of the cost centers of the call.  Only the last of these
\* is searched for rows to disable, but for all whose id contains the asked one: rows of other
\* projects may be disabled with it, or instead, and with none in it the answer is a success as
\* well.  All are refused when one of them is of another owner, not new, numbered, or older
\* than the benchmark, unless an administrator asks.
RemoveFound(r) ==
  LET q == req[r]
      found == {k \in Live(q.id) : rows[k].cc \in q.maps}
      last == {k \in UNION {Live(i) : i \in Within[q.id]} : rows[k].cc = q.last}
      things == q.about \cup {rows[k].id : k \in last}
  IN  /\ At(r, "again", "remove")
      /\ \/ Become(r, Done) /\ UNCHANGED <<study, upset>>
         \/ /\ found # {}
            /\ study' = [study EXCEPT ![q.id] = "off"]
            /\ \/ last = {} /\ Become(r, Done) /\ upset' = upset \cup q.about
               \/ \E L \in OneEach(last) : \E k \in L :
                    /\ Become(r, [Disabling(q, k) EXCEPT !.off = L \ {k}, !.about = things])
                    /\ upset' = IF things = q.about THEN upset
                                ELSE upset \cup things \cup UNION {req[s].about : s \in Others(things)}
      /\ UNCHANGED <<rows, known>>

-----------------------------------------------------------------------------

\* What a request does once it has begun, unless something is lost.
Proceed(r) ==
  Store(r) \/ CheckPO(r) \/ InitiateAnswered(r) \/ DisableAnswered(r) \/ Close(r) \/ RemoveFound(r)

StudyNext ==
  \E r \in Requests :
    \/ Create(r) \/ EditPO(r) \/ Initiate(r) \/ DisableDummy(r) \/ Disable(r) \/ Told(r) \/ AskedToRemove(r)
    \/ Proceed(r) \/ Lose(r)

\* A handler that has begun runs to its end, and a post is delivered or lost.
StudySpec ==
  /\ StudyInit /\ [][StudyNext]_studyVars
  /\ \A r \in Requests : WF_studyVars(Proceed(r))

-----------------------------------------------------------------------------
(* Properties.                                                              *)

\* Types of the variables.
StudyTypeOK ==
  /\ rows \in [Keys -> Row \cup {None}]
  /\ study \in [StudyIds -> {"none", "on", "off"}]
  /\ req \in [Requests -> Request]
  /\ known \subseteq Ids
  /\ upset \subseteq Ids \cup POs

\* Unless two requests about a project were under way at a time, or a post or an answer
\* about it was lost, or the study system had a project removed by a user of several cost centers
\* or one whose id is part of another's: it has one row, ...
OneRowEach == \A i \in Ids \ upset : \A k, l \in Live(i) : k = l

\* ... it is here while the study system has it, and gone when that has taken it off.
SameOnBothSides == \A i \in (StudyIds \cap known) \ upset :
  Others({i}) = {} => (Live(i) # {} <=> study[i] = "on")

\* However initiations, disablings and calls of the study system follow each other, refused
\* or not, both systems have the same projects when nothing is under way.
SystemsAgree == OneRowEach /\ SameOnBothSides

\* Two projects have one PO number only when both were being given it at a time, or requests
\* about one of them got in each other's way: a closed, disabled, renamed or refused project
\* neither loses its number to another nor brings one back.
OneProjectPerPO == \A k, l \in UNION {Live(i) : i \in Ids} :
  (k # l /\ rows[k].po = rows[l].po /\ rows[k].po # NoPO)
    => {rows[k].po, rows[k].id, rows[l].id} \cap upset # {}

\* A project that the study system has taken off is disabled here in the end, whatever its
\* status here, unless the answer or the post was lost or another request interfered.
DisabledInTheEnd == \A i \in StudyIds :
  study[i] = "off" ~> (Live(i) = {} \/ i \in upset)
=============================================================================
