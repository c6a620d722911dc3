-------------------------- MODULE StudyExchangeProofs --------------------------
(***************************************************************************)
(* Theorems about StudyExchange, for any ids, PO numbers, cost centers and *)
(* tables to start with, and any number of requests under way at a time,   *)
(* and about the generator of the ids that projects get here until the     *)
(* study system gives them one (ProjectSequence).                          *)
(***************************************************************************)
EXTENDS StudyExchange, ProjectSequence, SequenceTheorems, TLAPS

-----------------------------------------------------------------------------
(* The inductive invariant.  It says of every request under way what it    *)
(* knows of its project, and that this is still true unless its project is *)
(* upset.                                                                  *)

Things(q) == q.about \cap Ids
Held(q) == q.pc \in {"check", "store"}
Calm(q) == Things(q) \cap upset = {}

\* What a request is about: its own project, under all ids it has or will have, and the
\* number it was given.
Shape(r, q) ==
  /\ q.pc \in {"idle", "done"} => q.about = {}
  /\ rows[r] # None => q.pc = "done"
  /\ q.pc = "check" => /\ q.op = "po" /\ q.po \in (q.about \cap POs) \cup {NoPO}
                       /\ q.key # r /\ q.row.st # "Disabled"
  /\ q.pc = "answer" =>
       \/ /\ q.op = "initiate" /\ q.id \in Dummies /\ q.about = {q.id, q.to} \ {None}
          /\ q.to # None => study[q.to] # "none"
       \/ q.op = "disable" /\ q.id \in StudyIds /\ q.about = {q.id}
  /\ q.pc = "again" => q.op \in {"told", "remove"} /\ q.id \in StudyIds /\ q.about = {q.id}
  /\ Held(q) => /\ q.key \in Keys /\ q.row \in Row
                /\ q.row.id \in q.about \cap known
                /\ Calm(q) => q.about \cap StudyIds \subseteq {q.row.id}
                /\ Calm(q) /\ q.op # "initiate" => Things(q) = {q.row.id}
                /\ q.key = r => rows[r] = None
                /\ q.key # r => rows[q.key] # None
                /\ q.row.st = "New" => q.row.po = NoPO

\* The row a request is going to replace is the one it is about, or both are upset.
Guarded(q) == Held(q) /\ rows[q.key] # None =>
  rows[q.key].id \in q.about \/ {rows[q.key].id} \cup Things(q) \subseteq upset

\* That row is the only one of the project, and it is as it was when it was loaded.
Current(r, q) == Held(q) /\ Calm(q) =>
  /\ \A i \in Things(q) : Live(i) \subseteq {q.key}
  /\ q.key # r => rows[q.key].st # "Disabled"
  /\ q.pc = "check" => q.row = rows[q.key]
  /\ q.pc = "store" /\ q.row.st # "Disabled" /\ q.row.po \notin q.about \cup {NoPO}
       => q.key # r /\ rows[q.key].po = q.row.po

\* Both systems have the project, or neither has.
Same(i) == i \in known => (Live(i) # {} <=> study[i] = "on")

\* They will have when the request has been stored.
Right(q) == \A i \in (q.about \cap StudyIds) \ upset :
  /\ q.pc \in {"check", "again"} => Same(i)
  /\ q.pc = "answer" /\ q.op = "initiate" => i \notin known /\ Live(i) = {} /\ study[i] = "on"
  /\ q.pc = "answer" /\ q.op = "disable" => IF q.ok THEN study[i] = "off" ELSE Same(i)
  /\ q.pc = "store" => (q.row.st = "Disabled" <=> study[i] # "on")

\* The PO number p is about to be stored with a project.
Gives(q, p) == q.pc = "store" /\ q.row.st # "Disabled" /\ q.row.id \notin upset /\ q.row.po = p

\* No other project has it.
Alone(q) == \A p \in POs \ upset : Gives(q, p) =>
  \A l \in Keys : (rows[l] # None /\ rows[l].st # "Disabled" /\ rows[l].po = p /\ l # q.key)
                    => rows[l].id \in upset

Sound(r, q) == Shape(r, q) /\ Guarded(q) /\ Current(r, q) /\ Right(q) /\ Alone(q)

\* Two requests about one project are upset, and all they are about.
Overlap == \A r, s \in Requests : r # s => Conflict(req[r].about, req[s].about) \subseteq upset
Whole == \A r \in Requests : Calm(req[r]) \/ Things(req[r]) \subseteq upset

Known ==
  /\ \A k \in Keys : rows[k] # None =>
       rows[k].id \in known /\ (rows[k].st = "New" => rows[k].po = NoPO)
  /\ \A i \in StudyIds \cap known : study[i] # "none"

Settled == \A i \in StudyIds \ upset : (\A r \in Requests : i \notin req[r].about) => Same(i)

NotBoth == \A r, s \in Requests : r # s =>
  \A p \in POs \ upset : ~(Gives(req[r], p) /\ Gives(req[s], p))

StudyInv ==
  /\ StudyTypeOK /\ Overlap /\ Whole /\ Known /\ Settled /\ NotBoth
  /\ OneRowEach /\ OneProjectPerPO
  /\ \A r \in Requests : Sound(r, req[r])

\* The rows that are going to be disabled along with another one are those of upset projects.
Along == \A r \in Requests :
  /\ req[r].pc # "store" => req[r].off = {}
  /\ \A k \in req[r].off : rows[k] # None /\ rows[k].id \in upset

-----------------------------------------------------------------------------
(* Rows and requests.                                                       *)

\* A row that a load returns.
LEMMA LiveRow ==
  ASSUME StudyTypeOK, NEW i \in Ids, NEW k \in Live(i)
  PROVE  k \in Keys /\ rows[k] \in Row /\ rows[k] # None /\ rows[k].id = i /\ rows[k].st # "Disabled"
  BY DEF Live, StudyTypeOK

\* A request that has not begun, and one that has ended.
LEMMA FreshFields ==
  /\ Fresh \in Request /\ Fresh.pc = "idle" /\ Fresh.about = {}
  /\ Done \in Request /\ Done.pc = "done" /\ Done.about = {}
  BY StudyAssumption DEF Fresh, Done, Request

\* Posting a row changes nothing else of a request.
LEMMA PostingFields ==
  ASSUME NEW q \in Request, NEW key \in Keys, NEW row \in Row
  PROVE  LET p == Posting(q, key, row)
         IN  /\ p \in Request /\ p.pc = "store" /\ p.key = key /\ p.row = row
             /\ p.op = q.op /\ p.about = q.about /\ p.off = q.off
  BY DEF Posting, Request

\* A request that begins gets a name and what it is about.
Named(q, op, things) == [q EXCEPT !.op = op, !.about = things]

\* Nothing else of it changes.
LEMMA BeginFields ==
  ASSUME NEW q \in Request, NEW op \in Ops, NEW things \in SUBSET (Ids \cup POs)
  PROVE  LET p == Named(q, op, things)
         IN  /\ p \in Request /\ p.op = op /\ p.about = things
             /\ p.pc = q.pc /\ p.key = q.key /\ p.row = q.row /\ p.id = q.id /\ p.to = q.to
             /\ p.po = q.po /\ p.ok = q.ok
  BY DEF Named, Request

\* The same rows, the same loads.
LEMMA LiveSame == ASSUME NEW i \in Ids, rows' = rows PROVE Live(i)' = Live(i)
  BY DEF Live

\* The row of a calm request is not the row of another one.
LEMMA Apart ==
  ASSUME StudyInv, NEW r \in Requests, NEW s \in Requests, r # s, Held(req[r]), Held(req[s]),
         Calm(req[r]), req[r].key = req[s].key
  PROVE  FALSE
<1>1. rows[req[r].key] # None
  BY DEF StudyInv, Sound, Shape
<1>2. req[r].row.id \in Things(req[r]) /\ req[s].row.id \in Things(req[s])
  BY DEF StudyInv, Sound, Shape, Things, Row
<1>3. rows[req[r].key].id \in Ids
  BY <1>1 DEF StudyInv, Sound, Shape, StudyTypeOK, Row
<1>4. rows[req[r].key].id \in Things(req[r]) /\ rows[req[r].key].id \notin upset
  BY <1>1, <1>2, <1>3 DEF StudyInv, Sound, Guarded, Calm, Things
<1>5. rows[req[r].key].id \in Things(req[s])
  BY <1>1, <1>3, <1>4 DEF StudyInv, Sound, Guarded, Things
<1>6. Things(req[r]) \subseteq upset
  BY <1>4, <1>5 DEF StudyInv, Overlap, Conflict, Things
<1> QED
  BY <1>4, <1>6

-----------------------------------------------------------------------------
(* A step that stores nothing.                                              *)

\* What a request that begins makes upset.
LEMMA BeginUpset ==
  ASSUME StudyInv, NEW r \in Requests, NEW op, NEW things \in SUBSET (Ids \cup POs), NEW q,
         Begin(r, op, things, q)
  PROVE  /\ req[r].pc = "idle" /\ req[r].about = {} /\ op \in Ops
         /\ upset \subseteq upset' /\ upset' \subseteq Ids \cup POs
         /\ \A s \in Requests : s # r => Conflict(things, req[s].about) \subseteq upset'
         /\ things \cap Ids \cap upset' = {} \/ things \cap Ids \subseteq upset'
         /\ \A s \in Requests : s # r =>
              Things(req[s]) \cap upset' = {} \/ Things(req[s]) \subseteq upset'
<1>1. req[r].pc = "idle" /\ req[r].about = {} /\ op \in Ops
  BY FreshFields DEF Begin
<1>2. upset' = upset \cup (UNION {Conflict(things, req[s].about) : s \in Others(things)})
                 \cup (IF things \cap Ids \cap upset = {} THEN {} ELSE things \cap Ids)
  BY DEF Begin
<1>u. ASSUME NEW x
      PROVE  x \in upset' <=> \/ x \in upset
                              \/ \E s \in Others(things) : x \in Conflict(things, req[s].about)
                              \/ things \cap Ids \cap upset # {} /\ x \in things \cap Ids
  <2> DEFINE C == {Conflict(things, req[s].about) : s \in Others(things)}
             T == IF things \cap Ids \cap upset = {} THEN {} ELSE things \cap Ids
  <2>1. x \in UNION C <=> \E s \in Others(things) : x \in Conflict(things, req[s].about)
    OBVIOUS
  <2>2. upset' = upset \cup (UNION C) \cup T
    BY <1>2
  <2>3. x \in T <=> things \cap Ids \cap upset # {} /\ x \in things \cap Ids
    OBVIOUS
  <2> HIDE DEF C, T
  <2> QED
    BY <2>1, <2>2, <2>3
<1>3. \A s \in Requests : req[s].about \subseteq Ids \cup POs
  BY DEF StudyInv, StudyTypeOK, Request
<1>4. upset \subseteq upset' /\ upset' \subseteq Ids \cup POs
  BY <1>3, <1>u DEF Conflict, Others, StudyInv, StudyTypeOK
<1>5. ASSUME NEW s \in Requests, s # r PROVE Conflict(things, req[s].about) \subseteq upset'
  <2>1. CASE s \in Others(things)
    BY <1>u, <2>1
  <2>2. CASE s \notin Others(things)
    BY <2>2 DEF Others, Conflict
  <2> QED
    BY <2>1, <2>2
<1>6. ASSUME NEW x \in things \cap Ids \cap upset' PROVE things \cap Ids \subseteq upset'
  <2>1. CASE x \in upset
    BY <1>6, <1>u, <2>1
  <2>2. CASE x \notin upset
    <3>1. CASE things \cap Ids \cap upset # {}
      BY <1>u, <3>1
    <3>2. CASE things \cap Ids \cap upset = {}
      <4>1. PICK s \in Others(things) : x \in Conflict(things, req[s].about)
        BY <1>6, <1>u, <2>2, <3>2
      <4>2. things \cap req[s].about \cap Ids # {}
        BY <1>6, <4>1 DEF Conflict
      <4> QED
        BY <1>u, <4>1, <4>2 DEF Conflict
    <3> QED
      BY <3>1, <3>2
  <2> QED
    BY <2>1, <2>2
<1>7. ASSUME NEW s \in Requests, s # r, NEW x \in Things(req[s]) \cap upset'
      PROVE  Things(req[s]) \subseteq upset'
  <2>1. CASE x \in upset
    BY <1>4, <1>7, <2>1 DEF StudyInv, Whole, Calm
  <2>2. CASE x \in things
    BY <1>5, <1>7, <2>2 DEF Conflict, Things
  <2>3. CASE x \notin upset \cup things
    <3>1. PICK t \in Others(things) : x \in Conflict(things, req[t].about)
      BY <1>7, <1>u, <2>3
    <3>2. things \cap req[t].about \cap Ids # {} /\ x \in req[t].about /\ t \in Requests
      BY <2>3, <3>1 DEF Conflict, Others
    <3>3. CASE t = s
      BY <1>u, <3>1, <3>2, <3>3 DEF Conflict, Things
    <3>4. CASE t # s
      BY <1>7, <2>3, <3>2, <3>4 DEF StudyInv, Overlap, Conflict, Things
    <3> QED
      BY <3>3, <3>4
  <2> QED
    BY <2>1, <2>2, <2>3
<1> QED
  BY <1>1, <1>4, <1>5, <1>6, <1>7

\* A step of one request that stores nothing disturbs no other request, unless both are upset.
LEMMA Change ==
  ASSUME StudyInv, NEW r \in Requests, NEW q,
         StudyTypeOK', Become(r, q), rows' = rows,
         upset \subseteq upset', known \subseteq known',
         \A i \in StudyIds : study[i] # "none" => study'[i] # "none",
         \A i \in StudyIds : \/ study'[i] = study[i] /\ (i \in known' => i \in known)
                             \/ i \in q.about \cup req[r].about,
         \A s \in Requests : s # r => Conflict(q.about, req[s].about) \subseteq upset',
         Things(q) \cap upset' = {} \/ Things(q) \subseteq upset',
         \A s \in Requests : s # r =>
           Things(req[s]) \cap upset' = {} \/ Things(req[s]) \subseteq upset',
         Sound(r, q)',
         \A s \in Requests : s # r => \A p \in POs \ upset' : ~(Gives(q, p)' /\ Gives(req[s], p)'),
         \A i \in StudyIds \cap known' : study'[i] # "none",
         \A i \in (StudyIds \cap req[r].about) \ upset' : i \notin q.about => Same(i)'
  PROVE  StudyInv'
<1>0. StudyIds \subseteq Ids
  BY DEF Ids
<1>1. req'[r] = q /\ \A s \in Requests : s # r => req'[s] = req[s]
  BY DEF Become, StudyInv, StudyTypeOK
<1>2. \A i \in Ids : Live(i)' = Live(i)
  BY LiveSame
<1>3. Overlap'
  BY <1>1 DEF StudyInv, Overlap, Conflict
<1>4. Whole'
  BY <1>1 DEF Whole, Calm, Things
<1>5. Known'
  BY DEF StudyInv, Known
<1>6. OneRowEach' /\ OneProjectPerPO'
  BY <1>2 DEF StudyInv, OneRowEach, OneProjectPerPO
<1>7. ASSUME NEW i \in StudyIds \ upset', Same(i),
             study'[i] = study[i] /\ (i \in known' => i \in known)
      PROVE  Same(i)'
  BY <1>0, <1>2, <1>7 DEF Same
<1>8. Settled'
  <2> SUFFICES ASSUME NEW i \in StudyIds \ upset', \A s \in Requests : i \notin req'[s].about
               PROVE  Same(i)'
    BY DEF Settled
  <2>1. i \notin q.about /\ \A s \in Requests : s # r => i \notin req[s].about
    BY <1>1
  <2>2. CASE i \in req[r].about
    BY <2>1, <2>2
  <2>3. CASE i \notin req[r].about
    BY <1>7, <2>1, <2>3 DEF StudyInv, Settled
  <2> QED
    BY <2>2, <2>3
<1>9. NotBoth'
  <2>1. \A s, t \in Requests : s # r /\ t # r /\ s # t =>
          \A p \in POs \ upset' : ~(Gives(req[s], p)' /\ Gives(req[t], p)')
    BY <1>1 DEF StudyInv, NotBoth, Gives
  <2>2. \A p : Gives(q, p)' <=> Gives(req[r], p)'
    BY <1>1 DEF Gives
  <2> QED
    BY <1>1, <2>1, <2>2 DEF NotBoth, Gives
<1>10. ASSUME NEW s \in Requests PROVE Sound(s, req[s])'
  <2>1. CASE s = r
    BY <1>1, <2>1 DEF Sound, Shape, Guarded, Current, Right, Alone, Held, Things, Calm, Gives
  <2>2. CASE s # r
    <3> USE <1>1, <2>2
    <3>0. Sound(s, req[s])
      BY DEF StudyInv
    <3>1. Shape(s, req[s])'
      <4>1. Calm(req[s])' => Calm(req[s])
        BY DEF Calm, Things
      <4> QED
        BY <3>0, <4>1 DEF Sound, Shape, Held, Things, StudyInv, StudyTypeOK, Request
    <3>2. Guarded(req[s])'
      BY <3>0 DEF Sound, Guarded, Held, Things
    <3>3. Current(s, req[s])'
      BY <1>2, <3>0 DEF Sound, Current, Held, Calm, Things
    <3>4. Right(req[s])'
      <4>1. ASSUME NEW i \in (req[s].about \cap StudyIds) \ upset'
            PROVE  /\ study'[i] = study[i] /\ (i \in known' => i \in known)
                   /\ Live(i)' = Live(i) /\ (Same(i) => Same(i)')
        <5>1. i \notin q.about
          BY <1>0, <4>1 DEF Conflict
        <5>2. i \notin req[r].about
          BY <1>0, <4>1 DEF StudyInv, Overlap, Conflict
        <5> QED
          BY <1>0, <1>2, <1>7, <4>1, <5>1, <5>2
      <4> QED
        BY <3>0, <4>1 DEF Sound, Right
    <3>5. Alone(req[s])'
      BY <3>0 DEF Sound, Alone, Gives
    <3> QED
      BY <3>1, <3>2, <3>3, <3>4, <3>5 DEF Sound
  <2> QED
    BY <2>1, <2>2
<1> QED
  BY <1>3, <1>4, <1>5, <1>6, <1>8, <1>9, <1>10 DEF StudyInv

-----------------------------------------------------------------------------
(* What a request may rely on.                                              *)

\* No live project has a number that is not taken.
LEMMA NotTaken ==
  ASSUME StudyInv, NEW p \in POs, ~POTaken(p), NEW l \in Keys, rows[l] # None, rows[l].st # "Disabled"
  PROVE  rows[l].po # p
  BY StudyAssumption DEF StudyInv, Known, POTaken

\* Only a request about such a number is about to store it.
LEMMA NotTakenNorGiven ==
  ASSUME StudyInv, NEW p \in POs, ~POTaken(p), NEW s \in Requests, Gives(req[s], p)
  PROVE  p \in req[s].about
<1>1. Held(req[s]) /\ req[s].row.id \in Things(req[s]) /\ req[s].row.id \notin upset
  BY DEF Gives, Held, StudyInv, Sound, Shape, Row, Things
<1>2. Calm(req[s])
  BY <1>1 DEF StudyInv, Whole
<1> SUFFICES ASSUME p \notin req[s].about PROVE FALSE
  OBVIOUS
<1>3. req[s].key # s /\ rows[req[s].key].po = p /\ rows[req[s].key].st # "Disabled"
  BY <1>1, <1>2, StudyAssumption DEF StudyInv, Sound, Current, Gives
<1>4. req[s].key \in Keys /\ rows[req[s].key] # None
  BY <1>1, <1>3 DEF StudyInv, Sound, Shape
<1> QED
  BY <1>3, <1>4, NotTaken

\* The number that a calm request finds with its project is neither that of another one nor
\* about to be.
LEMMA OwnNumber ==
  ASSUME StudyInv, NEW r \in Requests, Calm(req[r]), NEW k \in Keys, rows[k] # None,
         rows[k].st # "Disabled", rows[k].id \in req[r].about,
         NEW p \in POs \ upset, rows[k].po = p
  PROVE  /\ \A l \in Keys : (rows[l] # None /\ rows[l].st # "Disabled" /\ rows[l].po = p /\ l # k)
                              => rows[l].id \in upset
         /\ \A s \in Requests : s # r => ~Gives(req[s], p)
<1>1. rows[k].id \in Ids /\ rows[k].id \notin upset /\ rows[k].id \in Things(req[r])
  BY DEF StudyInv, StudyTypeOK, Row, Calm, Things
<1>2. ASSUME NEW l \in Keys, rows[l] # None, rows[l].st # "Disabled", rows[l].po = p, l # k
      PROVE  rows[l].id \in upset
  <2>1. rows[l].id \in Ids /\ l \in Live(rows[l].id) /\ k \in Live(rows[k].id)
    BY <1>1, <1>2 DEF Live, StudyInv, StudyTypeOK, Row
  <2> QED
    BY <1>1, <1>2, <2>1, StudyAssumption DEF StudyInv, OneProjectPerPO
<1>3. ASSUME NEW s \in Requests, s # r, Gives(req[s], p) PROVE FALSE
  <2>1. Held(req[s]) /\ req[s].row.id \in Things(req[s]) /\ req[s].row.id \notin upset
    BY <1>3 DEF Gives, Held, StudyInv, Sound, Shape, Row, Things
  <2>2. Calm(req[s])
    BY <2>1 DEF StudyInv, Whole
  <2>3. req[s].key = k
    BY <1>1, <1>3 DEF StudyInv, Sound, Alone
  <2>4. rows[k].id \in req[s].about
    BY <1>1, <2>1, <2>3 DEF StudyInv, Sound, Guarded
  <2> QED
    BY <1>1, <1>3, <2>4 DEF StudyInv, Overlap, Conflict
<1> QED
  BY <1>2, <1>3

\* A request that begins.
LEMMA Begun ==
  ASSUME StudyInv, NEW r \in Requests, NEW op, NEW things \in SUBSET (Ids \cup POs),
         NEW q0, Begin(r, op, things, q0), NEW q \in Request, q.about = things,
         Become(r, q), rows' = rows,
         known \subseteq known', known' \subseteq Ids, study' \in [StudyIds -> {"none", "on", "off"}],
         \A i \in StudyIds : study[i] # "none" => study'[i] # "none",
         \A i \in StudyIds : (study'[i] = study[i] /\ (i \in known' => i \in known)) \/ i \in things,
         \A i \in StudyIds \cap known' : study'[i] # "none",
         Sound(r, q)',
         \A s \in Requests : s # r => \A p \in POs \ upset' : ~(Gives(q, p)' /\ Gives(req[s], p)')
  PROVE  StudyInv'
<1>1. /\ req[r].about = {} /\ op \in Ops /\ upset \subseteq upset' /\ upset' \subseteq Ids \cup POs
      /\ \A s \in Requests : s # r => Conflict(things, req[s].about) \subseteq upset'
      /\ things \cap Ids \cap upset' = {} \/ things \cap Ids \subseteq upset'
      /\ \A s \in Requests : s # r =>
           Things(req[s]) \cap upset' = {} \/ Things(req[s]) \subseteq upset'
  BY BeginUpset
<1>2. StudyTypeOK'
  BY <1>1 DEF Become, StudyInv, StudyTypeOK
<1>3. Things(q) \cap upset' = {} \/ Things(q) \subseteq upset'
  BY <1>1 DEF Things
<1>4. \A s \in Requests : s # r => Conflict(q.about, req[s].about) \subseteq upset'
  BY <1>1
<1>5. \A i \in StudyIds : \/ study'[i] = study[i] /\ (i \in known' => i \in known)
                          \/ i \in q.about \cup req[r].about
  OBVIOUS
<1>6. \A i \in (StudyIds \cap req[r].about) \ upset' : i \notin q.about => Same(i)'
  BY <1>1
<1>7. upset \subseteq upset'
  BY <1>1
<1>8. \A s \in Requests : s # r =>
         Things(req[s]) \cap upset' = {} \/ Things(req[s]) \subseteq upset'
  BY <1>1
<1> QED
  BY ONLY StudyInv, r \in Requests, rows' = rows, Become(r, q), known \subseteq known', Sound(r, q)',
          \A i \in StudyIds : study[i] # "none" => study'[i] # "none",
          \A i \in StudyIds \cap known' : study'[i] # "none",
          \A s \in Requests : s # r =>
            \A p \in POs \ upset' : ~(Gives(q, p)' /\ Gives(req[s], p)'),
          <1>2, <1>3, <1>4, <1>5, <1>6, <1>7, <1>8, Change

\* Until it begins nobody is about its project, if that is calm.
LEMMA Unshared ==
  ASSUME StudyInv, NEW r \in Requests, NEW op, NEW things \in SUBSET (Ids \cup POs), NEW q,
         Begin(r, op, things, q)
  PROVE  /\ rows[r] = None
         /\ \A i \in (StudyIds \cap things) \ upset' : i \notin upset /\ Same(i)
         /\ \A i \in (Ids \cap things) \ upset' : i \notin upset /\ \A k, l \in Live(i) : k = l
         /\ \A p \in things \ upset' : \A s \in Requests : s # r => p \notin req[s].about
<1>1. /\ req[r].pc = "idle" /\ req[r].about = {} /\ upset \subseteq upset'
      /\ \A s \in Requests : s # r => Conflict(things, req[s].about) \subseteq upset'
  BY BeginUpset
<1>2. rows[r] = None
  BY <1>1 DEF StudyInv, Sound, Shape
<1>3. \A p \in things \ upset' : \A s \in Requests : s # r => p \notin req[s].about
  BY <1>1 DEF Conflict
<1>4. \A i \in (StudyIds \cap things) \ upset' : i \notin upset /\ Same(i)
  BY <1>1, <1>3 DEF StudyInv, Settled
<1> QED
  BY <1>1, <1>2, <1>3, <1>4 DEF StudyInv, OneRowEach

-----------------------------------------------------------------------------
(* The actions that begin a request.                                        *)

\* A new project gets an id that no row has, and a number that nobody has or is to get.
LEMMA CreateStep == ASSUME StudyInv, NEW r \in Requests, Create(r) PROVE StudyInv'
<1>1. PICK d \in Dummies \ known, p \in POs \cup {NoPO}, c \in Centers :
        LET row == [id |-> d, st |-> IF p = NoPO THEN "New" ELSE "Active", po |-> p, cc |-> c]
        IN  /\ p = NoPO \/ ~POTaken(p)
            /\ Begin(r, "create", {d, p} \ {NoPO}, Posting(Fresh, r, row))
            /\ known' = known \cup {d}
            /\ UNCHANGED <<rows, study>>
  BY DEF Create
<1>2. PICK row : row = [id |-> d, st |-> IF p = NoPO THEN "New" ELSE "Active", po |-> p, cc |-> c]
  OBVIOUS
<1>3. PICK things : things = {d, p} \ {NoPO}
  OBVIOUS
<1>4. /\ row \in Row /\ row.id = d /\ row.po = p /\ (row.st = "New" <=> p = NoPO) /\ row.st # "Disabled"
      /\ r \in Keys /\ d \in Ids /\ d \notin StudyIds
  BY <1>2, StudyAssumption DEF Row, Ids, Keys
<1>5. things \in SUBSET (Ids \cup POs) /\ things \cap Ids = {d} /\ things \cap StudyIds = {}
  BY <1>3, <1>4, StudyAssumption DEF Ids
<1>6. PICK q0 : q0 = Posting(Fresh, r, row)
  OBVIOUS
<1>7. /\ q0 \in Request /\ q0.pc = "store" /\ q0.key = r /\ q0.row = row
  BY <1>4, <1>6, FreshFields, PostingFields
<1>8. /\ Begin(r, "create", things, q0) /\ (p = NoPO \/ ~POTaken(p))
      /\ known' = known \cup {d} /\ rows' = rows /\ study' = study
  BY <1>1, <1>2, <1>3, <1>6
<1>9. PICK q : q = Named(q0, "create", things)
  OBVIOUS
<1>10. "create" \in Ops /\ upset \subseteq upset'
  BY <1>5, <1>8, BeginUpset
<1>11. /\ q \in Request /\ q.pc = "store" /\ q.op = "create" /\ q.about = things /\ q.key = r
       /\ q.row = row
  BY <1>5, <1>7, <1>9, <1>10, BeginFields
<1>11a. Become(r, q)
  BY <1>8, <1>9 DEF Begin, Become, Named
<1>12. rows[r] = None /\ \A x \in things \ upset' : \A s \in Requests : s # r => x \notin req[s].about
  BY <1>5, <1>8, Unshared
<1>13. Live(d) = {}
  BY DEF Live, StudyInv, Known
<1>14. Sound(r, q)'
  <2>1. Shape(r, q)'
    BY <1>4, <1>5, <1>8, <1>11, <1>12 DEF Shape, Held, Things
  <2>2. Guarded(q)'
    BY <1>8, <1>11, <1>12 DEF Guarded
  <2>3. Current(r, q)'
    BY <1>3, <1>4, <1>5, <1>8, <1>11, <1>13, LiveSame DEF Current, Things
  <2>4. Right(q)'
    BY <1>5, <1>11 DEF Right
  <2>5. Alone(q)'
    BY <1>4, <1>8, <1>11, NotTaken, StudyAssumption DEF Alone, Gives
  <2> QED
    BY <2>1, <2>2, <2>3, <2>4, <2>5 DEF Sound
<1>15. \A s \in Requests : s # r => \A n \in POs \ upset' : ~(Gives(q, n)' /\ Gives(req[s], n)')
  <2> SUFFICES ASSUME NEW s \in Requests, s # r, NEW n \in POs \ upset', Gives(q, n)', Gives(req[s], n)'
               PROVE  FALSE
    OBVIOUS
  <2>1. n = p /\ n # NoPO /\ n \in things
    BY <1>3, <1>4, <1>11, StudyAssumption DEF Gives
  <2>2. Gives(req[s], n)
    BY <1>8, <1>10 DEF Gives, Begin, StudyInv, StudyTypeOK
  <2> QED
    BY <1>8, <1>12, <2>1, <2>2, NotTakenNorGiven
<1>16. known \subseteq known' /\ known' \subseteq Ids /\ study' \in [StudyIds -> {"none", "on", "off"}]
  BY <1>4, <1>8 DEF StudyInv, StudyTypeOK
<1>17. \A i \in StudyIds : study[i] # "none" => study'[i] # "none"
  BY <1>8
<1>18. \A i \in StudyIds : (study'[i] = study[i] /\ (i \in known' => i \in known)) \/ i \in things
  BY <1>4, <1>8
<1>19. \A i \in StudyIds \cap known' : study'[i] # "none"
  BY <1>4, <1>8 DEF StudyInv, Known
<1> QED
  BY ONLY StudyInv, r \in Requests, <1>5, <1>8, <1>11, <1>11a, <1>14, <1>15, <1>16, <1>17, <1>18, <1>19, Begun

\* A request that has only begun to look or to call relies on its project alone.
LEMMA NothingHeld ==
  ASSUME NEW r, NEW q, q.pc \in {"answer", "again"}
  PROVE  Guarded(q)' /\ Current(r, q)' /\ Alone(q)' /\ \A p : ~Gives(q, p)'
  BY DEF Guarded, Current, Alone, Gives, Held

\* The row to be edited is the only one of its project.
LEMMA EditPOStep == ASSUME StudyInv, NEW r \in Requests, EditPO(r) PROVE StudyInv'
<1>1. PICK i \in Ids, p \in POs \cup {NoPO} : \E k \in Live(i) :
        /\ Begin(r, "po", {i, p} \ {NoPO}, [Fresh EXCEPT !.pc = "check", !.po = p, !.key = k, !.row = rows[k]])
        /\ UNCHANGED <<rows, study, known>>
  BY DEF EditPO
<1>2. PICK k \in Live(i) :
        /\ Begin(r, "po", {i, p} \ {NoPO}, [Fresh EXCEPT !.pc = "check", !.po = p, !.key = k, !.row = rows[k]])
        /\ UNCHANGED <<rows, study, known>>
  BY <1>1
<1>3. PICK things, row, q0 : things = {i, p} \ {NoPO} /\ row = rows[k]
        /\ q0 = [Fresh EXCEPT !.pc = "check", !.po = p, !.key = k, !.row = row]
  OBVIOUS
<1>4. /\ k \in Keys /\ row \in Row /\ row # None /\ row.id = i /\ row.st # "Disabled" /\ i \in known
      /\ row.st = "New" => row.po = NoPO
  BY <1>3, LiveRow DEF StudyInv, Known
<1>5. things \in SUBSET (Ids \cup POs) /\ things \cap Ids = {i} /\ things \cap StudyIds \subseteq {i}
  BY <1>3, StudyAssumption DEF Ids
<1>6. Begin(r, "po", things, q0) /\ rows' = rows /\ study' = study /\ known' = known
  BY <1>2, <1>3
<1>7. "po" \in Ops
  BY <1>5, <1>6, BeginUpset
<1>8. q0 \in Request /\ q0.pc = "check" /\ q0.po = p /\ q0.key = k /\ q0.row = row
  <2>1. PICK f : f = Fresh
    OBVIOUS
  <2>2. f \in Request /\ q0 = [f EXCEPT !.pc = "check", !.po = p, !.key = k, !.row = row]
    BY <1>3, <2>1, FreshFields
  <2> QED
    BY <1>1, <1>4, <2>2 DEF Request
<1>9. PICK q : q = Named(q0, "po", things)
  OBVIOUS
<1>10. /\ q \in Request /\ q.pc = "check" /\ q.op = "po" /\ q.about = things /\ q.po = p
       /\ q.key = k /\ q.row = row
  BY <1>5, <1>7, <1>8, <1>9, BeginFields
<1>11. Become(r, q)
  BY <1>6, <1>9 DEF Begin, Become, Named
<1>12. /\ rows[r] = None
       /\ \A j \in (StudyIds \cap things) \ upset' : Same(j)
       /\ \A j \in (Ids \cap things) \ upset' : \A l, m \in Live(j) : l = m
  BY <1>5, <1>6, Unshared
<1>13. Sound(r, q)'
  <2>1. Shape(r, q)'
    BY <1>3, <1>4, <1>5, <1>6, <1>10, <1>12, StudyAssumption DEF Shape, Held, Things
  <2>2. Guarded(q)'
    BY <1>3, <1>4, <1>5, <1>6, <1>10 DEF Guarded
  <2>3. Current(r, q)'
    <3>1. i \notin upset' => Live(i) \subseteq {k}
      BY <1>5, <1>12
    <3> QED
      BY <1>3, <1>4, <1>5, <1>6, <1>10, <1>12, <3>1, LiveSame DEF Current, Things, Calm
  <2>4. Right(q)'
    BY <1>5, <1>6, <1>10, <1>12, LiveSame DEF Right, Same, Ids
  <2>5. Alone(q)'
    BY <1>10 DEF Alone, Gives
  <2> QED
    BY <2>1, <2>2, <2>3, <2>4, <2>5 DEF Sound
<1>14. \A s \in Requests : s # r => \A n \in POs \ upset' : ~(Gives(q, n)' /\ Gives(req[s], n)')
  BY <1>10 DEF Gives
<1>15. known \subseteq known' /\ known' \subseteq Ids /\ study' \in [StudyIds -> {"none", "on", "off"}]
  BY <1>6 DEF StudyInv, StudyTypeOK
<1>16. \A j \in StudyIds : study[j] # "none" => study'[j] # "none"
  BY <1>6
<1>17. \A j \in StudyIds : (study'[j] = study[j] /\ (j \in known' => j \in known)) \/ j \in things
  BY <1>6
<1>18. \A j \in StudyIds \cap known' : study'[j] # "none"
  BY <1>6 DEF StudyInv, Known
<1> QED
  BY ONLY StudyInv, r \in Requests, <1>5, <1>6, <1>10, <1>11, <1>13, <1>14, <1>15, <1>16, <1>17, <1>18, Begun

\* The study system makes projects under ids that nobody has used.
LEMMA InitiateStep == ASSUME StudyInv, NEW r \in Requests, Initiate(r) PROVE StudyInv'
<1>1. PICK d \in Dummies \cap known, s \in {None} \cup {i \in StudyIds : study[i] = "none"} :
        /\ study' = [i \in StudyIds |-> IF i = s THEN "on" ELSE study[i]]
        /\ Begin(r, "initiate", {d, s} \ {None}, [Fresh EXCEPT !.pc = "answer", !.id = d, !.to = s])
        /\ UNCHANGED <<rows, known>>
  BY DEF Initiate
<1>2. PICK things, q0 : things = {d, s} \ {None} /\ q0 = [Fresh EXCEPT !.pc = "answer", !.id = d, !.to = s]
  OBVIOUS
<1>3. /\ things \in SUBSET (Ids \cup POs) /\ things \cap StudyIds = {s} \ {None} /\ d \in things
      /\ d \in Ids /\ s \in StudyIds \cup {None} /\ (s # None => s \in StudyIds /\ study[s] = "none")
  BY <1>2, StudyAssumption DEF Ids, Keys
<1>4. Begin(r, "initiate", things, q0) /\ rows' = rows /\ known' = known
  BY <1>1, <1>2
<1>5. "initiate" \in Ops
  BY <1>3, <1>4, BeginUpset
<1>6. q0 \in Request /\ q0.pc = "answer" /\ q0.id = d /\ q0.to = s
  BY <1>2, <1>3, FreshFields DEF Request
<1>7. PICK q : q = Named(q0, "initiate", things)
  OBVIOUS
<1>8. q \in Request /\ q.pc = "answer" /\ q.op = "initiate" /\ q.about = things /\ q.id = d /\ q.to = s
  BY <1>3, <1>5, <1>6, <1>7, BeginFields
<1>9. Become(r, q)
  BY <1>4, <1>7 DEF Begin, Become, Named
<1>10. study' \in [StudyIds -> {"none", "on", "off"}] /\ \A i \in StudyIds : study'[i] = IF i = s THEN "on" ELSE study[i]
  BY <1>1 DEF StudyInv, StudyTypeOK
<1>11. s \in StudyIds => s \notin known /\ Live(s) = {}
  <2>1. s \in StudyIds => s \notin known
    BY <1>3, StudyAssumption DEF Ids, Keys, StudyInv, Known
  <2> QED
    BY <2>1 DEF Live, StudyInv, Known
<1>12. rows[r] = None
  BY <1>3, <1>4, Unshared
<1>13. Sound(r, q)'
  <2>1. Shape(r, q)'
    BY <1>2, <1>3, <1>4, <1>8, <1>10, <1>12 DEF Shape, Held
  <2>2. Right(q)'
    BY <1>3, <1>4, <1>8, <1>10, <1>11, LiveSame DEF Right, Ids
  <2> QED
    BY <1>8, <2>1, <2>2, NothingHeld DEF Sound
<1>14. \A t \in Requests : t # r => \A n \in POs \ upset' : ~(Gives(q, n)' /\ Gives(req[t], n)')
  BY <1>8 DEF Gives
<1>15. known \subseteq known' /\ known' \subseteq Ids
  BY <1>4 DEF StudyInv, StudyTypeOK
<1>16. \A i \in StudyIds : study[i] # "none" => study'[i] # "none"
  BY <1>10
<1>17. \A i \in StudyIds : (study'[i] = study[i] /\ (i \in known' => i \in known)) \/ i \in things
  BY <1>3, <1>4, <1>10, StudyAssumption DEF Keys, Ids
<1>18. \A i \in StudyIds \cap known' : study'[i] # "none"
  BY <1>4, <1>10 DEF StudyInv, Known
<1> QED
  BY ONLY StudyInv, r \in Requests, <1>3, <1>4, <1>8, <1>9, <1>10, <1>13, <1>14, <1>15, <1>16, <1>17, <1>18, Begun

\* The row that is disabled at once is the only one of its project.
LEMMA DisableDummyStep == ASSUME StudyInv, NEW r \in Requests, DisableDummy(r) PROVE StudyInv'
<1>1. PICK i \in Dummies : \E k \in Live(i) :
        Begin(r, "disable", {i}, Disabling(Fresh, k)) /\ UNCHANGED <<rows, study, known>>
  BY DEF DisableDummy
<1>2. PICK k \in Live(i) :
        Begin(r, "disable", {i}, Disabling(Fresh, k)) /\ UNCHANGED <<rows, study, known>>
  BY <1>1
<1>3. PICK things, row, q0 : /\ things = {i} /\ row = [rows[k] EXCEPT !.st = "Disabled"]
                             /\ q0 = Posting(Fresh, k, row)
  OBVIOUS
<1>4. i \in Ids /\ i \notin StudyIds
  BY StudyAssumption DEF Ids
<1>5. /\ k \in Keys /\ rows[k] \in Row /\ rows[k] # None /\ rows[k].id = i /\ i \in known
  BY <1>4, LiveRow DEF StudyInv, Known
<1>6. row \in Row /\ row.id = i /\ row.st = "Disabled"
  BY <1>3, <1>5 DEF Row
<1>7. things \in SUBSET (Ids \cup POs) /\ things \cap Ids = {i} /\ things \cap StudyIds = {}
  BY <1>3, <1>4
<1>8. Begin(r, "disable", things, q0) /\ rows' = rows /\ study' = study /\ known' = known
  BY <1>2, <1>3 DEF Disabling
<1>9. "disable" \in Ops
  BY <1>7, <1>8, BeginUpset
<1>10. q0 \in Request /\ q0.pc = "store" /\ q0.key = k /\ q0.row = row
  BY <1>3, <1>5, <1>6, FreshFields, PostingFields
<1>11. PICK q : q = Named(q0, "disable", things)
  OBVIOUS
<1>12. /\ q \in Request /\ q.pc = "store" /\ q.op = "disable" /\ q.about = things /\ q.key = k
       /\ q.row = row
  BY <1>7, <1>9, <1>10, <1>11, BeginFields
<1>13. Become(r, q)
  BY <1>8, <1>11 DEF Begin, Become, Named
<1>14. rows[r] = None /\ (\A j \in (Ids \cap things) \ upset' : \A l, m \in Live(j) : l = m)
  BY <1>7, <1>8, Unshared
<1>15. Sound(r, q)'
  <2>1. Shape(r, q)'
    BY <1>3, <1>5, <1>6, <1>7, <1>8, <1>12, <1>14 DEF Shape, Held, Things
  <2>2. Guarded(q)'
    BY <1>3, <1>5, <1>8, <1>12 DEF Guarded
  <2>3. Current(r, q)'
    <3>1. i \notin upset' => Live(i) \subseteq {k}
      BY <1>3, <1>4, <1>14
    <3>2. rows[k].st # "Disabled"
      BY <1>4, LiveRow DEF StudyInv
    <3> QED
      BY <1>4, <1>6, <1>7, <1>8, <1>12, <3>1, <3>2, LiveSame DEF Current, Things, Calm
  <2>4. Right(q)' /\ Alone(q)'
    BY <1>6, <1>7, <1>12 DEF Right, Alone, Gives
  <2> QED
    BY <2>1, <2>2, <2>3, <2>4 DEF Sound
<1>16. \A s \in Requests : s # r => \A n \in POs \ upset' : ~(Gives(q, n)' /\ Gives(req[s], n)')
  BY <1>6, <1>12 DEF Gives
<1>17. known \subseteq known' /\ known' \subseteq Ids /\ study' \in [StudyIds -> {"none", "on", "off"}]
  BY <1>8 DEF StudyInv, StudyTypeOK
<1>18. \A j \in StudyIds : study[j] # "none" => study'[j] # "none"
  BY <1>8
<1>19. \A j \in StudyIds : (study'[j] = study[j] /\ (j \in known' => j \in known)) \/ j \in things
  BY <1>8
<1>20. \A j \in StudyIds \cap known' : study'[j] # "none"
  BY <1>8 DEF StudyInv, Known
<1> QED
  BY ONLY StudyInv, r \in Requests, <1>7, <1>8, <1>12, <1>13, <1>15, <1>16, <1>17, <1>18, <1>19, <1>20, Begun

\* The study system takes a project off before its row is disabled.
LEMMA DisableStep == ASSUME StudyInv, NEW r \in Requests, Disable(r) PROVE StudyInv'
<1>1. PICK i \in StudyIds \cap known, ok \in BOOLEAN :
        /\ study' = IF ok THEN [study EXCEPT ![i] = "off"] ELSE study
        /\ Begin(r, "disable", {i}, [Fresh EXCEPT !.pc = "answer", !.id = i, !.ok = ok])
        /\ UNCHANGED <<rows, known>>
  BY DEF Disable
<1>2. PICK things, q0 : things = {i} /\ q0 = [Fresh EXCEPT !.pc = "answer", !.id = i, !.ok = ok]
  OBVIOUS
<1>3. things \in SUBSET (Ids \cup POs) /\ i \in Ids
  BY <1>2 DEF Ids
<1>4. Begin(r, "disable", things, q0) /\ rows' = rows /\ known' = known
  BY <1>1, <1>2
<1>5. "disable" \in Ops
  BY <1>3, <1>4, BeginUpset
<1>6. q0 \in Request /\ q0.pc = "answer" /\ q0.id = i /\ q0.ok = ok
  BY <1>2, <1>3, FreshFields DEF Request
<1>7. PICK q : q = Named(q0, "disable", things)
  OBVIOUS
<1>8. q \in Request /\ q.pc = "answer" /\ q.op = "disable" /\ q.about = things /\ q.id = i /\ q.ok = ok
  BY <1>3, <1>5, <1>6, <1>7, BeginFields
<1>9. Become(r, q)
  BY <1>4, <1>7 DEF Begin, Become, Named
<1>10. /\ study' \in [StudyIds -> {"none", "on", "off"}]
       /\ \A j \in StudyIds : study'[j] = IF ok /\ j = i THEN "off" ELSE study[j]
  BY <1>1 DEF StudyInv, StudyTypeOK
<1>11. rows[r] = None /\ (\A j \in (StudyIds \cap things) \ upset' : Same(j))
  BY <1>3, <1>4, Unshared
<1>12. Sound(r, q)'
  <2>1. Shape(r, q)'
    BY <1>2, <1>4, <1>8, <1>11 DEF Shape, Held
  <2>2. Right(q)'
    BY <1>2, <1>3, <1>4, <1>8, <1>10, <1>11, LiveSame DEF Right, Same
  <2> QED
    BY <1>8, <2>1, <2>2, NothingHeld DEF Sound
<1>13. \A t \in Requests : t # r => \A n \in POs \ upset' : ~(Gives(q, n)' /\ Gives(req[t], n)')
  BY <1>8 DEF Gives
<1>14. known \subseteq known' /\ known' \subseteq Ids
  BY <1>4 DEF StudyInv, StudyTypeOK
<1>15. \A j \in StudyIds : study[j] # "none" => study'[j] # "none"
  BY <1>10
<1>16. \A j \in StudyIds : (study'[j] = study[j] /\ (j \in known' => j \in known)) \/ j \in things
  BY <1>2, <1>4, <1>10
<1>17. \A j \in StudyIds \cap known' : study'[j] # "none"
  BY <1>4, <1>10 DEF StudyInv, Known
<1> QED
  BY ONLY StudyInv, r \in Requests, <1>3, <1>4, <1>8, <1>9, <1>10, <1>12, <1>13, <1>14, <1>15, <1>16, <1>17, Begun

\* A project the study system tells of is made here, or there is exactly one to be closed.
LEMMA ToldStep == ASSUME StudyInv, NEW r \in Requests, Told(r) PROVE StudyInv'
<1>1. PICK i \in StudyIds, list \in CenterLists, mapped \in SUBSET Centers :
        LET row == [id |-> i, st |-> "New", po |-> NoPO, cc |-> Head(list)]
        IN  /\ study[i] = "on"
            /\ \/ Live(i) = {} /\ Begin(r, "told", {i}, Posting(Fresh, r, row))
               \/ /\ Live(i) # {}
                  /\ Begin(r, "told", {i}, [Fresh EXCEPT !.pc = "again", !.id = i])
            /\ known' = known \cup {i}
            /\ UNCHANGED <<rows, study>>
  BY DEF Told
<1>2. PICK things, row : things = {i} /\ row = [id |-> i, st |-> "New", po |-> NoPO, cc |-> Head(list)]
  OBVIOUS
<1>3. things \in SUBSET (Ids \cup POs) /\ things \cap Ids = {i} /\ i \in Ids
  BY <1>2 DEF Ids
<1>4. row \in Row /\ row.id = i /\ row.st = "New" /\ row.po = NoPO /\ r \in Keys
  <2>1. Head(list) \in Centers
    BY StudyAssumption
  <2> QED
    BY <1>2, <1>3, <2>1 DEF Row, Keys
<1>5. study[i] = "on" /\ known' = known \cup {i} /\ rows' = rows /\ study' = study
  BY <1>1
<1>6. known \subseteq known' /\ known' \subseteq Ids /\ study' \in [StudyIds -> {"none", "on", "off"}]
  BY <1>3, <1>5 DEF StudyInv, StudyTypeOK
<1>7. \A j \in StudyIds : study[j] # "none" => study'[j] # "none"
  BY <1>5
<1>8. \A j \in StudyIds : (study'[j] = study[j] /\ (j \in known' => j \in known)) \/ j \in things
  BY <1>2, <1>5
<1>9. \A j \in StudyIds \cap known' : study'[j] # "none"
  BY <1>5 DEF StudyInv, Known
<1>10. CASE Live(i) = {} /\ Begin(r, "told", {i}, Posting(Fresh, r, row))
  <2>1. PICK q0 : q0 = Posting(Fresh, r, row)
    OBVIOUS
  <2>2. Begin(r, "told", things, q0)
    BY <1>2, <1>10, <2>1
  <2>3. "told" \in Ops /\ rows[r] = None
    BY <1>3, <2>2, BeginUpset, Unshared
  <2>4. q0 \in Request /\ q0.pc = "store" /\ q0.key = r /\ q0.row = row
    BY <1>4, <2>1, FreshFields, PostingFields
  <2>5. PICK q : q = Named(q0, "told", things)
    OBVIOUS
  <2>6. q \in Request /\ q.pc = "store" /\ q.op = "told" /\ q.about = things /\ q.key = r /\ q.row = row
    BY ONLY <1>3, <2>3, <2>4, <2>5, BeginFields
  <2>7. Become(r, q)
    BY <2>2, <2>5 DEF Begin, Become, Named
  <2>8. Sound(r, q)'
    <3>1. Shape(r, q)'
      BY <1>2, <1>3, <1>4, <1>5, <2>3, <2>6 DEF Shape, Held, Things
    <3>2. Guarded(q)'
      BY <1>5, <2>3, <2>6 DEF Guarded
    <3>3. Current(r, q)'
      BY <1>3, <1>4, <1>5, <1>10, <2>6, LiveSame DEF Current, Things
    <3>4. Right(q)'
      BY <1>2, <1>4, <1>5, <2>6 DEF Right
    <3>5. Alone(q)'
      BY <1>4, <2>6, StudyAssumption DEF Alone, Gives
    <3> QED
      BY <3>1, <3>2, <3>3, <3>4, <3>5 DEF Sound
  <2>9. \A s \in Requests : s # r => \A n \in POs \ upset' : ~(Gives(q, n)' /\ Gives(req[s], n)')
    BY <1>4, <2>6, StudyAssumption DEF Gives
  <2> QED
    BY ONLY StudyInv, r \in Requests, <1>3, <1>5, <1>6, <1>7, <1>8, <1>9, <2>2, <2>6, <2>7, <2>8, <2>9, Begun
<1>11. CASE Live(i) # {} /\ Begin(r, "told", {i}, [Fresh EXCEPT !.pc = "again", !.id = i])
  <2>1. PICK q0 : q0 = [Fresh EXCEPT !.pc = "again", !.id = i]
    OBVIOUS
  <2>2. Begin(r, "told", things, q0)
    BY <1>2, <1>11, <2>1
  <2>3. "told" \in Ops /\ rows[r] = None
    BY <1>3, <2>2, BeginUpset, Unshared
  <2>4. q0 \in Request /\ q0.pc = "again" /\ q0.id = i
    BY <1>3, <2>1, FreshFields DEF Request
  <2>5. PICK q : q = Named(q0, "told", things)
    OBVIOUS
  <2>6. q \in Request /\ q.pc = "again" /\ q.op = "told" /\ q.about = things /\ q.id = i
    BY <1>3, <2>3, <2>4, <2>5, BeginFields
  <2>7. Become(r, q)
    BY <2>2, <2>5 DEF Begin, Become, Named
  <2>8. Sound(r, q)'
    <3>1. Shape(r, q)'
      BY <1>2, <1>5, <2>3, <2>6 DEF Shape, Held
    <3>2. Right(q)'
      BY <1>2, <1>3, <1>5, <1>11, <2>6, LiveSame DEF Right, Same
    <3> QED
      BY <2>6, <3>1, <3>2, NothingHeld DEF Sound
  <2>9. \A s \in Requests : s # r => \A n \in POs \ upset' : ~(Gives(q, n)' /\ Gives(req[s], n)')
    BY <2>6 DEF Gives
  <2> QED
    BY ONLY StudyInv, r \in Requests, <1>3, <1>5, <1>6, <1>7, <1>8, <1>9, <2>2, <2>6, <2>7, <2>8, <2>9, Begun
<1> QED
  BY <1>1, <1>2, <1>10, <1>11

\* A project that the study system wants removed is here.
LEMMA AskedToRemoveStep == ASSUME StudyInv, NEW r \in Requests, AskedToRemove(r) PROVE StudyInv'
<1>1. PICK i \in StudyIds, list \in CenterLists, mapped \in SUBSET Centers :
        /\ study[i] = "on" /\ Live(i) # {}
        /\ \E n \in DOMAIN list :
             Begin(r, "remove", {i},
               [Fresh EXCEPT !.pc = "again", !.id = i, !.maps = Selected(list, mapped), !.last = list[n]])
        /\ UNCHANGED <<rows, study, known>>
  BY DEF AskedToRemove
<1>2. PICK n \in DOMAIN list :
        Begin(r, "remove", {i},
          [Fresh EXCEPT !.pc = "again", !.id = i, !.maps = Selected(list, mapped), !.last = list[n]])
  BY <1>1
<1>3. PICK things, q0 : /\ things = {i}
        /\ q0 = [Fresh EXCEPT !.pc = "again", !.id = i, !.maps = Selected(list, mapped), !.last = list[n]]
  OBVIOUS
<1>4. things \in SUBSET (Ids \cup POs) /\ i \in Ids
  BY <1>3 DEF Ids
<1>5. Begin(r, "remove", things, q0) /\ rows' = rows /\ study' = study /\ known' = known
  BY <1>1, <1>2, <1>3
<1>6. "remove" \in Ops /\ rows[r] = None
  BY <1>4, <1>5, BeginUpset, Unshared
<1>7. q0 \in Request /\ q0.pc = "again" /\ q0.id = i
  <2>1. Selected(list, mapped) \subseteq Centers /\ list[n] \in Centers
    BY StudyAssumption DEF Selected
  <2> QED
    BY <1>3, <1>4, <2>1, FreshFields DEF Request
<1>8. PICK q : q = Named(q0, "remove", things)
  OBVIOUS
<1>9. q \in Request /\ q.pc = "again" /\ q.op = "remove" /\ q.about = things /\ q.id = i
  BY <1>4, <1>6, <1>7, <1>8, BeginFields
<1>10. Become(r, q)
  BY <1>5, <1>8 DEF Begin, Become, Named
<1>11. Sound(r, q)'
  <2>1. Shape(r, q)'
    BY <1>3, <1>5, <1>6, <1>9 DEF Shape, Held
  <2>2. Right(q)'
    BY <1>1, <1>3, <1>4, <1>5, <1>9, LiveSame DEF Right, Same
  <2> QED
    BY <1>9, <2>1, <2>2, NothingHeld DEF Sound
<1>12. \A s \in Requests : s # r => \A p \in POs \ upset' : ~(Gives(q, p)' /\ Gives(req[s], p)')
  BY <1>9 DEF Gives
<1>13. known \subseteq known' /\ known' \subseteq Ids /\ study' \in [StudyIds -> {"none", "on", "off"}]
  BY <1>5 DEF StudyInv, StudyTypeOK
<1>14. \A j \in StudyIds : study[j] # "none" => study'[j] # "none"
  BY <1>5
<1>15. \A j \in StudyIds : (study'[j] = study[j] /\ (j \in known' => j \in known)) \/ j \in things
  BY <1>5
<1>16. \A j \in StudyIds \cap known' : study'[j] # "none"
  BY <1>5 DEF StudyInv, Known
<1> QED
  BY ONLY StudyInv, r \in Requests, <1>4, <1>5, <1>9, <1>10, <1>11, <1>12, <1>13, <1>14, <1>15, <1>16, Begun

-----------------------------------------------------------------------------
(* A request that goes on without storing.                                  *)

\* It is still about the same project, or has ended.
LEMMA Proceeded ==
  ASSUME StudyInv, NEW r \in Requests, NEW q \in Request, Become(r, q), rows' = rows,
         q.about = req[r].about \/ q.about = {},
         upset' = upset \/ upset' = upset \cup req[r].about,
         known \subseteq known', known' \subseteq Ids, study' \in [StudyIds -> {"none", "on", "off"}],
         \A i \in StudyIds : study[i] # "none" => study'[i] # "none",
         \A i \in StudyIds : \/ study'[i] = study[i] /\ (i \in known' => i \in known)
                             \/ i \in req[r].about,
         \A i \in StudyIds \cap known' : study'[i] # "none",
         Sound(r, q)',
         \A s \in Requests : s # r => \A p \in POs \ upset' : ~(Gives(q, p)' /\ Gives(req[s], p)'),
         \A i \in (StudyIds \cap req[r].about) \ upset' : i \notin q.about => Same(i)'
  PROVE  StudyInv'
<1>1. upset \subseteq upset' /\ req[r].about \subseteq Ids \cup POs
  BY DEF StudyInv, StudyTypeOK, Request
<1>2. StudyTypeOK'
  BY <1>1 DEF StudyInv, StudyTypeOK, Become
<1>3. \A s \in Requests : s # r => Conflict(q.about, req[s].about) \subseteq upset'
  BY <1>1 DEF StudyInv, Overlap, Conflict
<1>4. Things(q) \cap upset' = {} \/ Things(q) \subseteq upset'
  BY DEF StudyInv, Whole, Calm, Things
<1>5. ASSUME NEW s \in Requests, s # r
      PROVE  Things(req[s]) \cap upset' = {} \/ Things(req[s]) \subseteq upset'
  <2> SUFFICES ASSUME NEW x \in Things(req[s]) \cap upset' PROVE Things(req[s]) \subseteq upset
    BY <1>1
  <2>1. CASE x \in upset
    BY <2>1 DEF StudyInv, Whole, Calm
  <2>2. CASE x \notin upset
    BY <1>5, <2>2 DEF StudyInv, Overlap, Conflict, Things
  <2> QED
    BY <2>1, <2>2
<1>6. \A i \in StudyIds : \/ study'[i] = study[i] /\ (i \in known' => i \in known)
                          \/ i \in q.about \cup req[r].about
  OBVIOUS
<1>7. \A s \in Requests : s # r =>
        Things(req[s]) \cap upset' = {} \/ Things(req[s]) \subseteq upset'
  BY <1>5
<1> QED
  BY ONLY StudyInv, r \in Requests, rows' = rows, Become(r, q), known \subseteq known', Sound(r, q)',
          \A i \in StudyIds : study[i] # "none" => study'[i] # "none",
          \A i \in StudyIds \cap known' : study'[i] # "none",
          \A s \in Requests : s # r =>
            \A p \in POs \ upset' : ~(Gives(q, p)' /\ Gives(req[s], p)'),
          \A i \in (StudyIds \cap req[r].about) \ upset' : i \notin q.about => Same(i)',
          <1>1, <1>2, <1>3, <1>4, <1>6, <1>7, Change

\* A request that ends without a post leaves both systems as it found them, or upset.
LEMMA EndedStep ==
  ASSUME StudyInv, NEW r \in Requests, Become(r, Done), rows' = rows, known' = known,
         req[r].pc # "idle",
         upset' = upset \/ upset' = upset \cup req[r].about,
         study' \in [StudyIds -> {"none", "on", "off"}],
         \A i \in StudyIds : study[i] # "none" => study'[i] # "none",
         \A i \in StudyIds : study'[i] = study[i] \/ i \in req[r].about,
         \A i \in (StudyIds \cap req[r].about) \ upset' : Same(i)'
  PROVE  StudyInv'
<1>1. PICK q : q = Done
  OBVIOUS
<1>2. q \in Request /\ q.pc = "done" /\ q.about = {} /\ Become(r, q)
  BY <1>1, FreshFields
<1>3. Sound(r, q)'
  BY <1>2 DEF Sound, Shape, Guarded, Current, Right, Alone, Gives, Held
<1>4. \A s \in Requests : s # r => \A p \in POs \ upset' : ~(Gives(q, p)' /\ Gives(req[s], p)')
  BY <1>2 DEF Gives
<1>5. known \subseteq known' /\ known' \subseteq Ids
  BY DEF StudyInv, StudyTypeOK
<1>6. \A i \in StudyIds : \/ study'[i] = study[i] /\ (i \in known' => i \in known)
                          \/ i \in req[r].about
  OBVIOUS
<1>7. \A i \in StudyIds \cap known' : study'[i] # "none"
  BY DEF StudyInv, Known
<1>8. \A i \in (StudyIds \cap req[r].about) \ upset' : i \notin q.about => Same(i)'
  OBVIOUS
<1> QED
  BY ONLY StudyInv, r \in Requests, rows' = rows, study' \in [StudyIds -> {"none", "on", "off"}],
          upset' = upset \/ upset' = upset \cup req[r].about,
          \A i \in StudyIds : study[i] # "none" => study'[i] # "none",
          <1>2, <1>3, <1>4, <1>5, <1>6, <1>7, <1>8, Proceeded

\* A request that loads a row and posts it, with the number it had.
LEMMA Reposted ==
  ASSUME StudyInv, NEW r \in Requests, req[r].pc \in {"answer", "again"},
         NEW k \in Keys, rows[k] # None, rows[k].st # "Disabled", rows[k].id \in Things(req[r]),
         NEW row \in Row, Become(r, Posting(req[r], k, row)), rows' = rows, upset' = upset,
         known \subseteq known', known' \subseteq Ids, study' \in [StudyIds -> {"none", "on", "off"}],
         \A i \in StudyIds : study[i] # "none" => study'[i] # "none",
         \A i \in StudyIds : \/ study'[i] = study[i] /\ (i \in known' => i \in known)
                             \/ i \in req[r].about,
         \A i \in StudyIds \cap known' : study'[i] # "none",
         row.id \in req[r].about \cap known', req[r].about \cap StudyIds \subseteq {row.id},
         req[r].op # "initiate" => Things(req[r]) = {row.id},
         row.po = rows[k].po, row.st = "New" => rows[k].st = "New",
         Calm(req[r]) => \A i \in Things(req[r]) : Live(i) \subseteq {k},
         \A i \in (req[r].about \cap StudyIds) \ upset : row.st = "Disabled" <=> study'[i] # "on"
  PROVE  StudyInv'
<1>1. PICK q : q = Posting(req[r], k, row)
  OBVIOUS
<1>2. req[r] \in Request
  BY DEF StudyInv, StudyTypeOK
<1>3. /\ q \in Request /\ q.pc = "store" /\ q.key = k /\ q.row = row /\ q.op = req[r].op
      /\ q.about = req[r].about
  BY <1>1, <1>2, PostingFields
<1>4. Become(r, q)
  BY <1>1
<1>5. rows[r] = None /\ k # r
  BY DEF StudyInv, Sound, Shape
<1>6. rows[k].st = "New" => rows[k].po = NoPO
  BY DEF StudyInv, Known
<1>7. Things(q) = Things(req[r])
  BY <1>3 DEF Things
<1>8. ASSUME NEW n \in POs \ upset, Gives(q, n)
      PROVE  Calm(req[r]) /\ rows[k].po = n
  <2>1. row.id \in Things(req[r]) /\ row.id \notin upset
    BY <1>3, <1>8 DEF Gives, Row, Things
  <2> QED
    BY <1>3, <1>8, <2>1 DEF Gives, StudyInv, Whole
<1>9. Sound(r, q)'
  <2>1. Shape(r, q)'
    BY <1>3, <1>5, <1>6, <1>7 DEF Shape, Held, Things
  <2>2. Guarded(q)'
    BY <1>3 DEF Guarded, Things
  <2>3. Current(r, q)'
    <3> SUFFICES ASSUME Calm(q)' PROVE Current(r, q)'
      BY DEF Current
    <3>1. \A i \in Things(req[r]) : Live(i) \subseteq {k}
      BY <1>7 DEF Calm, Things
    <3> QED
      BY <1>3, <1>5, <1>7, <3>1, LiveSame DEF Current, Things
  <2>4. Right(q)'
    BY <1>3 DEF Right
  <2>5. Alone(q)'
    <3> SUFFICES ASSUME NEW n \in POs \ upset, Gives(q, n), NEW l \in Keys, rows[l] # None,
                        rows[l].st # "Disabled", rows[l].po = n, l # k
                 PROVE  rows[l].id \in upset
      BY <1>3 DEF Alone, Gives
    <3>1. Calm(req[r]) /\ rows[k].po = n /\ rows[k].id \in req[r].about
      BY <1>8 DEF Things
    <3> QED
      BY <3>1, OwnNumber
  <2> QED
    BY <2>1, <2>2, <2>3, <2>4, <2>5 DEF Sound
<1>10. \A s \in Requests : s # r => \A p \in POs \ upset' : ~(Gives(q, p)' /\ Gives(req[s], p)')
  <2> SUFFICES ASSUME NEW s \in Requests, s # r, NEW p \in POs \ upset, Gives(q, p), Gives(req[s], p)
               PROVE  FALSE
    BY <1>4 DEF Gives, Become, StudyInv, StudyTypeOK
  <2>1. Calm(req[r]) /\ rows[k].po = p /\ rows[k].id \in req[r].about
    BY <1>8 DEF Things
  <2> QED
    BY <2>1, OwnNumber
<1>11. q.about = req[r].about \/ q.about = {}
  BY <1>3
<1>12. \A i \in (StudyIds \cap req[r].about) \ upset' : i \notin q.about => Same(i)'
  BY <1>3
<1> QED
  BY ONLY StudyInv, r \in Requests, rows' = rows, upset' = upset, known \subseteq known',
          known' \subseteq Ids, study' \in [StudyIds -> {"none", "on", "off"}],
          \A i \in StudyIds : study[i] # "none" => study'[i] # "none",
          \A i \in StudyIds : \/ study'[i] = study[i] /\ (i \in known' => i \in known)
                              \/ i \in req[r].about,
          \A i \in StudyIds \cap known' : study'[i] # "none",
          <1>3, <1>4, <1>9, <1>10, <1>11, <1>12, Proceeded

\* What is lost leaves its project upset.
LEMMA LoseStep == ASSUME StudyInv, NEW r \in Requests, Lose(r) PROVE StudyInv'
<1>1. /\ Become(r, Done) /\ rows' = rows /\ known' = known /\ study' = study
      /\ upset' = upset \cup req[r].about /\ req[r].pc # "idle"
  BY DEF Lose
<1>2. study' \in [StudyIds -> {"none", "on", "off"}]
  BY <1>1 DEF StudyInv, StudyTypeOK
<1> QED
  BY <1>1, <1>2, EndedStep

\* The number is looked up before the row is posted.
LEMMA CheckPOStep == ASSUME StudyInv, NEW r \in Requests, CheckPO(r) PROVE StudyInv'
<1>1. PICK row : row = IF POTaken(req[r].po) THEN req[r].row
                       ELSE [req[r].row EXCEPT !.po = req[r].po, !.st = "Active"]
  OBVIOUS
<1>2. PICK q : q = Posting(req[r], req[r].key, row)
  OBVIOUS
<1>3. /\ req[r].pc = "check" /\ Become(r, q) /\ rows' = rows /\ study' = study /\ known' = known
      /\ upset' = upset
  BY <1>1, <1>2 DEF CheckPO, At
<1>4. /\ req[r] \in Request /\ Held(req[r]) /\ Shape(r, req[r]) /\ Guarded(req[r])
      /\ Current(r, req[r]) /\ Right(req[r])
  BY <1>3 DEF StudyInv, StudyTypeOK, Sound, Held
<1>5. /\ row \in Row /\ row.id = req[r].row.id /\ row.st # "Disabled"
      /\ row.st = "New" => row.po = NoPO
      /\ \/ row = req[r].row
         \/ row.po = req[r].po /\ ~POTaken(req[r].po)
  BY <1>1, <1>3, <1>4 DEF Shape, Row
<1>6. req[r].po \in (req[r].about \cap POs) \cup {NoPO} /\ req[r].key \in Keys /\ req[r].key # r
      /\ rows[req[r].key] # None
  BY <1>3, <1>4 DEF Shape
<1>7. /\ q \in Request /\ q.pc = "store" /\ q.key = req[r].key /\ q.row = row /\ q.op = req[r].op
      /\ q.about = req[r].about
  BY <1>2, <1>4, <1>5, <1>6, PostingFields
<1>8. Things(q) = Things(req[r])
  BY <1>7 DEF Things
<1>9. Calm(req[r]) => /\ req[r].row = rows[req[r].key] /\ rows[req[r].key].st # "Disabled"
                      /\ \A i \in Things(req[r]) : Live(i) \subseteq {req[r].key}
  BY <1>3, <1>4, <1>6 DEF Current
<1>10. ASSUME NEW n \in POs \ upset, Gives(q, n)
       PROVE  /\ Calm(req[r])
              /\ \/ rows[req[r].key].po = n /\ rows[req[r].key].id \in req[r].about
                 \/ n = req[r].po /\ ~POTaken(n)
  <2>1. row.id \in Things(req[r]) /\ row.id \notin upset
    BY <1>4, <1>5, <1>7, <1>10 DEF Gives, Row, Things, Shape
  <2>2. Calm(req[r])
    BY <2>1 DEF StudyInv, Whole
  <2> QED
    BY <1>5, <1>7, <1>9, <1>10, <2>1, <2>2 DEF Gives, Things
<1>11. Sound(r, q)'
  <2>1. Shape(r, q)'
    <3>1. Calm(q)' => Calm(req[r])
      BY <1>3, <1>8 DEF Calm, Things
    <3>2. Things(q)' = Things(req[r])
      BY <1>8 DEF Things
    <3> QED
      BY <1>3, <1>4, <1>5, <1>6, <1>7, <3>1, <3>2 DEF Shape, Held
  <2>2. Guarded(q)'
    BY <1>3, <1>4, <1>7 DEF Guarded, Held, Things
  <2>3. Current(r, q)'
    <3> SUFFICES ASSUME Calm(q)' PROVE Current(r, q)'
      BY DEF Current
    <3>1. Calm(req[r])
      BY <1>3, <1>8 DEF Calm, Things
    <3> QED
      BY <1>3, <1>5, <1>6, <1>7, <1>8, <1>9, <3>1, LiveSame DEF Current, Things
  <2>4. Right(q)'
    <3> SUFFICES ASSUME NEW i \in (req[r].about \cap StudyIds) \ upset PROVE study[i] = "on"
      BY <1>3, <1>5, <1>7 DEF Right
    <3>2. i \in Things(req[r]) /\ Same(i) /\ Calm(req[r])
      BY <1>3, <1>4 DEF Right, Things, Ids, StudyInv, Whole
    <3>1. i = req[r].row.id /\ i \in known
      BY <1>3, <1>4, <3>2 DEF Shape
    <3>3. req[r].key \in Live(i)
      BY <1>6, <1>9, <3>1, <3>2 DEF Live
    <3> QED
      BY <3>1, <3>2, <3>3 DEF Same
  <2>5. Alone(q)'
    <3> SUFFICES ASSUME NEW n \in POs \ upset, Gives(q, n), NEW l \in Keys, rows[l] # None,
                        rows[l].st # "Disabled", rows[l].po = n, l # req[r].key
                 PROVE  rows[l].id \in upset
      BY <1>3, <1>7 DEF Alone, Gives
    <3> QED
      BY <1>6, <1>9, <1>10, NotTaken, OwnNumber
  <2> QED
    BY <2>1, <2>2, <2>3, <2>4, <2>5 DEF Sound
<1>12. \A s \in Requests : s # r => \A p \in POs \ upset' : ~(Gives(q, p)' /\ Gives(req[s], p)')
  <2> SUFFICES ASSUME NEW s \in Requests, s # r, NEW p \in POs \ upset, Gives(q, p), Gives(req[s], p)
               PROVE  FALSE
    BY <1>3 DEF Gives, Become, StudyInv, StudyTypeOK
  <2>1. CASE rows[req[r].key].po = p /\ rows[req[r].key].id \in req[r].about
    BY <1>6, <1>9, <1>10, <2>1, OwnNumber
  <2>2. CASE p = req[r].po /\ ~POTaken(p)
    <3>0. p \in req[r].about
      BY <1>6, <2>2, StudyAssumption
    <3>1. p \in req[s].about \cap req[r].about
      BY <2>2, <3>0, NotTakenNorGiven
    <3> QED
      BY <3>1 DEF StudyInv, Overlap, Conflict
  <2> QED
    BY <1>10, <2>1, <2>2
<1>13. q.about = req[r].about \/ q.about = {}
  BY <1>7
<1>14. \A i \in (StudyIds \cap req[r].about) \ upset' : i \notin q.about => Same(i)'
  BY <1>7
<1>15. known \subseteq known' /\ known' \subseteq Ids /\ study' \in [StudyIds -> {"none", "on", "off"}]
  BY <1>3 DEF StudyInv, StudyTypeOK
<1>16. \A i \in StudyIds : study[i] # "none" => study'[i] # "none"
  BY <1>3
<1>17. \A i \in StudyIds : \/ study'[i] = study[i] /\ (i \in known' => i \in known)
                           \/ i \in req[r].about
  BY <1>3
<1>18. \A i \in StudyIds \cap known' : study'[i] # "none"
  BY <1>3 DEF StudyInv, Known
<1> QED
  BY ONLY StudyInv, r \in Requests, <1>3, <1>7, <1>11, <1>12, <1>13, <1>14, <1>15, <1>16, <1>17, <1>18,
          Proceeded

\* The project that the study system has made takes over the row of ours.
LEMMA InitiateAnsweredStep == ASSUME StudyInv, NEW r \in Requests, InitiateAnswered(r) PROVE StudyInv'
<1>1. /\ req[r].pc = "answer" /\ req[r].op = "initiate" /\ rows' = rows /\ study' = study
      /\ upset' = upset
  BY DEF InitiateAnswered, At
<1>2. /\ req[r].id \in Dummies /\ req[r].about = {req[r].id, req[r].to} \ {None}
      /\ req[r].to \in StudyIds \cup {None} /\ (req[r].to # None => study[req[r].to] # "none")
      /\ Right(req[r])
  BY <1>1, StudyAssumption DEF StudyInv, Sound, Shape, StudyTypeOK, Request
<1>3. /\ req[r].id \in Ids /\ req[r].id \in req[r].about
      /\ req[r].about \cap StudyIds = {req[r].to} \ {None}
  BY <1>2, StudyAssumption DEF Ids, Keys
<1>4. study' \in [StudyIds -> {"none", "on", "off"}]
  BY <1>1 DEF StudyInv, StudyTypeOK
<1>5. CASE req[r].to = None \/ Live(req[r].id) = {}
  <2>1. Become(r, Done) /\ known' = known
    BY <1>5 DEF InitiateAnswered
  <2>2. \A i \in (StudyIds \cap req[r].about) \ upset' : Same(i)'
    BY <1>1, <1>2, <2>1 DEF Right, Same
  <2> QED
    BY <1>1, <1>4, <2>1, <2>2, EndedStep
<1>6. CASE ~(req[r].to = None \/ Live(req[r].id) = {})
  <2>1. PICK k \in Live(req[r].id) : Become(r, Posting(req[r], k, [rows[k] EXCEPT !.id = req[r].to]))
    BY <1>6 DEF InitiateAnswered
  <2>2. known' = known \cup {req[r].to} /\ req[r].to \in StudyIds /\ req[r].to \in Ids
    BY <1>2, <1>6 DEF InitiateAnswered, Ids
  <2>3. PICK row : row = [rows[k] EXCEPT !.id = req[r].to]
    OBVIOUS
  <2>4. k \in Keys /\ rows[k] \in Row /\ rows[k] # None /\ rows[k].st # "Disabled" /\ rows[k].id = req[r].id
    BY <1>3, LiveRow DEF StudyInv
  <2>5. row \in Row /\ row.id = req[r].to /\ row.po = rows[k].po /\ row.st = rows[k].st
    BY <2>2, <2>3, <2>4 DEF Row
  <2>6. Become(r, Posting(req[r], k, row))
    BY <2>1, <2>3
  <2>7. known \subseteq known' /\ known' \subseteq Ids
    BY <2>2 DEF StudyInv, StudyTypeOK
  <2>8. ASSUME Calm(req[r]), NEW i \in Things(req[r]) PROVE Live(i) \subseteq {k}
    <3>1. i \notin upset /\ i \in Ids
      BY <2>8 DEF Calm, Things
    <3>2. CASE i = req[r].id
      BY <3>1, <3>2 DEF StudyInv, OneRowEach
    <3>3. CASE i = req[r].to
      BY <1>1, <1>2, <1>3, <1>6, <2>2, <3>1, <3>3 DEF Right
    <3> QED
      BY <1>2, <2>8, <3>2, <3>3 DEF Things
  <2>9. \A i \in (req[r].about \cap StudyIds) \ upset : row.st = "Disabled" <=> study'[i] # "on"
    BY <1>1, <1>2, <2>4, <2>5 DEF Right
  <2>10. \A i \in StudyIds \cap known' : study'[i] # "none"
    BY <1>1, <1>2, <2>2, StudyAssumption DEF StudyInv, Known, Keys, Ids
  <2>11. /\ rows[k].id \in Things(req[r]) /\ row.id \in req[r].about \cap known'
         /\ req[r].about \cap StudyIds \subseteq {row.id}
    BY <1>2, <1>3, <1>6, <2>2, <2>4, <2>5 DEF Things
  <2>12. \A i \in StudyIds : \/ study'[i] = study[i] /\ (i \in known' => i \in known)
                             \/ i \in req[r].about
    BY <1>1, <1>2, <1>6, <2>2
  <2> QED
    BY <1>1, <1>4, <2>4, <2>5, <2>6, <2>7, <2>8, <2>9, <2>10, <2>11, <2>12, Reposted
<1> QED
  BY <1>5, <1>6

\* A loaded row of the project that a request has called about, or was called about.
LEMMA OwnRow ==
  ASSUME StudyInv, NEW r \in Requests, req[r].pc \in {"answer", "again"}, req[r].op # "initiate",
         NEW k \in Live(req[r].id)
  PROVE  /\ req[r].id \in StudyIds /\ req[r].about = {req[r].id} /\ Things(req[r]) = {req[r].id}
         /\ k \in Keys /\ rows[k] \in Row /\ rows[k] # None /\ rows[k].st # "Disabled"
         /\ rows[k].id = req[r].id /\ req[r].id \in known
         /\ Calm(req[r]) => \A i \in Things(req[r]) : Live(i) \subseteq {k}
<1>1. req[r].id \in StudyIds /\ req[r].about = {req[r].id} /\ req[r].id \in Ids
  BY DEF StudyInv, Sound, Shape, Ids
<1>2. Things(req[r]) = {req[r].id}
  BY <1>1 DEF Things
<1>3. /\ k \in Keys /\ rows[k] \in Row /\ rows[k] # None /\ rows[k].st # "Disabled"
      /\ rows[k].id = req[r].id
  BY <1>1, LiveRow DEF StudyInv
<1>4. req[r].id \in known
  BY <1>3 DEF StudyInv, Known
<1>5. Calm(req[r]) => Live(req[r].id) \subseteq {k}
  BY <1>1, <1>2 DEF Calm, StudyInv, OneRowEach
<1> QED
  BY <1>1, <1>2, <1>3, <1>4, <1>5

\* The study system's answer decides whether the row is disabled.
LEMMA DisableAnsweredStep == ASSUME StudyInv, NEW r \in Requests, DisableAnswered(r) PROVE StudyInv'
<1>1. /\ req[r].pc = "answer" /\ req[r].op = "disable" /\ rows' = rows /\ study' = study
      /\ upset' = upset /\ known' = known
  BY DEF DisableAnswered, At
<1>2. req[r].id \in StudyIds /\ req[r].about = {req[r].id} /\ req[r].id \in Ids /\ Right(req[r])
  BY <1>1 DEF StudyInv, Sound, Shape, Ids
<1>3. study' \in [StudyIds -> {"none", "on", "off"}]
  BY <1>1 DEF StudyInv, StudyTypeOK
<1>4. CASE ~req[r].ok \/ Live(req[r].id) = {}
  <2>1. Become(r, Done)
    BY <1>4 DEF DisableAnswered
  <2>2. req[r].ok \in BOOLEAN
    BY DEF StudyInv, StudyTypeOK, Request
  <2>3. \A i \in (StudyIds \cap req[r].about) \ upset' : Same(i)'
    BY <1>1, <1>2, <1>4, <2>2, LiveSame DEF Right, Same
  <2> QED
    BY <1>1, <1>3, <2>1, <2>3, EndedStep
<1>5. CASE ~(~req[r].ok \/ Live(req[r].id) = {})
  <2>1. PICK k \in Live(req[r].id) : Become(r, Disabling(req[r], k))
    BY <1>5 DEF DisableAnswered
  <2>2. PICK row : row = [rows[k] EXCEPT !.st = "Disabled"]
    OBVIOUS
  <2>3. /\ k \in Keys /\ rows[k] \in Row /\ rows[k] # None /\ rows[k].st # "Disabled"
        /\ rows[k].id = req[r].id /\ req[r].id \in known /\ Things(req[r]) = {req[r].id}
        /\ Calm(req[r]) => \A i \in Things(req[r]) : Live(i) \subseteq {k}
    BY <1>1, OwnRow
  <2>4. row \in Row /\ row.id = req[r].id /\ row.po = rows[k].po /\ row.st = "Disabled"
    BY <2>2, <2>3 DEF Row
  <2>5. Become(r, Posting(req[r], k, row))
    BY <2>1, <2>2 DEF Disabling
  <2>6. \A i \in (req[r].about \cap StudyIds) \ upset : row.st = "Disabled" <=> study'[i] # "on"
    BY <1>1, <1>2, <1>5, <2>4 DEF Right
  <2>7. /\ known \subseteq known' /\ known' \subseteq Ids
        /\ \A i \in StudyIds \cap known' : study'[i] # "none"
    BY <1>1 DEF StudyInv, StudyTypeOK, Known
  <2> QED
    BY <1>1, <1>2, <1>3, <2>3, <2>4, <2>5, <2>6, <2>7, Reposted
<1> QED
  BY <1>4, <1>5

\* A project is closed on both sides.
LEMMA CloseStep == ASSUME StudyInv, NEW r \in Requests, Close(r) PROVE StudyInv'
<1> DEFINE numbered == {k \in Live(req[r].id) : rows[k].po # NoPO}
<1>1. /\ req[r].pc = "again" /\ req[r].op = "told" /\ rows' = rows /\ study' = study
      /\ upset' = upset /\ known' = known
  BY DEF Close, At
<1>2. req[r].id \in StudyIds /\ req[r].about = {req[r].id} /\ req[r].id \in Ids /\ Right(req[r])
  BY <1>1 DEF StudyInv, Sound, Shape, Ids
<1>3. study' \in [StudyIds -> {"none", "on", "off"}]
  BY <1>1 DEF StudyInv, StudyTypeOK
<1>4. CASE numbered = {}
  <2>1. Become(r, Done)
    BY <1>4 DEF Close
  <2>2. \A i \in (StudyIds \cap req[r].about) \ upset' : Same(i)'
    BY <1>1, <1>2, LiveSame DEF Right, Same
  <2> QED
    BY <1>1, <1>3, <2>1, <2>2, EndedStep
<1>5. CASE numbered # {}
  <2>1. PICK k \in Live(req[r].id) : Become(r, Posting(req[r], k, [rows[k] EXCEPT !.st = "Closed"]))
    BY <1>5 DEF Close
  <2>2. PICK row : row = [rows[k] EXCEPT !.st = "Closed"]
    OBVIOUS
  <2>3. /\ k \in Keys /\ rows[k] \in Row /\ rows[k] # None /\ rows[k].st # "Disabled"
        /\ rows[k].id = req[r].id /\ req[r].id \in known /\ Things(req[r]) = {req[r].id}
        /\ Calm(req[r]) => \A i \in Things(req[r]) : Live(i) \subseteq {k}
    BY <1>1, OwnRow
  <2>4. row \in Row /\ row.id = req[r].id /\ row.po = rows[k].po /\ row.st = "Closed"
    BY <2>2, <2>3 DEF Row
  <2>5. Become(r, Posting(req[r], k, row))
    BY <2>1, <2>2
  <2>6. \A i \in (req[r].about \cap StudyIds) \ upset : row.st = "Disabled" <=> study'[i] # "on"
    BY <1>1, <1>2, <2>3, <2>4 DEF Right, Same
  <2>7. /\ known \subseteq known' /\ known' \subseteq Ids
        /\ \A i \in StudyIds \cap known' : study'[i] # "none"
    BY <1>1 DEF StudyInv, StudyTypeOK, Known
  <2> QED
    BY <1>1, <1>2, <1>3, <2>3, <2>4, <2>5, <2>6, <2>7, Reposted
<1> QED
  BY <1>4, <1>5

\* The project is taken off on both sides, or its id is upset, with all that is hit besides.
LEMMA RemoveFoundStep == ASSUME StudyInv, Along, NEW r \in Requests, RemoveFound(r) PROVE StudyInv'
<1> DEFINE found == {k \in Live(req[r].id) : rows[k].cc \in req[r].maps}
           last == {k \in UNION {Live(i) : i \in Within[req[r].id]} : rows[k].cc = req[r].last}
           things == req[r].about \cup {rows[k].id : k \in last}
<1>1. /\ req[r].pc = "again" /\ req[r].op = "remove" /\ rows' = rows /\ known' = known
      /\ \/ Become(r, Done) /\ UNCHANGED <<study, upset>>
         \/ /\ study' = [study EXCEPT ![req[r].id] = "off"]
            /\ \/ Become(r, Done) /\ upset' = upset \cup req[r].about
               \/ \E L \in OneEach(last) : \E k \in L :
                    /\ Become(r, [Disabling(req[r], k) EXCEPT !.off = L \ {k}, !.about = things])
                    /\ upset' = IF things = req[r].about THEN upset
                                ELSE upset \cup things \cup UNION {req[s].about : s \in Others(things)}
  BY DEF RemoveFound, At
<1>2. /\ req[r].id \in StudyIds /\ req[r].id \in Ids /\ req[r].about = {req[r].id} /\ Right(req[r])
      /\ req[r].off = {} /\ req[r] \in Request
  BY <1>1 DEF StudyInv, Sound, Shape, Ids, Along, StudyTypeOK
<1>3. study \in [StudyIds -> {"none", "on", "off"}]
  BY DEF StudyInv, StudyTypeOK
<1>4. CASE Become(r, Done) /\ UNCHANGED <<study, upset>>
  <2>1. \A i \in (StudyIds \cap req[r].about) \ upset' : Same(i)'
    BY <1>1, <1>2, <1>4, LiveSame DEF Right, Same, Ids
  <2> QED
    BY <1>1, <1>3, <1>4, <2>1, EndedStep
<1>5. CASE study' = [study EXCEPT ![req[r].id] = "off"]
  <2>1. /\ study' \in [StudyIds -> {"none", "on", "off"}] /\ study'[req[r].id] = "off"
        /\ \A i \in StudyIds : study[i] # "none" => study'[i] # "none"
        /\ \A i \in StudyIds : study'[i] = study[i] \/ i \in req[r].about
    BY <1>2, <1>3, <1>5
  <2>2. CASE Become(r, Done) /\ upset' = upset \cup req[r].about
    BY <1>1, <1>2, <2>1, <2>2, EndedStep
  <2>3. ASSUME NEW L \in OneEach(last), NEW k \in L,
               Become(r, [Disabling(req[r], k) EXCEPT !.off = L \ {k}, !.about = things]),
               upset' = IF things = req[r].about THEN upset
                        ELSE upset \cup things \cup UNION {req[s].about : s \in Others(things)}
        PROVE  StudyInv'
    <3>1. /\ L \subseteq last /\ \A l, m \in L : rows[l].id = rows[m].id => l = m
      BY DEF OneEach
    <3>2. Within[req[r].id] \subseteq Ids
      BY <1>2, StudyAssumption
    <3>3. \A l \in last : /\ l \in Keys /\ rows[l] \in Row /\ rows[l] # None /\ rows[l].st # "Disabled"
                          /\ rows[l].id \in Ids /\ rows[l].id \in things
      BY <3>2, LiveRow DEF StudyInv
    <3>4. PICK row : row = [rows[k] EXCEPT !.st = "Disabled"]
      OBVIOUS
    <3>5. /\ k \in Keys /\ rows[k] \in Row /\ rows[k] # None /\ rows[k].st # "Disabled"
          /\ rows[k].id \in Ids /\ rows[k].id \in things /\ rows[k].id \in known
      BY <3>1, <3>3 DEF StudyInv, Known
    <3>6. row \in Row /\ row.id = rows[k].id /\ row.po = rows[k].po /\ row.st = "Disabled"
      BY <3>4, <3>5 DEF Row
    <3>7. /\ known \subseteq known' /\ known' \subseteq Ids
          /\ \A i \in StudyIds \cap known' : study'[i] # "none"
      BY <1>1, <2>1 DEF StudyInv, StudyTypeOK, Known
    <3>8. PICK t : t = things
      OBVIOUS
    <3>9. t \subseteq Ids /\ req[r].id \in t /\ rows[k].id \in t
      BY <1>2, <3>3, <3>5, <3>8
    <3>10. PICK p : p = Posting(req[r], k, row)
      OBVIOUS
    <3>11. /\ p \in Request /\ p.pc = "store" /\ p.key = k /\ p.row = row /\ p.op = req[r].op
           /\ p.about = req[r].about /\ p.off = {}
      BY <1>2, <3>5, <3>6, <3>10, PostingFields
    <3>12. Become(r, [p EXCEPT !.off = L \ {k}, !.about = t])
      BY <2>3, <3>4, <3>8, <3>10 DEF Disabling
    <3>13. CASE things = req[r].about
      <4>1. rows[k].id = req[r].id /\ Things(req[r]) = {req[r].id}
        BY <1>2, <3>5, <3>13 DEF Things
      <4>2. L \ {k} = {}
        <5> SUFFICES ASSUME NEW l \in L PROVE l = k
          OBVIOUS
        <5>1. rows[l].id \in things
          BY <3>1, <3>3
        <5> QED
          BY <1>2, <3>1, <3>13, <4>1, <5>1
      <4>3. [p EXCEPT !.off = L \ {k}, !.about = t] = p
        BY <3>8, <3>11, <3>13, <4>2 DEF Request
      <4>4. Become(r, Posting(req[r], k, row))
        BY <3>10, <3>12, <4>3
      <4>5. upset' = upset
        BY <2>3, <3>13
      <4>6. Calm(req[r]) => \A i \in Things(req[r]) : Live(i) \subseteq {k}
        <5> SUFFICES ASSUME Calm(req[r]) PROVE Live(req[r].id) \subseteq {k}
          BY <4>1
        <5>1. k \in Live(req[r].id) /\ req[r].id \in Ids \ upset
          BY <1>2, <3>5, <4>1 DEF Live, Calm
        <5> QED
          BY <5>1 DEF StudyInv, OneRowEach
      <4>7. \A i \in (req[r].about \cap StudyIds) \ upset : row.st = "Disabled" <=> study'[i] # "on"
        BY <1>2, <2>1, <3>6
      <4> QED
        BY <1>1, <1>2, <2>1, <3>5, <3>6, <3>7, <4>1, <4>4, <4>5, <4>6, <4>7, Reposted
    <3>14. CASE things # req[r].about
      <4>1. PICK q : q = [p EXCEPT !.off = L \ {k}, !.about = t]
        OBVIOUS
      <4>2. /\ q \in Request /\ q.pc = "store" /\ q.key = k /\ q.row = row /\ q.op = req[r].op
            /\ q.about = t
        BY <3>1, <3>3, <3>9, <3>11, <4>1 DEF Request
      <4>3. upset' = upset \cup t \cup UNION {req[s].about : s \in Others(t)}
        BY <2>3, <3>8, <3>14
      <4>4. Become(r, q) /\ Things(q) \subseteq upset' /\ ~Calm(q)' /\ upset \subseteq upset'
        BY <3>9, <3>12, <4>1, <4>2, <4>3 DEF Things, Calm
      <4>5. \A s \in Requests : req[s].about \cap t # {} => req[s].about \subseteq upset'
        BY <4>3 DEF Others
      <4>6. upset' \subseteq Ids \cup POs
        <5>1. \A s \in Requests : req[s].about \subseteq Ids \cup POs
          BY DEF StudyInv, StudyTypeOK, Request
        <5> QED
          BY <3>9, <4>3, <5>1 DEF Others, StudyInv, StudyTypeOK
      <4>7. StudyTypeOK'
        BY <1>1, <2>1, <3>7, <4>2, <4>4, <4>6 DEF StudyInv, StudyTypeOK, Become
      <4>8. \A s \in Requests : s # r => Conflict(q.about, req[s].about) \subseteq upset'
        BY <4>2, <4>3, <4>5 DEF Conflict
      <4>9. ASSUME NEW s \in Requests, s # r
            PROVE  Things(req[s]) \cap upset' = {} \/ Things(req[s]) \subseteq upset'
        <5>1. CASE req[s].about \cap t # {}
          BY <4>5, <5>1 DEF Things
        <5>2. CASE req[s].about \cap t = {}
          <6>1. ASSUME NEW x \in Things(req[s]) \cap upset', x \notin upset PROVE FALSE
            <7>1. PICK o \in Requests : x \in req[o].about /\ req[o].about \cap t # {}
              BY <4>3, <5>2, <6>1 DEF Others, Things
            <7>2. o # s /\ x \in Ids
              BY <5>2, <6>1, <7>1 DEF Things
            <7> QED
              BY <6>1, <7>1, <7>2 DEF StudyInv, Overlap, Conflict, Things
          <6> QED
            BY <4>4, <6>1 DEF StudyInv, Whole, Calm
        <5> QED
          BY <5>1, <5>2
      <4>10. rows[r] = None
        BY <1>1 DEF StudyInv, Sound, Shape
      <4>11. \A n : ~Gives(q, n)'
        BY <3>6, <4>2 DEF Gives
      <4>12. Sound(r, q)'
        <5>1. Shape(r, q)'
          BY <1>1, <3>5, <3>6, <3>9, <4>2, <4>4, <4>10 DEF Shape, Held
        <5>2. Guarded(q)'
          BY <1>1, <3>9, <4>2 DEF Guarded
        <5>3. Current(r, q)'
          BY <4>4 DEF Current
        <5>4. Right(q)'
          BY <4>2, <4>4, <3>9 DEF Right, Things
        <5>5. Alone(q)'
          BY <4>11 DEF Alone
        <5> QED
          BY <5>1, <5>2, <5>3, <5>4, <5>5 DEF Sound
      <4>13. \A i \in StudyIds : \/ study'[i] = study[i] /\ (i \in known' => i \in known)
                                 \/ i \in q.about \cup req[r].about
        BY <1>1, <2>1
      <4>14. \A i \in (StudyIds \cap req[r].about) \ upset' : i \notin q.about => Same(i)'
        BY <1>2, <3>9, <4>2
      <4>15. Things(q) \cap upset' = {} \/ Things(q) \subseteq upset'
        BY <4>4
      <4>16. \A s \in Requests : s # r => \A n \in POs \ upset' : ~(Gives(q, n)' /\ Gives(req[s], n)')
        BY <4>11
      <4> QED
        BY ONLY StudyInv, r \in Requests, <1>1, <2>1, <3>7, <4>4, <4>7, <4>8, <4>9, <4>12, <4>13, <4>14,
                <4>15, <4>16, Change
    <3> QED
      BY <3>13, <3>14
  <2> QED
    BY <1>1, <1>4, <1>5, <2>2, <2>3
<1> QED
  BY <1>1, <1>4, <1>5

-----------------------------------------------------------------------------
(* Storing.                                                                 *)

\* What a step leaves of a row: all of it, or it is disabled, and upset.
Kept(k) == \/ rows'[k] = rows[k]
           \/ /\ rows[k] \in Row /\ rows[k] # None /\ rows'[k] = [rows[k] EXCEPT !.st = "Disabled"]
              /\ rows[k].id \in upset

\* A row that is kept has the id and the number it had, and is a row if it was one.
LEMMA KeptRow ==
  ASSUME StudyTypeOK, NEW k \in Keys, Kept(k)
  PROVE  /\ rows'[k] \in Row \cup {None} /\ (rows'[k] = None <=> rows[k] = None)
         /\ rows[k] # None => /\ rows'[k].id = rows[k].id /\ rows'[k].po = rows[k].po
                              /\ rows'[k].st = rows[k].st \/ rows'[k].st = "Disabled"
                              /\ rows[k].id \notin upset => rows'[k] = rows[k]
  BY StudyAssumption DEF Kept, StudyTypeOK, Row

\* What a stored row changes: nothing for the projects it is not about, unless they are upset,
\* and its own project has this row only.
LEMMA Stored ==
  ASSUME StudyInv, Along, NEW r \in Requests, Store(r)
  PROVE  /\ req[r].key \in Keys /\ req[r].row \in Row /\ req[r].row # None
         /\ rows'[req[r].key] = req[r].row /\ \A k \in Keys : k # req[r].key => Kept(k)
         /\ \A i \in Ids \ upset : i \notin req[r].about => Live(i)' = Live(i)
         /\ \A i \in Things(req[r]) \ upset :
              Live(i)' = IF req[r].row.id = i /\ req[r].row.st # "Disabled" THEN {req[r].key} ELSE {}
<1>1. /\ req[r].pc = "store" /\ rows \in [Keys -> Row \cup {None}] /\ Held(req[r])
      /\ rows' = [k \in Keys |-> IF k = req[r].key THEN req[r].row
                                ELSE IF k \in req[r].off THEN [rows[k] EXCEPT !.st = "Disabled"] ELSE rows[k]]
  BY DEF Store, StudyInv, StudyTypeOK, Held
<1>2. /\ req[r].key \in Keys /\ req[r].row \in Row /\ req[r].row # None
      /\ req[r].row.id \in req[r].about /\ req[r].row.id \in Ids
  BY <1>1, StudyAssumption DEF StudyInv, Sound, Shape, Row
<1>3. rows'[req[r].key] = req[r].row /\ \A k \in Keys : k # req[r].key => Kept(k)
  <2> SUFFICES ASSUME NEW k \in Keys, k # req[r].key PROVE Kept(k)
    BY <1>1, <1>2
  <2>1. CASE k \in req[r].off
    BY <1>1, <2>1 DEF Along, Kept
  <2>2. CASE k \notin req[r].off
    BY <1>1, <2>2 DEF Kept
  <2> QED
    BY <2>1, <2>2
<1>3a. \A k \in Keys : k # req[r].key =>
         /\ rows'[k] = None <=> rows[k] = None
         /\ rows[k] # None => rows'[k].id = rows[k].id /\ (rows[k].id \notin upset => rows'[k] = rows[k])
  BY <1>3, KeptRow DEF StudyInv
<1>4. rows[req[r].key] # None => rows[req[r].key].id \in req[r].about \cup upset
  BY <1>1 DEF StudyInv, Sound, Guarded
<1>5. ASSUME NEW i \in Ids \ upset, i \notin req[r].about PROVE Live(i)' = Live(i)
  BY <1>2, <1>3, <1>3a, <1>4, <1>5 DEF Live
<1>6. ASSUME NEW i \in Things(req[r]) \ upset
      PROVE  Live(i)' = IF req[r].row.id = i /\ req[r].row.st # "Disabled" THEN {req[r].key} ELSE {}
  <2>1. Calm(req[r])
    BY <1>6 DEF StudyInv, Whole
  <2>2. Live(i) \subseteq {req[r].key}
    BY <1>1, <1>6, <2>1 DEF StudyInv, Sound, Current
  <2> QED
    BY <1>2, <1>3, <1>3a, <1>6, <2>2 DEF Live
<1> QED
  BY <1>2, <1>3, <1>5, <1>6

\* The other requests know as much as before.
LEMMA StoredElsewhere ==
  ASSUME StudyInv, Along, NEW r \in Requests, Store(r), NEW s \in Requests, s # r, req'[s] = req[s]
  PROVE  Sound(s, req[s])'
<1>1. /\ req[r].key \in Keys /\ req[r].row \in Row /\ req[r].row # None
      /\ rows'[req[r].key] = req[r].row /\ \A k \in Keys : k # req[r].key => Kept(k)
      /\ \A i \in Ids \ upset : i \notin req[r].about => Live(i)' = Live(i)
  BY Stored
<1>1a. \A k \in Keys : k # req[r].key =>
         /\ rows'[k] = None <=> rows[k] = None
         /\ rows[k] # None => /\ rows'[k].id = rows[k].id /\ rows'[k].po = rows[k].po
                              /\ rows[k].id \notin upset => rows'[k] = rows[k]
  BY <1>1, KeptRow DEF StudyInv
<1>2. /\ study' = study /\ known' = known /\ upset' = upset /\ req[r].pc = "store" /\ Held(req[r])
  BY DEF Store, Held
<1>3. Shape(s, req[s]) /\ Guarded(req[s]) /\ Current(s, req[s]) /\ Right(req[s]) /\ Alone(req[s])
  BY DEF StudyInv, Sound
<1>4. /\ req[r].row.id \in Things(req[r])
      /\ req[r].key = r => rows[r] = None
      /\ req[r].key # r => rows[req[r].key] # None
  BY <1>1, <1>2 DEF StudyInv, Sound, Shape, Things, Row
<1>5. Held(req[s]) /\ req[s].key = req[r].key => Things(req[r]) \subseteq upset /\ Things(req[s]) \subseteq upset
  BY <1>2, Apart DEF StudyInv, Whole
<1>6. ASSUME NEW i \in req[s].about \cap Ids, i \notin upset PROVE Live(i)' = Live(i)
  BY <1>1, <1>6 DEF StudyInv, Overlap, Conflict
<1>7. Shape(s, req[s])'
  <2>3. rows'[s] # None <=> rows[s] # None
    BY <1>1, <1>1a, <1>4 DEF Keys
  <2>4. Held(req[s]) /\ rows[req[s].key] # None => rows'[req[s].key] # None
    BY <1>1, <1>1a, <1>3 DEF Shape
  <2>5. Calm(req[s])' <=> Calm(req[s])
    BY <1>2 DEF Calm, Things
  <2> QED
    BY <1>2, <1>3, <2>3, <2>4, <2>5 DEF Shape, Held, Things
<1>8. Guarded(req[s])'
  <2>1. CASE req[s].key = req[r].key
    BY <1>1, <1>2, <1>3, <1>4, <1>5, <2>1 DEF Guarded, Shape, Held, Things
  <2>2. CASE req[s].key # req[r].key
    BY <1>1a, <1>2, <1>3, <2>2 DEF Guarded, Shape, Held, Things
  <2> QED
    BY <2>1, <2>2
<1>9. Current(s, req[s])'
  <2> SUFFICES ASSUME Held(req[s]), Calm(req[s]) PROVE Current(s, req[s])'
    BY <1>2 DEF Current, Held, Calm, Things
  <2>1. req[s].row.id \in Things(req[s])
    BY <1>3 DEF Shape, Row, Things
  <2>2. req[s].key # req[r].key /\ req[s].key \in Keys
    BY <1>3, <1>5, <2>1 DEF Calm, Shape
  <2>3. \A i \in Things(req[s]) : Live(i)' = Live(i)
    BY <1>6 DEF Calm, Things
  <2>4. req[s].key # s => rows'[req[s].key] = rows[req[s].key]
    <3>1. req[s].key # s => rows[req[s].key] # None /\ rows[req[s].key].id \in Ids
      BY <1>3, <2>2 DEF Shape, StudyInv, StudyTypeOK, Row
    <3>2. req[s].key # s => rows[req[s].key].id \notin upset
      BY <1>3, <2>1, <3>1 DEF Guarded, Calm, Things
    <3> QED
      BY <1>1a, <2>2, <3>1, <3>2
  <2> QED
    BY <1>1, <1>3, <2>2, <2>3, <2>4 DEF Current, Things, Shape, Held
<1>10. Right(req[s])'
  <2> SUFFICES ASSUME NEW i \in (req[s].about \cap StudyIds) \ upset PROVE Live(i)' = Live(i)
    BY <1>2, <1>3 DEF Right, Same
  <2> QED
    BY <1>6 DEF Ids
<1>11. Alone(req[s])'
  <2> SUFFICES ASSUME NEW p \in POs \ upset, Gives(req[s], p), NEW l \in Keys, rows'[l] # None,
                      rows'[l].st # "Disabled", rows'[l].po = p, l # req[s].key, rows'[l].id \notin upset
               PROVE  FALSE
    BY <1>2 DEF Alone, Gives
  <2>1. CASE l = req[r].key
    <3>1. Gives(req[r], p)
      BY <1>1, <1>2, <2>1 DEF Gives
    <3> QED
      BY <3>1 DEF StudyInv, NotBoth
  <2>2. CASE l # req[r].key
    BY <1>1a, <1>3, <2>2 DEF Alone
  <2> QED
    BY <2>1, <2>2
<1> QED
  BY <1>7, <1>8, <1>9, <1>10, <1>11 DEF Sound

\* The row is stored over the one it was made from, or its project is upset.
LEMMA StoreStep == ASSUME StudyInv, Along, NEW r \in Requests, Store(r) PROVE StudyInv'
<1>1. /\ req[r].key \in Keys /\ req[r].row \in Row /\ req[r].row # None
      /\ rows'[req[r].key] = req[r].row /\ \A k \in Keys : k # req[r].key => Kept(k)
      /\ \A i \in Ids \ upset : i \notin req[r].about => Live(i)' = Live(i)
      /\ \A i \in Things(req[r]) \ upset :
           Live(i)' = IF req[r].row.id = i /\ req[r].row.st # "Disabled" THEN {req[r].key} ELSE {}
  BY Stored
<1>1a. \A k \in Keys : k # req[r].key =>
         /\ rows'[k] \in Row \cup {None} /\ (rows'[k] = None <=> rows[k] = None)
         /\ rows[k] # None => /\ rows'[k].id = rows[k].id /\ rows'[k].po = rows[k].po
                              /\ rows'[k].st = rows[k].st \/ rows'[k].st = "Disabled"
                              /\ rows[k].id \notin upset => rows'[k] = rows[k]
  BY <1>1, KeptRow DEF StudyInv
<1>2. /\ study' = study /\ known' = known /\ upset' = upset /\ req[r].pc = "store" /\ Held(req[r])
      /\ Become(r, Done) /\ DOMAIN rows' = Keys
      /\ rows' = [k \in Keys |-> IF k = req[r].key THEN req[r].row
                                ELSE IF k \in req[r].off THEN [rows[k] EXCEPT !.st = "Disabled"] ELSE rows[k]]
  BY DEF Store, Held
<1>3. req'[r] = Done /\ \A s \in Requests : s # r => req'[s] = req[s]
  BY <1>2 DEF Become, StudyInv, StudyTypeOK
<1>4. /\ Shape(r, req[r]) /\ Right(req[r]) /\ Alone(req[r])
  BY DEF StudyInv, Sound
<1>5. StudyTypeOK'
  <2>1. \A k \in Keys : rows'[k] \in Row \cup {None}
    BY <1>1, <1>1a
  <2>2. rows' \in [Keys -> Row \cup {None}]
    BY <1>2, <2>1
  <2> QED
    BY <1>2, <2>2, FreshFields DEF StudyInv, StudyTypeOK, Become
<1>6. Overlap' /\ Whole'
  BY <1>2, <1>3, FreshFields DEF StudyInv, Overlap, Whole, Conflict, Calm, Things
<1>7. Known'
  <2> SUFFICES ASSUME NEW k \in Keys, rows'[k] # None
               PROVE  rows'[k].id \in known /\ (rows'[k].st = "New" => rows'[k].po = NoPO)
    BY <1>2 DEF Known, StudyInv
  <2>1. CASE k = req[r].key
    BY <1>1, <1>2, <1>4, <2>1 DEF Shape
  <2>2. CASE k # req[r].key
    BY <1>1a, <2>2 DEF StudyInv, Known
  <2> QED
    BY <2>1, <2>2
<1>8. Settled'
  <2> SUFFICES ASSUME NEW i \in StudyIds \ upset, \A s \in Requests : i \notin req'[s].about
               PROVE  Same(i)'
    BY <1>2 DEF Settled
  <2>1. \A s \in Requests : s # r => i \notin req[s].about
    BY <1>3
  <2>2. CASE i \in req[r].about
    <3>0. i \in Things(req[r]) \ upset /\ Calm(req[r])
      BY <2>2 DEF Things, Ids, StudyInv, Whole
    <3>1. i = req[r].row.id /\ i \in Things(req[r]) \ upset
      BY <1>2, <1>4, <2>2, <3>0 DEF Shape
    <3>2. req[r].row.st = "Disabled" <=> study[i] # "on"
      BY <1>2, <1>4, <2>2 DEF Right
    <3> QED
      BY <1>1, <1>2, <3>1, <3>2 DEF Same
  <2>3. CASE i \notin req[r].about
    <3>1. Same(i)
      BY <2>1, <2>3 DEF StudyInv, Settled
    <3> QED
      BY <1>1, <1>2, <2>3, <3>1 DEF Same, Ids
  <2> QED
    BY <2>2, <2>3
<1>9. NotBoth'
  BY <1>2, <1>3, FreshFields DEF StudyInv, NotBoth, Gives
<1>10. OneRowEach'
  <2> SUFFICES ASSUME NEW i \in Ids \ upset, NEW k \in Live(i)', NEW l \in Live(i)' PROVE k = l
    BY <1>2 DEF OneRowEach
  <2>1. CASE i \in req[r].about
    BY <1>1, <2>1 DEF Things
  <2>2. CASE i \notin req[r].about
    BY <1>1, <2>2 DEF StudyInv, OneRowEach
  <2> QED
    BY <2>1, <2>2
<1>11. OneProjectPerPO'
  <2>0. upset' = upset
    BY <1>2
  <2> SUFFICES ASSUME NEW k \in (UNION {Live(i) : i \in Ids})', NEW l \in (UNION {Live(i) : i \in Ids})',
                      k # l, rows'[k].po = rows'[l].po, rows'[k].po # NoPO,
                      {rows'[k].po, rows'[k].id, rows'[l].id} \cap upset = {}
               PROVE  FALSE
    BY <2>0 DEF OneProjectPerPO
  <2> PICK i \in Ids, j \in Ids : k \in Live(i)' /\ l \in Live(j)'
    OBVIOUS
  <2>1. /\ k \in Keys /\ rows'[k] # None /\ rows'[k].id = i /\ rows'[k].st # "Disabled"
        /\ l \in Keys /\ rows'[l] # None /\ rows'[l].id = j /\ rows'[l].st # "Disabled"
        /\ rows'[k].po \in POs \ upset
    BY <1>5 DEF Live, StudyTypeOK, Row
  <2>2. ASSUME NEW m \in Keys, NEW n \in Keys, m = req[r].key, n # m, rows'[n] # None,
               rows'[m].st # "Disabled", rows'[n].st # "Disabled", rows'[m].po \in POs \ upset,
               rows'[m].po = rows'[n].po, rows'[m].id \notin upset, rows'[n].id \notin upset
        PROVE  FALSE
    <3>1. Gives(req[r], rows'[m].po)
      BY <1>1, <1>2, <2>2 DEF Gives
    <3>2. rows[n] # None /\ rows[n] = rows'[n]
      BY <1>1a, <2>2
    <3> QED
      BY <1>1, <1>4, <2>2, <3>1, <3>2 DEF Alone
  <2>3. CASE k = req[r].key
    BY <2>1, <2>2, <2>3
  <2>4. CASE l = req[r].key
    BY <2>1, <2>2, <2>4
  <2>5. CASE k # req[r].key /\ l # req[r].key
    <3>1. rows'[k] = rows[k] /\ rows'[l] = rows[l]
      BY <1>1a, <1>2, <2>1, <2>5
    <3>2. k \in Live(i) /\ l \in Live(j)
      BY <2>1, <3>1 DEF Live
    <3> QED
      BY <3>1, <3>2 DEF StudyInv, OneProjectPerPO
  <2> QED
    BY <2>3, <2>4, <2>5
<1>12. Sound(r, req[r])'
  BY <1>3, FreshFields DEF Sound, Shape, Guarded, Current, Right, Alone, Held, Things, Gives
<1>13. \A s \in Requests : Sound(s, req[s])'
  BY <1>3, <1>12, StoredElsewhere
<1> QED
  BY <1>5, <1>6, <1>7, <1>8, <1>9, <1>10, <1>11, <1>13 DEF StudyInv

-----------------------------------------------------------------------------
(* The theorems.                                                            *)

LEMMA StudyInitInv == StudyInit => StudyInv
<1> SUFFICES ASSUME StudyInit PROVE StudyInv
  OBVIOUS
<1>1. PICK seed \in Seeds :
        /\ rows = [k \in Keys |-> IF k \in DOMAIN seed THEN seed[k] ELSE None]
        /\ study = [i \in StudyIds |-> IF i \in DOMAIN seed THEN "on" ELSE "none"]
        /\ known = DOMAIN seed
  BY DEF StudyInit
<1>2. req = [r \in Requests |-> Fresh] /\ upset = {}
  BY DEF StudyInit
<1>3. /\ \A k \in known : /\ k = seed[k].id /\ seed[k] \in Row /\ seed[k].st # "Disabled"
                          /\ seed[k].st = "New" => seed[k].po = NoPO
      /\ \A k, l \in known : seed[k].po = seed[l].po => k = l \/ seed[k].po = NoPO
  BY <1>1, StudyAssumption
<1>4. \A k \in known : k \in Ids /\ k \in Keys /\ rows[k] = seed[k] /\ rows[k] # None
  BY <1>1, <1>3, StudyAssumption DEF Row, Keys
<1>5. \A k \in Keys : rows[k] # None => k \in known
  BY <1>1
<1>6. StudyTypeOK
  BY <1>1, <1>2, <1>3, <1>4, FreshFields DEF StudyTypeOK
<1>7. \A i \in Ids : Live(i) = IF i \in known THEN {i} ELSE {}
  BY <1>3, <1>4, <1>5 DEF Live
<1>8. \A r \in Requests : rows[r] = None /\ req[r] = Fresh
  BY <1>2, <1>4, <1>5, StudyAssumption DEF Keys
<1>9. Overlap /\ Whole /\ NotBoth
  BY <1>8, FreshFields DEF Overlap, Whole, NotBoth, Conflict, Calm, Things, Gives
<1>10. Known
  BY <1>1, <1>3, <1>4, <1>5 DEF Known
<1>11. Settled
  BY <1>1, <1>7 DEF Settled, Same, Ids
<1>12. OneRowEach
  BY <1>7 DEF OneRowEach
<1>13. OneProjectPerPO
  <2> SUFFICES ASSUME NEW i \in Ids, NEW j \in Ids, NEW k \in Live(i), NEW l \in Live(j), k # l,
                      rows[k].po = rows[l].po, rows[k].po # NoPO
               PROVE  FALSE
    BY DEF OneProjectPerPO
  <2>1. k \in known /\ l \in known
    BY <1>7
  <2> QED
    BY <1>3, <1>4, <2>1
<1>14. ASSUME NEW r \in Requests PROVE Sound(r, req[r])
  BY <1>8, FreshFields DEF Sound, Shape, Guarded, Current, Right, Alone, Held, Gives
<1> QED
  BY <1>6, <1>9, <1>10, <1>11, <1>12, <1>13, <1>14 DEF StudyInv

\* What is to be disabled along stays upset.
LEMMA AlongStep == StudyInv /\ Along /\ [StudyNext]_studyVars => Along'
<1> SUFFICES ASSUME StudyInv, Along, [StudyNext]_studyVars PROVE Along'
  OBVIOUS
<1>1. CASE UNCHANGED studyVars
  BY <1>1 DEF studyVars, Along
<1>2. CASE StudyNext
  <2>1. PICK r \in Requests :
          \/ Create(r) \/ EditPO(r) \/ Initiate(r) \/ DisableDummy(r) \/ Disable(r) \/ Told(r)
          \/ AskedToRemove(r) \/ Proceed(r) \/ Lose(r)
    BY <1>2 DEF StudyNext
  <2>2. Done.off = {} /\ Fresh.off = {} /\ Done.pc = "done" /\ Fresh \in Request
    BY FreshFields DEF Done, Fresh
  <2>3. req \in [Requests -> Request] /\ upset \subseteq Ids \cup POs
    BY DEF StudyInv, StudyTypeOK
  <2>4. ASSUME rows' = rows, upset \subseteq upset', NEW q, Become(r, q),
               q.pc # "store" => q.off = {},
               \A k \in q.off : rows[k] # None /\ rows[k].id \in upset'
        PROVE  Along'
    <3>1. req'[r] = q /\ \A s \in Requests : s # r => req'[s] = req[s]
      BY <2>3, <2>4 DEF Become
    <3>2. \A s \in Requests : s # r =>
            /\ req'[s].pc # "store" => req'[s].off = {}
            /\ \A k \in req'[s].off : rows'[k] # None /\ rows'[k].id \in upset'
      BY <2>4, <3>1 DEF Along
    <3>3. /\ req'[r].pc # "store" => req'[r].off = {}
          /\ \A k \in req'[r].off : rows'[k] # None /\ rows'[k].id \in upset'
      BY <2>4, <3>1
    <3> QED
      BY <3>2, <3>3 DEF Along
  <2>5. ASSUME NEW op \in Ops, NEW things, NEW q, q \in Request, Begin(r, op, things, q), q.off = {}, rows' = rows
        PROVE  Along'
    <3>1. PICK n : n = [q EXCEPT !.op = op, !.about = things]
      OBVIOUS
    <3>2. Become(r, n) /\ upset \subseteq upset'
      BY <2>5, <3>1 DEF Begin, Become
    <3>3. n.off = {}
      BY <2>5, <3>1 DEF Request
    <3> QED
      BY <2>4, <2>5, <3>2, <3>3
  <2>6. CASE Create(r)
    <3>1. PICK d \in Dummies, p \in POs \cup {NoPO}, c \in Centers :
            Begin(r, "create", {d, p} \ {NoPO},
                  Posting(Fresh, r, [id |-> d, st |-> IF p = NoPO THEN "New" ELSE "Active", po |-> p, cc |-> c]))
      BY <2>6 DEF Create
    <3>2. PICK row : row = [id |-> d, st |-> IF p = NoPO THEN "New" ELSE "Active", po |-> p, cc |-> c]
      OBVIOUS
    <3>3. row \in Row /\ r \in Keys
      BY <3>2 DEF Row, Ids, Keys
    <3>4. Posting(Fresh, r, row) \in Request /\ Posting(Fresh, r, row).off = {}
      BY <2>2, <3>3, PostingFields
    <3>5. "create" \in Ops /\ rows' = rows
      BY <2>6, <3>1 DEF Create, Begin
    <3> QED
      BY <2>5, <3>1, <3>2, <3>4, <3>5
  <2>7. CASE EditPO(r)
    <3>0. PICK i \in Ids, p \in POs \cup {NoPO} : \E k \in Live(i) :
            Begin(r, "po", {i, p} \ {NoPO}, [Fresh EXCEPT !.pc = "check", !.po = p, !.key = k, !.row = rows[k]])
      BY <2>7 DEF EditPO
    <3>1. PICK k \in Live(i) :
            Begin(r, "po", {i, p} \ {NoPO}, [Fresh EXCEPT !.pc = "check", !.po = p, !.key = k, !.row = rows[k]])
      BY <3>0
    <3>2. PICK f, q : f = Fresh /\ q = [f EXCEPT !.pc = "check", !.po = p, !.key = k, !.row = rows[k]]
      OBVIOUS
    <3>3. k \in Keys /\ rows[k] \in Row
      BY LiveRow DEF StudyInv
    <3>4. q \in Request /\ q.off = {}
      BY <2>2, <3>2, <3>3 DEF Request
    <3>5. "po" \in Ops /\ rows' = rows
      BY <2>7, <3>1 DEF EditPO, Begin
    <3> QED
      BY <2>5, <3>1, <3>2, <3>4, <3>5
  <2>8. CASE Initiate(r)
    <3>1. PICK d \in Dummies, s \in {None} \cup StudyIds :
            Begin(r, "initiate", {d, s} \ {None}, [Fresh EXCEPT !.pc = "answer", !.id = d, !.to = s])
      BY <2>8 DEF Initiate
    <3>2. PICK f, q : f = Fresh /\ q = [f EXCEPT !.pc = "answer", !.id = d, !.to = s]
      OBVIOUS
    <3>4. q \in Request /\ q.off = {}
      BY <2>2, <3>2 DEF Request, Ids
    <3>5. "initiate" \in Ops /\ rows' = rows
      BY <2>8, <3>1 DEF Initiate, Begin
    <3> QED
      BY <2>5, <3>1, <3>2, <3>4, <3>5
  <2>9. CASE DisableDummy(r)
    <3>0. PICK i \in Dummies : \E k \in Live(i) : Begin(r, "disable", {i}, Disabling(Fresh, k))
      BY <2>9 DEF DisableDummy
    <3>1. PICK k \in Live(i) : Begin(r, "disable", {i}, Disabling(Fresh, k))
      BY <3>0
    <3>2. PICK row : row = [rows[k] EXCEPT !.st = "Disabled"]
      OBVIOUS
    <3>3. k \in Keys /\ rows[k] \in Row
      BY LiveRow DEF StudyInv, Ids
    <3>4. row \in Row
      BY <3>2, <3>3 DEF Row
    <3>5. Disabling(Fresh, k) \in Request /\ Disabling(Fresh, k).off = {}
      BY <2>2, <3>2, <3>3, <3>4, PostingFields DEF Disabling
    <3>6. "disable" \in Ops /\ rows' = rows
      BY <2>9, <3>1 DEF DisableDummy, Begin
    <3> QED
      BY <2>5, <3>1, <3>5, <3>6
  <2>10. CASE Disable(r)
    <3>1. PICK i \in StudyIds, ok \in BOOLEAN :
            Begin(r, "disable", {i}, [Fresh EXCEPT !.pc = "answer", !.id = i, !.ok = ok])
      BY <2>10 DEF Disable
    <3>2. PICK f, q : f = Fresh /\ q = [f EXCEPT !.pc = "answer", !.id = i, !.ok = ok]
      OBVIOUS
    <3>4. q \in Request /\ q.off = {}
      BY <2>2, <3>2 DEF Request, Ids
    <3>5. "disable" \in Ops /\ rows' = rows
      BY <2>10, <3>1 DEF Disable, Begin
    <3> QED
      BY <2>5, <3>1, <3>2, <3>4, <3>5
  <2>11. CASE Told(r)
    <3>1. PICK i \in StudyIds, list \in CenterLists, mapped \in SUBSET Centers :
            \/ Begin(r, "told", {i}, Posting(Fresh, r, [id |-> i, st |-> "New", po |-> NoPO, cc |-> Head(list)]))
            \/ Begin(r, "told", {i}, [Fresh EXCEPT !.pc = "again", !.id = i])
      BY <2>11 DEF Told
    <3>2. PICK row : row = [id |-> i, st |-> "New", po |-> NoPO, cc |-> Head(list)]
      OBVIOUS
    <3>3. Head(list) \in Centers
      BY StudyAssumption, HeadTailProperties
    <3>4. row \in Row /\ r \in Keys
      BY <3>2, <3>3 DEF Row, Ids, Keys
    <3>5. Posting(Fresh, r, row) \in Request /\ Posting(Fresh, r, row).off = {}
      BY <2>2, <3>4, PostingFields
    <3>6. PICK f, q : f = Fresh /\ q = [f EXCEPT !.pc = "again", !.id = i]
      OBVIOUS
    <3>7. q \in Request /\ q.off = {}
      BY <2>2, <3>6 DEF Request, Ids
    <3>8. "told" \in Ops /\ rows' = rows
      BY <2>11, <3>1 DEF Told, Begin
    <3> QED
      BY <2>5, <3>1, <3>2, <3>5, <3>6, <3>7, <3>8
  <2>12. CASE AskedToRemove(r)
    <3>1. PICK i \in StudyIds, list \in CenterLists, mapped \in SUBSET Centers :
            \E n \in DOMAIN list :
              /\ list[n] \in Selected(list, mapped)
              /\ Begin(r, "remove", {i},
                   [Fresh EXCEPT !.pc = "again", !.id = i, !.maps = Selected(list, mapped), !.last = list[n]])
      BY <2>12 DEF AskedToRemove
    <3>2. PICK n \in DOMAIN list :
              /\ list[n] \in Selected(list, mapped)
              /\ Begin(r, "remove", {i},
                   [Fresh EXCEPT !.pc = "again", !.id = i, !.maps = Selected(list, mapped), !.last = list[n]])
      BY <3>1
    <3>3. PICK f, maps, last, q : f = Fresh /\ maps = Selected(list, mapped) /\ last = list[n]
            /\ q = [f EXCEPT !.pc = "again", !.id = i, !.maps = maps, !.last = last]
      OBVIOUS
    <3>4. maps \subseteq Centers /\ last \in Centers
      BY <3>2, <3>3 DEF Selected
    <3>5. q \in Request /\ q.off = {}
      BY <2>2, <3>3, <3>4 DEF Request, Ids
    <3>6. "remove" \in Ops /\ rows' = rows
      BY <2>12, <3>1 DEF AskedToRemove, Begin
    <3> QED
      BY <2>5, <3>2, <3>3, <3>5, <3>6
  <2>13. CASE Lose(r)
    BY <2>2, <2>4, <2>13 DEF Lose
  <2>14. CASE Store(r)
    <3>1. \A k \in Keys : k # req[r].key => Kept(k)
      BY <2>14, Stored
    <3>2. /\ Held(req[r]) /\ upset' = upset /\ Become(r, Done) /\ req[r].key \in Keys
          /\ rows'[req[r].key] = req[r].row /\ req[r].row # None
      BY <2>14, Stored DEF Store, Held
    <3>3. req'[r] = Done /\ \A s \in Requests : s # r => req'[s] = req[s]
      BY <2>3, <3>2 DEF Become
    <3>4. ASSUME NEW s \in Requests, NEW k \in req[s].off
          PROVE  rows'[k] # None /\ rows'[k].id \in upset
      <4>1. k \in Keys /\ rows[k] # None /\ rows[k].id \in upset
        BY <2>3 DEF Along, Request
      <4>2. CASE k # req[r].key
        BY <3>1, <4>1, <4>2, KeptRow DEF StudyInv
      <4>3. CASE k = req[r].key
        <5>1. Guarded(req[r]) /\ req[r].row.id \in Things(req[r]) /\ rows[k].id \in Ids
          BY <3>2, <4>1 DEF StudyInv, Sound, Shape, Things, Row, StudyTypeOK
        <5>2. Things(req[r]) \subseteq upset
          BY <3>2, <4>1, <4>3, <5>1 DEF Guarded, StudyInv, Whole, Calm, Things
        <5> QED
          BY <3>2, <4>3, <5>1, <5>2
      <4> QED
        BY <4>2, <4>3
    <3> QED
      BY <2>2, <3>2, <3>3, <3>4 DEF Along
  <2>15. ASSUME NEW k, NEW row, k \in Keys, row \in Row, rows' = rows, upset' = upset,
                Become(r, Posting(req[r], k, row)), req[r].pc # "store"
         PROVE  Along'
    <3>1. Posting(req[r], k, row).off = {}
      BY <2>3, <2>15, PostingFields DEF Along
    <3> QED
      BY <2>4, <2>15, <3>1
  <2>16. CASE CheckPO(r)
    <3>1. PICK row : row = IF POTaken(req[r].po) THEN req[r].row
                           ELSE [req[r].row EXCEPT !.po = req[r].po, !.st = "Active"]
      OBVIOUS
    <3>2. req[r].row \in Row /\ req[r].key \in Keys /\ req[r].pc = "check"
      BY <2>16 DEF CheckPO, At, StudyInv, Sound, Shape, Held
    <3>3. row \in Row
      BY <2>3, <3>1, <3>2 DEF Row, Request
    <3> QED
      BY <2>15, <2>16, <3>1, <3>2, <3>3 DEF CheckPO
  <2>17. ASSUME NEW i, i \in Ids, NEW k, k \in Live(i), NEW st, st \in {"New", "Active", "Closed", "Disabled"}
         PROVE  k \in Keys /\ rows[k] \in Row /\ [rows[k] EXCEPT !.st = st] \in Row
    <3>1. k \in Keys /\ rows[k] \in Row
      BY <2>17, LiveRow DEF StudyInv
    <3> QED
      BY <2>17, <3>1 DEF Row
  <2>18. CASE InitiateAnswered(r)
    <3>1. req[r].id \in Ids /\ req[r].pc = "answer" /\ rows' = rows /\ upset' = upset
      BY <2>18 DEF InitiateAnswered, At, StudyInv, Sound, Shape, Ids
    <3>2. CASE Become(r, Done)
      BY <2>2, <2>4, <3>1, <3>2
    <3>3. CASE ~Become(r, Done)
      <4>1. PICK k \in Live(req[r].id) : Become(r, Posting(req[r], k, [rows[k] EXCEPT !.id = req[r].to]))
        BY <2>18, <3>3 DEF InitiateAnswered
      <4>2. PICK row : row = [rows[k] EXCEPT !.id = req[r].to]
        OBVIOUS
      <4>3. k \in Keys /\ rows[k] \in Row /\ req[r].to \in StudyIds
        BY <2>3, <2>18, <3>1, <3>3, LiveRow DEF InitiateAnswered, StudyInv, Request
      <4>4. row \in Row
        BY <4>2, <4>3 DEF Row, Ids
      <4> QED
        BY <2>15, <3>1, <4>1, <4>2, <4>3, <4>4
    <3> QED
      BY <3>2, <3>3
  <2>19. CASE DisableAnswered(r)
    <3>1. req[r].id \in Ids /\ req[r].pc = "answer" /\ rows' = rows /\ upset' = upset
      BY <2>19 DEF DisableAnswered, At, StudyInv, Sound, Shape, Ids
    <3>2. CASE Become(r, Done)
      BY <2>2, <2>4, <3>1, <3>2
    <3>3. CASE ~Become(r, Done)
      <4>1. PICK k \in Live(req[r].id) : Become(r, Posting(req[r], k, [rows[k] EXCEPT !.st = "Disabled"]))
        BY <2>19, <3>3 DEF DisableAnswered, Disabling
      <4> QED
        BY <2>15, <2>17, <3>1, <4>1
    <3> QED
      BY <3>2, <3>3
  <2>20. CASE Close(r)
    <3>1. req[r].id \in Ids /\ req[r].pc = "again" /\ rows' = rows /\ upset' = upset
      BY <2>20 DEF Close, At, StudyInv, Sound, Shape, Ids
    <3>2. CASE Become(r, Done)
      BY <2>2, <2>4, <3>1, <3>2
    <3>3. CASE ~Become(r, Done)
      <4>1. PICK k \in Live(req[r].id) : Become(r, Posting(req[r], k, [rows[k] EXCEPT !.st = "Closed"]))
        BY <2>20, <3>3 DEF Close
      <4> QED
        BY <2>15, <2>17, <3>1, <4>1
    <3> QED
      BY <3>2, <3>3
  <2>21. CASE RemoveFound(r)
    <3> DEFINE last == {k \in UNION {Live(i) : i \in Within[req[r].id]} : rows[k].cc = req[r].last}
               things == req[r].about \cup {rows[k].id : k \in last}
    <3>1. /\ req[r].id \in StudyIds /\ req[r].pc = "again" /\ rows' = rows
          /\ req[r].about = {req[r].id}
      BY <2>21 DEF RemoveFound, At, StudyInv, Sound, Shape
    <3>2. CASE Become(r, Done)
      <4>1. upset \subseteq upset'
        BY <2>21 DEF RemoveFound
      <4> QED
        BY <2>2, <2>4, <3>1, <3>2, <4>1
    <3>3. ASSUME NEW L \in OneEach(last), NEW k \in L,
                 Become(r, [Disabling(req[r], k) EXCEPT !.off = L \ {k}, !.about = things]),
                 upset' = IF things = req[r].about THEN upset
                          ELSE upset \cup things \cup UNION {req[s].about : s \in Others(things)}
          PROVE  Along'
      <4>1. /\ L \subseteq last /\ \A l, m \in L : rows[l].id = rows[m].id => l = m
        BY DEF OneEach
      <4>2. Within[req[r].id] \subseteq Ids
        BY <3>1, StudyAssumption
      <4>3. \A l \in last : /\ l \in Keys /\ rows[l] \in Row /\ rows[l] # None
                            /\ rows[l].id \in things
        BY <4>2, LiveRow DEF StudyInv
      <4>4. PICK row : row = [rows[k] EXCEPT !.st = "Disabled"]
        OBVIOUS
      <4>5. row \in Row /\ k \in Keys
        BY <4>1, <4>3, <4>4 DEF Row
      <4>6. PICK p, t : p = Posting(req[r], k, row) /\ t = things
        OBVIOUS
      <4>7. p \in Request /\ p.pc = "store"
        BY <2>3, <4>5, <4>6, PostingFields
      <4>8. PICK q : q = [p EXCEPT !.off = L \ {k}, !.about = t]
        OBVIOUS
      <4>9. q.off = L \ {k} /\ q.pc = "store" /\ Become(r, q)
        BY <3>3, <4>4, <4>6, <4>7, <4>8 DEF Request, Disabling
      <4>10. CASE things = req[r].about
        <5>1. \A l \in L : rows[l].id = req[r].id
          BY <3>1, <4>1, <4>3, <4>10
        <5>2. q.off = {}
          BY <4>1, <4>9, <5>1
        <5> QED
          BY <2>4, <3>1, <3>3, <4>9, <4>10, <5>2
      <4>11. CASE things # req[r].about
        <5>1. \A l \in L : rows[l] # None /\ rows[l].id \in upset'
          BY <3>3, <4>1, <4>3, <4>11
        <5> QED
          BY <2>4, <3>1, <3>3, <4>9, <4>11, <5>1
      <4> QED
        BY <4>10, <4>11
    <3>4. \/ Become(r, Done)
          \/ \E L \in OneEach(last) : \E k \in L :
               /\ Become(r, [Disabling(req[r], k) EXCEPT !.off = L \ {k}, !.about = things])
               /\ upset' = IF things = req[r].about THEN upset
                           ELSE upset \cup things \cup UNION {req[s].about : s \in Others(things)}
      BY <2>21 DEF RemoveFound
    <3> QED
      BY <3>2, <3>3, <3>4
  <2> QED
    BY <2>1, <2>6, <2>7, <2>8, <2>9, <2>10, <2>11, <2>12, <2>13, <2>14, <2>16, <2>18, <2>19, <2>20,
       <2>21 DEF Proceed
<1> QED
  BY <1>1, <1>2

LEMMA StudyStep == StudyInv /\ Along /\ [StudyNext]_studyVars => StudyInv'
<1> SUFFICES ASSUME StudyInv, Along, [StudyNext]_studyVars PROVE StudyInv'
  OBVIOUS
<1>1. CASE UNCHANGED studyVars
  BY <1>1 DEF studyVars, StudyInv, StudyTypeOK, Overlap, Whole, Known, Settled, NotBoth, OneRowEach,
              OneProjectPerPO, Sound, Shape, Guarded, Current, Right, Alone, Same, Gives, Calm, Held, Things, Live
<1>2. CASE StudyNext
  <2>1. PICK r \in Requests :
          \/ Create(r) \/ EditPO(r) \/ Initiate(r) \/ DisableDummy(r) \/ Disable(r) \/ Told(r)
          \/ AskedToRemove(r) \/ Proceed(r) \/ Lose(r)
    BY <1>2 DEF StudyNext
  <2>2. CASE Proceed(r)
    BY <2>2, StoreStep, CheckPOStep, InitiateAnsweredStep, DisableAnsweredStep, CloseStep,
       RemoveFoundStep DEF Proceed
  <2> QED
    BY <2>1, <2>2, CreateStep, EditPOStep, InitiateStep, DisableDummyStep, DisableStep, ToldStep,
       AskedToRemoveStep, LoseStep
<1> QED
  BY <1>1, <1>2

THEOREM StudyInvariant == StudySpec => []StudyInv
<1>1. StudyInit => Along
  BY DEF StudyInit, Along, Fresh
<1> QED
  BY <1>1, StudyInitInv, StudyStep, AlongStep, PTL DEF StudySpec

\* The rows, the requests and the projects of the study system are what they are meant to be:
\* no handler takes a missing row for a row, and no step names a key that there is no row for.
THEOREM StudyTypes == StudySpec => []StudyTypeOK
<1>1. StudyInv => StudyTypeOK
  BY DEF StudyInv
<1> QED
  BY <1>1, StudyInvariant, PTL

\* Whatever initiations, disablings and calls of the study system there are, in whatever order,
\* refused or not: a project has one row here, and when nothing about it is under way it is here
\* if and only if the study system has it, unless requests about it overlapped or one was lost.
THEOREM SystemsStayTogether == StudySpec => []SystemsAgree
<1>1. StudyInv => SystemsAgree
  <2> SUFFICES ASSUME StudyInv, NEW i \in (StudyIds \cap known) \ upset, Others({i}) = {}
               PROVE  Live(i) # {} <=> study[i] = "on"
    BY DEF SystemsAgree, SameOnBothSides, StudyInv
  <2>1. \A r \in Requests : i \notin req[r].about
    BY DEF Others
  <2> QED
    BY <2>1 DEF StudyInv, Settled, Same
<1> QED
  BY <1>1, StudyInvariant, PTL

\* A PO number is that of one project, unless it was given to two at a time or requests about
\* one of them got in each other's way: one that validatePONum() finds free stays free until
\* the row that takes it is stored.
THEOREM NumbersStayUnique == StudySpec => []OneProjectPerPO
<1>1. StudyInv => OneProjectPerPO
  BY DEF StudyInv
<1> QED
  BY <1>1, StudyInvariant, PTL

-----------------------------------------------------------------------------
(* The generator of the ids.  For any set of requests that share one       *)
(* generator, every id nextValue() returns is larger than the ids it       *)
(* returned before.  The inductive invariant adds to the type invariant:   *)
(* the lock admits one call at a time; at most one counter exists, and a   *)
(* call between its query and its commit still knows its value; no issued  *)
(* id exceeds the counter.                                                 *)

\* All requests go through one servlet of one instance.
OneLock == \A c, d \in Callers : GenOf[c] = GenOf[d]

\* A call is inside nextValue() exactly when it holds the lock of its generator.
Exclusion == \A c \in Callers : pc[c] # "idle" <=> lock[GenOf[c]] = c

\* What a call inside nextValue() knows of the counter.
Knowledge ==
    \A c \in Callers :
        /\ pc[c] \in {"create", "commitCreate"} => counters = <<>>
        /\ pc[c] \in {"requery", "write", "commitWrite"} => Len(counters) = 1
        /\ pc[c] \in {"write", "commitWrite"} => val[c] = counters[1]

\* The one counter bounds every id issued so far.
Bounded ==
    /\ Len(counters) <= 1
    /\ counters = <<>> => issued = <<>>
    /\ \A i \in DOMAIN issued : issued[i] <= counters[1]

SeqInv == TypeOK /\ Exclusion /\ Knowledge /\ Bounded /\ IdsIncrease

\* A single counter holds a natural number.
LEMMA CounterIsNat ==
    ASSUME counters \in Seq(Nat), Len(counters) = 1
    PROVE  counters[1] \in Nat
  BY 1 \in 1..Len(counters), ElementOfSeq

\* Overwriting the first counter leaves a sequence of numbers.
LEMMA SetCounter ==
    ASSUME counters \in Seq(Nat), NEW n \in Nat
    PROVE  [counters EXCEPT ![1] = n] \in Seq(Nat)
<1>1. counters \in [1..Len(counters) -> Nat]
  OBVIOUS
<1>2. [counters EXCEPT ![1] = n] \in [1..Len(counters) -> Nat]
  BY <1>1
<1> QED
  BY <1>2, Len(counters) \in Nat

\* The types hold initially and every step keeps them, whoever shares a generator:
\* the state nextValue() works on is well formed for any number of generators.
THEOREM GeneratorTypeCorrect == Spec => []TypeOK
<1> USE SequenceAssumption
<1>1. Init => TypeOK
  BY DEF Init, TypeOK, Steps
<1>2. TypeOK /\ [Next]_vars => TypeOK'
  <2> SUFFICES ASSUME TypeOK, [Next]_vars PROVE TypeOK'
    OBVIOUS
  <2> USE DEF TypeOK, Steps
  <2>1. ASSUME NEW c \in Callers, Enter(c) PROVE TypeOK'
    BY <2>1 DEF Enter
  <2>2. ASSUME NEW c \in Callers, QueryNone(c) PROVE TypeOK'
    BY <2>2 DEF QueryNone
  <2>3. ASSUME NEW c \in Callers, QueryOne(c) PROVE TypeOK'
    <3>1. counters[1] \in Nat
      BY <2>3, CounterIsNat DEF QueryOne
    <3> QED
      BY <2>3, <3>1 DEF QueryOne
  <2>5. ASSUME NEW c \in Callers, BeginCreate(c) PROVE TypeOK'
    BY <2>5 DEF BeginCreate, BeginTransaction
  <2>6. ASSUME NEW c \in Callers, CommitCreate(c) PROVE TypeOK'
    BY <2>6 DEF CommitCreate, Overtake, InTransaction
  <2>7. ASSUME NEW c \in Callers, BeginWrite(c) PROVE TypeOK'
    BY <2>7 DEF BeginWrite, BeginTransaction
  <2>8. ASSUME NEW c \in Callers, CommitWrite(c) PROVE TypeOK'
    <3>1. counters' \in Seq(Nat)
      BY <2>8, SetCounter, val[c] + 1 \in Nat DEF CommitWrite
    <3>2. issued' \in Seq(Nat)
      BY <2>8 DEF CommitWrite
    <3> QED
      BY <2>8, <3>1, <3>2 DEF CommitWrite, Overtake, InTransaction, Leave
  <2>9. ASSUME NEW c \in Callers, CommitLost(c) PROVE TypeOK'
    <3>1. counters' \in Seq(Nat)
      BY <2>9, SetCounter, val[c] + 1 \in Nat DEF CommitLost
    <3> QED
      BY <2>9, <3>1 DEF CommitLost, Overtake, InTransaction, Leave
  <2>10. ASSUME NEW c \in Callers, Throw(c) PROVE TypeOK'
    BY <2>10 DEF Throw, Leave
  <2>11. ASSUME NEW c \in Callers, CreateLost(c) PROVE TypeOK'
    BY <2>11 DEF CreateLost, Overtake, InTransaction, Leave
  <2>12. CASE UNCHANGED vars
    BY <2>12 DEF vars
  <2> QED
    BY <2>1, <2>2, <2>3, <2>5, <2>6, <2>7, <2>8, <2>9, <2>10, <2>11, <2>12 DEF Next
<1> QED
  BY <1>1, <1>2, PTL DEF Spec

\* Two calls that share the one lock are never both inside nextValue().
LEMMA OneInside ==
    ASSUME OneLock, Exclusion, NEW c \in Callers, NEW d \in Callers,
           pc[c] # "idle", pc[d] # "idle"
    PROVE  c = d
  BY DEF OneLock, Exclusion

\* Appending a number above all of an increasing sequence keeps it increasing.
LEMMA AppendLarger ==
    ASSUME NEW s \in Seq(Nat), NEW n \in Nat,
           \A i \in DOMAIN s : s[i] <= n,
           \A i, j \in DOMAIN s : i < j => s[i] < s[j],
           NEW t, t = Append(s, n + 1)
    PROVE  /\ t # <<>>
           /\ \A i \in DOMAIN t : t[i] <= n + 1
           /\ \A i, j \in DOMAIN t : i < j => t[i] < t[j]
<1>1. /\ DOMAIN s = 1..Len(s)
      /\ DOMAIN t = 1..(Len(s) + 1)
      /\ \A i \in 1..Len(s) : t[i] = s[i] /\ s[i] \in Nat
      /\ t[Len(s) + 1] = n + 1
      /\ Len(s) \in Nat
  BY AppendProperties, ElementOfSeq, LenProperties, n + 1 \in Nat
<1>2. \A i \in DOMAIN t : t[i] <= n + 1
  BY <1>1
<1>3. \A i, j \in DOMAIN t : i < j => t[i] < t[j]
  BY <1>1
<1>4. t # <<>>
  BY AppendProperties, n + 1 \in Nat
<1> QED
  BY <1>2, <1>3, <1>4

\* With one generator the ids nextValue() returns strictly increase.
THEOREM IdsIncreaseWithOneLock ==
    ASSUME OneLock
    PROVE  Spec => []IdsIncrease
<1> USE SequenceAssumption
<1>1. Init => SeqInv
  BY DEF Init, SeqInv, TypeOK, Steps, Exclusion, Knowledge, Bounded, IdsIncrease
<1>2. ASSUME SeqInv, [Next]_vars, TypeOK' PROVE SeqInv'
  <2> USE <1>2 DEF SeqInv, TypeOK, Steps
  <2>0. \A c, d \in Callers : pc[c] # "idle" /\ pc[d] # "idle" => c = d
    BY OneInside
  <2>1. ASSUME NEW c \in Callers, Enter(c) PROVE SeqInv'
    BY <2>0, <2>1 DEF Enter, OneLock, Exclusion, Knowledge, Bounded, IdsIncrease
  <2>2. ASSUME NEW c \in Callers, QueryNone(c) PROVE SeqInv'
    BY <2>0, <2>2 DEF QueryNone, OneLock, Exclusion, Knowledge, Bounded, IdsIncrease
  <2>3. ASSUME NEW c \in Callers, QueryOne(c) PROVE SeqInv'
    BY <2>0, <2>3 DEF QueryOne, OneLock, Exclusion, Knowledge, Bounded, IdsIncrease
  <2>5. ASSUME NEW c \in Callers, BeginCreate(c) PROVE SeqInv'
    BY <2>0, <2>5 DEF BeginCreate, OneLock, Exclusion, Knowledge, Bounded, IdsIncrease
  <2>6. ASSUME NEW c \in Callers, CommitCreate(c) PROVE SeqInv'
    BY <2>0, <2>6 DEF CommitCreate, OneLock, Exclusion, Knowledge, Bounded, IdsIncrease
  <2>7. ASSUME NEW c \in Callers, BeginWrite(c) PROVE SeqInv'
    BY <2>0, <2>7 DEF BeginWrite, OneLock, Exclusion, Knowledge, Bounded, IdsIncrease
  <2>8. ASSUME NEW c \in Callers, CommitWrite(c) PROVE SeqInv'
    <3> USE <2>8 DEF CommitWrite
    <3>1. Exclusion'
      BY <2>0 DEF Leave, OneLock, Exclusion
    <3>2. Len(counters) = 1 /\ val[c] = counters[1] /\ counters[1] \in Nat
      BY CounterIsNat DEF Knowledge
    <3>3. Len(counters') = 1 /\ counters'[1] = counters[1] + 1
      BY <3>2, 1 \in 1..Len(counters), counters[1] + 1 \in Nat, ExceptSeq
    <3>4. Knowledge'
      BY <2>0, <3>3 DEF Leave, Knowledge
    <3>5. issued' = Append(issued, counters[1] + 1)
      BY <3>2
    <3>6. /\ \A i \in DOMAIN issued' : issued'[i] <= counters[1] + 1
          /\ \A i, j \in DOMAIN issued' : i < j => issued'[i] < issued'[j]
      BY <3>2, <3>5, AppendLarger DEF Bounded, IdsIncrease
    <3>7. Bounded' /\ IdsIncrease'
      BY <3>3, <3>6 DEF Bounded, IdsIncrease
    <3> QED
      BY <3>1, <3>4, <3>6, <3>7
  <2>9. ASSUME NEW c \in Callers, CommitLost(c) PROVE SeqInv'
    BY <2>0, <2>9 DEF CommitLost, Leave, OneLock, Exclusion, Knowledge, Bounded, IdsIncrease
  <2>10. ASSUME NEW c \in Callers, Throw(c) PROVE SeqInv'
    BY <2>0, <2>10 DEF Throw, Leave, OneLock, Exclusion, Knowledge, Bounded, IdsIncrease
  <2>11. ASSUME NEW c \in Callers, CreateLost(c) PROVE SeqInv'
    <3> USE <2>11 DEF CreateLost
    <3>1. Exclusion'
      BY <2>0 DEF Leave, OneLock, Exclusion
    <3>2. counters = <<>> /\ issued = <<>>
      BY DEF Knowledge, Bounded
    <3>3. Knowledge'
      BY <2>0 DEF Leave, Knowledge
    <3>4. Len(counters') = 1
      BY <3>2
    <3>5. Bounded' /\ IdsIncrease'
      BY <3>2, <3>4 DEF Bounded, IdsIncrease
    <3> QED
      BY <3>1, <3>3, <3>5
  <2>12. CASE UNCHANGED vars
    BY <2>12 DEF vars, Exclusion, Knowledge, Bounded, IdsIncrease
  <2> QED
    BY <2>1, <2>2, <2>3, <2>5, <2>6, <2>7, <2>8, <2>9, <2>10, <2>11, <2>12 DEF Next
<1>3. SeqInv => IdsIncrease
  BY DEF SeqInv
<1>4. SeqInv /\ [Next]_vars /\ TypeOK' => SeqInv'
  BY <1>2
<1> QED
  BY <1>1, <1>3, <1>4, GeneratorTypeCorrect, PTL DEF Spec
=============================================================================
