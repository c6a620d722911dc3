--------------------------- MODULE EditPageProofs ---------------------------
(***************************************************************************)
(* The budget page keeps what is on its way to the server apart: whatever  *)
(* its user does, in any order with the answers, for any projects, brands, *)
(* months and amounts.  The invariant is kept in four parts that look at   *)
(* different fields of the page: what the overlay is for, what is being    *)
(* saved, the Submit button, and the popup.  A second invariant is about   *)
(* the amounts: those of families and rows, what the filter remembers, the *)
(* total rows, and what posts bring to the server.                         *)
(***************************************************************************)
EXTENDS EditPage, DataLemmas

-----------------------------------------------------------------------------
(* the rows of the popup *)

LEMMA BlankIsSeq == Sequence(BlankRows) /\ \A i \in DOMAIN BlankRows : BlankRows[i] = BlankRow
<1>1. BlankRows \in [1..PopupRows -> {BlankRow}]
  BY DEF BlankRows
<1>2. Sequence(BlankRows)
  BY <1>1, PopupAssumption, FunctionIsSeq
<1> QED BY <1>2 DEF BlankRows

LEMMA RowsEdited ==
  ASSUME NEW s, Sequence(s), NEW i, NEW field, NEW b, NEW x, NEW y
  PROVE  /\ Sequence(Opened(s, i, field)) /\ Sequence([s EXCEPT ![i].brand = x])
         /\ Sequence([s EXCEPT ![i].total = x]) /\ Sequence(ShareOut(s)) /\ Sequence(Restored(s, i))
         /\ Sequence(Owned(s)) /\ Sequence([s EXCEPT ![1] = First(@)]) /\ Sequence(Single(s, x, y))
         /\ Sequence([j \in DOMAIN s |-> BlankRow])
<1>1. Sequence(Opened(s, i, field))
  <2> DEFINE t == Opened(s, i, field)
  <2>1. t = [j \in DOMAIN s |-> t[j]] \/ t = s
    BY DEF Opened
  <2> HIDE DEF t
  <2> QED BY <2>1, MappedIsSeq DEF t
<1>2. Sequence([s EXCEPT ![i].brand = x]) /\ Sequence([s EXCEPT ![i].total = x])
      /\ Sequence([s EXCEPT ![1] = First(@)])
  <2>1. \A u : [s EXCEPT ![i] = u] = [j \in DOMAIN s |-> [s EXCEPT ![i] = u][j]]
    OBVIOUS
  <2>2. \A u : [s EXCEPT ![1] = u] = [j \in DOMAIN s |-> [s EXCEPT ![1] = u][j]]
    OBVIOUS
  <2>3. \A u : Sequence([s EXCEPT ![i] = u]) /\ Sequence([s EXCEPT ![1] = u])
    BY <2>1, <2>2, MappedIsSeq
  <2> QED BY <2>3
<1>3. Sequence(ShareOut(s))
  <2> DEFINE t == ShareOut(s)
  <2>1. t = [j \in DOMAIN s |-> t[j]]
    BY DEF ShareOut
  <2> HIDE DEF t
  <2> QED BY <2>1, MappedIsSeq DEF t
<1>4. Sequence(Restored(s, i))
  <2> DEFINE t == Restored(s, i)
  <2>1. t = [j \in DOMAIN s |-> t[j]]
    BY DEF Restored
  <2> HIDE DEF t
  <2> QED BY <2>1, MappedIsSeq DEF t
<1>5. Sequence(Owned(s))
  <2> DEFINE t == Owned(s)
  <2>1. t = [j \in DOMAIN s |-> t[j]]
    BY DEF Owned
  <2> HIDE DEF t
  <2> QED BY <2>1, MappedIsSeq DEF t
<1>6. Sequence(Single(s, x, y))
  <2> DEFINE t == Single(s, x, y)
  <2>1. t = [j \in DOMAIN s |-> t[j]]
    BY DEF Single
  <2> HIDE DEF t
  <2> QED BY <2>1, MappedIsSeq DEF t
<1>7. Sequence([j \in DOMAIN s |-> BlankRow])
  <2> DEFINE t == [j \in DOMAIN s |-> BlankRow]
  <2>1. t = [j \in DOMAIN s |-> t[j]]
    OBVIOUS
  <2> HIDE DEF t
  <2> QED BY <2>1, MappedIsSeq DEF t
<1> QED BY <1>1, <1>2, <1>3, <1>4, <1>5, <1>6, <1>7

LEMMA GrownIsSeq == ASSUME NEW s, Sequence(s), NEW i PROVE Sequence(Grown(s, i))
BY AppendIs DEF Grown

LEMMA WithoutIsSeq ==
  ASSUME NEW s, Sequence(s), NEW gone \in SUBSET DOMAIN s
  PROVE  Sequence(Without(s, gone)) /\ Cardinality(gone) \in Nat
<1>1. IsFiniteSet(DOMAIN s)
  BY SeqFacts, FS_Interval
<1>2. IsFiniteSet(gone) /\ IsFiniteSet(DOMAIN s \ gone)
  BY <1>1, FS_Subset
<1>3. Cardinality(gone) \in Nat /\ Cardinality(DOMAIN s \ gone) \in Nat
  BY <1>2, FS_CardinalityType
<1> DEFINE t == Without(s, gone)
           n == Cardinality(DOMAIN s \ gone)
<1>4. DOMAIN t = 1..n /\ t = [j \in 1..n |-> t[j]]
  BY DEF Without
<1> HIDE DEF t
<1>5. t \in [1..n -> {t[j] : j \in DOMAIN t}]
  BY <1>4
<1> QED BY <1>3, <1>5 DEF Sequence, t

LEMMA DeleteIsSeq ==
  ASSUME NEW s, Sequence(s), NEW gone \in SUBSET DOMAIN s, NEW new
  PROVE  Sequence(Delete(s, gone, new))
<1> DEFINE blank == [i \in 1..Cardinality(gone) |-> BlankRow]
           left == Without(s, gone) \o blank
           sum == MapThenSumSet(LAMBDA i : left[i].total, Leading(left))
           done == [i \in DOMAIN left |->
                      [left[i] EXCEPT !.num = IF new /\ left[i].named THEN i ELSE @,
                                      !.share = IF i \in Leading(left) THEN Percent(left[i].total, sum) ELSE @]]
<1>1. Sequence(blank)
  <2>1. blank \in [1..Cardinality(gone) -> {BlankRow}]
    OBVIOUS
  <2> HIDE DEF blank
  <2> QED BY <2>1, WithoutIsSeq, FunctionIsSeq
<1> HIDE DEF blank
<1>2. Sequence(left)
  BY <1>1, WithoutIsSeq, ConcatIs
<1> HIDE DEF left, sum
<1>3. done = [i \in DOMAIN left |-> done[i]]
  OBVIOUS
<1>4. Delete(s, gone, new) = IF Amount(done[1]) = 0 THEN [done EXCEPT ![1] = First(@)] ELSE done
  BY DEF Delete, left, blank, sum
<1> HIDE DEF done
<1>5. Sequence(done)
  BY <1>2, <1>3, MappedIsSeq
<1>6. Sequence([done EXCEPT ![1] = First(@)])
  BY <1>5, RowsEdited
<1> QED BY <1>4, <1>5, <1>6

\* The loop that computes the shares hangs only on a row with a total that has one
\* without a brand above it: otherwise there are as many brands as rows to it.
LEMMA HangsMeans ==
  ASSUME NEW s, Sequence(s), Hangs(s)
  PROVE  \E j \in DOMAIN s : \E i \in 1..j : s[i].brand = "" /\ s[j].total # Unset
<1>1. PICK j \in DOMAIN s : AtLast(s, j) /\ j > LastBrand(s)
  BY DEF Hangs
<1> DEFINE n == Len(s)
<1>0. n \in Nat /\ DOMAIN s = 1..n
  BY SeqFacts
<1> HIDE DEF n
<1>2. j \in Nat /\ 1..j \subseteq DOMAIN s /\ j >= 1 /\ IsFiniteSet(DOMAIN s)
  <2>1. IsFiniteSet(1..n)
    BY <1>0, FS_Interval
  <2> QED BY <1>0, <2>1
<1>3. s[j].total # Unset
  BY <1>1 DEF AtLast
<1>4. CASE \A i \in 1..j : s[i].brand # ""
  <2> DEFINE branded == {i \in DOMAIN s : s[i].brand # ""}
  <2>1. 1..j \subseteq branded /\ branded \subseteq DOMAIN s
    BY <1>2, <1>4
  <2>2. NBrands(s) = Cardinality(branded)
    BY DEF NBrands, Quantify
  <2> HIDE DEF branded
  <2>3. IsFiniteSet(branded)
    BY <1>2, <2>1, FS_Subset
  <2>4. Cardinality(1..j) <= Cardinality(branded)
    BY <2>1, <2>3, FS_Subset
  <2>5. Cardinality(1..j) = j
    <3>1. Cardinality(1..j) = IF 1 > j THEN 0 ELSE j - 1 + 1
      BY <1>2, FS_Interval
    <3> QED BY <1>2, <3>1
  <2>6. NBrands(s) \in Nat
    BY <2>2, <2>3, FS_CardinalityType
  <2>7. j <= NBrands(s) /\ NBrands(s) # 0
    BY <1>2, <2>2, <2>4, <2>5, <2>6
  <2>8. LastBrand(s) = NBrands(s)
    BY <2>7 DEF LastBrand
  <2>9. FALSE
    BY ONLY <1>1, <1>2, <2>6, <2>7, <2>8
  <2> QED BY <2>9
<1>5. CASE \E i \in 1..j : s[i].brand = ""
  <2>1. PICK i \in 1..j : s[i].brand = "" /\ s[j].total # Unset
    BY <1>3, <1>5
  <2> QED BY ONLY <2>1, j \in DOMAIN s
<1> QED BY <1>4, <1>5

-----------------------------------------------------------------------------
(* the invariant *)

Fields(p) ==
  /\ DOMAIN p = {"data", "query", "radio", "cell", "brand", "kept", "popup", "guard", "toSingle", "new", "overlay",
                 "saving", "window", "narrow", "button", "rejected", "hung", "edits", "been"}
  /\ DOMAIN p.popup = {"open", "rows", "for", "clean"}
  /\ DOMAIN p.data = {"val", "active", "multi", "planned", "map", "total"}
  /\ DOMAIN p.been = {"failed", "cleared", "query", "radio", "squeezed", "loose", "poFailed", "single", "typed"}

Big == {"store", "brands", "initiate", "disable"}
Modal(ps) == \E k \in DOMAIN ps : ps[k].modal
ModalsOf(ps) == {k \in DOMAIN ps : ps[k].modal}

\* The overlay stands for one thing at a time, and the posts that change projects
\* are under it.
OverlaySound(p, ps) ==
  /\ p.overlay <=> p.window \/ p.popup.open \/ p.narrow \/ p.been.poFailed \/ Modal(ps)
  /\ p.window     => ~p.popup.open /\ ~p.narrow /\ ~p.been.poFailed /\ ~Modal(ps)
  /\ p.popup.open => ~p.narrow /\ ~p.been.poFailed /\ ~Modal(ps)
  /\ p.narrow     => ~p.been.poFailed /\ ~Modal(ps)
  /\ p.been.poFailed => ~Modal(ps)
  /\ Alone(ModalsOf(ps))
  /\ \A k \in DOMAIN ps : ps[k].kind \in Big => ps[k].modal
Passed(p) == p.been.squeezed \/ p.been.loose
OverlayInv(p, ps) == Passed(p) \/ OverlaySound(p, ps)

PostsInv(ps) ==
  /\ Sequence(ps)
  /\ \A k \in DOMAIN ps : ps[k].kind = "save" /\ ps[k].modal => ps[k].reload

\* What a month of the forecasts will be on the server once a save has arrived.
Sent(post, i, m, s) == IF i \in DOMAIN post.parts /\ m = post.month THEN post.parts[i] ELSE s[i][m]
Shown(p, i, m) == p.data.val[Row(i, "F")][m]
Saves(ps) == {k \in DOMAIN ps : ps[k].kind = "save"}

RowsInv(p, s) ==
  /\ DOMAIN p.data.val = ProjectRows /\ \A r \in ProjectRows : DOMAIN p.data.val[r] = Columns
  /\ DOMAIN s = Ids /\ \A i \in Ids : DOMAIN s[i] = Months

CellInv(p) ==
  /\ p.cell.on \in {"none", "month", "po", "brand", "popup"}
  /\ p.cell.on \in {"month", "po", "brand"} => ~p.saving
  /\ p.cell.on = "month" => p.cell.id \in Tops /\ p.cell.month \in Months

\* One save at a time, and the page shows what the server will have after it.
SavedInv(p, ps, s) ==
  /\ RowsInv(p, s) /\ CellInv(p)
  /\ p.saving <=> Saves(ps) # {}
  /\ Alone(Saves(ps))
  /\ p.been.failed \/ p.been.cleared \/
       /\ ~p.saving => \A i \in Ids, m \in Months : Shown(p, i, m) = s[i][m]
       /\ \A k \in Saves(ps) : \A i \in Ids, m \in Months : Shown(p, i, m) = Sent(ps[k], i, m, s)

ButtonInv(p, ps) ==
  p.button \/ (\E k \in DOMAIN ps : ps[k].kind = "store") \/ (\E k \in DOMAIN p.new : Unbranded(p.new[k]))

NewRecord(n) == DOMAIN n = {"named", "po", "brand", "multi", "rows"} /\ Sequence(n.rows)
ListsInv(p) ==
  /\ Sequence(p.popup.rows) /\ Sequence(p.new)
  /\ \A k \in DOMAIN p.new : NewRecord(p.new[k])

HungInv(p) ==
  p.hung => \E j \in DOMAIN p.popup.rows : \E i \in 1..j :
              p.popup.rows[i].brand = "" /\ p.popup.rows[j].total # Unset
BlankInv(p) == p.popup.open \/ p.been.typed \/ \A i \in DOMAIN p.popup.rows : p.popup.rows[i] = BlankRow
PopupInv(p) == ListsInv(p) /\ HungInv(p) /\ BlankInv(p)

PageInvOf(p, ps, s) ==
  Fields(p) /\ PostsInv(ps) /\ OverlayInv(p, ps) /\ SavedInv(p, ps, s) /\ ButtonInv(p, ps) /\ PopupInv(p)
PageInv == PageInvOf(page, posts, stored)

-----------------------------------------------------------------------------
(* steps that leave a part of the invariant alone *)

OverlaySame(p, n) ==
  /\ (n.overlay <=> p.overlay) /\ (n.window <=> p.window) /\ (n.narrow <=> p.narrow)
  /\ (n.popup.open <=> p.popup.open) /\ (n.been.poFailed <=> p.been.poFailed)
  /\ (n.been.squeezed <=> p.been.squeezed) /\ (n.been.loose <=> p.been.loose)
LEMMA OverlayKept ==
  ASSUME NEW p, NEW n, NEW ps, OverlayInv(p, ps), OverlaySame(p, n)
  PROVE  OverlayInv(n, ps)
BY DEF OverlayInv, OverlaySound, Passed, OverlaySame

SavingSame(p, n) ==
  /\ (n.saving <=> p.saving) /\ (n.been.failed <=> p.been.failed) /\ (n.been.cleared <=> p.been.cleared)
  /\ n.data.val = p.data.val
LEMMA SavedKept ==
  ASSUME NEW p, NEW n, NEW ps, NEW s, SavedInv(p, ps, s), SavingSame(p, n), CellInv(n)
  PROVE  SavedInv(n, ps, s)
<1>1. RowsInv(n, s)
  BY DEF SavedInv, SavingSame, RowsInv
<1>2. \A i, m : Shown(n, i, m) = Shown(p, i, m)
  BY DEF SavingSame, Shown
<1> QED BY <1>1, <1>2 DEF SavedInv, SavingSame

LEMMA CellKept ==
  ASSUME NEW p, NEW n, CellInv(p), (n.saving <=> p.saving) \/ n.cell # p.cell,
         n.cell = p.cell \/ n.cell = NoCell \/ n.cell.on = "popup"
  PROVE  CellInv(n)
BY DEF CellInv, NoCell

LEMMA ButtonKept ==
  ASSUME NEW p, NEW n, NEW ps, ButtonInv(p, ps), n.button \/ ((n.button <=> p.button) /\ n.new = p.new)
  PROVE  ButtonInv(n, ps)
BY DEF ButtonInv

PopupSame(p, n) ==
  /\ (n.popup.open <=> p.popup.open) /\ n.popup.rows = p.popup.rows /\ (n.hung <=> p.hung)
  /\ (n.been.typed <=> p.been.typed) /\ n.new = p.new
LEMMA PopupKept ==
  ASSUME NEW p, NEW n, PopupInv(p), PopupSame(p, n)
  PROVE  PopupInv(n)
BY DEF PopupInv, PopupSame, ListsInv, HungInv, BlankInv

\* A step that leaves all parts alone.
LEMMA Quiet ==
  ASSUME NEW p, NEW n, NEW ps, NEW s, PageInvOf(p, ps, s), Fields(n), OverlaySame(p, n), SavingSame(p, n), CellInv(n),
         n.button \/ ((n.button <=> p.button) /\ n.new = p.new), PopupSame(p, n)
  PROVE  PageInvOf(n, ps, s)
BY OverlayKept, SavedKept, ButtonKept, PopupKept DEF PageInvOf

-----------------------------------------------------------------------------
(* what the common steps do to the fields *)

Untouched(p, n, fields) == \A f \in DOMAIN p \ fields : n[f] = p[f]

LEMMA RedrawIs ==
  ASSUME NEW p, Fields(p)
  PROVE  LET n == Redraw(p)
         IN  /\ Fields(n) /\ Untouched(p, n, {"cell", "button"}) /\ n.button = TRUE
             /\ n.cell = IF p.cell.on = "popup" THEN p.cell ELSE NoCell
BY DEF Redraw, Fields, Untouched

LEMMA RefreshIs ==
  ASSUME NEW d, DOMAIN d = {"val", "active", "multi", "planned", "map", "total"}, NEW q, NEW radio
  PROVE  /\ DOMAIN Refresh(d, q, radio) = DOMAIN d /\ Refresh(d, q, radio).val = d.val
         /\ DOMAIN CalculateTotal(d, radio) = DOMAIN d /\ CalculateTotal(d, radio).val = d.val
BY DEF Refresh, CalculateTotal

LEMMA RecalculatedIs ==
  ASSUME NEW p, Fields(p)
  PROVE  LET n == Recalculated(p)
         IN  /\ Fields(n) /\ Untouched(p, n, {"data", "been"}) /\ n.data.val = p.data.val
             /\ Untouched(p.been, n.been, {"query", "radio"})
<1> DEFINE n == Recalculated(p)
           d == Refresh(CalculateTotal(p.data, p.radio), p.query, p.radio)
<1>1. DOMAIN d = DOMAIN p.data /\ d.val = p.data.val
  <2>1. DOMAIN p.data = {"val", "active", "multi", "planned", "map", "total"}
    BY DEF Fields
  <2>2. DOMAIN CalculateTotal(p.data, p.radio) = DOMAIN p.data /\ CalculateTotal(p.data, p.radio).val = p.data.val
    BY <2>1, RefreshIs
  <2> QED BY <2>1, <2>2, RefreshIs
<1>2. n = [p EXCEPT !.data = d, !.been.query = p.query, !.been.radio = p.radio]
  BY DEF Recalculated, Fields
<1> HIDE DEF n, d
<1>3. n.data = d /\ Untouched(p, n, {"data", "been"}) /\ DOMAIN n = DOMAIN p /\ n.popup = p.popup
  BY <1>2 DEF Fields, Untouched
<1>4. n.been = [p.been EXCEPT !.query = p.query, !.radio = p.radio]
  BY <1>2 DEF Fields
<1> QED BY <1>1, <1>3, <1>4 DEF Fields, Untouched, n

LEMMA PopupForIs ==
  ASSUME NEW p, Fields(p), NEW c, NEW rows
  PROVE  LET n == PopupFor(p, c, rows)
         IN  /\ Fields(n) /\ Untouched(p, n, {"popup", "cell", "overlay", "been"}) /\ n.overlay = TRUE
             /\ n.popup.open = TRUE /\ n.popup.rows = rows
             /\ n.cell = IF p.cell.on = "popup" THEN p.cell ELSE NoCell
             /\ (n.been.loose <=> p.been.loose \/ p.overlay) /\ Untouched(p.been, n.been, {"loose"})
BY DEF PopupFor, Fields, Untouched

LEMMA HiddenIs ==
  ASSUME NEW p, Fields(p)
  PROVE  LET n == Hidden(p)
         IN  /\ Fields(n) /\ Untouched(p, n, {"popup", "cell", "overlay", "button"})
             /\ n.overlay = FALSE /\ n.button = TRUE
             /\ n.cell = IF p.cell.on = "popup" THEN p.cell ELSE NoCell
             /\ n.popup.open = FALSE /\ n.popup.rows = [i \in DOMAIN p.popup.rows |-> BlankRow]
BY DEF Hidden, Redraw, Fields, Untouched, ClosedPopup

\* A step that only changes fields the invariant does not mention, but for the
\* cell and the buttons.
LEMMA QuietFields ==
  ASSUME NEW p, NEW n, NEW ps, NEW s, PageInvOf(p, ps, s), Fields(n), CellInv(n),
         Untouched(p, n, {"data", "query", "radio", "cell", "brand", "kept", "guard", "toSingle", "button", "rejected",
                          "edits", "been"}),
         n.data.val = p.data.val, Untouched(p.been, n.been, {"query", "radio", "single"}),
         n.button = TRUE \/ n.button = p.button
  PROVE  PageInvOf(n, ps, s)
<1>1. Fields(p)
  BY DEF PageInvOf
<1>2. /\ n.overlay = p.overlay /\ n.window = p.window /\ n.narrow = p.narrow /\ n.popup = p.popup /\ n.new = p.new
      /\ n.saving = p.saving /\ n.hung = p.hung
  BY <1>1 DEF Fields, Untouched
<1>3. /\ n.been.poFailed = p.been.poFailed /\ n.been.squeezed = p.been.squeezed /\ n.been.loose = p.been.loose
      /\ n.been.failed = p.been.failed /\ n.been.cleared = p.been.cleared /\ n.been.typed = p.been.typed
  BY <1>1 DEF Fields, Untouched
<1>4. OverlaySame(p, n) /\ SavingSame(p, n) /\ PopupSame(p, n)
  BY <1>2, <1>3 DEF OverlaySame, SavingSame, PopupSame
<1> QED BY <1>2, <1>4, Quiet

-----------------------------------------------------------------------------
(* posts that are sent and answered *)

LEMMA SentIs ==
  ASSUME NEW ps, PostsInv(ps), NEW post
  PROVE  LET t == Append(ps, post)
             k == Len(ps) + 1
         IN  /\ k \notin DOMAIN ps /\ DOMAIN t = DOMAIN ps \cup {k} /\ t[k] = post /\ \A j \in DOMAIN ps : t[j] = ps[j]
             /\ (post.kind = "save" /\ post.modal => post.reload) => PostsInv(t)
<1>1. Sequence(ps) /\ Len(ps) \in Nat /\ DOMAIN ps = 1..Len(ps)
  BY SeqFacts DEF PostsInv
<1>2. LET t == Append(ps, post)
      IN  /\ Sequence(t) /\ DOMAIN t = 1..(Len(ps) + 1)
          /\ t[Len(ps) + 1] = post /\ \A i \in 1..Len(ps) : t[i] = ps[i]
  BY <1>1, AppendIs
<1>3. 1..(Len(ps) + 1) = 1..Len(ps) \cup {Len(ps) + 1} /\ Len(ps) + 1 \notin 1..Len(ps)
  BY <1>1
<1> QED BY <1>1, <1>2, <1>3 DEF PostsInv

LEMMA AnsweredIs ==
  ASSUME NEW ps, PostsInv(ps), NEW k \in DOMAIN ps
  PROVE  LET t == RemoveAt(ps, k)
         IN  /\ PostsInv(t)
             /\ \E old \in [DOMAIN t -> DOMAIN ps \ {k}] :
                  /\ \A i \in DOMAIN t : t[i] = ps[old[i]]
                  /\ \A i, j \in DOMAIN t : old[i] = old[j] => i = j
                  /\ \A j \in DOMAIN ps \ {k} : \E i \in DOMAIN t : old[i] = j
<1> DEFINE t == RemoveAt(ps, k)
           n == Len(ps)
           old == [i \in DOMAIN t |-> IF i < k THEN i ELSE i + 1]
<1>1. Sequence(ps) /\ n \in Nat /\ DOMAIN ps = 1..n
  BY SeqFacts DEF PostsInv
<1>2. Sequence(t) /\ DOMAIN t = 1..(n - 1) /\ \A i \in 1..(n - 1) : t[i] = ps[IF i < k THEN i ELSE i + 1]
  BY <1>1, RemoveAtIs
<1> HIDE DEF t, n
<1>3. old \in [DOMAIN t -> DOMAIN ps \ {k}] /\ \A i \in DOMAIN t : t[i] = ps[old[i]]
  BY <1>1, <1>2
<1>4. \A i, j \in DOMAIN t : old[i] = old[j] => i = j
  BY <1>1, <1>2
<1>5. ASSUME NEW j \in DOMAIN ps \ {k} PROVE \E i \in DOMAIN t : old[i] = j
  <2>1. CASE j < k
    <3>1. j \in DOMAIN t /\ old[j] = j
      BY <1>1, <1>2, <2>1
    <3> QED BY <3>1
  <2>2. CASE j > k
    <3>1. j - 1 \in DOMAIN t /\ old[j - 1] = j
      BY <1>1, <1>2, <2>2
    <3> QED BY <3>1
  <2> QED BY <1>1, <2>1, <2>2
<1> HIDE DEF old
<1>6. PostsInv(t)
  BY <1>2, <1>3 DEF PostsInv
<1> QED BY <1>3, <1>4, <1>5, <1>6 DEF t

\* A post without the overlay.
LEMMA SentQuietly ==
  ASSUME NEW p, NEW n, NEW ps, NEW post, PostsInv(ps), OverlayInv(p, ps), OverlaySame(p, n),
         ~post.modal, post.kind \notin Big
  PROVE  OverlayInv(n, Append(ps, post))
<1> DEFINE t == Append(ps, post)
<1>1. PICK k : k \notin DOMAIN ps /\ DOMAIN t = DOMAIN ps \cup {k} /\ t[k] = post /\ \A j \in DOMAIN ps : t[j] = ps[j]
  BY SentIs
<1> HIDE DEF t
<1>2. (Modal(t) <=> Modal(ps)) /\ ModalsOf(t) = ModalsOf(ps)
  BY <1>1 DEF Modal, ModalsOf
<1>3. (\A j \in DOMAIN ps : ps[j].kind \in Big => ps[j].modal) => \A j \in DOMAIN t : t[j].kind \in Big => t[j].modal
  BY <1>1
<1>4. OverlayInv(n, t)
  BY <1>2, <1>3 DEF OverlayInv, OverlaySound, Passed, OverlaySame
<1> QED BY <1>4 DEF t

\* A post that shows the overlay, which is shown for nothing else.
LEMMA SentUnderOverlay ==
  ASSUME NEW p, NEW n, NEW ps, NEW post, PostsInv(ps), post.modal,
         Passed(n) \/ (n.overlay /\ ~Modal(ps) /\ ~n.window /\ ~n.narrow /\ ~n.popup.open /\ ~n.been.poFailed
                       /\ \A j \in DOMAIN ps : ps[j].kind \in Big => ps[j].modal)
  PROVE  OverlayInv(n, Append(ps, post))
<1> DEFINE t == Append(ps, post)
<1>1. PICK k : k \notin DOMAIN ps /\ DOMAIN t = DOMAIN ps \cup {k} /\ t[k] = post /\ \A j \in DOMAIN ps : t[j] = ps[j]
  BY SentIs
<1> HIDE DEF t
<1>2. CASE Passed(n)
  BY <1>2 DEF OverlayInv, t
<1>3. CASE ~Passed(n)
  <2>1. Modal(t)
    BY <1>1 DEF Modal
  <2>2. ModalsOf(t) \subseteq {k}
    BY <1>1, <1>3 DEF Modal, ModalsOf
  <2>3. \A j \in DOMAIN t : t[j].kind \in Big => t[j].modal
    BY <1>1, <1>3
  <2>4. OverlaySound(n, t)
    BY <1>3, <2>1, <2>2, <2>3 DEF OverlaySound, Alone
  <2> QED BY <2>4 DEF OverlayInv, t
<1> QED BY <1>2, <1>3

LEMMA SentSave ==
  ASSUME NEW p, NEW n, NEW ps, NEW s, NEW post, PostsInv(ps), SavedInv(p, ps, s), ~p.saving, n.saving,
         RowsInv(n, s), CellInv(n), post.kind = "save",
         p.been.failed => n.been.failed, p.been.cleared => n.been.cleared,
         (\A i \in Ids, m \in Months : Shown(p, i, m) = s[i][m]) =>
           \A i \in Ids, m \in Months : Shown(n, i, m) = Sent(post, i, m, s)
  PROVE  SavedInv(n, Append(ps, post), s)
<1> DEFINE t == Append(ps, post)
<1>1. PICK k : k \notin DOMAIN ps /\ DOMAIN t = DOMAIN ps \cup {k} /\ t[k] = post /\ \A j \in DOMAIN ps : t[j] = ps[j]
  BY SentIs
<1> HIDE DEF t
<1>2. Saves(ps) = {}
  BY DEF SavedInv
<1>3. Saves(t) = {k}
  BY <1>1, <1>2 DEF Saves
<1>4. n.been.failed \/ n.been.cleared \/ \A i \in Ids, m \in Months : Shown(n, i, m) = Sent(t[k], i, m, s)
  BY <1>1 DEF SavedInv
<1>5. SavedInv(n, t, s)
  BY <1>3, <1>4 DEF SavedInv, Alone
<1> QED BY <1>5 DEF t

LEMMA SentOther ==
  ASSUME NEW p, NEW n, NEW ps, NEW s, NEW post, PostsInv(ps), SavedInv(p, ps, s), (n.saving <=> p.saving), post.kind # "save",
         RowsInv(n, s), CellInv(n), n.been.cleared \/ SavingSame(p, n)
  PROVE  SavedInv(n, Append(ps, post), s)
<1> DEFINE t == Append(ps, post)
<1>1. PICK k : k \notin DOMAIN ps /\ DOMAIN t = DOMAIN ps \cup {k} /\ t[k] = post /\ \A j \in DOMAIN ps : t[j] = ps[j]
  BY SentIs
<1> HIDE DEF t
<1>2. Saves(t) = Saves(ps)
  BY <1>1 DEF Saves
<1>3. \A j \in Saves(ps) : t[j] = ps[j]
  BY <1>1 DEF Saves
<1>4. ASSUME n.been.cleared PROVE SavedInv(n, t, s)
  BY <1>2, <1>4 DEF SavedInv
<1>5. ASSUME SavingSame(p, n) PROVE SavedInv(n, t, s)
  <2>1. \A i, m : Shown(n, i, m) = Shown(p, i, m)
    BY <1>5 DEF SavingSame, Shown
  <2> QED BY <1>2, <1>3, <1>5, <2>1 DEF SavedInv, SavingSame
<1> QED BY <1>4, <1>5 DEF t

LEMMA SentButton ==
  ASSUME NEW p, NEW n, NEW ps, NEW post, PostsInv(ps), ButtonInv(p, ps),
         n.button \/ post.kind = "store" \/ (n.button = p.button /\ n.new = p.new)
  PROVE  ButtonInv(n, Append(ps, post))
<1> DEFINE t == Append(ps, post)
<1>1. PICK k : k \notin DOMAIN ps /\ DOMAIN t = DOMAIN ps \cup {k} /\ t[k] = post /\ \A j \in DOMAIN ps : t[j] = ps[j]
  BY SentIs
<1> HIDE DEF t
<1>2. ButtonInv(n, t)
  BY <1>1 DEF ButtonInv
<1> QED BY <1>2 DEF t

\* The answer to a post without the overlay, and to one under it.
LEMMA AnsweredQuietly ==
  ASSUME NEW p, NEW n, NEW ps, NEW k \in DOMAIN ps, PostsInv(ps), OverlayInv(p, ps), OverlaySame(p, n), ~ps[k].modal
  PROVE  OverlayInv(n, RemoveAt(ps, k))
<1> DEFINE t == RemoveAt(ps, k)
<1>1. PICK old \in [DOMAIN t -> DOMAIN ps \ {k}] :
        /\ \A i \in DOMAIN t : t[i] = ps[old[i]]
        /\ \A i, j \in DOMAIN t : old[i] = old[j] => i = j
        /\ \A j \in DOMAIN ps \ {k} : \E i \in DOMAIN t : old[i] = j
  BY AnsweredIs
<1> HIDE DEF t
<1>2. Modal(t) <=> Modal(ps)
  BY <1>1 DEF Modal
<1>3. Alone(ModalsOf(ps)) => Alone(ModalsOf(t))
  BY <1>1 DEF ModalsOf, Alone
<1>4. (\A j \in DOMAIN ps : ps[j].kind \in Big => ps[j].modal) => \A j \in DOMAIN t : t[j].kind \in Big => t[j].modal
  BY <1>1
<1>5. OverlayInv(n, t)
  BY <1>2, <1>3, <1>4 DEF OverlayInv, OverlaySound, Passed, OverlaySame
<1> QED BY <1>5 DEF t

LEMMA AnsweredUnderOverlay ==
  ASSUME NEW p, NEW n, NEW ps, NEW k \in DOMAIN ps, PostsInv(ps), OverlayInv(p, ps), ps[k].modal,
         (n.window <=> p.window), (n.narrow <=> p.narrow), (n.popup.open <=> p.popup.open),
         Passed(p) => Passed(n), OverlaySound(p, ps) => (n.overlay <=> n.been.poFailed)
  PROVE  OverlayInv(n, RemoveAt(ps, k))
<1> DEFINE t == RemoveAt(ps, k)
<1>1. PICK old \in [DOMAIN t -> DOMAIN ps \ {k}] :
        /\ \A i \in DOMAIN t : t[i] = ps[old[i]]
        /\ \A i, j \in DOMAIN t : old[i] = old[j] => i = j
        /\ \A j \in DOMAIN ps \ {k} : \E i \in DOMAIN t : old[i] = j
  BY AnsweredIs
<1> HIDE DEF t
<1>2. ASSUME OverlaySound(p, ps) PROVE OverlaySound(n, t)
  <2>1. Modal(ps) /\ k \in ModalsOf(ps) /\ Alone(ModalsOf(ps))
    BY <1>2 DEF OverlaySound, Modal, ModalsOf
  <2>2. \A j \in DOMAIN ps : ps[j].modal => j = k
    BY <2>1 DEF ModalsOf, Alone
  <2>3. ~Modal(t) /\ ModalsOf(t) = {}
    BY <1>1, <2>2 DEF Modal, ModalsOf
  <2>4. \A j \in DOMAIN t : t[j].kind \in Big => t[j].modal
    BY <1>1, <1>2 DEF OverlaySound
  <2>5. ~n.window /\ ~n.narrow /\ ~n.popup.open
    BY <1>2, <2>1 DEF OverlaySound
  <2> QED BY <1>2, <2>3, <2>4, <2>5 DEF OverlaySound, Alone
<1> QED BY <1>2 DEF OverlayInv, t

LEMMA AnsweredSave ==
  ASSUME NEW p, NEW n, NEW ps, NEW s, NEW s2, NEW k \in DOMAIN ps, PostsInv(ps), SavedInv(p, ps, s), ps[k].kind = "save",
         ~n.saving, RowsInv(n, s2), CellInv(n),
         n.been.failed \/ /\ (n.been.failed <=> p.been.failed) /\ (n.been.cleared <=> p.been.cleared)
                          /\ n.data.val = p.data.val
                          /\ \A i \in Ids, m \in Months : s2[i][m] = Sent(ps[k], i, m, s)
  PROVE  SavedInv(n, RemoveAt(ps, k), s2)
<1> DEFINE t == RemoveAt(ps, k)
<1>1. PICK old \in [DOMAIN t -> DOMAIN ps \ {k}] :
        /\ \A i \in DOMAIN t : t[i] = ps[old[i]]
        /\ \A i, j \in DOMAIN t : old[i] = old[j] => i = j
        /\ \A j \in DOMAIN ps \ {k} : \E i \in DOMAIN t : old[i] = j
  BY AnsweredIs
<1> HIDE DEF t
<1>2. k \in Saves(ps) /\ Alone(Saves(ps))
  BY DEF SavedInv, Saves
<1>3. \A j \in DOMAIN ps : ps[j].kind = "save" => j = k
  BY <1>2 DEF Saves, Alone
<1>4. Saves(t) = {}
  BY <1>1, <1>3 DEF Saves
<1>5. n.been.failed \/ n.been.cleared \/ \A i \in Ids, m \in Months : Shown(n, i, m) = s2[i][m]
  BY <1>2 DEF SavedInv, Shown
<1>6. SavedInv(n, t, s2)
  BY <1>4, <1>5 DEF SavedInv, Alone
<1> QED BY <1>6 DEF t

LEMMA AnsweredOther ==
  ASSUME NEW p, NEW n, NEW ps, NEW s, NEW k \in DOMAIN ps, PostsInv(ps), SavedInv(p, ps, s), ps[k].kind # "save",
         SavingSame(p, n), CellInv(n)
  PROVE  SavedInv(n, RemoveAt(ps, k), s)
<1> DEFINE t == RemoveAt(ps, k)
<1>1. PICK old \in [DOMAIN t -> DOMAIN ps \ {k}] :
        /\ \A i \in DOMAIN t : t[i] = ps[old[i]]
        /\ \A i, j \in DOMAIN t : old[i] = old[j] => i = j
        /\ \A j \in DOMAIN ps \ {k} : \E i \in DOMAIN t : old[i] = j
  BY AnsweredIs
<1> HIDE DEF t
<1>2. SavedInv(n, ps, s)
  BY SavedKept
<1>3. Alone(Saves(ps)) => Alone(Saves(t))
  BY <1>1 DEF Saves, Alone
<1>4. Saves(t) # {} <=> Saves(ps) # {}
  BY <1>1 DEF Saves
<1>5. \A j \in Saves(t) : \E i \in Saves(ps) : t[j] = ps[i]
  BY <1>1 DEF Saves
<1>6. SavedInv(n, t, s)
  BY <1>2, <1>3, <1>4, <1>5 DEF SavedInv
<1> QED BY <1>6 DEF t

LEMMA AnsweredButton ==
  ASSUME NEW p, NEW n, NEW ps, NEW k \in DOMAIN ps, PostsInv(ps), ButtonInv(p, ps),
         n.button \/ (ps[k].kind # "store" /\ n.button = p.button /\ n.new = p.new)
  PROVE  ButtonInv(n, RemoveAt(ps, k))
<1> DEFINE t == RemoveAt(ps, k)
<1>1. PICK old \in [DOMAIN t -> DOMAIN ps \ {k}] :
        /\ \A i \in DOMAIN t : t[i] = ps[old[i]]
        /\ \A i, j \in DOMAIN t : old[i] = old[j] => i = j
        /\ \A j \in DOMAIN ps \ {k} : \E i \in DOMAIN t : old[i] = j
  BY AnsweredIs
<1> HIDE DEF t
<1>2. ButtonInv(n, t)
  BY <1>1 DEF ButtonInv
<1> QED BY <1>2 DEF t

\* The popup opens: over the overlay only if that is noted.
LEMMA PopupOpens ==
  ASSUME NEW p, NEW n, NEW ps, NEW s, PageInvOf(p, ps, s), Fields(n), CellInv(n),
         n.overlay, n.popup.open, n.window = p.window, n.narrow = p.narrow, n.been.poFailed = p.been.poFailed,
         n.been.squeezed = p.been.squeezed, n.been.loose <=> p.been.loose \/ p.overlay,
         SavingSame(p, n), n.button = TRUE \/ (n.button = p.button /\ n.new = p.new), ListsInv(n), ~n.hung
  PROVE  PageInvOf(n, ps, s)
<1>1. OverlayInv(n, ps)
  <2>1. CASE Passed(n)
    BY <2>1 DEF OverlayInv
  <2>2. CASE ~Passed(n)
    <3>1. ~p.overlay /\ OverlaySound(p, ps)
      BY <2>2 DEF PageInvOf, OverlayInv, Passed
    <3>2. OverlaySound(n, ps)
      BY <3>1 DEF OverlaySound
    <3> QED BY <3>2 DEF OverlayInv
  <2> QED BY <2>1, <2>2
<1>2. SavedInv(n, ps, s) /\ ButtonInv(n, ps)
  BY SavedKept, ButtonKept DEF PageInvOf
<1>3. PopupInv(n)
  BY DEF PopupInv, HungInv, BlankInv
<1> QED BY <1>1, <1>2, <1>3 DEF PageInvOf

-----------------------------------------------------------------------------
(* editing the grid *)

LEMMA OpenCellKeeps == ASSUME PageInv, OpenCell PROVE PageInv'
<1>1. PICK c \in Cells : page' = [page EXCEPT !.cell = c] /\ posts' = posts /\ stored' = stored /\ ~page.saving
  BY DEF OpenCell, Shows, Becomes, Editable
<1>2. Fields(page) /\ Fields(page') /\ Untouched(page, page', {"cell"}) /\ page'.cell = c
  BY <1>1 DEF PageInv, PageInvOf, Fields, Untouched
<1>3. CellInv(page')
  BY <1>1, <1>2 DEF Cells, CellInv, Fields, Untouched
<1>4. page'.data = page.data /\ page'.been = page.been /\ page'.button = page.button
  BY <1>2 DEF Fields, Untouched
<1> QED BY <1>1, <1>2, <1>3, <1>4, QuietFields DEF PageInv, Untouched

LEMMA EscapeKeyKeeps == ASSUME PageInv, EscapeKey PROVE PageInv'
<1>1. page' = [page EXCEPT !.cell = NoCell] /\ posts' = posts /\ stored' = stored
  BY DEF EscapeKey, Shows, Becomes
<1>2. Fields(page) /\ Fields(page') /\ Untouched(page, page', {"cell"}) /\ page'.cell = NoCell
  BY <1>1 DEF PageInv, PageInvOf, Fields, Untouched
<1>3. CellInv(page')
  BY <1>2 DEF CellInv, NoCell
<1>4. page'.data = page.data /\ page'.been = page.been /\ page'.button = page.button
  BY <1>2 DEF Fields, Untouched
<1> QED BY <1>1, <1>2, <1>3, <1>4, QuietFields DEF PageInv, Untouched

LEMMA RejectedKeeps == ASSUME PageInv, Rejected PROVE PageInv'
<1> DEFINE r == Redraw(page)
<1>1. page' = [r EXCEPT !.rejected = TRUE] /\ posts' = posts /\ stored' = stored
  BY DEF Rejected, Shows, Becomes
<1>2. Fields(page) /\ CellInv(page)
  BY DEF PageInv, PageInvOf, SavedInv
<1>3. /\ Fields(r) /\ Untouched(page, r, {"cell", "button"}) /\ r.button = TRUE
      /\ r.cell = IF page.cell.on = "popup" THEN page.cell ELSE NoCell
  BY <1>2, RedrawIs
<1> HIDE DEF r
<1>4. /\ Fields(page') /\ Untouched(page, page', {"cell", "button", "rejected"}) /\ page'.button = TRUE
      /\ page'.cell = r.cell /\ page'.data = page.data /\ page'.been = page.been
  BY <1>1, <1>2, <1>3 DEF Fields, Untouched
<1>5. CellInv(page')
  BY <1>2, <1>3, <1>4, CellKept DEF Untouched, Fields
<1> QED BY <1>1, <1>4, <1>5, QuietFields DEF PageInv, Untouched

\* The edit of a month sets that month of the family, and no other forecast.
LEMMA WithTotalIs ==
  ASSUME NEW v, DOMAIN v = Columns
  PROVE  DOMAIN WithTotal(v) = Columns /\ \A m \in Months : m \in Columns /\ WithTotal(v)[m] = v[m]
<1>1. \A m \in Months : m \in Columns /\ m # TotalCol
  BY PageAssumption DEF Months, Columns, TotalCol
<1> QED BY <1>1 DEF WithTotal

LEMMA PartsIs == ASSUME NEW d, NEW p, NEW amount PROVE DOMAIN Parts(d, p, amount) = ToSet(Family(p))
BY DEF Parts

LEMMA EditMonthIs ==
  ASSUME NEW d, DOMAIN d = {"val", "active", "multi", "planned", "map", "total"},
         DOMAIN d.val = ProjectRows, \A r \in ProjectRows : DOMAIN d.val[r] = Columns,
         NEW p \in Tops, NEW m \in Months, NEW amount
  PROVE  LET e == EditMonth(d, p, m, amount)
             family == ToSet(Family(p))
         IN  /\ DOMAIN e = DOMAIN d
             /\ DOMAIN e.val = ProjectRows /\ \A r \in ProjectRows : DOMAIN e.val[r] = Columns
             /\ \A i \in Ids, c \in Months :
                  e.val[Row(i, "F")][c] = IF i \in family /\ c = m THEN Parts(d, p, amount)[i] ELSE d.val[Row(i, "F")][c]
<1> DEFINE e == EditMonth(d, p, m, amount)
           parts == Parts(d, p, amount)
           family == ToSet(Family(p))
           target == IF m \in FreeMonths THEN WithTotal([d.val[Row(p, "T")] EXCEPT ![m] = amount])
                     ELSE d.val[Row(p, "T")]
           lts == WithTotal([d.val[Row(p, "L")] EXCEPT ![m] = target[m] - d.val[Row(p, "A")][m]])
           forecast(i) == [WithTotal([d.val[Row(i, "F")] EXCEPT ![m] = Part(i, amount)]) EXCEPT ![m] = parts[i]]
           val == [r \in ProjectRows |->
                     CASE r.id \in family /\ r.type = "F" -> forecast(r.id)
                       [] r = Row(p, "T") -> target
                       [] r = Row(p, "L") -> lts
                       [] OTHER -> d.val[r]]
<1>1. e = [d EXCEPT !.val = val]
  BY DEF EditMonth
<1>2. Row(p, "T") \in ProjectRows /\ Row(p, "L") \in ProjectRows /\ \A i \in Ids : Row(i, "F") \in ProjectRows
  BY DEF ProjectRows, Types
<1>3. /\ Row(p, "T").type = "T" /\ Row(p, "L").type = "L"
      /\ \A i \in Ids : Row(i, "F").type = "F" /\ Row(i, "F").id = i
  BY DEF Row
<1>4. m \in Columns
  BY WithTotalIs, <1>2
<1>5. DOMAIN target = Columns
  BY <1>2, WithTotalIs
<1>6. DOMAIN lts = Columns
  <2> HIDE DEF target
  <2> QED BY <1>2, WithTotalIs
<1>7. \A i \in Ids : /\ DOMAIN forecast(i) = Columns
                     /\ \A c \in Months : forecast(i)[c] = IF c = m THEN parts[i] ELSE d.val[Row(i, "F")][c]
  <2> HIDE DEF parts
  <2> TAKE i \in Ids
  <2> DEFINE v == [d.val[Row(i, "F")] EXCEPT ![m] = Part(i, amount)]
             w == WithTotal(v)
  <2>1. DOMAIN v = Columns /\ \A c \in Months \ {m} : v[c] = d.val[Row(i, "F")][c]
    BY <1>2, WithTotalIs
  <2> HIDE DEF v
  <2>2. DOMAIN w = Columns /\ \A c \in Months : c \in Columns /\ w[c] = v[c]
    BY <2>1, WithTotalIs
  <2> HIDE DEF w
  <2>3. forecast(i) = [w EXCEPT ![m] = parts[i]]
    BY DEF w, v
  <2> QED BY <2>1, <2>2, <2>3
<1>8. \A r \in ProjectRows : r.type = "F" => r.id \in Ids /\ r = Row(r.id, "F")
  BY DEF ProjectRows, Row, Ids
<1> HIDE DEF target, lts, forecast
<1>9. \A r \in ProjectRows : DOMAIN val[r] = Columns
  <2> TAKE r \in ProjectRows
  <2>1. CASE r.id \in family /\ r.type = "F"
    BY <1>3, <1>7, <1>8, <2>1
  <2>2. CASE r = Row(p, "T")
    BY <1>3, <1>5, <2>2
  <2>3. CASE r = Row(p, "L")
    BY <1>3, <1>6, <2>3
  <2>4. CASE ~(r.id \in family /\ r.type = "F") /\ r # Row(p, "T") /\ r # Row(p, "L")
    BY <2>4
  <2> QED BY <2>1, <2>2, <2>3, <2>4
<1>10. \A i \in Ids, c \in Months :
         val[Row(i, "F")][c] = IF i \in family /\ c = m THEN parts[i] ELSE d.val[Row(i, "F")][c]
  <2> TAKE i \in Ids, c \in Months
  <2>1. CASE i \in family
    <3>1. val[Row(i, "F")] = forecast(i)
      BY <1>2, <1>3, <2>1
    <3> QED BY <1>7, <2>1, <3>1
  <2>2. CASE i \notin family
    <3>1. val[Row(i, "F")] = d.val[Row(i, "F")]
      BY <1>2, <1>3, <2>2
    <3> QED BY <2>2, <3>1
  <2> QED BY <2>1, <2>2
<1>11. DOMAIN val = ProjectRows
  OBVIOUS
<1> HIDE DEF val
<1> QED BY <1>1, <1>9, <1>10, <1>11

Closed(c) == c.on \in {"none", "popup"}
LEMMA ClosedCell ==
  ASSUME NEW p, CellInv(p)
  PROVE  /\ p.cell.on = "popup" => Closed(p.cell)
         /\ Closed(NoCell)
         /\ \A n : Closed(n.cell) => CellInv(n)
BY DEF CellInv, Closed, NoCell

LEMMA CommitMonthKeeps == ASSUME PageInv, CommitMonth PROVE PageInv'
<1> DEFINE p == page.cell.id
           m == page.cell.month
<1>1. Fields(page) /\ CellInv(page) /\ page.cell.on = "month" /\ ~page.saving /\ p \in Tops /\ m \in Months
  BY DEF PageInv, PageInvOf, SavedInv, CellInv, CommitMonth
<1>2. CASE Rejected
  BY <1>2, RejectedKeeps
<1>3. CASE ~Rejected
  <2>1. PICK amount \in Amounts :
          /\ Sends([Post("save", FALSE) EXCEPT !.month = m, !.parts = Parts(page.data, p, amount)])
          /\ Becomes([Recalculated([Redraw(page) EXCEPT !.data = EditMonth(@, p, m, amount)]) EXCEPT !.saving = TRUE])
    BY <1>3 DEF CommitMonth
  <2> DEFINE r == Redraw(page)
             e == EditMonth(page.data, p, m, amount)
             q == [r EXCEPT !.data = e]
             c == Recalculated(q)
             parts == Parts(page.data, p, amount)
             post == [Post("save", FALSE) EXCEPT !.month = m, !.parts = parts]
             family == ToSet(Family(p))
  <2>2. /\ Fields(r) /\ Untouched(page, r, {"cell", "button"}) /\ r.button = TRUE /\ Closed(r.cell)
        /\ r.data = page.data
    BY <1>1, RedrawIs, ClosedCell, ZenonT(40) DEF Fields, Untouched
  <2> HIDE DEF r
  <2>3. DOMAIN page.data.val = ProjectRows /\ \A x \in ProjectRows : DOMAIN page.data.val[x] = Columns
    BY DEF PageInv, PageInvOf, SavedInv, RowsInv
  <2>4. /\ DOMAIN e = DOMAIN page.data
        /\ DOMAIN e.val = ProjectRows /\ \A x \in ProjectRows : DOMAIN e.val[x] = Columns
        /\ \A i \in Ids, x \in Months :
             e.val[Row(i, "F")][x] = IF i \in family /\ x = m THEN parts[i] ELSE page.data.val[Row(i, "F")][x]
    <3> DEFINE d == page.data
    <3>1. DOMAIN d = {"val", "active", "multi", "planned", "map", "total"}
      BY <1>1 DEF Fields
    <3>2. DOMAIN d.val = ProjectRows /\ \A x \in ProjectRows : DOMAIN d.val[x] = Columns
      BY <2>3
    <3>3. p \in Tops /\ m \in Months
      BY <1>1
    <3> HIDE DEF d, p, m
    <3>4. /\ DOMAIN EditMonth(d, p, m, amount) = DOMAIN d
          /\ DOMAIN EditMonth(d, p, m, amount).val = ProjectRows
          /\ \A x \in ProjectRows : DOMAIN EditMonth(d, p, m, amount).val[x] = Columns
          /\ \A i \in Ids, x \in Months :
               EditMonth(d, p, m, amount).val[Row(i, "F")][x] =
                 IF i \in ToSet(Family(p)) /\ x = m THEN Parts(d, p, amount)[i] ELSE d.val[Row(i, "F")][x]
      BY <3>1, <3>2, <3>3, EditMonthIs
    <3> QED BY <3>4 DEF d
  <2>5. DOMAIN parts = family
    BY PartsIs
  <2>6. post.kind = "save" /\ post.modal = FALSE /\ post.month = m /\ post.parts = parts
    BY DEF Post
  <2> HIDE DEF e, parts, post, family
  <2>7. Fields(q) /\ q.data = e /\ Untouched(r, q, {"data"})
    BY <2>2, <2>4, <1>1 DEF Fields, Untouched
  <2>8. q = [Redraw(page) EXCEPT !.data = EditMonth(@, p, m, amount)]
    <3>1. q = [r EXCEPT !.data = EditMonth(@, p, m, amount)]
      BY <2>2 DEF e
    <3> QED BY <3>1 DEF r
  <2> HIDE DEF q
  <2>9. /\ Fields(c) /\ Untouched(q, c, {"data", "been"}) /\ c.data.val = q.data.val
        /\ Untouched(q.been, c.been, {"query", "radio"})
    BY <2>7, RecalculatedIs
  <2>10. page' = [c EXCEPT !.saving = TRUE] /\ posts' = Append(posts, post) /\ stored' = stored
    BY <2>1, <2>8 DEF Becomes, Sends, c, post, parts
  <2> HIDE DEF c
  <2>11. /\ Fields(page') /\ page'.saving = TRUE /\ page'.data.val = e.val /\ page'.cell = r.cell /\ page'.button = TRUE
         /\ Untouched(page, page', {"data", "cell", "button", "saving", "been"})
         /\ Untouched(page.been, page'.been, {"query", "radio"})
    <3>1. Fields(page') /\ Untouched(c, page', {"saving"}) /\ page'.saving = TRUE
      BY <2>9, <2>10 DEF Fields, Untouched
    <3>2. page'.data = c.data /\ page'.cell = r.cell /\ page'.button = r.button /\ page'.been = c.been /\ q.been = page.been
      BY <1>1, <2>2, <2>7, <2>9, <3>1 DEF Fields, Untouched
    <3>3. Untouched(page, page', {"data", "cell", "button", "saving", "been"})
      BY <1>1, <2>2, <2>7, <2>9, <3>1 DEF Fields, Untouched
    <3> QED BY <2>2, <2>7, <2>9, <3>1, <3>2, <3>3
  <2>12. OverlaySame(page, page') /\ PopupSame(page, page')
    BY <1>1, <2>11 DEF OverlaySame, PopupSame, Untouched, Fields
  <2>13. page'.been.failed = page.been.failed /\ page'.been.cleared = page.been.cleared
    BY <1>1, <2>11 DEF Fields, Untouched
  <2>14. CellInv(page')
    BY <1>1, <2>2, <2>11, ClosedCell
  <2>15. RowsInv(page', stored)
    BY <2>4, <2>11 DEF PageInv, PageInvOf, SavedInv, RowsInv
  <2>16. ASSUME \A i \in Ids, x \in Months : Shown(page, i, x) = stored[i][x],
                NEW i \in Ids, NEW x \in Months
         PROVE  Shown(page', i, x) = Sent(post, i, x, stored)
    BY <2>4, <2>5, <2>6, <2>11, <2>16 DEF Shown, Sent
  <2>17. PostsInv(posts) /\ OverlayInv(page, posts) /\ SavedInv(page, posts, stored) /\ ButtonInv(page, posts)
    BY DEF PageInv, PageInvOf
  <2>18. OverlayInv(page', posts')
    BY <2>6, <2>10, <2>12, <2>17, SentQuietly DEF Big
  <2>19. SavedInv(page', posts', stored')
    BY <1>1, <2>6, <2>10, <2>11, <2>13, <2>14, <2>15, <2>16, <2>17, SentSave
  <2>20. ButtonInv(page', posts')
    BY <2>10, <2>11, <2>17, SentButton
  <2>21. PopupInv(page')
    BY <2>12, PopupKept DEF PageInv, PageInvOf
  <2>22. PostsInv(posts')
    BY <2>6, <2>10, <2>17, SentIs
  <2> QED BY <2>11, <2>18, <2>19, <2>20, <2>21, <2>22 DEF PageInv, PageInvOf
<1> QED BY <1>2, <1>3

\* A save that does not change what the grid shows.
LEMMA SaveStarts ==
  ASSUME NEW p, NEW n, NEW ps, NEW s, PageInvOf(p, ps, s), ~p.saving, NEW post, post.kind = "save", post.parts = <<>>,
         Fields(n), n.saving = TRUE, Closed(n.cell), n.button = TRUE, n.data.val = p.data.val,
         n.popup = p.popup, n.window = p.window, n.narrow = p.narrow, n.new = p.new, n.hung = p.hung,
         Untouched(p.been, n.been, {"query", "radio", "loose"}),
         \/ ~post.modal /\ n.overlay = p.overlay /\ n.been.loose = p.been.loose
         \/ post.modal /\ post.reload /\ n.overlay /\ (n.been.loose <=> p.been.loose \/ p.overlay)
  PROVE  PageInvOf(n, Append(ps, post), s)
<1>1. Fields(p) /\ PostsInv(ps) /\ OverlayInv(p, ps) /\ SavedInv(p, ps, s) /\ ButtonInv(p, ps) /\ PopupInv(p)
  BY DEF PageInvOf
<1>2. /\ n.been.failed = p.been.failed /\ n.been.cleared = p.been.cleared /\ n.been.typed = p.been.typed
      /\ n.been.poFailed = p.been.poFailed /\ n.been.squeezed = p.been.squeezed
  BY <1>1 DEF Fields, Untouched
<1>3. OverlayInv(n, Append(ps, post))
  <2>1. CASE ~post.modal /\ n.overlay = p.overlay /\ n.been.loose = p.been.loose
    BY <1>1, <1>2, <2>1, SentQuietly DEF OverlaySame, Big
  <2>2. CASE post.modal /\ n.overlay /\ (n.been.loose <=> p.been.loose \/ p.overlay)
    <3>1. Passed(n) \/ (n.overlay /\ ~Modal(ps) /\ ~n.window /\ ~n.narrow /\ ~n.popup.open /\ ~n.been.poFailed
                        /\ \A j \in DOMAIN ps : ps[j].kind \in Big => ps[j].modal)
      BY <1>1, <1>2, <2>2 DEF OverlayInv, OverlaySound, Passed
    <3> QED BY <1>1, <2>2, <3>1, SentUnderOverlay
  <2> QED BY <2>1, <2>2
<1>4. SavedInv(n, Append(ps, post), s)
  <2>1. CellInv(n)
    BY <1>1, ClosedCell DEF SavedInv
  <2>2. RowsInv(n, s)
    BY <1>1 DEF SavedInv, RowsInv
  <2>3. \A i \in Ids, m \in Months : Shown(n, i, m) = Shown(p, i, m) /\ Sent(post, i, m, s) = s[i][m]
    BY DEF Shown, Sent
  <2> QED BY <1>1, <1>2, <2>1, <2>2, <2>3, SentSave
<1>5. ButtonInv(n, Append(ps, post))
  BY <1>1, SentButton
<1>6. PopupInv(n)
  BY <1>1, <1>2, PopupKept DEF PopupSame
<1>7. PostsInv(Append(ps, post))
  BY <1>1, SentIs
<1> QED BY <1>3, <1>4, <1>5, <1>6, <1>7 DEF PageInvOf

LEMMA CommitPOKeeps == ASSUME PageInv, CommitPO PROVE PageInv'
<1>1. Fields(page) /\ CellInv(page) /\ page.cell.on = "po" /\ ~page.saving
  BY DEF PageInv, PageInvOf, SavedInv, CellInv, CommitPO
<1>2. CASE Shows([page EXCEPT !.saving = FALSE, !.button = TRUE])
  <2>1. page' = [page EXCEPT !.saving = FALSE, !.button = TRUE] /\ posts' = posts /\ stored' = stored
    BY <1>2 DEF Shows, Becomes
  <2>2. /\ Fields(page') /\ Untouched(page, page', {"saving", "button"}) /\ page'.saving = FALSE /\ page'.button = TRUE
        /\ page'.cell = page.cell
    BY <1>1, <2>1 DEF Fields, Untouched
  <2>3. OverlaySame(page, page') /\ SavingSame(page, page') /\ PopupSame(page, page')
    BY <1>1, <2>2 DEF OverlaySame, SavingSame, PopupSame, Fields, Untouched
  <2>4. CellInv(page')
    BY <1>1, <2>2 DEF CellInv
  <2> QED BY <2>1, <2>2, <2>3, <2>4, Quiet DEF PageInv
<1>3. CASE /\ Sends([Post("save", TRUE) EXCEPT !.reload = TRUE])
           /\ Becomes([Recalculated(Redraw(page)) EXCEPT !.saving = TRUE, !.overlay = TRUE,
                                                         !.been.loose = @ \/ page.overlay])
  <2> DEFINE r == Redraw(page)
             c == Recalculated(r)
             post == [Post("save", TRUE) EXCEPT !.reload = TRUE]
  <2>1. page' = [c EXCEPT !.saving = TRUE, !.overlay = TRUE, !.been.loose = @ \/ page.overlay]
        /\ posts' = Append(posts, post) /\ stored' = stored
    BY <1>3 DEF Sends, Becomes
  <2>2. post.kind = "save" /\ post.modal /\ post.reload /\ post.parts = <<>>
    BY DEF Post
  <2>3. /\ Fields(r) /\ Untouched(page, r, {"cell", "button"}) /\ r.button = TRUE /\ Closed(r.cell)
    BY <1>1, RedrawIs, ClosedCell DEF Fields, Untouched
  <2> HIDE DEF r, post
  <2>4. /\ Fields(c) /\ Untouched(r, c, {"data", "been"}) /\ c.data.val = r.data.val
        /\ Untouched(r.been, c.been, {"query", "radio"})
    BY <2>3, RecalculatedIs
  <2> HIDE DEF c
  <2>5. /\ Fields(page') /\ Untouched(c, page', {"saving", "overlay", "been"}) /\ page'.saving = TRUE /\ page'.overlay = TRUE
        /\ Untouched(c.been, page'.been, {"loose"}) /\ (page'.been.loose <=> c.been.loose \/ page.overlay)
    BY <2>1, <2>4 DEF Fields, Untouched
  <2>6. /\ page'.cell = r.cell /\ page'.button = TRUE /\ page'.data.val = page.data.val /\ page'.popup = page.popup
        /\ page'.window = page.window /\ page'.narrow = page.narrow /\ page'.new = page.new /\ page'.hung = page.hung
        /\ r.been = page.been
    BY <1>1, <2>3, <2>4, <2>5 DEF Fields, Untouched
  <2>7. Untouched(page.been, page'.been, {"query", "radio", "loose"}) /\ c.been.loose = page.been.loose
    BY <1>1, <2>4, <2>5, <2>6 DEF Fields, Untouched
  <2>8. page'.overlay /\ (page'.been.loose <=> page.been.loose \/ page.overlay)
    BY <2>5, <2>7
  <2>9. Fields(page') /\ page'.saving = TRUE /\ Closed(page'.cell)
    BY <2>3, <2>5, <2>6
  <2>10. PageInvOf(page', Append(posts, post), stored)
    BY <1>1, <2>2, <2>6, <2>7, <2>8, <2>9, SaveStarts DEF PageInv
  <2> QED BY <2>1, <2>10 DEF PageInv
<1> QED BY <1>2, <1>3 DEF CommitPO

LEMMA ExistingIsSeq ==
  ASSUME NEW rows, Sequence(rows), NEW kids, Sequence(kids)
  PROVE  Sequence(Existing(rows, kids))
<1> DEFINE S == {rows[i] : i \in DOMAIN rows}
           a == Len(kids) + 1
           b == Len(rows)
           t == SubSeq(rows, a, b)
<1>1. rows \in Seq(S) /\ a \in Nat \ {0} /\ b \in Nat /\ DOMAIN rows = 1..b
  BY SeqFacts
<1> HIDE DEF S, a, b
<1>2. t \in Seq(S)
  <2>1. \A i \in a..b : rows[i] \in S
    BY <1>1, ElementOfSeq
  <2> QED BY <1>1, <2>1, SubSeqProperties
<1> HIDE DEF t
<1>3. Sequence(t)
  BY <1>2, SeqFacts
<1> QED BY <1>3, ConcatIs DEF Existing, t, a, b

LEMMA KidRowsIsSeq == ASSUME NEW p \in Tops PROVE Sequence(KidRows(p))
<1> DEFINE t == KidRows(p)
<1>1. Sequence(Kids[p])
  <2> DEFINE kids == Kids[p]
  <2>1. kids \in Seq(Ids)
    BY PageAssumption
  <2> HIDE DEF kids
  <2>2. Sequence(kids)
    BY <2>1, SeqFacts
  <2> QED BY <2>2 DEF kids
<1>2. t = [n \in DOMAIN Kids[p] |-> t[n]]
  BY DEF KidRows
<1> HIDE DEF t
<1>3. Sequence(t)
  BY <1>1, <1>2, MappedIsSeq
<1> QED BY <1>3 DEF t

LEMMA SingleRowsIsSeq == ASSUME PageInv, NEW p PROVE Sequence(SingleRows(p))
BY RowsEdited DEF SingleRows, PageInv, PageInvOf, PopupInv, ListsInv

LEMMA CommitBrandKeeps == ASSUME PageInv, CommitBrand PROVE PageInv'
<1> DEFINE p == page.cell.id
           r == Redraw(page)
<1>1. Fields(page) /\ CellInv(page) /\ page.cell.on = "brand" /\ ~page.saving /\ ~page.hung
  BY DEF PageInv, PageInvOf, SavedInv, CellInv, CommitBrand
<1>2. /\ Fields(r) /\ Untouched(page, r, {"cell", "button"}) /\ r.button = TRUE /\ Closed(r.cell)
  BY <1>1, RedrawIs, ClosedCell DEF Fields, Untouched
<1>3. CASE Rejected
  BY <1>3, RejectedKeeps
<1>4. ASSUME NEW b \in Brands \ {page.brand[p]},
             Sends([Post("save", FALSE) EXCEPT !.reload = page.toSingle]),
             Becomes([Recalculated([Redraw(page) EXCEPT !.brand[p] = b, !.kept[p] = b]) EXCEPT !.saving = TRUE])
      PROVE  PageInv'
  <2> DEFINE q == [r EXCEPT !.brand[p] = b, !.kept[p] = b]
             c == Recalculated(q)
             post == [Post("save", FALSE) EXCEPT !.reload = page.toSingle]
  <2>1. page' = [c EXCEPT !.saving = TRUE] /\ posts' = Append(posts, post) /\ stored' = stored
    BY <1>4 DEF Sends, Becomes
  <2>2. post.kind = "save" /\ ~post.modal /\ post.parts = <<>>
    BY DEF Post
  <2> HIDE DEF r, post
  <2>3. Fields(q) /\ Untouched(r, q, {"brand", "kept"})
    BY <1>2 DEF Fields, Untouched
  <2> HIDE DEF q
  <2>4. /\ Fields(c) /\ Untouched(q, c, {"data", "been"}) /\ c.data.val = q.data.val
        /\ Untouched(q.been, c.been, {"query", "radio"})
    BY <2>3, RecalculatedIs
  <2> HIDE DEF c
  <2>5. Fields(page') /\ Untouched(c, page', {"saving"}) /\ page'.saving = TRUE
    BY <2>1, <2>4 DEF Fields, Untouched
  <2>6. /\ page'.cell = r.cell /\ page'.button = TRUE /\ page'.data.val = page.data.val /\ page'.popup = page.popup
        /\ page'.window = page.window /\ page'.narrow = page.narrow /\ page'.new = page.new /\ page'.hung = page.hung
        /\ page'.overlay = page.overlay /\ q.been = page.been /\ page'.been = c.been
    BY <1>1, <1>2, <2>3, <2>4, <2>5 DEF Fields, Untouched
  <2>7. Untouched(page.been, page'.been, {"query", "radio", "loose"}) /\ page'.been.loose = page.been.loose
    BY <1>1, <2>4, <2>6 DEF Fields, Untouched
  <2>8. Fields(page') /\ page'.saving = TRUE /\ Closed(page'.cell)
    BY <1>2, <2>5, <2>6
  <2>9. PageInvOf(page', Append(posts, post), stored)
    BY <1>1, <2>2, <2>6, <2>7, <2>8, SaveStarts DEF PageInv
  <2> QED BY <2>1, <2>9 DEF PageInv
<1>5. CASE Shows(Recalculated([Redraw(page) EXCEPT !.brand[p] = Smart]))
  <2> DEFINE q == [r EXCEPT !.brand[p] = Smart]
             c == Recalculated(q)
  <2>1. page' = c /\ posts' = posts /\ stored' = stored
    BY <1>5 DEF Shows, Becomes
  <2> HIDE DEF r
  <2>2. Fields(q) /\ Untouched(r, q, {"brand"})
    BY <1>2 DEF Fields, Untouched
  <2> HIDE DEF q
  <2>3. /\ Fields(c) /\ Untouched(q, c, {"data", "been"}) /\ c.data.val = q.data.val
        /\ Untouched(q.been, c.been, {"query", "radio"})
    BY <2>2, RecalculatedIs
  <2> HIDE DEF c
  <2>4. /\ c.cell = r.cell /\ c.button = TRUE /\ c.data.val = page.data.val /\ q.been = page.been
        /\ Untouched(page, c, {"cell", "button", "brand", "data", "been"})
    BY <1>1, <1>2, <2>2, <2>3 DEF Fields, Untouched
  <2>5. CellInv(c) /\ Untouched(page.been, c.been, {"query", "radio", "single"})
    BY <1>1, <1>2, <2>3, <2>4, ClosedCell DEF Untouched
  <2>6. Untouched(page, c, {"data", "query", "radio", "cell", "brand", "kept", "guard", "toSingle", "button", "rejected",
                            "edits", "been"})
    BY <2>4 DEF Untouched
  <2>7. PageInvOf(c, posts, stored)
    BY <2>3, <2>4, <2>5, <2>6, QuietFields DEF PageInv
  <2> QED BY <2>1, <2>7 DEF PageInv
<1>6. CASE Shows(Recalculated(PopupFor([Redraw(page) EXCEPT !.brand[p] = Smart], [on |-> "project", id |-> p], SingleRows(p))))
  <2> DEFINE q == [r EXCEPT !.brand[p] = Smart]
             rows == SingleRows(p)
             o == PopupFor(q, [on |-> "project", id |-> p], rows)
             c == Recalculated(o)
  <2>1. page' = c /\ posts' = posts /\ stored' = stored
    BY <1>6 DEF Shows, Becomes
  <2>2. Sequence(rows)
    BY SingleRowsIsSeq
  <2> HIDE DEF r, rows
  <2>3. Fields(q) /\ Untouched(r, q, {"brand"})
    BY <1>2 DEF Fields, Untouched
  <2> HIDE DEF q
  <2>4. /\ Fields(o) /\ Untouched(q, o, {"popup", "cell", "overlay", "been"}) /\ o.overlay = TRUE
        /\ o.popup.open = TRUE /\ o.popup.rows = rows
        /\ o.cell = IF q.cell.on = "popup" THEN q.cell ELSE NoCell
        /\ (o.been.loose <=> q.been.loose \/ q.overlay) /\ Untouched(q.been, o.been, {"loose"})
    BY <2>3, PopupForIs
  <2> HIDE DEF o
  <2>5. /\ Fields(c) /\ Untouched(o, c, {"data", "been"}) /\ c.data.val = o.data.val
        /\ Untouched(o.been, c.been, {"query", "radio"})
    BY <2>4, RecalculatedIs
  <2> HIDE DEF c
  <2>6. /\ c.overlay = TRUE /\ c.popup = o.popup /\ c.cell = o.cell /\ c.button = TRUE /\ c.data.val = page.data.val
        /\ c.window = page.window /\ c.narrow = page.narrow /\ c.hung = page.hung /\ c.new = page.new
        /\ c.saving = page.saving /\ q.been = page.been /\ q.overlay = page.overlay /\ q.cell = r.cell
    BY <1>1, <1>2, <2>3, <2>4, <2>5 DEF Fields, Untouched
  <2>7. /\ c.been.poFailed = page.been.poFailed /\ c.been.squeezed = page.been.squeezed
        /\ c.been.failed = page.been.failed /\ c.been.cleared = page.been.cleared
        /\ (c.been.loose <=> page.been.loose \/ page.overlay)
    BY <1>1, <2>4, <2>5, <2>6 DEF Fields, Untouched
  <2>8. Closed(c.cell) /\ CellInv(c)
    BY <1>1, <1>2, <2>4, <2>6, ClosedCell DEF Closed, NoCell
  <2>9. ListsInv(c) /\ SavingSame(page, c)
    BY <2>2, <2>4, <2>6, <2>7 DEF ListsInv, SavingSame, PageInv, PageInvOf, PopupInv
  <2>10. PageInvOf(c, posts, stored)
    BY <1>1, <2>4, <2>5, <2>6, <2>7, <2>8, <2>9, PopupOpens DEF PageInv
  <2> QED BY <2>1, <2>10 DEF PageInv
<1> QED BY <1>3, <1>4, <1>5, <1>6 DEF CommitBrand

LEMMA ClickBrandKeeps == ASSUME PageInv, ClickBrand PROVE PageInv'
<1>1. Fields(page) /\ CellInv(page) /\ ~page.hung /\ ~page.overlay /\ page.cell = NoCell
  BY DEF PageInv, PageInvOf, SavedInv, ClickBrand, Clickable
<1> DEFINE RowsOf(p) == IF page.data.multi[p] THEN Existing(page.popup.rows, KidRows(p)) ELSE SingleRows(p)
<1>2. PICK p \in Tops :
        \/ Shows([PopupFor(page, [on |-> "project", id |-> p], RowsOf(p)) EXCEPT !.guard = TRUE])
        \/ Shows([page EXCEPT !.toSingle = TRUE, !.data.multi[p] = FALSE, !.been.single = TRUE,
                              !.cell = IF page.saving THEN @ ELSE [on |-> "brand", id |-> p]])
  BY DEF ClickBrand
<1>3. CASE Shows([PopupFor(page, [on |-> "project", id |-> p], RowsOf(p)) EXCEPT !.guard = TRUE])
  <2> DEFINE rows == RowsOf(p)
             o == PopupFor(page, [on |-> "project", id |-> p], rows)
  <2>1. page' = [o EXCEPT !.guard = TRUE] /\ posts' = posts /\ stored' = stored
    BY <1>3 DEF Shows, Becomes
  <2>2. Sequence(rows)
    <3>1. Sequence(page.popup.rows)
      BY DEF PageInv, PageInvOf, PopupInv, ListsInv
    <3> QED BY <3>1, ExistingIsSeq, KidRowsIsSeq, SingleRowsIsSeq
  <2> HIDE DEF rows
  <2>3. /\ Fields(o) /\ Untouched(page, o, {"popup", "cell", "overlay", "been"}) /\ o.overlay = TRUE
        /\ o.popup.open = TRUE /\ o.popup.rows = rows
        /\ o.cell = IF page.cell.on = "popup" THEN page.cell ELSE NoCell
        /\ (o.been.loose <=> page.been.loose \/ page.overlay) /\ Untouched(page.been, o.been, {"loose"})
    BY <1>1, PopupForIs
  <2> HIDE DEF o
  <2>4. Fields(page') /\ Untouched(o, page', {"guard"})
    BY <2>1, <2>3 DEF Fields, Untouched
  <2>5. /\ page'.overlay = TRUE /\ page'.popup = o.popup /\ page'.cell = o.cell /\ page'.button = page.button
        /\ page'.data = page.data /\ page'.window = page.window /\ page'.narrow = page.narrow
        /\ page'.hung = page.hung /\ page'.new = page.new /\ page'.saving = page.saving /\ page'.been = o.been
    BY <1>1, <2>3, <2>4 DEF Fields, Untouched
  <2>6. /\ page'.been.poFailed = page.been.poFailed /\ page'.been.squeezed = page.been.squeezed
        /\ page'.been.failed = page.been.failed /\ page'.been.cleared = page.been.cleared
        /\ (page'.been.loose <=> page.been.loose \/ page.overlay)
    BY <1>1, <2>3, <2>5 DEF Fields, Untouched
  <2>7. CellInv(page')
    BY <1>1, <2>3, <2>5, ClosedCell DEF Closed, NoCell
  <2>8. ListsInv(page') /\ SavingSame(page, page')
    BY <2>2, <2>3, <2>5, <2>6 DEF ListsInv, SavingSame, PageInv, PageInvOf, PopupInv
  <2>9. PageInvOf(page', posts, stored)
    BY <1>1, <2>3, <2>4, <2>5, <2>6, <2>7, <2>8, PopupOpens DEF PageInv
  <2> QED BY <2>1, <2>9 DEF PageInv
<1>4. CASE Shows([page EXCEPT !.toSingle = TRUE, !.data.multi[p] = FALSE, !.been.single = TRUE,
                              !.cell = IF page.saving THEN @ ELSE [on |-> "brand", id |-> p]])
  <2>1. page' = [page EXCEPT !.toSingle = TRUE, !.data.multi[p] = FALSE, !.been.single = TRUE,
                             !.cell = IF page.saving THEN @ ELSE [on |-> "brand", id |-> p]]
        /\ posts' = posts /\ stored' = stored
    BY <1>4 DEF Shows, Becomes
  <2>2. /\ Fields(page') /\ Untouched(page, page', {"toSingle", "data", "been", "cell"})
        /\ page'.data.val = page.data.val /\ Untouched(page.been, page'.been, {"single"})
        /\ page'.cell = IF page.saving THEN page.cell ELSE [on |-> "brand", id |-> p]
    BY <1>1, <2>1 DEF Fields, Untouched
  <2>3. page'.saving = page.saving /\ page'.button = page.button
    BY <1>1, <2>2 DEF Fields, Untouched
  <2>4. CellInv(page')
    BY <1>1, <2>2, <2>3 DEF CellInv
  <2>5. Untouched(page, page', {"data", "query", "radio", "cell", "brand", "kept", "guard", "toSingle", "button", "rejected",
                                "edits", "been"})
        /\ Untouched(page.been, page'.been, {"query", "radio", "single"})
    BY <2>2 DEF Untouched
  <2>6. PageInvOf(page', posts, stored)
    BY <2>2, <2>3, <2>4, <2>5, QuietFields DEF PageInv
  <2> QED BY <2>1, <2>6 DEF PageInv
<1> QED BY <1>2, <1>3, <1>4

-----------------------------------------------------------------------------
(* the popup *)

LEMMA PopupEdited ==
  ASSUME NEW p, NEW n, NEW ps, NEW s, PageInvOf(p, ps, s), Fields(n), CellInv(n),
         Untouched(p, n, {"popup", "cell", "edits", "hung", "been"}), Untouched(p.been, n.been, {"typed"}),
         n.popup.open = p.popup.open, Sequence(n.popup.rows), HungInv(n), n.popup.open \/ n.been.typed
  PROVE  PageInvOf(n, ps, s)
<1>1. Fields(p)
  BY DEF PageInvOf
<1>2. /\ n.overlay = p.overlay /\ n.window = p.window /\ n.narrow = p.narrow /\ n.new = p.new /\ n.saving = p.saving
      /\ n.button = p.button /\ n.data = p.data
  BY <1>1 DEF Fields, Untouched
<1>3. /\ n.been.poFailed = p.been.poFailed /\ n.been.squeezed = p.been.squeezed /\ n.been.loose = p.been.loose
      /\ n.been.failed = p.been.failed /\ n.been.cleared = p.been.cleared
  BY <1>1 DEF Fields, Untouched
<1>4. OverlaySame(p, n) /\ SavingSame(p, n)
  BY <1>2, <1>3 DEF OverlaySame, SavingSame
<1>5. OverlayInv(n, ps) /\ SavedInv(n, ps, s) /\ ButtonInv(n, ps)
  BY <1>2, <1>4, OverlayKept, SavedKept, ButtonKept DEF PageInvOf
<1>6. PopupInv(n)
  BY <1>2 DEF PageInvOf, PopupInv, ListsInv, BlankInv
<1> QED BY <1>5, <1>6 DEF PageInvOf

\* The rows and the cell of the popup are changed while it is open.
LEMMA EditedInPopup ==
  ASSUME PageInv, NEW rows, Sequence(rows), NEW cell, NEW clean, page.popup.open, ~page.hung,
         cell.on = "popup" \/ cell = NoCell \/ cell = page.cell
  PROVE  PageInvOf([Edited(rows) EXCEPT !.cell = cell, !.popup.clean = clean], posts, stored)
<1> DEFINE n == [Edited(rows) EXCEPT !.cell = cell, !.popup.clean = clean]
<1>1. Fields(page) /\ CellInv(page)
  BY DEF PageInv, PageInvOf, SavedInv
<1>2. /\ Fields(n) /\ Untouched(page, n, {"popup", "cell", "edits"}) /\ n.popup.rows = rows /\ n.popup.open = page.popup.open
      /\ n.cell = cell
  BY <1>1 DEF Edited, WithRows, Fields, Untouched
<1> HIDE DEF n
<1>3. n.been = page.been /\ n.hung = page.hung /\ n.saving = page.saving
  BY <1>1, <1>2 DEF Fields, Untouched
<1>4. CellInv(n)
  BY <1>1, <1>2, <1>3, CellKept
<1>5. HungInv(n)
  BY <1>3 DEF HungInv
<1>6. Untouched(page, n, {"popup", "cell", "edits", "hung", "been"}) /\ Untouched(page.been, n.been, {"typed"})
  BY <1>2, <1>3 DEF Untouched
<1>7. PageInvOf(n, posts, stored)
  BY <1>2, <1>4, <1>5, <1>6, PopupEdited DEF PageInv
<1> QED BY <1>7 DEF n

LEMMA RowsAreSeq == ASSUME PageInv PROVE Sequence(page.popup.rows)
BY DEF PageInv, PageInvOf, PopupInv, ListsInv

LEMMA OpenPopupCellKeeps == ASSUME PageInv, OpenPopupCell PROVE PageInv'
<1>1. PICK i \in DOMAIN page.popup.rows, field \in {"brand", "total"} :
        Shows([Edited(Opened(page.popup.rows, i, field)) EXCEPT !.cell = [on |-> "popup", row |-> i, field |-> field]])
  BY DEF OpenPopupCell
<1> DEFINE rows == Opened(page.popup.rows, i, field)
           cell == [on |-> "popup", row |-> i, field |-> field]
           clean == page.popup.clean
           e == Edited(rows)
<1>2. Sequence(rows) /\ cell.on = "popup"
  BY RowsAreSeq, RowsEdited
<1>3. page' = [e EXCEPT !.cell = cell] /\ posts' = posts /\ stored' = stored
  BY <1>1 DEF Shows, Becomes
<1>4. Fields(page) /\ page.popup.open /\ ~page.hung
  BY DEF PageInv, PageInvOf, OpenPopupCell, MayEdit, InPopup
<1> HIDE DEF rows, cell
<1>5. [e EXCEPT !.cell = cell, !.popup.clean = clean] = [e EXCEPT !.cell = cell]
  BY <1>4 DEF Edited, WithRows, Fields
<1>6. PageInvOf([e EXCEPT !.cell = cell, !.popup.clean = clean], posts, stored)
  BY <1>2, <1>4, EditedInPopup
<1> QED BY <1>3, <1>5, <1>6 DEF PageInv

LEMMA AddRowKeeps == ASSUME PageInv, AddRow PROVE PageInv'
<1> DEFINE rows == Append(page.popup.rows, BlankRow)
           cell == IF page.cell.on = "popup" THEN NoCell ELSE page.cell
           clean == page.popup.clean
           e == Edited(rows)
<1>1. Sequence(rows)
  BY RowsAreSeq, AppendIs
<1>2. Fields(page) /\ page.popup.open /\ ~page.hung
  BY DEF PageInv, PageInvOf, AddRow, MayEdit, InPopup
<1>3. page' = [e EXCEPT !.cell = IF @.on = "popup" THEN NoCell ELSE @] /\ posts' = posts /\ stored' = stored
  BY DEF AddRow, Shows, Becomes
<1> HIDE DEF rows
<1>4. [e EXCEPT !.cell = cell, !.popup.clean = clean] = page'
  <2>1. [e EXCEPT !.cell = cell] = page'
    BY <1>2, <1>3 DEF Edited, WithRows, Fields
  <2> HIDE DEF cell
  <2>2. [e EXCEPT !.cell = cell, !.popup.clean = clean] = [e EXCEPT !.cell = cell]
    BY <1>2 DEF Edited, WithRows, Fields
  <2> QED BY <2>1, <2>2
<1>5. cell = NoCell \/ cell = page.cell
  OBVIOUS
<1> HIDE DEF cell, clean
<1>6. PageInvOf([e EXCEPT !.cell = cell, !.popup.clean = clean], posts, stored)
  BY <1>1, <1>2, <1>5, EditedInPopup
<1> QED BY <1>3, <1>4, <1>6 DEF PageInv

LEMMA DeleteRowsKeeps == ASSUME PageInv, DeleteRows PROVE PageInv'
<1>1. PICK gone \in SUBSET DOMAIN page.popup.rows :
        LET done == [Edited(Delete(page.popup.rows, gone, IsNew)) EXCEPT !.popup.clean = FALSE]
        IN  \/ Shows([done EXCEPT !.cell = IF @.on = "popup" THEN NoCell ELSE @])
            \/ Shows([Edited(Without(page.popup.rows, gone)) EXCEPT !.popup.clean = FALSE])
  BY DEF DeleteRows
<1>2. Fields(page) /\ page.popup.open /\ ~page.hung
  BY DEF PageInv, PageInvOf, DeleteRows, MayEdit, InPopup
<1>3. CASE Shows([[Edited(Delete(page.popup.rows, gone, IsNew)) EXCEPT !.popup.clean = FALSE]
                    EXCEPT !.cell = IF @.on = "popup" THEN NoCell ELSE @])
  <2> DEFINE rows == Delete(page.popup.rows, gone, IsNew)
             cell == IF page.cell.on = "popup" THEN NoCell ELSE page.cell
             e == Edited(rows)
  <2>1. Sequence(rows)
    BY RowsAreSeq, DeleteIsSeq
  <2>2. page' = [[e EXCEPT !.popup.clean = FALSE] EXCEPT !.cell = IF @.on = "popup" THEN NoCell ELSE @]
        /\ posts' = posts /\ stored' = stored
    BY <1>3 DEF Shows, Becomes
  <2> HIDE DEF rows
  <2>3. [e EXCEPT !.cell = cell, !.popup.clean = FALSE] = page'
    BY <1>2, <2>2 DEF Edited, WithRows, Fields
  <2>4. cell = NoCell \/ cell = page.cell
    OBVIOUS
  <2> HIDE DEF cell
  <2>5. PageInvOf([e EXCEPT !.cell = cell, !.popup.clean = FALSE], posts, stored)
    BY <1>2, <2>1, <2>4, EditedInPopup
  <2> QED BY <2>2, <2>3, <2>5 DEF PageInv
<1>4. CASE Shows([Edited(Without(page.popup.rows, gone)) EXCEPT !.popup.clean = FALSE])
  <2> DEFINE rows == Without(page.popup.rows, gone)
             cell == page.cell
             e == Edited(rows)
  <2>1. Sequence(rows)
    BY RowsAreSeq, WithoutIsSeq
  <2>2. page' = [e EXCEPT !.popup.clean = FALSE] /\ posts' = posts /\ stored' = stored
    BY <1>4 DEF Shows, Becomes
  <2> HIDE DEF rows
  <2>3. [e EXCEPT !.cell = cell, !.popup.clean = FALSE] = page'
    BY <1>2, <2>2 DEF Edited, WithRows, Fields
  <2>4. cell = page.cell
    OBVIOUS
  <2> HIDE DEF cell
  <2>5. PageInvOf([e EXCEPT !.cell = cell, !.popup.clean = FALSE], posts, stored)
    BY <1>2, <2>1, <2>4, EditedInPopup
  <2> QED BY <2>2, <2>3, <2>5 DEF PageInv
<1> QED BY <1>1, <1>3, <1>4

LEMMA PopupCommitIs ==
  ASSUME Fields(page), NEW rows
  PROVE  LET n == PopupCommit(rows)
         IN  /\ Fields(n) /\ Untouched(page, n, {"popup", "cell", "been"}) /\ n.cell = NoCell
             /\ n.popup.rows = rows /\ n.popup.open = page.popup.open
             /\ Untouched(page.been, n.been, {"typed"}) /\ (n.popup.open \/ n.been.typed)
BY DEF PopupCommit, WithRows, Fields, Untouched

\* What a commit to the popup leaves, once the new rows are known to be a sequence.
LEMMA CommittedInPopup ==
  ASSUME PageInv, NEW rows, Sequence(rows), NEW n, Fields(n), HungInv(n),
         Untouched(PopupCommit(rows), n, {"popup", "hung"}), n.popup.rows = rows, n.popup.open = page.popup.open
  PROVE  PageInvOf(n, posts, stored)
<1> DEFINE c == PopupCommit(rows)
<1>1. Fields(page) /\ CellInv(page)
  BY DEF PageInv, PageInvOf, SavedInv
<1>2. /\ Fields(c) /\ Untouched(page, c, {"popup", "cell", "been"}) /\ c.cell = NoCell
      /\ c.popup.open = page.popup.open
      /\ Untouched(page.been, c.been, {"typed"}) /\ (c.popup.open \/ c.been.typed)
  BY <1>1, PopupCommitIs
<1> HIDE DEF c
<1>3. Untouched(c, n, {"popup", "hung"})
  BY DEF c
<1>4. /\ n.cell = NoCell /\ n.been = c.been /\ Untouched(page, n, {"popup", "cell", "edits", "hung", "been"})
      /\ Untouched(page.been, n.been, {"typed"}) /\ (n.popup.open \/ n.been.typed)
  BY <1>1, <1>2, <1>3 DEF Fields, Untouched
<1>5. CellInv(n)
  BY <1>1, <1>4, ClosedCell
<1> QED BY <1>4, <1>5, PopupEdited DEF PageInv

\* ... and what the shares are worth after it has been noted.
LEMMA CommittedAndNoted ==
  ASSUME PageInv, ~page.hung, NEW rows, Sequence(rows), NEW clean,
         Shows([PopupCommit(rows) EXCEPT !.popup.clean = clean])
  PROVE  PageInv'
<1> DEFINE c == PopupCommit(rows)
<1>1. Fields(page)
  BY DEF PageInv, PageInvOf
<1>2. /\ Fields(c) /\ Untouched(page, c, {"popup", "cell", "been"})
      /\ c.popup.rows = rows /\ c.popup.open = page.popup.open
  BY <1>1, PopupCommitIs
<1>3. page' = [c EXCEPT !.popup.clean = clean] /\ posts' = posts /\ stored' = stored
  BY DEF Shows, Becomes
<1> HIDE DEF c
<1>4. /\ Fields(page') /\ Untouched(c, page', {"popup", "hung"}) /\ page'.popup.rows = rows
      /\ page'.popup.open = page.popup.open /\ page'.hung = page.hung
  BY <1>1, <1>2, <1>3 DEF Fields, Untouched
<1>5. HungInv(page')
  BY <1>4 DEF HungInv
<1>6. Untouched(PopupCommit(rows), page', {"popup", "hung"})
  BY <1>4 DEF c
<1>7. PageInvOf(page', posts, stored)
  BY <1>4, <1>5, <1>6, CommittedInPopup
<1> QED BY <1>3, <1>7 DEF PageInv

LEMMA CommitPopupBrandKeeps == ASSUME PageInv, CommitPopupBrand PROVE PageInv'
<1>1. PICK b : Shows([PopupCommit([page.popup.rows EXCEPT ![page.cell.row].brand = b])
                        EXCEPT !.popup.clean = @ /\ b # ""])
  BY DEF CommitPopupBrand
<1> DEFINE rows == [page.popup.rows EXCEPT ![page.cell.row].brand = b]
           clean == PopupCommit(rows).popup.clean /\ b # ""
<1>2. Shows([PopupCommit(rows) EXCEPT !.popup.clean = clean])
  BY <1>1
<1>3. Sequence(rows)
  BY RowsAreSeq, RowsEdited
<1>4. ~page.hung
  BY DEF CommitPopupBrand, InCell
<1> HIDE DEF rows, clean
<1> QED BY <1>2, <1>3, <1>4, CommittedAndNoted

LEMMA CommitPopupTotalKeeps == ASSUME PageInv, CommitPopupTotal PROVE PageInv'
<1> DEFINE i == page.cell.row
           typed(total) == [page.popup.rows EXCEPT ![i].total = total]
<1>1. PICK total \in Totals :
        Shows(IF total < 0 THEN [PopupCommit(Restored(typed(total), i)) EXCEPT !.popup.clean = FALSE]
              ELSE IF Hangs(typed(total)) THEN [PopupCommit(typed(total)) EXCEPT !.hung = TRUE]
              ELSE [PopupCommit(Grown(ShareOut(typed(total)), i)) EXCEPT !.popup.clean = TRUE])
  BY DEF CommitPopupTotal
<1> DEFINE set == typed(total)
<1>2. Sequence(set)
  BY RowsAreSeq, RowsEdited
<1> HIDE DEF set, i
<1>3. Fields(page) /\ ~page.hung
  BY DEF PageInv, PageInvOf, CommitPopupTotal, InCell
<1>4. posts' = posts /\ stored' = stored
  BY <1>1 DEF Shows, Becomes
<1>5. ASSUME Hangs(set), page' = [PopupCommit(set) EXCEPT !.hung = TRUE]
      PROVE  PageInv'
  <2> DEFINE c == PopupCommit(set)
  <2>1. /\ Fields(c) /\ Untouched(page, c, {"popup", "cell", "been"})
        /\ c.popup.rows = set /\ c.popup.open = page.popup.open
    BY <1>3, PopupCommitIs
  <2> HIDE DEF c
  <2>2. page' = [c EXCEPT !.hung = TRUE]
    BY <1>5 DEF c
  <2>3. /\ Fields(page') /\ Untouched(c, page', {"popup", "hung"}) /\ page'.popup.rows = set
        /\ page'.popup.open = page.popup.open
    BY <1>3, <2>1, <2>2 DEF Fields, Untouched
  <2>4. HungInv(page')
    <3>1. \E j \in DOMAIN set : \E m \in 1..j : set[m].brand = "" /\ set[j].total # Unset
      BY <1>2, <1>5, HangsMeans
    <3> QED BY <2>3, <3>1 DEF HungInv
  <2>5. Untouched(PopupCommit(set), page', {"popup", "hung"})
    BY <2>3 DEF c
  <2>6. PageInvOf(page', posts, stored)
    BY <1>2, <2>3, <2>4, <2>5, CommittedInPopup
  <2> QED BY <1>4, <2>6 DEF PageInv
<1>6. CASE total < 0
  <2>1. Shows([PopupCommit(Restored(set, i)) EXCEPT !.popup.clean = FALSE])
    BY <1>1, <1>6 DEF set
  <2>2. Sequence(Restored(set, i))
    BY <1>2, RowsEdited
  <2> QED BY <1>3, <2>1, <2>2, CommittedAndNoted
<1>7. CASE ~(total < 0) /\ Hangs(set)
  <2>1. page' = [PopupCommit(set) EXCEPT !.hung = TRUE]
    BY <1>1, <1>7 DEF Shows, Becomes, set
  <2> QED BY <1>5, <1>7, <2>1
<1>8. CASE ~(total < 0) /\ ~Hangs(set)
  <2>1. Shows([PopupCommit(Grown(ShareOut(set), i)) EXCEPT !.popup.clean = TRUE])
    BY <1>1, <1>8 DEF set
  <2>2. Sequence(Grown(ShareOut(set), i))
    BY <1>2, RowsEdited, GrownIsSeq
  <2> QED BY <1>3, <2>1, <2>2, CommittedAndNoted
<1> QED BY <1>6, <1>7, <1>8

\* The popup is closed: the overlay was for it alone.
LEMMA PopupCloses ==
  ASSUME NEW p, NEW n, NEW ps, NEW s, PageInvOf(p, ps, s), p.popup.open, Fields(n), CellInv(n),
         ~n.overlay, ~n.popup.open, n.window = p.window, n.narrow = p.narrow, n.been = p.been,
         SavingSame(p, n), n.button = TRUE, ListsInv(n), ~n.hung,
         \A i \in DOMAIN n.popup.rows : n.popup.rows[i] = BlankRow
  PROVE  PageInvOf(n, ps, s)
<1>1. OverlayInv(n, ps)
  BY DEF PageInvOf, OverlayInv, OverlaySound, Passed
<1>2. SavedInv(n, ps, s) /\ ButtonInv(n, ps)
  BY SavedKept, ButtonKept DEF PageInvOf
<1>3. PopupInv(n)
  BY DEF PopupInv, HungInv, BlankInv
<1> QED BY <1>1, <1>2, <1>3 DEF PageInvOf

LEMMA NewKept ==
  ASSUME NEW s, Sequence(s), \A k \in DOMAIN s : NewRecord(s[k]), NEW x, NEW m, x \in DOMAIN s => NewRecord(m)
  PROVE  Sequence([s EXCEPT ![x] = m]) /\ \A k \in DOMAIN s : NewRecord([s EXCEPT ![x] = m][k])
<1> DEFINE t == [s EXCEPT ![x] = m]
<1>1. t = [k \in DOMAIN s |-> t[k]] /\ \A k \in DOMAIN s : t[k] = IF k = x THEN m ELSE s[k]
  OBVIOUS
<1> HIDE DEF t
<1>2. Sequence(t)
  BY <1>1, MappedIsSeq
<1>3. \A k \in DOMAIN s : NewRecord(t[k])
  BY <1>1
<1> QED BY <1>2, <1>3 DEF t

LEMMA BlankedIsSeq ==
  ASSUME NEW s, Sequence(s), NEW t, t = [i \in DOMAIN s |-> BlankRow]
  PROVE  Sequence(t) /\ \A i \in DOMAIN t : t[i] = BlankRow
BY RowsEdited

LEMMA CloseWithoutSaveKeeps == ASSUME PageInv, CloseWithoutSave PROVE PageInv'
<1> DEFINE h == Hidden(page)
           for == page.popup.for
<1>1. Fields(page) /\ CellInv(page) /\ page.popup.open /\ ~page.hung /\ ListsInv(page)
  BY DEF PageInv, PageInvOf, SavedInv, PopupInv, CloseWithoutSave, InPopup
<1>2. /\ Fields(h) /\ Untouched(page, h, {"popup", "cell", "overlay", "button"}) /\ h.overlay = FALSE /\ h.button = TRUE
      /\ h.cell = IF page.cell.on = "popup" THEN page.cell ELSE NoCell
      /\ h.popup.open = FALSE /\ h.popup.rows = [i \in DOMAIN page.popup.rows |-> BlankRow]
  BY <1>1, HiddenIs
<1>3. posts' = posts /\ stored' = stored
      /\ page' \in {h, [h EXCEPT !.brand[for.id] = page.kept[for.id]], [h EXCEPT !.new[for.id].brand = ""]}
  BY DEF CloseWithoutSave, Shows, Becomes
<1> HIDE DEF h
<1>4. /\ Fields(page') /\ Untouched(h, page', {"brand", "new"})
      /\ page'.new \in {page.new, [page.new EXCEPT ![for.id] = [page.new[for.id] EXCEPT !.brand = ""]]}
  <2>1. h.new = page.new
    BY <1>1, <1>2 DEF Fields, Untouched
  <2>2. CASE page' = h
    BY <2>1, <2>2, <1>2 DEF Untouched
  <2>3. CASE page' = [h EXCEPT !.brand[for.id] = page.kept[for.id]]
    <3>1. Fields(page') /\ Untouched(h, page', {"brand"})
      BY <1>2, <2>3 DEF Fields, Untouched
    <3>2. page'.new = page.new
      BY <1>2, <2>1, <3>1 DEF Fields, Untouched
    <3> QED BY <3>1, <3>2 DEF Untouched
  <2>4. CASE page' = [h EXCEPT !.new[for.id].brand = ""]
    <3>1. Fields(page') /\ Untouched(h, page', {"new"})
      BY <1>2, <2>4 DEF Fields, Untouched
    <3>2. page'.new = [page.new EXCEPT ![for.id] = [page.new[for.id] EXCEPT !.brand = ""]]
      BY <1>2, <2>1, <2>4 DEF Fields
    <3> QED BY <3>1, <3>2 DEF Untouched
  <2> QED BY <1>3, <2>2, <2>3, <2>4
<1>5. /\ page'.overlay = FALSE /\ page'.popup = h.popup /\ page'.button = TRUE /\ page'.cell = h.cell
      /\ page'.window = page.window /\ page'.narrow = page.narrow /\ page'.been = page.been /\ page'.data = page.data
      /\ page'.saving = page.saving /\ page'.hung = page.hung
  BY <1>1, <1>2, <1>4 DEF Fields, Untouched
<1>6. Sequence(page'.popup.rows) /\ \A i \in DOMAIN page'.popup.rows : page'.popup.rows[i] = BlankRow
  BY <1>1, <1>2, <1>5, BlankedIsSeq DEF ListsInv
<1>7. Sequence(page'.new) /\ \A k \in DOMAIN page'.new : NewRecord(page'.new[k])
  <2> DEFINE m == [page.new[for.id] EXCEPT !.brand = ""]
  <2>1. for.id \in DOMAIN page.new => NewRecord(m)
    BY <1>1 DEF ListsInv, NewRecord
  <2> HIDE DEF m
  <2>2. LET t == [page.new EXCEPT ![for.id] = m]
        IN  Sequence(t) /\ \A k \in DOMAIN page.new : NewRecord(t[k])
    BY <1>1, <2>1, NewKept DEF ListsInv
  <2>3. page'.new = page.new \/ page'.new = [page.new EXCEPT ![for.id] = m]
    BY <1>4 DEF m
  <2> QED BY <1>1, <2>2, <2>3 DEF ListsInv
<1>8. CellInv(page') /\ SavingSame(page, page') /\ ListsInv(page')
  BY <1>1, <1>2, <1>5, <1>6, <1>7, ClosedCell DEF Closed, NoCell, SavingSame, ListsInv
<1>9. PageInvOf(page', posts, stored)
  BY <1>1, <1>2, <1>4, <1>5, <1>6, <1>8, PopupCloses DEF PageInv
<1> QED BY <1>3, <1>9 DEF PageInv

LEMMA ClearMonthsIs ==
  ASSUME NEW d, DOMAIN d = {"val", "active", "multi", "planned", "map", "total"},
         DOMAIN d.val = ProjectRows, \A r \in ProjectRows : DOMAIN d.val[r] = Columns, NEW p, NEW planned
  PROVE  LET e == ClearMonths(d, p, planned)
         IN  /\ DOMAIN e = DOMAIN d /\ DOMAIN e.val = ProjectRows /\ \A r \in ProjectRows : DOMAIN e.val[r] = Columns
BY DEF ClearMonths

LEMMA SaveAndCloseKeeps == ASSUME PageInv, SaveAndClose PROVE PageInv'
<1> DEFINE rows == Owned(page.popup.rows)
           for == page.popup.for
           h == Hidden(page)
<1>1. Fields(page) /\ CellInv(page) /\ page.popup.open /\ ~page.hung /\ ListsInv(page)
  BY DEF PageInv, PageInvOf, SavedInv, PopupInv, SaveAndClose, InPopup
<1>2. Sequence(rows)
  BY RowsAreSeq, RowsEdited
<1>3. /\ Fields(h) /\ Untouched(page, h, {"popup", "cell", "overlay", "button"}) /\ h.overlay = FALSE /\ h.button = TRUE
      /\ h.cell = IF page.cell.on = "popup" THEN page.cell ELSE NoCell
      /\ h.popup.open = FALSE /\ h.popup.rows = [i \in DOMAIN page.popup.rows |-> BlankRow]
  BY <1>1, HiddenIs
<1>4. \/ Shows(WithRows(rows))
      \/ Shows([h EXCEPT !.new[for.id].multi = TRUE, !.new[for.id].rows = rows])
      \/ /\ Sends(Post("brands", page.guard))
         /\ Becomes([h EXCEPT !.data = ClearMonths(@, for.id, PlannedTotal(rows)), !.overlay = page.guard,
                              !.been.cleared = TRUE, !.been.loose = @ \/ ~page.guard])
  BY DEF SaveAndClose
<1> HIDE DEF rows, h
<1>5. CASE Shows(WithRows(rows))
  <2>1. page' = [page EXCEPT !.popup.rows = rows] /\ posts' = posts /\ stored' = stored
    BY <1>5 DEF Shows, Becomes, WithRows
  <2>2. /\ Fields(page') /\ Untouched(page, page', {"popup"}) /\ page'.popup.rows = rows
        /\ page'.popup.open = page.popup.open
    BY <1>1, <2>1 DEF Fields, Untouched
  <2>3. page'.been = page.been /\ page'.hung = page.hung /\ page'.cell = page.cell /\ page'.saving = page.saving
    BY <1>1, <2>2 DEF Fields, Untouched
  <2>4. CellInv(page') /\ HungInv(page')
    BY <1>1, <2>3 DEF CellInv, HungInv
  <2>5. Untouched(page, page', {"popup", "cell", "edits", "hung", "been"}) /\ Untouched(page.been, page'.been, {"typed"})
    BY <2>2, <2>3 DEF Untouched
  <2>6. PageInvOf(page', posts, stored)
    BY <1>1, <1>2, <2>2, <2>4, <2>5, PopupEdited DEF PageInv
  <2> QED BY <2>1, <2>6 DEF PageInv
<1>6. CASE Shows([h EXCEPT !.new[for.id].multi = TRUE, !.new[for.id].rows = rows])
  <2> DEFINE m == [page.new[for.id] EXCEPT !.multi = TRUE, !.rows = rows]
  <2>1. page' = [h EXCEPT !.new[for.id].multi = TRUE, !.new[for.id].rows = rows] /\ posts' = posts /\ stored' = stored
    BY <1>6 DEF Shows, Becomes
  <2>2. Fields(page') /\ Untouched(h, page', {"new"})
    BY <1>3, <2>1 DEF Fields, Untouched
  <2>3. page'.new = [page.new EXCEPT ![for.id] = m]
    <3>1. page'.new = [h.new EXCEPT ![for.id].multi = TRUE, ![for.id].rows = rows]
      BY <1>3, <2>1 DEF Fields
    <3>2. h.new = page.new
      BY <1>1, <1>3 DEF Fields, Untouched
    <3> DEFINE w == page.new
               x == for.id
    <3> HIDE DEF w, x
    <3>3. [w EXCEPT ![x].multi = TRUE, ![x].rows = rows] = [w EXCEPT ![x] = [w[x] EXCEPT !.multi = TRUE, !.rows = rows]]
      OBVIOUS
    <3> QED BY <3>1, <3>2, <3>3 DEF w, x
  <2>4. for.id \in DOMAIN page.new => NewRecord(m)
    BY <1>1, <1>2 DEF ListsInv, NewRecord
  <2> HIDE DEF m
  <2>5. Sequence(page'.new) /\ \A k \in DOMAIN page'.new : NewRecord(page'.new[k])
    BY <1>1, <2>3, <2>4, NewKept DEF ListsInv
  <2>6. /\ page'.overlay = FALSE /\ page'.popup = h.popup /\ page'.button = TRUE /\ page'.cell = h.cell
        /\ page'.window = page.window /\ page'.narrow = page.narrow /\ page'.been = page.been /\ page'.data = page.data
        /\ page'.saving = page.saving /\ page'.hung = page.hung
    BY <1>1, <1>3, <2>2 DEF Fields, Untouched
  <2>7. Sequence(page'.popup.rows) /\ \A i \in DOMAIN page'.popup.rows : page'.popup.rows[i] = BlankRow
    BY <1>1, <1>3, <2>6, BlankedIsSeq DEF ListsInv
  <2>8. CellInv(page') /\ SavingSame(page, page') /\ ListsInv(page')
    BY <1>1, <1>3, <2>5, <2>6, <2>7, ClosedCell DEF Closed, NoCell, SavingSame, ListsInv
  <2>9. PageInvOf(page', posts, stored)
    BY <1>1, <1>3, <2>2, <2>6, <2>7, <2>8, PopupCloses DEF PageInv
  <2> QED BY <2>1, <2>9 DEF PageInv
<1>7. CASE /\ Sends(Post("brands", page.guard))
           /\ Becomes([h EXCEPT !.data = ClearMonths(@, for.id, PlannedTotal(rows)), !.overlay = page.guard,
                                !.been.cleared = TRUE, !.been.loose = @ \/ ~page.guard])
  <2> DEFINE post == Post("brands", page.guard)
             e == ClearMonths(page.data, for.id, PlannedTotal(rows))
  <2>1. PostsInv(posts) /\ OverlayInv(page, posts) /\ SavedInv(page, posts, stored) /\ ButtonInv(page, posts)
    BY DEF PageInv, PageInvOf
  <2>2. h.data = page.data /\ h.been = page.been
    BY <1>1, <1>3 DEF Fields, Untouched
  <2>3. DOMAIN e = DOMAIN page.data /\ DOMAIN e.val = ProjectRows /\ \A r \in ProjectRows : DOMAIN e.val[r] = Columns
    <3> DEFINE d == page.data
    <3>1. /\ DOMAIN d = {"val", "active", "multi", "planned", "map", "total"}
          /\ DOMAIN d.val = ProjectRows /\ \A r \in ProjectRows : DOMAIN d.val[r] = Columns
      BY <1>1, <2>1 DEF Fields, SavedInv, RowsInv
    <3> HIDE DEF d, for
    <3>2. LET c == ClearMonths(d, for.id, PlannedTotal(rows))
          IN  DOMAIN c = DOMAIN d /\ DOMAIN c.val = ProjectRows /\ \A r \in ProjectRows : DOMAIN c.val[r] = Columns
      BY <3>1, ClearMonthsIs
    <3> QED BY <3>2 DEF d, for
  <2>4. page' = [h EXCEPT !.data = e, !.overlay = page.guard, !.been.cleared = TRUE, !.been.loose = @ \/ ~page.guard]
        /\ posts' = Append(posts, post) /\ stored' = stored
    BY <1>7, <2>2 DEF Sends, Becomes
  <2>5. post.kind = "brands" /\ post.modal = page.guard
    BY DEF Post
  <2> HIDE DEF e, post
  <2>6. /\ Fields(page') /\ Untouched(h, page', {"data", "overlay", "been"}) /\ page'.data = e /\ page'.overlay = page.guard
        /\ Untouched(page.been, page'.been, {"cleared", "loose"}) /\ page'.been.cleared = TRUE
        /\ (page'.been.loose <=> page.been.loose \/ ~page.guard)
    BY <1>1, <1>3, <2>2, <2>3, <2>4 DEF Fields, Untouched
  <2>7. /\ page'.popup = h.popup /\ page'.button = TRUE /\ page'.cell = h.cell /\ page'.new = page.new
        /\ page'.window = page.window /\ page'.narrow = page.narrow /\ page'.saving = page.saving /\ page'.hung = page.hung
    BY <1>1, <1>3, <2>6 DEF Fields, Untouched
  <2>8. page'.been.squeezed = page.been.squeezed /\ page'.been.poFailed = page.been.poFailed
    BY <1>1, <2>6 DEF Fields, Untouched
  <2>9. OverlayInv(page', posts')
    <3>1. CASE ~page.guard
      BY <2>6, <3>1 DEF OverlayInv, Passed
    <3>2. CASE page.guard
      <4>1. \/ Passed(page')
            \/ /\ page'.overlay /\ ~Modal(posts) /\ ~page'.window /\ ~page'.narrow /\ ~page'.popup.open /\ ~page'.been.poFailed
               /\ \A j \in DOMAIN posts : posts[j].kind \in Big => posts[j].modal
        BY <1>1, <1>3, <2>1, <2>6, <2>7, <2>8, <3>2 DEF OverlayInv, OverlaySound, Passed
      <4>2. post.modal
        BY <2>5, <3>2
      <4> QED BY <2>1, <2>4, <4>1, <4>2, SentUnderOverlay
    <3> QED BY <3>1, <3>2
  <2>10. CellInv(page')
    BY <1>1, <1>3, <2>7, ClosedCell DEF Closed, NoCell
  <2>11. RowsInv(page', stored)
    BY <2>1, <2>3, <2>6 DEF SavedInv, RowsInv
  <2>12. SavedInv(page', posts', stored')
    BY <2>1, <2>4, <2>5, <2>6, <2>7, <2>10, <2>11, SentOther, ZenonT(40)
  <2>13. ButtonInv(page', posts')
    BY <2>1, <2>4, <2>7, SentButton
  <2>14. PopupInv(page')
    <3>1. Sequence(page'.popup.rows) /\ \A i \in DOMAIN page'.popup.rows : page'.popup.rows[i] = BlankRow
      BY <1>1, <1>3, <2>7, BlankedIsSeq DEF ListsInv
    <3> QED BY <1>1, <2>7, <3>1 DEF PopupInv, ListsInv, HungInv, BlankInv
  <2>15. PostsInv(posts')
    BY <2>1, <2>4, <2>5, SentIs
  <2> QED BY <2>6, <2>9, <2>12, <2>13, <2>14, <2>15 DEF PageInv, PageInvOf
<1> QED BY <1>4, <1>5, <1>6, <1>7

-----------------------------------------------------------------------------
(* new projects *)

LEMMA NewChanged ==
  ASSUME NEW p, NEW n, NEW ps, NEW s, PageInvOf(p, ps, s), Fields(n), CellInv(n),
         Untouched(p, n, {"data", "query", "cell", "toSingle", "button", "new"}),
         n.data.val = p.data.val, Sequence(n.new), \A k \in DOMAIN n.new : NewRecord(n.new[k]), ButtonInv(n, ps)
  PROVE  PageInvOf(n, ps, s)
<1>1. Fields(p)
  BY DEF PageInvOf
<1>2. /\ n.overlay = p.overlay /\ n.window = p.window /\ n.narrow = p.narrow /\ n.popup = p.popup
      /\ n.saving = p.saving /\ n.hung = p.hung /\ n.been = p.been
  BY <1>1 DEF Fields, Untouched
<1>3. OverlaySame(p, n) /\ SavingSame(p, n)
  BY <1>2 DEF OverlaySame, SavingSame
<1>4. OverlayInv(n, ps) /\ SavedInv(n, ps, s)
  BY <1>3, OverlayKept, SavedKept DEF PageInvOf
<1>5. PopupInv(n)
  BY <1>2 DEF PageInvOf, PopupInv, ListsInv, HungInv, BlankInv
<1> QED BY <1>4, <1>5 DEF PageInvOf

LEMMA CreateProjectKeeps == ASSUME PageInv, CreateProject PROVE PageInv'
<1> DEFINE new == Append(page.new, NewProject)
           d == Refresh(page.data, NoQuery, page.radio)
<1>1. Fields(page) /\ CellInv(page) /\ ListsInv(page) /\ ButtonInv(page, posts)
  BY DEF PageInv, PageInvOf, SavedInv, PopupInv
<1>2. page' = [page EXCEPT !.new = new, !.query = NoQuery, !.data = d] /\ posts' = posts /\ stored' = stored
  BY <1>1 DEF CreateProject, Shows, Becomes, Fields
<1>3. DOMAIN d = DOMAIN page.data /\ d.val = page.data.val
  BY <1>1, RefreshIs DEF Fields
<1>4. /\ Sequence(new) /\ Len(page.new) \in Nat /\ DOMAIN page.new = 1..Len(page.new)
      /\ DOMAIN new = 1..(Len(page.new) + 1)
      /\ new[Len(page.new) + 1] = NewProject /\ \A k \in 1..Len(page.new) : new[k] = page.new[k]
  BY <1>1, AppendIs, SeqFacts DEF ListsInv
<1> HIDE DEF new, d
<1>5. /\ Fields(page') /\ Untouched(page, page', {"new", "query", "data"}) /\ page'.new = new
      /\ page'.data.val = page.data.val
  BY <1>1, <1>2, <1>3 DEF Fields, Untouched
<1>6. page'.cell = page.cell /\ page'.saving = page.saving /\ page'.button = page.button
  BY <1>1, <1>5 DEF Fields, Untouched
<1>7. NewRecord(NewProject)
  BY BlankIsSeq DEF NewRecord, NewProject
<1>8. \A k \in DOMAIN new : NewRecord(new[k])
  BY <1>1, <1>4, <1>7 DEF ListsInv
<1>9. ButtonInv(page', posts)
  BY <1>1, <1>4, <1>5, <1>6 DEF ButtonInv
<1>10. CellInv(page') /\ Untouched(page, page', {"data", "query", "cell", "toSingle", "button", "new"})
  BY <1>1, <1>5, <1>6 DEF CellInv, Untouched
<1>11. PageInvOf(page', posts, stored)
  BY <1>4, <1>5, <1>8, <1>9, <1>10, NewChanged DEF PageInv
<1> QED BY <1>2, <1>11 DEF PageInv

\* A field of a new project is set; the grid is drawn anew.
LEMMA SetNew ==
  ASSUME PageInv, NEW k \in DOMAIN page.new, NEW m, NewRecord(m)
  PROVE  PageInvOf([Redraw(page) EXCEPT !.new[k] = m], posts, stored)
<1> DEFINE r == Redraw(page)
           n == [r EXCEPT !.new[k] = m]
<1>1. Fields(page) /\ CellInv(page) /\ ListsInv(page)
  BY DEF PageInv, PageInvOf, SavedInv, PopupInv
<1>2. /\ Fields(r) /\ Untouched(page, r, {"cell", "button"}) /\ r.button = TRUE /\ Closed(r.cell)
  BY <1>1, RedrawIs, ClosedCell DEF Fields, Untouched
<1>3. r.new = page.new
  BY <1>1, <1>2 DEF Fields, Untouched
<1> HIDE DEF r
<1>4. Fields(n) /\ Untouched(r, n, {"new"}) /\ n.new = [page.new EXCEPT ![k] = m]
  BY <1>2, <1>3 DEF Fields, Untouched
<1> HIDE DEF n
<1>5. n.cell = r.cell /\ n.button = TRUE /\ n.data = page.data
  BY <1>1, <1>2, <1>4 DEF Fields, Untouched
<1>6. Untouched(page, n, {"data", "query", "cell", "toSingle", "button", "new"})
  BY <1>1, <1>2, <1>4 DEF Untouched, Fields
<1>7. Sequence(n.new) /\ \A j \in DOMAIN n.new : NewRecord(n.new[j])
  BY <1>1, <1>4, NewKept DEF ListsInv
<1>8. CellInv(n) /\ ButtonInv(n, posts)
  BY <1>1, <1>2, <1>5, ClosedCell DEF ButtonInv
<1>9. PageInvOf(n, posts, stored)
  BY <1>4, <1>5, <1>6, <1>7, <1>8, NewChanged DEF PageInv
<1> QED BY <1>9 DEF n, r

LEMMA SetNewBrand ==
  ASSUME Fields(page), NEW k \in DOMAIN page.new, NEW b
  PROVE  [Redraw(page) EXCEPT !.new[k].brand = b] = [Redraw(page) EXCEPT !.new[k] = [page.new[k] EXCEPT !.brand = b]]
<1> DEFINE r == Redraw(page)
<1>1. r.new = page.new
  BY DEF Redraw, Fields
<1> HIDE DEF r
<1>2. [r EXCEPT !.new[k].brand = b] = [r EXCEPT !.new[k] = [page.new[k] EXCEPT !.brand = b]]
  BY <1>1
<1> QED BY <1>2 DEF r

LEMMA NewPopupKeeps ==
  ASSUME PageInv, ~page.hung, NEW k \in DOMAIN page.new
  PROVE  PageInvOf(NewPopup(k), posts, stored)
<1> DEFINE n == page.new[k]
           m == [n EXCEPT !.brand = Smart]
           q == [Redraw(page) EXCEPT !.new[k] = m]
           rows == IF n.multi THEN n.rows ELSE [page.popup.rows EXCEPT ![1] = First(@)]
           o == PopupFor(q, [on |-> "new", id |-> k], rows)
<1>1. Fields(page) /\ CellInv(page) /\ ListsInv(page)
  BY DEF PageInv, PageInvOf, SavedInv, PopupInv
<1>2. NewPopup(k) = o
  BY <1>1, SetNewBrand DEF NewPopup
<1>3. NewRecord(n) /\ NewRecord(m)
  BY <1>1 DEF ListsInv, NewRecord
<1>4. Sequence(rows)
  <2>1. Sequence(n.rows) /\ Sequence([page.popup.rows EXCEPT ![1] = First(@)])
    BY <1>3, RowsAreSeq, RowsEdited DEF NewRecord
  <2> QED BY <2>1
<1> HIDE DEF m, rows
<1>5. PageInvOf(q, posts, stored)
  BY <1>3, SetNew
<1>6. /\ Fields(q) /\ q.overlay = page.overlay /\ q.hung = page.hung /\ (q.cell.on = "popup" => Closed(q.cell))
      /\ CellInv(q) /\ ListsInv(q)
  <2>1. Fields(q) /\ CellInv(q) /\ ListsInv(q)
    BY <1>5 DEF PageInvOf, SavedInv, PopupInv
  <2> QED BY <1>1, <2>1 DEF Redraw, Fields, Closed
<1> HIDE DEF q
<1>7. /\ Fields(o) /\ Untouched(q, o, {"popup", "cell", "overlay", "been"}) /\ o.overlay = TRUE
      /\ o.popup.open = TRUE /\ o.popup.rows = rows
      /\ o.cell = IF q.cell.on = "popup" THEN q.cell ELSE NoCell
      /\ (o.been.loose <=> q.been.loose \/ q.overlay) /\ Untouched(q.been, o.been, {"loose"})
  BY <1>6, PopupForIs
<1> HIDE DEF o
<1>8. /\ o.window = q.window /\ o.narrow = q.narrow /\ o.hung = q.hung /\ o.saving = q.saving
      /\ o.data = q.data /\ o.button = q.button /\ o.new = q.new
  BY <1>6, <1>7 DEF Fields, Untouched
<1>9. /\ o.been.poFailed = q.been.poFailed /\ o.been.squeezed = q.been.squeezed
      /\ o.been.failed = q.been.failed /\ o.been.cleared = q.been.cleared
  BY <1>6, <1>7 DEF Fields, Untouched
<1>10. CellInv(o) /\ ListsInv(o) /\ SavingSame(q, o)
  BY <1>4, <1>6, <1>7, <1>8, <1>9, ClosedCell DEF ListsInv, SavingSame
<1>11. PageInvOf(o, posts, stored)
  BY <1>5, <1>6, <1>7, <1>8, <1>9, <1>10, PopupOpens
<1> QED BY <1>2, <1>11

LEMMA EditNewKeeps == ASSUME PageInv, EditNew PROVE PageInv'
<1>1. Fields(page) /\ ListsInv(page) /\ ~page.hung
  BY DEF PageInv, PageInvOf, PopupInv, EditNew, Clickable
<1>2. PICK k \in DOMAIN page.new :
        LET n == page.new[k]
            Set(m) == Shows([Redraw(page) EXCEPT !.new[k] = m])
        IN  \/ \E named \in BOOLEAN : Set([n EXCEPT !.named = named])
            \/ \E po \in {0, 1} : Set([n EXCEPT !.po = po])
            \/ \E b \in Brands \cup {Smart} : Set([n EXCEPT !.brand = b])
            \/ Rejected
            \/ IF n.named THEN Shows(NewPopup(k)) ELSE Set([n EXCEPT !.brand = ""])
  BY DEF EditNew
<1> DEFINE n == page.new[k]
<1>3. NewRecord(n)
  BY <1>1 DEF ListsInv
<1>4. ASSUME NEW m, NewRecord(m), Shows([Redraw(page) EXCEPT !.new[k] = m]) PROVE PageInv'
  BY <1>4, SetNew DEF Shows, Becomes, PageInv
<1>5. CASE \E named \in BOOLEAN : Shows([Redraw(page) EXCEPT !.new[k] = [n EXCEPT !.named = named]])
  <2>1. \A named : NewRecord([n EXCEPT !.named = named])
    BY <1>3 DEF NewRecord
  <2> QED BY <1>4, <1>5, <2>1
<1>6. CASE \E po \in {0, 1} : Shows([Redraw(page) EXCEPT !.new[k] = [n EXCEPT !.po = po]])
  <2>1. \A po : NewRecord([n EXCEPT !.po = po])
    BY <1>3 DEF NewRecord
  <2> QED BY <1>4, <1>6, <2>1
<1>7. \A b : NewRecord([n EXCEPT !.brand = b])
  BY <1>3 DEF NewRecord
<1>8. CASE \E b \in Brands \cup {Smart} : Shows([Redraw(page) EXCEPT !.new[k] = [n EXCEPT !.brand = b]])
  BY <1>4, <1>7, <1>8
<1>9. CASE Rejected
  BY <1>9, RejectedKeeps
<1>10. CASE Shows(NewPopup(k))
  BY <1>1, <1>10, NewPopupKeeps DEF Shows, Becomes, PageInv
<1>11. CASE Shows([Redraw(page) EXCEPT !.new[k] = [n EXCEPT !.brand = ""]])
  BY <1>4, <1>7, <1>11
<1> QED BY <1>2, <1>5, <1>6, <1>8, <1>9, <1>10, <1>11

LEMMA ClickNewBrandKeeps == ASSUME PageInv, ClickNewBrand PROVE PageInv'
<1>1. Fields(page) /\ CellInv(page) /\ ListsInv(page) /\ ~page.hung
  BY DEF PageInv, PageInvOf, SavedInv, PopupInv, ClickNewBrand, Clickable
<1>2. PICK k \in DOMAIN page.new :
        LET n == page.new[k]
        IN  /\ n.brand = Smart
            /\ \/ Shows(IF n.named THEN NewPopup(k) ELSE [Redraw(page) EXCEPT !.new[k].brand = ""])
               \/ Shows([page EXCEPT !.new[k].multi = FALSE, !.toSingle = TRUE])
  BY DEF ClickNewBrand
<1> DEFINE n == page.new[k]
<1>3. NewRecord(n)
  BY <1>1 DEF ListsInv
<1>4. CASE Shows(NewPopup(k))
  BY <1>1, <1>4, NewPopupKeeps DEF Shows, Becomes, PageInv
<1>5. CASE Shows([Redraw(page) EXCEPT !.new[k].brand = ""])
  <2>1. NewRecord([n EXCEPT !.brand = ""])
    BY <1>3 DEF NewRecord
  <2>2. PageInvOf([Redraw(page) EXCEPT !.new[k] = [n EXCEPT !.brand = ""]], posts, stored)
    BY <2>1, SetNew
  <2>3. [Redraw(page) EXCEPT !.new[k].brand = ""] = [Redraw(page) EXCEPT !.new[k] = [n EXCEPT !.brand = ""]]
    BY <1>1, SetNewBrand
  <2> QED BY <1>5, <2>2, <2>3 DEF Shows, Becomes, PageInv
<1>6. CASE Shows([page EXCEPT !.new[k].multi = FALSE, !.toSingle = TRUE])
  <2> DEFINE m == [n EXCEPT !.multi = FALSE]
  <2>1. page' = [page EXCEPT !.new[k].multi = FALSE, !.toSingle = TRUE] /\ posts' = posts /\ stored' = stored
    BY <1>6 DEF Shows, Becomes
  <2>2. Fields(page') /\ Untouched(page, page', {"new", "toSingle"}) /\ page'.new = [page.new EXCEPT ![k] = m]
    BY <1>1, <2>1 DEF Fields, Untouched
  <2>3. /\ page'.cell = page.cell /\ page'.saving = page.saving /\ page'.data = page.data
    BY <1>1, <2>2 DEF Fields, Untouched
  <2>4. NewRecord(m) /\ Unbranded(m)
    BY <1>2, <1>3 DEF NewRecord, Unbranded
  <2> HIDE DEF m
  <2>5. Sequence(page'.new) /\ \A j \in DOMAIN page'.new : NewRecord(page'.new[j])
    BY <1>1, <2>2, <2>4, NewKept DEF ListsInv
  <2>6. ButtonInv(page', posts)
    BY <2>2, <2>4 DEF ButtonInv
  <2>7. CellInv(page') /\ Untouched(page, page', {"data", "query", "cell", "toSingle", "button", "new"})
    BY <1>1, <2>2, <2>3 DEF CellInv, Untouched
  <2>8. PageInvOf(page', posts, stored)
    BY <2>2, <2>3, <2>5, <2>6, <2>7, NewChanged DEF PageInv
  <2> QED BY <2>1, <2>8 DEF PageInv
<1> QED BY <1>2, <1>4, <1>5, <1>6

\* A post that changes projects, and the overlay with it, from a page without one.
LEMMA BigPost ==
  ASSUME PageInv, ~page.overlay, NEW post, post.kind \in Big, post.modal, NEW n, Fields(n),
         Untouched(page, n, {"overlay", "button"}), n.overlay = TRUE, n.button = page.button \/ post.kind = "store"
  PROVE  PageInvOf(n, Append(posts, post), stored)
<1>1. /\ Fields(page) /\ PostsInv(posts) /\ OverlayInv(page, posts) /\ SavedInv(page, posts, stored)
      /\ ButtonInv(page, posts) /\ PopupInv(page) /\ CellInv(page)
  BY DEF PageInv, PageInvOf, SavedInv
<1>2. /\ n.window = page.window /\ n.narrow = page.narrow /\ n.popup = page.popup /\ n.been = page.been
      /\ n.saving = page.saving /\ n.hung = page.hung /\ n.new = page.new /\ n.data = page.data /\ n.cell = page.cell
  BY <1>1 DEF Fields, Untouched
<1>3. post.kind # "save"
  BY DEF Big
<1>4. OverlayInv(n, Append(posts, post))
  <2>1. Passed(n) \/ (n.overlay /\ ~Modal(posts) /\ ~n.window /\ ~n.narrow /\ ~n.popup.open /\ ~n.been.poFailed
                      /\ \A j \in DOMAIN posts : posts[j].kind \in Big => posts[j].modal)
    BY <1>1, <1>2 DEF OverlayInv, OverlaySound, Passed
  <2> QED BY <1>1, <2>1, SentUnderOverlay
<1>5. SavedInv(n, Append(posts, post), stored)
  <2>1. SavingSame(page, n) /\ CellInv(n) /\ RowsInv(n, stored)
    BY <1>1, <1>2 DEF SavingSame, CellInv, SavedInv, RowsInv
  <2> QED BY <1>1, <1>2, <1>3, <2>1, SentOther
<1>6. ButtonInv(n, Append(posts, post)) /\ PostsInv(Append(posts, post))
  BY <1>1, <1>2, <1>3, SentButton, SentIs
<1>7. PopupInv(n)
  BY <1>1, <1>2, PopupKept DEF PopupSame
<1> QED BY <1>4, <1>5, <1>6, <1>7 DEF PageInvOf

LEMMA SubmitProjectsKeeps == ASSUME PageInv, SubmitProjects PROVE PageInv'
<1> DEFINE wrong(k) == LET n == page.new[k] IN
                        \/ ~n.named \/ n.brand = ""
                        \/ \E j \in (k + 1)..Len(page.new) : SamePO(n, page.new[j])
           bad == {k \in DOMAIN page.new : wrong(k) \/ Unbranded(page.new[k])}
<1>1. Fields(page) /\ ~page.overlay /\ ListsInv(page) /\ CellInv(page)
  BY DEF PageInv, PageInvOf, SavedInv, PopupInv, SubmitProjects, Clickable
<1>2. \/ Shows([page EXCEPT !.rejected = FALSE])
      \/ Sends(Post("store", TRUE)) /\ Becomes([page EXCEPT !.button = FALSE, !.overlay = TRUE])
      \/ bad # {} /\ Shows([page EXCEPT !.button = ~Unbranded(page.new[Max(bad)])])
  BY DEF SubmitProjects
<1>3. bad \in SUBSET DOMAIN page.new
  OBVIOUS
<1> HIDE DEF bad
<1>4. CASE Shows([page EXCEPT !.rejected = FALSE])
  <2>1. page' = [page EXCEPT !.rejected = FALSE] /\ posts' = posts /\ stored' = stored
    BY <1>4 DEF Shows, Becomes
  <2>2. Fields(page') /\ Untouched(page, page', {"rejected"})
    BY <1>1, <2>1 DEF Fields, Untouched
  <2>3. page'.data = page.data /\ page'.been = page.been /\ page'.button = page.button /\ page'.cell = page.cell
        /\ page'.saving = page.saving
    BY <1>1, <2>2 DEF Fields, Untouched
  <2>4. CellInv(page')
    BY <1>1, <2>3 DEF CellInv
  <2>5. PageInvOf(page', posts, stored)
    BY <2>2, <2>3, <2>4, QuietFields DEF PageInv, Untouched
  <2> QED BY <2>1, <2>5 DEF PageInv
<1>5. CASE Sends(Post("store", TRUE)) /\ Becomes([page EXCEPT !.button = FALSE, !.overlay = TRUE])
  <2> DEFINE post == Post("store", TRUE)
  <2>1. page' = [page EXCEPT !.button = FALSE, !.overlay = TRUE] /\ posts' = Append(posts, post) /\ stored' = stored
    BY <1>5 DEF Sends, Becomes
  <2>2. post.kind = "store" /\ post.modal /\ post.kind \in Big
    BY DEF Post, Big
  <2> HIDE DEF post
  <2>3. Fields(page') /\ Untouched(page, page', {"overlay", "button"}) /\ page'.overlay = TRUE
    BY <1>1, <2>1 DEF Fields, Untouched
  <2>4. PageInvOf(page', Append(posts, post), stored)
    BY <1>1, <2>2, <2>3, BigPost
  <2> QED BY <2>1, <2>4 DEF PageInv
<1>6. CASE bad # {} /\ Shows([page EXCEPT !.button = ~Unbranded(page.new[Max(bad)])])
  <2> DEFINE k == Max(bad)
  <2>1. k \in DOMAIN page.new
    <3>1. Len(page.new) \in Nat /\ DOMAIN page.new = 1..Len(page.new)
      BY <1>1, SeqFacts DEF ListsInv
    <3>2. bad \in SUBSET (1..Len(page.new))
      BY <1>3, <3>1
    <3> QED BY <1>3, <1>6, <3>1, <3>2, HasMax
  <2> HIDE DEF k
  <2>2. page' = [page EXCEPT !.button = ~Unbranded(page.new[k])] /\ posts' = posts /\ stored' = stored
    BY <1>6 DEF Shows, Becomes, k
  <2>3. Fields(page') /\ Untouched(page, page', {"button"}) /\ (page'.button <=> ~Unbranded(page.new[k]))
    BY <1>1, <2>2 DEF Fields, Untouched
  <2>4. page'.new = page.new /\ page'.cell = page.cell /\ page'.saving = page.saving /\ page'.data = page.data
    BY <1>1, <2>3 DEF Fields, Untouched
  <2>5. ButtonInv(page', posts)
    BY <2>1, <2>3, <2>4 DEF ButtonInv
  <2>6. CellInv(page') /\ Untouched(page, page', {"data", "query", "cell", "toSingle", "button", "new"})
    BY <1>1, <2>3, <2>4 DEF CellInv, Untouched
  <2>7. PageInvOf(page', posts, stored)
    BY <1>1, <2>3, <2>4, <2>5, <2>6, NewChanged DEF PageInv, ListsInv
  <2> QED BY <2>2, <2>7 DEF PageInv
<1> QED BY <1>2, <1>4, <1>5, <1>6

-----------------------------------------------------------------------------
(* the rest of the page *)

LEMMA PostProjectKeeps == ASSUME PageInv, PostProject PROVE PageInv'
<1>1. PICK kind \in {"initiate", "disable"} :
        Sends(Post(kind, TRUE)) /\ Becomes([page EXCEPT !.overlay = TRUE])
  BY DEF PostProject
<1> DEFINE post == Post(kind, TRUE)
<1>2. page' = [page EXCEPT !.overlay = TRUE] /\ posts' = Append(posts, post) /\ stored' = stored
  BY <1>1 DEF Sends, Becomes
<1>3. post.modal /\ post.kind \in Big
  BY DEF Post, Big
<1>4. Fields(page) /\ ~page.overlay
  BY DEF PageInv, PageInvOf, PostProject, Clickable
<1> HIDE DEF post
<1>5. Fields(page') /\ Untouched(page, page', {"overlay", "button"}) /\ page'.overlay = TRUE /\ page'.button = page.button
  BY <1>2, <1>4 DEF Fields, Untouched
<1>6. PageInvOf(page', Append(posts, post), stored)
  BY <1>3, <1>4, <1>5, BigPost
<1> QED BY <1>2, <1>6 DEF PageInv

\* Windows come and go under the overlay; nothing else is changed.
LEMMA WindowChanged ==
  ASSUME PageInv, NEW n, Fields(n), Untouched(page, n, {"overlay", "window", "narrow", "been"}),
         Untouched(page.been, n.been, {"squeezed"}), OverlayInv(n, posts)
  PROVE  PageInvOf(n, posts, stored)
<1>1. Fields(page) /\ CellInv(page)
  BY DEF PageInv, PageInvOf, SavedInv
<1>2. /\ n.popup = page.popup /\ n.saving = page.saving /\ n.hung = page.hung /\ n.new = page.new /\ n.data = page.data
      /\ n.cell = page.cell /\ n.button = page.button
  BY <1>1 DEF Fields, Untouched
<1>3. n.been.failed = page.been.failed /\ n.been.cleared = page.been.cleared /\ n.been.typed = page.been.typed
  BY <1>1 DEF Fields, Untouched
<1>4. SavingSame(page, n) /\ PopupSame(page, n) /\ CellInv(n)
  BY <1>1, <1>2, <1>3 DEF SavingSame, PopupSame, CellInv
<1> QED BY <1>2, <1>4, SavedKept, PopupKept, ButtonKept DEF PageInv, PageInvOf

LEMMA WindowsKeep == ASSUME PageInv, OpenWindow \/ CloseWindow \/ Narrow \/ Widen PROVE PageInv'
<1>1. Fields(page) /\ OverlayInv(page, posts)
  BY DEF PageInv, PageInvOf
<1>2. CASE OpenWindow
  <2>1. ~page.overlay /\ page' = [page EXCEPT !.overlay = TRUE, !.window = TRUE] /\ posts' = posts /\ stored' = stored
    BY <1>2 DEF OpenWindow, Clickable, Shows, Becomes
  <2>2. /\ Fields(page') /\ Untouched(page, page', {"overlay", "window", "narrow", "been"})
        /\ page'.overlay = TRUE /\ page'.window = TRUE /\ page'.narrow = page.narrow /\ page'.popup = page.popup
        /\ page'.been = page.been
    BY <1>1, <2>1 DEF Fields, Untouched
  <2>3. OverlayInv(page', posts)
    BY <1>1, <2>1, <2>2 DEF OverlayInv, OverlaySound, Passed
  <2>4. PageInvOf(page', posts, stored)
    BY <2>2, <2>3, WindowChanged DEF Untouched
  <2> QED BY <2>1, <2>4 DEF PageInv
<1>3. CASE CloseWindow
  <2>1. page.window /\ page' = [page EXCEPT !.overlay = FALSE, !.window = FALSE] /\ posts' = posts /\ stored' = stored
    BY <1>3 DEF CloseWindow, Shows, Becomes
  <2>2. /\ Fields(page') /\ Untouched(page, page', {"overlay", "window", "narrow", "been"})
        /\ page'.overlay = FALSE /\ page'.window = FALSE /\ page'.narrow = page.narrow /\ page'.popup = page.popup
        /\ page'.been = page.been
    BY <1>1, <2>1 DEF Fields, Untouched
  <2>3. OverlayInv(page', posts)
    BY <1>1, <2>1, <2>2 DEF OverlayInv, OverlaySound, Passed
  <2>4. PageInvOf(page', posts, stored)
    BY <2>2, <2>3, WindowChanged DEF Untouched
  <2> QED BY <2>1, <2>4 DEF PageInv
<1>4. CASE Narrow
  <2>1. page' = [page EXCEPT !.narrow = TRUE, !.overlay = TRUE, !.been.squeezed = @ \/ page.overlay]
        /\ posts' = posts /\ stored' = stored
    BY <1>4 DEF Narrow, Shows, Becomes
  <2>2. /\ Fields(page') /\ Untouched(page, page', {"overlay", "window", "narrow", "been"})
        /\ page'.overlay = TRUE /\ page'.narrow = TRUE /\ page'.window = page.window /\ page'.popup = page.popup
        /\ Untouched(page.been, page'.been, {"squeezed"}) /\ (page'.been.squeezed <=> page.been.squeezed \/ page.overlay)
    BY <1>1, <2>1 DEF Fields, Untouched
  <2>3. page'.been.loose = page.been.loose /\ page'.been.poFailed = page.been.poFailed
    BY <1>1, <2>2 DEF Fields, Untouched
  <2>4. OverlayInv(page', posts)
    BY <1>1, <2>2, <2>3 DEF OverlayInv, OverlaySound, Passed
  <2>5. PageInvOf(page', posts, stored)
    BY <2>2, <2>4, WindowChanged
  <2> QED BY <2>1, <2>5 DEF PageInv
<1>5. CASE Widen
  <2>1. page.narrow /\ page' = [page EXCEPT !.narrow = FALSE, !.overlay = FALSE] /\ posts' = posts /\ stored' = stored
    BY <1>5 DEF Widen, Shows, Becomes
  <2>2. /\ Fields(page') /\ Untouched(page, page', {"overlay", "window", "narrow", "been"})
        /\ page'.overlay = FALSE /\ page'.narrow = FALSE /\ page'.window = page.window /\ page'.popup = page.popup
        /\ page'.been = page.been
    BY <1>1, <2>1 DEF Fields, Untouched
  <2>3. OverlayInv(page', posts)
    BY <1>1, <2>1, <2>2 DEF OverlayInv, OverlaySound, Passed
  <2>4. PageInvOf(page', posts, stored)
    BY <2>2, <2>3, WindowChanged DEF Untouched
  <2> QED BY <2>1, <2>4 DEF PageInv
<1> QED BY <1>2, <1>3, <1>4, <1>5

LEMMA SearchKeeps == ASSUME PageInv, Search PROVE PageInv'
<1>1. PICK q \in {NoQuery} \cup Ids :
        Shows(Recalculated([page EXCEPT !.cell = NoCell, !.query = q,
                                        !.data = Refresh([@ EXCEPT !.map = {}], q, page.radio)]))
  BY DEF Search
<1> DEFINE e == [page.data EXCEPT !.map = {}]
           d == Refresh(e, q, page.radio)
           p == [page EXCEPT !.cell = NoCell, !.query = q, !.data = d]
           c == Recalculated(p)
<1>2. Fields(page)
  BY DEF PageInv, PageInvOf
<1>3. page' = c /\ posts' = posts /\ stored' = stored
  <2>1. p = [page EXCEPT !.cell = NoCell, !.query = q, !.data = Refresh([@ EXCEPT !.map = {}], q, page.radio)]
    BY <1>2 DEF Fields
  <2> QED BY <1>1, <2>1 DEF Shows, Becomes
<1>4. DOMAIN d = DOMAIN page.data /\ d.val = page.data.val
  <2>1. DOMAIN e = DOMAIN page.data /\ e.val = page.data.val
    BY <1>2 DEF Fields
  <2> HIDE DEF e
  <2> QED BY <1>2, <2>1, RefreshIs DEF Fields
<1> HIDE DEF d
<1>5. Fields(p) /\ Untouched(page, p, {"cell", "query", "data"}) /\ p.data.val = page.data.val /\ p.cell = NoCell
  BY <1>2, <1>4 DEF Fields, Untouched
<1> HIDE DEF p
<1>6. /\ Fields(c) /\ Untouched(p, c, {"data", "been"}) /\ c.data.val = p.data.val
      /\ Untouched(p.been, c.been, {"query", "radio"})
  BY <1>5, RecalculatedIs
<1> HIDE DEF c
<1>7. /\ c.cell = NoCell /\ c.button = page.button /\ p.been = page.been
      /\ Untouched(page, c, {"cell", "query", "data", "been"})
  BY <1>2, <1>5, <1>6 DEF Fields, Untouched
<1>8. CellInv(c)
  BY <1>7 DEF CellInv, NoCell
<1>9. /\ Untouched(page, c, {"data", "query", "radio", "cell", "brand", "kept", "guard", "toSingle", "button", "rejected",
                             "edits", "been"})
      /\ Untouched(page.been, c.been, {"query", "radio", "single"})
  BY <1>6, <1>7 DEF Untouched
<1>10. PageInvOf(c, posts, stored)
  BY <1>5, <1>6, <1>7, <1>8, <1>9, QuietFields DEF PageInv
<1> QED BY <1>3, <1>10 DEF PageInv

LEMMA RadioButtonKeeps == ASSUME PageInv, RadioButton PROVE PageInv'
<1>1. PICK radio : Shows([page EXCEPT !.cell = NoCell, !.radio = radio, !.data = Refresh(@, page.query, radio)])
  BY DEF RadioButton
<1> DEFINE d == Refresh(page.data, page.query, radio)
<1>2. Fields(page)
  BY DEF PageInv, PageInvOf
<1>3. page' = [page EXCEPT !.cell = NoCell, !.radio = radio, !.data = d] /\ posts' = posts /\ stored' = stored
  <2>1. [page EXCEPT !.cell = NoCell, !.radio = radio, !.data = d]
          = [page EXCEPT !.cell = NoCell, !.radio = radio, !.data = Refresh(@, page.query, radio)]
    BY <1>2 DEF Fields
  <2> QED BY <1>1, <2>1 DEF Shows, Becomes
<1>4. DOMAIN d = DOMAIN page.data /\ d.val = page.data.val
  BY <1>2, RefreshIs DEF Fields
<1> HIDE DEF d
<1>5. /\ Fields(page') /\ Untouched(page, page', {"cell", "radio", "data"}) /\ page'.data.val = page.data.val
      /\ page'.cell = NoCell
  BY <1>2, <1>3, <1>4 DEF Fields, Untouched
<1>6. page'.button = page.button /\ page'.been = page.been
  BY <1>2, <1>5 DEF Fields, Untouched
<1>7. CellInv(page')
  BY <1>5 DEF CellInv, NoCell
<1>8. /\ Untouched(page, page', {"data", "query", "radio", "cell", "brand", "kept", "guard", "toSingle", "button",
                                 "rejected", "edits", "been"})
      /\ Untouched(page.been, page'.been, {"query", "radio", "single"})
  BY <1>5, <1>6 DEF Untouched
<1>9. PageInvOf(page', posts, stored)
  BY <1>5, <1>6, <1>7, <1>8, QuietFields DEF PageInv
<1> QED BY <1>3, <1>9 DEF PageInv

-----------------------------------------------------------------------------
(* the page is loaded *)

StoredOK(s) == DOMAIN s = Ids /\ \A i \in Ids : DOMAIN s[i] = Months

LEMMA LoadedRows ==
  ASSUME NEW s, StoredOK(s), NEW active
  PROVE  LET d == PageOf(StoredRows(s), active)
         IN  /\ DOMAIN d = {"val", "active", "multi", "planned", "map", "total"}
             /\ DOMAIN d.val = ProjectRows /\ \A r \in ProjectRows : DOMAIN d.val[r] = Columns
             /\ \A i \in Ids, m \in Months : d.val[Row(i, "F")][m] = s[i][m]
<1> DEFINE v == StoredRows(s)
           raw(r) == [c \in Columns |-> IF r.type = "F" /\ c \in Months THEN s[r.id][c] ELSE 0]
           loaded == [val |-> v, active |-> active, multi |-> [p \in Tops |-> Kids[p] # <<>>], planned |-> Planned,
                      map |-> {}, total |-> [t \in Types |-> [c \in Columns |-> 0]]]
           e == Refresh(loaded, NoQuery, "All")
           d == CalculateTotal(e, "All")
<1>1. DOMAIN v = ProjectRows /\ \A r \in ProjectRows : v[r] = WithTotal(raw(r))
  BY DEF StoredRows
<1>2. ASSUME NEW r \in ProjectRows
      PROVE  DOMAIN v[r] = Columns /\ \A m \in Months : v[r][m] = IF r.type = "F" THEN s[r.id][m] ELSE 0
  <2> DEFINE w == raw(r)
  <2>1. DOMAIN w = Columns /\ \A m \in Months : m \in Columns => w[m] = IF r.type = "F" THEN s[r.id][m] ELSE 0
    OBVIOUS
  <2> HIDE DEF w
  <2>2. DOMAIN WithTotal(w) = Columns /\ \A m \in Months : m \in Columns /\ WithTotal(w)[m] = w[m]
    BY <2>1, WithTotalIs
  <2> HIDE DEF v
  <2>3. v[r] = WithTotal(w)
    BY <1>1 DEF w
  <2> QED BY <2>1, <2>2, <2>3
<1> HIDE DEF v
<1>3. DOMAIN loaded = {"val", "active", "multi", "planned", "map", "total"} /\ loaded.val = v
  OBVIOUS
<1> HIDE DEF loaded
<1>4. DOMAIN e = DOMAIN loaded /\ e.val = v
  BY <1>3, RefreshIs
<1> HIDE DEF e
<1>5. DOMAIN d = DOMAIN loaded /\ d.val = v
  BY <1>3, <1>4, RefreshIs
<1>6. PageOf(StoredRows(s), active) = d
  BY DEF PageOf, d, e, loaded, v
<1> HIDE DEF d
<1>7. \A i \in Ids : Row(i, "F") \in ProjectRows /\ Row(i, "F").type = "F" /\ Row(i, "F").id = i
  BY DEF ProjectRows, Row
<1>8. \A i \in Ids, m \in Months : v[Row(i, "F")][m] = s[i][m]
  BY <1>2, <1>7
<1> QED BY <1>1, <1>2, <1>3, <1>5, <1>6, <1>8

LEMMA LoadedKeeps ==
  ASSUME NEW s, StoredOK(s), NEW active, NEW n, Fields(n),
         Untouched(LoadedPage(s, active), n, {"been"}), Untouched(NothingYet, n.been, {"failed", "single"})
  PROVE  PageInvOf(n, <<>>, s)
<1> DEFINE d == PageOf(StoredRows(s), active)
           l == LoadedPage(s, active)
<1>1. /\ DOMAIN d.val = ProjectRows /\ \A r \in ProjectRows : DOMAIN d.val[r] = Columns
      /\ \A i \in Ids, m \in Months : d.val[Row(i, "F")][m] = s[i][m]
  BY LoadedRows
<1> HIDE DEF d
<1>2. /\ n.data = d /\ n.cell = NoCell /\ n.popup = ClosedPopup /\ n.new = <<>> /\ n.overlay = FALSE /\ n.saving = FALSE
      /\ n.window = FALSE /\ n.narrow = FALSE /\ n.button = TRUE /\ n.hung = FALSE
  BY DEF Untouched, LoadedPage, d
<1>3. /\ n.been.cleared = FALSE /\ n.been.squeezed = FALSE /\ n.been.loose = FALSE /\ n.been.poFailed = FALSE
      /\ n.been.typed = FALSE
  BY DEF Untouched, NothingYet
<1>4. ~n.popup.open /\ n.popup.rows = BlankRows
  BY <1>2 DEF ClosedPopup
<1>5. Sequence(<<>>) /\ DOMAIN <<>> = {}
  <2> DEFINE empty == <<>>
  <2>1. empty \in Seq({}) /\ DOMAIN empty = {}
    OBVIOUS
  <2> HIDE DEF empty
  <2>2. Sequence(empty)
    BY <2>1, SeqFacts
  <2> QED BY <2>1, <2>2 DEF empty
<1>6. PostsInv(<<>>) /\ Saves(<<>>) = {} /\ ModalsOf(<<>>) = {} /\ ~Modal(<<>>)
  BY <1>5 DEF PostsInv, Saves, ModalsOf, Modal
<1>7. OverlayInv(n, <<>>)
  BY <1>2, <1>3, <1>4, <1>5, <1>6 DEF OverlayInv, OverlaySound, Alone
<1>8. CellInv(n) /\ RowsInv(n, s)
  BY <1>1, <1>2 DEF CellInv, NoCell, RowsInv, StoredOK
<1>9. SavedInv(n, <<>>, s)
  BY <1>1, <1>2, <1>6, <1>8 DEF SavedInv, Alone, Shown
<1>10. ButtonInv(n, <<>>)
  BY <1>2 DEF ButtonInv
<1>11. PopupInv(n)
  BY <1>2, <1>4, <1>5, BlankIsSeq DEF PopupInv, ListsInv, HungInv, BlankInv
<1> QED BY <1>6, <1>7, <1>9, <1>10, <1>11 DEF PageInvOf

LEMMA LoadedIs ==
  ASSUME NEW s, StoredOK(s), NEW active
  PROVE  Fields(LoadedPage(s, active)) /\ LoadedPage(s, active).been = NothingYet
<1>1. DOMAIN PageOf(StoredRows(s), active) = {"val", "active", "multi", "planned", "map", "total"}
  BY LoadedRows
<1> QED BY <1>1 DEF LoadedPage, Fields, NothingYet, ClosedPopup

LEMMA ReloadKeeps ==
  ASSUME PageInv, NEW s, StoredOK(s), Reload(s), stored' = s
  PROVE  PageInv'
<1> DEFINE active == page.data.active
           l == LoadedPage(s, active)
           failed == InFlight({"save"}) # {}
<1>1. page' = [l EXCEPT !.been.failed = failed, !.been.single = page.been.single] /\ posts' = <<>>
  BY DEF Reload
<1>2. Fields(l) /\ l.been = NothingYet
  BY LoadedIs
<1> HIDE DEF l
<1>3. Fields(page') /\ Untouched(l, page', {"been"}) /\ Untouched(NothingYet, page'.been, {"failed", "single"})
  BY <1>1, <1>2 DEF Fields, Untouched
<1> HIDE DEF active
<1>4. PageInvOf(page', <<>>, s)
  BY <1>3, LoadedKeeps DEF l
<1> QED BY <1>1, <1>4 DEF PageInv

-----------------------------------------------------------------------------
(* the answers *)

LEMMA StoredIsOK == ASSUME PageInv PROVE StoredOK(stored) /\ \A k \in DOMAIN posts : StoredOK(Applied(k))
<1>1. StoredOK(stored)
  BY DEF PageInv, PageInvOf, SavedInv, RowsInv, StoredOK
<1>2. ASSUME NEW k \in DOMAIN posts PROVE StoredOK(Applied(k))
  BY <1>1 DEF StoredOK, Applied
<1> QED BY <1>1, <1>2

\* What the server has after a save is what was sent.
LEMMA AppliedIsSent ==
  ASSUME PageInv, NEW k \in DOMAIN posts, NEW i \in Ids, NEW m \in Months
  PROVE  Applied(k)[i][m] = Sent(posts[k], i, m, stored)
<1>1. DOMAIN stored[i] = Months
  BY StoredIsOK DEF StoredOK
<1>2. Applied(k)[i] = IF i \in DOMAIN posts[k].parts THEN [stored[i] EXCEPT ![posts[k].month] = posts[k].parts[i]]
                      ELSE stored[i]
  BY DEF Applied
<1> QED BY <1>1, <1>2 DEF Sent

LEMMA SaveAnsweredKeeps == ASSUME PageInv, NEW k \in DOMAIN posts, SaveAnswered(k) PROVE PageInv'
<1>1. posts[k].kind = "save" /\ stored' = Applied(k)
  BY DEF SaveAnswered
<1>2. CASE posts[k].reload
  BY <1>1, <1>2, StoredIsOK, ReloadKeeps DEF SaveAnswered
<1>3. CASE ~posts[k].reload
  <2>1. page' = [page EXCEPT !.saving = FALSE] /\ posts' = RemoveAt(posts, k)
    BY <1>3 DEF SaveAnswered
  <2>2. /\ Fields(page) /\ PostsInv(posts) /\ OverlayInv(page, posts) /\ SavedInv(page, posts, stored)
        /\ ButtonInv(page, posts) /\ PopupInv(page) /\ CellInv(page)
    BY DEF PageInv, PageInvOf, SavedInv
  <2>3. Fields(page') /\ Untouched(page, page', {"saving"}) /\ page'.saving = FALSE
    BY <2>1, <2>2 DEF Fields, Untouched
  <2>4. /\ page'.overlay = page.overlay /\ page'.window = page.window /\ page'.narrow = page.narrow
        /\ page'.popup = page.popup /\ page'.been = page.been /\ page'.hung = page.hung /\ page'.new = page.new
        /\ page'.data = page.data /\ page'.cell = page.cell /\ page'.button = page.button
    BY <2>2, <2>3 DEF Fields, Untouched
  <2>5. ~posts[k].modal
    BY <1>1, <1>3, <2>2 DEF PostsInv
  <2>6. OverlayInv(page', posts')
    BY <2>1, <2>2, <2>4, <2>5, AnsweredQuietly DEF OverlaySame
  <2>7. CellInv(page')
    BY <2>2, <2>3, <2>4 DEF CellInv
  <2>8. StoredOK(stored')
    BY <1>1, StoredIsOK
  <2>9. RowsInv(page', stored')
    BY <2>2, <2>4, <2>8 DEF SavedInv, RowsInv, StoredOK
  <2>10. \A i \in Ids, m \in Months : stored'[i][m] = Sent(posts[k], i, m, stored)
    BY <1>1, AppliedIsSent
  <2>11. SavedInv(page', RemoveAt(posts, k), stored')
    BY <1>1, <2>2, <2>3, <2>4, <2>7, <2>9, <2>10, AnsweredSave
  <2>12. ButtonInv(page', posts')
    BY <1>1, <2>1, <2>2, <2>4, AnsweredButton
  <2>13. PopupInv(page')
    BY <2>2, <2>4, PopupKept DEF PopupSame
  <2>14. PostsInv(posts')
    BY <2>1, <2>2, AnsweredIs
  <2> QED BY <2>1, <2>3, <2>6, <2>11, <2>12, <2>13, <2>14 DEF PageInv, PageInvOf
<1> QED BY <1>2, <1>3

LEMMA SaveFailsKeeps == ASSUME PageInv, NEW k \in DOMAIN posts, SaveFails(k) PROVE PageInv'
<1> DEFINE r == Redraw(page)
<1>1. /\ posts[k].kind = "save" /\ stored' \in {stored, Applied(k)} /\ posts' = RemoveAt(posts, k)
      /\ page' = [r EXCEPT !.saving = FALSE, !.been.failed = TRUE, !.been.poFailed = @ \/ posts[k].modal]
  BY DEF SaveFails
<1>2. /\ Fields(page) /\ PostsInv(posts) /\ OverlayInv(page, posts) /\ SavedInv(page, posts, stored)
      /\ ButtonInv(page, posts) /\ PopupInv(page) /\ CellInv(page)
  BY DEF PageInv, PageInvOf, SavedInv
<1>3. /\ Fields(r) /\ Untouched(page, r, {"cell", "button"}) /\ r.button = TRUE /\ Closed(r.cell)
  BY <1>2, RedrawIs, ClosedCell DEF Fields, Untouched
<1> HIDE DEF r
<1>4. r.been = page.been
  BY <1>2, <1>3 DEF Fields, Untouched
<1>5. /\ Fields(page') /\ Untouched(r, page', {"saving", "been"}) /\ page'.saving = FALSE /\ page'.been.failed = TRUE
      /\ Untouched(page.been, page'.been, {"failed", "poFailed"})
      /\ (page'.been.poFailed <=> page.been.poFailed \/ posts[k].modal)
  BY <1>1, <1>3, <1>4 DEF Fields, Untouched
<1>6. /\ page'.overlay = page.overlay /\ page'.window = page.window /\ page'.narrow = page.narrow
      /\ page'.popup = page.popup /\ page'.hung = page.hung /\ page'.new = page.new
      /\ page'.data = page.data /\ page'.cell = r.cell /\ page'.button = TRUE
  BY <1>2, <1>3, <1>5 DEF Fields, Untouched
<1>7. /\ page'.been.squeezed = page.been.squeezed /\ page'.been.loose = page.been.loose
      /\ page'.been.typed = page.been.typed
  BY <1>2, <1>5 DEF Fields, Untouched
<1>8. OverlayInv(page', RemoveAt(posts, k))
  <2>1. CASE ~posts[k].modal
    <3>1. OverlaySame(page, page')
      BY <1>5, <1>6, <1>7, <2>1 DEF OverlaySame
    <3> QED BY <1>2, <2>1, <3>1, AnsweredQuietly
  <2>2. CASE posts[k].modal
    <3>1. OverlaySound(page, posts) => (page'.overlay <=> page'.been.poFailed)
      BY <1>5, <1>6, <2>2 DEF OverlaySound, Modal
    <3>2. Passed(page) => Passed(page')
      BY <1>7 DEF Passed
    <3> QED BY <1>2, <1>6, <2>2, <3>1, <3>2, AnsweredUnderOverlay
  <2> QED BY <2>1, <2>2
<1>9. CellInv(page')
  BY <1>2, <1>3, <1>6, ClosedCell
<1>10. StoredOK(stored')
  BY <1>1, StoredIsOK
<1>11. RowsInv(page', stored')
  BY <1>2, <1>6, <1>10 DEF SavedInv, RowsInv, StoredOK
<1>12. SavedInv(page', RemoveAt(posts, k), stored')
  BY <1>1, <1>2, <1>5, <1>9, <1>11, AnsweredSave
<1>13. ButtonInv(page', RemoveAt(posts, k))
  BY <1>2, <1>6, AnsweredButton
<1>14. PopupInv(page')
  BY <1>2, <1>6, <1>7, PopupKept DEF PopupSame
<1>15. PostsInv(RemoveAt(posts, k))
  BY <1>2, AnsweredIs
<1> QED BY <1>1, <1>5, <1>8, <1>12, <1>13, <1>14, <1>15 DEF PageInv, PageInvOf

\* A post under the overlay is refused, or cannot be made: the overlay goes.
LEMMA RefusedKeeps ==
  ASSUME PageInv, NEW k \in DOMAIN posts, posts[k].kind \in Big, NEW n, Fields(n), Untouched(page, n, {"overlay", "button"}),
         n.overlay = FALSE, n.button = TRUE \/ (posts[k].kind # "store" /\ n.button = page.button)
  PROVE  PageInvOf(n, RemoveAt(posts, k), stored)
<1>1. /\ Fields(page) /\ PostsInv(posts) /\ OverlayInv(page, posts) /\ SavedInv(page, posts, stored)
      /\ ButtonInv(page, posts) /\ PopupInv(page) /\ CellInv(page)
  BY DEF PageInv, PageInvOf, SavedInv
<1>2. /\ n.window = page.window /\ n.narrow = page.narrow /\ n.popup = page.popup /\ n.been = page.been
      /\ n.saving = page.saving /\ n.hung = page.hung /\ n.new = page.new /\ n.data = page.data /\ n.cell = page.cell
  BY <1>1 DEF Fields, Untouched
<1>3. OverlayInv(n, RemoveAt(posts, k))
  <2>1. CASE Passed(page)
    BY <1>2, <2>1 DEF OverlayInv, Passed
  <2>2. CASE ~Passed(page)
    <3>1. OverlaySound(page, posts)
      BY <1>1, <2>2 DEF OverlayInv
    <3>2. posts[k].modal /\ ~page.been.poFailed
      BY <3>1 DEF OverlaySound, Modal
    <3>3. n.overlay <=> n.been.poFailed
      BY <1>2, <3>2
    <3> QED BY <1>1, <1>2, <2>2, <3>2, <3>3, AnsweredUnderOverlay
  <2> QED BY <2>1, <2>2
<1>4. SavingSame(page, n) /\ CellInv(n) /\ PopupSame(page, n)
  BY <1>1, <1>2 DEF SavingSame, CellInv, PopupSame
<1>5. SavedInv(n, RemoveAt(posts, k), stored)
  BY <1>1, <1>4, AnsweredOther DEF Big
<1>6. ButtonInv(n, RemoveAt(posts, k)) /\ PostsInv(RemoveAt(posts, k))
  BY <1>1, <1>2, AnsweredButton, AnsweredIs
<1>7. PopupInv(n)
  BY <1>1, <1>4, PopupKept
<1> QED BY <1>3, <1>5, <1>6, <1>7 DEF PageInvOf

LEMMA AnswersKeep == ASSUME PageInv, NEW kind, AnswerTo(kind) PROVE PageInv'
<1>1. PICK k \in DOMAIN posts : SaveAnswered(k) \/ SaveFails(k) \/ PostAnswered(k) \/ StoreFails(k) \/ PostRefused(k)
  BY DEF AnswerTo, InFlight
<1>2. Fields(page)
  BY DEF PageInv, PageInvOf
<1>3. CASE SaveAnswered(k)
  BY <1>3, SaveAnsweredKeeps
<1>4. CASE SaveFails(k)
  BY <1>4, SaveFailsKeeps
<1>5. CASE PostAnswered(k)
  BY <1>5, StoredIsOK, ReloadKeeps DEF PostAnswered
<1>6. CASE StoreFails(k)
  <2>1. /\ posts[k].kind = "store" /\ page' = [page EXCEPT !.button = TRUE, !.overlay = FALSE]
        /\ posts' = RemoveAt(posts, k) /\ stored' = stored
    BY <1>6 DEF StoreFails, Answered
  <2>2. Fields(page') /\ Untouched(page, page', {"overlay", "button"}) /\ page'.overlay = FALSE /\ page'.button = TRUE
    BY <1>2, <2>1 DEF Fields, Untouched
  <2>3. PageInvOf(page', RemoveAt(posts, k), stored)
    BY <2>1, <2>2, RefusedKeeps DEF Big
  <2> QED BY <2>1, <2>3 DEF PageInv
<1>7. CASE PostRefused(k)
  <2>1. /\ posts[k].kind \in {"brands", "initiate", "disable"} /\ page' = [page EXCEPT !.overlay = FALSE]
        /\ posts' = RemoveAt(posts, k) /\ stored' = stored
    BY <1>7 DEF PostRefused, Answered
  <2>2. /\ Fields(page') /\ Untouched(page, page', {"overlay", "button"}) /\ page'.overlay = FALSE
        /\ page'.button = page.button
    BY <1>2, <2>1 DEF Fields, Untouched
  <2>3. PageInvOf(page', RemoveAt(posts, k), stored)
    BY <2>1, <2>2, RefusedKeeps DEF Big
  <2> QED BY <2>1, <2>3 DEF PageInv
<1> QED BY <1>1, <1>3, <1>4, <1>5, <1>6, <1>7

LEMMA LeavePageKeeps == ASSUME PageInv, LeavePage PROVE PageInv'
<1>1. stored' \in {stored} \cup {Applied(k) : k \in InFlight({"save"})} /\ Reload(stored')
  BY DEF LeavePage
<1>2. StoredOK(stored')
  BY <1>1, StoredIsOK DEF InFlight
<1> QED BY <1>1, <1>2, ReloadKeeps

LEMMA InitIs == Init => PageInv
<1> SUFFICES ASSUME Init PROVE PageInv
  OBVIOUS
<1> DEFINE active == IF "active" \in doing THEN Tops ELSE {}
           l == LoadedPage(stored, active)
<1>1. page = l /\ posts = <<>> /\ StoredOK(stored)
  BY DEF Init, StoredOK
<1> HIDE DEF active
<1>2. Fields(l) /\ l.been = NothingYet
  BY <1>1, LoadedIs
<1>3. Untouched(LoadedPage(stored, active), l, {"been"}) /\ Untouched(NothingYet, l.been, {"failed", "single"})
  BY <1>2 DEF Untouched
<1> HIDE DEF l
<1>4. PageInvOf(l, <<>>, stored)
  BY <1>1, <1>2, <1>3, LoadedKeeps
<1> QED BY <1>1, <1>4 DEF PageInv

LEMMA NextKeeps == PageInv /\ [Next]_vars => PageInv'
<1> SUFFICES ASSUME PageInv, [Next]_vars PROVE PageInv'
  OBVIOUS
<1>1. CASE UNCHANGED vars
  BY <1>1 DEF vars, PageInv
<1>2. CASE OpenCell \/ EscapeKey \/ CommitMonth \/ CommitPO \/ CommitBrand \/ ClickBrand
  BY <1>2, OpenCellKeeps, EscapeKeyKeeps, CommitMonthKeeps, CommitPOKeeps, CommitBrandKeeps, ClickBrandKeeps
<1>3. CASE OpenPopupCell \/ CommitPopupBrand \/ CommitPopupTotal \/ AddRow \/ DeleteRows
  BY <1>3, OpenPopupCellKeeps, CommitPopupBrandKeeps, CommitPopupTotalKeeps, AddRowKeeps, DeleteRowsKeeps
<1>4. CASE SaveAndClose \/ CloseWithoutSave
  BY <1>4, SaveAndCloseKeeps, CloseWithoutSaveKeeps
<1>5. CASE CreateProject \/ EditNew \/ ClickNewBrand \/ SubmitProjects
  BY <1>5, CreateProjectKeeps, EditNewKeeps, ClickNewBrandKeeps, SubmitProjectsKeeps
<1>6. CASE PostProject \/ OpenWindow \/ CloseWindow \/ Narrow \/ Widen \/ Search \/ RadioButton
  BY <1>6, PostProjectKeeps, WindowsKeep, SearchKeeps, RadioButtonKeeps
<1>7. CASE (\E kind \in Kinds : AnswerTo(kind)) \/ LeavePage
  BY <1>7, AnswersKeep, LeavePageKeeps
<1> QED BY <1>1, <1>2, <1>3, <1>4, <1>5, <1>6, <1>7 DEF Next

LEMMA PageInvAlways == Spec => []PageInv
BY InitIs, NextKeeps, PTL DEF Spec

LEMMA ConsIs ==
  ASSUME NEW S, NEW x \in S, NEW k \in Seq(S)
  PROVE  LET f == <<x>> \o k
         IN  /\ f \in Seq(S) /\ Len(f) = Len(k) + 1 /\ f[1] = x
             /\ \A i \in 1..Len(k) : f[i + 1] = k[i]
<1> DEFINE one == <<x>>
           f == one \o k
<1>1. one \in Seq(S) /\ Len(one) = 1 /\ one[1] = x
  OBVIOUS
<1> HIDE DEF one
<1>2. /\ f \in Seq(S) /\ Len(f) = 1 + Len(k)
      /\ \A i \in 1..(1 + Len(k)) : f[i] = IF i <= 1 THEN one[i] ELSE k[i - 1]
  <2>1. /\ one \o k \in Seq(S) /\ Len(one \o k) = Len(one) + Len(k)
        /\ \A i \in 1..(Len(one) + Len(k)) : (one \o k)[i] = IF i <= Len(one) THEN one[i] ELSE k[i - Len(one)]
    BY ONLY <1>1, k \in Seq(S), ConcatProperties
  <2> QED BY <1>1, <2>1
<1> HIDE DEF f
<1>3. Len(k) \in Nat /\ Len(f) = Len(k) + 1 /\ f[1] = x
  BY <1>1, <1>2
<1>4. \A i \in 1..Len(k) : f[i + 1] = k[i]
  <2> TAKE i \in 1..Len(k)
  <2>1. i + 1 \in 1..(1 + Len(k)) /\ ~(i + 1 <= 1) /\ (i + 1) - 1 = i
    BY <1>3
  <2> QED BY <1>2, <2>1
<1> QED BY <1>2, <1>3, <1>4 DEF f, one

-----------------------------------------------------------------------------
(* families and the parts of an amount *)

KidsOf(p) == ToSet(Kids[p])

LEMMA FamilyIs ==
  ASSUME NEW p \in Tops
  PROVE  /\ ToSet(Family(p)) = {p} \cup KidsOf(p) /\ p \notin KidsOf(p)
         /\ p \in Ids /\ KidsOf(p) \in SUBSET Ids /\ IsFiniteSet(KidsOf(p))
         /\ Kids[p] # <<>> => Last(Family(p)) \in KidsOf(p)
         /\ Kids[p] = <<>> => Last(Family(p)) = p /\ KidsOf(p) = {}
         /\ Len(Kids[p]) \in Nat /\ Cardinality(KidsOf(p)) = Len(Kids[p])
<1> DEFINE k == Kids[p]
           one == <<p>>
           f == one \o k
<1>1. k \in Seq(Ids) /\ IsInjective(f) /\ p \in Ids
  <2>1. IsInjective(f)
    BY PageAssumption DEF Family
  <2>2. k \in Seq(Ids)
    BY PageAssumption
  <2>3. p \in Ids
    BY DEF Ids
  <2> QED BY <2>1, <2>2, <2>3
<1> HIDE DEF k
<1>2. Len(k) \in Nat /\ DOMAIN k = 1..Len(k) /\ one \in Seq(Ids) /\ Len(one) = 1 /\ one[1] = p
  BY <1>1
<1> HIDE DEF one
<1>3. /\ f \in Seq(Ids) /\ Len(f) = Len(k) + 1 /\ DOMAIN f = 1..(Len(k) + 1) /\ f[1] = p
      /\ \A i \in 1..Len(k) : f[i + 1] = k[i]
  <2>1. /\ f \in Seq(Ids) /\ Len(f) = Len(k) + 1 /\ f[1] = p
        /\ \A i \in 1..Len(k) : f[i + 1] = k[i]
    BY <1>1, ConsIs DEF one
  <2>2. DOMAIN f = 1..(Len(k) + 1)
    BY <2>1
  <2> QED BY <2>1, <2>2
<1> HIDE DEF f
<1>4. \A i \in 1..(Len(k) + 1) : i = 1 \/ (i - 1 \in 1..Len(k) /\ f[i] = k[i - 1])
  <2> TAKE i \in 1..(Len(k) + 1)
  <2>1. CASE i # 1
    <3>1. i - 1 \in 1..Len(k) /\ (i - 1) + 1 = i
      BY <1>2, <2>1
    <3> QED BY <1>3, <3>1
  <2> QED BY <2>1
<1>5. ToSet(f) = {p} \cup ToSet(k)
  <2>1. ToSet(f) \subseteq {p} \cup ToSet(k)
    <3> SUFFICES ASSUME NEW i \in 1..(Len(k) + 1) PROVE f[i] \in {p} \cup ToSet(k)
      BY <1>3 DEF ToSet
    <3>1. CASE i = 1
      BY <1>3, <3>1
    <3>2. CASE i # 1
      BY <1>2, <1>4, <3>2 DEF ToSet
    <3> QED BY <3>1, <3>2
  <2>2. \A i \in 1..Len(k) : i + 1 \in 1..(Len(k) + 1)
    BY <1>2
  <2>3. p \in ToSet(f)
    BY <1>2, <1>3 DEF ToSet
  <2>4. ToSet(k) \subseteq ToSet(f)
    BY <1>2, <1>3, <2>2 DEF ToSet
  <2> QED BY <2>1, <2>3, <2>4
<1>6. \A i, j \in DOMAIN f : f[i] = f[j] => i = j
  BY <1>1 DEF IsInjective
<1>7. p \notin ToSet(k)
  <2> SUFFICES ASSUME NEW i \in 1..Len(k), k[i] = p PROVE FALSE
    BY <1>2 DEF ToSet
  <2>1. i + 1 \in DOMAIN f /\ 1 \in DOMAIN f /\ i + 1 # 1
    BY <1>2, <1>3
  <2> QED BY <1>3, <1>6, <2>1
<1>8. ToSet(k) \in SUBSET Ids
  BY <1>1 DEF ToSet
<1>9. \A i, j \in 1..Len(k) : k[i] = k[j] => i = j
  <2> SUFFICES ASSUME NEW i \in 1..Len(k), NEW j \in 1..Len(k), k[i] = k[j] PROVE i = j
    OBVIOUS
  <2>1. i + 1 \in DOMAIN f /\ j + 1 \in DOMAIN f
    BY <1>2, <1>3
  <2>2. i + 1 = j + 1
    BY <1>3, <1>6, <2>1
  <2> QED BY <2>2
<1>10. IsFiniteSet(ToSet(k)) /\ Cardinality(ToSet(k)) = Len(k)
  <2> DEFINE D == 1..Len(k)
  <2>1. IsFiniteSet(D) /\ Cardinality(D) = Len(k)
    <3> DEFINE n == Len(k)
    <3>1. n \in Int /\ 1 \in Int /\ n \in Nat
      BY <1>2
    <3> HIDE DEF n
    <3>2. IsFiniteSet(1..n) /\ Cardinality(1..n) = IF 1 > n THEN 0 ELSE n - 1 + 1
      BY <3>1, FS_Interval
    <3>3. Cardinality(1..n) = n
      BY <3>1, <3>2
    <3> QED BY <3>2, <3>3 DEF n
  <2>2. k \in Bijection(D, ToSet(k))
    BY <1>1, <1>2, <1>9 DEF ToSet, Bijection, Injection, Surjection, IsInjective
  <2> QED BY <2>1, <2>2, FS_Bijection DEF ExistsBijection
<1>11. k # <<>> => Len(k) > 0
  BY <1>1
<1>12. Last(f) = f[Len(k) + 1]
  BY <1>3 DEF Last
<1>13. k # <<>> => Last(f) \in ToSet(k)
  BY <1>2, <1>3, <1>11, <1>12 DEF ToSet
<1>14. k = <<>> => Last(f) = p /\ ToSet(k) = {}
  <2> SUFFICES ASSUME k = <<>> PROVE Last(f) = p /\ ToSet(k) = {}
    OBVIOUS
  <2>1. Len(k) = 0
    OBVIOUS
  <2> QED BY <1>2, <1>3, <1>12, <2>1 DEF ToSet
<1>15. Family(p) = f /\ KidsOf(p) = ToSet(k)
  BY DEF Family, f, one, k, KidsOf
<1> QED BY <1>1, <1>2, <1>5, <1>7, <1>8, <1>10, <1>13, <1>14, <1>15 DEF k

LEMMA RangeIsFinite == ASSUME NEW S, NEW s \in Seq(S) PROVE IsFiniteSet(ToSet(s))
<1> DEFINE D == 1..Len(s)
<1>1. IsFiniteSet(D)
  <2>1. Len(s) \in Int /\ 1 \in Int
    OBVIOUS
  <2> QED BY <2>1, FS_Interval
<1>2. s \in Surjection(D, ToSet(s))
  BY DEF ToSet, Surjection
<1> QED BY <1>1, <1>2, FS_Surjection DEF ExistsSurjection

LEMMA IdsAre ==
  /\ IsFiniteSet(Tops) /\ IsFiniteSet(Ids) /\ Tops \subseteq Ids
  /\ \A i \in Ids : Parent(i) \in Tops /\ i \in {Parent(i)} \cup KidsOf(Parent(i))
  /\ \A p \in Tops : \A i \in {p} \cup KidsOf(p) : Parent(i) = p
  /\ \A i \in Ids : i \in Tops <=> Parent(i) = i
<1>1. IsFiniteSet(Tops)
  <2>1. Projects \in Seq(Tops)
    BY PageAssumption
  <2> QED BY <2>1, RangeIsFinite DEF Tops
<1>2. IsFiniteSet(UNION {KidsOf(p) : p \in Tops})
  <2> DEFINE T == {KidsOf(p) : p \in Tops}
             f == [p \in Tops |-> KidsOf(p)]
  <2>1. f \in Surjection(Tops, T)
    BY DEF Surjection
  <2>2. IsFiniteSet(T)
    BY <1>1, <2>1, FS_Surjection DEF ExistsSurjection
  <2>3. \A k \in T : IsFiniteSet(k)
    BY FamilyIs
  <2> QED BY <2>2, <2>3, FS_UNION
<1>3. IsFiniteSet(Ids)
  BY <1>1, <1>2, FS_Union DEF Ids, KidsOf
<1>4. \A p \in Tops : \A i \in {p} \cup KidsOf(p) : Parent(i) = p
  <2> SUFFICES ASSUME NEW p \in Tops, NEW i \in {p} \cup KidsOf(p) PROVE Parent(i) = p
    OBVIOUS
  <2>1. i \in ToSet(Family(p))
    BY FamilyIs
  <2>2. \A q \in Tops : i \in ToSet(Family(q)) => q = p
    BY <2>1, PageAssumption
  <2> QED BY <2>1, <2>2 DEF Parent
<1>5. \A i \in Ids : \E p \in Tops : i \in {p} \cup KidsOf(p)
  BY DEF Ids, KidsOf
<1> QED BY <1>1, <1>3, <1>4, <1>5 DEF Ids

LEMMA ToFixedIs ==
  ASSUME NEW x \in Int
  PROVE  /\ ToFixed(x) \in Int
         /\ 10000 * ToFixed(x) - x >= -5000 /\ 10000 * ToFixed(x) - x <= 5000
BY DEF ToFixed

\* The part of an amount that is anyone's is a number.
LEMMA PartIs == ASSUME NEW i \in Ids, NEW amount \in Int PROVE Part(i, amount) \in Int /\ ShareOf(i) \in Nat
<1>1. ShareOf(i) \in Nat
  BY PageAssumption DEF ShareOf
<1>2. ShareOf(i) * amount \in Int
  BY <1>1
<1> QED BY <1>1, <1>2, ToFixedIs DEF Part

\* The parts of a multi-brand project are those of its shares, but for the last one,
\* and add up to that of the project.
LEMMA PartsAdd ==
  ASSUME NEW d, NEW p \in Tops, NEW amount \in Int,
         NEW part, part = [i \in ToSet(Family(p)) |-> Part(i, amount)]
  PROVE  LET parts == Parts(d, p, amount)
             last == Last(Family(p))
         IN  /\ parts \in [ToSet(Family(p)) -> Int] /\ part \in [ToSet(Family(p)) -> Int]
             /\ \A i \in ToSet(Family(p)) : parts[i] = part[i] \/ (i = last /\ Kids[p] # <<>> /\ d.multi[p])
             /\ (Kids[p] # <<>> /\ d.multi[p]) =>
                  /\ parts[p] = SumFunctionOnSet(parts, KidsOf(p))
                  /\ part[last] - parts[last] = SumFunctionOnSet(part, KidsOf(p)) - part[p]
             /\ ~d.multi[p] => parts = part
<1> DEFINE parts == Parts(d, p, amount)
           family == ToSet(Family(p))
           last == Last(Family(p))
           others == KidsOf(p) \ {last}
           rest == SumFunctionOnSet(part, others)
<1>1. family = {p} \cup KidsOf(p) /\ p \notin KidsOf(p) /\ IsFiniteSet(KidsOf(p)) /\ family \subseteq Ids
  BY FamilyIs
<1>2. part \in [family -> Int] /\ DOMAIN part = family /\ \A i \in family : part[i] \in Int
  BY <1>1, PartIs
<1>3. parts = IF d.multi[p] /\ Kids[p] # <<>> THEN [part EXCEPT ![last] = part[p] - rest] ELSE part
  BY DEF Parts, KidsOf
<1>4. last \in KidsOf(p) \/ Kids[p] = <<>>
  BY FamilyIs
<1> HIDE DEF parts, family, last
<1>5. IsFiniteSet(others) /\ others \in SUBSET KidsOf(p) /\ \A x \in KidsOf(p) : part[x] \in Int
  BY <1>1, <1>2, FS_Subset
<1>6. rest \in Int
  BY <1>1, <1>5, SumInt
<1> HIDE DEF rest
<1>7. part[p] - rest \in Int
  BY <1>1, <1>2, <1>6
<1>8. parts \in [family -> Int]
  BY <1>2, <1>3, <1>7
<1>9. \A i \in family : parts[i] = part[i] \/ (i = last /\ Kids[p] # <<>> /\ d.multi[p])
  BY <1>2, <1>3
<1>10. ASSUME Kids[p] # <<>>, d.multi[p]
       PROVE  /\ parts[p] = SumFunctionOnSet(parts, KidsOf(p))
              /\ part[last] - parts[last] = SumFunctionOnSet(part, KidsOf(p)) - part[p]
  <2>1. last \in KidsOf(p) /\ last # p
    BY <1>1, <1>4, <1>10
  <2>2. parts[last] = part[p] - rest /\ parts[p] = part[p]
    BY <1>1, <1>2, <1>3, <1>9, <1>10, <2>1
  <2>3. SumFunctionOnSet(part, KidsOf(p)) = part[last] + SumFunctionOnSet(part, KidsOf(p) \ {last})
    BY <1>1, <1>5, <2>1, SumRemove
  <2>4. SumFunctionOnSet(parts, KidsOf(p)) = parts[last] + SumFunctionOnSet(parts, KidsOf(p) \ {last})
    <3>1. \A x \in KidsOf(p) : parts[x] \in Int
      BY <1>1, <1>8
    <3> QED BY <1>1, <2>1, <3>1, SumRemove
  <2>5. SumFunctionOnSet(parts, others) = SumFunctionOnSet(part, others)
    <3>1. \A x \in others : parts[x] = part[x]
      BY <1>1, <1>9
    <3> QED BY <1>5, <3>1, SumSame
  <2>6. part[last] \in Int /\ part[p] \in Int
    BY <1>1, <1>2, <2>1
  <2>7. SumFunctionOnSet(part, KidsOf(p) \ {last}) = rest /\ SumFunctionOnSet(parts, KidsOf(p) \ {last}) = rest
    BY <2>5 DEF rest
  <2> QED BY <1>6, <2>2, <2>3, <2>4, <2>6, <2>7
<1>11. ~d.multi[p] => parts = part
  BY <1>3
<1> QED BY <1>2, <1>8, <1>9, <1>10, <1>11 DEF parts, last, family

LEMMA PartsTyped ==
  ASSUME NEW d, NEW p \in Tops, NEW amount \in Int
  PROVE  Parts(d, p, amount) \in [ToSet(Family(p)) -> Int]
<1> DEFINE part == [i \in ToSet(Family(p)) |-> Part(i, amount)]
<1>1. part = [i \in ToSet(Family(p)) |-> Part(i, amount)]
  OBVIOUS
<1> HIDE DEF part
<1> QED BY <1>1, PartsAdd

\* The sub-projects of a project have shares that make a hundred percent.
WholeShares ==
  \A p \in Tops : Kids[p] # <<>> =>
    (\A k \in ToSet(Kids[p]) : Share[k] > 0) /\ SumFunctionOnSet(Share, ToSet(Kids[p])) = 10000

LEMMA RoundedIs ==
  ASSUME NEW i \in Ids, NEW amount \in Int
  PROVE  LET off == 10000 * Part(i, amount) - ShareOf(i) * amount IN off >= -5000 /\ off <= 5000
<1> DEFINE x == ShareOf(i) * amount
           q == Part(i, amount)
<1>1. x \in Int
  <2>1. ShareOf(i) \in Int
    BY PartIs
  <2> QED BY <2>1
<1>2. q = ToFixed(x)
  BY DEF Part
<1> HIDE DEF x, q
<1>3. 10000 * q - x >= -5000 /\ 10000 * q - x <= 5000
  BY <1>1, <1>2, ToFixedIs
<1> QED BY <1>3 DEF x, q

\* Sums of numbers that are close to each other are as close as all of them together.
LEMMA SumsClose ==
  ASSUME NEW S, IsFiniteSet(S), NEW f, NEW g, NEW a \in Int, \A x \in S : f[x] \in Int /\ g[x] \in Int,
         \A x \in S : 10000 * f[x] - g[x] * a >= -5000 /\ 10000 * f[x] - g[x] * a <= 5000
  PROVE  LET off == 10000 * SumFunctionOnSet(f, S) - SumFunctionOnSet(g, S) * a
         IN  off >= -(5000 * Cardinality(S)) /\ off <= 5000 * Cardinality(S)
<1> DEFINE Wf(s) == SumFunctionOnSet(f, s)
           Wg(s) == SumFunctionOnSet(g, s)
           Close(s) == /\ 10000 * Wf(s) - Wg(s) * a >= -(5000 * Cardinality(s))
                       /\ 10000 * Wf(s) - Wg(s) * a <= 5000 * Cardinality(s)
           G == {s \in SUBSET S : Close(s)}
<1>1. ASSUME NEW s \in SUBSET S, \A x \in s : s \ {x} \in G PROVE s \in G
  <2>1. IsFiniteSet(s) /\ Cardinality(s) \in Nat
    BY FS_Subset, FS_CardinalityType
  <2>2. CASE s = {}
    <3>1. Wf(s) = 0 /\ Wg(s) = 0 /\ Cardinality(s) = 0
      BY <2>2, SumEmpty, FS_EmptySet
    <3> HIDE DEF Wf, Wg
    <3>2. Close(s)
      BY <3>1
    <3> QED BY <3>2
  <2>3. CASE s # {}
    <3>1. PICK x \in s : TRUE
      BY <2>3
    <3> DEFINE t == s \ {x}
    <3>2. Wf(s) = f[x] + Wf(t) /\ Wg(s) = g[x] + Wg(t)
      <4>1. \A y \in s : f[y] \in Int /\ g[y] \in Int
        OBVIOUS
      <4>2. SumFunctionOnSet(f, s) = f[x] + SumFunctionOnSet(f, s \ {x})
        BY <2>1, <3>1, <4>1, SumRemove
      <4>3. SumFunctionOnSet(g, s) = g[x] + SumFunctionOnSet(g, s \ {x})
        BY <2>1, <3>1, <4>1, SumRemove
      <4> QED BY <4>2, <4>3
    <3>3. Wf(t) \in Int /\ Wg(t) \in Int
      BY SumInt
    <3>4. Cardinality(s) = Cardinality(t) + 1 /\ Cardinality(t) \in Nat
      BY <2>1, <3>1, FS_RemoveElement, FS_CardinalityType, FS_Subset
    <3>5. Close(t)
      BY <1>1
    <3>6. /\ f[x] \in Int /\ g[x] \in Int
          /\ 10000 * f[x] - g[x] * a >= -5000 /\ 10000 * f[x] - g[x] * a <= 5000
      BY <3>1
    <3> DEFINE wf == Wf(t)
               wg == Wg(t)
               c == Cardinality(t)
               u == f[x]
               v == g[x]
               va == v * a
               wa == wg * a
    <3>7. wf \in Int /\ c \in Nat /\ u \in Int /\ va \in Int /\ wa \in Int /\ v \in Int /\ wg \in Int
      BY <3>3, <3>4, <3>6
    <3>8. /\ 10000 * u - va >= -5000 /\ 10000 * u - va <= 5000
          /\ 10000 * wf - wa >= -(5000 * c) /\ 10000 * wf - wa <= 5000 * c
      BY <3>5, <3>6
    <3> HIDE DEF wf, c, u, v, wg
    <3>9. (v + wg) * a = va + wa
      BY <3>7
    <3> HIDE DEF va, wa
    <3>10. /\ 10000 * (u + wf) - (va + wa) >= -(5000 * (c + 1))
           /\ 10000 * (u + wf) - (va + wa) <= 5000 * (c + 1)
      BY <3>7, <3>8
    <3>11. Wf(s) = u + wf /\ Wg(s) * a = va + wa /\ Cardinality(s) = c + 1
      BY <3>2, <3>4, <3>9 DEF u, wf, v, wg, c
    <3> HIDE DEF Wf, Wg, t
    <3>12. Close(s)
      BY <3>10, <3>11
    <3> QED BY <3>12
  <2> QED BY <2>2, <2>3
<1> HIDE DEF G
<1>2. \A s \in SUBSET S : s \in G
  <2>1. \A s \in SUBSET S : (\A x \in s : s \ {x} \in G) => s \in G
    BY <1>1
  <2> QED BY ONLY <2>1, IsFiniteSet(S), SetInduction
<1>3. S \in G
  BY <1>2
<1> QED BY <1>3 DEF G

\* However the parts are rounded, together they are off by less than one each.
LEMMA PartsClose ==
  ASSUME WholeShares, NEW p \in Tops, Kids[p] # <<>>, NEW amount \in Int, NEW part,
         \A i \in {p} \cup KidsOf(p) : part[i] = Part(i, amount)
  PROVE  LET off == SumFunctionOnSet(part, KidsOf(p)) - part[p] IN off \in -Len(Kids[p])..Len(Kids[p])
<1> DEFINE K == KidsOf(p)
           n == Len(Kids[p])
<1>1. IsFiniteSet(K) /\ K \subseteq Ids /\ p \in Ids /\ n \in Nat /\ Cardinality(K) = n
  BY FamilyIs
<1>2. (\A i \in K : Share[i] > 0) /\ SumFunctionOnSet(Share, K) = 10000
  BY DEF WholeShares, KidsOf
<1>3. \A i \in K : part[i] = Part(i, amount)
  OBVIOUS
<1>4. part[p] = amount
  <2>1. Share[p] = 10000
    BY PageAssumption
  <2>2. ShareOf(p) = 10000
    BY <2>1 DEF ShareOf
  <2>3. part[p] = ToFixed(10000 * amount)
    BY <2>2 DEF Part
  <2>4. ToFixed(10000 * amount) = amount
    BY DEF ToFixed
  <2> QED BY <2>3, <2>4
<1> HIDE DEF K, n
<1>5. \A i \in K : ShareOf(i) = Share[i] /\ Share[i] \in Int /\ part[i] \in Int
  <2> TAKE i \in K
  <2>1. i \in Ids /\ Share[i] > 0 /\ Share[i] \in Nat
    BY <1>1, <1>2, PageAssumption
  <2>2. part[i] \in Int
    BY <1>3, <2>1, PartIs
  <2>3. ShareOf(i) = Share[i]
    BY <2>1 DEF ShareOf
  <2> QED BY <2>1, <2>2, <2>3
<1>6. \A i \in K : 10000 * part[i] - Share[i] * amount >= -5000 /\ 10000 * part[i] - Share[i] * amount <= 5000
  <2> TAKE i \in K
  <2> DEFINE off == 10000 * Part(i, amount) - ShareOf(i) * amount
  <2>1. off >= -5000 /\ off <= 5000
    BY <1>1, RoundedIs
  <2>2. off = 10000 * part[i] - Share[i] * amount
    BY <1>3, <1>5
  <2> HIDE DEF off
  <2> QED BY <2>1, <2>2
<1> DEFINE w == SumFunctionOnSet(part, K)
<1>7. w \in Int
  BY <1>1, <1>5, SumInt
<1>8. 10000 * w - 10000 * amount >= -(5000 * n) /\ 10000 * w - 10000 * amount <= 5000 * n
  <2>1. LET off == 10000 * w - SumFunctionOnSet(Share, K) * amount
        IN  off >= -(5000 * Cardinality(K)) /\ off <= 5000 * Cardinality(K)
    BY <1>1, <1>5, <1>6, SumsClose
  <2> QED BY <1>1, <1>2, <2>1
<1> HIDE DEF w
<1>9. w - amount \in -n..n
  BY <1>1, <1>7, <1>8
<1> QED BY <1>4, <1>9 DEF w, K, n

-----------------------------------------------------------------------------
(* the rows after the edit of a month *)

LEMMA MonthsAre == Months \subseteq Columns /\ TotalCol \in Columns /\ TotalCol \notin Months /\ IsFiniteSet(Months)
                   /\ Columns = Months \cup {TotalCol}
<1>1. NMonths \in Nat
  BY PageAssumption
<1>2. IsFiniteSet(1..NMonths)
  BY <1>1, FS_Interval
<1> QED BY <1>1, <1>2 DEF Months, Columns, TotalCol

\* The sum of the months depends on the months only, and with one of them changes
\* by as much as that.
LEMMA SumOfMonthsIs ==
  ASSUME NEW v, NEW w, \A c \in Months : v[c] \in Int /\ w[c] \in Int
  PROVE  /\ SumOfMonths(v) \in Int
         /\ (\A c \in Months : v[c] = w[c]) => SumOfMonths(v) = SumOfMonths(w)
         /\ \A m \in Months : (\A c \in Months \ {m} : v[c] = w[c]) => SumOfMonths(v) - SumOfMonths(w) = v[m] - w[m]
<1>1. IsFiniteSet(Months)
  BY MonthsAre
<1>2. SumFunctionOnSet(v, Months) \in Int
  BY <1>1, SumInt
<1>3. (\A c \in Months : v[c] = w[c]) => SumFunctionOnSet(v, Months) = SumFunctionOnSet(w, Months)
  BY <1>1, SumSame
<1>4. ASSUME NEW m \in Months, \A c \in Months \ {m} : v[c] = w[c]
      PROVE  SumFunctionOnSet(v, Months) - SumFunctionOnSet(w, Months) = v[m] - w[m]
  <2> DEFINE M == Months \ {m}
  <2>1. IsFiniteSet(M) /\ M \in SUBSET Months
    BY <1>1, FS_Subset
  <2>2. SumFunctionOnSet(v, Months) = v[m] + SumFunctionOnSet(v, M)
    BY <1>1, SumRemove
  <2>3. SumFunctionOnSet(w, Months) = w[m] + SumFunctionOnSet(w, M)
    BY <1>1, SumRemove
  <2>4. SumFunctionOnSet(v, M) = SumFunctionOnSet(w, M)
    BY <1>4, <2>1, SumSame
  <2>5. SumFunctionOnSet(w, M) \in Int
    BY <1>1, <2>1, SumInt
  <2> HIDE DEF M
  <2> QED BY <2>2, <2>3, <2>4, <2>5
<1> QED BY <1>2, <1>3, <1>4 DEF SumOfMonths

LEMMA RowWithTotal ==
  ASSUME NEW v, DOMAIN v = Columns, \A c \in Months : v[c] \in Int
  PROVE  /\ WithTotal(v) \in [Columns -> Int] /\ \A c \in Months : WithTotal(v)[c] = v[c]
         /\ WithTotal(v)[TotalCol] = SumOfMonths(v) /\ SumOfMonths(WithTotal(v)) = SumOfMonths(v)
<1> DEFINE w == WithTotal(v)
<1>1. DOMAIN w = Columns /\ \A c \in Months : w[c] = v[c]
  BY WithTotalIs
<1>2. w[TotalCol] = SumOfMonths(v)
  BY MonthsAre DEF WithTotal
<1> HIDE DEF w
<1>3. SumOfMonths(v) \in Int /\ SumOfMonths(w) = SumOfMonths(v)
  BY <1>1, SumOfMonthsIs
<1>4. \A c \in Columns : w[c] \in Int
  BY <1>1, <1>2, <1>3, MonthsAre
<1>5. w = [c \in Columns |-> w[c]]
  BY <1>1 DEF w, WithTotal
<1> QED BY <1>1, <1>2, <1>3, <1>4, <1>5 DEF w

\* A project's accruals are nothing, and its LTS row follows its target.
TargetsRight(v) ==
  \A q \in Tops : /\ v[Row(q, "A")] = [c \in Columns |-> 0]
                  /\ v[Row(q, "L")] = v[Row(q, "T")]
                  /\ v[Row(q, "T")][TotalCol] = SumOfMonths(v[Row(q, "T")])

RowsTyped(v) == v \in [ProjectRows -> [Columns -> Int]]

LEMMA RowsAre ==
  /\ \A i \in Ids : Row(i, "F") \in ProjectRows /\ Row(i, "F").id = i /\ Row(i, "F").type = "F"
  /\ \A q \in Tops, t \in Types : Row(q, t) \in ProjectRows /\ Row(q, t).id = q /\ Row(q, t).type = t
  /\ \A r \in ProjectRows : \/ \E i \in Ids : r = Row(i, "F")
                            \/ \E q \in Tops : r = Row(q, "T") \/ r = Row(q, "A") \/ r = Row(q, "L")
  /\ IsFiniteSet(ProjectRows)
<1>1. \A i \in Ids : Row(i, "F") \in ProjectRows /\ Row(i, "F").id = i /\ Row(i, "F").type = "F"
  BY DEF ProjectRows, Row
<1>2. \A q \in Tops, t \in Types : Row(q, t) \in ProjectRows /\ Row(q, t).id = q /\ Row(q, t).type = t
  <2> TAKE q \in Tops, t \in Types
  <2>1. Row(q, t) \in ProjectRows
    BY DEF ProjectRows, Row
  <2> QED BY <2>1 DEF Row
<1>3. \A r \in ProjectRows : \/ \E i \in Ids : r = Row(i, "F")
                             \/ \E q \in Tops : r = Row(q, "T") \/ r = Row(q, "A") \/ r = Row(q, "L")
  <2>1. Tops \subseteq Ids
    BY DEF Ids
  <2>2. Types = {"F", "T", "A", "L"}
    BY DEF Types
  <2> QED BY <2>1, <2>2 DEF ProjectRows
<1>4. IsFiniteSet(ProjectRows)
  <2> DEFINE R(t) == {Row(i, t) : i \in Ids}
  <2>1. ASSUME NEW t PROVE IsFiniteSet(R(t))
    <3> DEFINE f == [i \in Ids |-> Row(i, t)]
    <3>1. f \in Surjection(Ids, R(t))
      BY DEF Surjection
    <3> QED BY <3>1, IdsAre, FS_Surjection DEF ExistsSurjection
  <2>2. IsFiniteSet(R("F") \cup R("T")) /\ IsFiniteSet(R("A") \cup R("L"))
    BY <2>1, FS_Union
  <2>3. IsFiniteSet((R("F") \cup R("T")) \cup (R("A") \cup R("L")))
    BY <2>2, FS_Union
  <2>4. ProjectRows \subseteq (R("F") \cup R("T")) \cup (R("A") \cup R("L"))
    BY <1>3, IdsAre
  <2> QED BY <2>3, <2>4, FS_Subset
<1> QED BY <1>1, <1>2, <1>3, <1>4

LEMMA EditMonthRows ==
  ASSUME NEW d, DOMAIN d = {"val", "active", "multi", "planned", "map", "total"},
         RowsTyped(d.val), TargetsRight(d.val),
         NEW p \in Tops, NEW m \in Months, NEW amount \in Int
  PROVE  LET e == EditMonth(d, p, m, amount)
             family == ToSet(Family(p))
         IN  /\ e = [d EXCEPT !.val = e.val] /\ RowsTyped(e.val) /\ TargetsRight(e.val)
             /\ \A i \in Ids :
                  IF i \in family
                  THEN e.val[Row(i, "F")][TotalCol] - SumOfMonths(e.val[Row(i, "F")])
                         = Part(i, amount) - Parts(d, p, amount)[i]
                  ELSE e.val[Row(i, "F")] = d.val[Row(i, "F")]
<1> DEFINE e == EditMonth(d, p, m, amount)
           parts == Parts(d, p, amount)
           family == ToSet(Family(p))
           T == d.val[Row(p, "T")]
           L == d.val[Row(p, "L")]
           A == d.val[Row(p, "A")]
           target == IF m \in FreeMonths THEN WithTotal([T EXCEPT ![m] = amount]) ELSE T
           lts == WithTotal([L EXCEPT ![m] = target[m] - A[m]])
           forecast(i) == [WithTotal([d.val[Row(i, "F")] EXCEPT ![m] = Part(i, amount)]) EXCEPT ![m] = parts[i]]
           val == [r \in ProjectRows |->
                     CASE r.id \in family /\ r.type = "F" -> forecast(r.id)
                       [] r = Row(p, "T") -> target
                       [] r = Row(p, "L") -> lts
                       [] OTHER -> d.val[r]]
<1>1. e = [d EXCEPT !.val = val]
  <2>1. DOMAIN d.val = ProjectRows
    BY DEF RowsTyped
  <2> QED BY <2>1 DEF EditMonth
<1>2. \A r \in ProjectRows : DOMAIN d.val[r] = Columns /\ \A c \in Columns : d.val[r][c] \in Int
  BY DEF RowsTyped
<1>3. m \in Columns /\ m # TotalCol /\ Months \subseteq Columns /\ TotalCol \in Columns /\ TotalCol \notin Months
      /\ Columns = Months \cup {TotalCol}
  BY MonthsAre
<1>4. /\ DOMAIN T = Columns /\ (\A c \in Columns : T[c] \in Int) /\ T[TotalCol] = SumOfMonths(T)
      /\ L = T /\ \A c \in Columns : A[c] = 0
  BY <1>2, RowsAre DEF TargetsRight, Types
<1>5. T = [c \in Columns |-> T[c]]
  BY RowsAre DEF RowsTyped, Types
<1> HIDE DEF T, L, A
<1>6. /\ target \in [Columns -> Int] /\ target[TotalCol] = SumOfMonths(target)
      /\ \A c \in Months \ {m} : target[c] = T[c]
  <2>1. CASE m \in FreeMonths
    <3> DEFINE v == [T EXCEPT ![m] = amount]
    <3>1. DOMAIN v = Columns /\ \A c \in Months : v[c] = IF c = m THEN amount ELSE T[c]
      BY <1>3, <1>4
    <3>2. \A c \in Months : v[c] \in Int
      BY <1>3, <1>4, <3>1
    <3> HIDE DEF v
    <3>3. /\ WithTotal(v) \in [Columns -> Int] /\ \A c \in Months : WithTotal(v)[c] = v[c]
          /\ WithTotal(v)[TotalCol] = SumOfMonths(v) /\ SumOfMonths(WithTotal(v)) = SumOfMonths(v)
      BY <3>1, <3>2, RowWithTotal
    <3>4. target = WithTotal(v)
      BY <2>1 DEF v
    <3> QED BY <3>1, <3>3, <3>4
  <2>2. CASE m \notin FreeMonths
    BY <1>4, <1>5, <2>2
  <2> QED BY <2>1, <2>2
<1> HIDE DEF target
<1>7. lts = target
  <2> DEFINE v == [L EXCEPT ![m] = target[m] - A[m]]
  <2>1. target[m] - A[m] = target[m]
    BY <1>3, <1>4, <1>6
  <2>2. DOMAIN v = Columns /\ \A c \in Months : v[c] = target[c]
    BY <1>3, <1>4, <1>6, <2>1
  <2>3. \A c \in Months : v[c] \in Int /\ target[c] \in Int
    BY <1>3, <1>6, <2>2
  <2> HIDE DEF v
  <2>4. WithTotal(v) \in [Columns -> Int] /\ (\A c \in Months : WithTotal(v)[c] = v[c])
        /\ WithTotal(v)[TotalCol] = SumOfMonths(v)
    BY <2>2, <2>3, RowWithTotal
  <2>5. SumOfMonths(v) = SumOfMonths(target)
    BY <2>2, <2>3, SumOfMonthsIs
  <2>6. \A c \in Columns : WithTotal(v)[c] = target[c]
    BY <1>3, <1>6, <2>2, <2>4, <2>5
  <2>7. WithTotal(v) = target
    BY <1>6, <2>4, <2>6
  <2> QED BY <2>7 DEF v
<1> HIDE DEF lts
<1>8. family \subseteq Ids /\ \A i \in family : Part(i, amount) \in Int /\ parts[i] \in Int
  <2>1. family \subseteq Ids
    BY FamilyIs
  <2>2. parts \in [family -> Int]
    BY PartsTyped
  <2> HIDE DEF parts, family
  <2> QED BY <2>1, <2>2, PartIs
<1> HIDE DEF parts, family
<1>9. \A i \in family : /\ forecast(i) \in [Columns -> Int]
                        /\ forecast(i)[TotalCol] - SumOfMonths(forecast(i)) = Part(i, amount) - parts[i]
  <2> TAKE i \in family
  <2> DEFINE u == d.val[Row(i, "F")]
             a == Part(i, amount)
             b == parts[i]
             v == [u EXCEPT ![m] = a]
             w == WithTotal(v)
             f == [w EXCEPT ![m] = b]
  <2>1. DOMAIN u = Columns /\ (\A c \in Columns : u[c] \in Int) /\ a \in Int /\ b \in Int
    BY <1>2, <1>8, RowsAre
  <2> HIDE DEF u, a, b
  <2>2. DOMAIN v = Columns /\ v[m] = a /\ \A c \in Months : v[c] \in Int
    BY <1>3, <2>1
  <2> HIDE DEF v
  <2>3. /\ w \in [Columns -> Int] /\ (\A c \in Months : w[c] = v[c])
        /\ w[TotalCol] = SumOfMonths(v) /\ SumOfMonths(w) = SumOfMonths(v)
    BY <2>2, RowWithTotal
  <2> HIDE DEF w
  <2>4. f \in [Columns -> Int] /\ f[TotalCol] = w[TotalCol] /\ f[m] = b /\ \A c \in Months \ {m} : f[c] = w[c]
    BY <1>3, <2>1, <2>3
  <2> HIDE DEF f
  <2>5. \A c \in Months : f[c] \in Int /\ w[c] \in Int
    BY <1>3, <2>3, <2>4
  <2>6. SumOfMonths(f) - SumOfMonths(w) = f[m] - w[m]
    BY <2>4, <2>5, SumOfMonthsIs
  <2>7. SumOfMonths(f) \in Int /\ SumOfMonths(w) \in Int
    BY <2>5, SumOfMonthsIs
  <2>8. w[m] = a
    BY <2>2, <2>3
  <2>9. f[TotalCol] - SumOfMonths(f) = a - b
    BY <2>1, <2>3, <2>4, <2>6, <2>7, <2>8
  <2>10. forecast(i) = f
    BY DEF f, w, v, u, a, b
  <2> HIDE DEF forecast
  <2> QED BY <2>4, <2>9, <2>10 DEF a, b
<1> HIDE DEF forecast
<1>10. \A i \in Ids : val[Row(i, "F")] = IF i \in family THEN forecast(i) ELSE d.val[Row(i, "F")]
  <2> TAKE i \in Ids
  <2>1. Row(i, "F") \in ProjectRows /\ Row(i, "F").id = i /\ Row(i, "F").type = "F"
    BY RowsAre
  <2>2. Row(p, "T").type = "T" /\ Row(p, "L").type = "L"
    BY DEF Row
  <2>3. Row(i, "F") # Row(p, "T") /\ Row(i, "F") # Row(p, "L")
    BY <2>1, <2>2
  <2>4. CASE i \in family
    BY <2>1, <2>3, <2>4
  <2>5. CASE i \notin family
    BY <2>1, <2>3, <2>5
  <2> QED BY <2>4, <2>5
<1>11. \A q \in Tops : /\ val[Row(q, "A")] = d.val[Row(q, "A")]
                       /\ val[Row(q, "T")] = IF q = p THEN target ELSE d.val[Row(q, "T")]
                       /\ val[Row(q, "L")] = IF q = p THEN lts ELSE d.val[Row(q, "L")]
  <2> TAKE q \in Tops
  <2>1. \A t \in Types : Row(q, t) \in ProjectRows /\ Row(q, t).id = q /\ Row(q, t).type = t
                         /\ Row(p, t).id = p /\ Row(p, t).type = t
    BY RowsAre
  <2>2. "A" \in Types /\ "T" \in Types /\ "L" \in Types
    BY DEF Types
  <2>3. val[Row(q, "A")] = d.val[Row(q, "A")]
    <3>1. Row(q, "A") # Row(p, "T") /\ Row(q, "A") # Row(p, "L") /\ Row(q, "A").type # "F" /\ Row(q, "A") \in ProjectRows
      BY <2>1, <2>2
    <3> QED BY <3>1
  <2>4. val[Row(q, "T")] = IF q = p THEN target ELSE d.val[Row(q, "T")]
    <3>1. Row(q, "T") # Row(p, "L") /\ Row(q, "T").type # "F" /\ Row(q, "T") \in ProjectRows
          /\ (Row(q, "T") = Row(p, "T") <=> q = p)
      BY <2>1, <2>2
    <3>2. CASE q = p
      BY <3>1, <3>2
    <3>3. CASE q # p
      BY <3>1, <3>3
    <3> QED BY <3>2, <3>3
  <2>5. val[Row(q, "L")] = IF q = p THEN lts ELSE d.val[Row(q, "L")]
    <3>1. Row(q, "L") # Row(p, "T") /\ Row(q, "L").type # "F" /\ Row(q, "L") \in ProjectRows
          /\ (Row(q, "L") = Row(p, "L") <=> q = p)
      BY <2>1, <2>2
    <3>2. CASE q = p
      BY <3>1, <3>2
    <3>3. CASE q # p
      BY <3>1, <3>3
    <3> QED BY <3>2, <3>3
  <2> QED BY <2>3, <2>4, <2>5
<1>12. DOMAIN val = ProjectRows /\ val = [r \in ProjectRows |-> val[r]]
  OBVIOUS
<1> HIDE DEF val
<1>13. RowsTyped(val)
  <2>1. ASSUME NEW r \in ProjectRows PROVE val[r] \in [Columns -> Int]
    <3>1. d.val[r] \in [Columns -> Int]
      BY DEF RowsTyped
    <3> QED BY <1>6, <1>7, <1>9, <1>10, <1>11, <3>1, RowsAre
  <2> QED BY <1>12, <2>1 DEF RowsTyped
<1>14. TargetsRight(val)
  BY <1>6, <1>7, <1>11 DEF TargetsRight
<1>15. e.val = val
  BY <1>1
<1>16. \A i \in Ids : IF i \in family THEN val[Row(i, "F")][TotalCol] - SumOfMonths(val[Row(i, "F")]) = Part(i, amount) - parts[i]
                      ELSE val[Row(i, "F")] = d.val[Row(i, "F")]
  BY <1>9, <1>10
<1> QED BY <1>1, <1>13, <1>14, <1>15, <1>16 DEF e, parts, family

-----------------------------------------------------------------------------
(* what the rows of a project and of a family come to *)

RowClose(v, r) ==
  LET off == v[r][TotalCol] - SumOfMonths(v[r])
      n == Len(Kids[Parent(r.id)])
  IN  IF r.type = "F" /\ r.id = Last(Family(Parent(r.id))) THEN off \in -n..n ELSE off = 0
RowsClose(v) == \A r \in ProjectRows : RowClose(v, r)

LEMMA EditKeepsRows ==
  ASSUME WholeShares, NEW d, DOMAIN d = {"val", "active", "multi", "planned", "map", "total"},
         RowsTyped(d.val), TargetsRight(d.val), RowsClose(d.val),
         NEW p \in Tops, NEW m \in Months, NEW amount \in Int
  PROVE  RowsClose(EditMonth(d, p, m, amount).val)
<1> DEFINE v == EditMonth(d, p, m, amount).val
           family == ToSet(Family(p))
           parts == Parts(d, p, amount)
           last == Last(Family(p))
           n == Len(Kids[p])
<1>1. /\ RowsTyped(v) /\ TargetsRight(v)
      /\ \A i \in Ids : IF i \in family THEN v[Row(i, "F")][TotalCol] - SumOfMonths(v[Row(i, "F")]) = Part(i, amount) - parts[i]
                        ELSE v[Row(i, "F")] = d.val[Row(i, "F")]
  BY EditMonthRows
<1> HIDE DEF v
<1>2. ASSUME NEW i \in Ids, i \in family PROVE RowClose(v, Row(i, "F"))
  <2>1. /\ family = {p} \cup KidsOf(p) /\ p \notin KidsOf(p) /\ Parent(i) = p /\ n \in Nat
        /\ (Kids[p] # <<>> => last \in KidsOf(p)) /\ (Kids[p] = <<>> => last = p /\ KidsOf(p) = {} /\ n = 0)
    <3>1. /\ family = {p} \cup KidsOf(p) /\ p \notin KidsOf(p) /\ n \in Nat
          /\ (Kids[p] # <<>> => last \in KidsOf(p)) /\ (Kids[p] = <<>> => last = p /\ KidsOf(p) = {})
      BY FamilyIs
    <3>2. Parent(i) = p
      BY <1>2, <3>1, IdsAre
    <3> QED BY <3>1, <3>2
  <2> DEFINE part == [j \in family |-> Part(j, amount)]
             off == Part(i, amount) - parts[i]
  <2>2. /\ parts \in [family -> Int] /\ part \in [family -> Int]
        /\ parts[i] = part[i] \/ (i = last /\ Kids[p] # <<>> /\ d.multi[p])
        /\ (Kids[p] # <<>> /\ d.multi[p]) =>
             part[last] - parts[last] = SumFunctionOnSet(part, KidsOf(p)) - part[p]
    <3>1. part = [j \in ToSet(Family(p)) |-> Part(j, amount)]
      OBVIOUS
    <3> HIDE DEF part, parts, family, last
    <3>2. Parts(d, p, amount) \in [ToSet(Family(p)) -> Int]
      BY PartsTyped
    <3>3. (Kids[p] # <<>> /\ d.multi[p]) =>
            part[Last(Family(p))] - Parts(d, p, amount)[Last(Family(p))] = SumFunctionOnSet(part, KidsOf(p)) - part[p]
      BY ONLY <3>1, p \in Tops, amount \in Int, PartsAdd
    <3>4. part \in [ToSet(Family(p)) -> Int]
      BY ONLY <3>1, p \in Tops, amount \in Int, PartsAdd
    <3>5. Parts(d, p, amount)[i] = part[i] \/ (i = Last(Family(p)) /\ Kids[p] # <<>> /\ d.multi[p])
      BY <1>2, <3>1, PartsAdd DEF family
    <3> QED BY <3>2, <3>3, <3>4, <3>5 DEF parts, family, last
  <2>3. part[i] = Part(i, amount) /\ part[i] \in Int /\ parts[i] \in Int
    BY <1>2, <2>2
  <2>4. \A j \in {p} \cup KidsOf(p) : part[j] = Part(j, amount)
    BY <2>1
  <2> HIDE DEF part, parts, family, last
  <2>5. IF i = last THEN off \in -n..n ELSE off = 0
    <3>1. CASE parts[i] = part[i]
      <4>1. off = 0
        BY <2>3, <3>1
      <4> QED BY <2>1, <4>1
    <3>2. CASE i = last /\ Kids[p] # <<>> /\ d.multi[p]
      <4>1. off = SumFunctionOnSet(part, KidsOf(p)) - part[p]
        BY <2>2, <2>3, <3>2
      <4>2. SumFunctionOnSet(part, KidsOf(p)) - part[p] \in -n..n
        BY <2>4, <3>2, PartsClose
      <4> QED BY <3>2, <4>1, <4>2
    <3> QED BY <2>2, <3>1, <3>2
  <2>6. v[Row(i, "F")][TotalCol] - SumOfMonths(v[Row(i, "F")]) = off
    BY <1>1, <1>2
  <2>7. Row(i, "F").id = i /\ Row(i, "F").type = "F"
    BY RowsAre
  <2> HIDE DEF off, n
  <2>8. RowClose(v, Row(i, "F")) <=> IF i = last THEN off \in -n..n ELSE off = 0
    BY <2>1, <2>6, <2>7 DEF RowClose, last, n
  <2> QED BY <2>5, <2>8
<1>3. ASSUME NEW i \in Ids, i \notin family PROVE RowClose(v, Row(i, "F"))
  <2>1. RowClose(d.val, Row(i, "F"))
    BY RowsAre DEF RowsClose
  <2> QED BY <1>1, <1>3, <2>1 DEF RowClose
<1>4. ASSUME NEW q \in Tops PROVE RowClose(v, Row(q, "T")) /\ RowClose(v, Row(q, "A")) /\ RowClose(v, Row(q, "L"))
  <2>1. \A t \in Types : Row(q, t) \in ProjectRows /\ Row(q, t).type = t
    BY RowsAre
  <2>2. "T" \in Types /\ "A" \in Types /\ "L" \in Types
    BY DEF Types
  <2>3. v[Row(q, "T")][TotalCol] - SumOfMonths(v[Row(q, "T")]) = 0
    <3>1. v[Row(q, "T")][TotalCol] = SumOfMonths(v[Row(q, "T")]) /\ v[Row(q, "T")][TotalCol] \in Int
      BY <1>1, <2>1, <2>2, MonthsAre DEF TargetsRight, RowsTyped
    <3> QED BY <3>1
  <2>4. v[Row(q, "L")] = v[Row(q, "T")] /\ v[Row(q, "A")] = d.val[Row(q, "A")]
    BY <1>1 DEF TargetsRight
  <2>5. d.val[Row(q, "A")][TotalCol] - SumOfMonths(d.val[Row(q, "A")]) = 0
    BY <2>1, <2>2 DEF RowsClose, RowClose
  <2> QED BY <2>1, <2>2, <2>3, <2>4, <2>5 DEF RowClose
<1>5. RowsClose(v)
  BY <1>2, <1>3, <1>4, RowsAre DEF RowsClose
<1> QED BY <1>5 DEF v

\* In every month the sub-projects of a project make up what it has.
AddsUp(w) ==
  \A q \in Tops, m \in Months : Kids[q] # <<>> => w[q][m] = SumFunctionOnSet([i \in Ids |-> w[i][m]], KidsOf(q))

\* The months that are shown, as the server keeps them.
Forecasts(v) == [i \in Ids |-> [m \in Months |-> v[Row(i, "F")][m]]]

\* What is saved of a month of a project.
PartsOK(single, p, m, parts) ==
  /\ parts \in [ToSet(Family(p)) -> Int] /\ m \in Months
  /\ single \/ Kids[p] = <<>> \/ parts[p] = SumFunctionOnSet(parts, KidsOf(p))

\* The amounts after the month m of the project p has got these parts.
WithParts(w, p, m, parts) ==
  [i \in Ids |-> IF i \in ToSet(Family(p)) THEN [w[i] EXCEPT ![m] = parts[i]] ELSE w[i]]

LEMMA MonthAddsUp ==
  ASSUME NEW w \in [Ids -> [Months -> Int]], NEW single, single \/ AddsUp(w),
         NEW p \in Tops, NEW m, NEW parts, PartsOK(single, p, m, parts)
  PROVE  LET u == WithParts(w, p, m, parts) IN u \in [Ids -> [Months -> Int]] /\ (single \/ AddsUp(u))
<1> DEFINE u == WithParts(w, p, m, parts)
           family == ToSet(Family(p))
<1>1. /\ m \in Months /\ family = {p} \cup KidsOf(p) /\ family \subseteq Ids
      /\ \A i \in family : parts[i] \in Int
  BY FamilyIs DEF PartsOK
<1>2. \A i \in Ids, c \in Months : u[i][c] = IF i \in family /\ c = m THEN parts[i] ELSE w[i][c]
  BY <1>1 DEF WithParts
<1>3. u \in [Ids -> [Months -> Int]]
  <2>1. ASSUME NEW i \in Ids PROVE u[i] \in [Months -> Int]
    <3>1. u[i] = IF i \in family THEN [w[i] EXCEPT ![m] = parts[i]] ELSE w[i]
      BY DEF WithParts
    <3>2. w[i] \in [Months -> Int]
      OBVIOUS
    <3> QED BY <1>1, <3>1, <3>2
  <2> QED BY <2>1 DEF WithParts
<1>4. ASSUME ~single PROVE AddsUp(u)
  <2> SUFFICES ASSUME NEW q \in Tops, NEW c \in Months, Kids[q] # <<>>
               PROVE  u[q][c] = SumFunctionOnSet([i \in Ids |-> u[i][c]], KidsOf(q))
    BY DEF AddsUp
  <2> DEFINE f == [i \in Ids |-> u[i][c]]
             g == [i \in Ids |-> w[i][c]]
  <2>1. w[q][c] = SumFunctionOnSet(g, KidsOf(q))
    BY <1>4 DEF AddsUp
  <2>2. q \in Ids /\ KidsOf(q) \subseteq Ids /\ IsFiniteSet(KidsOf(q))
    BY FamilyIs
  <2>3. CASE q = p /\ c = m
    <3>1. parts[p] = SumFunctionOnSet(parts, KidsOf(p))
      BY <1>4, <2>3 DEF PartsOK
    <3>2. u[q][c] = parts[p] /\ \A i \in KidsOf(q) : f[i] = parts[i]
      BY <1>1, <1>2, <2>2, <2>3
    <3> HIDE DEF f
    <3>3. SumFunctionOnSet(f, KidsOf(q)) = SumFunctionOnSet(parts, KidsOf(q))
      BY <2>2, <3>2, SumSame
    <3> QED BY <2>3, <3>1, <3>2, <3>3 DEF f
  <2>4. CASE q # p \/ c # m
    <3>1. \A i \in {q} \cup KidsOf(q) : i \in Ids /\ ~(i \in family /\ c = m)
      BY <1>1, <2>2, <2>4, IdsAre
    <3>2. u[q][c] = w[q][c] /\ \A i \in KidsOf(q) : f[i] = g[i]
      BY <1>2, <3>1
    <3> HIDE DEF f, g
    <3>3. SumFunctionOnSet(f, KidsOf(q)) = SumFunctionOnSet(g, KidsOf(q))
      BY <2>2, <3>2, SumSame
    <3> QED BY <2>1, <3>2, <3>3 DEF f
  <2> QED BY <2>3, <2>4
<1> QED BY <1>3, <1>4 DEF u

LEMMA ForecastsAre == ASSUME NEW v, RowsTyped(v) PROVE Forecasts(v) \in [Ids -> [Months -> Int]]
<1>1. \A i \in Ids, m \in Months : v[Row(i, "F")][m] \in Int
  BY RowsAre, MonthsAre DEF RowsTyped
<1> QED BY <1>1 DEF Forecasts

\* The edit of a month sets the parts of it, which are saved.
LEMMA EditSetsParts ==
  ASSUME NEW d, DOMAIN d = {"val", "active", "multi", "planned", "map", "total"}, RowsTyped(d.val),
         NEW p \in Tops, NEW m \in Months, NEW amount \in Int, NEW single, single \/ Kids[p] = <<>> \/ d.multi[p]
  PROVE  LET parts == Parts(d, p, amount)
         IN  /\ PartsOK(single, p, m, parts)
             /\ Forecasts(EditMonth(d, p, m, amount).val) = WithParts(Forecasts(d.val), p, m, parts)
<1> DEFINE v == EditMonth(d, p, m, amount).val
           parts == Parts(d, p, amount)
           family == ToSet(Family(p))
           w == Forecasts(d.val)
<1>1. PartsOK(single, p, m, parts)
  <2> DEFINE part == [i \in ToSet(Family(p)) |-> Part(i, amount)]
  <2>1. part = [i \in ToSet(Family(p)) |-> Part(i, amount)]
    OBVIOUS
  <2> HIDE DEF part
  <2>2. /\ parts \in [ToSet(Family(p)) -> Int]
        /\ (Kids[p] # <<>> /\ d.multi[p]) => parts[p] = SumFunctionOnSet(parts, KidsOf(p))
    BY <2>1, PartsAdd
  <2> QED BY <2>2 DEF PartsOK
<1>2. DOMAIN d.val = ProjectRows /\ \A r \in ProjectRows : DOMAIN d.val[r] = Columns
  BY DEF RowsTyped
<1>3. \A i \in Ids, c \in Months :
        v[Row(i, "F")][c] = IF i \in family /\ c = m THEN parts[i] ELSE d.val[Row(i, "F")][c]
  BY <1>2, EditMonthIs
<1> HIDE DEF v, parts, family
<1>4. \A i \in Ids : DOMAIN w[i] = Months /\ \A c \in Months : w[i][c] = d.val[Row(i, "F")][c]
  BY DEF Forecasts
<1>5. ASSUME NEW i \in Ids
      PROVE  [c \in Months |-> v[Row(i, "F")][c]] = IF i \in family THEN [w[i] EXCEPT ![m] = parts[i]] ELSE w[i]
  <2>1. w[i] = [c \in Months |-> d.val[Row(i, "F")][c]]
    BY DEF Forecasts
  <2> HIDE DEF w
  <2>2. CASE i \in family
    BY <1>3, <2>1, <2>2
  <2>3. CASE i \notin family
    BY <1>3, <2>1, <2>3
  <2> QED BY <2>2, <2>3
<1>6. Forecasts(v) = WithParts(w, p, m, parts)
  <2> HIDE DEF w
  <2> QED BY <1>5 DEF Forecasts, WithParts, family
<1> QED BY <1>1, <1>6 DEF v, parts, w

-----------------------------------------------------------------------------
(* the total rows *)

LEMMA SumOfRows ==
  ASSUME NEW S \in SUBSET Ids, NEW t, NEW g, NEW h, \A i \in S : h[i] = g[Row(i, t)] /\ h[i] \in Int
  PROVE  SumFunctionOnSet(g, {Row(i, t) : i \in S}) = SumFunctionOnSet(h, S)
<1> DEFINE R(s) == {Row(i, t) : i \in s}
           G == {s \in SUBSET S : SumFunctionOnSet(g, R(s)) = SumFunctionOnSet(h, s)}
<1>1. \A i, j : Row(i, t) = Row(j, t) => i = j
  BY DEF Row
<1>2. IsFiniteSet(S)
  BY IdsAre, FS_Subset
<1>3. ASSUME NEW s \in SUBSET S PROVE IsFiniteSet(s) /\ IsFiniteSet(R(s))
  <2>1. IsFiniteSet(s)
    BY <1>2, FS_Subset
  <2> DEFINE f == [i \in s |-> Row(i, t)]
  <2>2. f \in Surjection(s, R(s))
    BY DEF Surjection
  <2> QED BY <2>1, <2>2, FS_Surjection DEF ExistsSurjection
<1>4. ASSUME NEW s \in SUBSET S, \A x \in s : s \ {x} \in G PROVE s \in G
  <2>1. CASE s = {}
    <3>1. R(s) = {}
      BY <2>1
    <3> HIDE DEF R
    <3>2. SumFunctionOnSet(g, R(s)) = 0 /\ SumFunctionOnSet(h, s) = 0
      BY <2>1, <3>1, SumEmpty
    <3> QED BY <3>2
  <2>2. CASE s # {}
    <3>1. PICK x \in s : TRUE
      BY <2>2
    <3> DEFINE u == s \ {x}
    <3>2. R(u) = R(s) \ {Row(x, t)} /\ Row(x, t) \in R(s)
      BY <1>1, <3>1
    <3>3. \A r \in R(s) : g[r] \in Int
      BY <3>1
    <3>4. u \in G
      BY <1>4, <3>1
    <3>5. SumFunctionOnSet(g, R(u)) = SumFunctionOnSet(h, u)
      BY <3>4
    <3> HIDE DEF R
    <3>6. SumFunctionOnSet(g, R(s)) = g[Row(x, t)] + SumFunctionOnSet(g, R(s) \ {Row(x, t)})
      BY <1>3, <3>2, <3>3, SumRemove
    <3>7. SumFunctionOnSet(h, s) = h[x] + SumFunctionOnSet(h, s \ {x})
      BY <1>3, <3>1, SumRemove
    <3>8. h[x] = g[Row(x, t)]
      BY <3>1
    <3>9. SumFunctionOnSet(g, R(s)) = SumFunctionOnSet(h, s)
      BY <3>2, <3>5, <3>6, <3>7, <3>8
    <3> QED BY <3>9
  <2> QED BY <2>1, <2>2
<1> HIDE DEF G
<1>5. \A s \in SUBSET S : s \in G
  BY ONLY <1>2, <1>4, SetInduction
<1>6. S \in G
  BY <1>5
<1> QED BY <1>6 DEF G

LEMMA SumOfNothing ==
  ASSUME NEW S, IsFiniteSet(S), NEW f, \A x \in S : f[x] = 0
  PROVE  SumFunctionOnSet(f, S) = 0
<1> DEFINE G == {s \in SUBSET S : SumFunctionOnSet(f, s) = 0}
<1>1. ASSUME NEW s \in SUBSET S, \A x \in s : s \ {x} \in G PROVE s \in G
  <2>1. CASE s = {}
    BY <2>1, SumEmpty
  <2>2. CASE s # {}
    <3>1. PICK x \in s : TRUE
      BY <2>2
    <3>2. IsFiniteSet(s) /\ \A y \in s : f[y] \in Int
      BY FS_Subset
    <3>3. SumFunctionOnSet(f, s) = f[x] + SumFunctionOnSet(f, s \ {x})
      BY <3>1, <3>2, SumRemove
    <3>4. SumFunctionOnSet(f, s \ {x}) = 0 /\ f[x] = 0
      BY <1>1, <3>1
    <3> QED BY <3>3, <3>4
  <2> QED BY <2>1, <2>2
<1> HIDE DEF G
<1>2. \A s \in SUBSET S : s \in G
  BY ONLY <1>1, IsFiniteSet(S), SetInduction
<1> QED BY <1>2 DEF G

\* The rows that the filter remembers belong to what is searched for.
MapWithin(map, query) ==
  /\ map \subseteq ProjectRows \cup {TotalRow(t) : t \in Types}
  /\ \A r \in map : r \in ProjectRows => Matches(query, r.id)

\* With "All" it remembers all of them, otherwise at least the forecasts.
MapRight(map, query, radio) ==
  /\ MapWithin(map, query) /\ TotalRow("F") \in map
  /\ \A i \in Ids : Matches(query, i) => Row(i, "F") \in map
  /\ radio = "All" => /\ \A q \in Tops, t \in Types : Matches(query, q) => Row(q, t) \in map
                      /\ \A t \in Types : TotalRow(t) \in map

Found(query) == {i \in Ids : Matches(query, i)}
Once(query) == {i \in Found(query) : Parent(i) = i \/ Parent(i) \notin Found(query)}
SumRow(v, t, ids) == [c \in Columns |-> SumFunction([i \in ids |-> v[Row(i, t)][c]])]
TotalsRight(v, total, query, radio) ==
  /\ total["F"] = SumRow(v, "F", Once(query))
  /\ radio = "All" => /\ total["T"] = SumRow(v, "T", Found(query) \cap Tops)
                      /\ total["L"] = SumRow(v, "L", Found(query) \cap Tops)

LEMMA RefreshRemembers ==
  ASSUME NEW d, DOMAIN d = {"val", "active", "multi", "planned", "map", "total"}, NEW query, MapWithin(d.map, query), NEW radio
  PROVE  LET e == Refresh(d, query, radio)
         IN  e = [d EXCEPT !.map = e.map] /\ MapRight(e.map, query, radio)
<1> DEFINE shown(t) == radio = "All" \/ t = "F"
           rows == {r \in ProjectRows : shown(r.type) /\ Matches(query, r.id)}
           totals == {TotalRow(t) : t \in {t \in Types : shown(t)}}
           map == d.map \cup rows \cup totals
<1>1. Refresh(d, query, radio) = [d EXCEPT !.map = map]
  BY DEF Refresh
<1>2. rows \subseteq ProjectRows /\ totals \subseteq {TotalRow(t) : t \in Types}
  OBVIOUS
<1>3. "Total" \notin Ids
  BY PageAssumption
<1>4. \A t \in Types : TotalRow(t) \notin ProjectRows
  <2>1. \A r \in ProjectRows : r.id \in Ids
    BY RowsAre, IdsAre DEF Types
  <2>2. \A t : TotalRow(t).id = "Total"
    BY DEF TotalRow, Row
  <2> QED BY <1>3, <2>1, <2>2
<1>5. MapWithin(map, query)
  <2>1. \A r \in rows : Matches(query, r.id)
    OBVIOUS
  <2>2. \A r \in totals : r \notin ProjectRows
    BY <1>4
  <2> HIDE DEF rows, totals
  <2> QED BY <1>2, <2>1, <2>2 DEF MapWithin
<1>6. \A t \in Types : shown(t) => TotalRow(t) \in totals
  OBVIOUS
<1>7. /\ \A i \in Ids : Matches(query, i) => Row(i, "F") \in rows
      /\ \A q \in Tops, t \in Types : shown(t) /\ Matches(query, q) => Row(q, t) \in rows
  BY RowsAre
<1>8. "F" \in Types
  BY DEF Types
<1> HIDE DEF rows, totals
<1>9. MapRight(map, query, radio)
  BY <1>5, <1>6, <1>7, <1>8 DEF MapRight
<1> HIDE DEF map
<1> QED BY <1>1, <1>9

LEMMA MapKept ==
  ASSUME NEW map, NEW query, MapWithin(map, query)
  PROVE  MapWithin(map, NoQuery)
BY DEF MapWithin, Matches

LEMMA EmptyMap == ASSUME NEW query PROVE MapWithin({}, query)
BY DEF MapWithin

LEMMA CountedAre ==
  ASSUME NEW d, NEW query, NEW radio, MapRight(d.map, query, radio)
  PROVE  /\ Counted(d, "F") = {Row(i, "F") : i \in Once(query)}
         /\ radio = "All" => Counted(d, "T") = {Row(i, "T") : i \in Found(query) \cap Tops}
         /\ Counted(d, "A") \subseteq {Row(q, "A") : q \in Tops}
<1>1. \A i, t : Row(i, t).id = i /\ Row(i, t).type = t
  BY DEF Row
<1>2. ASSUME NEW r \in d.map, r.id # "Total" PROVE r \in ProjectRows /\ Matches(query, r.id)
  <2>1. \A t : TotalRow(t).id = "Total"
    BY DEF TotalRow, Row
  <2> QED BY <1>2, <2>1 DEF MapRight, MapWithin
<1>3. "Total" \notin Ids
  BY PageAssumption
<1>4. \A i \in Ids : Row(i, "F") \in d.map <=> i \in Found(query)
  <2> TAKE i \in Ids
  <2>1. Row(i, "F").id # "Total"
    BY <1>1, <1>3
  <2> QED BY <1>1, <1>2, <2>1 DEF MapRight, Found
<1>5. \A r \in ProjectRows : r.type = "F" => \E i \in Ids : r = Row(i, "F")
  BY <1>1, RowsAre
<1>6. \A t \in {"T", "A"} : \A r \in ProjectRows : r.type = t => \E q \in Tops : r = Row(q, t)
  BY <1>1, RowsAre
<1>7. \A i \in Ids : Parent(i) \in Ids /\ Parent(i) \in Tops /\ (i \in Tops <=> Parent(i) = i)
  BY IdsAre
<1>8. Counted(d, "F") = {Row(i, "F") : i \in Once(query)}
  <2>1. ASSUME NEW r \in Counted(d, "F") PROVE r \in {Row(i, "F") : i \in Once(query)}
    <3>1. r \in d.map /\ r.type = "F" /\ r.id # "Total" /\ (r.id \in Tops \/ Row(Parent(r.id), "F") \notin d.map)
      BY <2>1 DEF Counted
    <3>2. PICK i \in Ids : r = Row(i, "F")
      BY <1>2, <1>5, <3>1
    <3>3. i \in Found(query) /\ (Parent(i) = i \/ Parent(i) \notin Found(query))
      BY <1>1, <1>4, <1>7, <3>1, <3>2
    <3> QED BY <3>2, <3>3 DEF Once
  <2>2. ASSUME NEW i \in Once(query) PROVE Row(i, "F") \in Counted(d, "F")
    <3>1. i \in Found(query) /\ i \in Ids /\ (Parent(i) = i \/ Parent(i) \notin Found(query))
      BY DEF Once, Found
    <3>2. Row(i, "F") \in d.map /\ i # "Total" /\ (i \in Tops \/ Row(Parent(i), "F") \notin d.map)
      BY <1>3, <1>4, <1>7, <3>1
    <3> QED BY <1>1, <3>2 DEF Counted
  <2> QED BY <2>1, <2>2
<1>9. ASSUME radio = "All" PROVE Counted(d, "T") = {Row(i, "T") : i \in Found(query) \cap Tops}
  <2>1. ASSUME NEW r \in Counted(d, "T") PROVE r \in {Row(i, "T") : i \in Found(query) \cap Tops}
    <3>1. r \in d.map /\ r.type = "T" /\ r.id # "Total"
      BY <2>1 DEF Counted
    <3>2. PICK q \in Tops : r = Row(q, "T")
      BY <1>2, <1>6, <3>1
    <3>3. q \in Found(query)
      BY <1>1, <1>2, <3>1, <3>2, IdsAre DEF Found
    <3> QED BY <3>2, <3>3
  <2>2. ASSUME NEW q \in Found(query) \cap Tops PROVE Row(q, "T") \in Counted(d, "T")
    <3>1. q \in Tops /\ q # "Total" /\ Matches(query, q)
      BY <1>3 DEF Found
    <3>2. Row(q, "T") \in d.map
      BY <1>9, <3>1 DEF MapRight, Types
    <3> QED BY <1>1, <3>1, <3>2 DEF Counted
  <2> QED BY <2>1, <2>2
<1>10. Counted(d, "A") \subseteq {Row(q, "A") : q \in Tops}
  <2> SUFFICES ASSUME NEW r \in Counted(d, "A") PROVE r \in {Row(q, "A") : q \in Tops}
    OBVIOUS
  <2>1. r \in d.map /\ r.type = "A" /\ r.id # "Total"
    BY DEF Counted
  <2> QED BY <1>2, <1>6, <2>1
<1> QED BY <1>8, <1>9, <1>10

LEMMA TotalsSummed ==
  ASSUME NEW d, DOMAIN d = {"val", "active", "multi", "planned", "map", "total"}, RowsTyped(d.val), TargetsRight(d.val),
         NEW query, NEW radio, MapRight(d.map, query, radio)
  PROVE  LET e == CalculateTotal(d, radio)
         IN  e = [d EXCEPT !.total = e.total] /\ TotalsRight(d.val, e.total, query, radio)
<1> DEFINE v == d.val
           sum(t) == [c \in Columns |-> SumFunction([r \in Counted(d, t) |-> v[r][c]])]
           lts == [c \in Columns |-> IF radio = "All" THEN sum("T")[c] - sum("A")[c] ELSE 0]
           total == [t \in Types |-> IF TotalRow(t) \notin d.map THEN d.total[t] ELSE IF t = "L" THEN lts ELSE sum(t)]
<1>1. CalculateTotal(d, radio) = [d EXCEPT !.total = total]
  BY DEF CalculateTotal
<1>2. \A r \in ProjectRows, c \in Columns : v[r][c] \in Int
  BY DEF RowsTyped
<1>3. ASSUME NEW t \in Types, NEW S \in SUBSET Ids, Counted(d, t) = {Row(i, t) : i \in S}, \A i \in S : Row(i, t) \in ProjectRows
      PROVE  sum(t) = SumRow(v, t, S)
  <2>1. ASSUME NEW c \in Columns
        PROVE  SumFunction([r \in Counted(d, t) |-> v[r][c]]) = SumFunction([i \in S |-> v[Row(i, t)][c]])
    <3> DEFINE g == [r \in Counted(d, t) |-> v[r][c]]
               h == [i \in S |-> v[Row(i, t)][c]]
    <3>1. DOMAIN g = {Row(i, t) : i \in S} /\ DOMAIN h = S
      BY <1>3
    <3>2. \A i \in S : h[i] = g[Row(i, t)] /\ h[i] \in Int
      BY <1>2, <1>3
    <3> HIDE DEF g, h
    <3>3. SumFunctionOnSet(g, {Row(i, t) : i \in S}) = SumFunctionOnSet(h, S)
      BY <3>2, SumOfRows
    <3>4. SumFunction(g) = SumFunction(h)
      BY <3>1, <3>3 DEF SumFunction
    <3> QED BY <3>4 DEF g, h
  <2> QED BY <2>1 DEF SumRow
<1>4. TotalRow("F") \in d.map /\ (radio = "All" => TotalRow("T") \in d.map /\ TotalRow("L") \in d.map)
  BY DEF MapRight, Types
<1>5. Found(query) \subseteq Ids /\ Once(query) \subseteq Ids
  BY DEF Found, Once
<1>6. "F" \in Types /\ "T" \in Types /\ "L" \in Types /\ "A" \in Types
  BY DEF Types
<1>7. total["F"] = SumRow(v, "F", Once(query))
  <2>1. sum("F") = SumRow(v, "F", Once(query))
    <3>1. \A i \in Once(query) : Row(i, "F") \in ProjectRows
      BY <1>5, RowsAre
    <3> QED BY <1>3, <1>5, <1>6, <3>1, CountedAre
  <2> QED BY <1>4, <1>6, <2>1
<1>8. ASSUME radio = "All"
      PROVE  /\ total["T"] = SumRow(v, "T", Found(query) \cap Tops)
             /\ total["L"] = SumRow(v, "L", Found(query) \cap Tops)
  <2> DEFINE S == Found(query) \cap Tops
  <2>1. S \subseteq Ids /\ \A i \in S, t \in Types : i \in Tops /\ Row(i, t) \in ProjectRows
    BY <1>5, RowsAre
  <2>2. sum("T") = SumRow(v, "T", S)
    <3>1. Counted(d, "T") = {Row(i, "T") : i \in S}
      BY <1>8, CountedAre
    <3> HIDE DEF S
    <3> QED BY <1>3, <1>6, <2>1, <3>1
  <2>3. \A i \in S : v[Row(i, "L")] = v[Row(i, "T")]
    BY <2>1 DEF TargetsRight
  <2>4. SumRow(v, "L", S) = SumRow(v, "T", S)
    <3> HIDE DEF S
    <3>1. \A c : [i \in S |-> v[Row(i, "L")][c]] = [i \in S |-> v[Row(i, "T")][c]]
      BY <2>3
    <3> QED BY <3>1 DEF SumRow
  <2>5. ASSUME NEW c \in Columns PROVE sum("A")[c] = 0
    <3> DEFINE g == [r \in Counted(d, "A") |-> v[r][c]]
               C == Counted(d, "A")
    <3>1. \A r \in C : \E q \in Tops : r = Row(q, "A")
      BY CountedAre
    <3>2. C \subseteq ProjectRows
      BY <1>6, <3>1, RowsAre
    <3>3. IsFiniteSet(C)
      BY <3>2, RowsAre, FS_Subset
    <3>4. \A r \in C : v[r][c] = 0
      BY <3>1 DEF TargetsRight
    <3> HIDE DEF C
    <3>5. DOMAIN g = C /\ \A r \in C : g[r] = 0
      BY <3>4 DEF C
    <3> HIDE DEF g
    <3>6. SumFunction(g) = 0
      BY <3>3, <3>5, SumOfNothing DEF SumFunction
    <3> QED BY <3>6 DEF g
  <2>6. ASSUME NEW c \in Columns PROVE sum("T")[c] \in Int
    <3> DEFINE h == [i \in S |-> v[Row(i, "T")][c]]
    <3>1. DOMAIN h = S /\ \A i \in S : h[i] \in Int
      BY <1>2, <1>6, <2>1
    <3>2. IsFiniteSet(S)
      BY <2>1, IdsAre, FS_Subset
    <3>3. sum("T")[c] = SumFunction(h)
      BY <2>2 DEF SumRow
    <3> HIDE DEF h, S
    <3>4. SumFunctionOnSet(h, S) \in Int
      BY <3>1, <3>2, SumInt
    <3> QED BY <3>1, <3>3, <3>4 DEF SumFunction
  <2> HIDE DEF sum, S
  <2>7. \A c \in Columns : lts[c] = sum("T")[c]
    BY <1>8, <2>5, <2>6
  <2>8. lts = sum("T")
    <3>1. sum("T") = [c \in Columns |-> sum("T")[c]]
      BY DEF sum
    <3>2. lts = [c \in Columns |-> lts[c]]
      OBVIOUS
    <3> HIDE DEF lts
    <3> QED BY <2>7, <3>1, <3>2
  <2>9. total["T"] = sum("T") /\ total["L"] = lts
    <3> HIDE DEF lts
    <3> QED BY <1>4, <1>6, <1>8
  <2> QED BY <2>2, <2>4, <2>8, <2>9 DEF S
<1> HIDE DEF total
<1>9. TotalsRight(v, total, query, radio)
  BY <1>7, <1>8 DEF TotalsRight
<1> QED BY <1>1, <1>9

-----------------------------------------------------------------------------
(* the amounts of the page and of the server *)

\* The rows: their totals, the families, and what the filter remembers.
RowsOK(p) ==
  /\ RowsTyped(p.data.val) /\ TargetsRight(p.data.val) /\ DOMAIN p.data.multi = Tops
  /\ WholeShares => p.been.cleared \/ RowsClose(p.data.val)
  /\ p.been.single \/ /\ \A q \in Tops : Kids[q] # <<>> => p.data.multi[q]
                      /\ p.been.cleared \/ AddsUp(Forecasts(p.data.val))
  /\ MapRight(p.data.map, p.query, p.radio)

\* The total rows: only a new project changes the search without summing.
SumsOK(p) ==
  /\ p.been.query = p.query \/ p.query = NoQuery
  /\ p.been.query = p.query /\ ~p.been.cleared =>
       TotalsRight(p.data.val, p.data.total, p.query, p.been.radio)

PostOK(single, post) == post.parts = <<>> \/ \E q \in Tops : PartsOK(single, q, post.month, post.parts)
ServerOK(single, ps, s) ==
  /\ s \in [Ids -> [Months -> Int]] /\ (single \/ AddsUp(s))
  /\ \A k \in DOMAIN ps : PostOK(single, ps[k])

AmountsInv == RowsOK(page) /\ SumsOK(page) /\ ServerOK(page.been.single, posts, stored)

SameAmounts(p, n) ==
  /\ n.data = p.data /\ n.query = p.query /\ n.radio = p.radio
  /\ n.been.single = p.been.single /\ n.been.cleared = p.been.cleared
  /\ n.been.query = p.been.query /\ n.been.radio = p.been.radio

LEMMA AmountsKept ==
  ASSUME NEW p, NEW n, RowsOK(p), SumsOK(p), SameAmounts(p, n)
  PROVE  RowsOK(n) /\ SumsOK(n)
BY DEF RowsOK, SumsOK, SameAmounts

LEMMA PostsOK ==
  ASSUME NEW single, NEW ps, NEW s, PostsInv(ps), ServerOK(single, ps, s)
  PROVE  /\ \A post : PostOK(single, post) => ServerOK(single, Append(ps, post), s)
         /\ \A k \in DOMAIN ps : ServerOK(single, RemoveAt(ps, k), s)
<1>1. ASSUME NEW post, PostOK(single, post) PROVE ServerOK(single, Append(ps, post), s)
  <2> DEFINE t == Append(ps, post)
  <2>1. PICK k : DOMAIN t = DOMAIN ps \cup {k} /\ t[k] = post /\ \A j \in DOMAIN ps : t[j] = ps[j]
    BY SentIs
  <2> HIDE DEF t
  <2>2. ServerOK(single, t, s)
    BY <1>1, <2>1 DEF ServerOK
  <2> QED BY <2>2 DEF t
<1>2. ASSUME NEW k \in DOMAIN ps PROVE ServerOK(single, RemoveAt(ps, k), s)
  <2> DEFINE t == RemoveAt(ps, k)
  <2>1. \A i \in DOMAIN t : \E j \in DOMAIN ps : t[i] = ps[j]
    BY AnsweredIs
  <2> HIDE DEF t
  <2>2. ServerOK(single, t, s)
    BY <2>1 DEF ServerOK
  <2> QED BY <2>2 DEF t
<1> QED BY <1>1, <1>2

\* A step that leaves all amounts alone, and may send a post without any.
QuietStep ==
  /\ SameAmounts(page, page') /\ stored' = stored
  /\ \/ posts' = posts
     \/ \E post : posts' = Append(posts, post) /\ post.parts = <<>>
     \/ \E k \in DOMAIN posts : posts' = RemoveAt(posts, k)

LEMMA QuietStepKeeps == ASSUME PageInv, AmountsInv, QuietStep PROVE AmountsInv'
<1>1. RowsOK(page') /\ SumsOK(page')
  BY AmountsKept DEF AmountsInv, QuietStep
<1>2. PostsInv(posts) /\ ServerOK(page.been.single, posts, stored)
  BY DEF PageInv, PageInvOf, AmountsInv
<1>3. ServerOK(page.been.single, posts', stored)
  <2>1. CASE \E post : posts' = Append(posts, post) /\ post.parts = <<>>
    BY <1>2, <2>1, PostsOK DEF PostOK
  <2>2. CASE \E k \in DOMAIN posts : posts' = RemoveAt(posts, k)
    BY <1>2, <2>2, PostsOK
  <2> QED BY <1>2, <2>1, <2>2 DEF QuietStep
<1>4. page'.been.single = page.been.single /\ stored' = stored
  BY DEF QuietStep, SameAmounts
<1> QED BY <1>1, <1>3, <1>4 DEF AmountsInv

-----------------------------------------------------------------------------
(* steps that leave the amounts alone *)

LEMMA PageFields == ASSUME PageInv PROVE Fields(page)
BY DEF PageInv, PageInvOf

LEMMA QuietIn ==
  ASSUME Fields(page), page'.been = page.been, stored' = stored,
         page'.data = page.data, page'.query = page.query, page'.radio = page.radio,
         \/ posts' = posts
         \/ \E post : posts' = Append(posts, post) /\ post.parts = <<>>
         \/ \E k \in DOMAIN posts : posts' = RemoveAt(posts, k)
  PROVE  QuietStep
BY DEF QuietStep, SameAmounts

\* What the amounts do not mention may change.
LEMMA SameIs ==
  ASSUME NEW p, NEW n, Fields(p),
         Untouched(p, n, {"cell", "brand", "kept", "popup", "guard", "toSingle", "new", "overlay", "saving", "window",
                          "narrow", "button", "rejected", "hung", "edits", "been"}),
         Untouched(p.been, n.been, {"failed", "squeezed", "loose", "poFailed", "typed"})
  PROVE  SameAmounts(p, n)
BY DEF SameAmounts, Fields, Untouched

LEMMA SameShows == ASSUME NEW n, SameAmounts(page, n), Shows(n) PROVE QuietStep
BY DEF Shows, Becomes, QuietStep

LEMMA SameAgain ==
  ASSUME NEW p, NEW q, NEW n, SameAmounts(p, q), SameAmounts(q, n)
  PROVE  SameAmounts(p, n)
BY DEF SameAmounts

LEMMA OpenCellQuiet == ASSUME Fields(page), OpenCell \/ EscapeKey PROVE QuietStep
<1>1. PICK c : Shows([page EXCEPT !.cell = c])
  BY DEF OpenCell, EscapeKey
<1>2. SameAmounts(page, [page EXCEPT !.cell = c])
  BY DEF SameAmounts, Fields
<1> QED BY <1>1, <1>2, SameShows

LEMMA RejectedQuiet == ASSUME Fields(page), Rejected PROVE QuietStep
BY QuietIn DEF Rejected, Redraw, Shows, Becomes, Fields

LEMMA EditedSame ==
  ASSUME Fields(page), NEW rows, NEW cell, NEW clean
  PROVE  /\ SameAmounts(page, [Edited(rows) EXCEPT !.cell = cell])
         /\ SameAmounts(page, [[Edited(rows) EXCEPT !.popup.clean = clean] EXCEPT !.cell = cell])
         /\ SameAmounts(page, [Edited(rows) EXCEPT !.popup.clean = clean])
<1> DEFINE e == Edited(rows)
<1>1. SameAmounts(page, e) /\ Fields(e)
  BY DEF Edited, WithRows, SameAmounts, Fields
<1> HIDE DEF e
<1> DEFINE d == [e EXCEPT !.popup.clean = clean]
<1>2. SameAmounts(page, [e EXCEPT !.cell = cell])
  BY <1>1 DEF SameAmounts, Fields
<1>3. SameAmounts(page, d) /\ Fields(d)
  BY <1>1 DEF SameAmounts, Fields
<1> HIDE DEF d
<1>4. SameAmounts(page, [d EXCEPT !.cell = cell])
  BY <1>3 DEF SameAmounts, Fields
<1> QED BY <1>2, <1>3, <1>4 DEF d, e

LEMMA RowsEditedQuiet == ASSUME Fields(page), OpenPopupCell \/ AddRow \/ DeleteRows PROVE QuietStep
<1>1. PICK rows : \E cell, clean :
        \/ Shows([Edited(rows) EXCEPT !.cell = cell])
        \/ Shows([[Edited(rows) EXCEPT !.popup.clean = clean] EXCEPT !.cell = cell])
        \/ Shows([Edited(rows) EXCEPT !.popup.clean = clean])
  <2>1. CASE OpenPopupCell
    BY <2>1 DEF OpenPopupCell
  <2>2. CASE AddRow
    BY <2>2 DEF AddRow
  <2>3. CASE DeleteRows
    BY <2>3 DEF DeleteRows
  <2> QED BY <2>1, <2>2, <2>3
<1> QED BY <1>1, EditedSame, SameShows

LEMMA PopupCommitSame == ASSUME Fields(page), NEW rows PROVE SameAmounts(page, PopupCommit(rows))
<1> DEFINE n == PopupCommit(rows)
<1>1. Untouched(page, n, {"popup", "cell", "been"}) /\ Untouched(page.been, n.been, {"typed"})
  BY PopupCommitIs
<1> HIDE DEF n
<1>2. SameAmounts(page, n)
  BY <1>1, SameIs DEF Untouched
<1> QED BY <1>2 DEF n

LEMMA CommittedQuiet == ASSUME Fields(page), CommitPopupBrand \/ CommitPopupTotal PROVE QuietStep
<1>1. PICK rows : \/ \E clean : Shows([PopupCommit(rows) EXCEPT !.popup.clean = clean])
                  \/ Shows([PopupCommit(rows) EXCEPT !.hung = TRUE])
  BY DEF CommitPopupBrand, CommitPopupTotal
<1> DEFINE c == PopupCommit(rows)
<1>2. SameAmounts(page, c) /\ Fields(c)
  BY PopupCommitSame, PopupCommitIs
<1> HIDE DEF c
<1>3. ASSUME NEW clean PROVE SameAmounts(c, [c EXCEPT !.popup.clean = clean])
  BY <1>2 DEF SameAmounts, Fields
<1>4. SameAmounts(c, [c EXCEPT !.hung = TRUE])
  BY <1>2 DEF SameAmounts, Fields
<1>5. \A clean : SameAmounts(page, [c EXCEPT !.popup.clean = clean])
  BY <1>2, <1>3, SameAgain
<1>6. SameAmounts(page, [c EXCEPT !.hung = TRUE])
  BY <1>2, <1>4, SameAgain
<1>7. (\E clean : Shows([c EXCEPT !.popup.clean = clean])) \/ Shows([c EXCEPT !.hung = TRUE])
  BY <1>1 DEF c
<1> QED BY <1>5, <1>6, <1>7, SameShows

LEMMA CloseWithoutSaveQuiet == ASSUME Fields(page), CloseWithoutSave PROVE QuietStep
BY QuietIn DEF CloseWithoutSave, Hidden, Redraw, Shows, Becomes, Fields

LEMMA RedrawSame == ASSUME NEW p, Fields(p) PROVE SameAmounts(p, Redraw(p)) /\ Fields(Redraw(p))
<1> DEFINE n == Redraw(p)
<1>1. Fields(n) /\ Untouched(p, n, {"cell", "button"})
  BY RedrawIs
<1> HIDE DEF n
<1>2. n.been = p.been
  BY <1>1 DEF Fields, Untouched
<1>3. Untouched(p.been, n.been, {"failed", "squeezed", "loose", "poFailed", "typed"})
  BY <1>2 DEF Untouched
<1>4. SameAmounts(p, n)
  BY <1>1, <1>3, SameIs DEF Untouched
<1> QED BY <1>1, <1>4 DEF n

LEMMA PopupForSame ==
  ASSUME NEW p, Fields(p), NEW c, NEW rows
  PROVE  SameAmounts(p, PopupFor(p, c, rows)) /\ Fields(PopupFor(p, c, rows))
<1> DEFINE n == PopupFor(p, c, rows)
<1>1. /\ Fields(n) /\ Untouched(p, n, {"popup", "cell", "overlay", "been"})
      /\ Untouched(p.been, n.been, {"loose"})
  BY PopupForIs
<1> HIDE DEF n
<1>2. SameAmounts(p, n)
  BY <1>1, SameIs DEF Untouched
<1> QED BY <1>1, <1>2 DEF n

LEMMA NewSet ==
  ASSUME Fields(page), NEW new
  PROVE  /\ SameAmounts(page, [Redraw(page) EXCEPT !.new = new])
         /\ Fields([Redraw(page) EXCEPT !.new = new])
<1> DEFINE r == Redraw(page)
<1>1. SameAmounts(page, r) /\ Fields(r)
  BY RedrawSame
<1> HIDE DEF r
<1>2. SameAmounts(page, [r EXCEPT !.new = new]) /\ Fields([r EXCEPT !.new = new])
  BY <1>1 DEF SameAmounts, Fields
<1> QED BY <1>2 DEF r

LEMMA NewPopupSame == ASSUME Fields(page), NEW k PROVE SameAmounts(page, NewPopup(k))
<1> DEFINE new == [Redraw(page).new EXCEPT ![k].brand = Smart]
           q == [Redraw(page) EXCEPT !.new = new]
           c == [on |-> "new", id |-> k]
           rows == IF page.new[k].multi THEN page.new[k].rows ELSE [page.popup.rows EXCEPT ![1] = First(@)]
<1>1. NewPopup(k) = PopupFor([Redraw(page) EXCEPT !.new[k].brand = Smart], c, rows)
  BY DEF NewPopup
<1>2. [Redraw(page) EXCEPT !.new[k].brand = Smart] = q
  OBVIOUS
<1> HIDE DEF new
<1>3. SameAmounts(page, q) /\ Fields(q)
  BY NewSet
<1> HIDE DEF q, c, rows
<1>4. SameAmounts(q, PopupFor(q, c, rows))
  BY <1>3, PopupForSame
<1>5. SameAmounts(page, PopupFor(q, c, rows))
  BY <1>3, <1>4, SameAgain
<1> QED BY <1>1, <1>2, <1>5

LEMMA EditNewQuiet == ASSUME Fields(page), EditNew PROVE QuietStep
<1>1. PICK k \in DOMAIN page.new :
        \/ \E m : Shows([Redraw(page) EXCEPT !.new[k] = m])
        \/ Rejected \/ Shows(NewPopup(k))
  BY DEF EditNew
<1>2. CASE \E m : Shows([Redraw(page) EXCEPT !.new[k] = m])
  <2>1. PICK m : Shows([Redraw(page) EXCEPT !.new[k] = m])
    BY <1>2
  <2>2. SameAmounts(page, [Redraw(page) EXCEPT !.new = [Redraw(page).new EXCEPT ![k] = m]])
    BY NewSet
  <2> QED BY <2>1, <2>2, SameShows
<1>3. CASE Rejected
  BY <1>3, RejectedQuiet
<1>4. CASE Shows(NewPopup(k))
  BY <1>4, NewPopupSame, SameShows
<1> QED BY <1>1, <1>2, <1>3, <1>4

LEMMA ClickNewBrandQuiet == ASSUME Fields(page), ClickNewBrand PROVE QuietStep
<1>1. PICK k \in DOMAIN page.new :
        \/ Shows(NewPopup(k)) \/ Shows([Redraw(page) EXCEPT !.new[k].brand = ""])
        \/ Shows([page EXCEPT !.new[k].multi = FALSE, !.toSingle = TRUE])
  BY DEF ClickNewBrand
<1>2. CASE Shows(NewPopup(k))
  BY <1>2, NewPopupSame, SameShows
<1>3. CASE Shows([Redraw(page) EXCEPT !.new[k].brand = ""])
  <2>1. SameAmounts(page, [Redraw(page) EXCEPT !.new = [Redraw(page).new EXCEPT ![k].brand = ""]])
    BY NewSet
  <2> QED BY <1>3, <2>1, SameShows
<1>4. CASE Shows([page EXCEPT !.new[k].multi = FALSE, !.toSingle = TRUE])
  <2>1. SameAmounts(page, [page EXCEPT !.new[k].multi = FALSE, !.toSingle = TRUE])
    BY DEF SameAmounts, Fields
  <2> QED BY <1>4, <2>1, SameShows
<1> QED BY <1>1, <1>2, <1>3, <1>4

LEMMA SubmitProjectsQuiet == ASSUME Fields(page), SubmitProjects PROVE QuietStep
<1>1. \/ Shows([page EXCEPT !.rejected = FALSE])
      \/ \E button : Shows([page EXCEPT !.button = button])
      \/ Sends(Post("store", TRUE)) /\ Becomes([page EXCEPT !.button = FALSE, !.overlay = TRUE])
  BY DEF SubmitProjects
<1>2. /\ SameAmounts(page, [page EXCEPT !.rejected = FALSE])
      /\ \A button : SameAmounts(page, [page EXCEPT !.button = button])
      /\ SameAmounts(page, [page EXCEPT !.button = FALSE, !.overlay = TRUE])
  BY DEF SameAmounts, Fields
<1>3. Post("store", TRUE).parts = <<>>
  BY DEF Post
<1> QED BY <1>1, <1>2, <1>3, SameShows DEF Sends, Becomes, QuietStep

LEMMA PostProjectQuiet == ASSUME Fields(page), PostProject PROVE QuietStep
BY QuietIn DEF PostProject, Becomes, Sends, Post, Fields

LEMMA WindowsQuiet == ASSUME Fields(page), OpenWindow \/ CloseWindow \/ Narrow \/ Widen PROVE QuietStep
<1>1. PICK n : /\ Shows(n)
               /\ \/ n = [page EXCEPT !.overlay = TRUE, !.window = TRUE]
                  \/ n = [page EXCEPT !.overlay = FALSE, !.window = FALSE]
                  \/ n = [page EXCEPT !.narrow = TRUE, !.overlay = TRUE, !.been.squeezed = @ \/ page.overlay]
                  \/ n = [page EXCEPT !.narrow = FALSE, !.overlay = FALSE]
  BY DEF OpenWindow, CloseWindow, Narrow, Widen
<1>2. /\ SameAmounts(page, [page EXCEPT !.overlay = TRUE, !.window = TRUE])
      /\ SameAmounts(page, [page EXCEPT !.overlay = FALSE, !.window = FALSE])
      /\ SameAmounts(page, [page EXCEPT !.narrow = FALSE, !.overlay = FALSE])
  BY DEF SameAmounts, Fields
<1>3. SameAmounts(page, [page EXCEPT !.narrow = TRUE, !.overlay = TRUE, !.been.squeezed = @ \/ page.overlay])
  BY DEF SameAmounts, Fields
<1> QED BY <1>1, <1>2, <1>3, SameShows

LEMMA AnswersQuiet ==
  ASSUME Fields(page), NEW k \in DOMAIN posts, StoreFails(k) \/ PostRefused(k)
  PROVE  QuietStep
BY QuietIn DEF StoreFails, PostRefused, Answered, Fields

-----------------------------------------------------------------------------
(* steps that sum anew *)

LEMMA RowsKept ==
  ASSUME NEW p, NEW n, RowsOK(p), n.data.val = p.data.val, n.data.multi = p.data.multi,
         n.been.single = p.been.single, n.been.cleared = p.been.cleared, MapRight(n.data.map, n.query, n.radio)
  PROVE  RowsOK(n)
BY DEF RowsOK

LEMMA Resummed ==
  ASSUME NEW p, Fields(p), RowsOK(p)
  PROVE  LET n == Recalculated(p)
         IN  /\ Fields(n) /\ RowsOK(n) /\ SumsOK(n) /\ n.been.single = p.been.single
             /\ n.been.cleared = p.been.cleared /\ n.query = p.query
<1> DEFINE n == Recalculated(p)
           d1 == CalculateTotal(p.data, p.radio)
           d2 == Refresh(d1, p.query, p.radio)
<1>1. /\ DOMAIN p.data = {"val", "active", "multi", "planned", "map", "total"} /\ RowsTyped(p.data.val)
      /\ TargetsRight(p.data.val) /\ MapRight(p.data.map, p.query, p.radio)
  BY DEF Fields, RowsOK
<1>2. d1 = [p.data EXCEPT !.total = d1.total] /\ TotalsRight(p.data.val, d1.total, p.query, p.radio)
  BY <1>1, TotalsSummed
<1> HIDE DEF d1
<1>3. /\ DOMAIN d1 = {"val", "active", "multi", "planned", "map", "total"}
      /\ d1.val = p.data.val /\ d1.multi = p.data.multi /\ d1.map = p.data.map
  BY <1>1, <1>2
<1>4. MapWithin(d1.map, p.query)
  BY <1>1, <1>3 DEF MapRight
<1>5. d2 = [d1 EXCEPT !.map = d2.map] /\ MapRight(d2.map, p.query, p.radio)
  BY <1>3, <1>4, RefreshRemembers
<1> HIDE DEF d2
<1>6. d2.val = p.data.val /\ d2.multi = p.data.multi /\ d2.total = d1.total
  BY <1>3, <1>5
<1>7. n = [p EXCEPT !.data = d2, !.been.query = p.query, !.been.radio = p.radio]
  BY DEF Recalculated, Fields, d1, d2
<1>8. Fields(n)
  BY RecalculatedIs
<1> HIDE DEF n
<1>9. n.data = d2 /\ n.query = p.query /\ n.radio = p.radio
  BY <1>7 DEF Fields
<1>10. n.been = [p.been EXCEPT !.query = p.query, !.radio = p.radio]
  BY <1>7 DEF Fields
<1>11. /\ n.been.query = p.query /\ n.been.radio = p.radio
       /\ n.been.single = p.been.single /\ n.been.cleared = p.been.cleared
  BY <1>10 DEF Fields
<1>12. RowsOK(n)
  BY <1>5, <1>6, <1>9, <1>11, RowsKept
<1>13. SumsOK(n)
  BY <1>2, <1>6, <1>9, <1>11 DEF SumsOK
<1> QED BY <1>8, <1>9, <1>11, <1>12, <1>13 DEF n

\* What a step may send and note without disturbing what the server has.
LEMMA AmountsStep ==
  ASSUME PageInv, AmountsInv, RowsOK(page'), SumsOK(page'), stored' = stored,
         page'.been.single = page.been.single \/ page'.been.single = TRUE,
         posts' = posts \/ \E post : posts' = Append(posts, post) /\ PostOK(page.been.single, post)
  PROVE  AmountsInv'
<1> DEFINE single == page.been.single
<1>1. PostsInv(posts) /\ ServerOK(single, posts, stored)
  BY DEF PageInv, PageInvOf, AmountsInv
<1>2. ServerOK(single, posts', stored)
  BY <1>1, PostsOK
<1>3. ServerOK(TRUE, posts', stored)
  <2>1. \A post : PostOK(single, post) => PostOK(TRUE, post)
    BY DEF PostOK, PartsOK
  <2> QED BY <1>2, <2>1 DEF ServerOK
<1>4. ServerOK(page'.been.single, posts', stored')
  BY <1>2, <1>3
<1> QED BY <1>4 DEF AmountsInv

\* The rows of a page like this one are summed anew, and something else is noted.
LEMMA SummedStep ==
  ASSUME PageInv, AmountsInv, NEW q, Fields(q), RowsOK(q), q.been.single = page.been.single,
         SameAmounts(Recalculated(q), page'), stored' = stored,
         posts' = posts \/ \E post : posts' = Append(posts, post) /\ PostOK(page.been.single, post)
  PROVE  AmountsInv'
<1> DEFINE n == Recalculated(q)
<1>1. RowsOK(n) /\ SumsOK(n) /\ n.been.single = q.been.single
  BY Resummed
<1>2. SameAmounts(n, page')
  OBVIOUS
<1> HIDE DEF n
<1>3. RowsOK(page') /\ SumsOK(page') /\ page'.been.single = page.been.single
  BY <1>1, <1>2, AmountsKept DEF SameAmounts
<1> QED BY <1>3, AmountsStep

LEMMA SameRows ==
  ASSUME NEW q, AmountsInv, SameAmounts(page, q)
  PROVE  RowsOK(q) /\ SumsOK(q) /\ q.been.single = page.been.single
BY AmountsKept DEF AmountsInv, SameAmounts

LEMMA SavingSet ==
  ASSUME NEW n, Fields(n)
  PROVE  /\ SameAmounts(n, [n EXCEPT !.saving = TRUE])
         /\ \A loose : SameAmounts(n, [n EXCEPT !.saving = TRUE, !.overlay = TRUE, !.been.loose = loose])
BY DEF SameAmounts, Fields

LEMMA CommitPOAmounts == ASSUME PageInv, AmountsInv, CommitPO PROVE AmountsInv'
<1>1. Fields(page)
  BY PageFields
<1>2. CASE Shows([page EXCEPT !.saving = FALSE, !.button = TRUE])
  <2>1. SameAmounts(page, [page EXCEPT !.saving = FALSE, !.button = TRUE])
    BY <1>1 DEF SameAmounts, Fields
  <2> QED BY <1>2, <2>1, SameShows, QuietStepKeeps
<1>3. CASE /\ Sends([Post("save", TRUE) EXCEPT !.reload = TRUE])
           /\ Becomes([Recalculated(Redraw(page)) EXCEPT !.saving = TRUE, !.overlay = TRUE,
                                                         !.been.loose = @ \/ page.overlay])
  <2> DEFINE q == Redraw(page)
             n == Recalculated(q)
             post == [Post("save", TRUE) EXCEPT !.reload = TRUE]
             loose == n.been.loose \/ page.overlay
  <2>1. SameAmounts(page, q) /\ Fields(q)
    BY <1>1, RedrawSame
  <2>2. page' = [n EXCEPT !.saving = TRUE, !.overlay = TRUE, !.been.loose = loose] /\ stored' = stored
    BY <1>3 DEF Becomes
  <2>3. posts' = Append(posts, post) /\ PostOK(page.been.single, post)
    BY <1>3 DEF Sends, Post, PostOK
  <2> HIDE DEF q, post, loose
  <2>4. RowsOK(q) /\ q.been.single = page.been.single /\ Fields(n)
    BY <2>1, SameRows, Resummed
  <2> HIDE DEF n
  <2>5. SameAmounts(n, page')
    BY <2>2, <2>4, SavingSet
  <2> QED BY <2>1, <2>2, <2>3, <2>4, <2>5, SummedStep DEF n
<1> QED BY <1>2, <1>3 DEF CommitPO

LEMMA CommitBrandAmounts == ASSUME PageInv, AmountsInv, CommitBrand PROVE AmountsInv'
<1> DEFINE p == page.cell.id
           r == Redraw(page)
           smart == [r EXCEPT !.brand[p] = Smart]
           c == [on |-> "project", id |-> p]
<1>1. Fields(page)
  BY PageFields
<1>2. SameAmounts(page, r) /\ Fields(r)
  BY <1>1, RedrawSame
<1>3. CASE Rejected
  BY <1>1, <1>3, RejectedQuiet, QuietStepKeeps
<1>4. ASSUME NEW b, Sends([Post("save", FALSE) EXCEPT !.reload = page.toSingle]),
             Becomes([Recalculated([r EXCEPT !.brand[p] = b, !.kept[p] = b]) EXCEPT !.saving = TRUE])
      PROVE  AmountsInv'
  <2> DEFINE q == [r EXCEPT !.brand[p] = b, !.kept[p] = b]
             n == Recalculated(q)
             post == [Post("save", FALSE) EXCEPT !.reload = page.toSingle]
  <2> HIDE DEF r, p
  <2>1. SameAmounts(r, q) /\ Fields(q)
    BY <1>2 DEF SameAmounts, Fields
  <2>2. page' = [n EXCEPT !.saving = TRUE] /\ stored' = stored
    BY <1>4 DEF Becomes
  <2>3. posts' = Append(posts, post) /\ PostOK(page.been.single, post)
    BY <1>4 DEF Sends, Post, PostOK
  <2> HIDE DEF q, post
  <2>4. SameAmounts(page, q)
    BY <1>2, <2>1, SameAgain
  <2>5. RowsOK(q) /\ q.been.single = page.been.single /\ Fields(n)
    BY <2>1, <2>4, SameRows, Resummed
  <2> HIDE DEF n
  <2>6. SameAmounts(n, page')
    BY <2>2, <2>5, SavingSet
  <2> QED BY <2>1, <2>2, <2>3, <2>5, <2>6, SummedStep DEF n
<1> HIDE DEF r, p
<1>5. SameAmounts(page, smart) /\ Fields(smart)
  <2>1. SameAmounts(r, smart) /\ Fields(smart)
    BY <1>2 DEF SameAmounts, Fields
  <2> HIDE DEF smart
  <2> QED BY <1>2, <2>1, SameAgain
<1> HIDE DEF smart
<1>6. ASSUME NEW q, SameAmounts(page, q), Fields(q), Shows(Recalculated(q)) PROVE AmountsInv'
  <2>1. page' = Recalculated(q) /\ stored' = stored /\ posts' = posts
    BY <1>6 DEF Shows, Becomes
  <2>2. SameAmounts(Recalculated(q), page')
    BY <2>1 DEF SameAmounts
  <2>3. RowsOK(q) /\ q.been.single = page.been.single
    BY <1>6, SameRows
  <2> QED BY <1>6, <2>1, <2>2, <2>3, SummedStep
<1>7. CASE Shows(Recalculated(smart))
  BY <1>5, <1>6, <1>7
<1>8. CASE Shows(Recalculated(PopupFor(smart, c, SingleRows(p))))
  <2> DEFINE rows == SingleRows(p)
             q == PopupFor(smart, c, rows)
  <2> HIDE DEF rows, c
  <2>1. SameAmounts(smart, q) /\ Fields(q)
    BY <1>5, PopupForSame
  <2> HIDE DEF q
  <2>2. SameAmounts(page, q)
    BY <1>5, <2>1, SameAgain
  <2>3. Shows(Recalculated(q))
    BY <1>8 DEF q, c, rows
  <2> QED BY <1>6, <2>1, <2>2, <2>3
<1>9. \/ Rejected
      \/ \E b : /\ Sends([Post("save", FALSE) EXCEPT !.reload = page.toSingle])
                /\ Becomes([Recalculated([r EXCEPT !.brand[p] = b, !.kept[p] = b]) EXCEPT !.saving = TRUE])
      \/ Shows(Recalculated(smart))
      \/ Shows(Recalculated(PopupFor(smart, c, SingleRows(p))))
  BY DEF CommitBrand, p, r, smart, c
<1> QED BY <1>3, <1>4, <1>7, <1>8, <1>9

LEMMA ClickBrandAmounts == ASSUME PageInv, AmountsInv, ClickBrand PROVE AmountsInv'
<1>1. Fields(page)
  BY PageFields
<1>2. PICK p \in Tops :
        \/ \E rows : Shows([PopupFor(page, [on |-> "project", id |-> p], rows) EXCEPT !.guard = TRUE])
        \/ \E cell : Shows([page EXCEPT !.toSingle = TRUE, !.data.multi[p] = FALSE, !.been.single = TRUE, !.cell = cell])
  BY DEF ClickBrand
<1>3. ASSUME NEW rows, Shows([PopupFor(page, [on |-> "project", id |-> p], rows) EXCEPT !.guard = TRUE]) PROVE AmountsInv'
  <2> DEFINE c == [on |-> "project", id |-> p]
             q == PopupFor(page, c, rows)
  <2> HIDE DEF c
  <2>1. SameAmounts(page, q) /\ Fields(q)
    BY <1>1, PopupForSame
  <2>2. Shows([q EXCEPT !.guard = TRUE])
    BY <1>3 DEF c
  <2> HIDE DEF q
  <2>3. SameAmounts(q, [q EXCEPT !.guard = TRUE])
    BY <2>1 DEF SameAmounts, Fields
  <2>4. SameAmounts(page, [q EXCEPT !.guard = TRUE])
    BY <2>1, <2>3, SameAgain
  <2> QED BY <2>2, <2>4, SameShows, QuietStepKeeps
<1>4. ASSUME NEW cell, Shows([page EXCEPT !.toSingle = TRUE, !.data.multi[p] = FALSE, !.been.single = TRUE, !.cell = cell])
      PROVE  AmountsInv'
  <2>1. /\ page' = [page EXCEPT !.toSingle = TRUE, !.data.multi[p] = FALSE, !.been.single = TRUE, !.cell = cell]
        /\ stored' = stored /\ posts' = posts
    BY <1>4 DEF Shows, Becomes
  <2>2. /\ page'.data = [page.data EXCEPT !.multi[p] = FALSE] /\ page'.been = [page.been EXCEPT !.single = TRUE]
        /\ page'.query = page.query /\ page'.radio = page.radio
    BY <1>1, <2>1 DEF Fields
  <2>3. /\ page'.data.val = page.data.val /\ page'.data.map = page.data.map /\ page'.data.total = page.data.total
        /\ DOMAIN page'.data.multi = DOMAIN page.data.multi
        /\ page'.been.single = TRUE /\ page'.been.cleared = page.been.cleared
        /\ page'.been.query = page.been.query /\ page'.been.radio = page.been.radio
    BY <1>1, <2>2 DEF Fields
  <2>4. RowsOK(page')
    BY <2>2, <2>3 DEF AmountsInv, RowsOK
  <2>5. SumsOK(page')
    BY <2>2, <2>3 DEF AmountsInv, SumsOK
  <2> QED BY <2>1, <2>3, <2>4, <2>5, AmountsStep
<1> QED BY <1>2, <1>3, <1>4

LEMMA CommitMonthAmounts == ASSUME PageInv, AmountsInv, CommitMonth PROVE AmountsInv'
<1> DEFINE p == page.cell.id
           m == page.cell.month
           r == Redraw(page)
           single == page.been.single
<1>1. Fields(page) /\ p \in Tops /\ m \in Months /\ RowsOK(page)
  BY DEF PageInv, PageInvOf, SavedInv, CellInv, CommitMonth, AmountsInv
<1>2. PICK amount \in Amounts :
        \/ Rejected
        \/ /\ Sends([Post("save", FALSE) EXCEPT !.month = m, !.parts = Parts(page.data, p, amount)])
           /\ Becomes([Recalculated([r EXCEPT !.data = EditMonth(@, p, m, amount)]) EXCEPT !.saving = TRUE])
  BY DEF CommitMonth
<1>3. amount \in Int
  BY AmountsAssumption
<1>4. CASE Rejected
  BY <1>1, <1>4, RejectedQuiet, QuietStepKeeps
<1>5. CASE /\ Sends([Post("save", FALSE) EXCEPT !.month = m, !.parts = Parts(page.data, p, amount)])
           /\ Becomes([Recalculated([r EXCEPT !.data = EditMonth(@, p, m, amount)]) EXCEPT !.saving = TRUE])
  <2> DEFINE d == page.data
             e == EditMonth(d, p, m, amount)
             parts == Parts(d, p, amount)
             q == [r EXCEPT !.data = e]
             n == Recalculated(q)
             post == [Post("save", FALSE) EXCEPT !.month = m, !.parts = parts]
  <2>1. SameAmounts(page, r) /\ Fields(r) /\ r.data = d
    BY <1>1, RedrawSame DEF SameAmounts
  <2>2. page' = [n EXCEPT !.saving = TRUE] /\ stored' = stored
    BY <1>5, <2>1 DEF Becomes
  <2>3. posts' = Append(posts, post) /\ post.month = m /\ post.parts = parts
    BY <1>5 DEF Sends, Post
  <2> HIDE DEF r, p, m, post
  <2>4. /\ DOMAIN d = {"val", "active", "multi", "planned", "map", "total"} /\ RowsTyped(d.val) /\ TargetsRight(d.val)
        /\ DOMAIN d.multi = Tops
    BY <1>1 DEF RowsOK, Fields
  <2> HIDE DEF d
  <2>5. e = [d EXCEPT !.val = e.val] /\ RowsTyped(e.val) /\ TargetsRight(e.val)
    BY <1>1, <1>3, <2>4, EditMonthRows
  <2>6. \A one : (one \/ Kids[p] = <<>> \/ d.multi[p]) =>
          PartsOK(one, p, m, parts) /\ Forecasts(e.val) = WithParts(Forecasts(d.val), p, m, parts)
    BY <1>1, <1>3, <2>4, EditSetsParts
  <2>7. WholeShares => page.been.cleared \/ RowsClose(e.val)
    <3>1. WholeShares => page.been.cleared \/ RowsClose(d.val)
      BY <1>1 DEF RowsOK, d
    <3>2. WholeShares /\ RowsClose(d.val) => RowsClose(e.val)
      BY <1>1, <1>3, <2>4, EditKeepsRows
    <3> QED BY <3>1, <3>2
  <2> HIDE DEF e, parts
  <2>8. e.multi = d.multi /\ e.map = d.map /\ DOMAIN e = {"val", "active", "multi", "planned", "map", "total"}
    BY <2>4, <2>5
  <2>9. single \/ /\ \A t \in Tops : Kids[t] # <<>> => d.multi[t]
                  /\ page.been.cleared \/ AddsUp(Forecasts(d.val))
    BY <1>1 DEF RowsOK, d
  <2>10. single \/ page.been.cleared \/ AddsUp(Forecasts(e.val))
    <3> DEFINE w == Forecasts(d.val)
               one == FALSE
    <3> SUFFICES ASSUME ~single, AddsUp(w) PROVE AddsUp(Forecasts(e.val))
      BY <2>9
    <3>1. w \in [Ids -> [Months -> Int]]
      BY <2>4, ForecastsAre
    <3>2. PartsOK(one, p, m, parts) /\ Forecasts(e.val) = WithParts(w, p, m, parts)
      BY <1>1, <2>6, <2>9
    <3> HIDE DEF w
    <3>3. one \/ AddsUp(WithParts(w, p, m, parts))
      BY <1>1, <3>1, <3>2, MonthAddsUp
    <3> QED BY <3>2, <3>3
  <2>11. PostOK(single, post)
    <3>1. PartsOK(single, p, m, parts)
      BY <1>1, <2>6, <2>9
    <3> QED BY <1>1, <2>3, <3>1 DEF PostOK
  <2>12. q.data = e /\ q.query = page.query /\ q.radio = page.radio /\ q.been.single = single
         /\ q.been.cleared = page.been.cleared /\ Fields(q)
    BY <2>1, <2>8 DEF SameAmounts, Fields
  <2> HIDE DEF q
  <2>13. RowsOK(q)
    <3>1. MapRight(e.map, page.query, page.radio)
      BY <1>1, <2>8 DEF RowsOK, d
    <3>2. DOMAIN e.multi = Tops /\ (single \/ \A t \in Tops : Kids[t] # <<>> => e.multi[t])
      BY <2>4, <2>8, <2>9
    <3> QED BY <2>5, <2>7, <2>10, <2>12, <3>1, <3>2 DEF RowsOK
  <2>14. Fields(n)
    BY <2>12, <2>13, Resummed
  <2> HIDE DEF n
  <2>15. SameAmounts(n, page')
    BY <2>2, <2>14, SavingSet
  <2> QED BY <2>2, <2>3, <2>11, <2>12, <2>13, <2>15, SummedStep DEF n
<1> QED BY <1>2, <1>4, <1>5

LEMMA HiddenSame == ASSUME Fields(page) PROVE SameAmounts(page, Hidden(page)) /\ Fields(Hidden(page))
<1> DEFINE n == Hidden(page)
<1>1. Fields(n) /\ Untouched(page, n, {"popup", "cell", "overlay", "button"})
  BY HiddenIs
<1> HIDE DEF n
<1>2. n.been = page.been
  BY <1>1 DEF Fields, Untouched
<1>3. Untouched(page.been, n.been, {"failed", "squeezed", "loose", "poFailed", "typed"})
  BY <1>2 DEF Untouched
<1>4. SameAmounts(page, n)
  BY <1>1, <1>3, SameIs DEF Untouched
<1> QED BY <1>1, <1>4 DEF n

\* Clearing months disturbs no target and forgets no brands.
LEMMA ClearedRows ==
  ASSUME NEW d, DOMAIN d = {"val", "active", "multi", "planned", "map", "total"},
         RowsTyped(d.val), TargetsRight(d.val), DOMAIN d.multi = Tops, NEW i, NEW planned
  PROVE  LET e == ClearMonths(d, i, planned)
         IN  /\ DOMAIN e = DOMAIN d /\ RowsTyped(e.val) /\ TargetsRight(e.val)
             /\ DOMAIN e.multi = Tops /\ (\A q \in Tops : d.multi[q] => e.multi[q]) /\ e.map = d.map
<1> DEFINE cleared == [c \in Columns |-> IF c \in ThisMonth..NMonths THEN 0 ELSE d.val[Row(i, "F")][c]]
           v == [d.val EXCEPT ![Row(i, "F")] = cleared]
           multi == [d.multi EXCEPT ![i] = TRUE]
           e == ClearMonths(d, i, planned)
<1>1. e.val = v /\ e.multi = multi /\ e.map = d.map /\ DOMAIN e = DOMAIN d
  BY DEF ClearMonths
<1>2. v \in [ProjectRows -> [Columns -> Int]]
  <2>1. DOMAIN d.val = ProjectRows /\ \A r \in ProjectRows : d.val[r] \in [Columns -> Int]
    BY DEF RowsTyped
  <2>2. Row(i, "F") \in ProjectRows => cleared \in [Columns -> Int]
    BY <2>1
  <2> HIDE DEF cleared
  <2>3. \A r \in ProjectRows : v[r] \in [Columns -> Int]
    BY <2>1, <2>2
  <2> QED BY <2>1, <2>3
<1>3. \A q \in Tops : \A t \in {"A", "T", "L"} : v[Row(q, t)] = d.val[Row(q, t)]
  <2> TAKE q \in Tops, t \in {"A", "T", "L"}
  <2>1. Row(q, t) # Row(i, "F") /\ Row(q, t) \in ProjectRows
    BY RowsAre DEF Row, Types
  <2> QED BY <2>1 DEF RowsTyped
<1> HIDE DEF v
<1>4. TargetsRight(v)
  BY <1>3 DEF TargetsRight
<1>5. DOMAIN multi = Tops /\ \A q \in Tops : d.multi[q] => multi[q]
  OBVIOUS
<1> HIDE DEF e, multi
<1>6. DOMAIN e = DOMAIN d /\ RowsTyped(e.val) /\ TargetsRight(e.val) /\ DOMAIN e.multi = Tops
      /\ (\A q \in Tops : d.multi[q] => e.multi[q]) /\ e.map = d.map
  BY <1>1, <1>2, <1>4, <1>5 DEF RowsTyped
<1> QED BY <1>6 DEF e

LEMMA SaveAndCloseAmounts == ASSUME PageInv, AmountsInv, SaveAndClose PROVE AmountsInv'
<1> DEFINE h == Hidden(page)
           for == page.popup.for
<1>1. Fields(page) /\ RowsOK(page)
  BY PageFields DEF AmountsInv
<1>2. SameAmounts(page, h) /\ Fields(h)
  BY <1>1, HiddenSame
<1> HIDE DEF h
<1>3. PICK rows, planned :
        \/ Shows(WithRows(rows))
        \/ Shows([h EXCEPT !.new[for.id].multi = TRUE, !.new[for.id].rows = rows])
        \/ /\ Sends(Post("brands", page.guard))
           /\ Becomes([h EXCEPT !.data = ClearMonths(@, for.id, planned),
                                !.overlay = page.guard, !.been.cleared = TRUE,
                                !.been.loose = @ \/ ~page.guard])
  BY DEF SaveAndClose, h
<1>4. CASE Shows(WithRows(rows))
  <2>1. SameAmounts(page, WithRows(rows))
    BY <1>1 DEF WithRows, SameAmounts, Fields
  <2> QED BY <1>4, <2>1, SameShows, QuietStepKeeps
<1>5. CASE Shows([h EXCEPT !.new[for.id].multi = TRUE, !.new[for.id].rows = rows])
  <2>1. SameAmounts(h, [h EXCEPT !.new[for.id].multi = TRUE, !.new[for.id].rows = rows])
    BY <1>2 DEF SameAmounts, Fields
  <2>2. SameAmounts(page, [h EXCEPT !.new[for.id].multi = TRUE, !.new[for.id].rows = rows])
    BY <1>2, <2>1, SameAgain
  <2> QED BY <1>5, <2>2, SameShows, QuietStepKeeps
<1>6. CASE /\ Sends(Post("brands", page.guard))
           /\ Becomes([h EXCEPT !.data = ClearMonths(@, for.id, planned),
                                !.overlay = page.guard, !.been.cleared = TRUE,
                                !.been.loose = @ \/ ~page.guard])
  <2> DEFINE d == page.data
             e == ClearMonths(d, for.id, planned)
             post == Post("brands", page.guard)
  <2>1. /\ DOMAIN d = {"val", "active", "multi", "planned", "map", "total"} /\ RowsTyped(d.val) /\ TargetsRight(d.val)
        /\ DOMAIN d.multi = Tops
    BY <1>1 DEF RowsOK, Fields
  <2>2. /\ RowsTyped(e.val) /\ TargetsRight(e.val)
        /\ DOMAIN e.multi = Tops /\ (\A q \in Tops : d.multi[q] => e.multi[q]) /\ e.map = d.map
    <3> HIDE DEF d
    <3> QED BY <2>1, ClearedRows
  <2>3. page' = [h EXCEPT !.data = e, !.overlay = page.guard, !.been.cleared = TRUE,
                          !.been.loose = h.been.loose \/ ~page.guard] /\ stored' = stored
    BY <1>2, <1>6 DEF Becomes, SameAmounts, Fields
  <2>4. posts' = Append(posts, post) /\ PostOK(page.been.single, post)
    BY <1>6 DEF Sends, Post, PostOK
  <2> HIDE DEF e, for, post
  <2>5. page'.data = e /\ page'.query = page.query /\ page'.radio = page.radio
    BY <1>2, <2>3 DEF SameAmounts, Fields
  <2>6. page'.been = [h.been EXCEPT !.cleared = TRUE, !.loose = h.been.loose \/ ~page.guard]
    BY <1>2, <2>3 DEF Fields
  <2>7. /\ page'.been.single = page.been.single /\ page'.been.cleared = TRUE
        /\ page'.been.query = page.been.query /\ page'.been.radio = page.been.radio
    BY <1>2, <2>6 DEF SameAmounts, Fields
  <2>8. MapRight(e.map, page.query, page.radio) /\ (page.been.single \/ \A q \in Tops : Kids[q] # <<>> => e.multi[q])
    BY <1>1, <2>2 DEF RowsOK
  <2>9. RowsOK(page')
    BY <2>2, <2>5, <2>7, <2>8 DEF RowsOK
  <2>10. SumsOK(page')
    BY <2>5, <2>7 DEF AmountsInv, SumsOK
  <2> QED BY <2>3, <2>4, <2>7, <2>9, <2>10, AmountsStep
<1> QED BY <1>3, <1>4, <1>5, <1>6

-----------------------------------------------------------------------------
(* the search *)

LEMMA Searched ==
  ASSUME NEW e, DOMAIN e = {"val", "active", "multi", "planned", "map", "total"},
         NEW query, NEW radio, MapWithin(e.map, query)
  PROVE  LET d == Refresh(e, query, radio)
         IN  /\ DOMAIN d = DOMAIN e /\ d.val = e.val /\ d.multi = e.multi
             /\ d.total = e.total /\ MapRight(d.map, query, radio)
<1> DEFINE d == Refresh(e, query, radio)
<1>1. d = [e EXCEPT !.map = d.map] /\ MapRight(d.map, query, radio)
  BY RefreshRemembers
<1> HIDE DEF d
<1>2. DOMAIN d = DOMAIN e /\ d.val = e.val /\ d.multi = e.multi /\ d.total = e.total
  BY <1>1
<1> QED BY <1>1, <1>2 DEF d

LEMMA CreateProjectAmounts == ASSUME PageInv, AmountsInv, CreateProject PROVE AmountsInv'
<1> DEFINE d == Refresh(page.data, NoQuery, page.radio)
<1>1. Fields(page) /\ RowsOK(page) /\ SumsOK(page)
  BY PageFields DEF AmountsInv
<1>2. PICK new : page' = [page EXCEPT !.new = new, !.query = NoQuery, !.data = Refresh(@, NoQuery, page.radio)]
  BY <1>1 DEF CreateProject, Shows, Becomes, Fields
<1>3. page' = [page EXCEPT !.new = new, !.query = NoQuery, !.data = d] /\ stored' = stored /\ posts' = posts
  BY <1>1, <1>2 DEF CreateProject, Shows, Becomes, Fields
<1>4. MapWithin(page.data.map, NoQuery)
  BY <1>1, MapKept DEF RowsOK, MapRight
<1>5. /\ d.val = page.data.val /\ d.multi = page.data.multi
      /\ d.total = page.data.total /\ MapRight(d.map, NoQuery, page.radio)
  BY <1>1, <1>4, Searched DEF Fields
<1> HIDE DEF d
<1>6. page'.data = d /\ page'.query = NoQuery /\ page'.radio = page.radio /\ page'.been = page.been
  BY <1>1, <1>3 DEF Fields
<1>7. RowsOK(page')
  BY <1>1, <1>5, <1>6, RowsKept
<1>8. SumsOK(page')
  BY <1>1, <1>5, <1>6 DEF SumsOK
<1> QED BY <1>3, <1>6, <1>7, <1>8, AmountsStep

LEMMA SearchAmounts == ASSUME PageInv, AmountsInv, Search PROVE AmountsInv'
<1>1. Fields(page) /\ RowsOK(page)
  BY PageFields DEF AmountsInv
<1>2. PICK query :
        Shows(Recalculated([page EXCEPT !.cell = NoCell, !.query = query,
                                        !.data = Refresh([@ EXCEPT !.map = {}], query, page.radio)]))
  BY DEF Search
<1> DEFINE e == [page.data EXCEPT !.map = {}]
           d == Refresh(e, query, page.radio)
           q == [page EXCEPT !.cell = NoCell, !.query = query, !.data = d]
<1>3. page' = Recalculated(q) /\ stored' = stored /\ posts' = posts
  <2>1. q = [page EXCEPT !.cell = NoCell, !.query = query, !.data = Refresh([@ EXCEPT !.map = {}], query, page.radio)]
    BY <1>1 DEF Fields
  <2> QED BY <1>2, <2>1 DEF Shows, Becomes
<1>4. MapWithin(e.map, query) /\ DOMAIN e = DOMAIN page.data /\ e.val = page.data.val /\ e.multi = page.data.multi
  BY <1>1, EmptyMap DEF Fields
<1>5. /\ DOMAIN d = DOMAIN page.data /\ d.val = page.data.val /\ d.multi = page.data.multi
      /\ MapRight(d.map, query, page.radio)
  <2> HIDE DEF e
  <2> QED BY <1>1, <1>4, Searched DEF Fields
<1> HIDE DEF d
<1>6. Fields(q) /\ q.data = d /\ q.query = query /\ q.radio = page.radio /\ q.been = page.been
  BY <1>1, <1>5 DEF Fields
<1> HIDE DEF q
<1>7. RowsOK(q) /\ q.been.single = page.been.single
  BY <1>1, <1>5, <1>6, RowsKept
<1>8. SameAmounts(Recalculated(q), page')
  BY <1>3 DEF SameAmounts
<1> QED BY <1>3, <1>6, <1>7, <1>8, SummedStep

LEMMA RadioButtonAmounts == ASSUME PageInv, AmountsInv, RadioButton PROVE AmountsInv'
<1>1. Fields(page) /\ RowsOK(page) /\ SumsOK(page)
  BY PageFields DEF AmountsInv
<1>2. PICK radio : Shows([page EXCEPT !.cell = NoCell, !.radio = radio, !.data = Refresh(@, page.query, radio)])
  BY DEF RadioButton
<1> DEFINE d == Refresh(page.data, page.query, radio)
<1>3. page' = [page EXCEPT !.cell = NoCell, !.radio = radio, !.data = d] /\ stored' = stored /\ posts' = posts
  BY <1>1, <1>2 DEF Shows, Becomes, Fields
<1>4. MapWithin(page.data.map, page.query)
  BY <1>1 DEF RowsOK, MapRight
<1>5. /\ d.val = page.data.val /\ d.multi = page.data.multi
      /\ d.total = page.data.total /\ MapRight(d.map, page.query, radio)
  BY <1>1, <1>4, Searched DEF Fields
<1> HIDE DEF d
<1>6. page'.data = d /\ page'.query = page.query /\ page'.radio = radio /\ page'.been = page.been
  BY <1>1, <1>3 DEF Fields
<1>7. RowsOK(page')
  BY <1>1, <1>5, <1>6, RowsKept
<1>8. SumsOK(page')
  BY <1>1, <1>5, <1>6 DEF SumsOK
<1> QED BY <1>3, <1>6, <1>7, <1>8, AmountsStep

-----------------------------------------------------------------------------
(* loading the amounts *)

Raw(s, r) == [c \in Columns |-> IF r.type = "F" /\ c \in Months THEN s[r.id][c] ELSE 0]

LEMMA StoredRow ==
  ASSUME NEW s \in [Ids -> [Months -> Int]], NEW r \in ProjectRows
  PROVE  LET v == StoredRows(s)[r]
         IN  /\ v \in [Columns -> Int] /\ v[TotalCol] = SumOfMonths(v) /\ v = WithTotal(Raw(s, r))
             /\ \A m \in Months : v[m] = IF r.type = "F" THEN s[r.id][m] ELSE 0
             /\ r.type # "F" => v = [c \in Columns |-> 0]
<1> DEFINE w == Raw(s, r)
           v == WithTotal(w)
<1>1. r.id \in Ids
  BY RowsAre, IdsAre DEF Types
<1>2. /\ DOMAIN w = Columns
      /\ \A m \in Months : w[m] \in Int /\ w[m] = IF r.type = "F" THEN s[r.id][m] ELSE 0
  BY <1>1, MonthsAre DEF Raw
<1> HIDE DEF w
<1>3. /\ v \in [Columns -> Int] /\ \A m \in Months : v[m] = w[m]
      /\ v[TotalCol] = SumOfMonths(w) /\ SumOfMonths(v) = SumOfMonths(w)
  BY <1>2, RowWithTotal
<1>4. StoredRows(s)[r] = v
  BY DEF StoredRows, w, Raw
<1> HIDE DEF v
<1>5. ASSUME r.type # "F" PROVE v = [c \in Columns |-> 0]
  <2>1. \A m \in Months : v[m] = 0 /\ w[m] = 0
    BY <1>2, <1>3, <1>5
  <2>2. SumOfMonths(w) = 0
    BY <2>1, MonthsAre, SumOfNothing DEF SumOfMonths
  <2>3. \A c \in Columns : v[c] = 0
    BY <1>3, <2>1, <2>2, MonthsAre
  <2> QED BY <1>3, <2>3
<1> QED BY <1>2, <1>3, <1>4, <1>5 DEF v, w

LEMMA StoredRowsAre ==
  ASSUME NEW s \in [Ids -> [Months -> Int]]
  PROVE  LET v == StoredRows(s)
         IN  RowsTyped(v) /\ TargetsRight(v) /\ RowsClose(v) /\ Forecasts(v) = s
<1> DEFINE v == StoredRows(s)
<1>1. DOMAIN v = ProjectRows /\ v = [r \in ProjectRows |-> v[r]]
  BY DEF StoredRows
<1>2. \A r \in ProjectRows :
        /\ v[r] \in [Columns -> Int] /\ v[r][TotalCol] = SumOfMonths(v[r])
        /\ \A m \in Months : v[r][m] = IF r.type = "F" THEN s[r.id][m] ELSE 0
        /\ r.type # "F" => v[r] = [c \in Columns |-> 0]
  BY StoredRow
<1> HIDE DEF v
<1>3. RowsTyped(v)
  BY <1>1, <1>2 DEF RowsTyped
<1>4. TargetsRight(v)
  <2>1. \A q \in Tops : \A t \in {"A", "T", "L"} : Row(q, t) \in ProjectRows /\ Row(q, t).type # "F"
    BY RowsAre DEF Types
  <2> QED BY <1>2, <2>1 DEF TargetsRight
<1>5. RowsClose(v)
  <2> SUFFICES ASSUME NEW r \in ProjectRows PROVE RowClose(v, r)
    BY DEF RowsClose
  <2>1. Parent(r.id) \in Tops
    BY RowsAre, IdsAre DEF Types
  <2>2. Len(Kids[Parent(r.id)]) \in Nat
    BY <2>1, FamilyIs
  <2>3. v[r][TotalCol] - SumOfMonths(v[r]) = 0
    BY <1>2, MonthsAre
  <2> QED BY <2>2, <2>3 DEF RowClose
<1>6. Forecasts(v) = s
  <2>1. \A i \in Ids, m \in Months : v[Row(i, "F")][m] = s[i][m]
    BY <1>2, RowsAre
  <2>2. \A i \in Ids : [m \in Months |-> v[Row(i, "F")][m]] = s[i]
    BY <2>1
  <2> QED BY <2>2 DEF Forecasts
<1> QED BY <1>3, <1>4, <1>5, <1>6 DEF v

LEMMA LoadedAmounts ==
  ASSUME NEW s \in [Ids -> [Months -> Int]], NEW single, single \/ AddsUp(s), NEW active, NEW n,
         n.data = PageOf(StoredRows(s), active), n.query = NoQuery, n.radio = "All",
         n.been.single = single, n.been.query = NoQuery, n.been.radio = "All"
  PROVE  RowsOK(n) /\ SumsOK(n)
<1> DEFINE v == StoredRows(s)
           loaded == [val |-> v, active |-> active, multi |-> [p \in Tops |-> Kids[p] # <<>>], planned |-> Planned,
                      map |-> {}, total |-> [t \in Types |-> [c \in Columns |-> 0]]]
           e == Refresh(loaded, NoQuery, "All")
           d == CalculateTotal(e, "All")
<1>1. RowsTyped(v) /\ TargetsRight(v) /\ RowsClose(v) /\ Forecasts(v) = s
  BY StoredRowsAre
<1>2. n.data = d
  BY DEF PageOf
<1> HIDE DEF v
<1>3. /\ DOMAIN loaded = {"val", "active", "multi", "planned", "map", "total"} /\ loaded.val = v /\ loaded.map = {}
      /\ loaded.multi = [p \in Tops |-> Kids[p] # <<>>]
  OBVIOUS
<1> HIDE DEF loaded
<1>4. /\ DOMAIN e = DOMAIN loaded /\ e.val = v /\ e.multi = loaded.multi
      /\ MapRight(e.map, NoQuery, "All")
  <2>1. MapWithin(loaded.map, NoQuery)
    BY <1>3, EmptyMap
  <2>2. /\ DOMAIN e = DOMAIN loaded /\ e.val = loaded.val /\ e.multi = loaded.multi
        /\ MapRight(e.map, NoQuery, "All")
    <3>1. DOMAIN loaded = {"val", "active", "multi", "planned", "map", "total"}
      BY <1>3
    <3> QED BY ONLY <2>1, <3>1, Searched
  <2> QED BY <1>3, <2>2
<1> HIDE DEF e
<1>5. d = [e EXCEPT !.total = d.total] /\ TotalsRight(v, d.total, NoQuery, "All")
  <2>1. /\ DOMAIN e = {"val", "active", "multi", "planned", "map", "total"} /\ RowsTyped(e.val) /\ TargetsRight(e.val)
        /\ MapRight(e.map, NoQuery, "All")
    BY <1>1, <1>3, <1>4
  <2>2. d = [e EXCEPT !.total = d.total] /\ TotalsRight(e.val, d.total, NoQuery, "All")
    BY <2>1, TotalsSummed
  <2> QED BY <1>4, <2>2
<1> HIDE DEF d
<1>6. d.val = v /\ d.multi = [p \in Tops |-> Kids[p] # <<>>] /\ d.map = e.map
  BY <1>3, <1>4, <1>5
<1>7. DOMAIN d.multi = Tops /\ \A q \in Tops : Kids[q] # <<>> => d.multi[q]
  BY <1>6
<1>8. RowsOK(n)
  BY <1>1, <1>2, <1>4, <1>6, <1>7 DEF RowsOK
<1>9. SumsOK(n)
  BY <1>2, <1>5, <1>6 DEF SumsOK
<1> QED BY <1>8, <1>9

LEMMA NoPosts == ASSUME NEW single, NEW s \in [Ids -> [Months -> Int]], single \/ AddsUp(s) PROVE ServerOK(single, <<>>, s)
<1>1. DOMAIN <<>> = {}
  OBVIOUS
<1> DEFINE none == <<>>
<1> HIDE DEF none
<1>2. DOMAIN none = {} => ServerOK(single, none, s)
  BY DEF ServerOK
<1> QED BY <1>1, <1>2 DEF none

LEMMA ReloadAmounts ==
  ASSUME NEW s \in [Ids -> [Months -> Int]], page.been.single \/ AddsUp(s), Reload(s), stored' = s
  PROVE  AmountsInv'
<1> DEFINE active == page.data.active
           l == LoadedPage(s, active)
           failed == InFlight({"save"}) # {}
           single == page.been.single
<1>1. page' = [l EXCEPT !.been.failed = failed, !.been.single = single] /\ posts' = <<>>
  BY DEF Reload
<1>2. Fields(l) /\ l.been = NothingYet
  BY LoadedIs DEF StoredOK
<1>3. l.data = PageOf(StoredRows(s), active) /\ l.query = NoQuery /\ l.radio = "All"
  BY DEF LoadedPage
<1> HIDE DEF l
<1>4. page'.data = l.data /\ page'.query = NoQuery /\ page'.radio = "All"
  BY <1>1, <1>2, <1>3 DEF Fields
<1>5. page'.been = [NothingYet EXCEPT !.failed = failed, !.single = single]
  BY <1>1, <1>2 DEF Fields
<1>6. page'.been.single = single /\ page'.been.query = NoQuery /\ page'.been.radio = "All"
  BY <1>5 DEF NothingYet
<1>7. RowsOK(page') /\ SumsOK(page')
  <2> HIDE DEF active, single
  <2>1. single \/ AddsUp(s)
    BY DEF single
  <2> QED BY <1>3, <1>4, <1>6, <2>1, LoadedAmounts
<1>8. ServerOK(single, <<>>, s)
  BY NoPosts
<1> QED BY <1>1, <1>6, <1>7, <1>8 DEF AmountsInv

-----------------------------------------------------------------------------
(* the answers, and all steps *)

LEMMA AppliedAddsUp ==
  ASSUME AmountsInv, NEW k \in DOMAIN posts
  PROVE  /\ stored \in [Ids -> [Months -> Int]] /\ (page.been.single \/ AddsUp(stored))
         /\ Applied(k) \in [Ids -> [Months -> Int]] /\ (page.been.single \/ AddsUp(Applied(k)))
<1> DEFINE post == posts[k]
           single == page.been.single
<1>1. stored \in [Ids -> [Months -> Int]] /\ (single \/ AddsUp(stored)) /\ PostOK(single, post)
  BY DEF AmountsInv, ServerOK
<1>2. Applied(k) = [i \in Ids |-> IF i \in DOMAIN post.parts THEN [stored[i] EXCEPT ![post.month] = post.parts[i]] ELSE stored[i]]
  BY DEF Applied
<1> HIDE DEF post
<1>3. CASE post.parts = <<>>
  <2>1. DOMAIN post.parts = {}
    BY <1>3
  <2>2. Applied(k) = [i \in Ids |-> stored[i]]
    BY <1>2, <2>1
  <2>3. Applied(k) = stored
    BY <1>1, <2>2
  <2> QED BY <1>1, <2>3
<1>4. CASE \E q \in Tops : PartsOK(single, q, post.month, post.parts)
  <2>1. PICK q \in Tops : PartsOK(single, q, post.month, post.parts)
    BY <1>4
  <2>2. DOMAIN post.parts = ToSet(Family(q))
    BY <2>1 DEF PartsOK
  <2>3. Applied(k) = WithParts(stored, q, post.month, post.parts)
    BY <1>2, <2>2 DEF WithParts
  <2> DEFINE u == WithParts(stored, q, post.month, post.parts)
  <2> HIDE DEF single
  <2>4. u \in [Ids -> [Months -> Int]] /\ (single \/ AddsUp(u))
    BY <1>1, <2>1, MonthAddsUp
  <2> HIDE DEF u
  <2>5. Applied(k) \in [Ids -> [Months -> Int]] /\ (single \/ AddsUp(Applied(k)))
    BY <2>3, <2>4 DEF u
  <2> QED BY <1>1, <2>5 DEF single
<1> QED BY <1>1, <1>3, <1>4 DEF PostOK

LEMMA AnsweredAmounts ==
  ASSUME PageInv, AmountsInv, NEW k \in DOMAIN posts, SameAmounts(page, page'), posts' = RemoveAt(posts, k),
         stored' = stored \/ stored' = Applied(k)
  PROVE  AmountsInv'
<1> DEFINE single == page.been.single
           t == RemoveAt(posts, k)
<1>1. PostsInv(posts) /\ ServerOK(single, posts, stored)
  BY DEF PageInv, PageInvOf, AmountsInv
<1>2. ServerOK(single, t, stored)
  BY <1>1, PostsOK
<1> HIDE DEF t
<1>3. ServerOK(single, t, stored')
  BY <1>2, AppliedAddsUp DEF ServerOK
<1>4. RowsOK(page') /\ SumsOK(page') /\ page'.been.single = single
  BY SameRows DEF SameAmounts
<1> QED BY <1>3, <1>4 DEF AmountsInv, t

LEMMA AnswersAmounts == ASSUME PageInv, AmountsInv, NEW kind, AnswerTo(kind) PROVE AmountsInv'
<1>1. PICK k \in DOMAIN posts : SaveAnswered(k) \/ SaveFails(k) \/ PostAnswered(k) \/ StoreFails(k) \/ PostRefused(k)
  BY DEF AnswerTo, InFlight
<1>2. Fields(page)
  BY PageFields
<1>3. CASE SaveAnswered(k)
  <2>1. stored' = Applied(k)
    BY <1>3 DEF SaveAnswered
  <2>2. CASE posts[k].reload
    <3>1. Reload(stored')
      BY <1>3, <2>2 DEF SaveAnswered
    <3> QED BY <2>1, <3>1, AppliedAddsUp, ReloadAmounts
  <2>3. CASE ~posts[k].reload
    <3>1. page' = [page EXCEPT !.saving = FALSE] /\ posts' = RemoveAt(posts, k)
      BY <1>3, <2>3 DEF SaveAnswered
    <3>2. SameAmounts(page, page')
      BY <1>2, <3>1 DEF SameAmounts, Fields
    <3> QED BY <2>1, <3>1, <3>2, AnsweredAmounts
  <2> QED BY <2>2, <2>3
<1>4. CASE SaveFails(k)
  <2> DEFINE r == Redraw(page)
             modal == posts[k].modal
  <2>1. /\ page' = [r EXCEPT !.saving = FALSE, !.been.failed = TRUE, !.been.poFailed = r.been.poFailed \/ modal]
        /\ posts' = RemoveAt(posts, k) /\ (stored' = stored \/ stored' = Applied(k))
    BY <1>4 DEF SaveFails
  <2>2. SameAmounts(page, r) /\ Fields(r)
    BY <1>2, RedrawSame
  <2> HIDE DEF r, modal
  <2>3. SameAmounts(r, page')
    BY <2>1, <2>2 DEF SameAmounts, Fields
  <2>4. SameAmounts(page, page')
    BY <2>2, <2>3, SameAgain
  <2> QED BY <2>1, <2>4, AnsweredAmounts
<1>5. CASE PostAnswered(k)
  BY <1>5, AppliedAddsUp, ReloadAmounts DEF PostAnswered
<1>6. CASE StoreFails(k) \/ PostRefused(k)
  BY <1>2, <1>6, AnswersQuiet, QuietStepKeeps
<1> QED BY <1>1, <1>3, <1>4, <1>5, <1>6

LEMMA LeavePageAmounts == ASSUME AmountsInv, LeavePage PROVE AmountsInv'
<1>1. stored' \in {stored} \cup {Applied(k) : k \in InFlight({"save"})} /\ Reload(stored')
  BY DEF LeavePage
<1>2. stored \in [Ids -> [Months -> Int]] /\ (page.been.single \/ AddsUp(stored))
  BY DEF AmountsInv, ServerOK
<1>3. stored' \in [Ids -> [Months -> Int]] /\ (page.been.single \/ AddsUp(stored'))
  BY <1>1, <1>2, AppliedAddsUp DEF InFlight
<1> QED BY <1>1, <1>3, ReloadAmounts

LEMMA InitAmounts == Init => AmountsInv
<1> SUFFICES ASSUME Init PROVE AmountsInv
  OBVIOUS
<1> DEFINE active == IF "active" \in doing THEN Tops ELSE {}
           l == LoadedPage(stored, active)
           single == FALSE
<1>1. page = l /\ posts = <<>> /\ stored = [i \in Ids |-> [m \in Months |-> 0]]
  BY DEF Init
<1>2. stored \in [Ids -> [Months -> Int]]
  BY <1>1
<1>3. AddsUp(stored)
  <2> SUFFICES ASSUME NEW q \in Tops, NEW m \in Months
               PROVE  stored[q][m] = SumFunctionOnSet([i \in Ids |-> stored[i][m]], KidsOf(q))
    BY DEF AddsUp
  <2> DEFINE f == [i \in Ids |-> stored[i][m]]
  <2>1. q \in Ids /\ KidsOf(q) \subseteq Ids /\ IsFiniteSet(KidsOf(q))
    BY FamilyIs
  <2>2. stored[q][m] = 0 /\ \A i \in KidsOf(q) : f[i] = 0
    BY <1>1, <2>1
  <2> HIDE DEF f
  <2>3. SumFunctionOnSet(f, KidsOf(q)) = 0
    BY <2>1, <2>2, SumOfNothing
  <2> QED BY <2>2, <2>3 DEF f
<1> HIDE DEF active
<1>4. /\ l.data = PageOf(StoredRows(stored), active) /\ l.query = NoQuery /\ l.radio = "All"
      /\ l.been.single = single /\ l.been.query = NoQuery /\ l.been.radio = "All"
  BY DEF LoadedPage, NothingYet
<1> HIDE DEF l, single
<1>5. RowsOK(l) /\ SumsOK(l)
  BY <1>2, <1>3, <1>4, LoadedAmounts
<1>6. ServerOK(single, <<>>, stored)
  BY <1>2, <1>3, NoPosts
<1> QED BY <1>1, <1>4, <1>5, <1>6 DEF AmountsInv

LEMMA NextAmounts == PageInv /\ AmountsInv /\ [Next]_vars => AmountsInv'
<1> SUFFICES ASSUME PageInv, AmountsInv, [Next]_vars PROVE AmountsInv'
  OBVIOUS
<1>0. Fields(page)
  BY PageFields
<1>1. CASE UNCHANGED vars
  BY <1>1 DEF vars, AmountsInv
<1>2. CASE OpenCell \/ EscapeKey
  BY <1>0, <1>2, OpenCellQuiet, QuietStepKeeps
<1>3. CASE CommitMonth \/ CommitPO \/ CommitBrand \/ ClickBrand
  BY <1>3, CommitMonthAmounts, CommitPOAmounts, CommitBrandAmounts, ClickBrandAmounts
<1>4. CASE OpenPopupCell \/ CommitPopupBrand \/ CommitPopupTotal \/ AddRow \/ DeleteRows
  BY <1>0, <1>4, RowsEditedQuiet, CommittedQuiet, QuietStepKeeps
<1>5. CASE SaveAndClose \/ CloseWithoutSave
  BY <1>0, <1>5, SaveAndCloseAmounts, CloseWithoutSaveQuiet, QuietStepKeeps
<1>6. CASE CreateProject \/ EditNew \/ ClickNewBrand \/ SubmitProjects
  BY <1>0, <1>6, CreateProjectAmounts, EditNewQuiet, ClickNewBrandQuiet, SubmitProjectsQuiet, QuietStepKeeps
<1>7. CASE PostProject \/ OpenWindow \/ CloseWindow \/ Narrow \/ Widen
  BY <1>0, <1>7, PostProjectQuiet, WindowsQuiet, QuietStepKeeps
<1>8. CASE Search \/ RadioButton
  BY <1>8, SearchAmounts, RadioButtonAmounts
<1>9. CASE (\E kind \in Kinds : AnswerTo(kind)) \/ LeavePage
  BY <1>9, AnswersAmounts, LeavePageAmounts
<1> QED BY <1>1, <1>2, <1>3, <1>4, <1>5, <1>6, <1>7, <1>8, <1>9 DEF Next

LEMMA AmountsInvAlways == Spec => []AmountsInv
BY InitAmounts, NextAmounts, PageInvAlways, PTL DEF Spec

-----------------------------------------------------------------------------
(* the theorems *)

\* What the page shows is what the server has, unless a save is on its way, has
\* failed or months were cleared for sub-projects; and there is one save at a time
\* (the "Saving data..." text in onBeforeEditCell and saveEditedCell).
THEOREM ShownIsSaved == Spec => []SavedIsShown
<1>1. PageInv => SavedIsShown
  <2> SUFFICES ASSUME PageInv PROVE SavedIsShown
    OBVIOUS
  <2>1. SavedInv(page, posts, stored)
    BY DEF PageInv, PageInvOf
  <2>2. InFlight({"save"}) = Saves(posts)
    BY DEF InFlight, Saves
  <2>3. Cardinality(InFlight({"save"})) <= 1
    BY <2>1, <2>2, AloneIsOne DEF SavedInv
  <2>4. \A i, m : Forecast(i, m) = Shown(page, i, m)
    BY DEF Forecast, Shown
  <2> QED BY <2>1, <2>2, <2>3, <2>4 DEF SavedIsShown, SavedInv
<1> QED BY <1>1, PageInvAlways, PTL

\* While the server creates, divides, initiates or deletes projects, nothing of that
\* kind is started again, unless the overlay was passed by.
THEOREM RequestsAlone == Spec => []OneRequest
<1>1. PageInv => OneRequest
  <2> SUFFICES ASSUME PageInv, ~(page.been.squeezed \/ page.been.loose)
               PROVE  Cardinality(InFlight({"store", "brands", "initiate", "disable"})) <= 1
    BY DEF OneRequest
  <2>1. OverlaySound(page, posts)
    BY DEF PageInv, PageInvOf, OverlayInv, Passed
  <2>2. InFlight({"store", "brands", "initiate", "disable"}) \subseteq ModalsOf(posts)
    BY <2>1 DEF OverlaySound, InFlight, ModalsOf, Big
  <2>3. Alone(InFlight({"store", "brands", "initiate", "disable"}))
    BY <2>1, <2>2 DEF OverlaySound, Alone
  <2> QED BY <2>3, AloneIsOne
<1> QED BY <1>1, PageInvAlways, PTL

\* The overlay always stands for a window, the popup, a narrow window, a post or a PO
\* number that was not saved, and Submit comes back: however posts end, the page
\* does not stay locked behind them.
THEOREM PageUsable == Spec => []Usable
<1>1. PageInv => Usable
  <2> SUFFICES ASSUME PageInv PROVE OverlayRight /\ ButtonBack
    BY DEF Usable
  <2>1. OverlayRight
    BY DEF PageInv, PageInvOf, OverlayInv, OverlaySound, Passed, Modal, OverlayRight
  <2>2. ButtonBack
    BY DEF PageInv, PageInvOf, ButtonInv, ButtonBack, InFlight
  <2> QED BY <2>1, <2>2
<1> QED BY <1>1, PageInvAlways, PTL

\* The loop over the shares hangs only below a row without a brand, and a popup opens
\* without anything of the one before, unless that was closed under an open editor.
THEOREM PopupStaysSound == Spec => []PopupSound
<1>1. PageInv => PopupSound
  <2> SUFFICES ASSUME PageInv PROVE NotHung /\ PopupForgets
    BY DEF PopupSound
  <2>1. PopupInv(page)
    BY DEF PageInv, PageInvOf
  <2>2. NotHung
    BY <2>1 DEF PopupInv, HungInv, NotHung
  <2>3. PopupForgets
    BY <2>1 DEF PopupInv, BlankInv, PopupForgets
  <2> QED BY <2>2, <2>3
<1> QED BY <1>1, PageInvAlways, PTL

LEMMA FamilySummed == AmountsInv => FamilyAddsUp
<1> SUFFICES ASSUME AmountsInv, ~(page.been.single \/ page.been.cleared), NEW p \in Tops, NEW m \in Months, Kids[p] # <<>>
             PROVE  Forecast(p, m) = SumFunction([i \in ToSet(Kids[p]) |-> Forecast(i, m)])
  BY DEF FamilyAddsUp
<1> DEFINE w == Forecasts(page.data.val)
           f == [i \in Ids |-> w[i][m]]
           g == [i \in ToSet(Kids[p]) |-> Forecast(i, m)]
<1>1. w[p][m] = SumFunctionOnSet(f, KidsOf(p))
  BY DEF AmountsInv, RowsOK, AddsUp
<1>2. p \in Ids /\ KidsOf(p) \subseteq Ids /\ IsFiniteSet(KidsOf(p)) /\ DOMAIN g = KidsOf(p)
  BY FamilyIs DEF KidsOf
<1>3. \A i \in Ids : w[i][m] = Forecast(i, m)
  BY DEF Forecasts, Forecast
<1>4. \A i \in KidsOf(p) : f[i] = g[i]
  BY <1>2, <1>3 DEF KidsOf
<1>5. w[p][m] = Forecast(p, m)
  BY <1>2, <1>3
<1> HIDE DEF f, g, w
<1>6. SumFunctionOnSet(f, KidsOf(p)) = SumFunctionOnSet(g, KidsOf(p))
  BY <1>2, <1>4, SumSame
<1>7. Forecast(p, m) = SumFunction(g)
  BY <1>1, <1>2, <1>5, <1>6 DEF SumFunction
<1> QED BY <1>7 DEF g

\* The months of the sub-projects add up to those of their project, whatever their
\* shares and however these are rounded, unless a project was to be a single brand
\* again or months were cleared (updateMemCache gives the rest to the last one).
THEOREM FamiliesStayTogether == Spec => []FamilyAddsUp
BY AmountsInvAlways, FamilySummed, PTL

\* When the shares make a hundred percent, the families add up and every row's total is
\* that of its months; that of a last sub-project, which gets what is left by rounding
\* all others, is off by at most one for each sub-project (updateMemCache).
THEOREM AmountsStayTogether == ASSUME WholeShares PROVE Spec => []AmountsAddUp
<1>1. AmountsInv => AmountsAddUp
  <2> SUFFICES ASSUME AmountsInv PROVE FamilyAddsUp /\ RowTotalsClose
    BY DEF AmountsAddUp
  <2>1. FamilyAddsUp
    BY FamilySummed
  <2>2. page.been.cleared \/ RowsClose(page.data.val)
    BY DEF AmountsInv, RowsOK
  <2>3. RowTotalsClose
    BY <2>2 DEF RowsClose, RowClose, RowTotalsClose
  <2> QED BY <2>1, <2>3
<1> QED BY <1>1, AmountsInvAlways, PTL

\* The total rows are those of what the search finds, each project counted once, as
\* soon as a value has changed (searchProject and calculateTotal).
THEOREM TotalsStayCurrent == Spec => []TotalsCurrent
<1>1. AmountsInv => TotalsCurrent
  <2> SUFFICES ASSUME AmountsInv, page.been.query = page.query, ~page.been.cleared
               PROVE  LET found == Found(page.query)
                          once  == Once(page.query)
                          sum(t, ids) == [c \in Columns |-> SumFunction([i \in ids |-> page.data.val[Row(i, t)][c]])]
                      IN  /\ page.data.total["F"] = sum("F", once)
                          /\ (page.been.radio = "All" /\ found \cap Tops # {}) =>
                               /\ page.data.total["T"] = sum("T", found \cap Tops)
                               /\ page.data.total["L"] = sum("L", found \cap Tops)
    BY DEF TotalsCurrent, Found, Once
  <2>1. TotalsRight(page.data.val, page.data.total, page.query, page.been.radio)
    BY DEF AmountsInv, SumsOK
  <2> QED BY <2>1 DEF TotalsRight, SumRow
<1> QED BY <1>1, AmountsInvAlways, PTL
=============================================================================
