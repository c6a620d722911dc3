------------------------------ MODULE EditPage ------------------------------
(***************************************************************************)
(* The budget page as its user and its server drive it (editProjects.jsp   *)
(* and scripts/editProjects.js): months, PO numbers and brands are edited  *)
(* and saved at once, sub-projects are entered in a popup, projects are    *)
(* created, initiated and deleted, and the server answers when it will.    *)
(* One overlay and one status text keep these from mixing.  The two grids  *)
(* of the page share an editor lock.  An action is one handler.            *)
(***************************************************************************)
EXTENDS PageData, BrandPopup

CONSTANTS
  Amounts,      \* what is typed into a month
  Totals,       \* what is typed into a total of the popup
  Brands,       \* valid brands
  KidTotal,     \* KidTotal[k]: the planned total of a sub-project, as loaded
  MaxPosts,     \* bound of the model: posts in flight
  MaxNew,       \* bound of the model: projects being created, one if the popup is filled in
  MaxEdits,     \* bound of the model: the popup is edited so often on one page
  Sessions      \* the sets of things a user does on one page, with all of its projects active or none

ASSUME AmountsAssumption == Amounts \subseteq Int

\* The bounds leave room for the sub-projects that are loaded and for one new project.
ASSUME BoundsAssumption ==
  MaxPosts \in Nat /\ MaxNew \in Nat \ {0} /\ \A p \in Tops : Len(Kids[p]) <= MaxRows

VARIABLES
  page,         \* the page: see LoadedPage
  posts,        \* posts in flight
  stored,       \* the forecast months on the server
  doing         \* what the user does in this session: a bound of the model
vars == <<page, posts, stored, doing>>

Smart  == "Smart WBS"
NoCell == [on |-> "none"]

NewProject == [named |-> FALSE, po |-> 0, brand |-> "", multi |-> FALSE, rows |-> BlankRows]

\* clean: the shares have been computed from the totals and no row has been deleted,
\* refused or left without its brand since; nor was the popup opened while it was open.
ClosedPopup == [open |-> FALSE, rows |-> BlankRows, for |-> NoCell, clean |-> TRUE]

\* What has happened to the page, for the properties.  failed: a save was not
\* answered; cleared: months were cleared for sub-projects; query, radio: what
\* the total rows were last computed for; squeezed: the window became narrow under
\* the overlay; loose: a post or a popup was started without the overlay or under it; poFailed: the
\* save of a PO number was not answered; single: a project was to get one brand
\* again; typed: a popup closed with an open editor has got its text.
NothingYet == [failed |-> FALSE, cleared |-> FALSE, query |-> NoQuery, radio |-> "All",
               squeezed |-> FALSE, loose |-> FALSE, poFailed |-> FALSE, single |-> FALSE, typed |-> FALSE]

StoredRows(s) ==
  [r \in ProjectRows |-> WithTotal([c \in Columns |-> IF r.type = "F" /\ c \in Months THEN s[r.id][c] ELSE 0])]

LoadedBrand == [p \in Tops |-> IF Kids[p] = <<>> THEN "b" ELSE Smart]

\* kept is the brand to go back to.  guard is disableGrid: posts of the popup show the overlay.  cell is what is
\* being edited, and so the holder of the editor lock.
LoadedPage(s, active) ==
  [data |-> PageOf(StoredRows(s), active), query |-> NoQuery, radio |-> "All", cell |-> NoCell,
   brand |-> LoadedBrand, kept |-> LoadedBrand,
   popup |-> ClosedPopup, guard |-> FALSE, toSingle |-> FALSE, new |-> <<>>,
   overlay |-> FALSE, saving |-> FALSE, window |-> FALSE, narrow |-> FALSE,
   button |-> TRUE, rejected |-> FALSE, hung |-> FALSE, edits |-> 0, been |-> NothingYet]

Init ==
  /\ stored = [i \in Ids |-> [m \in Months |-> 0]]
  /\ posts = <<>>
  /\ doing \in Sessions
  /\ page = LoadedPage(stored, IF "active" \in doing THEN Tops ELSE {})

-----------------------------------------------------------------------------
(* common steps *)

Post(kind, modal) == [kind |-> kind, modal |-> modal, reload |-> FALSE, parts |-> <<>>, month |-> 0]
InFlight(kinds) == {k \in DOMAIN posts : posts[k].kind \in kinds}
Sends(post) == Len(posts) < MaxPosts /\ posts' = Append(posts, post)

Becomes(p) == page' = p /\ UNCHANGED <<stored, doing>>
Shows(p)   == Becomes(p) /\ UNCHANGED posts

Clickable == ~page.hung /\ ~page.overlay

\* What the server has after a save.
Applied(k) ==
  LET post == posts[k]
  IN  [i \in Ids |-> IF i \in DOMAIN post.parts THEN [stored[i] EXCEPT ![post.month] = post.parts[i]] ELSE stored[i]]

\* grid.invalidate: the grid's own editor closes, its buttons are drawn anew.
Redraw(p) == [p EXCEPT !.cell = IF @.on = "popup" THEN @ ELSE NoCell, !.button = TRUE]

Recalculated(p) ==
  [p EXCEPT !.data = Refresh(CalculateTotal(@, p.radio), p.query, p.radio),
            !.been.query = p.query, !.been.radio = p.radio]

\* The page is loaded again; what is in flight may still reach the server.
Reload(s) ==
  /\ page' = [LoadedPage(s, page.data.active) EXCEPT !.been.failed = InFlight({"save"}) # {}, !.been.single = page.been.single]
  /\ posts' = <<>>
  /\ UNCHANGED doing

-----------------------------------------------------------------------------
(* editing the grid *)

\* Mutant of Editable: edits are not held up by a save.
EditableAnyTime(c) ==
  /\ ~page.overlay
  /\ c.on \in {"po", "brand"} => c.id \notin page.data.active

\* onBeforeEditCell: "Stop auto saving data until completed", "Stop editing
\* while screen is disabled".
Editable(c) ==
  /\ ~page.saving
  /\ ~page.overlay
  /\ c.on \in {"po", "brand"} => c.id \notin page.data.active

Cells == {[on |-> "month", id |-> p, month |-> m] : p \in Tops, m \in Months}
           \cup {[on |-> on, id |-> p] : on \in {"po", "brand"}, p \in Tops}

OpenCell ==
  /\ ~page.hung /\ page.cell = NoCell
  /\ \E c \in Cells : c.on \in doing /\ Editable(c) /\ Shows([page EXCEPT !.cell = c])

EscapeKey ==
  /\ ~page.hung /\ page.cell # NoCell
  /\ page.cell.on = "popup" => page.popup.open
  /\ Shows([page EXCEPT !.cell = NoCell])

\* A value that is not accepted is put back; the next click on Submit is lost.
Rejected == Shows([Redraw(page) EXCEPT !.rejected = TRUE])

CommitMonth ==
  /\ ~page.hung /\ page.cell.on = "month"
  /\ LET p == page.cell.id  m == page.cell.month
     IN  \E amount \in Amounts \ {page.data.val[Row(p, "F")][m]} :
           IF Exceeds(page.data, p, m, amount) THEN Rejected
           ELSE /\ Sends([Post("save", FALSE) EXCEPT !.month = m, !.parts = Parts(page.data, p, amount)])
                /\ Becomes([Recalculated([Redraw(page) EXCEPT !.data = EditMonth(@, p, m, amount)])
                              EXCEPT !.saving = TRUE])

\* A PO number is saved after a question, under the overlay; with "no" the cell
\* is empty and edited again.
CommitPO ==
  /\ ~page.hung /\ page.cell.on = "po"
  /\ \/ Shows([page EXCEPT !.saving = FALSE, !.button = TRUE])
     \/ /\ Sends([Post("save", TRUE) EXCEPT !.reload = TRUE])
        /\ Becomes([Recalculated(Redraw(page)) EXCEPT !.saving = TRUE, !.overlay = TRUE,
                                                      !.been.loose = @ \/ page.overlay])

\* What the popup shows of a project: its sub-projects as the page was loaded
\* with them, or the project as its own first sub-project.
KidRows(p) ==
  [n \in DOMAIN Kids[p] |->
     LET k == Kids[p][n]
     IN  [First(BlankRow) EXCEPT !.brand = k, !.num = n, !.old = TRUE, !.total = KidTotal[k],
                                 !.share = Share[k], !.was = KidTotal[k], !.wasShare = Share[k]]]

PopupFor(s, c, rows) ==
  [s EXCEPT !.popup = [open |-> TRUE, rows |-> rows, for |-> c, clean |-> ~s.popup.open],
            !.cell = IF @.on = "popup" THEN @ ELSE NoCell, !.overlay = TRUE,
            !.been.loose = @ \/ s.overlay]

SingleRows(p) == Single(page.popup.rows, page.brand[p], page.data.val[Row(p, "F")][TotalCol])

\* A brand: one that is not known, another one, or "Smart WBS", which with Tab
\* opens the popup (and its post will not show the overlay) and otherwise stays
\* in the cell, unsaved.
CommitBrand ==
  /\ ~page.hung /\ page.cell.on = "brand"
  /\ LET p == page.cell.id
     IN  \/ Rejected
         \/ \E b \in Brands \ {page.brand[p]} :
              /\ Sends([Post("save", FALSE) EXCEPT !.reload = page.toSingle])
              /\ Becomes([Recalculated([Redraw(page) EXCEPT !.brand[p] = b, !.kept[p] = b]) EXCEPT !.saving = TRUE])
         \/ ~page.data.multi[p] /\ Shows(Recalculated([Redraw(page) EXCEPT !.brand[p] = Smart]))
         \/ /\ ~page.data.multi[p]
            /\ Shows(Recalculated(PopupFor([Redraw(page) EXCEPT !.brand[p] = Smart],
                                           [on |-> "project", id |-> p], SingleRows(p))))

\* A click on "Smart WBS" of a project: the popup, or, for a project that is not
\* active and a "yes", one brand again; its cell is then being edited.
ClickBrand ==
  /\ "popup" \in doing /\ Clickable /\ page.cell = NoCell
  /\ \E p \in Tops :
       /\ page.brand[p] = Smart
       /\ \/ LET rows == IF page.data.multi[p] THEN Existing(page.popup.rows, KidRows(p)) ELSE SingleRows(p)
             IN  Shows([PopupFor(page, [on |-> "project", id |-> p], rows) EXCEPT !.guard = TRUE])
          \/ /\ "brand" \in doing /\ p \notin page.data.active
             /\ Shows([page EXCEPT !.toSingle = TRUE, !.data.multi[p] = FALSE, !.been.single = TRUE,
                                   !.cell = IF page.saving THEN @ ELSE [on |-> "brand", id |-> p]])

-----------------------------------------------------------------------------
(* the popup *)

InPopup == ~page.hung /\ page.popup.open
IsNew == page.popup.for.on = "new"
WithRows(rows) == [page EXCEPT !.popup.rows = rows]
MayEdit == InPopup /\ page.edits < MaxEdits
Edited(rows) == [WithRows(rows) EXCEPT !.edits = @ + 1]

OpenPopupCell ==
  /\ "cells" \in doing /\ MayEdit /\ page.cell = NoCell
  /\ \E i \in DOMAIN page.popup.rows, field \in {"brand", "total"} :
       /\ ~Refuses(page.popup.rows, i, field, ~IsNew /\ page.popup.for.id \in page.data.active)
       /\ Shows([Edited(Opened(page.popup.rows, i, field))
                   EXCEPT !.cell = [on |-> "popup", row |-> i, field |-> field]])

\* The value of a cell of the popup is taken over, even when the popup has been
\* closed: the next click into the grid finds its editor.
PopupCommit(rows) ==
  [WithRows(rows) EXCEPT !.cell = NoCell, !.been.typed = @ \/ ~page.popup.open]

InCell(field) ==
  /\ ~page.hung /\ page.cell.on = "popup" /\ page.cell.field = field
  /\ page.popup.open \/ ~page.overlay
  /\ page.cell.row \in DOMAIN page.popup.rows

CommitPopupBrand ==
  /\ InCell("brand")
  /\ \E b \in Brands \cup {""} :
       /\ b # page.popup.rows[page.cell.row].brand
       /\ Shows([PopupCommit([page.popup.rows EXCEPT ![page.cell.row].brand = b])
                  EXCEPT !.popup.clean = @ /\ b # ""])

CommitPopupTotal ==
  /\ InCell("total")
  /\ \E total \in Totals :
       LET i == page.cell.row
           rows == [page.popup.rows EXCEPT ![i].total = total]
       IN  /\ total # page.popup.rows[i].total
           /\ Shows(IF total < 0 THEN [PopupCommit(Restored(rows, i)) EXCEPT !.popup.clean = FALSE]
                    ELSE IF Hangs(rows) THEN [PopupCommit(rows) EXCEPT !.hung = TRUE]
                    ELSE [PopupCommit(Grown(ShareOut(rows), i)) EXCEPT !.popup.clean = TRUE])

AddRow ==
  /\ "rows" \in doing /\ MayEdit /\ Len(page.popup.rows) < MaxRows
  /\ Shows([Edited(Append(page.popup.rows, BlankRow)) EXCEPT !.cell = IF @.on = "popup" THEN NoCell ELSE @])

\* The selected rows are deleted one by one, after a question each; a "no" ends
\* it there, without computing the shares.
DeleteRows ==
  /\ "rows" \in doing /\ MayEdit
  /\ \E gone \in SUBSET DOMAIN page.popup.rows :
       LET done == [Edited(Delete(page.popup.rows, gone, IsNew)) EXCEPT !.popup.clean = FALSE]
       IN  \/ Shows([done EXCEPT !.cell = IF @.on = "popup" THEN NoCell ELSE @])
           \/ /\ gone \notin {{}, DOMAIN page.popup.rows}
              /\ Shows([Edited(Without(page.popup.rows, gone)) EXCEPT !.popup.clean = FALSE])

\* Mutant of Hidden: the rows stay.
HiddenFull(p) ==
  [Redraw(p) EXCEPT !.popup = [ClosedPopup EXCEPT !.rows = p.popup.rows], !.overlay = FALSE]

\* The popup is hidden, with an editor that may be open.
Hidden(p) ==
  [Redraw(p) EXCEPT !.popup = [ClosedPopup EXCEPT !.rows = [i \in DOMAIN p.popup.rows |-> BlankRow]],
                    !.overlay = FALSE]

SaveAndClose ==
  /\ InPopup
  /\ LET rows == Owned(page.popup.rows)
         for  == page.popup.for
     IN  IF SaveRefused(rows) THEN Shows(WithRows(rows))
         ELSE IF IsNew
         THEN Shows([Hidden(page) EXCEPT !.new[for.id].multi = TRUE, !.new[for.id].rows = rows])
         ELSE /\ Sends(Post("brands", page.guard))
              /\ Becomes([Hidden(page) EXCEPT !.data = ClearMonths(@, for.id, PlannedTotal(rows)),
                                              !.overlay = page.guard, !.been.cleared = TRUE,
                                              !.been.loose = @ \/ ~page.guard])

CloseWithoutSave ==
  /\ InPopup
  /\ LET for == page.popup.for
     IN  Shows(IF IsNew THEN [Hidden(page) EXCEPT !.new[for.id].brand = ""]
               ELSE IF page.data.multi[for.id] THEN Hidden(page)
               ELSE [Hidden(page) EXCEPT !.brand[for.id] = page.kept[for.id]])

-----------------------------------------------------------------------------
(* new projects *)

\* A new project clears the search; what is shown is not summed again.
CreateProject ==
  /\ "new" \in doing /\ Clickable /\ page.cell = NoCell
  /\ Len(page.new) < IF "cells" \in doing THEN 1 ELSE MaxNew
  /\ Shows([page EXCEPT !.new = Append(@, NewProject), !.query = NoQuery,
                        !.data = Refresh(@, NoQuery, page.radio)])

NewPopup(k) ==
  LET n == page.new[k]
  IN  PopupFor([Redraw(page) EXCEPT !.new[k].brand = Smart], [on |-> "new", id |-> k],
               IF n.multi THEN n.rows ELSE [page.popup.rows EXCEPT ![1] = First(@)])

\* The fields of a new project are not saved before it is submitted.  The popup
\* wants its name first.
EditNew ==
  /\ "new" \in doing /\ Clickable /\ ~page.saving /\ page.cell = NoCell
  /\ \E k \in DOMAIN page.new :
       LET n == page.new[k]
           Set(m) == Shows([Redraw(page) EXCEPT !.new[k] = m])
       IN  \/ \E named \in BOOLEAN : Set([n EXCEPT !.named = named])
           \/ \E po \in {0, 1} : Set([n EXCEPT !.po = po])
           \/ \E b \in Brands \cup {Smart} : Set([n EXCEPT !.brand = b])
           \/ Rejected
           \/ IF n.named THEN Shows(NewPopup(k)) ELSE Set([n EXCEPT !.brand = ""])

ClickNewBrand ==
  /\ "new" \in doing /\ Clickable /\ page.cell = NoCell
  /\ \E k \in DOMAIN page.new :
       LET n == page.new[k]
       IN  /\ n.brand = Smart
           /\ \/ Shows(IF n.named THEN NewPopup(k) ELSE [Redraw(page) EXCEPT !.new[k].brand = ""])
              \/ Shows([page EXCEPT !.new[k].multi = FALSE, !.toSingle = TRUE])

SamePO(n, m) == n.po # 0 /\ n.po = m.po
Unbranded(n) == n.brand = Smart /\ ~n.multi

\* Submit looks at the projects from the last to the first.  Missing sub-projects
\* leave the button as it is, another error frees it.
SubmitProjects ==
  /\ Clickable /\ page.cell = NoCell /\ page.button /\ page.new # <<>>
  /\ LET wrong(k) == LET n == page.new[k] IN
                      \/ ~n.named \/ n.brand = ""
                      \/ \E j \in (k + 1)..Len(page.new) : SamePO(n, page.new[j])
         bad == {k \in DOMAIN page.new : wrong(k) \/ Unbranded(page.new[k])}
     IN  IF page.rejected THEN Shows([page EXCEPT !.rejected = FALSE])
         ELSE IF bad = {} THEN /\ Sends(Post("store", TRUE))
                               /\ Becomes([page EXCEPT !.button = FALSE, !.overlay = TRUE])
         ELSE Shows([page EXCEPT !.button = ~Unbranded(page.new[Max(bad)])])

-----------------------------------------------------------------------------
(* the rest of the page *)

\* Mutant of PostProject: the page stays enabled.
PostProjectQuietly ==
  /\ "posts" \in doing /\ Clickable
  /\ \E kind \in {"initiate", "disable"} : Sends(Post(kind, FALSE)) /\ Becomes(page)

\* Initiation and deletion of a project.
PostProject ==
  /\ "posts" \in doing /\ Clickable
  /\ \E kind \in {"initiate", "disable"} :
       /\ kind = "initiate" => page.cell = NoCell
       /\ Sends(Post(kind, TRUE))
       /\ Becomes([page EXCEPT !.overlay = TRUE])

\* The upload and download windows.
OpenWindow  == "window" \in doing /\ Clickable /\ Shows([page EXCEPT !.overlay = TRUE, !.window = TRUE])
CloseWindow == ~page.hung /\ page.window /\ Shows([page EXCEPT !.overlay = FALSE, !.window = FALSE])

\* A window of less than 900 pixels shows a warning.
Narrow ==
  /\ "narrow" \in doing /\ ~page.hung /\ ~page.narrow
  /\ Shows([page EXCEPT !.narrow = TRUE, !.overlay = TRUE, !.been.squeezed = @ \/ page.overlay])
Widen ==
  /\ ~page.hung /\ page.narrow
  /\ Shows([page EXCEPT !.narrow = FALSE, !.overlay = FALSE])

\* Mutant of Search: the totals are computed before the rows are filtered.
SearchLate ==
  /\ "search" \in doing /\ Clickable
  /\ \E q \in {NoQuery} \cup Ids :
       LET p == [page EXCEPT !.cell = NoCell, !.query = q]
           c == [Recalculated(p) EXCEPT !.data.map = {}]
       IN  q # page.query /\ Shows([c EXCEPT !.data = Refresh(@, q, page.radio)])

Search ==
  /\ "search" \in doing /\ Clickable
  /\ \E q \in {NoQuery} \cup Ids :
       LET p == [page EXCEPT !.cell = NoCell, !.query = q,
                             !.data = Refresh([@ EXCEPT !.map = {}], q, page.radio)]
       IN  q # page.query /\ Shows(Recalculated(p))

RadioButton ==
  /\ "search" \in doing /\ Clickable
  /\ \E radio \in {"All", "Forecast"} \ {page.radio} :
       Shows([page EXCEPT !.cell = NoCell, !.radio = radio, !.data = Refresh(@, page.query, radio)])

-----------------------------------------------------------------------------
(* the answers *)

Answered(k, p) == page' = p /\ posts' = RemoveAt(posts, k) /\ UNCHANGED <<stored, doing>>

SaveAnswered(k) ==
  /\ posts[k].kind = "save"
  /\ stored' = Applied(k)
  /\ IF posts[k].reload THEN Reload(stored')
     ELSE page' = [page EXCEPT !.saving = FALSE] /\ posts' = RemoveAt(posts, k) /\ UNCHANGED doing

\* Mutant of SaveFails: the status text stays.
SaveFailsSilently(k) ==
  /\ posts[k].kind = "save"
  /\ stored' \in {stored, Applied(k)}
  /\ posts' = RemoveAt(posts, k)
  /\ page' = [Redraw(page) EXCEPT !.been.failed = TRUE, !.been.poFailed = @ \/ posts[k].modal]
  /\ UNCHANGED doing

\* What was typed stays on the screen, and the overlay of a PO number too.
SaveFails(k) ==
  /\ posts[k].kind = "save"
  /\ stored' \in {stored, Applied(k)}
  /\ posts' = RemoveAt(posts, k)
  /\ page' = [Redraw(page) EXCEPT !.saving = FALSE, !.been.failed = TRUE,
                                  !.been.poFailed = @ \/ posts[k].modal]
  /\ UNCHANGED doing

\* The other posts load the page again, also when a deletion fails on the way.
PostAnswered(k) == posts[k].kind # "save" /\ Reload(stored) /\ UNCHANGED stored

\* Mutant of StoreFails: the overlay stays.
StoreFailsOnly(k) == posts[k].kind = "store" /\ Answered(k, [page EXCEPT !.button = TRUE])

StoreFails(k) == posts[k].kind = "store" /\ Answered(k, [page EXCEPT !.button = TRUE, !.overlay = FALSE])

PostRefused(k) ==
  posts[k].kind \in {"brands", "initiate", "disable"} /\ Answered(k, [page EXCEPT !.overlay = FALSE])

AnswerTo(kind) ==
  \E k \in InFlight({kind}) :
    SaveAnswered(k) \/ SaveFails(k) \/ PostAnswered(k) \/ StoreFails(k) \/ PostRefused(k)

Kinds == {"save", "brands", "store", "initiate", "disable"}

\* The page is left or loaded again; the server may have got a save.
LeavePage == stored' \in {stored} \cup {Applied(k) : k \in InFlight({"save"})} /\ Reload(stored')

Next ==
  \/ OpenCell \/ EscapeKey \/ CommitMonth \/ CommitPO \/ CommitBrand \/ ClickBrand
  \/ OpenPopupCell \/ CommitPopupBrand \/ CommitPopupTotal \/ AddRow \/ DeleteRows
  \/ SaveAndClose \/ CloseWithoutSave
  \/ CreateProject \/ EditNew \/ ClickNewBrand \/ SubmitProjects
  \/ PostProject \/ OpenWindow \/ CloseWindow \/ Narrow \/ Widen \/ Search \/ RadioButton
  \/ (\E kind \in Kinds : AnswerTo(kind)) \/ LeavePage

\* The browser ends every post sooner or later, with an answer or an error.
Spec == Init /\ [][Next]_vars /\ \A kind \in Kinds : WF_vars(AnswerTo(kind))

-----------------------------------------------------------------------------
(* properties *)

TypeOK ==
  /\ stored \in [Ids -> [Months -> Int]]
  /\ page.data.val \in [ProjectRows -> [Columns -> Int]]
  /\ page.data.map \subseteq ProjectRows \cup {TotalRow(t) : t \in Types}
  /\ page.cell \in Cells \cup {NoCell} \/ page.cell.on = "popup"
  /\ Len(page.popup.rows) <= MaxRows /\ Len(page.new) <= MaxNew /\ Len(posts) <= MaxPosts

Forecast(i, m) == page.data.val[Row(i, "F")][m]

\* The months of the sub-projects add up to those of their project, to the last
\* hundredth, however their shares are rounded (updateMemCache, EP:646) - unless
\* the project was to be a single brand again, or its months have been cleared.
FamilyAddsUp ==
  ~(page.been.single \/ page.been.cleared) =>
    \A p \in Tops, m \in Months :
      Kids[p] # <<>> => Forecast(p, m) = SumFunction([i \in ToSet(Kids[p]) |-> Forecast(i, m)])

\* The total of a row is the sum of its months; that of a last sub-project, which
\* gets what the others leave, may be off by the rounding of one month.
RowTotalsClose ==
  ~page.been.cleared =>
    \A r \in ProjectRows :
      LET off == page.data.val[r][TotalCol] - SumOfMonths(page.data.val[r])
          last == r.type = "F" /\ r.id = Last(Family(Parent(r.id)))
      IN  IF last THEN off \in -Len(Kids[Parent(r.id)])..Len(Kids[Parent(r.id)]) ELSE off = 0

\* The amounts of a project agree along its months and over its brands.
AmountsAddUp == FamilyAddsUp /\ RowTotalsClose

\* The total rows are those of what the search finds, each project once: as soon
\* as a value has changed they have been summed again.  Creating a project clears
\* the search without summing; without "All" only the forecasts are right.
TotalsCurrent ==
  (page.been.query = page.query /\ ~page.been.cleared) =>
    LET found == {i \in Ids : Matches(page.query, i)}
        once  == {i \in found : Parent(i) = i \/ Parent(i) \notin found}
        sum(t, ids) == [c \in Columns |-> SumFunction([i \in ids |-> page.data.val[Row(i, t)][c]])]
    IN  /\ page.data.total["F"] = sum("F", once)
        /\ (page.been.radio = "All" /\ found \cap Tops # {}) =>
             /\ page.data.total["T"] = sum("T", found \cap Tops)
             /\ page.data.total["L"] = sum("L", found \cap Tops)

\* What the page shows is what the server has, unless it says "Saving data..." or
\* a save has failed: no value gets lost between a commit and its save, and there
\* is never a second save on its way, which could reach the server first.
SavedIsShown ==
  /\ page.saving <=> InFlight({"save"}) # {}
  /\ Cardinality(InFlight({"save"})) <= 1
  /\ ~(page.saving \/ page.been.failed \/ page.been.cleared) =>
       \A i \in Ids, m \in Months : Forecast(i, m) = stored[i][m]

\* While the server creates, divides, initiates or deletes projects nothing of
\* that kind can be started again - unless the window became narrow meanwhile, or
\* the overlay was passed by: a popup opened by Tab posts without it.
OneRequest ==
  ~(page.been.squeezed \/ page.been.loose) =>
    Cardinality(InFlight({"store", "brands", "initiate", "disable"})) <= 1

\* The overlay has a reason that will end: a window, the popup, a narrow window or
\* a post - or a save of a PO number that was not answered, which leaves the page
\* disabled for good.
OverlayRight ==
  ~(page.been.squeezed \/ page.been.loose) =>
    (page.overlay <=> \/ page.window \/ page.popup.open \/ page.narrow \/ page.been.poFailed
                      \/ \E k \in DOMAIN posts : posts[k].modal)

\* Submit can be clicked again when its post has failed; it stays grey without one
\* only for a project that still needs its sub-projects.
ButtonBack ==
  page.button \/ InFlight({"store"}) # {} \/ \E k \in DOMAIN page.new : Unbranded(page.new[k])

\* However posts end, the page does not stay locked behind them.
Usable == OverlayRight /\ ButtonBack

SubmitsRows == Len(posts') > Len(posts) /\ Last(posts').kind = "brands"

\* Sub-projects that are posted have each a brand of its own, a number that grows
\* and a total - unless a row was opened below one that has no number.
BrandsComplete ==
  LET rows  == page.popup.rows
      posted == {i \in DOMAIN rows : rows[i].brand # ""}
  IN  /\ IsInjective([i \in posted |-> rows[i].brand])
      /\ \A i \in posted : Amount(rows[i]) > 0
      /\ \A i, j \in posted :
           i < j => rows[i].num < rows[j].num \/ NotANumber \in {rows[i].num, rows[j].num}

\* Their shares make a hundred percent - unless a row was deleted, a total put back or
\* a brand taken back after the shares were computed; or no row has been named.
SharesAddUp ==
  (page.popup.clean /\ Named(page.popup.rows) # {}) =>
    LET share(row) == IF row.total = Unset THEN 0 ELSE row.share
    IN  SumFunction([i \in DOMAIN page.popup.rows |-> share(page.popup.rows[i])]) = 10000

\* Whatever was typed, undone, added and deleted before, what the popup posts is a
\* division of the project.
DivisionPosted == [][SubmitsRows => BrandsComplete /\ SharesAddUp]_vars

\* The popup is open on a project of one brand whose months, which may be negative, come
\* to less than nothing.  The sum is taken over as the total of the first sub-project,
\* and Save & Close only wants a total that is not zero: this is what DivisionPosted needs
\* not to happen.
NegativeYear ==
  LET for == page.popup.for
  IN  /\ page.popup.open /\ for.on = "project" /\ ~page.data.multi[for.id]
      /\ page.data.val[Row(for.id, "F")][TotalCol] < 0

\* The loop that computes the shares ends, unless a row without a brand lies above
\* (or is) one with a total.
NotHung ==
  page.hung =>
    \E j \in DOMAIN page.popup.rows : \E i \in 1..j :
      page.popup.rows[i].brand = "" /\ page.popup.rows[j].total # Unset

\* A popup is opened with nothing in it of the one before, unless that was closed
\* with a cell being edited.
PopupForgets ==
  (~page.popup.open /\ ~page.been.typed) =>
    \A i \in DOMAIN page.popup.rows : page.popup.rows[i] = BlankRow

\* Neither a total that is typed nor the project before leaves the popup unusable.
PopupSound == NotHung /\ PopupForgets

\* "Saving data..." goes away: the grid can be edited again.
SavingEnds == page.saving ~> ~page.saving
=============================================================================
