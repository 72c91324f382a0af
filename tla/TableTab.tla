------------------------------- MODULE TableTab -------------------------------
(***************************************************************************)
(* The body of a table tab (src/src/ui/workspace/TabContent.tsx, with      *)
(* src/src/ui/data/): one page of rows at a time, an inline cell editor, a *)
(* two-click delete and an insert draft, against the Core's table.rows and *)
(* execute (src/src/core/server.ts, table-rows.ts, executor.ts).           *)
(*                                                                         *)
(* The view acts on positions of the rows it shows, which a reload, a      *)
(* filter or an error replaces under it; a load is two queries with no     *)
(* common snapshot; a request may outlast the client's timeout and still   *)
(* run.  A row is its primary key and a value.  The table has one primary  *)
(* key column, so it can be edited, and is ordered by it.                  *)
(***************************************************************************)
EXTENDS Naturals, FiniteSets, SequencesExt

CONSTANTS RowKeys,      \* primary keys, numbers
          FirstRows,    \* those in the table at first
          KeptRows,         \* keys of the rows the row filter keeps
          PageSize,
          MaxLoads,     \* bound: loads sent
          MaxOps        \* bound: mutations sent

ASSUME TableAssumption ==
    /\ RowKeys \subseteq Nat \ {0} /\ FirstRows \subseteq RowKeys /\ KeptRows \subseteq RowKeys
    /\ PageSize \in Nat \ {0} /\ MaxLoads \in Nat /\ MaxOps \in Nat

VARIABLES
    dbRows,      \* the table: key to value, for the keys in it
    tblOpen,     \* the view is mounted
    tblPage,     \* the page asked for
    tblGrid,     \* DataGridState: page and total of the reply shown
    tblData,     \* the rows of that reply, or NoRows
    tblLoading, tblError,
    tblFiltered, \* the row filter holds text
    tblEditing,  \* the open cell editor: position, and (history) the row double-clicked
    tblDeleting, \* the row asking "delete?", likewise
    tblDraft,    \* the insert draft is open
    tblMutating,
    tblLoads,    \* loads in flight
    tblOps,      \* mutations in flight
    tblCount,    \* loads and mutations sent so far
    tblDoubt     \* history: a mutation took effect after the client gave it up

tableVars == <<dbRows, tblOpen, tblPage, tblGrid, tblData, tblLoading, tblError, tblFiltered,
               tblEditing, tblDeleting, tblDraft, tblMutating, tblLoads, tblOps, tblCount, tblDoubt>>
picks == <<tblEditing, tblDeleting>>

NoRows == <<[key |-> 0, value |-> 0]>>
NoPick == [at |-> 0, key |-> 0]

\* planTableRows: ORDER BY the primary key, LIMIT and OFFSET.
PlanTableRows(db, page) ==
    LET all  == SetToSortSeq(DOMAIN db, <)
        from == (page - 1) * PageSize
        to   == IF from + PageSize < Len(all) THEN from + PageSize ELSE Len(all)
    IN  [i \in 1 .. (IF to > from THEN to - from ELSE 0) |->
            [key |-> all[from + i], value |-> db[all[from + i]]]]

FilterRows(rows, filtered) ==
    IF filtered THEN SelectSeq(rows, LAMBDA r : r.key \in KeptRows) ELSE rows

\* The grid's positions are positions of these.
VisibleRows == IF tblData = NoRows THEN <<>> ELSE FilterRows(tblData, tblFiltered)

LastPage(g) == IF g.total = 0 THEN 1 ELSE (g.total + PageSize - 1) \div PageSize
CanPrev(g)  == g.page > 1
CanNext(g)  == g.page * PageSize < g.total
PrevPage(g) == IF g.page > 1 THEN g.page - 1 ELSE 1
NextPage(g) == IF g.page < LastPage(g) THEN g.page + 1 ELSE LastPage(g)

TableInit ==
    /\ dbRows = [k \in FirstRows |-> 0]
    /\ tblOpen = FALSE /\ tblPage = 1 /\ tblGrid = [page |-> 1, total |-> 0]
    /\ tblData = NoRows /\ tblLoading = TRUE /\ tblError = FALSE /\ tblFiltered = FALSE
    /\ tblEditing = NoPick /\ tblDeleting = NoPick /\ tblDraft = FALSE /\ tblMutating = FALSE
    /\ tblLoads = {} /\ tblOps = {} /\ tblCount = [loads |-> 0, ops |-> 0] /\ tblDoubt = FALSE

-----------------------------------------------------------------------------
(* Loading.                                                                *)

\* The load effect: the reply to an earlier load is dead from here on.
StartLoad(page) ==
    /\ tblCount.loads < MaxLoads
    /\ tblCount' = [tblCount EXCEPT !.loads = @ + 1]
    /\ tblLoads' = {[l EXCEPT !.alive = FALSE] : l \in tblLoads} \cup
         {[id |-> tblCount.loads + 1, page |-> page, alive |-> TRUE, stage |-> "sent",
           total |-> 0, rows |-> <<>>]}
    /\ tblLoading' = TRUE
    /\ tblDoubt' = FALSE

OpenTable ==
    /\ ~tblOpen
    /\ tblOpen' = TRUE /\ tblPage' = 1 /\ tblGrid' = [page |-> 1, total |-> 0]
    /\ tblData' = NoRows /\ tblError' = FALSE /\ tblFiltered' = FALSE
    /\ tblEditing' = NoPick /\ tblDeleting' = NoPick /\ tblDraft' = FALSE /\ tblMutating' = FALSE
    /\ StartLoad(1)
    /\ UNCHANGED <<dbRows, tblOps>>

\* Replies to an unmounted view change nothing.
LeaveTable ==
    /\ tblOpen
    /\ tblOpen' = FALSE
    /\ tblLoads' = {[l EXCEPT !.alive = FALSE] : l \in tblLoads}
    /\ tblOps' = {[o EXCEPT !.awaited = FALSE] : o \in tblOps}
    /\ tblDoubt' = (tblDoubt \/ \E o \in tblOps : o.stage = "done")
    /\ UNCHANGED <<dbRows, tblPage, tblGrid, tblData, tblLoading, tblError, tblFiltered, picks,
                   tblDraft, tblMutating, tblCount>>

\* The pager; the draft of a new row belongs to the page it was opened on.
TurnPage(page) ==
    /\ tblPage' = page
    /\ tblDraft' = FALSE
    /\ StartLoad(page)
    /\ UNCHANGED <<dbRows, tblOpen, tblGrid, tblData, tblError, tblFiltered, picks, tblMutating, tblOps>>

PressPrev == tblOpen /\ CanPrev(tblGrid) /\ ~tblLoading /\ ~tblError /\ TurnPage(PrevPage(tblGrid))
PressNext == tblOpen /\ CanNext(tblGrid) /\ ~tblLoading /\ ~tblError /\ TurnPage(NextPage(tblGrid))

Retry ==
    /\ tblOpen /\ tblError /\ ~tblLoading
    /\ StartLoad(tblPage)
    /\ UNCHANGED <<dbRows, tblOpen, tblPage, tblGrid, tblData, tblError, tblFiltered, picks,
                   tblDraft, tblMutating, tblOps>>

\* table.rows: the COUNT, then the page, with no snapshot in common.
CoreCounts(l) ==
    /\ l.stage = "sent"
    /\ tblLoads' = (tblLoads \ {l}) \cup {[l EXCEPT !.stage = "counted", !.total = Cardinality(DOMAIN dbRows)]}
    /\ UNCHANGED <<dbRows, tblOpen, tblPage, tblGrid, tblData, tblLoading, tblError, tblFiltered,
                   picks, tblDraft, tblMutating, tblOps, tblCount, tblDoubt>>

CoreSelects(l) ==
    /\ l.stage = "counted"
    /\ tblLoads' = (tblLoads \ {l}) \cup {[l EXCEPT !.stage = "rows", !.rows = PlanTableRows(dbRows, l.page)]}
    /\ UNCHANGED <<dbRows, tblOpen, tblPage, tblGrid, tblData, tblLoading, tblError, tblFiltered,
                   picks, tblDraft, tblMutating, tblOps, tblCount, tblDoubt>>

\* Mutant of LoadReplies: the grid keeps its editor and its delete question over
\* the new rows.
LoadRepliesKeepingPicks(l) ==
    /\ l.stage = "rows" /\ l.alive
    /\ tblLoads' = tblLoads \ {l}
    /\ tblData' = l.rows /\ tblGrid' = [page |-> l.page, total |-> l.total] /\ tblError' = FALSE
    /\ tblLoading' = FALSE
    /\ UNCHANGED <<picks, dbRows, tblOpen, tblPage, tblFiltered, tblDraft, tblMutating, tblOps,
                   tblCount, tblDoubt>>

\* The answer to a load: rows, or an error, which the client's timeout is too.
\* A dead one changes nothing.  New rows close the editor and the question.
LoadReplies(l) ==
    /\ tblLoads' = tblLoads \ {l}
    /\ \/ /\ ~l.alive
          /\ UNCHANGED <<tblData, tblGrid, tblError, tblLoading, picks>>
       \/ /\ l.alive /\ l.stage = "rows"
          /\ tblData' = l.rows /\ tblGrid' = [page |-> l.page, total |-> l.total] /\ tblError' = FALSE
          /\ tblLoading' = FALSE
          /\ tblEditing' = NoPick /\ tblDeleting' = NoPick
       \/ /\ l.alive
          /\ tblData' = NoRows /\ tblError' = TRUE /\ tblLoading' = FALSE
          /\ tblEditing' = NoPick /\ tblDeleting' = NoPick
          /\ UNCHANGED tblGrid
    /\ UNCHANGED <<dbRows, tblOpen, tblPage, tblFiltered, tblDraft, tblMutating, tblOps, tblCount, tblDoubt>>

-----------------------------------------------------------------------------
(* Picking a row.                                                          *)

\* Every change of the filter makes new visible rows.
SetFilter(b) ==
    /\ tblOpen /\ b # tblFiltered
    /\ tblFiltered' = b
    /\ tblEditing' = NoPick /\ tblDeleting' = NoPick
    /\ UNCHANGED <<dbRows, tblOpen, tblPage, tblGrid, tblData, tblLoading, tblError, tblDraft,
                   tblMutating, tblLoads, tblOps, tblCount, tblDoubt>>

PickAt(r) == [at |-> r, key |-> VisibleRows[r].key]

EditCell(r) ==
    /\ tblOpen /\ tblEditing' = PickAt(r)
    /\ UNCHANGED <<dbRows, tblOpen, tblPage, tblGrid, tblData, tblLoading, tblError, tblFiltered,
                   tblDeleting, tblDraft, tblMutating, tblLoads, tblOps, tblCount, tblDoubt>>

AskDelete(r) ==
    /\ tblOpen /\ tblDeleting' = PickAt(r)
    /\ UNCHANGED <<dbRows, tblOpen, tblPage, tblGrid, tblData, tblLoading, tblError, tblFiltered,
                   tblEditing, tblDraft, tblMutating, tblLoads, tblOps, tblCount, tblDoubt>>

OpenDraft ==
    /\ tblOpen /\ ~tblDraft /\ tblDraft' = TRUE
    /\ UNCHANGED <<dbRows, tblOpen, tblPage, tblGrid, tblData, tblLoading, tblError, tblFiltered,
                   picks, tblMutating, tblLoads, tblOps, tblCount, tblDoubt>>

\* Cancelling an editor, a question or a draft.
Cancel ==
    /\ tblOpen /\ (tblEditing # NoPick \/ tblDeleting # NoPick \/ tblDraft)
    /\ tblEditing' \in {tblEditing, NoPick} /\ tblDeleting' \in {tblDeleting, NoPick}
    /\ \/ UNCHANGED tblDraft
       \/ ~tblMutating /\ tblDraft' = FALSE
    /\ UNCHANGED <<dbRows, tblOpen, tblPage, tblGrid, tblData, tblLoading, tblError, tblFiltered,
                   tblMutating, tblLoads, tblOps, tblCount, tblDoubt>>

-----------------------------------------------------------------------------
(* Mutating.                                                               *)

\* runOp, up to its await; asked is what the author meant (history).
RunOp(kind, key, value, asked) ==
    /\ ~tblMutating /\ tblData # NoRows
    /\ tblCount.ops < MaxOps
    /\ tblCount' = [tblCount EXCEPT !.ops = @ + 1]
    /\ tblMutating' = TRUE
    /\ tblOps' = tblOps \cup {[id |-> tblCount.ops + 1, kind |-> kind, key |-> key, value |-> value,
                               asked |-> asked, stage |-> "sent", awaited |-> TRUE]}

\* buildUpdateOp addresses the row now at the editor's position.
CommitEdit ==
    /\ tblOpen /\ tblEditing # NoPick /\ tblEditing.at \in DOMAIN VisibleRows
    /\ RunOp("update", VisibleRows[tblEditing.at].key, 1, tblEditing.key)
    /\ UNCHANGED <<dbRows, tblOpen, tblPage, tblGrid, tblData, tblLoading, tblError, tblFiltered,
                   picks, tblDraft, tblLoads, tblDoubt>>

\* buildDeleteOp, likewise.  The second click is the confirmation.
DeleteRow ==
    /\ tblOpen /\ tblDeleting # NoPick /\ tblDeleting.at \in DOMAIN VisibleRows
    /\ RunOp("delete", VisibleRows[tblDeleting.at].key, 0, tblDeleting.key)
    /\ tblDeleting' = NoPick
    /\ UNCHANGED <<dbRows, tblOpen, tblPage, tblGrid, tblData, tblLoading, tblError, tblFiltered,
                   tblEditing, tblDraft, tblLoads, tblDoubt>>

InsertRow(key) ==
    /\ tblOpen /\ tblDraft
    /\ RunOp("insert", key, 0, key)
    /\ UNCHANGED <<dbRows, tblOpen, tblPage, tblGrid, tblData, tblLoading, tblError, tblFiltered,
                   picks, tblDraft, tblLoads, tblDoubt>>

\* What the statement does to the table: a key that is taken is refused, one
\* that is gone matches no row.
Executed(o) ==
    CASE o.kind = "insert" -> [k \in DOMAIN dbRows \cup {o.key} |-> IF k = o.key THEN o.value ELSE dbRows[k]]
      [] o.kind = "update" -> [k \in DOMAIN dbRows |-> IF k = o.key THEN o.value ELSE dbRows[k]]
      [] OTHER             -> [k \in DOMAIN dbRows \ {o.key} |-> dbRows[k]]

\* executeInsert, executeUpdate and executeDelete; anything may also fail.
CoreExecutes(o) ==
    /\ o.stage = "sent"
    /\ \/ /\ ~(o.kind = "insert" /\ o.key \in DOMAIN dbRows)
          /\ dbRows' = Executed(o)
          /\ tblOps' = IF o.awaited THEN (tblOps \ {o}) \cup {[o EXCEPT !.stage = "done"]} ELSE tblOps \ {o}
          /\ tblDoubt' = (tblDoubt \/ ~o.awaited)
       \/ /\ tblOps' = IF o.awaited THEN (tblOps \ {o}) \cup {[o EXCEPT !.stage = "refused"]} ELSE tblOps \ {o}
          /\ UNCHANGED <<dbRows, tblDoubt>>
    /\ UNCHANGED <<tblOpen, tblPage, tblGrid, tblData, tblLoading, tblError, tblFiltered, picks,
                   tblDraft, tblMutating, tblLoads, tblCount>>

\* Mutant of OpDone: no reload.
OpDoneWithoutReload(o) ==
    /\ o.awaited /\ o.stage = "done"
    /\ tblOps' = tblOps \ {o} /\ tblMutating' = FALSE
    /\ tblEditing' = IF o.kind = "update" THEN NoPick ELSE tblEditing
    /\ tblDraft' = (tblDraft /\ o.kind # "insert")
    /\ UNCHANGED <<dbRows, tblOpen, tblPage, tblGrid, tblData, tblLoading, tblError, tblFiltered,
                   tblDeleting, tblLoads, tblCount, tblDoubt>>

\* An accepted mutation closes its editor or draft and reloads the page.
OpDone(o) ==
    /\ o.awaited /\ o.stage = "done"
    /\ tblOps' = tblOps \ {o} /\ tblMutating' = FALSE
    /\ tblEditing' = IF o.kind = "update" THEN NoPick ELSE tblEditing
    /\ tblDraft' = (tblDraft /\ o.kind # "insert")
    /\ StartLoad(tblPage)
    /\ UNCHANGED <<dbRows, tblOpen, tblPage, tblGrid, tblData, tblError, tblFiltered, tblDeleting>>

\* An error reply, a lost one, or the client's timeout: nothing is reloaded, and
\* the statement may still run.
OpFails(o) ==
    /\ o.awaited
    /\ tblOps' = IF o.stage = "sent" THEN (tblOps \ {o}) \cup {[o EXCEPT !.awaited = FALSE]}
                 ELSE tblOps \ {o}
    /\ tblMutating' = FALSE
    /\ tblDoubt' = (tblDoubt \/ o.stage = "done")
    /\ UNCHANGED <<dbRows, tblOpen, tblPage, tblGrid, tblData, tblLoading, tblError, tblFiltered,
                   picks, tblDraft, tblLoads, tblCount>>

-----------------------------------------------------------------------------

TableNext ==
    \/ OpenTable \/ LeaveTable \/ PressPrev \/ PressNext \/ Retry
    \/ \E l \in tblLoads : CoreCounts(l) \/ CoreSelects(l) \/ LoadReplies(l)
    \/ \E b \in BOOLEAN : SetFilter(b)
    \/ \E r \in DOMAIN VisibleRows : EditCell(r) \/ AskDelete(r)
    \/ OpenDraft \/ Cancel \/ CommitEdit \/ DeleteRow
    \/ \E k \in RowKeys : InsertRow(k)
    \/ \E o \in tblOps : CoreExecutes(o) \/ OpDone(o) \/ OpFails(o)

TableSpec == TableInit /\ [][TableNext]_tableVars

-----------------------------------------------------------------------------
(* Properties.                                                             *)

\* A grid at rest shows the table: the page asked for, as the database has it,
\* its total, and the author's own changes, whatever order loads and mutations
\* were answered in.  Only a change the client had given up on (lost reply,
\* timeout, a tab that was left) may be missing, until the next load.
RestingGridIsTrue ==
    tblOpen /\ ~tblLoading /\ ~tblError /\ ~tblDoubt /\ (\A o \in tblOps : ~o.awaited) =>
      /\ tblData = PlanTableRows(dbRows, tblPage)
      /\ tblGrid = [page |-> tblPage, total |-> Cardinality(DOMAIN dbRows)]

\* A change hits the row its author picked: the editor and the "delete?" question
\* are kept as positions, and no reload, page turn or filter puts another row
\* under one of them.
HitsTheRowPicked == \A o \in tblOps : o.key = o.asked

\* What the grid shows and changes is the row on the screen.
GridIsTrue == RestingGridIsTrue /\ HitsTheRowPicked

=============================================================================
