------------------------------- MODULE QueryTab -------------------------------
(***************************************************************************)
(* The query tab: src/src/ui/workspace/QueryTabView.tsx with the dialog of *)
(* ConfirmRun.tsx, runRawQuery and the pages of data-grid-state.ts.        *)
(*                                                                         *)
(* What the user does is rendered at once; what a reply sets is rendered a *)
(* little later, and until then the handlers are those of the last render. *)
(* The editor holds its own text.  It reports each change to the App, gets *)
(* the App's text back as a property and takes it over, in an effect, when *)
(* it differs.  A text is the number of the edit that made it, 0 a blank.  *)
(* A statement sent with the tab closed since runs on, its reply unheard.  *)
(***************************************************************************)
EXTENDS Naturals

CONSTANTS MaxQueryEdits,  \* bound: edits of the text
          MaxRowsAnswered,   \* rows of an answer
          RowsOnPage \* rows of a page

ASSUME QueryTabAssumption == MaxQueryEdits \in Nat /\ MaxRowsAnswered \in Nat /\ RowsOnPage \in Nat \ {0}

VARIABLES
    doc,     \* the text in the editor
    edits,   \* number of edits so far
    draft,   \* the App's text of the tab
    prop,    \* that text as it was last rendered
    effectDue,     \* whether the effect of that render is still to run
    query,   \* the view's state
    shownQuery, \* that state as it was last rendered
    inFlight,\* firing: the statement sent and whether as confirmed, or none
    late     \* history: a page was turned with an answer not yet rendered

queryVars == <<doc, edits, draft, prop, effectDue, query, shownQuery, inFlight, late>>
textVars  == <<doc, edits, draft, prop, effectDue>>

NoSql    == 0
NoFlight == [sql |-> NoSql, confirmed |-> FALSE]
NoData   == [sql |-> NoSql, rows |-> 0]

\* The view's state: data with its page (createDataGridState), confirm, what the
\* other replies show (error, affected), busy and pendingSql.
FreshQuery == [data |-> NoData, page |-> 1, rowCount |-> 0, confirm |-> NoSql, note |-> "none",
               busy |-> FALSE, pendingSql |-> NoSql]

\* pageSlice: the rows there are on a page.
PageSlice(rows, page) ==
    LET before == (page - 1) * RowsOnPage
    IN  IF rows <= before THEN 0 ELSE IF rows - before < RowsOnPage THEN rows - before ELSE RowsOnPage

LastRowsPage(rows) == IF rows = 0 THEN 1 ELSE (rows + RowsOnPage - 1) \div RowsOnPage

QueryInit ==
    /\ doc = NoSql /\ edits = 0 /\ draft = NoSql /\ prop = NoSql /\ effectDue = FALSE
    /\ query = FreshQuery /\ shownQuery = FreshQuery /\ inFlight = NoFlight /\ late = FALSE

-----------------------------------------------------------------------------
(* The text.                                                               *)

\* The updateListener.  Behind the dialog the page is inert.
TypeSql ==
    /\ shownQuery.confirm = NoSql /\ edits < MaxQueryEdits
    /\ edits' = edits + 1 /\ doc' = edits + 1 /\ draft' = edits + 1
    /\ UNCHANGED <<prop, effectDue, query, shownQuery, inFlight, late>>

RenderDraft ==
    /\ prop # draft /\ prop' = draft /\ effectDue' = TRUE
    /\ UNCHANGED <<doc, edits, draft, query, shownQuery, inFlight, late>>

\* Mutant of DraftEffect: the property is compared with the App's text.
DraftEffectUnlessKnown ==
    /\ effectDue /\ effectDue' = FALSE
    /\ doc' = IF prop = draft THEN doc ELSE prop
    /\ UNCHANGED <<edits, draft, prop, query, shownQuery, inFlight, late>>

\* The editor takes the text it is given, without reporting that as a change.
DraftEffect ==
    /\ effectDue /\ effectDue' = FALSE
    /\ doc' = prop
    /\ UNCHANGED <<edits, draft, prop, query, shownQuery, inFlight, late>>

\* Another tab is activated and this one again: the editor starts from the
\* draft, the rest anew.
LeaveAndReturn ==
    /\ doc' = draft /\ prop' = draft /\ effectDue' = FALSE
    /\ query' = FreshQuery /\ shownQuery' = FreshQuery /\ inFlight' = NoFlight /\ late' = FALSE
    /\ UNCHANGED <<edits, draft>>

-----------------------------------------------------------------------------
(* The runs.                                                               *)

\* Sets state from a click: rendered at once, and what a reply has set stays.
Clicked(Set(_)) == query' = Set(query) /\ shownQuery' = Set(shownQuery)

\* run: the button, or the key in the editor.
RunSql ==
    /\ inFlight = NoFlight /\ ~shownQuery.busy /\ shownQuery.confirm = NoSql /\ doc # NoSql
    /\ inFlight' = [sql |-> doc, confirmed |-> FALSE]
    /\ LET started(s) == [s EXCEPT !.busy = TRUE, !.pendingSql = doc] IN Clicked(started)
    /\ UNCHANGED <<textVars, late>>

\* Mutant of ConfirmSql: what is in the editor is run.
ConfirmSqlOfEditor ==
    /\ shownQuery.confirm # NoSql /\ inFlight = NoFlight /\ ~shownQuery.busy
    /\ inFlight' = [sql |-> doc, confirmed |-> TRUE]
    /\ LET started(s) == [s EXCEPT !.busy = TRUE] IN Clicked(started)
    /\ UNCHANGED <<textVars, late>>

\* confirmRun: the statement that was sent is sent again, as confirmed.
ConfirmSql ==
    /\ shownQuery.confirm # NoSql /\ inFlight = NoFlight /\ ~shownQuery.busy
    /\ inFlight' = [sql |-> shownQuery.pendingSql, confirmed |-> TRUE]
    /\ LET started(s) == [s EXCEPT !.busy = TRUE] IN Clicked(started)
    /\ UNCHANGED <<textVars, late>>

\* The button, the Escape key and a click beside the dialog, unless busy.
CancelSql ==
    /\ shownQuery.confirm # NoSql /\ ~shownQuery.busy
    /\ LET cancelled(s) == [s EXCEPT !.confirm = NoSql] IN Clicked(cancelled)
    /\ UNCHANGED <<textVars, inFlight, late>>

\* applyOutcome: each kind of reply clears what the others show.
ApplyQueryOutcome(s, kind, rows) ==
    [s EXCEPT !.busy = FALSE,
              !.confirm = IF kind = "confirm" THEN inFlight.sql ELSE NoSql,
              !.note = IF kind \in {"error", "ok"} THEN kind ELSE "none",
              !.data = IF kind = "rows" THEN [sql |-> inFlight.sql, rows |-> rows] ELSE NoData,
              !.page = IF kind = "rows" THEN 1 ELSE @,
              !.rowCount = IF kind = "rows" THEN PageSlice(rows, 1) ELSE @]

\* The Core previews what is destructive unless it is confirmed.
SqlReplies(kind, rows) ==
    /\ inFlight # NoFlight /\ (kind = "confirm" => ~inFlight.confirmed)
    /\ inFlight' = NoFlight
    /\ query' = ApplyQueryOutcome(query, kind, rows)
    /\ late' = FALSE
    /\ UNCHANGED <<textVars, shownQuery>>

RenderQuery ==
    /\ shownQuery # query /\ shownQuery' = query
    /\ UNCHANGED <<textVars, query, inFlight, late>>

\* gotoPage, from prev and next: the rows are those of the last render, the page
\* is set in the state there is.
GotoPage ==
    /\ shownQuery.data # NoData
    /\ \E page \in {IF shownQuery.page > 1 THEN shownQuery.page - 1 ELSE 1,
                    IF shownQuery.page < LastRowsPage(shownQuery.data.rows)
                    THEN shownQuery.page + 1 ELSE LastRowsPage(shownQuery.data.rows)} \ {shownQuery.page} :
         LET turned(s) == [s EXCEPT !.page = page,
                                    !.rowCount = PageSlice(shownQuery.data.rows, page)]
         IN  Clicked(turned)
    /\ late' = (late \/ shownQuery # query)
    /\ UNCHANGED <<textVars, inFlight>>

-----------------------------------------------------------------------------

QueryNext ==
    \/ TypeSql \/ RenderDraft \/ DraftEffect \/ LeaveAndReturn
    \/ RunSql \/ ConfirmSql \/ CancelSql \/ RenderQuery \/ GotoPage
    \/ \E kind \in {"error", "ok", "confirm"} : SqlReplies(kind, 0)
    \/ \E rows \in 0 .. MaxRowsAnswered : SqlReplies("rows", rows)

QuerySpec == QueryInit /\ [][QueryNext]_queryVars

\* What is sent as confirmed is what the dialog shows, whatever was typed since;
\* with no reply due and all rendered, nothing is busy, the view shows the last
\* statement's answer and no other, on a page it has; and with no effect due the
\* editor holds the App's text.
QueryTabIsTrue ==
    /\ inFlight.confirmed => inFlight.sql = query.confirm
    /\ inFlight = NoFlight /\ shownQuery = query =>
         /\ ~query.busy
         /\ query.confirm # NoSql => query.confirm = query.pendingSql /\ query.data = NoData
         /\ query.data # NoData =>
              /\ query.data.sql = query.pendingSql /\ query.note = "none"
              /\ late \/ /\ query.page \in 1 .. LastRowsPage(query.data.rows)
                         /\ query.rowCount = PageSlice(query.data.rows, query.page)
    /\ prop = draft /\ ~effectDue => doc = draft

=============================================================================
