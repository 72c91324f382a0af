----------------------------- MODULE ReportRuns -----------------------------
(***************************************************************************)
(* The query blocks of a Report tab: running them against the report's     *)
(* target, confirming what is not a plain read, and re-targeting the whole *)
(* report while runs are in flight (src/src/ui/report/ReportTabView.tsx,   *)
(* report-state.ts, retarget-plan.ts).  App holds the report; the run      *)
(* state of a block lives in the mounted view, and so do the references by *)
(* which a late reply is judged.  Leaving the tab unmounts the view: its   *)
(* replies still arrive, judged by references nothing updates any more.    *)
(* A reply sets state and a render shows it later; what the user clicks in *)
(* between acts on the older render.  A click is rendered at once, for the *)
(* block it is about.                                                      *)
(*                                                                         *)
(* A statement is its text, of which only its class matters: blank, a      *)
(* plain read, or anything else, a write.  Prose blocks never run, and the *)
(* order of the blocks is not kept.                                        *)
(***************************************************************************)
EXTENDS Naturals, FiniteSets, Functions

CONSTANTS Targets,     \* the connections a report may run against
          FirstTarget, \* the launch connection
          MaxBlocks,   \* bound: query blocks added
          MaxFires     \* bound: statements sent

ASSUME ReportAssumption ==
    /\ FirstTarget \in Targets /\ "nothing" \notin Targets
    /\ MaxBlocks \in Nat /\ MaxFires \in Nat

VARIABLES
    reportBlocks,  \* ReportState.blocks: by id, its sql and what the block shows
    reportNext,    \* nextId
    reportTarget,  \* targetConnectionId
    reportShown,   \* the tab is active, its view mounted
    blockRuns,     \* of the mounted view: busy, or the preview to confirm
    rendered,      \* of the mounted view: each block's run state and rows, as drawn
    runGen,        \* of the mounted view: newest run of each block
    reportWire,    \* statements in flight
    fires,         \* statements sent so far
    previews,      \* history: the previews the author was shown
    due,           \* history: the target whose outcome each block owes its reader
    clickedLate    \* history: blocks a row of which was clicked before a reply was drawn

reportVars == <<reportBlocks, reportNext, reportTarget, reportShown, blockRuns, rendered, runGen,
                reportWire, fires, previews, due, clickedLate>>

BlockIds   == 1 .. MaxBlocks
Statements == {"blank", "read", "write"}

IdleRun == [state |-> "idle", sql |-> "blank", target |-> FirstTarget]
BusyRun == [IdleRun EXCEPT !.state = "busy"]
Preview(sql, target) == [state |-> "confirm", sql |-> sql, target |-> target]

NothingDue == "nothing"
NoOutcome  == [kind |-> "none", target |-> FirstTarget]
NewBlock   == [sql |-> "blank", shown |-> NoOutcome]

Present(id) == id \in DOMAIN reportBlocks
Sqls        == [id \in DOMAIN reportBlocks |-> reportBlocks[id].sql]

\* mapBlock: a block that is gone is left alone.
MapBlock(id, Change(_)) ==
    [i \in DOMAIN reportBlocks |-> IF i = id THEN Change(reportBlocks[i]) ELSE reportBlocks[i]]

\* What a render draws of a block: its run state, and rows that can be clicked.
Drawn(run, rows) == [run |-> run, rows |-> rows]
Undrawn          == Drawn(IdleRun, FALSE)
HasRows(id)      == Present(id) /\ reportBlocks[id].shown.kind = "rows"

\* firing: the newest run of the block has not been answered.
Firing(id) == \E q \in reportWire : q.mounted /\ q.id = id /\ q.gen = runGen[id]

ReportInit ==
    /\ reportBlocks = [id \in {} |-> NewBlock] /\ reportNext = 1 /\ reportTarget = FirstTarget
    /\ reportShown = TRUE
    /\ blockRuns = [id \in BlockIds |-> IdleRun] /\ rendered = [id \in BlockIds |-> Undrawn]
    /\ runGen = [id \in BlockIds |-> 0]
    /\ reportWire = {} /\ fires = 0 /\ previews = {} /\ due = [id \in BlockIds |-> NothingDue]
    /\ clickedLate = {}

\* An open ConfirmRun dialog makes the page behind it inert.
Interactive == reportShown /\ \A id \in BlockIds : rendered[id].run.state # "confirm"

-----------------------------------------------------------------------------
(* Editing the report.                                                     *)

AddQueryBlock ==
    /\ Interactive /\ reportNext <= MaxBlocks
    /\ reportBlocks' = [id \in DOMAIN reportBlocks \cup {reportNext} |->
                          IF id = reportNext THEN NewBlock ELSE reportBlocks[id]]
    /\ reportNext' = reportNext + 1
    /\ UNCHANGED <<reportTarget, reportShown, blockRuns, rendered, runGen, reportWire, fires,
                   previews, due, clickedLate>>

UpdateQuerySql(id, sql) ==
    /\ Interactive /\ Present(id)
    /\ reportBlocks' = MapBlock(id, LAMBDA b : [b EXCEPT !.sql = sql])
    /\ UNCHANGED <<reportNext, reportTarget, reportShown, blockRuns, rendered, runGen, reportWire,
                   fires, previews, due, clickedLate>>

RemoveBlock(id) ==
    /\ Interactive /\ Present(id)
    /\ reportBlocks' = Restrict(reportBlocks, DOMAIN reportBlocks \ {id})
    /\ blockRuns' = [blockRuns EXCEPT ![id] = IdleRun]
    /\ rendered' = [rendered EXCEPT ![id] = Undrawn]
    /\ UNCHANGED <<reportNext, reportTarget, reportShown, runGen, reportWire, fires, previews, due,
                   clickedLate>>

-----------------------------------------------------------------------------
(* Running.                                                                *)

\* fireAgainst, for a set of blocks at once with their statements, up to its awaits.
FireAgainst(ids, sqls, target, confirmed) ==
    /\ fires + Cardinality(ids) <= MaxFires
    /\ fires' = fires + Cardinality(ids)
    /\ runGen' = [id \in BlockIds |-> IF id \in ids THEN runGen[id] + 1 ELSE runGen[id]]
    /\ blockRuns' = [id \in BlockIds |-> IF id \in ids THEN BusyRun ELSE blockRuns[id]]
    /\ rendered' = [id \in BlockIds |-> IF id \in ids THEN Drawn(BusyRun, rendered[id].rows)
                                                       ELSE rendered[id]]
    /\ clickedLate' = clickedLate \ ids
    /\ reportWire' = reportWire \cup
         {[id |-> id, gen |-> runGen[id] + 1, sql |-> sqls[id], target |-> target,
           confirmed |-> confirmed, mounted |-> TRUE, latest |-> TRUE, ids |-> {},
           seenTarget |-> target] : id \in ids}

\* runBlock, from the button or from the keyboard, with whatever text.
RunBlock(id) ==
    /\ Interactive /\ Present(id)
    /\ ~Firing(id) /\ rendered[id].run.state = "idle"
    /\ FireAgainst({id}, Sqls, reportTarget, FALSE)
    /\ due' = [due EXCEPT ![id] = reportTarget]
    /\ UNCHANGED <<reportBlocks, reportNext, reportTarget, reportShown, previews>>

\* A ConfirmRun dialog is open for the block.
Confirmable(id) == reportShown /\ Present(id) /\ rendered[id].run.state = "confirm"

\* Mutant of ConfirmBlock: the block's own text and target are run.
ConfirmCurrent(id) ==
    /\ Confirmable(id) /\ ~Firing(id)
    /\ FireAgainst({id}, Sqls, reportTarget, TRUE)
    /\ due' = [due EXCEPT ![id] = reportTarget]
    /\ UNCHANGED <<reportBlocks, reportNext, reportTarget, reportShown, previews>>

\* confirmBlock: the previewed text, against the target it was previewed on.
\* When that is no longer the report's, its outcome will be dropped.
ConfirmBlock(id) ==
    LET preview == rendered[id].run
    IN  /\ Confirmable(id) /\ ~Firing(id)
        /\ FireAgainst({id}, [i \in {id} |-> preview.sql], preview.target, TRUE)
        /\ due' = [due EXCEPT ![id] = IF preview.target = reportTarget THEN preview.target
                                                                       ELSE NothingDue]
        /\ UNCHANGED <<reportBlocks, reportNext, reportTarget, reportShown, previews>>

\* cancelConfirm writes the rendered entry, which is not busy, without its preview.
CancelConfirm(id) ==
    /\ Confirmable(id)
    /\ blockRuns' = [blockRuns EXCEPT ![id] = IdleRun]
    /\ rendered' = [rendered EXCEPT ![id].run = IdleRun]
    /\ UNCHANGED <<reportBlocks, reportNext, reportTarget, reportShown, runGen, reportWire, fires,
                   previews, due, clickedLate>>

\* onSelectRow writes the whole rendered entry: a click between a reply and its
\* render takes back what the reply said of the run.
SelectRow(id) ==
    /\ Interactive /\ Present(id) /\ rendered[id].rows
    /\ blockRuns' = [blockRuns EXCEPT ![id] = rendered[id].run]
    /\ clickedLate' = IF rendered[id].run # blockRuns[id] THEN clickedLate \cup {id} ELSE clickedLate
    /\ UNCHANGED <<reportBlocks, reportNext, reportTarget, reportShown, rendered, runGen, reportWire,
                   fires, previews, due>>

\* Mutant of PlanRetarget: a block that is running or waits for a confirmation
\* is skipped.
PlanRetargetIdle ==
    {id \in BlockIds : Present(id) /\ Sqls[id] # "blank" /\ blockRuns[id].state = "idle"}

\* planRetarget: every block with SQL is fired again, whatever it was doing.
PlanRetarget == {id \in BlockIds : Present(id) /\ Sqls[id] # "blank"}

HandleRetarget(target) ==
    /\ Interactive /\ target # reportTarget
    /\ reportTarget' = target
    /\ FireAgainst(PlanRetarget, Sqls, target, FALSE)
    /\ due' = [id \in BlockIds |-> IF Present(id) /\ Sqls[id] # "blank"
                                    THEN target ELSE NothingDue]
    /\ UNCHANGED <<reportBlocks, reportNext, reportShown, previews>>

\* What Core answers: a read gives rows, a write a preview until it is
\* confirmed, and everything may fail, as a blank statement does.
Answers(q) ==
    {"error"} \cup CASE q.sql = "blank" -> {}
                     [] q.sql = "read"  -> {"rows"}
                     [] q.sql = "write" -> IF q.confirmed THEN {"ok"} ELSE {"confirm"}

\* Mutant of IsLatest: every reply counts as the newest.
AnyIsLatest(q) == TRUE

IsLatest(q) == IF q.mounted THEN runGen[q.id] = q.gen ELSE q.latest

\* applyOutcome.  A reply is judged by the references of the view that sent it.
ApplyOutcome(q) ==
    LET present == IF q.mounted THEN Present(q.id) ELSE q.id \in q.ids
        target  == IF q.mounted THEN reportTarget ELSE q.seenTarget
        latest  == IsLatest(q)
        Run(r)  == blockRuns' = IF q.mounted THEN [blockRuns EXCEPT ![q.id] = r] ELSE blockRuns
    IN  /\ reportWire' = reportWire \ {q}
        /\ \E answer \in Answers(q) :
             \/ /\ ~present \/ ~latest
                /\ UNCHANGED <<reportBlocks, blockRuns, previews, due>>
             \/ /\ present /\ latest /\ target # q.target
                /\ Run(IdleRun)
                /\ UNCHANGED <<reportBlocks, previews, due>>
             \/ /\ present /\ latest /\ target = q.target /\ answer # "confirm"
                /\ reportBlocks' = MapBlock(q.id, LAMBDA b :
                                     [b EXCEPT !.shown = [kind |-> answer, target |-> q.target]])
                /\ Run(IdleRun)
                /\ due' = IF q.mounted THEN due ELSE [due EXCEPT ![q.id] = NothingDue]
                /\ UNCHANGED previews
             \/ /\ present /\ latest /\ target = q.target /\ answer = "confirm"
                /\ Run(Preview(q.sql, q.target))
                /\ previews' = IF q.mounted THEN previews \cup {Preview(q.sql, q.target)} ELSE previews
                /\ due' = [due EXCEPT ![q.id] = NothingDue]
                /\ UNCHANGED reportBlocks
        /\ UNCHANGED <<reportNext, reportTarget, reportShown, rendered, runGen, fires, clickedLate>>

\* React draws what the replies have set.
Render ==
    /\ reportShown
    /\ rendered' = [id \in BlockIds |-> Drawn(blockRuns[id], HasRows(id))]
    /\ UNCHANGED <<reportBlocks, reportNext, reportTarget, reportShown, blockRuns, runGen, reportWire,
                   fires, previews, due, clickedLate>>

-----------------------------------------------------------------------------
(* Mounting.                                                               *)

\* The references of the view stay as they are.
LeaveReport ==
    /\ Interactive
    /\ reportShown' = FALSE
    /\ reportWire' = {IF q.mounted
                      THEN [q EXCEPT !.mounted = FALSE, !.latest = (runGen[q.id] = q.gen),
                                     !.ids = DOMAIN reportBlocks,
                                     !.seenTarget = reportTarget]
                      ELSE q : q \in reportWire}
    /\ blockRuns' = [id \in BlockIds |-> IdleRun] /\ rendered' = [id \in BlockIds |-> Undrawn]
    /\ runGen' = [id \in BlockIds |-> 0]
    /\ due' = [id \in BlockIds |-> NothingDue] /\ clickedLate' = {}
    /\ UNCHANGED <<reportBlocks, reportNext, reportTarget, fires, previews>>

ReturnToReport ==
    /\ ~reportShown
    /\ reportShown' = TRUE
    /\ rendered' = [id \in BlockIds |-> Drawn(IdleRun, HasRows(id))]
    /\ UNCHANGED <<reportBlocks, reportNext, reportTarget, blockRuns, runGen, reportWire, fires,
                   previews, due, clickedLate>>

-----------------------------------------------------------------------------

ReportNext ==
    \/ AddQueryBlock \/ LeaveReport \/ ReturnToReport \/ Render
    \/ \E target \in Targets : HandleRetarget(target)
    \/ \E id \in BlockIds :
         \/ \E sql \in Statements : UpdateQuerySql(id, sql)
         \/ RemoveBlock(id) \/ RunBlock(id) \/ ConfirmBlock(id) \/ CancelConfirm(id) \/ SelectRow(id)
    \/ \E q \in reportWire : ApplyOutcome(q)

ReportSpec == ReportInit /\ [][ReportNext]_reportVars

-----------------------------------------------------------------------------
(* Properties.                                                             *)

\* Nothing is sent as confirmed but the text and the target of a preview the
\* author was shown, whatever was edited or re-targeted in between: a DELETE
\* previewed on one database is never run on another.
ConfirmedWasPreviewed ==
    \A q \in reportWire : q.confirmed => Preview(q.sql, q.target) \in previews

\* Once every run of the mounted view has been answered, each block shows the
\* outcome of its newest run, which a re-target makes a run against the new
\* target, whatever older runs were answered later.  A block owes nothing once
\* its write waits for a confirmation, nor after the tab was left: a reply to an
\* unmounted view is judged by references nothing updates and may put an outcome
\* of the old target into a report that has been re-targeted since.
ShownIsDue ==
    reportShown /\ (\A q \in reportWire : ~q.mounted) =>
      \A id \in DOMAIN reportBlocks :
        due[id] # NothingDue =>
          LET shown == reportBlocks[id].shown IN shown.kind # "none" /\ shown.target = due[id]

\* A block is busy while its newest run is in flight: an overtaken reply does not
\* free it early.  And it is busy no longer than that, so that it can be run
\* again, but for one interleaving: a row clicked after the reply has come and
\* before it is drawn writes the busy entry back, until a re-target.
BusyHasItsRun ==
    reportShown => \A id \in DOMAIN reportBlocks :
        /\ Firing(id) => blockRuns[id].state = "busy"
        /\ blockRuns[id].state = "busy" => Firing(id) \/ id \in clickedLate

\* What a report runs and shows is what its author was shown and asked for last.
ReportIsTrue == ConfirmedWasPreviewed /\ ShownIsDue /\ BusyHasItsRun

=============================================================================
