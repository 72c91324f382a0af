----------------------------- MODULE LiveReport -----------------------------
(***************************************************************************)
(* A live report: published from a Report tab to the core's in-memory      *)
(* registry, opened in a window of its own by its link, and there queried  *)
(* again and again by the report's own script                              *)
(* (src/src/ui/report/export-live-report.ts, ReportTabView.tsx,            *)
(* src/src/core/live-report-registry.ts, server.ts,                        *)
(* src/src/live-report/runtime.ts).  One opened page is followed.  The     *)
(* page and the core share nothing but requests: the connections it offers *)
(* may be deleted under it, the core may be away for a while, and a        *)
(* refresh or a new pick overtakes the queries still in flight.            *)
(*                                                                         *)
(* The documents published all have the same query blocks; prose never     *)
(* changes and is left out.                                                *)
(***************************************************************************)
EXTENDS Naturals, SequencesExt

CONSTANTS LiveConns,    \* the saved connections a page may pick
          LiveBlocks,   \* the query blocks of the document: id -> class of its SQL
          MaxEntries,   \* the registry's capacity
          MaxPublished, \* bound: reports published
          MaxLiveRuns   \* bound: runs of the page

ASSUME LiveAssumption ==
    /\ \A b \in DOMAIN LiveBlocks : LiveBlocks[b] \in {"blank", "read", "write"}
    /\ MaxEntries \in Nat \ {0} /\ MaxPublished \in Nat /\ MaxLiveRuns \in Nat

VARIABLES
    liveStore,   \* the registry's Map, oldest entry first
    published,   \* reports published so far
    windows,     \* the windows exports opened: blank, closed, or sent to a link
    exporting,   \* the export of the mounted Report tab: where it awaits
    liveSaved,   \* the saved connections
    livePage,    \* the page: the connection it runs against and the picker it shows
    latestRun,   \* the page's newest run
    liveSlots,   \* what each block's slot holds
    liveWire     \* the page's requests in flight

exportVars == <<liveStore, published, windows, exporting>>
pageVars   == <<livePage, latestRun, liveSlots, liveWire>>
liveVars   == <<liveStore, published, windows, exporting, liveSaved,
                livePage, latestRun, liveSlots, liveWire>>

Default  == "default"
Blocks   == DOMAIN LiveBlocks
NotOpen  == [opened |-> FALSE, current |-> Default, picker |-> Default, offered |-> {}]
Note     == [kind |-> "note", target |-> Default]
Unreached == [kind |-> "unreachable", target |-> Default]

LiveInit ==
    /\ liveStore = <<>> /\ published = 0 /\ windows = <<>> /\ exporting = "no"
    /\ liveSaved = LiveConns
    /\ livePage = NotOpen /\ latestRun = 0
    /\ liveSlots = [b \in Blocks |-> <<>>] /\ liveWire = {}

-----------------------------------------------------------------------------
(* Publishing.  The window of an export is the last one opened.            *)

\* The window of an export goes to a link, or is closed; a blocked one stays.
SendWindow(state, link) ==
    windows' = [windows EXCEPT ![Len(windows)] =
                  IF @.state = "blank" THEN [state |-> state, link |-> link] ELSE @]

\* handleExportLive and runExport, up to the publish request: the window is
\* reserved within the click, and may be blocked.
ExportLive(popup) ==
    /\ exporting = "no" /\ Len(windows) < MaxPublished
    /\ exporting' = "publishing"
    /\ windows' = Append(windows, [state |-> IF popup THEN "blank" ELSE "blocked", link |-> 0])
    /\ UNCHANGED <<liveStore, published, liveSaved, pageVars>>

\* Mutant of Evicted: one entry too many is dropped.
EvictedTooMany ==
    IF Len(liveStore) >= MaxEntries - 1 /\ liveStore # <<>> THEN Tail(liveStore) ELSE liveStore

\* The oldest entry makes room.
Evicted == IF Len(liveStore) >= MaxEntries THEN Tail(liveStore) ELSE liveStore

\* livereport.publish; the core stores the document, and the window is sent to
\* the link, unless the reply is lost.
Publish(replied) ==
    /\ exporting = "publishing"
    /\ liveStore' = Append(Evicted, published + 1)
    /\ published' = published + 1
    /\ IF replied
       THEN /\ exporting' = "downloading"
            /\ SendWindow("linked", published + 1)
       ELSE /\ exporting' = "no"
            /\ SendWindow("closed", 0)
    /\ UNCHANGED <<liveSaved, pageVars>>

\* The request fails before the core has stored anything.
PublishFails ==
    /\ exporting = "publishing"
    /\ exporting' = "no"
    /\ SendWindow("closed", 0)
    /\ UNCHANGED <<liveStore, published, liveSaved, pageVars>>

\* The script for the downloaded copy arrives, or does not.
Download ==
    /\ exporting = "downloading"
    /\ exporting' = "no"
    /\ UNCHANGED <<liveStore, published, windows, liveSaved, pageVars>>

\* A run's first half: count it and ask for the connections.
RunAll(page) ==
    /\ latestRun < MaxLiveRuns
    /\ latestRun' = latestRun + 1
    /\ livePage' = page
    /\ liveWire' = liveWire \cup {[kind |-> "list", run |-> latestRun + 1]}

\* GET /live/<id>: the document's page, or a note that the link is unknown.
OpenLink(i) ==
    /\ windows[i].state = "linked"
    /\ IF Contains(liveStore, windows[i].link)
       THEN /\ windows' = [windows EXCEPT ![i].state = "page"]
            /\ IF livePage.opened THEN UNCHANGED <<livePage, latestRun, liveWire>>
                                  ELSE RunAll([livePage EXCEPT !.opened = TRUE])
       ELSE /\ windows' = [windows EXCEPT ![i].state = "unknown"]
            /\ UNCHANGED <<livePage, latestRun, liveWire>>
    /\ UNCHANGED <<liveStore, published, exporting, liveSaved, liveSlots>>

-----------------------------------------------------------------------------
(* The page.                                                               *)

Refresh ==
    /\ livePage.opened
    /\ RunAll(livePage)
    /\ UNCHANGED <<exportVars, liveSaved, liveSlots>>

\* onPick; the browser reports a change of the selection only.
Pick(c) ==
    /\ livePage.opened /\ c \in livePage.offered \cup {Default} /\ c # livePage.picker
    /\ RunAll([livePage EXCEPT !.current = c, !.picker = c])
    /\ UNCHANGED <<exportVars, liveSaved, liveSlots>>

\* The core cannot be reached: the picker offers nothing but the default, and
\* every slot says so, while the pick itself is kept for the next run.
ListFails(q) ==
    /\ q.kind = "list"
    /\ liveWire' = liveWire \ {q}
    /\ IF q.run = latestRun
       THEN /\ livePage' = [livePage EXCEPT !.offered = {}, !.picker = Default]
            /\ liveSlots' = [b \in Blocks |-> <<Unreached>>]
       ELSE UNCHANGED <<livePage, liveSlots>>
    /\ UNCHANGED <<exportVars, liveSaved, latestRun>>

\* The connections arrive: a pick that is gone falls back to the default, and
\* every block with SQL is sent.
ListReplies(q) ==
    LET target == IF livePage.current \in liveSaved THEN livePage.current ELSE Default
    IN  /\ q.kind = "list"
        /\ IF q.run = latestRun
           THEN /\ livePage' = [livePage EXCEPT !.offered = liveSaved, !.current = target,
                                                !.picker = target]
                /\ liveSlots' = [b \in Blocks |-> IF LiveBlocks[b] = "blank" THEN <<Note>> ELSE <<>>]
                /\ liveWire' = (liveWire \ {q}) \cup
                     {[kind |-> "execute", run |-> q.run, block |-> b, target |-> target] :
                        b \in {b \in Blocks : LiveBlocks[b] # "blank"}}
           ELSE /\ liveWire' = liveWire \ {q}
                /\ UNCHANGED <<livePage, liveSlots>>
        /\ UNCHANGED <<exportVars, liveSaved, latestRun>>

\* What a block's query comes to: a confirmation is never asked for, and a
\* statement that would need one is not run.
ClassifyReply(b) == IF LiveBlocks[b] = "read" THEN {"rows", "error"} ELSE {"confirm", "error"}

\* Mutant of ExecuteReplies: an overtaken reply is shown as well.
ExecuteRepliesAnyway(q) ==
    /\ q.kind = "execute"
    /\ liveWire' = liveWire \ {q}
    /\ \E k \in ClassifyReply(q.block) :
         liveSlots' = [liveSlots EXCEPT ![q.block] = Append(@, [kind |-> k, target |-> q.target])]
    /\ UNCHANGED <<exportVars, liveSaved, livePage, latestRun>>

\* runBlock's second half: an overtaken reply is dropped.
ExecuteReplies(q) ==
    /\ q.kind = "execute"
    /\ liveWire' = liveWire \ {q}
    /\ IF q.run = latestRun
       THEN \E k \in ClassifyReply(q.block) :
              liveSlots' = [liveSlots EXCEPT ![q.block] =
                              Append(@, [kind |-> k, target |-> q.target])]
       ELSE UNCHANGED liveSlots
    /\ UNCHANGED <<exportVars, liveSaved, livePage, latestRun>>

\* The app deletes a saved connection.
DeleteSaved(c) ==
    /\ c \in liveSaved
    /\ liveSaved' = liveSaved \ {c}
    /\ UNCHANGED <<exportVars, pageVars>>

LiveNext ==
    \/ \E popup \in BOOLEAN : ExportLive(popup)
    \/ \E replied \in BOOLEAN : Publish(replied)
    \/ PublishFails \/ Download \/ Refresh
    \/ \E i \in DOMAIN windows : OpenLink(i)
    \/ \E c \in LiveConns \cup {Default} : Pick(c)
    \/ \E q \in liveWire : ListFails(q) \/ ListReplies(q) \/ ExecuteReplies(q)
    \/ \E c \in LiveConns : DeleteSaved(c)

LiveSpec == LiveInit /\ [][LiveNext]_liveVars

-----------------------------------------------------------------------------

\* Once nothing of the newest run is in flight, every slot holds exactly one
\* outcome, and it came from the connection the picker names, whatever was
\* refreshed, picked or deleted meanwhile: the numbers on a live report never
\* belong to a database other than the one it says.
SlotsShowThePick ==
    livePage.opened /\ (\A q \in liveWire : q.run # latestRun) =>
      \A b \in Blocks :
        /\ Len(liveSlots[b]) = 1
        /\ liveSlots[b][1].kind \in {"rows", "error", "confirm"} =>
             liveSlots[b][1].target = livePage.picker

\* The link a window was sent to is known unless MaxEntries reports have been
\* published since.
LinksStayKnown ==
    \A i \in DOMAIN windows :
      windows[i].state = "linked" =>
        Contains(liveStore, windows[i].link) \/ published >= windows[i].link + MaxEntries

\* A live report shows what its picker says, and the link to it works.
LivePagesAreTrue == SlotsShowThePick /\ LinksStayKnown

=============================================================================
