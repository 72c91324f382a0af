------------------------------ MODULE ChatCharts ------------------------------
(***************************************************************************)
(* The query of an answer in a chat and the chart drawn from its rows: the *)
(* runs in src/src/ui/workspace/ChatTabView.tsx, the frame that draws      *)
(* (ui/sandbox/SandboxFrame.tsx, ui/sandbox/sandbox-host.ts) and the guest *)
(* document in it (src/src/sandbox/guest.ts, src/src/sandbox/render.ts).   *)
(*                                                                         *)
(* State set by a reply reaches the handlers only with the next render, so *)
(* that a click in between sees the entry before the reply.  Messages to   *)
(* and from the guest arrive in order; those to a document that has been   *)
(* navigated away from are lost.  Documents are compared by what is in     *)
(* them: that an equal one is drawn anew is left out.                      *)
(***************************************************************************)
EXTENDS Naturals, SequencesExt

CONSTANTS MaxRuns,      \* bound: replies to the query
          MaxGuestLoads,\* bound: documents loaded into the frame
          MaxAttempts   \* attempts to find the window of the frame

ASSUME ChartsAssumption == MaxRuns \in Nat /\ MaxGuestLoads \in Nat /\ MaxAttempts \in Nat

VARIABLES
    entry,     \* runs[i]: the run of the answer's query
    seen,      \* that entry as it was last rendered
    firing,    \* runFiring[i]
    asked,     \* the request in flight: "no", "plain" or "confirmed"
    replies,   \* history: number of replies
    cached,    \* chartDocCacheRef: the entry a document was made for, and it
    frame,     \* the iframe: "none", "initial" document, "guest" running, "loaded"
    guestLoads,\* number of documents the frame was given
    host,      \* hostRef: "none", "waiting" for a window, "alive", "gave up"
    attempts,  \* rebindHost's attempts
    toGuest,   \* documents on their way to the guest
    guest,     \* what the guest shows
    signals,   \* signals on their way back
    heights    \* the coalescer's pending height and the one applied

chartVars == <<entry, seen, firing, asked, replies, cached, frame, guestLoads, host, attempts,
               toGuest, guest, signals, heights>>
runVars   == <<entry, firing, asked, replies>>
drawnVars  == <<seen, cached>>
frameVars == <<frame, guestLoads, host, attempts, toGuest, guest, signals, heights>>

NoChatOutcome == [kind |-> "none", run |-> 0]
IdleEntry == [busy |-> FALSE, outcome |-> NoChatOutcome, row |-> FALSE]
NoDoc     == [chart |-> FALSE, run |-> 0]

\* What a query answers: rows the chart of the answer names the columns of, none
\* of those, rows without these columns, a number, a preview or an error.
OutcomeKinds == {"rows", "no rows", "other rows", "ok", "confirm", "error"}
IsRows(o) == o.kind \in {"rows", "no rows", "other rows"}

\* buildChartDoc: a document for rows that fit the chart; without rows, only text.
BuildChartDoc(e) ==
    IF e.outcome.kind \in {"rows", "no rows"}
    THEN [chart |-> e.outcome.kind = "rows", run |-> e.outcome.run] ELSE NoDoc

\* The height the guest measures.
Measure(d) == IF d.chart THEN 2 * d.run ELSE 1

\* Mutant of ReconcileChartDocs: made anew only where there was none.
ReconcileByText(e) == IF cached.doc # NoDoc THEN cached ELSE [entry |-> e, doc |-> BuildChartDoc(e)]

\* reconcileChartDocs: made anew when the entry is another one.
ReconcileChartDocs(e) ==
    IF cached.entry = e THEN cached ELSE [entry |-> e, doc |-> BuildChartDoc(e)]

ChartsInit ==
    /\ entry = IdleEntry /\ seen = IdleEntry /\ firing = FALSE /\ asked = "no" /\ replies = 0
    /\ cached = [entry |-> IdleEntry, doc |-> NoDoc]
    /\ frame = "none" /\ guestLoads = 0 /\ host = "none" /\ attempts = 0
    /\ toGuest = <<>> /\ guest = NoDoc /\ signals = <<>>
    /\ heights = [pending |-> 0, scheduled |-> FALSE, applied |-> 0]

-----------------------------------------------------------------------------
(* ChatTabView.tsx: the run of the query.                                  *)

RunQuery ==
    /\ ~firing /\ ~seen.busy /\ seen.outcome.kind # "confirm" /\ replies < MaxRuns
    /\ firing' = TRUE /\ asked' = "plain"
    /\ entry' = [seen EXCEPT !.busy = TRUE]
    /\ UNCHANGED <<replies, drawnVars, frameVars>>

ConfirmQuery ==
    /\ seen.outcome.kind = "confirm" /\ ~firing /\ ~seen.busy /\ replies < MaxRuns
    /\ firing' = TRUE /\ asked' = "confirmed"
    /\ entry' = [seen EXCEPT !.busy = TRUE]
    /\ UNCHANGED <<replies, drawnVars, frameVars>>

CancelQuery ==
    /\ seen.outcome.kind = "confirm" /\ ~seen.busy
    /\ entry' = [seen EXCEPT !.outcome = NoChatOutcome]
    /\ UNCHANGED <<firing, asked, replies, drawnVars, frameVars>>

\* A row picked in the grid: the entry as rendered is written back with it.
SelectResultRow ==
    /\ IsRows(seen.outcome)
    /\ entry' = [seen EXCEPT !.row = TRUE]
    /\ UNCHANGED <<firing, asked, replies, drawnVars, frameVars>>

\* A confirmed statement is not previewed again; what fails on the way is an error.
QueryReplies(kind) ==
    /\ asked # "no" /\ (asked = "confirmed" => kind # "confirm")
    /\ asked' = "no" /\ firing' = FALSE /\ replies' = replies + 1
    /\ entry' = [busy |-> FALSE, outcome |-> [kind |-> kind, run |-> replies + 1], row |-> FALSE]
    /\ UNCHANGED <<drawnVars, frameVars>>

-----------------------------------------------------------------------------
(* SandboxFrame.tsx: the frame and its host.                               *)

\* pushRenderDoc, through hostRef.
PushRenderDoc(d) ==
    toGuest' = IF host = "alive" THEN Append(toGuest, d) ELSE toGuest

\* The first render that has a document puts the frame there, one that has none
\* takes it away with all its state.  An effect pushes a document that changed.
RenderAnswer ==
    /\ entry # seen
    /\ seen' = entry
    /\ cached' = ReconcileChartDocs(entry)
    /\ CASE cached'.doc = NoDoc ->
              /\ frame' = "none" /\ host' = "none" /\ attempts' = 0
              /\ toGuest' = <<>> /\ guest' = NoDoc /\ signals' = <<>>
              /\ heights' = [pending |-> 0, scheduled |-> FALSE, applied |-> 0]
              /\ UNCHANGED guestLoads
         [] cached'.doc # NoDoc /\ frame = "none" ->
              /\ guestLoads < MaxGuestLoads /\ guestLoads' = guestLoads + 1
              /\ frame' = "initial" /\ host' = "waiting" /\ attempts' = 0
              /\ UNCHANGED <<toGuest, guest, signals, heights>>
         [] OTHER ->
              /\ IF cached'.doc # cached.doc THEN PushRenderDoc(cached'.doc) ELSE UNCHANGED toGuest
              /\ UNCHANGED <<frame, guestLoads, host, attempts, guest, signals, heights>>
    /\ UNCHANGED runVars

\* Mutant of Rebind: the new host waits for a document to change.
RebindOnly ==
    /\ host = "waiting" /\ host' = "alive"
    /\ UNCHANGED <<runVars, drawnVars, frame, guestLoads, attempts, toGuest, guest, signals, heights>>

\* rebindHost finds the window: a host for it, and the current document again.
Rebind ==
    /\ host = "waiting"
    /\ host' = "alive"
    /\ toGuest' = Append(toGuest, cached.doc)
    /\ UNCHANGED <<runVars, drawnVars, frame, guestLoads, attempts, guest, signals, heights>>

\* It finds none: it tries again with the next frames, then no more.
RebindLater ==
    /\ host = "waiting"
    /\ IF attempts < MaxAttempts THEN attempts' = attempts + 1 /\ UNCHANGED host
       ELSE host' = "gave up" /\ UNCHANGED attempts
    /\ UNCHANGED <<runVars, drawnVars, frame, guestLoads, toGuest, guest, signals, heights>>

\* The load event: the host is disposed of and made again.
FrameLoaded ==
    /\ frame = "guest" /\ frame' = "loaded"
    /\ host' = "waiting" /\ attempts' = 0
    /\ UNCHANGED <<runVars, drawnVars, guestLoads, toGuest, guest, signals, heights>>

-----------------------------------------------------------------------------
(* guest.ts.                                                               *)

\* The guest's script runs: it listens from here on.
GuestStarts ==
    /\ frame = "initial" /\ frame' = "guest"
    /\ toGuest' = <<>>
    /\ UNCHANGED <<runVars, drawnVars, guestLoads, host, attempts, guest, signals, heights>>

\* The frame is loaded again.
GuestReloads ==
    /\ frame = "loaded" /\ guestLoads < MaxGuestLoads
    /\ frame' = "initial" /\ guestLoads' = guestLoads + 1
    /\ guest' = NoDoc /\ toGuest' = <<>>
    /\ UNCHANGED <<runVars, drawnVars, host, attempts, signals, heights>>

\* createGuestRouter.handleMessage: a document is drawn in place of the last.
GuestDraws ==
    /\ frame \in {"guest", "loaded"} /\ toGuest # <<>>
    /\ guest' = Head(toGuest) /\ toGuest' = Tail(toGuest)
    /\ signals' = signals \o <<[type |-> "ready", px |-> 0],
                               [type |-> "height", px |-> Measure(Head(toGuest))]>>
    /\ UNCHANGED <<runVars, drawnVars, frame, guestLoads, host, attempts, heights>>

\* createSandboxHost.handleMessage: dropped unless the host is alive; a height is
\* pending until the next animation frame.
HostHears ==
    /\ signals # <<>> /\ signals' = Tail(signals)
    /\ heights' = IF host = "alive" /\ Head(signals).type = "height"
                  THEN [heights EXCEPT !.pending = Head(signals).px, !.scheduled = TRUE] ELSE heights
    /\ UNCHANGED <<runVars, drawnVars, frame, guestLoads, host, attempts, toGuest, guest>>

ApplyHeight ==
    /\ heights.scheduled
    /\ heights' = [heights EXCEPT !.scheduled = FALSE, !.applied = heights.pending]
    /\ UNCHANGED <<runVars, drawnVars, frame, guestLoads, host, attempts, toGuest, guest, signals>>

-----------------------------------------------------------------------------

ChartsNext ==
    \/ RunQuery \/ ConfirmQuery \/ CancelQuery \/ SelectResultRow \/ RenderAnswer
    \/ \E kind \in OutcomeKinds : QueryReplies(kind)
    \/ Rebind \/ RebindLater \/ FrameLoaded \/ GuestStarts \/ GuestReloads \/ GuestDraws
    \/ HostHears \/ ApplyHeight

ChartsSpec == ChartsInit /\ [][ChartsNext]_chartVars

\* With the frame loaded, its window found and nothing on its way, it shows the
\* chart of the rows the answer shows, at the height the guest measured, whatever
\* the order of renders, loads and replies.
ChartIsCurrent ==
    /\ frame = "loaded" /\ host = "alive" /\ toGuest = <<>> /\ seen = entry
         => guest = BuildChartDoc(entry)
    /\ frame = "loaded" /\ host = "alive" /\ toGuest = <<>> /\ signals = <<>> /\ ~heights.scheduled
         => heights.applied = Measure(guest)

=============================================================================
