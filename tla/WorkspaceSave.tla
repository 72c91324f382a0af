--------------------------- MODULE WorkspaceSave ---------------------------
(***************************************************************************)
(* How the Workspace reaches the disk: the debounced autosave, the page's  *)
(* last-chance save and the Stop button of App.tsx, the single-flight save *)
(* scheduler they share (src/ui/workspace/save-scheduler.ts), the /rpc     *)
(* client with its ten second abort, and the Core's workspace.save.        *)
(*                                                                         *)
(* The page has one thread: an action of the page is one callback.  A save *)
(* on its way to the Core is a message: the Core handles messages one at a *)
(* time in any order, and one whose request the page has given up on may   *)
(* still arrive.  A snapshot is its value, which the page compares, with   *)
(* the number of the edit that made it, which only the properties read.    *)
(*                                                                         *)
(* The model begins after a successful workspace.load: a failed one leaves *)
(* saving off for the session.                                             *)
(***************************************************************************)
EXTENDS Naturals

CONSTANTS
  Values,    \* what a Workspace may look like
  First,     \* what the load restored
  Timeouts,  \* whether a request may outlast RPC_TIMEOUT_MS
  MaxEdits   \* bound: edits made

ASSUME FirstAssumption == First \in Values
ASSUME ValuesAssumption == "nothing" \notin Values
ASSUME TimeoutsAssumption == Timeouts \in BOOLEAN
ASSUME EditsAssumption == MaxEdits \in Nat

VARIABLES
  current,    \* the Workspace on the screen
  timer,      \* a debounce timer is armed
  persisted,  \* lastPersistedRef
  saveFailed, \* the save indicator shows a failure
  running,    \* the request the scheduler's run awaits, 0 for running = false
  inflight,   \* the snapshot of that run
  pending,    \* the trailing save, at most one
  answer,     \* what has come back for the awaited request
  wire,       \* save requests the Core has not handled
  sends,      \* save requests sent so far
  file,       \* the snapshot on disk
  stage,      \* whether Stop was pressed or the page closed
  target,     \* the snapshot the Stop handler closed over
  flush,      \* result of the Stop handler's synchronous save
  givenUp,    \* history: requests the client aborted
  doubt,      \* history: the disk was written and the page was not told
  masked      \* history: the last debounce was skipped while a save was running

page == <<current, timer, persisted, saveFailed>>
scheduler == <<running, inflight, pending, sends>>
quit == <<stage, target, flush>>
history == <<givenUp, doubt, masked>>
vars == <<page, scheduler, answer, wire, file, quit, history>>

Snapshot == [value : Values, edit : Nat]
NoSnapshot == [value |-> First, edit |-> 0]
Nothing == [value |-> "nothing", edit |-> 0]
Message == [id : Nat, snapshot : Snapshot]

TypeOK ==
  /\ current \in Snapshot /\ current.edit <= MaxEdits
  /\ timer \in BOOLEAN
  /\ persisted \in Values
  /\ saveFailed \in BOOLEAN
  /\ running \in Nat /\ running <= sends
  /\ inflight \in Snapshot
  /\ pending \in Snapshot \cup {Nothing}
  /\ answer \in {"none", "ok", "failed", "lost"}
  /\ wire \subseteq Message
  /\ sends \in Nat
  /\ file \in Snapshot
  /\ stage \in {"open", "draining", "stopped", "closed"}
  /\ target \in Snapshot
  /\ flush \in {"none", "ok", "failed"}
  /\ givenUp \subseteq Nat
  /\ doubt \in BOOLEAN
  /\ masked \in BOOLEAN

Init ==
  /\ current = NoSnapshot /\ timer = TRUE /\ persisted = First /\ saveFailed = FALSE
  /\ running = 0 /\ inflight = NoSnapshot /\ pending = Nothing /\ sends = 0
  /\ answer = "none" /\ wire = {}
  /\ file = NoSnapshot
  /\ stage = "open" /\ target = NoSnapshot /\ flush = "none"
  /\ givenUp = {} /\ doubt = FALSE /\ masked = FALSE

-----------------------------------------------------------------------------
(* The save scheduler.                                                      *)

Run(s) ==
  /\ sends' = sends + 1
  /\ running' = sends + 1
  /\ inflight' = s
  /\ wire' = wire \cup {[id |-> sends + 1, snapshot |-> s]}
  /\ answer' = "none"

\* Mutants of Schedule: the gate forgotten, so saves overlap; the trailing save
\* forgotten.
ScheduleUngated(s) == Run(s) /\ UNCHANGED pending

ScheduleDropping(s) ==
  /\ IF running = 0 THEN Run(s) ELSE UNCHANGED <<running, inflight, sends, wire, answer>>
  /\ UNCHANGED pending

Schedule(s) ==
  \/ /\ running # 0
     /\ pending' = s
     /\ UNCHANGED <<running, inflight, sends, wire, answer>>
  \/ /\ running = 0
     /\ Run(s)
     /\ UNCHANGED pending

Busy == running # 0 \/ pending # Nothing

\* advance: the trailing save, if any, becomes the next run.
Advance ==
  \/ /\ pending # Nothing
     /\ pending' = Nothing
     /\ Run(pending)
  \/ /\ pending = Nothing
     /\ running' = 0
     /\ answer' = "none"
     /\ UNCHANGED <<inflight, pending, sends, wire>>

\* settle(true): the marker advances, the indicator clears.
SettleOk ==
  /\ stage # "closed" /\ running # 0
  /\ answer = "ok"
  /\ persisted' = inflight.value
  /\ saveFailed' = FALSE
  /\ Advance
  /\ UNCHANGED <<current, timer, file, quit, history>>

\* Mutants of SettleFailed: the marker advances on failure too; no abort of a
\* request nobody answers.
SettleOptimistic ==
  /\ stage # "closed" /\ running # 0
  /\ answer \in {"failed", "lost"}
  /\ persisted' = inflight.value
  /\ saveFailed' = TRUE
  /\ doubt' = (doubt \/ answer = "lost")
  /\ Advance
  /\ UNCHANGED <<current, timer, file, quit, givenUp, masked>>

SettleWithoutAbort ==
  /\ stage # "closed" /\ running # 0
  /\ answer \in {"failed", "lost"}
  /\ saveFailed' = TRUE
  /\ doubt' = (doubt \/ answer = "lost")
  /\ Advance
  /\ UNCHANGED <<current, timer, persisted, file, quit, givenUp, masked>>

\* settle(false): an error reply, a lost one, or the client's abort.
SettleFailed ==
  /\ stage # "closed" /\ running # 0
  /\ \/ answer \in {"failed", "lost"} /\ UNCHANGED givenUp
     \/ answer = "none" /\ Timeouts /\ givenUp' = givenUp \cup {running}
  /\ saveFailed' = TRUE
  /\ doubt' = (doubt \/ answer = "lost")
  /\ Advance
  /\ UNCHANGED <<current, timer, persisted, file, quit, masked>>

-----------------------------------------------------------------------------
(* The page.                                                                *)

\* A rearrangement re-arms the debounce; it may restore an earlier look.
Edit(v) ==
  /\ stage # "closed"
  /\ current.edit < MaxEdits
  /\ current' = [value |-> v, edit |-> current.edit + 1]
  /\ timer' = TRUE
  /\ UNCHANGED <<persisted, saveFailed, scheduler, answer, wire, file, quit, history>>

\* The callback of the debounce.
TimerFires ==
  /\ timer /\ stage # "closed"
  /\ timer' = FALSE
  /\ \/ /\ stage # "open"                   \* the quit path owns the final write
        /\ UNCHANGED <<scheduler, answer, wire, masked>>
     \/ /\ stage = "open" /\ current.value = persisted
        /\ masked' = Busy
        /\ UNCHANGED <<scheduler, answer, wire>>
     \/ /\ stage = "open" /\ current.value # persisted
        /\ Schedule(current)
        /\ masked' = FALSE
  /\ UNCHANGED <<current, persisted, saveFailed, file, quit, givenUp, doubt>>

\* saveWorkspaceSync: the page blocks until the Core has written and replied,
\* has written and the reply is lost, or has not written.
SaveSync(s) ==
  \/ persisted' = s.value /\ file' = s /\ doubt' = FALSE
  \/ file' = s /\ doubt' = TRUE /\ UNCHANGED persisted
  \/ UNCHANGED <<persisted, file, doubt>>

\* beforeunload; whatever the scheduler still has to do dies with the page.
Unload ==
  /\ stage # "closed"
  /\ stage' = "closed"
  /\ timer' = FALSE
  /\ \/ /\ current.value = persisted \/ Busy
        /\ UNCHANGED <<persisted, file, doubt>>
     \/ /\ current.value # persisted /\ ~Busy
        /\ SaveSync(current)
  /\ UNCHANGED <<current, saveFailed, scheduler, answer, wire, target, flush, givenUp, masked>>

\* onStop, up to its await of drain().
Stop ==
  /\ stage = "open"
  /\ stage' = "draining"
  /\ timer' = FALSE
  /\ target' = current
  /\ IF current.value = persisted
     THEN UNCHANGED <<scheduler, answer, wire>>
     ELSE Schedule(current)
  /\ UNCHANGED <<current, persisted, saveFailed, file, flush, history>>

\* Mutant of StopFlushes: no last-ditch flush.
StopWithoutFlush ==
  /\ stage = "draining" /\ ~Busy
  /\ stage' = "stopped"
  /\ UNCHANGED <<page, scheduler, answer, wire, file, target, flush, history>>

\* Drained: the last-ditch flush, then the shutdown call.
StopFlushes ==
  /\ stage = "draining" /\ ~Busy
  /\ stage' = "stopped"
  /\ \/ /\ target.value = persisted
        /\ UNCHANGED <<persisted, file, doubt, flush>>
     \/ /\ target.value # persisted
        /\ SaveSync(target)
        /\ flush' = IF persisted' = target.value THEN "ok" ELSE "failed"
  /\ UNCHANGED <<current, timer, saveFailed, scheduler, answer, wire, target, givenUp, masked>>

-----------------------------------------------------------------------------
(* The network and the Core.                                                *)

Replies(m, r) == answer' = IF m.id = running THEN r ELSE answer

\* workspace.save writes a temporary file and renames it over the old one.
CoreSaves(m) ==
  /\ wire' = wire \ {m}
  /\ file' = m.snapshot
  /\ Replies(m, "ok")
  /\ doubt' = (m.id # running)
  /\ UNCHANGED <<page, scheduler, quit, givenUp, masked>>

\* The Core answers with an error, or the message never reaches it.
CoreRefuses(m) ==
  /\ wire' = wire \ {m}
  /\ Replies(m, "failed")
  /\ UNCHANGED <<page, scheduler, file, quit, history>>

ReplyLost ==
  /\ answer = "ok"
  /\ answer' = "lost"
  /\ UNCHANGED <<page, scheduler, wire, file, quit, history>>

-----------------------------------------------------------------------------

Settle == SettleOk \/ SettleFailed

Core == \E m \in wire : CoreSaves(m) \/ CoreRefuses(m)

Next ==
  \/ \E v \in Values : Edit(v)
  \/ TimerFires \/ Settle \/ Unload \/ Stop \/ StopFlushes
  \/ Core \/ ReplyLost

Spec == Init /\ [][Next]_vars

\* The page runs its callbacks; the client's abort settles what nobody answers.
FairSpec == Spec /\ WF_vars(Settle) /\ WF_vars(StopFlushes)

-----------------------------------------------------------------------------
(* Properties.                                                              *)

(* The marker the page compares against tells the truth: with no save       *)
(* running, the disk holds what lastPersistedRef says, unless a write was   *)
(* done whose reply the page never got.                                     *)
MarkerIsTruthful == running = 0 /\ ~doubt => file.value = persisted

(* Saves never overtake each other, the synchronous ones of Stop and of     *)
(* closing the page included (DW-27): the disk follows the screen in order, *)
(* and goes back only when a request the page had given up on still lands.  *)
InOrder == INSTANCE Autosave WITH
  latest <- current.edit,
  saved <- file.edit,
  abandoned <- {m.snapshot.edit : m \in {n \in wire : n.id \in givenUp}}
SavesInOrder == InOrder!Spec

(* When the page is quiet what it shows is saved or the indicator shows a   *)
(* failure, whatever order edits, replies and timers came in.  The exception*)
(* is a debounce skipped while a save was running, because the edit had     *)
(* restored what was saved before it.                                       *)
Quiet == stage = "open" /\ ~timer /\ ~Busy
QuietIsSaved == Quiet => current.value = persisted \/ saveFailed \/ masked

(* Stop waits for the running save and the trailing one and then leaves the *)
(* Workspace it was pressed on, on disk, unless the last write failed.      *)
StopSavesTarget ==
  stage = "stopped" => file.value = target.value \/ flush = "failed" \/ doubt

(* What was saved, what the page believes saved and what it shows agree.    *)
SavesAreTrue == MarkerIsTruthful /\ QuietIsSaved /\ StopSavesTarget

(* Pressing Stop gets to the shutdown call (or the page is closed first).   *)
DrainCompletes == stage = "draining" ~> stage \in {"stopped", "closed"}

(* What App.tsx says of the debounced save: an unchanged Workspace does not *)
(* write and a genuinely different one does, so a quiet page that shows no  *)
(* failure has nothing unsaved.                                             *)
QuietWithoutFailureIsSaved == Quiet /\ ~saveFailed => current.value = persisted

=============================================================================
