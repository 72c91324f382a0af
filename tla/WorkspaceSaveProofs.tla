------------------------ MODULE WorkspaceSaveProofs ------------------------
(***************************************************************************)
(* Theorems about WorkspaceSave, for every set of looks a Workspace may    *)
(* have, with and without time-outs, and any number of edits and requests. *)
(***************************************************************************)
EXTENDS WorkspaceSave, TLAPS

-----------------------------------------------------------------------------
(* The inductive invariant.                                                 *)

\* A request the Core has not handled is the one the scheduler awaits, or one
\* the page has given up on.
WireInv ==
  \A m \in wire : /\ m.id \in 1 .. sends
                  /\ m.id # running => m.id \in givenUp
                  /\ m.id = running => m.snapshot = inflight /\ answer = "none"

GateInv ==
  /\ givenUp \subseteq 1 .. sends
  /\ running \notin givenUp
  /\ running = 0 => answer = "none" /\ pending = Nothing

\* Everything under way or saved was on the screen.
SeenInv ==
  /\ file.edit <= current.edit /\ inflight.edit <= current.edit
  /\ pending.edit <= current.edit /\ target.edit <= current.edit
  /\ \A m \in wire : m.snapshot.edit <= current.edit

\* The running save is younger than whatever can still land before it.
OrderInv ==
  running # 0 =>
    /\ file.edit <= inflight.edit
    /\ \A m \in wire : m.snapshot.edit <= inflight.edit
    /\ pending # Nothing => inflight.edit <= pending.edit

\* Nothing younger than the Workspace Stop was pressed on is under way.
TargetInv ==
  stage \in {"draining", "stopped"} =>
    /\ file.edit <= target.edit
    /\ \A m \in wire : m.snapshot.edit <= target.edit
    /\ running # 0 => inflight.edit <= target.edit
    /\ pending # Nothing => pending.edit <= target.edit

\* The disk is one answer ahead of the marker, or level with it.
MarkerInv ==
  ~doubt => file.value = IF running # 0 /\ answer \in {"ok", "lost"}
                         THEN inflight.value ELSE persisted

\* A quiet debounce means the last save scheduled is of what is on the screen.
QuietInv ==
  stage = "open" /\ ~timer /\ ~masked =>
    IF running = 0 THEN current.value = persisted \/ saveFailed
    ELSE IF pending = Nothing THEN inflight.value = current.value
    ELSE pending.value = current.value

StoppedInv ==
  stage = "stopped" => running = 0 /\ StopSavesTarget

Inv ==
  /\ TypeOK
  /\ WireInv /\ GateInv
  /\ SeenInv /\ OrderInv /\ TargetInv
  /\ MarkerInv /\ QuietInv /\ StoppedInv

LEMMA NothingIsNoSnapshot == Nothing \notin Snapshot
BY ValuesAssumption DEF Nothing, Snapshot

LEMMA InvInit == Init => Inv
<1> SUFFICES ASSUME Init PROVE Inv
  OBVIOUS
<1> USE DEF Init, NoSnapshot, Nothing
<1>1. TypeOK
  <2>1. NoSnapshot \in Snapshot
    BY FirstAssumption DEF Snapshot
  <2>2. current \in Snapshot /\ inflight \in Snapshot /\ file \in Snapshot /\ target \in Snapshot
    BY <2>1
  <2>3. current.edit <= MaxEdits /\ running <= sends
    BY EditsAssumption
  <2>4. wire \subseteq Message /\ givenUp \subseteq Nat
    OBVIOUS
  <2>5. QED
    BY <2>2, <2>3, <2>4, FirstAssumption DEF TypeOK
<1>2. WireInv /\ GateInv
  BY DEF WireInv, GateInv
<1>3. SeenInv /\ OrderInv /\ TargetInv
  BY DEF SeenInv, OrderInv, TargetInv
<1>4. MarkerInv /\ QuietInv /\ StoppedInv
  BY DEF MarkerInv, QuietInv, StoppedInv
<1>5. QED
  BY <1>1, <1>2, <1>3, <1>4 DEF Inv

-----------------------------------------------------------------------------
(* What the scheduler's two operations keep.                                *)

\* The part of the invariant the scheduler, the network and the Core share.
RequestsInv == WireInv /\ GateInv

\* A run is a new request: nothing under way has its number.
LEMMA RunRequests ==
  ASSUME TypeOK, RequestsInv, NEW s \in Snapshot, Run(s),
         givenUp' = givenUp \/ (running # 0 /\ givenUp' = givenUp \cup {running}),
         running # 0 => answer # "none" \/ running \in givenUp',
         pending' = Nothing \/ pending' = pending
  PROVE  /\ RequestsInv'
         /\ sends' \in Nat /\ running' \in Nat /\ running' <= sends' /\ running' # 0
         /\ inflight' \in Snapshot /\ wire' \subseteq Message
         /\ answer' = "none" /\ givenUp' \subseteq Nat
<1> DEFINE new == [id |-> sends + 1, snapshot |-> s]
<1>1. /\ sends \in Nat /\ sends' = sends + 1 /\ running' = sends + 1
      /\ running \in Nat /\ running <= sends
      /\ inflight' = s /\ answer' = "none"
      /\ wire' = wire \cup {new} /\ new \in Message
  BY DEF TypeOK, Run, Message
<1>2. givenUp' \subseteq 1 .. sends
  <2>1. running # 0 => running \in 1 .. sends
    BY <1>1
  <2>2. givenUp \subseteq 1 .. sends
    BY DEF RequestsInv, GateInv
  <2>3. givenUp' \subseteq givenUp \cup {running}
    OBVIOUS
  <2>4. running = 0 => givenUp' = givenUp
    OBVIOUS
  <2>5. QED
    BY <2>1, <2>2, <2>3, <2>4
<1>3. \A m \in wire : m.id \in 1 .. sends /\ m.id \in givenUp'
  <2> TAKE m \in wire
  <2>1. m.id \in 1 .. sends
    BY DEF RequestsInv, WireInv
  <2>2. CASE m.id # running
    BY <2>1, <2>2 DEF RequestsInv, WireInv
  <2>3. CASE m.id = running
    BY <1>1, <2>1, <2>3 DEF RequestsInv, WireInv
  <2>4. QED
    BY <2>1, <2>2, <2>3
<1>4. WireInv'
  <2>1. \A m \in wire : m.id # running' /\ m.id \in 1 .. sends'
    BY <1>1, <1>3
  <2>2. new.id = running' /\ new.id \in 1 .. sends' /\ new.snapshot = inflight'
    BY <1>1
  <2>3. QED
    BY <1>1, <1>3, <2>1, <2>2 DEF WireInv
<1>5. GateInv'
  BY <1>1, <1>2 DEF GateInv
<1>6. wire' \subseteq Message
  BY <1>1 DEF TypeOK
<1>7. QED
  BY <1>1, <1>2, <1>4, <1>5, <1>6 DEF RequestsInv

\* What schedule() leaves behind.
LEMMA ScheduleKeeps ==
  ASSUME Inv, Schedule(current), UNCHANGED <<current, file, givenUp>>,
         target' \in {target, current}
  PROVE  /\ RequestsInv' /\ SeenInv' /\ OrderInv'
         /\ sends' \in Nat /\ running' \in Nat /\ running' <= sends' /\ running' # 0
         /\ inflight' \in Snapshot /\ pending' \in Snapshot \cup {Nothing}
         /\ wire' \subseteq Message
         /\ answer' \in {"none", "ok", "failed", "lost"}
         /\ running' # 0 /\ answer' \in {"ok", "lost"}
              => running # 0 /\ answer' = answer /\ inflight' = inflight
         /\ running # 0 /\ answer \in {"ok", "lost"}
              => answer' = answer /\ inflight' = inflight
         /\ IF pending' = Nothing THEN inflight' = current ELSE pending' = current
         /\ pending' # Nothing => pending' = current
         /\ inflight' \in {inflight, current}
         /\ \A m \in wire' : m \in wire \/ m.snapshot = current
<1>0. current \in Snapshot /\ current.edit \in Nat /\ current # Nothing
  BY NothingIsNoSnapshot DEF Inv, TypeOK, Snapshot
<1>1. CASE running # 0
  <2>1. /\ pending' = current
        /\ UNCHANGED <<running, inflight, sends, wire, answer>>
    BY <1>1 DEF Schedule
  <2>2. RequestsInv'
    BY <1>1, <2>1 DEF Inv, RequestsInv, WireInv, GateInv
  <2>3. SeenInv' /\ OrderInv'
    BY <1>0, <1>1, <2>1 DEF Inv, SeenInv, OrderInv, TypeOK, Snapshot
  <2>4. QED
    BY <1>0, <1>1, <2>1, <2>2, <2>3 DEF Inv, TypeOK
<1>2. CASE running = 0
  <2>1. Run(current) /\ UNCHANGED pending /\ pending = Nothing
    BY <1>2 DEF Schedule, Inv, GateInv
  <2>2. /\ RequestsInv'
        /\ sends' \in Nat /\ running' \in Nat /\ running' <= sends' /\ running' # 0
        /\ inflight' \in Snapshot /\ wire' \subseteq Message
        /\ answer' = "none"
    <3>1. TypeOK /\ RequestsInv
      BY DEF Inv, RequestsInv
    <3>2. \/ givenUp' = givenUp
          \/ running # 0 /\ givenUp' = givenUp \cup {running}
      OBVIOUS
    <3>3. QED
      BY <1>0, <1>2, <2>1, <3>1, <3>2, RunRequests
  <2>3. /\ inflight' = current
        /\ wire' = wire \cup {[id |-> sends + 1, snapshot |-> current]}
    BY <2>1 DEF Run
  <2>4. SeenInv' /\ OrderInv'
    BY <1>0, <2>1, <2>3 DEF Inv, SeenInv, OrderInv, Nothing
  <2>5. QED
    BY <1>0, <1>2, <2>1, <2>2, <2>3, <2>4 DEF Inv, TypeOK
<1>3. QED
  BY <1>1, <1>2

\* What advance() leaves behind, once the awaited request has been answered or
\* given up on.
LEMMA AdvanceKeeps ==
  ASSUME Inv, running # 0, Advance, UNCHANGED <<current, file, target, stage>>,
         givenUp' = givenUp \/ givenUp' = givenUp \cup {running},
         answer # "none" \/ running \in givenUp'
  PROVE  /\ RequestsInv' /\ SeenInv' /\ OrderInv' /\ TargetInv'
         /\ sends' \in Nat /\ running' \in Nat /\ running' <= sends'
         /\ inflight' \in Snapshot /\ pending' = Nothing
         /\ wire' \subseteq Message /\ givenUp' \subseteq Nat
         /\ answer' = "none"
         /\ IF pending = Nothing THEN running' = 0
            ELSE running' # 0 /\ inflight' = pending
<1>1. CASE pending # Nothing
  <2>1. pending \in Snapshot /\ Run(pending) /\ pending' = Nothing
    BY <1>1 DEF Inv, TypeOK, Advance
  <2>2. /\ RequestsInv'
        /\ sends' \in Nat /\ running' \in Nat /\ running' <= sends' /\ running' # 0
        /\ inflight' \in Snapshot /\ wire' \subseteq Message
        /\ answer' = "none" /\ givenUp' \subseteq Nat
    <3>1. TypeOK /\ RequestsInv
      BY DEF Inv, RequestsInv
    <3>2. \/ givenUp' = givenUp
          \/ running # 0 /\ givenUp' = givenUp \cup {running}
      OBVIOUS
    <3>3. QED
      BY <2>1, <3>1, <3>2, RunRequests
  <2>3. /\ inflight' = pending
        /\ wire' = wire \cup {[id |-> sends + 1, snapshot |-> pending]}
    BY <2>1 DEF Run
  <2>4. /\ pending.edit \in Nat /\ inflight.edit \in Nat /\ file.edit \in Nat
        /\ \A m \in wire : m.snapshot.edit \in Nat
        /\ current.edit \in Nat
    BY <2>1 DEF Inv, TypeOK, Snapshot, Message
  <2>5. SeenInv'
    BY <2>1, <2>3, <2>4 DEF Inv, SeenInv, Nothing
  <2>6. OrderInv'
    BY <1>1, <2>1, <2>3, <2>4 DEF Inv, OrderInv
  <2>7. TargetInv'
    BY <1>1, <2>1, <2>3, <2>4 DEF Inv, TargetInv
  <2>8. QED
    BY <1>1, <2>1, <2>2, <2>3, <2>5, <2>6, <2>7
<1>2. CASE pending = Nothing
  <2>1. running' = 0 /\ answer' = "none" /\ UNCHANGED <<inflight, pending, sends, wire>>
    BY <1>2 DEF Advance
  <2>2. /\ running \in Nat /\ running <= sends /\ sends \in Nat
        /\ running \in 1 .. sends
        /\ givenUp' \subseteq 1 .. sends
    <3>1. running \in Nat /\ running <= sends /\ sends \in Nat
      BY DEF Inv, TypeOK
    <3>2. running \in 1 .. sends
      BY <3>1
    <3>3. QED
      BY <3>1, <3>2 DEF Inv, GateInv
  <2>3. RequestsInv'
    <3>1. \A m \in wire : m.id \in 1 .. sends /\ m.id \in givenUp'
      <4> TAKE m \in wire
      <4>1. CASE m.id # running
        BY <4>1 DEF Inv, WireInv
      <4>2. CASE m.id = running
        BY <4>2 DEF Inv, WireInv
      <4>3. QED
        BY <4>1, <4>2
    <3>2. \A m \in wire : m.id # 0
      BY <3>1, <2>2
    <3>3. QED
      BY <1>2, <2>1, <2>2, <3>1, <3>2 DEF RequestsInv, WireInv, GateInv
  <2>4. SeenInv' /\ OrderInv' /\ TargetInv'
    BY <2>1 DEF Inv, SeenInv, OrderInv, TargetInv
  <2>5. QED
    BY <1>2, <2>1, <2>2, <2>3, <2>4 DEF Inv, TypeOK
<1>3. QED
  BY <1>1, <1>2

-----------------------------------------------------------------------------
(* Every action keeps the invariant.                                        *)

LEMMA EditInv == ASSUME Inv, NEW v \in Values, Edit(v) PROVE Inv'
<1>1. /\ current' = [value |-> v, edit |-> current.edit + 1] /\ timer' = TRUE
      /\ current' \in Snapshot /\ current'.edit <= MaxEdits
      /\ current'.edit = current.edit + 1 /\ current.edit \in Nat
      /\ UNCHANGED <<persisted, saveFailed, scheduler, answer, wire, file, quit, history>>
  BY EditsAssumption DEF Edit, Inv, TypeOK, Snapshot
<1> USE DEF scheduler, quit, history
<1>2. TypeOK'
  BY <1>1 DEF Inv, TypeOK
<1>3. WireInv' /\ GateInv'
  BY <1>1 DEF Inv, WireInv, GateInv
<1>4. SeenInv'
  <2>1. /\ file.edit \in Nat /\ inflight.edit \in Nat /\ target.edit \in Nat
        /\ pending.edit \in Nat
        /\ \A m \in wire : m.snapshot.edit \in Nat
    BY DEF Inv, TypeOK, Snapshot, Message, Nothing
  <2>2. QED
    BY <1>1, <2>1 DEF Inv, SeenInv
<1>5. OrderInv' /\ TargetInv'
  BY <1>1 DEF Inv, OrderInv, TargetInv
<1>6. MarkerInv' /\ QuietInv' /\ StoppedInv'
  BY <1>1 DEF Inv, MarkerInv, QuietInv, StoppedInv, StopSavesTarget
<1>7. QED
  BY <1>2, <1>3, <1>4, <1>5, <1>6 DEF Inv

LEMMA TimerInv == ASSUME Inv, TimerFires PROVE Inv'
<1>1. /\ timer' = FALSE /\ stage # "closed"
      /\ UNCHANGED <<current, persisted, saveFailed, file, stage, target, flush, givenUp, doubt>>
  BY DEF TimerFires, quit
<1>2. CASE stage # "open"
  <2>1. UNCHANGED <<running, inflight, pending, sends, answer, wire, masked>>
    BY <1>2 DEF TimerFires, scheduler
  <2>2. TypeOK'
    BY <1>1, <2>1 DEF Inv, TypeOK
  <2>3. WireInv' /\ GateInv' /\ SeenInv' /\ OrderInv' /\ TargetInv'
    BY <1>1, <2>1 DEF Inv, WireInv, GateInv, SeenInv, OrderInv, TargetInv
  <2>4. MarkerInv' /\ QuietInv' /\ StoppedInv'
    BY <1>1, <1>2, <2>1 DEF Inv, MarkerInv, QuietInv, StoppedInv, StopSavesTarget
  <2>5. QED
    BY <2>2, <2>3, <2>4 DEF Inv
<1>3. CASE stage = "open" /\ current.value = persisted
  <2>1. masked' = Busy /\ UNCHANGED <<running, inflight, pending, sends, answer, wire>>
    BY <1>3 DEF TimerFires, scheduler
  <2>2. TypeOK'
    BY <1>1, <2>1 DEF Inv, TypeOK, Busy
  <2>3. WireInv' /\ GateInv' /\ SeenInv' /\ OrderInv' /\ TargetInv'
    BY <1>1, <2>1 DEF Inv, WireInv, GateInv, SeenInv, OrderInv, TargetInv
  <2>4. MarkerInv' /\ QuietInv' /\ StoppedInv'
    BY <1>1, <1>3, <2>1 DEF Inv, MarkerInv, QuietInv, StoppedInv, StopSavesTarget, Busy
  <2>5. QED
    BY <2>2, <2>3, <2>4 DEF Inv
<1>4. CASE stage = "open" /\ current.value # persisted
  <2>1. Schedule(current) /\ masked' = FALSE
    BY <1>4 DEF TimerFires
  <2>2. /\ RequestsInv' /\ SeenInv' /\ OrderInv'
        /\ sends' \in Nat /\ running' \in Nat /\ running' <= sends' /\ running' # 0
        /\ inflight' \in Snapshot /\ pending' \in Snapshot \cup {Nothing}
        /\ wire' \subseteq Message
        /\ answer' \in {"none", "ok", "failed", "lost"}
        /\ running' # 0 /\ answer' \in {"ok", "lost"}
             => running # 0 /\ answer' = answer /\ inflight' = inflight
        /\ running # 0 /\ answer \in {"ok", "lost"}
             => answer' = answer /\ inflight' = inflight
        /\ IF pending' = Nothing THEN inflight' = current ELSE pending' = current
    BY <1>1, <2>1, ScheduleKeeps
  <2>3. TypeOK'
    BY <1>1, <2>1, <2>2 DEF Inv, TypeOK
  <2>4. TargetInv' /\ StoppedInv'
    BY <1>1, <1>4 DEF TargetInv, StoppedInv
  <2>5. MarkerInv'
    BY <1>1, <2>2 DEF Inv, MarkerInv
  <2>6. QuietInv'
    BY <1>1, <2>2 DEF QuietInv
  <2>7. QED
    BY <2>2, <2>3, <2>4, <2>5, <2>6 DEF Inv, RequestsInv
<1>5. QED
  BY <1>2, <1>3, <1>4

LEMMA SettleOkInv == ASSUME Inv, SettleOk PROVE Inv'
<1>1. /\ running # 0 /\ answer = "ok" /\ persisted' = inflight.value /\ saveFailed' = FALSE
      /\ UNCHANGED <<current, timer, file, stage, target, flush, givenUp, doubt, masked>>
      /\ Advance
  BY DEF SettleOk, quit, history
<1>2. /\ RequestsInv' /\ SeenInv' /\ OrderInv' /\ TargetInv'
      /\ sends' \in Nat /\ running' \in Nat /\ running' <= sends'
      /\ inflight' \in Snapshot /\ pending' = Nothing
      /\ wire' \subseteq Message /\ givenUp' \subseteq Nat
      /\ answer' = "none"
      /\ IF pending = Nothing THEN running' = 0
         ELSE running' # 0 /\ inflight' = pending
  BY <1>1, AdvanceKeeps
<1>3. TypeOK'
  BY <1>1, <1>2 DEF Inv, TypeOK, Snapshot
<1>4. MarkerInv'
  BY <1>1, <1>2 DEF Inv, MarkerInv
<1>5. QuietInv'
  BY <1>1, <1>2 DEF Inv, QuietInv
<1>6. StoppedInv'
  BY <1>1 DEF Inv, StoppedInv
<1>7. QED
  BY <1>2, <1>3, <1>4, <1>5, <1>6 DEF Inv, RequestsInv

LEMMA SettleFailedInv == ASSUME Inv, SettleFailed PROVE Inv'
<1>1. /\ running # 0 /\ saveFailed' = TRUE /\ answer # "ok"
      /\ doubt' = (doubt \/ answer = "lost")
      /\ UNCHANGED <<current, timer, persisted, file, stage, target, flush, masked>>
      /\ Advance
      /\ \/ answer # "none" /\ givenUp' = givenUp
         \/ givenUp' = givenUp \cup {running}
  BY DEF SettleFailed, quit
<1>2. /\ RequestsInv' /\ SeenInv' /\ OrderInv' /\ TargetInv'
      /\ sends' \in Nat /\ running' \in Nat /\ running' <= sends'
      /\ inflight' \in Snapshot /\ pending' = Nothing
      /\ wire' \subseteq Message /\ givenUp' \subseteq Nat
      /\ answer' = "none"
      /\ IF pending = Nothing THEN running' = 0
         ELSE running' # 0 /\ inflight' = pending
  <2>1. \/ givenUp' = givenUp
        \/ givenUp' = givenUp \cup {running}
    BY <1>1
  <2>2. answer # "none" \/ running \in givenUp'
    BY <1>1
  <2>3. QED
    BY <1>1, <2>1, <2>2, AdvanceKeeps
<1>3. TypeOK'
  BY <1>1, <1>2 DEF Inv, TypeOK
<1>4. MarkerInv'
  BY <1>1, <1>2 DEF Inv, MarkerInv
<1>5. QuietInv'
  BY <1>1, <1>2 DEF Inv, QuietInv
<1>6. StoppedInv'
  BY <1>1 DEF Inv, StoppedInv
<1>7. QED
  BY <1>2, <1>3, <1>4, <1>5, <1>6 DEF Inv, RequestsInv

LEMMA UnloadInv == ASSUME Inv, Unload PROVE Inv'
<1>1. /\ stage' = "closed" /\ timer' = FALSE
      /\ UNCHANGED <<current, saveFailed, running, inflight, pending, sends, answer, wire,
                     target, flush, givenUp, masked>>
      /\ \/ UNCHANGED <<persisted, file, doubt>>
         \/ ~Busy /\ SaveSync(current)
  BY DEF Unload, scheduler
<1>2. TypeOK'
  BY <1>1 DEF Inv, TypeOK, SaveSync, Snapshot
<1>3. WireInv' /\ GateInv'
  BY <1>1 DEF Inv, WireInv, GateInv
<1>4. SeenInv' /\ OrderInv'
  <2>1. current.edit <= current.edit
    BY DEF Inv, TypeOK, Snapshot
  <2>2. QED
    BY <1>1, <2>1 DEF Inv, SeenInv, OrderInv, SaveSync, Busy
<1>5. TargetInv' /\ QuietInv' /\ StoppedInv'
  BY <1>1 DEF TargetInv, QuietInv, StoppedInv
<1>6. MarkerInv'
  BY <1>1 DEF Inv, MarkerInv, SaveSync, Busy
<1>7. QED
  BY <1>2, <1>3, <1>4, <1>5, <1>6 DEF Inv

LEMMA StopInv == ASSUME Inv, Stop PROVE Inv'
<1>1. /\ stage = "open" /\ stage' = "draining" /\ timer' = FALSE /\ target' = current
      /\ UNCHANGED <<current, persisted, saveFailed, file, flush, givenUp, doubt, masked>>
  BY DEF Stop, history
<1>2. /\ current \in Snapshot /\ current.edit \in Nat
      /\ \A m \in wire : m.snapshot.edit <= current.edit
      /\ file.edit <= current.edit /\ inflight.edit <= current.edit
      /\ pending.edit <= current.edit
  BY DEF Inv, TypeOK, SeenInv, Snapshot
<1>3. CASE current.value = persisted
  <2>1. UNCHANGED <<running, inflight, pending, sends, answer, wire>>
    BY <1>3 DEF Stop, scheduler
  <2>2. TypeOK'
    BY <1>1, <2>1 DEF Inv, TypeOK
  <2>3. WireInv' /\ GateInv' /\ OrderInv'
    BY <1>1, <2>1 DEF Inv, WireInv, GateInv, OrderInv
  <2>4. SeenInv' /\ TargetInv'
    BY <1>1, <1>2, <2>1 DEF SeenInv, TargetInv
  <2>5. MarkerInv' /\ QuietInv' /\ StoppedInv'
    BY <1>1, <2>1 DEF Inv, MarkerInv, QuietInv, StoppedInv
  <2>6. QED
    BY <2>2, <2>3, <2>4, <2>5 DEF Inv
<1>4. CASE current.value # persisted
  <2>1. Schedule(current)
    BY <1>4 DEF Stop
  <2>2. /\ RequestsInv'
        /\ sends' \in Nat /\ running' \in Nat /\ running' <= sends' /\ running' # 0
        /\ inflight' \in Snapshot /\ pending' \in Snapshot \cup {Nothing}
        /\ wire' \subseteq Message
        /\ answer' \in {"none", "ok", "failed", "lost"}
        /\ running' # 0 /\ answer' \in {"ok", "lost"}
             => running # 0 /\ answer' = answer /\ inflight' = inflight
        /\ running # 0 /\ answer \in {"ok", "lost"}
             => answer' = answer /\ inflight' = inflight
        /\ SeenInv' /\ OrderInv'
    BY <1>1, <2>1, ScheduleKeeps
  <2>3. TypeOK'
    BY <1>1, <1>2, <2>2 DEF Inv, TypeOK
  <2>4. TargetInv'
    BY <1>1, <2>2 DEF SeenInv, TargetInv
  <2>5. MarkerInv'
    BY <1>1, <2>2 DEF Inv, MarkerInv
  <2>6. QuietInv' /\ StoppedInv'
    BY <1>1 DEF QuietInv, StoppedInv
  <2>7. QED
    BY <2>2, <2>3, <2>4, <2>5, <2>6 DEF Inv, RequestsInv
<1>5. QED
  BY <1>3, <1>4

LEMMA StopFlushesInv == ASSUME Inv, StopFlushes PROVE Inv'
<1>1. /\ stage = "draining" /\ running = 0 /\ pending = Nothing /\ stage' = "stopped"
      /\ UNCHANGED <<current, timer, saveFailed, running, inflight, pending, sends, answer,
                     wire, target, givenUp, masked>>
      /\ \/ target.value = persisted /\ UNCHANGED <<persisted, file, doubt, flush>>
         \/ /\ target.value # persisted
            /\ SaveSync(target)
            /\ flush' = IF persisted' = target.value THEN "ok" ELSE "failed"
  BY DEF StopFlushes, scheduler, Busy
<1>2. target \in Snapshot /\ target.edit \in Nat /\ target.value \in Values
  BY DEF Inv, TypeOK, Snapshot
<1>3. \/ persisted' = persisted /\ file' = file /\ doubt' = doubt
      \/ persisted' = target.value /\ file' = target /\ doubt' = FALSE
      \/ persisted' = persisted /\ file' = target /\ doubt' = TRUE
  BY <1>1 DEF SaveSync
<1>4. TypeOK'
  BY <1>1, <1>2, <1>3 DEF Inv, TypeOK
<1>5. WireInv' /\ GateInv'
  BY <1>1 DEF Inv, WireInv, GateInv
<1>6. SeenInv' /\ OrderInv' /\ TargetInv'
  <2>1. target.edit <= target.edit
    BY <1>2
  <2>2. QED
    BY <1>1, <1>3, <2>1 DEF Inv, SeenInv, OrderInv, TargetInv
<1>7. MarkerInv'
  BY <1>1, <1>3 DEF Inv, MarkerInv
<1>8. QuietInv'
  BY <1>1 DEF QuietInv
<1>9. StoppedInv'
  <2>1. CASE target.value = persisted
    BY <1>1, <2>1 DEF Inv, StoppedInv, StopSavesTarget, MarkerInv
  <2>2. CASE target.value # persisted
    <3>1. flush' = IF persisted' = target.value THEN "ok" ELSE "failed"
      BY <1>1, <2>2
    <3>2. QED
      BY <1>1, <1>3, <2>2, <3>1 DEF StoppedInv, StopSavesTarget
  <2>3. QED
    BY <2>1, <2>2
<1>10. QED
  BY <1>4, <1>5, <1>6, <1>7, <1>8, <1>9 DEF Inv

LEMMA CoreSavesInv == ASSUME Inv, NEW m \in wire, CoreSaves(m) PROVE Inv'
<1>1. /\ wire' = wire \ {m} /\ file' = m.snapshot
      /\ answer' = IF m.id = running THEN "ok" ELSE answer
      /\ doubt' = (m.id # running)
      /\ UNCHANGED <<current, timer, persisted, saveFailed, running, inflight, pending, sends,
                     stage, target, flush, givenUp, masked>>
  BY DEF CoreSaves, Replies, page, scheduler, quit
<1>2. /\ m \in Message /\ m.snapshot \in Snapshot /\ m.id \in 1 .. sends /\ m.id # 0
      /\ m.id = running => m.snapshot = inflight
      /\ \A n \in wire : n.id = running /\ m.id = running => n = m
  <2>1. m \in Message /\ m.id \in 1 .. sends
    BY DEF Inv, TypeOK, WireInv
  <2>2. \A n \in wire : n.id = running => n.snapshot = inflight /\ n \in Message
    BY DEF Inv, TypeOK, WireInv
  <2>3. \A n \in wire : n.id = running /\ m.id = running => n = m
    BY <2>1, <2>2 DEF Message
  <2>4. QED
    BY <2>1, <2>2, <2>3 DEF Message
<1>3. TypeOK'
  BY <1>1, <1>2 DEF Inv, TypeOK
<1>4. WireInv'
  BY <1>1, <1>2 DEF Inv, WireInv
<1>5. GateInv'
  BY <1>1, <1>2 DEF Inv, GateInv
<1>6. SeenInv' /\ OrderInv' /\ TargetInv'
  BY <1>1 DEF Inv, SeenInv, OrderInv, TargetInv
<1>7. MarkerInv'
  BY <1>1, <1>2 DEF MarkerInv
<1>8. QuietInv'
  BY <1>1 DEF Inv, QuietInv
<1>9. StoppedInv'
  BY <1>1, <1>2 DEF Inv, StoppedInv, StopSavesTarget
<1>10. QED
  BY <1>3, <1>4, <1>5, <1>6, <1>7, <1>8, <1>9 DEF Inv

LEMMA CoreRefusesInv == ASSUME Inv, NEW m \in wire, CoreRefuses(m) PROVE Inv'
<1>1. /\ wire' = wire \ {m}
      /\ answer' = IF m.id = running THEN "failed" ELSE answer
      /\ UNCHANGED <<current, timer, persisted, saveFailed, running, inflight, pending, sends,
                     file, stage, target, flush, givenUp, doubt, masked>>
  BY DEF CoreRefuses, Replies, page, scheduler, quit, history
<1>2. /\ m.id # 0 /\ m.id = running => answer = "none"
      /\ \A n \in wire : n.id = running /\ m.id = running => n = m
  <2>1. m \in Message /\ m.id \in 1 .. sends
    BY DEF Inv, TypeOK, WireInv
  <2>2. \A n \in wire : n.id = running => n.snapshot = inflight /\ n \in Message
    BY DEF Inv, TypeOK, WireInv
  <2>3. \A n \in wire : n.id = running /\ m.id = running => n = m
    BY <2>1, <2>2 DEF Message
  <2>4. QED
    BY <2>1, <2>3 DEF Inv, WireInv
<1>3. TypeOK'
  BY <1>1 DEF Inv, TypeOK
<1>4. WireInv'
  BY <1>1, <1>2 DEF Inv, WireInv
<1>5. GateInv'
  <2>1. m.id \in 1 .. sends
    BY DEF Inv, WireInv
  <2>2. m.id # 0
    BY <2>1
  <2>3. QED
    BY <1>1, <2>2 DEF Inv, GateInv
<1>6. SeenInv' /\ OrderInv' /\ TargetInv'
  BY <1>1 DEF Inv, SeenInv, OrderInv, TargetInv
<1>7. MarkerInv'
  BY <1>1, <1>2 DEF Inv, MarkerInv, WireInv
<1>8. QuietInv' /\ StoppedInv'
  BY <1>1 DEF Inv, QuietInv, StoppedInv, StopSavesTarget
<1>9. QED
  BY <1>3, <1>4, <1>5, <1>6, <1>7, <1>8 DEF Inv

LEMMA ReplyLostInv == ASSUME Inv, ReplyLost PROVE Inv'
<1>1. /\ answer = "ok" /\ answer' = "lost"
      /\ UNCHANGED <<current, timer, persisted, saveFailed, running, inflight, pending, sends,
                     wire, file, stage, target, flush, givenUp, doubt, masked>>
  BY DEF ReplyLost, page, scheduler, quit, history
<1>2. TypeOK'
  BY <1>1 DEF Inv, TypeOK
<1>3. WireInv' /\ GateInv'
  BY <1>1 DEF Inv, WireInv, GateInv
<1>4. SeenInv' /\ OrderInv' /\ TargetInv'
  BY <1>1 DEF Inv, SeenInv, OrderInv, TargetInv
<1>5. MarkerInv' /\ QuietInv' /\ StoppedInv'
  BY <1>1 DEF Inv, MarkerInv, QuietInv, StoppedInv, StopSavesTarget
<1>6. QED
  BY <1>2, <1>3, <1>4, <1>5 DEF Inv

LEMMA InvStep == Inv /\ [Next]_vars => Inv'
<1> SUFFICES ASSUME Inv, [Next]_vars PROVE Inv'
  OBVIOUS
<1>1. ASSUME NEW v \in Values, Edit(v) PROVE Inv'
  BY <1>1, EditInv
<1>2. CASE TimerFires
  BY <1>2, TimerInv
<1>3. CASE Settle
  BY <1>3, SettleOkInv, SettleFailedInv DEF Settle
<1>4. CASE Unload
  BY <1>4, UnloadInv
<1>5. CASE Stop
  BY <1>5, StopInv
<1>6. CASE StopFlushes
  BY <1>6, StopFlushesInv
<1>7. ASSUME NEW m \in wire, CoreSaves(m) \/ CoreRefuses(m) PROVE Inv'
  BY <1>7, CoreSavesInv, CoreRefusesInv
<1>8. CASE ReplyLost
  BY <1>8, ReplyLostInv
<1>9. CASE UNCHANGED vars
  <2>1. UNCHANGED <<current, timer, persisted, saveFailed, running, inflight, pending, sends,
                    answer, wire, file, stage, target, flush, givenUp, doubt, masked>>
    BY <1>9 DEF vars, page, scheduler, quit, history
  <2>2. TypeOK' /\ WireInv' /\ GateInv' /\ SeenInv' /\ OrderInv'
    BY <2>1 DEF Inv, TypeOK, WireInv, GateInv, SeenInv, OrderInv
  <2>3. TargetInv' /\ MarkerInv' /\ QuietInv' /\ StoppedInv'
    BY <2>1 DEF Inv, TargetInv, MarkerInv, QuietInv, StoppedInv, StopSavesTarget
  <2>4. QED
    BY <2>2, <2>3 DEF Inv
<1>10. QED
  BY <1>1, <1>2, <1>3, <1>4, <1>5, <1>6, <1>7, <1>8, <1>9 DEF Next, Core

LEMMA Invariance == Spec => []Inv
BY InvInit, InvStep, PTL DEF Spec

-----------------------------------------------------------------------------
(* Theorems.                                                                *)

(* The page, the scheduler, the network and the disk keep to their types:   *)
(* in particular a request the page awaits is one it has sent.              *)
THEOREM TypeCorrect == Spec => []TypeOK
<1>1. Inv => TypeOK
  BY DEF Inv
<1>2. QED
  BY <1>1, Invariance, PTL

(* lastPersistedRef tells the truth about the disk, a quiet page that shows *)
(* no failure has saved what it shows, and Stop leaves the Workspace it was *)
(* pressed on saved, whatever order edits, timers, replies, losses and      *)
(* aborts come in.                                                          *)
THEOREM SavesTrue == Spec => []SavesAreTrue
<1>1. Inv => SavesAreTrue
  <2> SUFFICES ASSUME Inv PROVE SavesAreTrue
    OBVIOUS
  <2>1. MarkerIsTruthful
    BY DEF Inv, MarkerInv, MarkerIsTruthful
  <2>2. QuietIsSaved
    BY DEF Inv, QuietInv, QuietIsSaved, Quiet, Busy
  <2>3. StopSavesTarget
    BY DEF Inv, StoppedInv, StopSavesTarget
  <2>4. QED
    BY <2>1, <2>2, <2>3 DEF SavesAreTrue
<1>2. QED
  BY <1>1, Invariance, PTL

-----------------------------------------------------------------------------
(* The refinement.                                                          *)

\* The edits whose save was given up on and may still land.
Abandoned == {m.snapshot.edit : m \in {n \in wire : n.id \in givenUp}}

OrderVars == <<current.edit, file.edit, Abandoned>>

LEMMA InstanceVars ==
  [InOrder!Next]_OrderVars <=>
    [InOrder!Next]_<<current.edit, file.edit,
                     {m.snapshot.edit : m \in {n \in wire : n.id \in givenUp}}>>
BY DEF OrderVars, Abandoned

\* A new request is not one that was given up on, so sending it changes
\* nothing the promise speaks of.
LEMMA SendingAbandonsNothing ==
  ASSUME Inv, NEW s, Run(s), givenUp' = givenUp PROVE Abandoned' = Abandoned
<1>1. sends \in Nat /\ givenUp \subseteq 1 .. sends
  BY DEF Inv, TypeOK, GateInv
<1>2. wire' = wire \cup {[id |-> sends + 1, snapshot |-> s]}
  BY DEF Run
<1>3. {n \in wire' : n.id \in givenUp'} = {n \in wire : n.id \in givenUp}
  BY <1>1, <1>2
<1>4. QED
  BY <1>3 DEF Abandoned

LEMMA ScheduleAbandonsNothing ==
  ASSUME Inv, Schedule(current), givenUp' = givenUp PROVE Abandoned' = Abandoned
BY SendingAbandonsNothing DEF Schedule, Abandoned

LEMMA AdvanceAbandonsNothing ==
  ASSUME Inv, Advance, givenUp' = givenUp PROVE Abandoned' = Abandoned
BY SendingAbandonsNothing DEF Advance, Abandoned

\* Giving up on the awaited request abandons its save, if it is still under way.
LEMMA GivingUp ==
  ASSUME Inv, running # 0, Advance, givenUp' = givenUp \cup {running}
  PROVE  Abandoned' = Abandoned \/ Abandoned' = Abandoned \cup {inflight.edit}
<1>1. sends \in Nat /\ givenUp' \subseteq 1 .. sends
  <2>1. running \in Nat /\ running <= sends /\ sends \in Nat
    BY DEF Inv, TypeOK
  <2>2. running \in 1 .. sends
    BY <2>1
  <2>3. QED
    BY <2>1, <2>2 DEF Inv, GateInv
<1>2. \/ wire' = wire
      \/ wire' = wire \cup {[id |-> sends + 1, snapshot |-> pending]}
  BY DEF Advance, Run
<1>3. {n \in wire' : n.id \in givenUp'} = {n \in wire : n.id \in givenUp'}
  BY <1>1, <1>2
<1>4. \A n \in wire : n.id = running => n.snapshot = inflight
  BY DEF Inv, WireInv
<1>5. CASE \E n \in wire : n.id = running
  <2>1. Abandoned' = Abandoned \cup {inflight.edit}
    BY <1>3, <1>4, <1>5 DEF Abandoned
  <2>2. QED
    BY <2>1
<1>6. CASE ~\E n \in wire : n.id = running
  <2>1. {n \in wire : n.id \in givenUp'} = {n \in wire : n.id \in givenUp}
    BY <1>6
  <2>2. QED
    BY <1>3, <2>1 DEF Abandoned
<1>7. QED
  BY <1>5, <1>6

LEMMA SyncInOrder ==
  ASSUME Inv, NEW s \in Snapshot, SaveSync(s),
         file.edit <= s.edit, s.edit <= current.edit,
         UNCHANGED <<current, wire, givenUp>>
  PROVE  [InOrder!Next]_OrderVars
<1>1. file.edit \in Nat /\ s.edit \in Nat /\ current.edit \in Nat
  BY DEF Inv, TypeOK, Snapshot
<1>2. Abandoned' = Abandoned
  BY DEF Abandoned
<1>3. CASE file' = file
  BY <1>2, <1>3 DEF OrderVars
<1>4. CASE file' = s
  <2>1. file'.edit \in file.edit .. current.edit
    BY <1>1, <1>4
  <2>2. InOrder!Save
    BY <1>2, <2>1 DEF InOrder!Save, Abandoned
  <2>3. QED
    BY <2>2 DEF InOrder!Next
<1>5. QED
  BY <1>3, <1>4 DEF SaveSync

LEMMA CoreInOrder ==
  ASSUME Inv, NEW m \in wire, CoreSaves(m) \/ CoreRefuses(m)
  PROVE  [InOrder!Next]_OrderVars
<1>1. /\ wire' = wire \ {m} /\ UNCHANGED <<current, givenUp, inflight, running>>
      /\ file' = m.snapshot \/ file' = file
  BY DEF CoreSaves, CoreRefuses, page, scheduler, history
<1>2. CASE m.id \in givenUp
  <2>1. m.snapshot.edit \in Abandoned /\ Abandoned' \subseteq Abandoned
    BY <1>1, <1>2 DEF Abandoned
  <2>2. InOrder!Resolve
    BY <1>1, <2>1 DEF InOrder!Resolve, Abandoned
  <2>3. QED
    BY <2>2 DEF InOrder!Next
<1>3. CASE m.id \notin givenUp
  <2>1. Abandoned' = Abandoned
    BY <1>1, <1>3 DEF Abandoned
  <2>2. m.id = running /\ m.snapshot = inflight /\ running # 0
    BY <1>3 DEF Inv, WireInv
  <2>3. /\ file.edit \in Nat /\ inflight.edit \in Nat /\ current.edit \in Nat
        /\ file.edit <= inflight.edit /\ inflight.edit <= current.edit
    BY <2>2 DEF Inv, TypeOK, Snapshot, OrderInv, SeenInv
  <2>4. file'.edit \in file.edit .. current.edit
    BY <1>1, <2>2, <2>3
  <2>5. InOrder!Save
    BY <1>1, <2>1, <2>4 DEF InOrder!Save, Abandoned
  <2>6. QED
    BY <2>5 DEF InOrder!Next
<1>4. QED
  BY <1>2, <1>3

LEMMA StepInOrder == Inv /\ [Next]_vars => [InOrder!Next]_OrderVars
<1> SUFFICES ASSUME Inv, [Next]_vars PROVE [InOrder!Next]_OrderVars
  OBVIOUS
<1>1. ASSUME NEW v \in Values, Edit(v) PROVE [InOrder!Next]_OrderVars
  <2>1. current'.edit = current.edit + 1 /\ UNCHANGED <<file, wire, givenUp>>
    BY <1>1 DEF Edit, history
  <2>2. InOrder!Change
    BY <2>1 DEF InOrder!Change
  <2>3. QED
    BY <2>2 DEF InOrder!Next
<1>2. CASE TimerFires
  <2>1. UNCHANGED <<current, file, givenUp>> /\ (wire' = wire \/ Schedule(current))
    BY <1>2 DEF TimerFires
  <2>2. Abandoned' = Abandoned
    BY <2>1, ScheduleAbandonsNothing DEF Abandoned
  <2>3. QED
    BY <2>1, <2>2 DEF OrderVars
<1>3. CASE SettleOk
  <2>1. UNCHANGED <<current, file, givenUp>> /\ Advance
    BY <1>3 DEF SettleOk, history
  <2>2. Abandoned' = Abandoned
    BY <2>1, AdvanceAbandonsNothing
  <2>3. QED
    BY <2>1, <2>2 DEF OrderVars
<1>4. CASE SettleFailed
  <2>1. /\ UNCHANGED <<current, file>> /\ Advance /\ running # 0
        /\ givenUp' = givenUp \/ givenUp' = givenUp \cup {running}
    BY <1>4 DEF SettleFailed
  <2>2. \/ Abandoned' = Abandoned
        \/ Abandoned' = Abandoned \cup {inflight.edit}
    BY <2>1, AdvanceAbandonsNothing, GivingUp
  <2>3. CASE Abandoned' = Abandoned
    BY <2>1, <2>3 DEF OrderVars
  <2>4. CASE Abandoned' = Abandoned \cup {inflight.edit}
    <3>1. inflight.edit \in Nat /\ inflight.edit <= current.edit /\ current.edit \in Nat
      BY DEF Inv, TypeOK, Snapshot, SeenInv
    <3>2. inflight.edit \in 0 .. current.edit
      BY <3>1
    <3>3. InOrder!GiveUp
      BY <2>1, <2>4, <3>2 DEF InOrder!GiveUp, Abandoned
    <3>4. QED
      BY <3>3 DEF InOrder!Next
  <2>5. QED
    BY <2>2, <2>3, <2>4
<1>5. CASE Unload
  <2>1. /\ UNCHANGED <<current, wire, givenUp>>
        /\ file' = file \/ SaveSync(current)
    BY <1>5 DEF Unload
  <2>2. current \in Snapshot /\ file.edit <= current.edit /\ current.edit <= current.edit
    BY DEF Inv, TypeOK, Snapshot, SeenInv
  <2>3. CASE file' = file
    BY <2>1, <2>3 DEF OrderVars, Abandoned
  <2>4. QED
    BY <2>1, <2>2, <2>3, SyncInOrder
<1>6. CASE Stop
  <2>1. UNCHANGED <<current, file, givenUp>> /\ (wire' = wire \/ Schedule(current))
    BY <1>6 DEF Stop, history
  <2>2. Abandoned' = Abandoned
    BY <2>1, ScheduleAbandonsNothing DEF Abandoned
  <2>3. QED
    BY <2>1, <2>2 DEF OrderVars
<1>7. CASE StopFlushes
  <2>1. /\ stage = "draining" /\ UNCHANGED <<current, wire, givenUp>>
        /\ file' = file \/ SaveSync(target)
    BY <1>7 DEF StopFlushes
  <2>2. target \in Snapshot /\ file.edit <= target.edit /\ target.edit <= current.edit
    BY <2>1 DEF Inv, TypeOK, TargetInv, SeenInv
  <2>3. CASE file' = file
    BY <2>1, <2>3 DEF OrderVars, Abandoned
  <2>4. QED
    BY <2>1, <2>2, <2>3, SyncInOrder
<1>8. ASSUME NEW m \in wire, CoreSaves(m) \/ CoreRefuses(m)
      PROVE  [InOrder!Next]_OrderVars
  BY <1>8, CoreInOrder
<1>9. CASE ReplyLost
  BY <1>9 DEF ReplyLost, page, history, OrderVars, Abandoned
<1>10. CASE UNCHANGED vars
  BY <1>10 DEF vars, page, history, OrderVars, Abandoned
<1>11. QED
  BY <1>1, <1>2, <1>3, <1>4, <1>5, <1>6, <1>7, <1>8, <1>9, <1>10 DEF Next, Settle, Core

LEMMA InitInOrder == Init => InOrder!Init
BY DEF Init, NoSnapshot, InOrder!Init

(* Saving implements the order Autosave promises: the disk never goes back  *)
(* to an older Workspace, save when a request the page gave up on lands     *)
(* late; the debounced saves, the Stop flush and the closing save included. *)
THEOREM ImplementsAutosave == Spec => SavesInOrder
<1>1. Init => InOrder!Init
  BY InitInOrder
<1>2. Inv /\ [Next]_vars => [InOrder!Next]_<<current.edit, file.edit,
                     {m.snapshot.edit : m \in {n \in wire : n.id \in givenUp}}>>
  BY StepInOrder, InstanceVars
<1>3. QED
  BY <1>1, <1>2, Invariance, PTL DEF Spec, SavesInOrder, InOrder!Spec

=============================================================================
