----------------------- MODULE ConnectionManagerProofs -----------------------
(***************************************************************************)
(* Theorems about ConnectionManager, for every set of requests, every      *)
(* MaxRefreshTurns and every number of catalog changes.                    *)
(*                                                                         *)
(* Inv is inductive on its own and implies the safety invariants except    *)
(* StaleAnswerWasOutrun, which LoopInv proves relative to Inv.             *)
(***************************************************************************)
EXTENDS ConnectionManager, TLAPS

-----------------------------------------------------------------------------
(* The inductive invariant.                                                 *)

\* Where a request can stand while no driver has been obtained yet.
Early == {"idle", "opening", "joinedOpen", "unopened"}

\* An open is in flight and has not committed.
Opening == inflight.phase \in Phases \ {"none", "succeeded"}

\* Before the first driver nobody is past ensureDriver, so nothing refreshes
\* and no statement can move the catalog under the open.
ColdInv ==
  (~driver /\ ~closed) \/ Opening
    => ~driver /\ Idle(refreshing) /\ \A c \in Callers : pc[c] \in Early

OpenInv ==
  /\ Opening => inflight.gen = generation
  /\ Opening /\ inflight.phase = "answered" => inflight.seen >= acked /\ inflight.seen # 0
  /\ inflight.phase = "succeeded" => driver

RefreshInv ==
  /\ refreshing.gen <= generation
  /\ refreshing.phase = "answered" => refreshing.seen # 0
  /\ refreshing.phase = "answered" /\ refreshing.gen = generation => refreshing.seen >= acked

VersionInv ==
  /\ catalog # 0
  /\ acked <= catalog
  /\ \A c \in Callers : ddl[c] <= catalog

CloseInv ==
  /\ closed <=> closer # "none"
  /\ closer \in {"awaitRefresh", "releasing", "done"} => Idle(inflight)
  /\ closer \in {"releasing", "done"} => Idle(refreshing) /\ ~driver

MemoInv == driver <=> cached # 0

\* A request that is in its loop still has the turn it is in.
TurnBound ==
  \A c \in Callers :
    pc[c] \in {"refreshing", "joinedRefresh", "rejoin"} => turn[c] < MaxRefreshTurns

Inv ==
  /\ TypeOK
  /\ ColdInv /\ OpenInv /\ RefreshInv /\ VersionInv /\ CloseInv /\ MemoInv
  /\ TurnBound
  /\ NoLostInvalidation
  /\ SingleFlight
  /\ \A c \in Callers : pc[c] # "fallback" /\ start[c].gen <= generation

-----------------------------------------------------------------------------
(* How far a request's refresh loop has come.                               *)

\* The memo already covers what was acknowledged before the request began, or
\* close() has stopped the loop.
Covered(c) == closed \/ cached >= start[c].acked

\* At turn t >= 1 the flight it waits for began after t - 1 invalidations of
\* this call, and a finished turn leaves one more, or a memo that covers it.
TurnInv(c) ==
  /\ pc[c] = "joinedRefresh" => ~Idle(refreshing)
  /\ pc[c] \in {"refreshing", "joinedRefresh"} =>
       Covered(c) \/ turn[c] = 0 \/ refreshing.gen + 1 >= start[c].gen + turn[c]
  /\ pc[c] = "rejoin" =>
       \/ Covered(c)
       \/ /\ generation >= start[c].gen + turn[c]
          /\ Idle(refreshing) \/ refreshing.gen >= start[c].gen + turn[c]
  /\ pc[c] = "refreshed" => Covered(c) \/ generation + 1 >= start[c].gen + MaxRefreshTurns

\* A flight that has ended without an error committed, was overtaken, or met close().
SettledInv ==
  refreshing.phase = "succeeded" => closed \/ generation > refreshing.gen \/ ~stale

OpenerInv(c) ==
  /\ pc[c] = "joinedOpen" => ~Idle(inflight)
  /\ pc[c] \in {"opening", "joinedOpen"} /\ inflight.phase \in {"answered", "succeeded"}
       => inflight.seen >= start[c].acked

LoopInv ==
  /\ SettledInv
  /\ \A c \in Callers :
       start[c].acked <= acked /\ TurnInv(c) /\ OpenerInv(c)
  /\ StaleAnswerWasOutrun

-----------------------------------------------------------------------------

(* What one pass over the loop head of refreshIfStale does to the request. *)
LEMMA RefreshLoopPc ==
  ASSUME NEW c \in Callers, NEW t, NEW f, NEW p \in [Callers -> Pcs], RefreshLoop(c, t, f, p)
  PROVE  /\ pc' \in [Callers -> Pcs]
         /\ pc'[c] \in {"joinedRefresh", "refreshing", "refreshed"}
         /\ \A d \in Callers \ {c} : pc'[d] = p[d]
         /\ pc'[c] # "refreshed" => MayRefresh(t)
<1>1. CASE pc' = [p EXCEPT ![c] = "joinedRefresh"] /\ MayRefresh(t)
  BY <1>1 DEF Pcs
<1>2. CASE pc' = [p EXCEPT ![c] = "refreshing"] /\ MayRefresh(t)
  BY <1>2 DEF Pcs
<1>3. CASE pc' = [p EXCEPT ![c] = "refreshed"]
  BY <1>3 DEF Pcs
<1> QED
  BY <1>1, <1>2, <1>3 DEF RefreshLoop

LEMMA InvInit == Init => Inv
<1> SUFFICES ASSUME Init PROVE Inv
  OBVIOUS
<1> USE NobodyAssumption, TurnsAssumption DEF Init, Idle, NoFlight, NoReply, Early
<1>1. TypeOK
  <2>1. inflight \in Flight /\ refreshing \in Flight
    BY DEF Flight, Phases
  <2>2. pc \in [Callers -> Pcs] /\ op \in [Callers -> Ops]
    BY DEF Pcs, Ops
  <2>3. reply \in [Callers -> [kind : Replies, seen : Nat, raced : Nat, side : Sides]]
    BY DEF Replies, Sides
  <2>4. start \in [Callers -> [acked : Nat, gen : Nat]]
    OBVIOUS
  <2>5. turn \in [Callers -> 0 .. MaxRefreshTurns] /\ ddl \in [Callers -> Nat]
    OBVIOUS
  <2> QED
    BY <2>1, <2>2, <2>3, <2>4, <2>5 DEF TypeOK
<1>2. ColdInv /\ OpenInv /\ RefreshInv
  BY DEF ColdInv, OpenInv, RefreshInv, Opening, Phases
<1>3. VersionInv /\ CloseInv /\ MemoInv /\ TurnBound
  BY DEF VersionInv, CloseInv, MemoInv, TurnBound
<1>4. NoLostInvalidation /\ SingleFlight
  BY DEF NoLostInvalidation, SingleFlight
<1> QED
  BY <1>1, <1>2, <1>3, <1>4 DEF Inv

LEMMA InvStep == Inv /\ [Next]_vars => Inv'
<1> SUFFICES ASSUME Inv, [Next]_vars PROVE Inv'
  OBVIOUS
<1> USE NobodyAssumption, TurnsAssumption
    DEF Inv, TypeOK, ColdInv, OpenInv, RefreshInv, VersionInv, CloseInv, MemoInv, TurnBound,
        NoLostInvalidation, SingleFlight, Opening, Idle, NoFlight, NoReply, Flight, Early,
        Ops, Phases, Pcs, Replies, Sides, Settled, manager, requests, database
<1>1. CASE Next
  <2>1. ASSUME NEW c \in Callers, NEW o \in Ops, BeginClosed(c, o) PROVE Inv'
    BY <2>1 DEF BeginClosed, Begins
  <2>2. ASSUME NEW c \in Callers, ConnectWithMemo(c) PROVE Inv'
    <3>0. pc' \in [Callers -> Pcs]
      <4>1. pc \in [Callers -> Pcs]
        BY DEF Released
      <4>2. RefreshLoop(c, 0, refreshing, pc)
        BY <2>2 DEF ConnectWithMemo
      <4> QED
        BY ONLY <4>1, <4>2, RefreshLoopPc
    <3> USE <2>2 DEF ConnectWithMemo, RefreshLoop, MayRefresh, Begins
    <3>1. TypeOK'
      <4>1. (driver \in BOOLEAN)'
        OBVIOUS
      <4>2. (cached \in Nat)'
        OBVIOUS
      <4>3. (stale \in BOOLEAN)'
        OBVIOUS
      <4>4. (generation \in Nat)'
        OBVIOUS
      <4>5. (closed \in BOOLEAN)'
        OBVIOUS
      <4>6. (inflight \in Flight)'
        OBVIOUS
      <4>7. (refreshing \in Flight)'
        OBVIOUS
      <4>8. (closer \in {"none", "awaitOpen", "awaitRefresh", "releasing", "done"})'
        OBVIOUS
      <4>9. (pc \in [Callers -> Pcs])'
        BY <3>0
      <4>10. (op \in [Callers -> Ops])'
        OBVIOUS
      <4>11. (turn \in [Callers -> 0 .. MaxRefreshTurns])'
        OBVIOUS
      <4>12. (catalog \in Nat)'
        OBVIOUS
      <4>13. (ddl \in [Callers -> Nat])'
        OBVIOUS
      <4>14. (acked \in Nat)'
        OBVIOUS
      <4>15. (start \in [Callers -> [acked : Nat, gen : Nat]])'
        OBVIOUS
      <4>16. (reply \in [Callers -> [kind : Replies, seen : Nat, raced : Nat, side : Sides]])'
        OBVIOUS
      <4> QED
        BY <4>1, <4>2, <4>3, <4>4, <4>5, <4>6, <4>7, <4>8, <4>9, <4>10, <4>11, <4>12, <4>13, <4>14, <4>15, <4>16
    <3>2. ColdInv'
      OBVIOUS
    <3>3. OpenInv'
      OBVIOUS
    <3>4. RefreshInv'
      OBVIOUS
    <3>5. VersionInv'
      OBVIOUS
    <3>6. CloseInv'
      OBVIOUS
    <3>7. MemoInv'
      OBVIOUS
    <3>8. TurnBound'
      OBVIOUS
    <3>9. NoLostInvalidation'
      OBVIOUS
    <3>10. SingleFlight'
      OBVIOUS
    <3>11. \A d \in Callers : pc'[d] # "fallback" /\ start'[d].gen <= generation'
      OBVIOUS
    <3> QED
      BY <3>1, <3>2, <3>3, <3>4, <3>5, <3>6, <3>7, <3>8, <3>9, <3>10, <3>11
  <2>3. ASSUME NEW c \in Callers, NEW o \in Ops, EnsureWithDriver(c, o) PROVE Inv'
    BY <2>3 DEF EnsureWithDriver, Begins
  <2>4. ASSUME NEW c \in Callers, NEW o \in Ops, JoinOpen(c, o) PROVE Inv'
    BY <2>4 DEF JoinOpen, Begins
  <2>5. ASSUME NEW c \in Callers, NEW o \in Ops, StartOpen(c, o) PROVE Inv'
    BY <2>5 DEF StartOpen, Begins
  <2>6. ASSUME OpenConnects PROVE Inv'
    BY <2>6 DEF OpenConnects
  <2>7. ASSUME OpenLists PROVE Inv'
    BY <2>7 DEF OpenLists
  <2>8. ASSUME OpenCommits PROVE Inv'
    BY <2>8 DEF OpenCommits
  <2>9. ASSUME OpenFails PROVE Inv'
    BY <2>9 DEF OpenFails
  <2>10. ASSUME OpenDiscards PROVE Inv'
    BY <2>10 DEF OpenDiscards
  <2>11. ASSUME NEW c \in Callers, OpenOwnerResumes(c) PROVE Inv'
    BY <2>11 DEF OpenOwnerResumes, Outcome
  <2>12. ASSUME NEW c \in Callers, EnsureOpened(c) PROVE Inv'
    <3> USE <2>12 DEF EnsureOpened, Answer, Outcome
    <3>1. TypeOK'
      <4>1. (driver \in BOOLEAN)'
        OBVIOUS
      <4>2. (cached \in Nat)'
        OBVIOUS
      <4>3. (stale \in BOOLEAN)'
        OBVIOUS
      <4>4. (generation \in Nat)'
        OBVIOUS
      <4>5. (closed \in BOOLEAN)'
        OBVIOUS
      <4>6. (inflight \in Flight)'
        OBVIOUS
      <4>7. (refreshing \in Flight)'
        OBVIOUS
      <4>8. (closer \in {"none", "awaitOpen", "awaitRefresh", "releasing", "done"})'
        OBVIOUS
      <4>9. (pc \in [Callers -> Pcs])'
        <5>1. pc' = [pc EXCEPT ![c] = "ensured"] \/ pc' = [pc EXCEPT ![c] = "idle"]
          OBVIOUS
        <5> QED
          BY ONLY <5>1, TypeOK DEF TypeOK, Pcs
      <4>10. (op \in [Callers -> Ops])'
        OBVIOUS
      <4>11. (turn \in [Callers -> 0 .. MaxRefreshTurns])'
        OBVIOUS
      <4>12. (catalog \in Nat)'
        OBVIOUS
      <4>13. (ddl \in [Callers -> Nat])'
        OBVIOUS
      <4>14. (acked \in Nat)'
        OBVIOUS
      <4>15. (start \in [Callers -> [acked : Nat, gen : Nat]])'
        OBVIOUS
      <4>16. (reply \in [Callers -> [kind : Replies, seen : Nat, raced : Nat, side : Sides]])'
        OBVIOUS
      <4> QED
        BY <4>1, <4>2, <4>3, <4>4, <4>5, <4>6, <4>7, <4>8, <4>9, <4>10, <4>11, <4>12, <4>13, <4>14, <4>15, <4>16
    <3>2. ColdInv'
      OBVIOUS
    <3>3. OpenInv'
      OBVIOUS
    <3>4. RefreshInv'
      OBVIOUS
    <3>5. VersionInv'
      OBVIOUS
    <3>6. CloseInv'
      OBVIOUS
    <3>7. MemoInv'
      OBVIOUS
    <3>8. TurnBound'
      OBVIOUS
    <3>9. NoLostInvalidation'
      OBVIOUS
    <3>10. SingleFlight'
      OBVIOUS
    <3>11. \A d \in Callers : pc'[d] # "fallback" /\ start'[d].gen <= generation'
      OBVIOUS
    <3> QED
      BY <3>1, <3>2, <3>3, <3>4, <3>5, <3>6, <3>7, <3>8, <3>9, <3>10, <3>11
  <2>13. ASSUME NEW c \in Callers, EnsureFailed(c) PROVE Inv'
    BY <2>13 DEF EnsureFailed, Answer, Outcome
  <2>14. ASSUME NEW c \in Callers, GetSchemaResumes(c) PROVE Inv'
    <3> USE <2>14 DEF GetSchemaResumes, RefreshLoop, MayRefresh
    <3>1. TypeOK'
      <4>1. (driver \in BOOLEAN)'
        OBVIOUS
      <4>2. (cached \in Nat)'
        OBVIOUS
      <4>3. (stale \in BOOLEAN)'
        OBVIOUS
      <4>4. (generation \in Nat)'
        OBVIOUS
      <4>5. (closed \in BOOLEAN)'
        OBVIOUS
      <4>6. (inflight \in Flight)'
        OBVIOUS
      <4>7. (refreshing \in Flight)'
        OBVIOUS
      <4>8. (closer \in {"none", "awaitOpen", "awaitRefresh", "releasing", "done"})'
        OBVIOUS
      <4>9. (pc \in [Callers -> Pcs])'
        OBVIOUS
      <4>10. (op \in [Callers -> Ops])'
        OBVIOUS
      <4>11. (turn \in [Callers -> 0 .. MaxRefreshTurns])'
        OBVIOUS
      <4>12. (catalog \in Nat)'
        OBVIOUS
      <4>13. (ddl \in [Callers -> Nat])'
        OBVIOUS
      <4>14. (acked \in Nat)'
        OBVIOUS
      <4>15. (start \in [Callers -> [acked : Nat, gen : Nat]])'
        OBVIOUS
      <4>16. (reply \in [Callers -> [kind : Replies, seen : Nat, raced : Nat, side : Sides]])'
        OBVIOUS
      <4> QED
        BY <4>1, <4>2, <4>3, <4>4, <4>5, <4>6, <4>7, <4>8, <4>9, <4>10, <4>11, <4>12, <4>13, <4>14, <4>15, <4>16
    <3>2. ColdInv'
      OBVIOUS
    <3>3. OpenInv'
      OBVIOUS
    <3>4. RefreshInv'
      OBVIOUS
    <3>5. VersionInv'
      OBVIOUS
    <3>6. CloseInv'
      OBVIOUS
    <3>7. MemoInv'
      OBVIOUS
    <3>8. TurnBound'
      OBVIOUS
    <3>9. NoLostInvalidation'
      OBVIOUS
    <3>10. SingleFlight'
      OBVIOUS
    <3>11. \A d \in Callers : pc'[d] # "fallback" /\ start'[d].gen <= generation'
      OBVIOUS
    <3> QED
      BY <3>1, <3>2, <3>3, <3>4, <3>5, <3>6, <3>7, <3>8, <3>9, <3>10, <3>11
  <2>15. ASSUME RefreshLists PROVE Inv'
    BY <2>15 DEF RefreshLists
  <2>16. ASSUME RefreshCommits PROVE Inv'
    <3> USE <2>16 DEF RefreshCommits
    <3>1. CASE generation = refreshing.gen /\ ~closed
      <4>1. TypeOK' /\ ColdInv'
        BY <3>1
      <4>2. OpenInv' /\ RefreshInv' /\ VersionInv'
        BY <3>1
      <4> QED
        BY <3>1, <4>1, <4>2
    <3>2. CASE generation # refreshing.gen \/ closed
      <4>1. TypeOK' /\ ColdInv'
        BY <3>2
      <4>2. OpenInv' /\ RefreshInv' /\ VersionInv'
        BY <3>2
      <4> QED
        BY <3>2, <4>1, <4>2
    <3> QED
      BY <3>1, <3>2
  <2>17. ASSUME RefreshFails PROVE Inv'
    BY <2>17 DEF RefreshFails
  <2>18. ASSUME NEW c \in Callers, RefreshOwnerResumes(c) PROVE Inv'
    <3>0. /\ pc' \in [Callers -> Pcs]
          /\ pc'[c] \in {"joinedRefresh", "refreshing", "refreshed"}
          /\ \A d \in Callers \ {c} : pc'[d] = Released("rejoin")[d]
          /\ pc'[c] # "refreshed" => MayRefresh(turn[c] + 1)
      <4>1. Released("rejoin") \in [Callers -> Pcs]
        BY DEF Released
      <4>2. RefreshLoop(c, turn[c] + 1, NoFlight, Released("rejoin"))
        BY <2>18 DEF RefreshOwnerResumes
      <4> QED
        BY ONLY <4>1, <4>2, RefreshLoopPc
    <3> USE <2>18 DEF RefreshOwnerResumes, RefreshLoop, MayRefresh, Released
    <3>1. TypeOK'
      <4>1. (driver \in BOOLEAN)'
        OBVIOUS
      <4>2. (cached \in Nat)'
        OBVIOUS
      <4>3. (stale \in BOOLEAN)'
        OBVIOUS
      <4>4. (generation \in Nat)'
        OBVIOUS
      <4>5. (closed \in BOOLEAN)'
        OBVIOUS
      <4>6. (inflight \in Flight)'
        OBVIOUS
      <4>7. (refreshing \in Flight)'
        OBVIOUS
      <4>8. (closer \in {"none", "awaitOpen", "awaitRefresh", "releasing", "done"})'
        OBVIOUS
      <4>9. (pc \in [Callers -> Pcs])'
        BY <3>0
      <4>10. (op \in [Callers -> Ops])'
        OBVIOUS
      <4>11. (turn \in [Callers -> 0 .. MaxRefreshTurns])'
        OBVIOUS
      <4>12. (catalog \in Nat)'
        OBVIOUS
      <4>13. (ddl \in [Callers -> Nat])'
        OBVIOUS
      <4>14. (acked \in Nat)'
        OBVIOUS
      <4>15. (start \in [Callers -> [acked : Nat, gen : Nat]])'
        OBVIOUS
      <4>16. (reply \in [Callers -> [kind : Replies, seen : Nat, raced : Nat, side : Sides]])'
        OBVIOUS
      <4> QED
        BY <4>1, <4>2, <4>3, <4>4, <4>5, <4>6, <4>7, <4>8, <4>9, <4>10, <4>11, <4>12, <4>13, <4>14, <4>15, <4>16
    <3>2. ColdInv'
      OBVIOUS
    <3>3. OpenInv'
      OBVIOUS
    <3>4. RefreshInv'
      OBVIOUS
    <3>5. VersionInv'
      OBVIOUS
    <3>6. CloseInv'
      OBVIOUS
    <3>7. MemoInv'
      OBVIOUS
    <3>12. \A d \in Callers \ {c} :
             /\ pc'[d] = pc[d] \/ (pc[d] = "joinedRefresh" /\ pc'[d] = "rejoin")
             /\ pc[d] # "refreshing" /\ turn'[d] = turn[d]
      BY <3>0 DEF Released
    <3>8. TurnBound'
      <4>1. turn'[c] = turn[c] + 1
        OBVIOUS
      <4> QED
        BY ONLY <3>0, <3>12, <4>1, TurnBound DEF TurnBound, MayRefresh
    <3>9. NoLostInvalidation'
      OBVIOUS
    <3>10. SingleFlight'
      <4>1. pc'[c] = "refreshing" => refreshing'.phase = "listing" /\ refreshing'.owner = c
        BY <3>0
      <4>2. inflight' = inflight
        OBVIOUS
      <4> QED
        BY ONLY <4>1, <4>2, <3>0, <3>12, SingleFlight DEF SingleFlight, Idle
    <3>11. \A d \in Callers : pc'[d] # "fallback" /\ start'[d].gen <= generation'
      BY <3>0, <3>12
    <3> QED
      BY <3>1, <3>2, <3>3, <3>4, <3>5, <3>6, <3>7, <3>8, <3>9, <3>10, <3>11
  <2>19. ASSUME NEW c \in Callers, RefreshOwnerThrows(c) PROVE Inv'
    BY <2>19 DEF RefreshOwnerThrows, Outcome, Released
  <2>20. ASSUME NEW c \in Callers, JoinerResumes(c) PROVE Inv'
    <3>0. pc' \in [Callers -> Pcs]
      <4>1. pc \in [Callers -> Pcs]
        BY DEF Released
      <4>2. RefreshLoop(c, turn[c] + 1, refreshing, pc)
        BY <2>20 DEF JoinerResumes
      <4> QED
        BY ONLY <4>1, <4>2, RefreshLoopPc
    <3> USE <2>20 DEF JoinerResumes, RefreshLoop, MayRefresh
    <3>1. TypeOK'
      <4>1. (driver \in BOOLEAN)'
        OBVIOUS
      <4>2. (cached \in Nat)'
        OBVIOUS
      <4>3. (stale \in BOOLEAN)'
        OBVIOUS
      <4>4. (generation \in Nat)'
        OBVIOUS
      <4>5. (closed \in BOOLEAN)'
        OBVIOUS
      <4>6. (inflight \in Flight)'
        OBVIOUS
      <4>7. (refreshing \in Flight)'
        OBVIOUS
      <4>8. (closer \in {"none", "awaitOpen", "awaitRefresh", "releasing", "done"})'
        OBVIOUS
      <4>9. (pc \in [Callers -> Pcs])'
        BY <3>0
      <4>10. (op \in [Callers -> Ops])'
        OBVIOUS
      <4>11. (turn \in [Callers -> 0 .. MaxRefreshTurns])'
        OBVIOUS
      <4>12. (catalog \in Nat)'
        OBVIOUS
      <4>13. (ddl \in [Callers -> Nat])'
        OBVIOUS
      <4>14. (acked \in Nat)'
        OBVIOUS
      <4>15. (start \in [Callers -> [acked : Nat, gen : Nat]])'
        OBVIOUS
      <4>16. (reply \in [Callers -> [kind : Replies, seen : Nat, raced : Nat, side : Sides]])'
        OBVIOUS
      <4> QED
        BY <4>1, <4>2, <4>3, <4>4, <4>5, <4>6, <4>7, <4>8, <4>9, <4>10, <4>11, <4>12, <4>13, <4>14, <4>15, <4>16
    <3>2. ColdInv'
      OBVIOUS
    <3>3. OpenInv'
      OBVIOUS
    <3>4. RefreshInv'
      OBVIOUS
    <3>5. VersionInv'
      OBVIOUS
    <3>6. CloseInv'
      OBVIOUS
    <3>7. MemoInv'
      OBVIOUS
    <3>8. TurnBound'
      OBVIOUS
    <3>9. NoLostInvalidation'
      OBVIOUS
    <3>10. SingleFlight'
      OBVIOUS
    <3>11. \A d \in Callers : pc'[d] # "fallback" /\ start'[d].gen <= generation'
      OBVIOUS
    <3> QED
      BY <3>1, <3>2, <3>3, <3>4, <3>5, <3>6, <3>7, <3>8, <3>9, <3>10, <3>11
  <2>21. ASSUME NEW c \in Callers, JoinerThrows(c) PROVE Inv'
    BY <2>21 DEF JoinerThrows, Answer, Outcome
  <2>22. ASSUME NEW c \in Callers, ConnectAnswers(c) PROVE Inv'
    <3> USE <2>22 DEF ConnectAnswers, Answer, Outcome
    <3>1. TypeOK'
      <4>1. (driver \in BOOLEAN)'
        OBVIOUS
      <4>2. (cached \in Nat)'
        OBVIOUS
      <4>3. (stale \in BOOLEAN)'
        OBVIOUS
      <4>4. (generation \in Nat)'
        OBVIOUS
      <4>5. (closed \in BOOLEAN)'
        OBVIOUS
      <4>6. (inflight \in Flight)'
        OBVIOUS
      <4>7. (refreshing \in Flight)'
        OBVIOUS
      <4>8. (closer \in {"none", "awaitOpen", "awaitRefresh", "releasing", "done"})'
        OBVIOUS
      <4>9. (pc \in [Callers -> Pcs])'
        OBVIOUS
      <4>10. (op \in [Callers -> Ops])'
        OBVIOUS
      <4>11. (turn \in [Callers -> 0 .. MaxRefreshTurns])'
        OBVIOUS
      <4>12. (catalog \in Nat)'
        OBVIOUS
      <4>13. (ddl \in [Callers -> Nat])'
        OBVIOUS
      <4>14. (acked \in Nat)'
        OBVIOUS
      <4>15. (start \in [Callers -> [acked : Nat, gen : Nat]])'
        OBVIOUS
      <4>16. (reply \in [Callers -> [kind : Replies, seen : Nat, raced : Nat, side : Sides]])'
        OBVIOUS
      <4> QED
        BY <4>1, <4>2, <4>3, <4>4, <4>5, <4>6, <4>7, <4>8, <4>9, <4>10, <4>11, <4>12, <4>13, <4>14, <4>15, <4>16
    <3>2. ColdInv'
      OBVIOUS
    <3>3. OpenInv'
      OBVIOUS
    <3>4. RefreshInv'
      OBVIOUS
    <3>5. VersionInv'
      OBVIOUS
    <3>6. CloseInv'
      OBVIOUS
    <3>7. MemoInv'
      OBVIOUS
    <3>8. TurnBound'
      OBVIOUS
    <3>9. NoLostInvalidation'
      OBVIOUS
    <3>10. SingleFlight'
      OBVIOUS
    <3>11. \A d \in Callers : pc'[d] # "fallback" /\ start'[d].gen <= generation'
      OBVIOUS
    <3> QED
      BY <3>1, <3>2, <3>3, <3>4, <3>5, <3>6, <3>7, <3>8, <3>9, <3>10, <3>11
  <2>23. ASSUME NEW c \in Callers, GetSchemaAnswers(c) PROVE Inv'
    <3>1. cached # 0 \/ closed
      BY <2>23 DEF GetSchemaAnswers
    <3>2. \E k \in {"schema", "failed"}, v \in Nat : Answer(c, k, v)
      BY <2>23, <3>1 DEF GetSchemaAnswers
    <3>3. pc' \in [Callers -> Pcs]
      BY <3>2 DEF Answer
    <3>4. reply' \in [Callers -> [kind : Replies, seen : Nat, raced : Nat, side : Sides]]
      BY <3>2 DEF Answer, Outcome
    <3>5. UNCHANGED <<manager, inflight, refreshing, closer, op, turn, start, database>>
      BY <2>23 DEF GetSchemaAnswers
    <3>6. TypeOK'
      BY <3>3, <3>4, <3>5
    <3>7. pc' = [pc EXCEPT ![c] = "idle"]
      BY <3>2 DEF Answer
    <3> QED
      BY <3>5, <3>6, <3>7
  <2>24. ASSUME NEW c \in Callers, StatementSent(c) PROVE Inv'
    BY <2>24 DEF StatementSent
  <2>25. ASSUME NEW c \in Callers, StatementApplied(c) PROVE Inv'
    BY <2>25 DEF StatementApplied
  <2>26. ASSUME NEW c \in Callers, StatementReturns(c) PROVE Inv'
    <3> USE <2>26 DEF StatementReturns, Answer, Outcome
    <3>1. TypeOK'
      OBVIOUS
    <3>2. ColdInv'
      OBVIOUS
    <3>3. OpenInv'
      OBVIOUS
    <3>4. RefreshInv'
      OBVIOUS
    <3>5. VersionInv'
      OBVIOUS
    <3>6. CloseInv'
      OBVIOUS
    <3>7. MemoInv'
      OBVIOUS
    <3>8. TurnBound'
      OBVIOUS
    <3>9. NoLostInvalidation'
      OBVIOUS
    <3>10. SingleFlight'
      OBVIOUS
    <3>11. \A d \in Callers : pc'[d] # "fallback" /\ start'[d].gen <= generation'
      OBVIOUS
    <3> QED
      BY <3>1, <3>2, <3>3, <3>4, <3>5, <3>6, <3>7, <3>8, <3>9, <3>10, <3>11
  <2>27. ASSUME NEW c \in Callers, StatementThrows(c) PROVE Inv'
    BY <2>27 DEF StatementThrows, Answer, Outcome
  <2>28. ASSUME CloseBegins PROVE Inv'
    <3> USE <2>28 DEF CloseBegins, TearDown
    <3>1. TypeOK'
      <4>1. (driver \in BOOLEAN)'
        OBVIOUS
      <4>2. (cached \in Nat)'
        OBVIOUS
      <4>3. (stale \in BOOLEAN)'
        OBVIOUS
      <4>4. (generation \in Nat)'
        OBVIOUS
      <4>5. (closed \in BOOLEAN)'
        OBVIOUS
      <4>6. (inflight \in Flight)'
        OBVIOUS
      <4>7. (refreshing \in Flight)'
        OBVIOUS
      <4>8. (closer \in {"none", "awaitOpen", "awaitRefresh", "releasing", "done"})'
        OBVIOUS
      <4>9. (pc \in [Callers -> Pcs])'
        OBVIOUS
      <4>10. (op \in [Callers -> Ops])'
        OBVIOUS
      <4>11. (turn \in [Callers -> 0 .. MaxRefreshTurns])'
        OBVIOUS
      <4>12. (catalog \in Nat)'
        OBVIOUS
      <4>13. (ddl \in [Callers -> Nat])'
        OBVIOUS
      <4>14. (acked \in Nat)'
        OBVIOUS
      <4>15. (start \in [Callers -> [acked : Nat, gen : Nat]])'
        OBVIOUS
      <4>16. (reply \in [Callers -> [kind : Replies, seen : Nat, raced : Nat, side : Sides]])'
        OBVIOUS
      <4> QED
        BY <4>1, <4>2, <4>3, <4>4, <4>5, <4>6, <4>7, <4>8, <4>9, <4>10, <4>11, <4>12, <4>13, <4>14, <4>15, <4>16
    <3>2. ColdInv'
      OBVIOUS
    <3>3. OpenInv'
      OBVIOUS
    <3>4. RefreshInv'
      OBVIOUS
    <3>5. VersionInv'
      OBVIOUS
    <3>6. CloseInv'
      OBVIOUS
    <3>7. MemoInv'
      OBVIOUS
    <3>8. TurnBound'
      OBVIOUS
    <3>9. NoLostInvalidation'
      OBVIOUS
    <3>10. SingleFlight'
      OBVIOUS
    <3>11. \A d \in Callers : pc'[d] # "fallback" /\ start'[d].gen <= generation'
      OBVIOUS
    <3> QED
      BY <3>1, <3>2, <3>3, <3>4, <3>5, <3>6, <3>7, <3>8, <3>9, <3>10, <3>11
  <2>29. ASSUME CloseAfterOpen PROVE Inv'
    <3> USE <2>29 DEF CloseAfterOpen, TearDown
    <3>1. TypeOK'
      <4>1. (driver \in BOOLEAN)'
        OBVIOUS
      <4>2. (cached \in Nat)'
        OBVIOUS
      <4>3. (stale \in BOOLEAN)'
        OBVIOUS
      <4>4. (generation \in Nat)'
        OBVIOUS
      <4>5. (closed \in BOOLEAN)'
        OBVIOUS
      <4>6. (inflight \in Flight)'
        OBVIOUS
      <4>7. (refreshing \in Flight)'
        OBVIOUS
      <4>8. (closer \in {"none", "awaitOpen", "awaitRefresh", "releasing", "done"})'
        OBVIOUS
      <4>9. (pc \in [Callers -> Pcs])'
        OBVIOUS
      <4>10. (op \in [Callers -> Ops])'
        OBVIOUS
      <4>11. (turn \in [Callers -> 0 .. MaxRefreshTurns])'
        OBVIOUS
      <4>12. (catalog \in Nat)'
        OBVIOUS
      <4>13. (ddl \in [Callers -> Nat])'
        OBVIOUS
      <4>14. (acked \in Nat)'
        OBVIOUS
      <4>15. (start \in [Callers -> [acked : Nat, gen : Nat]])'
        OBVIOUS
      <4>16. (reply \in [Callers -> [kind : Replies, seen : Nat, raced : Nat, side : Sides]])'
        OBVIOUS
      <4> QED
        BY <4>1, <4>2, <4>3, <4>4, <4>5, <4>6, <4>7, <4>8, <4>9, <4>10, <4>11, <4>12, <4>13, <4>14, <4>15, <4>16
    <3>2. ColdInv'
      OBVIOUS
    <3>3. OpenInv'
      OBVIOUS
    <3>4. RefreshInv'
      OBVIOUS
    <3>5. VersionInv'
      OBVIOUS
    <3>6. CloseInv'
      OBVIOUS
    <3>7. MemoInv'
      OBVIOUS
    <3>8. TurnBound'
      OBVIOUS
    <3>9. NoLostInvalidation'
      OBVIOUS
    <3>10. SingleFlight'
      OBVIOUS
    <3>11. \A d \in Callers : pc'[d] # "fallback" /\ start'[d].gen <= generation'
      OBVIOUS
    <3> QED
      BY <3>1, <3>2, <3>3, <3>4, <3>5, <3>6, <3>7, <3>8, <3>9, <3>10, <3>11
  <2>30. ASSUME CloseAfterRefresh PROVE Inv'
    BY <2>30 DEF CloseAfterRefresh, TearDown
  <2>31. ASSUME CloseReleases PROVE Inv'
    BY <2>31 DEF CloseReleases
  <2> QED
    BY ONLY <1>1, <2>1, <2>2, <2>3, <2>4, <2>5, <2>6, <2>7, <2>8, <2>9, <2>10, <2>11, <2>12, <2>13, <2>14, <2>15, <2>16, <2>17, <2>18, <2>19, <2>20, <2>21, <2>22, <2>23, <2>24, <2>25, <2>26, <2>27, <2>28, <2>29, <2>30, <2>31 DEF Next, Begin, Resume, DatabaseOpens, DatabaseRefreshes, DatabaseRuns, CloseProceeds
<1>2. CASE UNCHANGED vars
  BY <1>2 DEF vars
<1> QED
  BY <1>1, <1>2

-----------------------------------------------------------------------------

LEMMA LoopInit == Init => LoopInv
  BY DEF Init, LoopInv, SettledInv, TurnInv, OpenerInv, Covered, StaleAnswerWasOutrun,
         Idle, NoFlight, NoReply

(* One pass over the loop head, when turn t begins: t - 1 invalidations of   *)
(* this call have been spent, or the memo already covers the request.       *)
LEMMA LoopHead ==
  ASSUME TypeOK, NoLostInvalidation, NEW c \in Callers, NEW t \in 0 .. MaxRefreshTurns,
         NEW f \in Flight, NEW p \in [Callers -> Pcs],
         cached # 0 \/ closed, start[c].acked <= acked, start[c].gen <= generation,
         \/ Covered(c)
         \/ /\ generation + 1 >= start[c].gen + t
            /\ Idle(f) \/ t = 0 \/ f.gen + 1 >= start[c].gen + t,
         RefreshLoop(c, t, f, p), UNCHANGED <<cached, stale, generation, closed, start>>
  PROVE  TurnInv(c)'
<1> USE TurnsAssumption DEF TypeOK, Covered, Idle
<1>1. turn' = [turn EXCEPT ![c] = t] /\ turn'[c] = t
  BY DEF RefreshLoop
<1>2. CASE MayRefresh(t) /\ ~Idle(f) /\ pc'[c] = "joinedRefresh" /\ refreshing' = f
  BY <1>1, <1>2 DEF TurnInv
<1>3. CASE /\ MayRefresh(t) /\ pc'[c] = "refreshing"
           /\ refreshing'.gen = generation
  BY <1>1, <1>3 DEF TurnInv
<1>4. CASE ~MayRefresh(t) /\ pc'[c] = "refreshed"
  BY <1>1, <1>4 DEF TurnInv, MayRefresh, NoLostInvalidation
<1> QED
  BY <1>2, <1>3, <1>4 DEF RefreshLoop

(* A step that answers one request, and not with a schema that is stale     *)
(* without having been outrun.                                              *)
LEMMA AnswerStep ==
  ASSUME NEW c \in Callers, StaleAnswerWasOutrun, start' = start,
         \A d \in Callers \ {c} : reply'[d] = reply[d],
         /\ reply'[c].kind \in {"schema", "connected"}
         /\ reply'[c].seen < start[c].acked
         /\ reply'[c].side = "open"
         => reply'[c].raced + 1 >= MaxRefreshTurns
  PROVE  StaleAnswerWasOutrun'
  BY DEF StaleAnswerWasOutrun

LEMMA LoopStep == Inv /\ Inv' /\ LoopInv /\ [Next]_vars => LoopInv'
<1> SUFFICES ASSUME Inv, Inv', LoopInv, [Next]_vars PROVE LoopInv'
  OBVIOUS
<1>a. /\ SettledInv
      /\ \A d \in Callers : start[d].acked <= acked /\ TurnInv(d) /\ OpenerInv(d)
      /\ StaleAnswerWasOutrun
  BY DEF LoopInv
<1>b. TypeOK /\ TypeOK'
  BY DEF Inv
<1>c. /\ ColdInv /\ OpenInv /\ RefreshInv /\ VersionInv /\ MemoInv /\ TurnBound
      /\ NoLostInvalidation /\ NoLostInvalidation' /\ SingleFlight
      /\ \A d \in Callers : start[d].gen <= generation
  BY DEF Inv
<1> USE <1>a, <1>b, <1>c, NobodyAssumption, TurnsAssumption
    DEF SettledInv, TurnInv, OpenerInv, Covered, StaleAnswerWasOutrun,
        TypeOK, ColdInv, OpenInv, RefreshInv, VersionInv, MemoInv, TurnBound,
        NoLostInvalidation, SingleFlight, Opening, Idle, NoFlight, NoReply, Flight, Early,
        Phases, Pcs, Sides, Settled, manager, requests, database
<1>1. CASE Next
  <2>1. ASSUME NEW c \in Callers, NEW o \in Ops, BeginClosed(c, o) PROVE LoopInv'
    BY <2>1 DEF BeginClosed, Begins, LoopInv
  <2>2. ASSUME NEW c \in Callers, ConnectWithMemo(c) PROVE LoopInv'
    BY <2>2 DEF ConnectWithMemo, RefreshLoop, MayRefresh, Begins, LoopInv
  <2>3. ASSUME NEW c \in Callers, NEW o \in Ops, EnsureWithDriver(c, o) PROVE LoopInv'
    BY <2>3 DEF EnsureWithDriver, Begins, LoopInv
  <2>4. ASSUME NEW c \in Callers, NEW o \in Ops, JoinOpen(c, o) PROVE LoopInv'
    BY <2>4 DEF JoinOpen, Begins, LoopInv
  <2>5. ASSUME NEW c \in Callers, NEW o \in Ops, StartOpen(c, o) PROVE LoopInv'
    BY <2>5 DEF StartOpen, Begins, LoopInv
  <2>6. ASSUME OpenConnects PROVE LoopInv'
    BY <2>6 DEF OpenConnects, LoopInv
  <2>7. ASSUME OpenLists PROVE LoopInv'
    BY <2>7 DEF OpenLists, LoopInv
  <2>8. ASSUME OpenCommits PROVE LoopInv'
    BY <2>8 DEF OpenCommits, LoopInv
  <2>9. ASSUME OpenFails PROVE LoopInv'
    BY <2>9 DEF OpenFails, LoopInv
  <2>10. ASSUME OpenDiscards PROVE LoopInv'
    BY <2>10 DEF OpenDiscards, LoopInv
  <2>11. ASSUME NEW c \in Callers, OpenOwnerResumes(c) PROVE LoopInv'
    BY <2>11 DEF OpenOwnerResumes, Outcome, LoopInv
  <2>12. ASSUME NEW c \in Callers, EnsureOpened(c) PROVE LoopInv'
    <3> USE <2>12 DEF EnsureOpened, Answer, Outcome
    <3>1. SettledInv'
      OBVIOUS
    <3>2. (\A d \in Callers : start[d].acked <= acked)'
      OBVIOUS
    <3>3. (\A d \in Callers : TurnInv(d))'
      OBVIOUS
    <3>4. (\A d \in Callers : OpenerInv(d))'
      OBVIOUS
    <3>5. StaleAnswerWasOutrun'
      <4>1. CASE driver
        BY <4>1
      <4>2. CASE ~driver
        BY <4>2
      <4> QED
        BY <4>1, <4>2
    <3> QED
      BY <3>1, <3>2, <3>3, <3>4, <3>5 DEF LoopInv
  <2>13. ASSUME NEW c \in Callers, EnsureFailed(c) PROVE LoopInv'
    BY <2>13 DEF EnsureFailed, Answer, Outcome, LoopInv
  <2>14. ASSUME NEW c \in Callers, GetSchemaResumes(c) PROVE LoopInv'
    <3>7. TurnInv(c)'
      <4>1. pc \in [Callers -> Pcs] /\ refreshing \in Flight /\ 0 \in 0 .. MaxRefreshTurns
        BY <2>14 DEF GetSchemaResumes, Released
      <4>2. RefreshLoop(c, 0, refreshing, pc) /\ UNCHANGED <<cached, stale, generation, closed, start>>
        BY <2>14 DEF GetSchemaResumes
      <4>3. cached # 0 \/ closed
        BY <2>14 DEF GetSchemaResumes
      <4>4. \/ Covered(c)
            \/ /\ generation + 1 >= start[c].gen + 0
               /\ Idle(refreshing) \/ 0 = 0 \/ refreshing.gen + 1 >= start[c].gen + 0
        BY <2>14, <4>3 DEF GetSchemaResumes
      <4> QED
        BY ONLY <1>a, <1>b, <1>c, <4>1, <4>2, <4>3, <4>4, LoopHead
    <3>8. \A d \in Callers \ {c} : TurnInv(d)'
      BY <2>14 DEF GetSchemaResumes, RefreshLoop
    <3> USE <2>14 DEF GetSchemaResumes, RefreshLoop, MayRefresh
    <3>1. SettledInv'
      OBVIOUS
    <3>2. (\A d \in Callers : start[d].acked <= acked)'
      OBVIOUS
    <3>3. (\A d \in Callers : TurnInv(d))'
      BY ONLY <3>7, <3>8
    <3>4. (\A d \in Callers : OpenerInv(d))'
      OBVIOUS
    <3>5. StaleAnswerWasOutrun'
      OBVIOUS
    <3> QED
      BY <3>1, <3>2, <3>3, <3>4, <3>5 DEF LoopInv
  <2>15. ASSUME RefreshLists PROVE LoopInv'
    BY <2>15 DEF RefreshLists, LoopInv
  <2>16. ASSUME RefreshCommits PROVE LoopInv'
    <3> USE <2>16 DEF RefreshCommits
    <3>1. SettledInv'
      OBVIOUS
    <3>2. (\A d \in Callers : start[d].acked <= acked)'
      OBVIOUS
    <3>3. (\A d \in Callers : TurnInv(d))'
      OBVIOUS
    <3>4. (\A d \in Callers : OpenerInv(d))'
      OBVIOUS
    <3>5. StaleAnswerWasOutrun'
      OBVIOUS
    <3> QED
      BY <3>1, <3>2, <3>3, <3>4, <3>5 DEF LoopInv
  <2>17. ASSUME RefreshFails PROVE LoopInv'
    BY <2>17 DEF RefreshFails, LoopInv
  <2>18. ASSUME NEW c \in Callers, RefreshOwnerResumes(c) PROVE LoopInv'
    <3>6. /\ Released("rejoin") \in [Callers -> Pcs] /\ NoFlight \in Flight
          /\ RefreshLoop(c, turn[c] + 1, NoFlight, Released("rejoin"))
          /\ UNCHANGED <<cached, stale, generation, closed, start>>
          /\ cached # 0 \/ closed
      BY <2>18 DEF RefreshOwnerResumes, Released
    <3>7. TurnInv(c)'
      <4> DEFINE t == turn[c] + 1
      <4>1. t \in 0 .. MaxRefreshTurns
        BY <2>18 DEF RefreshOwnerResumes
      <4>2. \/ Covered(c)
            \/ /\ generation + 1 >= start[c].gen + t
               /\ Idle(NoFlight) \/ t = 0 \/ NoFlight.gen + 1 >= start[c].gen + t
        BY <2>18, <3>6 DEF RefreshOwnerResumes
      <4>3. RefreshLoop(c, t, NoFlight, Released("rejoin"))
        BY <3>6
      <4> HIDE DEF t
      <4> QED
        BY ONLY <1>a, <1>b, <1>c, <3>6, <4>1, <4>2, <4>3, LoopHead
    <3>8. \A d \in Callers \ {c} : TurnInv(d)'
      <4>1. /\ pc' \in [Callers -> Pcs]
            /\ \A d \in Callers \ {c} : pc'[d] = Released("rejoin")[d]
        BY ONLY <3>6, RefreshLoopPc
      <4>2. \A d \in Callers \ {c} :
              /\ pc'[d] = pc[d] \/ (pc[d] = "joinedRefresh" /\ pc'[d] = "rejoin")
              /\ pc'[d] # "refreshing" /\ pc'[d] # "joinedRefresh" /\ turn'[d] = turn[d]
        BY <4>1, <2>18 DEF RefreshOwnerResumes, RefreshLoop, Released
      <4>3. Idle(refreshing') \/ refreshing'.gen = generation
        BY <2>18 DEF RefreshOwnerResumes, RefreshLoop
      <4>4. UNCHANGED <<cached, stale, generation, closed, start>>
        BY <2>18 DEF RefreshOwnerResumes
      <4>5. \A d \in Callers : pc[d] = "joinedRefresh" => Covered(d) \/ generation >= start[d].gen + turn[d]
        BY <2>18, <3>6 DEF RefreshOwnerResumes
      <4> QED
        BY <4>2, <4>3, <4>4, <4>5
    <3> USE <2>18 DEF RefreshOwnerResumes, RefreshLoop, MayRefresh, Released
    <3>1. SettledInv'
      OBVIOUS
    <3>2. (\A d \in Callers : start[d].acked <= acked)'
      OBVIOUS
    <3>3. (\A d \in Callers : TurnInv(d))'
      BY ONLY <3>7, <3>8
    <3>4. (\A d \in Callers : OpenerInv(d))'
      <4>1. \A d \in Callers : pc'[d] \in {"opening", "joinedOpen"} => pc'[d] = pc[d]
        <5>1. \A d \in Callers \ {c} : pc'[d] = Released("rejoin")[d]
          BY ONLY <3>6, RefreshLoopPc
        <5>2. pc'[c] \in {"joinedRefresh", "refreshing", "refreshed"}
          BY ONLY <3>6, RefreshLoopPc
        <5> QED
          BY <5>1, <5>2 DEF Released
      <4> QED
        BY <4>1
    <3>5. StaleAnswerWasOutrun'
      OBVIOUS
    <3> QED
      BY <3>1, <3>2, <3>3, <3>4, <3>5 DEF LoopInv
  <2>19. ASSUME NEW c \in Callers, RefreshOwnerThrows(c) PROVE LoopInv'
    BY <2>19 DEF RefreshOwnerThrows, Outcome, Released, LoopInv
  <2>20. ASSUME NEW c \in Callers, JoinerResumes(c) PROVE LoopInv'
    <3>6. /\ pc \in [Callers -> Pcs] /\ refreshing \in Flight
          /\ RefreshLoop(c, turn[c] + 1, refreshing, pc)
          /\ UNCHANGED <<cached, stale, generation, closed, start>>
          /\ cached # 0 \/ closed
      BY <2>20 DEF JoinerResumes, Released
    <3>7. TurnInv(c)'
      <4> DEFINE t == turn[c] + 1
      <4>1. t \in 0 .. MaxRefreshTurns
        BY <2>20 DEF JoinerResumes
      <4>2. \/ Covered(c)
            \/ /\ generation + 1 >= start[c].gen + t
               /\ Idle(refreshing) \/ t = 0 \/ refreshing.gen + 1 >= start[c].gen + t
        BY <2>20, <3>6 DEF JoinerResumes
      <4>3. RefreshLoop(c, t, refreshing, pc)
        BY <3>6
      <4> HIDE DEF t
      <4> QED
        BY ONLY <1>a, <1>b, <1>c, <3>6, <4>1, <4>2, <4>3, LoopHead
    <3>8. \A d \in Callers \ {c} : TurnInv(d)'
      BY <2>20 DEF JoinerResumes, RefreshLoop
    <3> USE <2>20 DEF JoinerResumes, RefreshLoop, MayRefresh
    <3>1. SettledInv'
      OBVIOUS
    <3>2. (\A d \in Callers : start[d].acked <= acked)'
      OBVIOUS
    <3>3. (\A d \in Callers : TurnInv(d))'
      BY ONLY <3>7, <3>8
    <3>4. (\A d \in Callers : OpenerInv(d))'
      OBVIOUS
    <3>5. StaleAnswerWasOutrun'
      OBVIOUS
    <3> QED
      BY <3>1, <3>2, <3>3, <3>4, <3>5 DEF LoopInv
  <2>21. ASSUME NEW c \in Callers, JoinerThrows(c) PROVE LoopInv'
    BY <2>21 DEF JoinerThrows, Answer, Outcome, LoopInv
  <2>22. ASSUME NEW c \in Callers, ConnectAnswers(c) PROVE LoopInv'
    <3> USE <2>22 DEF ConnectAnswers, Answer, Outcome
    <3>1. SettledInv'
      OBVIOUS
    <3>2. (\A d \in Callers : start[d].acked <= acked)'
      OBVIOUS
    <3>3. (\A d \in Callers : TurnInv(d))'
      OBVIOUS
    <3>4. (\A d \in Callers : OpenerInv(d))'
      OBVIOUS
    <3>5. StaleAnswerWasOutrun'
      <4>1. \A d \in Callers \ {c} : reply'[d] = reply[d]
        OBVIOUS
      <4>2. reply'[c].side = "open" /\ reply'[c].kind = "connected"
              => ~closed /\ reply'[c].seen = cached /\ reply'[c].raced = generation - start[c].gen
        OBVIOUS
      <4>3. Covered(c) \/ generation + 1 >= start[c].gen + MaxRefreshTurns
        OBVIOUS
      <4>4. reply'[c].kind \in {"connected", "failed"} \/ reply'[c] = reply[c]
        OBVIOUS
      <4> QED
        BY <4>1, <4>2, <4>3, <4>4
    <3> QED
      BY <3>1, <3>2, <3>3, <3>4, <3>5 DEF LoopInv
  <2>23. ASSUME NEW c \in Callers, GetSchemaAnswers(c) PROVE LoopInv'
    <3> USE <2>23 DEF GetSchemaAnswers, Answer, Outcome
    <3>1. SettledInv'
      OBVIOUS
    <3>2. (\A d \in Callers : start[d].acked <= acked)'
      OBVIOUS
    <3>3. (\A d \in Callers : TurnInv(d))'
      OBVIOUS
    <3>4. (\A d \in Callers : OpenerInv(d))'
      OBVIOUS
    <3>5. StaleAnswerWasOutrun'
      <4>1. \A d \in Callers \ {c} : reply'[d] = reply[d]
        OBVIOUS
      <4>2. cached # 0 \/ closed
        OBVIOUS
      <4>3. CASE cached # 0
        <5>1. reply'[c] = Outcome(c, "schema", cached)
          BY <4>3
        <5>2. Covered(c) \/ generation + 1 >= start[c].gen + MaxRefreshTurns
          OBVIOUS
        <5>3. reply'[c].seen = cached /\ reply'[c].raced = generation - start[c].gen
              /\ (reply'[c].side = "open" => ~closed)
          BY <5>1
        <5>4. generation \in Nat /\ start[c].gen \in Nat /\ start[c].acked \in Nat
              /\ cached \in Nat /\ MaxRefreshTurns \in Nat
          OBVIOUS
        <5>5. reply'[c].seen < start[c].acked /\ reply'[c].side = "open"
                => reply'[c].raced + 1 >= MaxRefreshTurns
          BY ONLY <5>2, <5>3, <5>4 DEF Covered
        <5>6. start' = start
          OBVIOUS
        <5> QED
          BY ONLY <4>1, <5>5, <5>6, StaleAnswerWasOutrun, AnswerStep
      <4>4. CASE closed
        <5>1. reply'[c].side = "closed" /\ start' = start
          BY <4>4
        <5> QED
          BY ONLY <4>1, <5>1, StaleAnswerWasOutrun, AnswerStep
      <4> QED
        BY ONLY <4>2, <4>3, <4>4
    <3> QED
      BY <3>1, <3>2, <3>3, <3>4, <3>5 DEF LoopInv
  <2>24. ASSUME NEW c \in Callers, StatementSent(c) PROVE LoopInv'
    BY <2>24 DEF StatementSent, LoopInv
  <2>25. ASSUME NEW c \in Callers, StatementApplied(c) PROVE LoopInv'
    BY <2>25 DEF StatementApplied, LoopInv
  <2>26. ASSUME NEW c \in Callers, StatementReturns(c) PROVE LoopInv'
    BY <2>26 DEF StatementReturns, Answer, Outcome, LoopInv
  <2>27. ASSUME NEW c \in Callers, StatementThrows(c) PROVE LoopInv'
    BY <2>27 DEF StatementThrows, Answer, Outcome, LoopInv
  <2>28. ASSUME CloseBegins PROVE LoopInv'
    BY <2>28 DEF CloseBegins, TearDown, LoopInv
  <2>29. ASSUME CloseAfterOpen PROVE LoopInv'
    <3> USE <2>29 DEF CloseAfterOpen, TearDown
    <3>1. SettledInv'
      OBVIOUS
    <3>2. (\A d \in Callers : start[d].acked <= acked)'
      OBVIOUS
    <3>6. closed
      BY DEF CloseInv, Inv
    <3>3. (\A d \in Callers : TurnInv(d))'
      BY <3>6
    <3>4. (\A d \in Callers : OpenerInv(d))'
      OBVIOUS
    <3>5. StaleAnswerWasOutrun'
      OBVIOUS
    <3> QED
      BY <3>1, <3>2, <3>3, <3>4, <3>5 DEF LoopInv
  <2>30. ASSUME CloseAfterRefresh PROVE LoopInv'
    <3> USE <2>30 DEF CloseAfterRefresh, TearDown
    <3>1. SettledInv'
      OBVIOUS
    <3>2. (\A d \in Callers : start[d].acked <= acked)'
      OBVIOUS
    <3>6. closed
      BY DEF CloseInv, Inv
    <3>3. (\A d \in Callers : TurnInv(d))'
      BY <3>6
    <3>4. (\A d \in Callers : OpenerInv(d))'
      OBVIOUS
    <3>5. StaleAnswerWasOutrun'
      OBVIOUS
    <3> QED
      BY <3>1, <3>2, <3>3, <3>4, <3>5 DEF LoopInv
  <2>31. ASSUME CloseReleases PROVE LoopInv'
    BY <2>31 DEF CloseReleases, LoopInv
  <2> QED
    BY ONLY <1>1, <2>1, <2>2, <2>3, <2>4, <2>5, <2>6, <2>7, <2>8, <2>9, <2>10, <2>11, <2>12, <2>13, <2>14, <2>15, <2>16, <2>17, <2>18, <2>19, <2>20, <2>21, <2>22, <2>23, <2>24, <2>25, <2>26, <2>27, <2>28, <2>29, <2>30, <2>31 DEF Next, Begin, Resume, DatabaseOpens, DatabaseRefreshes, DatabaseRuns, CloseProceeds
<1>2. CASE UNCHANGED vars
  BY <1>2 DEF vars, LoopInv
<1> QED
  BY <1>1, <1>2

-----------------------------------------------------------------------------
(* The theorems.                                                            *)

LEMMA InvHolds == Spec => []Inv
  BY InvInit, InvStep, PTL DEF Spec

LEMMA LoopHolds == Spec => []LoopInv
<1>1. Inv /\ Inv' /\ LoopInv /\ [Next]_vars => LoopInv'
  BY LoopStep
<1> QED
  BY <1>1, LoopInit, InvHolds, PTL DEF Spec

(* Every variable of the manager keeps its type, and no request goes round  *)
(* refreshIfStale's loop more than MAX_REFRESH_TURNS times.                  *)
THEOREM TypeCorrect == Spec => []TypeOK
<1>1. Inv => TypeOK
  BY DEF Inv
<1> QED
  BY <1>1, InvHolds, PTL

(* No invalidation is ever swallowed by an introspection that was already   *)
(* in flight: the generation guard of open() and refreshIfStale is enough.   *)
THEOREM NoLostInvalidationHolds == Spec => []NoLostInvalidation
<1>1. Inv => NoLostInvalidation
  BY DEF Inv
<1> QED
  BY <1>1, InvHolds, PTL

(* inflight and refreshing are single flights, however many requests come.  *)
THEOREM SingleFlightHolds == Spec => []SingleFlight
<1>1. Inv => SingleFlight
  BY DEF Inv
<1> QED
  BY <1>1, InvHolds, PTL

(* close() leaves no driver, no flight and no memo behind.                   *)
THEOREM ClosedIsFinalHolds == Spec => []ClosedIsFinal
<1>1. Inv => ClosedIsFinal
  BY DEF Inv, CloseInv, MemoInv, ClosedIsFinal
<1> QED
  BY <1>1, InvHolds, PTL

(* The driver and the memo come and go together; the defensive introspection*)
(* at the end of getSchema is dead code.                                    *)
THEOREM DriverHasMemoHolds == Spec => []DriverHasMemo
<1>1. Inv => DriverHasMemo
  BY DEF Inv, MemoInv, DriverHasMemo
<1> QED
  BY <1>1, InvHolds, PTL

(* A reader is given a schema older than a statement acknowledged before it *)
(* asked only after at least MAX_REFRESH_TURNS - 1 further invalidations    *)
(* arrived during its own call.                                             *)
THEOREM StaleAnswerHolds == Spec => []StaleAnswerWasOutrun
<1>1. LoopInv => StaleAnswerWasOutrun
  BY DEF LoopInv
<1> QED
  BY <1>1, LoopHolds, PTL

-----------------------------------------------------------------------------
(* The refinement.                                                          *)

\* The view of a ManagedDriver when it is not changed by a step.
LEMMA ManagedStutter ==
  ASSUME UNCHANGED <<driver, closed, inflight, closer>>
  PROVE  UNCHANGED Owned!vars
  BY DEF Owned!vars, Physical, Closing

\* An open in flight: the steps of open() keep it opening, commit it or fail it.
LEMMA ManagedOpens ==
  ASSUME Inv, DatabaseOpens
  PROVE  [Owned!Next]_(Owned!vars)
<1> USE DEF Owned!Next, Owned!OpenSettles, Owned!vars
<1>1. inflight \in Flight
  BY DEF Inv, TypeOK
<1>2. UNCHANGED <<closed, closer>> /\ Closing' = Closing
  <2>1. UNCHANGED closed
    BY DEF DatabaseOpens, OpenConnects, OpenLists, OpenCommits, OpenFails, OpenDiscards, manager
  <2>2. UNCHANGED closer
    BY DEF DatabaseOpens, OpenConnects, OpenLists, OpenCommits, OpenFails, OpenDiscards
  <2> QED
    BY <2>1, <2>2 DEF Closing
<1>3. CASE OpenConnects \/ OpenLists \/ OpenFails
  <2>1. Physical = "opening" /\ Physical' = "opening"
    BY <1>1, <1>3 DEF OpenConnects, OpenLists, OpenFails, Physical, Flight
  <2> QED
    BY <2>1, <1>2
<1>4. CASE OpenCommits
  <2>1. Physical = "opening" /\ Physical' = "open"
    BY <1>1, <1>4 DEF OpenCommits, Physical, Flight
  <2> QED
    BY <2>1, <1>2
<1>5. CASE OpenDiscards
  <2>1. ~driver /\ closer # "releasing"
    BY <1>5 DEF OpenDiscards, Inv, ColdInv, CloseInv, Opening, Phases, Idle
  <2>2. Physical = "opening" /\ Physical' = "none"
    BY <1>1, <1>2, <1>5, <2>1 DEF OpenDiscards, manager, Physical, Flight
  <2> QED
    BY <2>2, <1>2
<1> QED
  BY <1>3, <1>4, <1>5 DEF DatabaseOpens

\* close() once it has nothing left to wait for: it keeps the driver it took
\* until it is released, and without one it is over.
LEMMA ManagedTearsDown ==
  ASSUME Inv, TearDown, closed', UNCHANGED inflight, Idle(inflight),
         closer \in {"none", "awaitOpen", "awaitRefresh"}
  PROVE  /\ driver => Physical = "open" /\ Physical' = "open" /\ Closing' = "yes"
         /\ ~driver => Physical = "none" /\ Physical' = "none" /\ Closing' = "done"
<1>1. driver \in BOOLEAN
  BY DEF Inv, TypeOK
<1> QED
  BY <1>1 DEF TearDown, Physical, Closing, Idle

LEMMA ManagedCloses ==
  ASSUME Inv, CloseBegins \/ CloseProceeds
  PROVE  [Owned!Next]_(Owned!vars)
<1> USE DEF Owned!Next, Owned!CloseBegins, Owned!CloseEnds, Owned!vars
<1>1. closed <=> closer # "none"
  BY DEF Inv, CloseInv
<1>2. CASE CloseBegins
  <2>1. Closing = "no" /\ closed' /\ UNCHANGED inflight
    BY <1>1, <1>2 DEF CloseBegins, Closing
  <2>2. CASE closer' \in {"awaitOpen", "awaitRefresh"} /\ UNCHANGED driver
    <3>1. Physical' = Physical /\ Closing' = "yes"
      BY <1>2, <2>1, <2>2 DEF CloseBegins, Physical, Closing
    <3> QED
      BY <2>1, <3>1
  <2>3. CASE TearDown /\ Idle(inflight)
    BY <1>2, <2>1, <2>3, ManagedTearsDown DEF CloseBegins
  <2> QED
    BY <1>2, <2>2, <2>3 DEF CloseBegins
<1>3. CASE CloseAfterOpen \/ CloseAfterRefresh
  <2>1. Closing = "yes" /\ closed' /\ UNCHANGED inflight
    BY <1>1, <1>3 DEF CloseAfterOpen, CloseAfterRefresh, Closing
  <2>2. CASE closer' = "awaitRefresh" /\ UNCHANGED driver
    <3>1. Physical' = Physical /\ Closing' = "yes"
      BY <1>3, <2>1, <2>2 DEF CloseAfterOpen, CloseAfterRefresh, Physical, Closing
    <3> QED
      BY <2>1, <3>1
  <2>3. CASE TearDown
    <3>1. Idle(inflight) /\ closer \in {"awaitOpen", "awaitRefresh"}
      BY <1>3 DEF CloseAfterOpen, CloseAfterRefresh, Inv, CloseInv
    <3> QED
      BY <2>1, <2>3, <3>1, ManagedTearsDown
  <2> QED
    BY <1>3, <2>2, <2>3 DEF CloseAfterOpen, CloseAfterRefresh
<1>4. CASE CloseReleases
  <2>1. Idle(inflight) /\ ~driver
    BY <1>4 DEF CloseReleases, Inv, CloseInv
  <2>2. Physical = "open" /\ Physical' = "none" /\ Closing = "yes" /\ Closing' = "done"
    BY <1>1, <1>4, <2>1 DEF CloseReleases, manager, Physical, Closing, Idle
  <2> QED
    BY <2>2
<1> QED
  BY <1>2, <1>3, <1>4 DEF CloseProceeds

LEMMA ManagedStep == Inv /\ [Next]_vars => [Owned!Next]_(Owned!vars)
<1> SUFFICES ASSUME Inv, [Next]_vars PROVE [Owned!Next]_(Owned!vars)
  OBVIOUS
<1>1. ASSUME NEW c \in Callers, NEW o \in Ops, StartOpen(c, o)
      PROVE  [Owned!Next]_(Owned!vars)
  <2>1. Closing' = Closing /\ Closing = "no" /\ UNCHANGED <<driver, closer>>
    BY <1>1 DEF StartOpen, manager, Closing
  <2>2. Physical = "none"
    BY <1>1 DEF StartOpen, Inv, CloseInv, Physical, Idle
  <2>3. Physical' \in {"opening", "none"}
    BY <1>1, <2>1 DEF StartOpen, Inv, CloseInv, Physical
  <2> QED
    BY <2>1, <2>2, <2>3 DEF Owned!Next, Owned!Open, Owned!vars
<1>2. ASSUME NEW c \in Callers, Begin(c), ~\E o \in Ops : StartOpen(c, o)
      PROVE  UNCHANGED <<driver, closed, inflight, closer>>
  BY <1>2 DEF Begin, BeginClosed, EnsureWithDriver, JoinOpen, ConnectWithMemo, manager
<1>3. ASSUME NEW c \in Callers, OpenOwnerResumes(c)
      PROVE  UNCHANGED Owned!vars
  <2>1. inflight.phase \in {"succeeded", "failed"} /\ inflight'.phase = "none"
    BY <1>3 DEF OpenOwnerResumes, Settled, NoFlight
  <2>2. UNCHANGED <<driver, closed, closer>>
    BY <1>3 DEF OpenOwnerResumes, manager
  <2> QED
    BY <2>1, <2>2 DEF Owned!vars, Physical, Closing
<1>4. ASSUME NEW c \in Callers, Resume(c), ~OpenOwnerResumes(c)
      PROVE  UNCHANGED <<driver, closed, inflight, closer>>
  BY <1>4 DEF Resume, EnsureOpened, EnsureFailed, GetSchemaResumes, RefreshOwnerResumes,
      RefreshOwnerThrows, JoinerResumes, JoinerThrows, ConnectAnswers, GetSchemaAnswers,
      StatementSent, StatementReturns, manager
<1>5. ASSUME NEW c \in Callers, DatabaseRuns(c)
      PROVE  UNCHANGED <<driver, closed, inflight, closer>>
  BY <1>5 DEF DatabaseRuns, StatementApplied, StatementThrows, manager
<1>6. ASSUME DatabaseRefreshes
      PROVE  UNCHANGED <<driver, closed, inflight, closer>>
  BY <1>6 DEF DatabaseRefreshes, RefreshLists, RefreshCommits, RefreshFails, manager
<1>7. CASE UNCHANGED vars
  BY <1>7, ManagedStutter DEF vars, manager
<1>8. CASE \E c \in Callers : Begin(c) \/ Resume(c) \/ DatabaseRuns(c)
  BY <1>8, <1>1, <1>2, <1>3, <1>4, <1>5, ManagedStutter
<1>9. CASE DatabaseRefreshes
  BY <1>6, <1>9, ManagedStutter
<1> QED
  BY <1>7, <1>8, <1>9, ManagedOpens, ManagedCloses DEF Next

(* A connection manager is a ManagedDriver to those who own it: it has at   *)
(* most one physical connection, opens none once close() has begun, and has *)
(* none when close() returns.  ConnectionTargets rests on this.             *)
THEOREM ManagerIsManagedDriver == Spec => ImplementsManagedDriver
<1>1. Init => Owned!Init
  BY DEF Init, NoFlight, Owned!Init, Physical, Closing
<1> QED
  BY <1>1, ManagedStep, InvHolds, PTL DEF Spec, ImplementsManagedDriver, Owned!Spec

=============================================================================
