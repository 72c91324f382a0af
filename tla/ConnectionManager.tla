------------------------- MODULE ConnectionManager -------------------------
(***************************************************************************)
(* The connection manager of the Core (src/core/connection.ts): one lazily *)
(* opened driver, the memo of its introspected schema, and the protocol    *)
(* that keeps the memo honest while statements change the catalog.         *)
(*                                                                         *)
(* Callers are RPC requests in flight.  The Core runs on one event loop, so*)
(* an action is the code a request runs between two awaits; every await is *)
(* a point where other requests, the database and close() may run.  The    *)
(* reactions of one promise run in the order they were attached, and the   *)
(* request that created a promise attached first: it resumes before the    *)
(* requests that joined it.                                                *)
(*                                                                         *)
(* A schema is represented by the version of the catalog it describes: the *)
(* database counts its catalog changes in `catalog'.  Version 0 stands for *)
(* a null memo.  The manager of a boot without a url never opens anything  *)
(* and is not modelled.                                                    *)
(***************************************************************************)
EXTENDS Naturals

CONSTANTS
  Callers,          \* requests that use this manager
  MaxRefreshTurns,  \* MAX_REFRESH_TURNS
  MaxCatalog        \* bound: catalog versions the database goes through

ASSUME TurnsAssumption == MaxRefreshTurns \in Nat
ASSUME CatalogAssumption == MaxCatalog \in Nat \ {0}

Nobody == "nobody"

ASSUME NobodyAssumption == Nobody \notin Callers

VARIABLES
  driver,      \* driver # null
  cached,      \* the catalog version of cached.schema, 0 for null
  stale,       \* schemaStale
  generation,  \* schemaGeneration
  closed,      \* closed
  inflight,    \* the open() in flight and the physical driver it holds
  refreshing,  \* the re-introspection in flight
  closer,      \* progress of the close() call
  pc,          \* where each request stands
  op,          \* what each request asked for
  turn,        \* refreshIfStale's loop counter, per request
  catalog,     \* the database's catalog version
  ddl,         \* catalog version a request's own statement created, 0 if none
  acked,       \* newest catalog version whose statement was acknowledged
  start,       \* per request: `acked' and `generation' when it began
  reply        \* per request: the last answer it was given

manager == <<driver, cached, stale, generation, closed>>
requests == <<pc, op, turn, start, reply>>
database == <<catalog, ddl, acked>>
vars == <<manager, inflight, refreshing, closer, requests, database>>

Ops == {"connect", "getSchema", "statement"}
Phases == {"none", "connecting", "listing", "answered", "discarding",
          "succeeded", "failed"}
Pcs == {"idle", "opening", "joinedOpen", "opened", "unopened", "ensured",
        "refreshing", "joinedRefresh", "rejoin", "rejected", "refreshed",
        "querying", "executed", "fallback"}
Sides == {"open", "closed"}
Replies == {"none", "connected", "schema", "ok", "failed"}

\* A flight is a promise the manager memoizes: who created it, the generation
\* captured before its first await, what the database answered.
Flight == [phase : Phases, owner : Callers \cup {Nobody}, gen : Nat, seen : Nat]
NoFlight == [phase |-> "none", owner |-> Nobody, gen |-> 0, seen |-> 0]

\* Null promise?
Idle(f) == f.phase = "none"
Settled(f) == f.phase \in {"succeeded", "failed"}

TypeOK ==
  /\ driver \in BOOLEAN
  /\ cached \in Nat
  /\ stale \in BOOLEAN
  /\ generation \in Nat
  /\ closed \in BOOLEAN
  /\ inflight \in Flight
  /\ refreshing \in Flight
  /\ closer \in {"none", "awaitOpen", "awaitRefresh", "releasing", "done"}
  /\ pc \in [Callers -> Pcs]
  /\ op \in [Callers -> Ops]
  /\ turn \in [Callers -> 0 .. MaxRefreshTurns]
  /\ catalog \in Nat
  /\ ddl \in [Callers -> Nat]
  /\ acked \in Nat
  /\ start \in [Callers -> [acked : Nat, gen : Nat]]
  /\ reply \in [Callers -> [kind : Replies, seen : Nat, raced : Nat, side : Sides]]

NoReply == [kind |-> "none", seen |-> 0, raced |-> 0, side |-> "open"]

Init ==
  /\ driver = FALSE /\ cached = 0 /\ stale = FALSE /\ generation = 0 /\ closed = FALSE
  /\ inflight = NoFlight /\ refreshing = NoFlight /\ closer = "none"
  /\ pc = [c \in Callers |-> "idle"]
  /\ op = [c \in Callers |-> "connect"]
  /\ turn = [c \in Callers |-> 0]
  /\ catalog = 1 /\ acked = 1
  /\ ddl = [c \in Callers |-> 0]
  /\ start = [c \in Callers |-> [acked |-> 0, gen |-> 0]]
  /\ reply = [c \in Callers |-> NoReply]

-----------------------------------------------------------------------------
(* Answers.  `raced' counts the invalidations that arrived during the call, *)
(* `side' records whether close() had begun when the answer was given.      *)

Outcome(c, kind, seen) ==
  [kind |-> kind, seen |-> seen, raced |-> generation - start[c].gen,
   side |-> IF closed THEN "closed" ELSE "open"]

Answer(c, kind, seen) ==
  /\ pc' = [pc EXCEPT ![c] = "idle"]
  /\ reply' = [reply EXCEPT ![c] = Outcome(c, kind, seen)]

-----------------------------------------------------------------------------
(* The loop of refreshIfStale, from its test at turn t to its next await.   *)
(* f is the value of `refreshing' the test reads, p the program counters    *)
(* the step has otherwise produced.                                         *)

MayRefresh(t) == stale /\ ~closed /\ t < MaxRefreshTurns

RefreshLoop(c, t, f, p) ==
  /\ turn' = [turn EXCEPT ![c] = t]
  /\ \/ /\ MayRefresh(t)
        /\ ~Idle(f)                       \* join the single flight
        /\ pc' = [p EXCEPT ![c] = "joinedRefresh"]
        /\ refreshing' = f
     \/ /\ MayRefresh(t)
        /\ Idle(f)                        \* start our own introspection
        /\ pc' = [p EXCEPT ![c] = "refreshing"]
        /\ refreshing' = [phase |-> "listing", owner |-> c, gen |-> generation,
                          seen |-> 0]
     \/ /\ ~MayRefresh(t)
        /\ pc' = [p EXCEPT ![c] = "refreshed"]
        /\ refreshing' = f

-----------------------------------------------------------------------------
(* A request arrives: the synchronous prefix of connect / getSchema / query.*)

Begins(c, o) ==
  /\ pc[c] = "idle"
  /\ op' = [op EXCEPT ![c] = o]
  /\ start' = [start EXCEPT ![c] = [acked |-> acked, gen |-> generation]]

\* closed: the neutral payload of connect, the throw of ensureDriver.
BeginClosed(c, o) ==
  /\ Begins(c, o)
  /\ closed
  /\ reply' = [reply EXCEPT ![c] = [kind |-> "failed", seen |-> 0, raced |-> 0,
                                    side |-> "closed"]]
  /\ UNCHANGED <<manager, inflight, refreshing, closer, pc, turn, database>>

\* doConnect with a memo: honor a pending invalidation before serving it.
ConnectWithMemo(c) ==
  /\ Begins(c, "connect")
  /\ ~closed /\ cached # 0 /\ driver
  /\ reply' = [reply EXCEPT ![c] = NoReply]
  /\ RefreshLoop(c, 0, refreshing, pc)
  /\ UNCHANGED <<manager, inflight, closer, database>>

\* ensureDriver with a live driver.
EnsureWithDriver(c, o) ==
  /\ o # "connect"
  /\ Begins(c, o)
  /\ ~closed /\ driver
  /\ reply' = [reply EXCEPT ![c] = NoReply]
  /\ pc' = [pc EXCEPT ![c] = "ensured"]
  /\ UNCHANGED <<manager, inflight, refreshing, closer, turn, database>>

\* No driver yet: join the open in flight ...
JoinOpen(c, o) ==
  /\ Begins(c, o)
  /\ ~closed /\ ~driver /\ cached = 0 /\ ~Idle(inflight)
  /\ reply' = [reply EXCEPT ![c] = NoReply]
  /\ pc' = [pc EXCEPT ![c] = "joinedOpen"]
  /\ UNCHANGED <<manager, inflight, refreshing, closer, turn, database>>

\* ... or start it.  createDriver may refuse the url before any driver exists.
StartOpen(c, o) ==
  /\ Begins(c, o)
  /\ ~closed /\ ~driver /\ cached = 0 /\ Idle(inflight)
  /\ reply' = [reply EXCEPT ![c] = NoReply]
  /\ pc' = [pc EXCEPT ![c] = "opening"]
  /\ \E p \in {"connecting", "failed"} :
       inflight' = [phase |-> p, owner |-> c, gen |-> generation, seen |-> 0]
  /\ UNCHANGED <<manager, refreshing, closer, turn, database>>

-----------------------------------------------------------------------------
(* open(): connect, introspect, commit; on any failure close the driver.    *)

OpenConnects ==
  /\ inflight.phase = "connecting"
  /\ inflight' = [inflight EXCEPT !.phase = "listing"]
  /\ UNCHANGED <<manager, refreshing, closer, requests, database>>

OpenLists ==
  /\ inflight.phase = "listing"
  /\ inflight' = [inflight EXCEPT !.phase = "answered", !.seen = catalog]
  /\ UNCHANGED <<manager, refreshing, closer, requests, database>>

OpenCommits ==
  /\ inflight.phase = "answered"
  /\ driver' = TRUE
  /\ cached' = inflight.seen
  /\ stale' = IF generation = inflight.gen THEN FALSE ELSE stale
  /\ inflight' = [inflight EXCEPT !.phase = "succeeded"]
  /\ UNCHANGED <<generation, closed, refreshing, closer, requests, database>>

OpenFails ==
  /\ inflight.phase \in {"connecting", "listing", "answered"}
  /\ inflight' = [inflight EXCEPT !.phase = "discarding"]
  /\ UNCHANGED <<manager, refreshing, closer, requests, database>>

OpenDiscards ==
  /\ inflight.phase = "discarding"
  /\ inflight' = [inflight EXCEPT !.phase = "failed"]
  /\ UNCHANGED <<manager, refreshing, closer, requests, database>>

\* The finally of doConnect.  The owner returns the settled outcome and every
\* request that joined gets the same one: connect answers with it, ensureDriver
\* has its own continuation still to run.
OpenOwnerResumes(c) ==
  LET waits(d) == d = c \/ pc[d] = "joinedOpen"
      won == inflight.phase = "succeeded"
      outcome == IF won THEN "opened" ELSE "unopened"
      payload == IF won THEN "connected" ELSE "failed"
  IN  /\ pc[c] = "opening" /\ Settled(inflight) /\ inflight.owner = c
      /\ pc' = [d \in Callers |-> IF ~waits(d) THEN pc[d]
                                  ELSE IF op[d] = "connect" THEN "idle" ELSE outcome]
      /\ reply' = [d \in Callers |-> IF waits(d) /\ op[d] = "connect"
                                     THEN Outcome(d, payload, inflight.seen) ELSE reply[d]]
      /\ inflight' = NoFlight
      /\ UNCHANGED <<manager, refreshing, closer, op, turn, start, database>>

\* ensureDriver re-tests `driver' after its await: close() may have nulled it.
EnsureOpened(c) ==
  /\ pc[c] = "opened"
  /\ \/ driver /\ pc' = [pc EXCEPT ![c] = "ensured"] /\ UNCHANGED reply
     \/ ~driver /\ Answer(c, "failed", 0)
  /\ UNCHANGED <<manager, inflight, refreshing, closer, op, turn, start, database>>

EnsureFailed(c) ==
  /\ pc[c] = "unopened"
  /\ Answer(c, "failed", 0)
  /\ UNCHANGED <<manager, inflight, refreshing, closer, op, turn, start, database>>

-----------------------------------------------------------------------------
(* getSchema and the refresh it waits for.                                  *)

GetSchemaResumes(c) ==
  /\ pc[c] = "ensured" /\ op[c] = "getSchema"
  /\ RefreshLoop(c, 0, refreshing, pc)
  /\ UNCHANGED <<manager, inflight, closer, op, start, reply, database>>

RefreshLists ==
  /\ refreshing.phase = "listing"
  /\ refreshing' = [refreshing EXCEPT !.phase = "answered", !.seen = catalog]
  /\ UNCHANGED <<manager, inflight, closer, requests, database>>

\* Mutant of RefreshCommits: the generation is not compared.
CommitOvertaken ==
  /\ refreshing.phase = "answered"
  /\ IF closed THEN UNCHANGED <<cached, stale>>
     ELSE cached' = refreshing.seen /\ stale' = FALSE
  /\ refreshing' = [refreshing EXCEPT !.phase = "succeeded"]
  /\ UNCHANGED <<driver, generation, closed, inflight, closer, requests, database>>

\* The commit guard: an answer that an invalidation or close() overtook is dropped.
RefreshCommits ==
  /\ refreshing.phase = "answered"
  /\ \/ /\ generation = refreshing.gen /\ ~closed
        /\ cached' = refreshing.seen
        /\ stale' = FALSE
     \/ /\ generation # refreshing.gen \/ closed
        /\ UNCHANGED <<cached, stale>>
  /\ refreshing' = [refreshing EXCEPT !.phase = "succeeded"]
  /\ UNCHANGED <<driver, generation, closed, inflight, closer, requests, database>>

RefreshFails ==
  /\ refreshing.phase \in {"listing", "answered"}
  /\ refreshing' = [refreshing EXCEPT !.phase = "failed"]
  /\ UNCHANGED <<manager, inflight, closer, requests, database>>

\* Mutant of Released: the joiners are left waiting.
NobodyReleased(outcome) == pc

\* Those that joined a flight, once it is over: back to the loop, or rethrow.
Released(outcome) ==
  [d \in Callers |-> IF pc[d] = "joinedRefresh" THEN outcome ELSE pc[d]]

\* The owner clears its own flight and goes round its loop.
RefreshOwnerResumes(c) ==
  /\ pc[c] = "refreshing"
  /\ refreshing.phase = "succeeded" /\ refreshing.owner = c
  /\ RefreshLoop(c, turn[c] + 1, NoFlight, Released("rejoin"))
  /\ UNCHANGED <<manager, inflight, closer, op, start, reply, database>>

\* Mutant of RefreshOwnerThrows: the flight is cleared on success only.
OwnerThrowsLeavingFlight(c) ==
  /\ pc[c] = "refreshing"
  /\ refreshing.phase = "failed" /\ refreshing.owner = c
  /\ pc' = [Released("rejected") EXCEPT ![c] = "idle"]
  /\ reply' = [reply EXCEPT ![c] = Outcome(c, "failed", 0)]
  /\ UNCHANGED <<manager, inflight, refreshing, closer, op, turn, start, database>>

\* A failed introspection: connect's neutral payload, getSchema's throw.
RefreshOwnerThrows(c) ==
  /\ pc[c] = "refreshing"
  /\ refreshing.phase = "failed" /\ refreshing.owner = c
  /\ refreshing' = NoFlight
  /\ pc' = [Released("rejected") EXCEPT ![c] = "idle"]
  /\ reply' = [reply EXCEPT ![c] = Outcome(c, "failed", 0)]
  /\ UNCHANGED <<manager, inflight, closer, op, turn, start, database>>

\* Mutant of JoinerResumes: the joined flight's answer is taken as fresh.
JoinerTrustsFlight(c) ==
  /\ pc[c] = "rejoin"
  /\ pc' = [pc EXCEPT ![c] = "refreshed"]
  /\ UNCHANGED <<manager, inflight, refreshing, closer, op, turn, start, reply, database>>

JoinerResumes(c) ==
  /\ pc[c] = "rejoin"
  /\ RefreshLoop(c, turn[c] + 1, refreshing, pc)
  /\ UNCHANGED <<manager, inflight, closer, op, start, reply, database>>

JoinerThrows(c) ==
  /\ pc[c] = "rejected"
  /\ Answer(c, "failed", 0)
  /\ UNCHANGED <<manager, inflight, refreshing, closer, op, turn, start, database>>

\* connect re-reads `cached' after the await; null means close() came first.
ConnectAnswers(c) ==
  /\ pc[c] = "refreshed" /\ op[c] = "connect"
  /\ IF cached # 0 THEN Answer(c, "connected", cached) ELSE Answer(c, "failed", 0)
  /\ UNCHANGED <<manager, inflight, refreshing, closer, op, turn, start, database>>

\* getSchema reads the memo; without one it falls back to ensureDriver, which
\* throws after shutdown and otherwise would introspect outside the memo.
GetSchemaAnswers(c) ==
  /\ pc[c] = "refreshed" /\ op[c] = "getSchema"
  /\ IF cached # 0 THEN Answer(c, "schema", cached)
     ELSE IF closed THEN Answer(c, "failed", 0)
     ELSE pc' = [pc EXCEPT ![c] = "fallback"] /\ UNCHANGED reply
  /\ UNCHANGED <<manager, inflight, refreshing, closer, op, turn, start, database>>

-----------------------------------------------------------------------------
(* A statement the executor runs.                                           *)

StatementSent(c) ==
  /\ pc[c] = "ensured" /\ op[c] = "statement"
  /\ pc' = [pc EXCEPT ![c] = "querying"]
  /\ UNCHANGED <<manager, inflight, refreshing, closer, op, turn, start, reply, database>>

\* The database applies a statement that changes the catalog.
StatementApplied(c) ==
  /\ pc[c] = "querying"
  /\ closer # "done"                     \* a released driver reaches no server
  /\ catalog < MaxCatalog
  /\ catalog' = catalog + 1
  /\ ddl' = [ddl EXCEPT ![c] = catalog + 1]
  /\ pc' = [pc EXCEPT ![c] = "executed"]
  /\ UNCHANGED <<manager, inflight, refreshing, closer, op, turn, start, reply, acked>>

\* runQuery resolves: the executor invalidates the memo and replies.
StatementReturns(c) ==
  /\ pc[c] = "executed"
  /\ stale' = TRUE
  /\ generation' = generation + 1
  /\ acked' = IF ddl[c] > acked THEN ddl[c] ELSE acked
  /\ ddl' = [ddl EXCEPT ![c] = 0]
  /\ Answer(c, "ok", 0)
  /\ UNCHANGED <<driver, cached, closed, inflight, refreshing, closer, op, turn, start, catalog>>

\* runQuery throws, before or after the database applied the statement: the
\* executor never reaches invalidateSchema.
StatementThrows(c) ==
  /\ pc[c] \in {"querying", "executed"}
  /\ ddl' = [ddl EXCEPT ![c] = 0]
  /\ Answer(c, "failed", 0)
  /\ UNCHANGED <<manager, inflight, refreshing, closer, op, turn, start, catalog, acked>>

-----------------------------------------------------------------------------
(* close().                                                                 *)

\* From `const d = driver' on: no await separates the reads from the writes.
TearDown ==
  /\ driver' = FALSE
  /\ cached' = 0
  /\ closer' = IF driver THEN "releasing" ELSE "done"

\* Mutant of CloseBegins: flights are not awaited.
CloseAtOnce ==
  /\ closer = "none"
  /\ closed' = TRUE
  /\ TearDown
  /\ UNCHANGED <<stale, generation, inflight, refreshing, requests, database>>

CloseBegins ==
  /\ closer = "none"
  /\ closed' = TRUE
  /\ \/ /\ ~Idle(inflight)
        /\ closer' = "awaitOpen"
        /\ UNCHANGED <<driver, cached>>
     \/ /\ Idle(inflight) /\ ~Idle(refreshing)
        /\ closer' = "awaitRefresh"
        /\ UNCHANGED <<driver, cached>>
     \/ /\ Idle(inflight) /\ Idle(refreshing)
        /\ TearDown
  /\ UNCHANGED <<stale, generation, inflight, refreshing, requests, database>>

CloseAfterOpen ==
  /\ closer = "awaitOpen" /\ Idle(inflight)
  /\ \/ /\ ~Idle(refreshing)
        /\ closer' = "awaitRefresh"
        /\ UNCHANGED <<driver, cached>>
     \/ /\ Idle(refreshing)
        /\ TearDown
  /\ UNCHANGED <<stale, generation, closed, inflight, refreshing, requests, database>>

CloseAfterRefresh ==
  /\ closer = "awaitRefresh" /\ Idle(refreshing)
  /\ TearDown
  /\ UNCHANGED <<stale, generation, closed, inflight, refreshing, requests, database>>

CloseReleases ==
  /\ closer = "releasing"
  /\ closer' = "done"
  /\ UNCHANGED <<manager, inflight, refreshing, requests, database>>

-----------------------------------------------------------------------------

Begin(c) ==
  \/ \E o \in Ops : \/ BeginClosed(c, o)
                    \/ EnsureWithDriver(c, o)
                    \/ JoinOpen(c, o)
                    \/ StartOpen(c, o)
  \/ ConnectWithMemo(c)

\* The continuations of a request: the event loop runs each one that is due.
Resume(c) ==
  \/ OpenOwnerResumes(c) \/ EnsureOpened(c) \/ EnsureFailed(c)
  \/ GetSchemaResumes(c) \/ RefreshOwnerResumes(c) \/ RefreshOwnerThrows(c)
  \/ JoinerResumes(c) \/ JoinerThrows(c)
  \/ ConnectAnswers(c) \/ GetSchemaAnswers(c)
  \/ StatementSent(c) \/ StatementReturns(c)

\* The database and the driver: each await on them settles, one way or the other.
DatabaseOpens == OpenConnects \/ OpenLists \/ OpenCommits \/ OpenFails \/ OpenDiscards
DatabaseRefreshes == RefreshLists \/ RefreshCommits \/ RefreshFails
DatabaseRuns(c) == StatementApplied(c) \/ StatementThrows(c)

CloseProceeds == CloseAfterOpen \/ CloseAfterRefresh \/ CloseReleases

Next ==
  \/ \E c \in Callers : Begin(c) \/ Resume(c) \/ DatabaseRuns(c)
  \/ DatabaseOpens \/ DatabaseRefreshes
  \/ CloseBegins \/ CloseProceeds

Spec == Init /\ [][Next]_vars

\* What the code itself sees to.  The event loop is fair to every continuation
\* that is due; listSchema is cut off by INTROSPECTION_TIMEOUT_MS, a driver's
\* close() by its own timeout.  Nothing makes a request arrive or close() be called.
BoundedByCode ==
  /\ \A c \in Callers : WF_vars(Resume(c))
  /\ WF_vars(inflight.phase # "connecting" /\ DatabaseOpens)
  /\ WF_vars(DatabaseRefreshes)
  /\ WF_vars(CloseProceeds)

\* What it trusts the database for: nothing bounds the round trips of a driver's
\* connect() after the handshake, nor a statement.
DatabaseAnswers ==
  /\ WF_vars(DatabaseOpens)
  /\ \A c \in Callers : WF_vars(DatabaseRuns(c))

BoundedSpec == Spec /\ BoundedByCode
FairSpec == BoundedSpec /\ DatabaseAnswers

-----------------------------------------------------------------------------
(* Properties.                                                              *)

(* A memo that is not marked stale describes a catalog at least as new as   *)
(* every statement acknowledged so far: no invalidation is swallowed by an  *)
(* introspection that was already in flight (the lost update that           *)
(* schemaGeneration exists to close).                                       *)
NoLostInvalidation == cached # 0 /\ ~stale => cached >= acked

(* An answer older than a statement acknowledged before the call began is   *)
(* given only when refreshIfStale was outrun: an invalidation landed in each*)
(* of its turns but, at most, the first one it joined.  (Once close() has   *)
(* begun the loop stops and the last memo may still be served.)             *)
StaleAnswerWasOutrun ==
  \A c \in Callers :
    /\ reply[c].kind \in {"schema", "connected"}
    /\ reply[c].seen < start[c].acked
    /\ reply[c].side = "open"
    => reply[c].raced + 1 >= MaxRefreshTurns

(* One open and one re-introspection at a time: a request that believes it  *)
(* owns a flight owns the one the manager memoizes, so nobody overwrote it. *)
SingleFlight ==
  \A c \in Callers :
    /\ pc[c] = "opening" => inflight.phase # "none" /\ inflight.owner = c
    /\ pc[c] = "refreshing" => refreshing.phase # "none" /\ refreshing.owner = c

(* Once close() has finished nothing is left behind: no driver, no half-open*)
(* driver of an open in flight, no introspection over a released driver, and*)
(* no memo that a late answer resurrected.                                  *)
ClosedIsFinal ==
  closer = "done" => ~driver /\ cached = 0 /\ Idle(inflight) /\ Idle(refreshing)

(* The driver and the memo come and go together, so getSchema's defensive   *)
(* introspection outside the memo is never reached.                         *)
DriverHasMemo ==
  /\ driver <=> cached # 0
  /\ \A c \in Callers : pc[c] # "fallback"

(* Every request is answered, whatever fails and whoever closes.            *)
RequestsAnswered == \A c \in Callers : pc[c] # "idle" ~> pc[c] = "idle"

(* close() always gets to the end: it waits for flights, and never for one  *)
(* that waits for it.                                                       *)
CloseCompletes == closed ~> closer = "done"

(* Seen from its owner, a manager is a ManagedDriver: one physical connection*)
(* at a time, none opened once close() has begun, none left when it returns.  *)
(* An open in flight holds a connection until it is committed or discarded,   *)
(* and close() holds the one it took from `driver' until it is released.      *)
Physical ==
  IF inflight.phase \in {"connecting", "listing", "answered", "discarding"} THEN "opening"
  ELSE IF driver \/ closer = "releasing" THEN "open" ELSE "none"

Closing == IF ~closed THEN "no" ELSE IF closer = "done" THEN "done" ELSE "yes"

Owned == INSTANCE ManagedDriver WITH physical <- Physical, closing <- Closing

ImplementsManagedDriver == Owned!Spec

=============================================================================
