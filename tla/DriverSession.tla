---------------------------- MODULE DriverSession ----------------------------
(***************************************************************************)
(* A database driver: the statements of every tab, and the introspection   *)
(* of the schema, through one connection (src/src/core/driver.ts,          *)
(* driver-postgres.ts, driver-mysql.ts).  A read runs as three statements, *)
(* the middle one inside a read-only transaction; a write is one           *)
(* statement; an introspection is several, each an await of its own.  The  *)
(* MySQL driver keeps the first two apart with a mutex, the Postgres       *)
(* driver with a pool of one connection that a read reserves.              *)
(*                                                                         *)
(* The server is external: a session with at most one open transaction,    *)
(* which may be lost, and a catalog that others change.  What rows a query *)
(* returns, and the mapping of their types, are left out; so is the text   *)
(* of the statements, which RawScan is about.  A write is whatever         *)
(* statement the user has confirmed, BEGIN and COMMIT too: what it does to *)
(* the session's transaction is any of the things a statement can do.      *)
(***************************************************************************)
EXTENDS Naturals, SequencesExt

CONSTANTS Calls,          \* executions, each used once
          CatalogTables,  \* tables that may exist
          MaxDdl          \* bound: changes of the catalog

ASSUME DriverAssumption == MaxDdl \in Nat

VARIABLES
    engine,     \* the scheme of the URL: postgres or mysql
    driver,     \* new, connected, closed
    session,    \* the server session: alive, and the call that opened its transaction
    callQueue,  \* the mutex, or the pool's queue: the head may run
    calls,      \* each call: what it is and how far
    executed,   \* history: the last statement run, if any, with the transaction it ran in
    leftOpen,   \* history: calls that ended and left a transaction open
    catalog, ddls,  \* the server's tables, and how often they changed
    introspection,  \* listSchema: its next query, what each one read
    schemaRead      \* the schema assembled last: table -> what is known of it

driverVars == <<engine, driver, session, callQueue, calls, executed, leftOpen, catalog,
                ddls, introspection, schemaRead>>
callVars   == <<callQueue, calls, executed, leftOpen>>
schemaVars == <<catalog, ddls, introspection, schemaRead>>

NoTx    == "none"
NoCall  == [kind |-> "none", step |-> "unused"]
NoReads == [part \in {} |-> {}]

\* The queries of an introspection, in order.
Parts == IF engine = "postgres" THEN <<"columns", "keys", "indexes", "version", "foreignKeys">>
                                ELSE <<"columns", "keys", "indexes", "foreignKeys">>

DriverInit ==
    /\ engine \in {"postgres", "mysql"}
    /\ driver = "new"
    /\ session = [alive |-> FALSE, tx |-> NoTx]
    /\ callQueue = <<>> /\ calls = [c \in Calls |-> NoCall] /\ executed = {} /\ leftOpen = {}
    /\ catalog \in SUBSET CatalogTables /\ ddls = 0
    /\ introspection = [next |-> 0, reads |-> NoReads, waiting |-> FALSE]
    /\ schemaRead = NoReads

-----------------------------------------------------------------------------
(* The connection.                                                         *)

\* connect.  Which session modes its probe finds, or falls back to, matters to
\* RawScan only.
ConnectDriver ==
    /\ driver = "new"
    /\ driver' = "connected"
    /\ session' = [session EXCEPT !.alive = TRUE]
    /\ UNCHANGED <<engine, callVars, schemaVars>>

\* The server drops the session and the transaction open in it.
LoseSession ==
    /\ session.alive
    /\ session' = [alive |-> FALSE, tx |-> NoTx]
    /\ UNCHANGED <<engine, driver, callVars, schemaVars>>

\* A read has the connection to itself: Postgres reserves it in the pool.
Reserved == \E c \in Calls : calls[c].step \in {"begun", "ran"}

\* postgres.js opens a new session for the next query that asks its pool for
\* one; a MySQL connection is never opened again.
Reconnect ==
    /\ engine = "postgres" /\ driver = "connected" /\ ~session.alive /\ ~Reserved
    /\ session' = [session EXCEPT !.alive = TRUE]
    /\ UNCHANGED <<engine, driver, callVars, schemaVars>>

\* close: what runs may finish within the bound, then the session ends, as
\* LoseSession has it.
CloseDriver ==
    /\ driver = "connected"
    /\ driver' = "closed"
    /\ UNCHANGED <<engine, session, callVars, schemaVars>>

-----------------------------------------------------------------------------
(* Statements.                                                             *)

Step(c, step) == calls' = [calls EXCEPT ![c].step = step]

\* query and queryReadOnly, up to the mutex or the pool: the next execution,
\* whichever stands for it.
Call(c, kind) ==
    /\ driver = "connected" /\ calls[c] = NoCall
    /\ c = CHOOSE d \in Calls : calls[d] = NoCall
    /\ calls' = [calls EXCEPT ![c] = [kind |-> kind, step |-> "queued"]]
    /\ callQueue' = Append(callQueue, c)
    /\ UNCHANGED <<engine, driver, session, executed, leftOpen, schemaVars>>

\* Mutant of HasTurn: nothing keeps two calls apart.
HasTurnAlways(c) == c \in ToSet(callQueue)

\* createMutex, and the pool of one connection: first come, first served.
HasTurn(c) == callQueue # <<>> /\ c = Head(callQueue)

\* The turn of the head ends, whatever came of its call.
PassTurn == callQueue' = Tail(callQueue)

Execute(c, tx) == executed' = {[call |-> c, kind |-> calls[c].kind, tx |-> tx]}

\* The head of the queue meets a live session.
Served(c, kind) ==
    /\ HasTurn(c) /\ calls[c].kind = kind /\ calls[c].step = "queued" /\ session.alive
    /\ engine = "mysql" => driver = "connected"

\* The transaction open after a BEGIN of c: inside another one Postgres only
\* warns, while MySQL commits that one first.
Begun(c) == IF engine = "postgres" /\ session.tx # NoTx THEN session.tx ELSE c

\* A write, and its turn ends.  It may leave the session's transaction as it
\* is; end it (COMMIT, ROLLBACK, a statement that commits by itself); or leave
\* one of its own open (BEGIN, or any write once autocommit is switched off).
RunWrite(c) ==
    /\ Served(c, "write")
    /\ \E tx \in {session.tx, NoTx, Begun(c)} :
         /\ session' = [session EXCEPT !.tx = tx]
         /\ leftOpen' = leftOpen \cup ({tx} \cap {c})
         /\ Execute(c, IF tx = c THEN c ELSE session.tx)
    /\ Step(c, "settled") /\ PassTurn
    /\ UNCHANGED <<engine, driver, schemaVars>>

\* BEGIN READ ONLY, START TRANSACTION READ ONLY: from here on the transaction
\* that is open takes no writes.
BeginReadOnly(c) ==
    /\ Served(c, "read")
    /\ session' = [session EXCEPT !.tx = Begun(c)]
    /\ Step(c, "begun")
    /\ UNCHANGED <<engine, driver, callQueue, executed, leftOpen, schemaVars>>

\* The server refuses it, as Postgres does in a transaction that has failed.
\* Postgres is sent a ROLLBACK all the same, MySQL is not.
BeginFails(c) ==
    /\ Served(c, "read")
    /\ IF engine = "postgres" THEN Step(c, "ran") /\ UNCHANGED callQueue
                              ELSE Step(c, "settled") /\ PassTurn
    /\ UNCHANGED <<engine, driver, session, executed, leftOpen, schemaVars>>

\* The statement runs, or is refused by the server.
RunRead(c) ==
    /\ calls[c].step = "begun" /\ session.alive
    /\ Execute(c, session.tx) \/ UNCHANGED executed
    /\ Step(c, "ran")
    /\ UNCHANGED <<engine, driver, session, callQueue, leftOpen, schemaVars>>

\* Mutant of RollBack: a statement that was refused is not rolled back.
RollBackAfterRun(c) ==
    /\ calls[c].step = "ran" /\ session.alive
    /\ session' = IF \E e \in executed : e.call = c THEN [session EXCEPT !.tx = NoTx] ELSE session
    /\ Step(c, "settled") /\ PassTurn
    /\ UNCHANGED <<engine, driver, executed, leftOpen, schemaVars>>

\* Whatever transaction is open is rolled back, and the turn ends.
RollBack(c) ==
    /\ calls[c].step = "ran" /\ session.alive
    /\ session' = [session EXCEPT !.tx = NoTx]
    /\ Step(c, "settled") /\ PassTurn
    /\ UNCHANGED <<engine, driver, executed, leftOpen, schemaVars>>

\* The ROLLBACK fails and the session lives on: the error is swallowed.
RollBackFails(c) ==
    /\ calls[c].step = "ran" /\ session.alive
    /\ leftOpen' = leftOpen \cup ({session.tx} \ {NoTx})
    /\ Step(c, "settled") /\ PassTurn
    /\ UNCHANGED <<engine, driver, session, executed, schemaVars>>

\* Without a session, or after a close that took the connection away, a call
\* fails at whatever statement it has come to; its turn ends all the same.
CallFails(c) ==
    /\ HasTurn(c) /\ calls[c].step \in {"queued", "begun", "ran"}
    /\ \/ ~session.alive
       \/ driver = "closed" /\ (engine = "mysql" \/ calls[c].step = "queued")
    /\ Step(c, "settled") /\ PassTurn
    /\ UNCHANGED <<engine, driver, session, executed, leftOpen, schemaVars>>

-----------------------------------------------------------------------------
(* The schema.                                                             *)

ListSchema ==
    /\ driver = "connected" /\ introspection.next = 0
    /\ introspection' = [next |-> 1, reads |-> NoReads, waiting |-> TRUE]
    /\ UNCHANGED <<engine, driver, session, callVars, catalog, ddls, schemaRead>>

\* Another session creates or drops a table.
ChangeCatalog(t) ==
    /\ ddls < MaxDdl
    /\ ddls' = ddls + 1
    /\ catalog' = IF t \in catalog THEN catalog \ {t} ELSE catalog \cup {t}
    /\ UNCHANGED <<engine, driver, session, callVars, introspection, schemaRead>>

\* Mutant of AssembleSchema: an index, a key or a foreign key makes an entry.
AssembleEvery(reads) ==
    [t \in UNION {reads[part] : part \in DOMAIN reads} |->
       {part \in DOMAIN reads : t \in reads[part]}]

\* assembleSchema: a table is one whose columns were read; keys, indexes and
\* foreign keys of any other are skipped.
AssembleSchema(reads) ==
    [t \in reads["columns"] |-> {part \in DOMAIN reads : t \in reads[part]}]

\* One query of listSchema.  The pool keeps it out of a read's transaction; on
\* MySQL it may run inside one, which does not change what it reads.
ReadCatalog ==
    /\ introspection.next > 0 /\ session.alive
    /\ engine = "postgres" => ~Reserved
    /\ LET part  == Parts[introspection.next]
           reads == [p \in DOMAIN introspection.reads \cup {part} |->
                       IF p = part THEN IF part = "version" THEN {} ELSE catalog
                                   ELSE introspection.reads[p]]
           last  == introspection.next = Len(Parts)
       IN  /\ introspection' = [introspection EXCEPT !.next = IF last THEN 0 ELSE @ + 1,
                                                     !.reads = IF last THEN NoReads ELSE reads]
           /\ schemaRead' = IF last /\ introspection.waiting THEN AssembleSchema(reads) ELSE schemaRead
    /\ UNCHANGED <<engine, driver, session, callVars, catalog, ddls>>

\* withTimeout: the caller hears of a failure while the queries go on.
IntrospectionTimesOut ==
    /\ introspection.next > 0 /\ introspection.waiting
    /\ introspection' = [introspection EXCEPT !.waiting = FALSE]
    /\ UNCHANGED <<engine, driver, session, callVars, catalog, ddls, schemaRead>>

\* A query of it fails: the session is gone, or refuses it.
IntrospectionBreaks ==
    /\ introspection.next > 0
    /\ introspection' = [next |-> 0, reads |-> NoReads, waiting |-> FALSE]
    /\ UNCHANGED <<engine, driver, session, callVars, catalog, ddls, schemaRead>>

DriverNext ==
    \/ ConnectDriver \/ LoseSession \/ Reconnect \/ CloseDriver
    \/ \E c \in Calls :
         \/ \E kind \in {"read", "write"} : Call(c, kind)
         \/ RunWrite(c) \/ BeginReadOnly(c) \/ BeginFails(c) \/ RunRead(c)
         \/ RollBack(c) \/ RollBackFails(c) \/ CallFails(c)
    \/ ListSchema \/ ReadCatalog \/ IntrospectionTimesOut \/ IntrospectionBreaks
    \/ \E t \in CatalogTables : ChangeCatalog(t)

DriverSpec == DriverInit /\ [][DriverNext]_driverVars

-----------------------------------------------------------------------------

\* A read's statement runs in the read-only transaction of its own call, a
\* write outside any, and a session that nobody waits for has none open.  The
\* one thing that can come in between, of all the interleavings of two tabs, is
\* a transaction left open: by a confirmed statement, whose own writes and those
\* after it the ROLLBACK of the next Postgres read then undoes, or by a ROLLBACK
\* that failed, in which later writes are refused.  A MySQL read is in its own
\* even then.
StatementsAreScoped ==
    /\ \A e \in executed :
         e.tx \in CASE e.kind = "write" -> {NoTx} \cup leftOpen
                    [] e.kind = "read" /\ engine = "mysql" -> {e.call}
                    [] e.kind = "read" /\ engine = "postgres" -> {e.call} \cup leftOpen
    /\ driver = "connected" /\ callQueue = <<>> => session.tx \in {NoTx} \cup leftOpen

\* A schema read while others change the catalog may miss a key or an index,
\* but shows no table without columns.
NoTableWithoutColumns == \A t \in DOMAIN schemaRead : "columns" \in schemaRead[t]

\* The one session of a driver keeps its callers apart.
SessionIsShared == StatementsAreScoped /\ NoTableWithoutColumns

=============================================================================
