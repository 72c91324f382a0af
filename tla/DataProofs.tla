----------------------------- MODULE DataProofs -----------------------------
(***************************************************************************)
(* Theorems about the data a page shows: the statements and the session    *)
(* they run in, the reports, live and frozen, the data grid, the ERD and   *)
(* the schema tree, for texts of any length and any number of calls,       *)
(* reports, blocks, rows, tables and connections.                          *)
(***************************************************************************)
EXTENDS RawScan, DriverSession, ReportRuns, LiveReport, FrozenReport, TableTab,
        ErdLayout, SchemaTree, Integers, SequenceTheorems, FiniteSetTheorems,
        WellFoundedInduction, TLAPS

-----------------------------------------------------------------------------
(* DriverSession: the calls that share a session.                           *)

\* What the variables hold.
Steps == {"unused", "queued", "begun", "ran", "settled"}

CallStates == [kind : {"none", "read", "write"}, step : Steps]

PartNames == {"columns", "keys", "indexes", "version", "foreignKeys"}

Readings == UNION {[parts -> SUBSET CatalogTables] : parts \in SUBSET PartNames}

\* The types of the variables.
DriverTypeOK ==
    /\ engine \in {"postgres", "mysql"}
    /\ driver \in {"new", "connected", "closed"}
    /\ session \in [alive : BOOLEAN, tx : Calls \cup {NoTx}]
    /\ callQueue \in Seq(Calls)
    /\ calls \in [Calls -> CallStates]
    /\ catalog \subseteq CatalogTables
    /\ introspection \in [next : 0 .. Len(Parts), reads : Readings, waiting : BOOLEAN]

\* A read between its BEGIN and its ROLLBACK.
InTransaction(c) == calls[c].step \in {"begun", "ran"}

\* No transaction, or one that was left open.
NotHeld == {NoTx} \cup leftOpen

\* A read has begun in a transaction of its own, or, on Postgres, in one left
\* open; and the session's transaction is none, one left open, or that of the
\* read whose turn it is, unless a MySQL driver was closed under it.
TransactionsAreOwned ==
    /\ driver = "new" => callQueue = <<>> /\ session.tx = NoTx
    /\ \A c \in Calls : InTransaction(c) => HasTurn(c) /\ calls[c].kind = "read"
    /\ \A c \in Calls : calls[c].step = "begun" /\ session.alive =>
         session.tx = c \/ (engine = "postgres" /\ session.tx \in leftOpen)
    /\ ~session.alive => session.tx = NoTx
    /\ session.tx \in NotHeld
         \/ (\E c \in Calls : InTransaction(c) /\ session.tx = c)
         \/ (engine = "mysql" /\ driver = "closed")

\* The transactions a statement of a call may have run in.
Scope(e) ==
    CASE e.kind = "write" -> {NoTx} \cup leftOpen
      [] e.kind = "read" /\ engine = "mysql" -> {e.call}
      [] e.kind = "read" /\ engine = "postgres" -> {e.call} \cup leftOpen

\* Every statement ran in a transaction of its scope.
ExecutedIsScoped == \A e \in executed : e.kind \in {"read", "write"} /\ e.tx \in Scope(e)

\* The columns are the first part of the catalog that is read.
ColumnsAreReadFirst ==
    /\ introspection.next > 1 => "columns" \in DOMAIN introspection.reads
    /\ NoTableWithoutColumns

\* The inductive invariant.
DriverInv == DriverTypeOK /\ TransactionsAreOwned /\ ExecutedIsScoped /\ ColumnsAreReadFirst

\* The parts of a catalog, columns first.
LEMMA PartsAreNamed ==
    ASSUME engine \in {"postgres", "mysql"}
    PROVE  /\ Len(Parts) \in {4, 5} /\ Parts[1] = "columns"
           /\ \A i \in 1 .. Len(Parts) : Parts[i] \in PartNames
  BY DEF Parts, PartNames

\* Nothing read is a reading.
LEMMA NoReadsIsReading == NoReads \in Readings /\ DOMAIN NoReads = {}
<1>1. NoReads \in [{} -> SUBSET CatalogTables]
  BY DEF NoReads
<1> QED
  BY <1>1 DEF Readings

\* Nothing is queued or open at first.
LEMMA DriverInvInit == DriverInit => DriverInv
<1> SUFFICES ASSUME DriverInit PROVE DriverInv
  OBVIOUS
<1>1. DriverTypeOK
  <2>1. calls \in [Calls -> CallStates]
    BY DEF DriverInit, NoCall, CallStates, Steps
  <2>2. introspection \in [next : 0 .. Len(Parts), reads : Readings, waiting : BOOLEAN]
    BY PartsAreNamed, NoReadsIsReading DEF DriverInit
  <2> QED
    BY <2>1, <2>2, EmptySeq DEF DriverInit, DriverTypeOK
<1>2. TransactionsAreOwned /\ ExecutedIsScoped
  BY DEF DriverInit, TransactionsAreOwned, ExecutedIsScoped, InTransaction, NoCall, NotHeld
<1>3. ColumnsAreReadFirst
  BY NoReadsIsReading DEF DriverInit, ColumnsAreReadFirst, NoTableWithoutColumns
<1> QED
  BY <1>1, <1>2, <1>3 DEF DriverInv

\* Only the call whose turn it is can be in a transaction.
LEMMA OneInTransaction ==
    ASSUME DriverInv, NEW c \in Calls, NEW d \in Calls, HasTurn(c), InTransaction(d)
    PROVE  c = d
  BY DEF DriverInv, TransactionsAreOwned, HasTurn

\* A call that begins finds the session free, but for a transaction left open.
LEMMA QueuedFindsNoTx ==
    ASSUME DriverInv, NEW c \in Calls, HasTurn(c), calls[c].step = "queued",
           engine = "mysql" => driver = "connected"
    PROVE  session.tx \in NotHeld
  BY OneInTransaction DEF DriverInv, TransactionsAreOwned, InTransaction

\* A transaction left open stays in every scope it was in.
LEMMA ScopesGrow ==
    ASSUME DriverInv, leftOpen \subseteq leftOpen', engine' = engine, executed' = executed
    PROVE  ExecutedIsScoped'
<1> SUFFICES ASSUME NEW e \in executed PROVE e.kind \in {"read", "write"} /\ e.tx \in Scope(e)'
  BY DEF ExecutedIsScoped
<1>1. e.kind \in {"read", "write"} /\ e.tx \in Scope(e) /\ engine \in {"postgres", "mysql"}
  BY DEF DriverInv, ExecutedIsScoped, DriverTypeOK
<1> QED
  BY <1>1 DEF Scope

\* A statement that runs in its scope keeps the record scoped.
LEMMA ExecuteIsScoped ==
    ASSUME DriverInv, leftOpen \subseteq leftOpen', engine' = engine,
           NEW c \in Calls, calls[c].kind \in {"read", "write"}, NEW tx, Execute(c, tx),
           calls[c].kind = "write" => tx \in NotHeld',
           calls[c].kind = "read" => tx = c \/ (engine = "postgres" /\ tx \in leftOpen')
    PROVE  ExecutedIsScoped'
<1> SUFFICES ASSUME NEW e \in executed' PROVE e.kind \in {"read", "write"} /\ e.tx \in Scope(e)'
  BY DEF ExecutedIsScoped
<1>1. e = [call |-> c, kind |-> calls[c].kind, tx |-> tx]
  BY DEF Execute
<1>2. e.kind = calls[c].kind /\ e.call = c /\ e.tx = tx /\ engine \in {"postgres", "mysql"}
  BY <1>1 DEF DriverInv, DriverTypeOK
<1> QED
  BY <1>2 DEF Scope, NotHeld

\* The queue without its first call is a queue.
LEMMA TailIsQueue ==
    ASSUME DriverInv, callQueue # <<>> PROVE Tail(callQueue) \in Seq(Calls)
  BY HeadTailProperties DEF DriverInv, DriverTypeOK

\* A step changes one call.
LEMMA StepOfCall ==
    ASSUME DriverInv, NEW c \in Calls, NEW step \in Steps, Step(c, step)
    PROVE  /\ calls' \in [Calls -> CallStates] /\ calls'[c].step = step /\ calls'[c].kind = calls[c].kind
           /\ \A d \in Calls \ {c} : calls'[d] = calls[d]
  BY DEF DriverInv, DriverTypeOK, Step, CallStates

\* A call that settles gives its turn away, with no transaction of its own
\* left, unless its end left one open.
LEMMA SettledStep ==
    ASSUME DriverInv, NEW c \in Calls, HasTurn(c), Step(c, "settled"), PassTurn,
           session' \in [alive : BOOLEAN, tx : Calls \cup {NoTx}],
           session'.tx \in NotHeld' \/ (engine = "mysql" /\ driver = "closed"),
           ~session'.alive => session'.tx = NoTx,
           ExecutedIsScoped', UNCHANGED <<engine, driver, schemaVars>>
    PROVE  DriverInv'
<1>1. /\ calls' \in [Calls -> CallStates] /\ calls'[c].step = "settled"
      /\ \A d \in Calls \ {c} : calls'[d] = calls[d]
  BY StepOfCall DEF Steps
<1>2. callQueue' \in Seq(Calls)
  BY TailIsQueue DEF PassTurn, HasTurn
<1>3. \A d \in Calls : ~InTransaction(d)'
  BY <1>1, OneInTransaction DEF InTransaction
<1>4. TransactionsAreOwned'
  BY <1>3 DEF TransactionsAreOwned, DriverInv, HasTurn, InTransaction
<1>5. ColumnsAreReadFirst'
  BY DEF DriverInv, ColumnsAreReadFirst, NoTableWithoutColumns, schemaVars
<1>6. DriverTypeOK'
  BY <1>1, <1>2 DEF DriverInv, DriverTypeOK, schemaVars, Parts
<1> QED
  BY <1>4, <1>5, <1>6 DEF DriverInv

\* A call that goes on in its turn, with the transaction it runs in.
LEMMA HeldStep ==
    ASSUME DriverInv, NEW c \in Calls, NEW step \in {"begun", "ran"}, HasTurn(c), Step(c, step),
           calls[c].kind = "read", calls[c].step \in {"queued", "begun"},
           session' \in [alive : BOOLEAN, tx : Calls \cup {NoTx}], session.alive, session'.alive,
           session'.tx \in NotHeld \/ session'.tx = c,
           step = "begun" => session'.tx = c \/ (engine = "postgres" /\ session'.tx \in leftOpen),
           ExecutedIsScoped', UNCHANGED <<engine, driver, callQueue, leftOpen, schemaVars>>
    PROVE  DriverInv'
<1>1. /\ calls' \in [Calls -> CallStates] /\ calls'[c].step = step /\ calls'[c].kind = "read"
      /\ \A d \in Calls \ {c} : calls'[d] = calls[d]
  BY StepOfCall DEF Steps
<1>2. \A d \in Calls : InTransaction(d)' <=> d = c
  BY <1>1, OneInTransaction DEF InTransaction
<1>3. \A d \in Calls : calls'[d].step = "begun" => d = c
  BY <1>2 DEF InTransaction
<1>4. TransactionsAreOwned'
  <2>1. driver # "new"
    BY DEF DriverInv, TransactionsAreOwned, HasTurn
  <2>2. session'.tx \in NotHeld' \/ (\E d \in Calls : InTransaction(d)' /\ session'.tx = d)
    BY <1>2 DEF NotHeld
  <2> QED
    BY <1>1, <1>2, <1>3, <2>1, <2>2 DEF TransactionsAreOwned, HasTurn, InTransaction
<1>5. ColumnsAreReadFirst'
  BY DEF DriverInv, ColumnsAreReadFirst, NoTableWithoutColumns, schemaVars
<1>6. DriverTypeOK'
  BY <1>1 DEF DriverInv, DriverTypeOK, schemaVars, Parts
<1> QED
  BY <1>4, <1>5, <1>6 DEF DriverInv

\* The steps of a call.
CallStep(c) == \/ RunWrite(c) \/ BeginReadOnly(c) \/ BeginFails(c) \/ RunRead(c)
               \/ RollBack(c) \/ RollBackFails(c) \/ CallFails(c)

\* The steps of a call keep the invariant.
LEMMA StatementStep ==
    ASSUME DriverInv, NEW c \in Calls, CallStep(c)
    PROVE  DriverInv'
<1>0. session \in [alive : BOOLEAN, tx : Calls \cup {NoTx}] /\ engine \in {"postgres", "mysql"}
  BY DEF DriverInv, DriverTypeOK
<1>1. CASE RunWrite(c)
  <2>1. session.tx \in NotHeld /\ HasTurn(c) /\ calls[c].kind = "write" /\ session.alive
    BY <1>1, QueuedFindsNoTx DEF RunWrite, Served
  <2>2. PICK tx \in {session.tx, NoTx, Begun(c)} :
          /\ session' = [session EXCEPT !.tx = tx]
          /\ leftOpen' = leftOpen \cup ({tx} \cap {c})
          /\ Execute(c, IF tx = c THEN c ELSE session.tx)
    BY <1>1 DEF RunWrite
  <2>3. /\ session' \in [alive : BOOLEAN, tx : Calls \cup {NoTx}]
        /\ session'.tx = tx /\ session'.alive /\ tx \in NotHeld'
    BY <1>0, <2>1, <2>2 DEF Begun, NotHeld
  <2>4. leftOpen \subseteq leftOpen' /\ (IF tx = c THEN c ELSE session.tx) \in NotHeld'
    BY <2>1, <2>2 DEF NotHeld
  <2>5. engine' = engine /\ UNCHANGED <<engine, driver, schemaVars>> /\ Step(c, "settled") /\ PassTurn
    BY <1>1 DEF RunWrite
  <2>6. ExecutedIsScoped'
    BY <2>1, <2>2, <2>4, <2>5, ExecuteIsScoped
  <2> QED
    BY <2>1, <2>3, <2>5, <2>6, SettledStep
<1>2. CASE BeginReadOnly(c)
  <2>1. session.tx \in NotHeld /\ HasTurn(c) /\ calls[c].kind = "read" /\ session.alive
        /\ calls[c].step = "queued"
    BY <1>2, QueuedFindsNoTx DEF BeginReadOnly, Served
  <2>2. /\ session' \in [alive : BOOLEAN, tx : Calls \cup {NoTx}] /\ session'.alive
        /\ session'.tx = Begun(c) /\ Begun(c) \in Calls \cup {NoTx}
    BY <1>0, <1>2, <2>1 DEF BeginReadOnly, Begun
  <2>3. Begun(c) = c \/ (engine = "postgres" /\ Begun(c) \in leftOpen)
    BY <1>0, <2>1 DEF Begun, NotHeld
  <2>4. ExecutedIsScoped'
    BY <1>2, ScopesGrow DEF BeginReadOnly
  <2> QED
    BY <1>2, <2>1, <2>2, <2>3, <2>4, HeldStep DEF BeginReadOnly, NotHeld
<1>3. CASE BeginFails(c)
  <2>1. session.tx \in NotHeld /\ HasTurn(c) /\ calls[c].kind = "read" /\ session.alive
        /\ calls[c].step = "queued"
    BY <1>3, QueuedFindsNoTx DEF BeginFails, Served
  <2>2. /\ ExecutedIsScoped' /\ session' = session /\ NotHeld' = NotHeld
        /\ UNCHANGED <<engine, driver, leftOpen, schemaVars>>
    BY <1>3, ScopesGrow DEF BeginFails, NotHeld
  <2>3. CASE engine = "postgres"
    <3>1. Step(c, "ran") /\ callQueue' = callQueue
      BY <1>3, <2>3 DEF BeginFails
    <3> QED
      BY <1>0, <2>1, <2>2, <3>1, HeldStep
  <2>4. CASE engine # "postgres"
    <3>1. Step(c, "settled") /\ PassTurn
      BY <1>3, <2>4 DEF BeginFails
    <3> QED
      BY <1>0, <2>1, <2>2, <3>1, SettledStep
  <2> QED
    BY <2>3, <2>4
<1>4. CASE RunRead(c)
  <2>1. /\ HasTurn(c) /\ calls[c].kind = "read" /\ session.alive /\ calls[c].step = "begun"
        /\ session.tx = c \/ (engine = "postgres" /\ session.tx \in leftOpen)
    BY <1>4 DEF RunRead, InTransaction, DriverInv, TransactionsAreOwned
  <2>2. ExecutedIsScoped'
    <3>1. CASE executed' = executed
      BY <1>4, <3>1, ScopesGrow DEF RunRead
    <3>2. CASE Execute(c, session.tx)
      <4>1. leftOpen' = leftOpen /\ engine' = engine
        BY <1>4 DEF RunRead
      <4> QED
        BY <2>1, <3>2, <4>1, ExecuteIsScoped
    <3> QED
      BY <1>4, <3>1, <3>2 DEF RunRead
  <2>3. session' = session /\ UNCHANGED <<engine, driver, callQueue, leftOpen, schemaVars>>
        /\ Step(c, "ran")
    BY <1>4 DEF RunRead
  <2>4. session.tx \in NotHeld \/ session.tx = c
    BY <2>1 DEF NotHeld
  <2> QED
    BY <1>0, <2>1, <2>2, <2>3, <2>4, HeldStep
<1>5. CASE RollBack(c)
  <2>1. HasTurn(c)
    BY <1>5 DEF RollBack, DriverInv, TransactionsAreOwned, InTransaction
  <2>2. session' \in [alive : BOOLEAN, tx : Calls \cup {NoTx}] /\ session'.tx = NoTx
    BY <1>0, <1>5 DEF RollBack
  <2>3. ExecutedIsScoped' /\ session'.tx \in NotHeld'
    BY <1>5, <2>2, ScopesGrow DEF RollBack, NotHeld
  <2> QED
    BY <1>5, <2>1, <2>2, <2>3, SettledStep DEF RollBack
<1>6. CASE RollBackFails(c)
  <2>1. HasTurn(c)
    BY <1>6 DEF RollBackFails, DriverInv, TransactionsAreOwned, InTransaction
  <2>2. ExecutedIsScoped' /\ session' = session /\ session'.tx \in NotHeld' /\ session'.alive
    BY <1>6, ScopesGrow DEF RollBackFails, NotHeld
  <2> QED
    BY <1>0, <1>6, <2>1, <2>2, SettledStep DEF RollBackFails
<1>7. CASE CallFails(c)
  <2>1. session.tx \in NotHeld \/ (engine = "mysql" /\ driver = "closed")
    BY <1>7, OneInTransaction DEF CallFails, DriverInv, TransactionsAreOwned, InTransaction, NotHeld
  <2>2. ExecutedIsScoped' /\ session' = session /\ NotHeld' = NotHeld
    BY <1>7, ScopesGrow DEF CallFails, NotHeld
  <2>3. ~session.alive => session.tx = NoTx
    BY DEF DriverInv, TransactionsAreOwned
  <2> QED
    BY <1>0, <1>7, <2>1, <2>2, <2>3, SettledStep DEF CallFails
<1> QED
  BY <1>1, <1>2, <1>3, <1>4, <1>5, <1>6, <1>7 DEF CallStep

\* Reading one more part of the catalog.
LEMMA ReadCatalogStep ==
    ASSUME DriverInv, ReadCatalog
    PROVE  /\ introspection' \in [next : 0 .. Len(Parts), reads : Readings, waiting : BOOLEAN]
           /\ ColumnsAreReadFirst'
<1> DEFINE n == introspection.next
           part == Parts[n]
           reads == [p \in DOMAIN introspection.reads \cup {part} |->
                       IF p = part THEN IF part = "version" THEN {} ELSE catalog
                                   ELSE introspection.reads[p]]
<1>1. /\ n \in 1 .. Len(Parts) /\ Len(Parts) \in {4, 5} /\ part \in PartNames
      /\ n = 1 => part = "columns"
  BY PartsAreNamed DEF ReadCatalog, DriverInv, DriverTypeOK
<1>2. PICK ps \in SUBSET PartNames : introspection.reads \in [ps -> SUBSET CatalogTables]
  BY DEF DriverInv, DriverTypeOK, Readings
<1>3. reads \in [ps \cup {part} -> SUBSET CatalogTables]
  BY <1>1, <1>2 DEF DriverInv, DriverTypeOK
<1>4. reads \in Readings
  <2>1. ps \cup {part} \in SUBSET PartNames
    BY <1>1
  <2> HIDE DEF reads
  <2> QED
    BY <1>3, <2>1, Zenon DEF Readings
<1>5. "columns" \in DOMAIN reads
  BY <1>1, <1>2 DEF DriverInv, ColumnsAreReadFirst
<1>6. /\ introspection' = [introspection EXCEPT !.next = IF n = Len(Parts) THEN 0 ELSE n + 1,
                                                !.reads = IF n = Len(Parts) THEN NoReads ELSE reads]
      /\ schemaRead' = IF n = Len(Parts) /\ introspection.waiting THEN AssembleSchema(reads) ELSE schemaRead
  BY DEF ReadCatalog
<1> HIDE DEF reads, part
<1> DEFINE next == IF n = Len(Parts) THEN 0 ELSE n + 1
           kept == IF n = Len(Parts) THEN NoReads ELSE reads
<1>7. next \in 0 .. Len(Parts) /\ kept \in Readings /\ (next > 1 => kept = reads)
  BY <1>1, <1>4, NoReadsIsReading
<1>10. introspection' = [introspection EXCEPT !.next = next, !.reads = kept]
  BY <1>6
<1>11. introspection \in [next : 0 .. Len(Parts), reads : Readings, waiting : BOOLEAN]
  BY DEF DriverInv, DriverTypeOK
<1> HIDE DEF next, kept
<1>12. /\ introspection' \in [next : 0 .. Len(Parts), reads : Readings, waiting : BOOLEAN]
       /\ introspection'.next > 1 => introspection'.reads = reads
  BY <1>7, <1>10, <1>11
<1>8. \A t \in DOMAIN AssembleSchema(reads) : "columns" \in AssembleSchema(reads)[t]
  BY <1>5 DEF AssembleSchema
<1>9. NoTableWithoutColumns'
  BY <1>6, <1>8 DEF NoTableWithoutColumns, DriverInv, ColumnsAreReadFirst
<1> QED
  BY <1>5, <1>9, <1>12 DEF ColumnsAreReadFirst

\* Every step keeps the invariant.
LEMMA DriverStep ==
    ASSUME DriverInv, [DriverNext]_driverVars
    PROVE  DriverInv'
<1> USE DEF DriverInv
<1>1. CASE UNCHANGED driverVars
  BY <1>1 DEF driverVars, DriverTypeOK, TransactionsAreOwned, InTransaction, HasTurn, NotHeld, ExecutedIsScoped,
     Scope, ColumnsAreReadFirst, NoTableWithoutColumns, Parts
<1>2. ASSUME ConnectDriver PROVE DriverInv'
  <2>1. session' \in [alive : BOOLEAN, tx : Calls \cup {NoTx}] /\ session'.tx = session.tx /\ session'.alive
    BY <1>2 DEF ConnectDriver, DriverTypeOK
  <2>2. DriverTypeOK'
    BY <1>2, <2>1 DEF ConnectDriver, DriverTypeOK, Parts, callVars, schemaVars
  <2>3. session.tx = NoTx /\ callQueue = <<>>
    BY <1>2 DEF ConnectDriver, TransactionsAreOwned
  <2>4. \A c \in Calls : ~InTransaction(c)
    BY <2>3 DEF TransactionsAreOwned, HasTurn
  <2> QED
    BY <1>2, <2>1, <2>2, <2>3, <2>4 DEF ConnectDriver, TransactionsAreOwned, InTransaction, HasTurn, NotHeld, Scope,
       ExecutedIsScoped, ColumnsAreReadFirst, NoTableWithoutColumns, callVars, schemaVars
<1>3. CASE LoseSession
  <2>1. session' \in [alive : BOOLEAN, tx : Calls \cup {NoTx}] /\ session'.tx = NoTx /\ ~session'.alive
    BY <1>3 DEF LoseSession
  <2>2. DriverTypeOK'
    BY <1>3, <2>1 DEF LoseSession, DriverTypeOK, Parts, callVars, schemaVars
  <2> QED
    BY <1>3, <2>1, <2>2 DEF LoseSession, TransactionsAreOwned, InTransaction, HasTurn, NotHeld, Scope,
       ExecutedIsScoped, ColumnsAreReadFirst, NoTableWithoutColumns, callVars, schemaVars
<1>4. CASE Reconnect
  <2>1. session' \in [alive : BOOLEAN, tx : Calls \cup {NoTx}] /\ session'.tx = NoTx /\ session'.alive
    BY <1>4 DEF Reconnect, DriverTypeOK, TransactionsAreOwned
  <2>2. DriverTypeOK'
    BY <1>4, <2>1 DEF Reconnect, DriverTypeOK, Parts, callVars, schemaVars
  <2> QED
    BY <1>4, <2>1, <2>2 DEF Reconnect, Reserved, TransactionsAreOwned, InTransaction, HasTurn, NotHeld, Scope,
       ExecutedIsScoped, ColumnsAreReadFirst, NoTableWithoutColumns, callVars, schemaVars
<1>5. CASE CloseDriver
  <2>1. DriverTypeOK'
    BY <1>5 DEF CloseDriver, DriverTypeOK, Parts, callVars, schemaVars
  <2> QED
    BY <1>5, <2>1 DEF CloseDriver, TransactionsAreOwned, InTransaction, HasTurn, NotHeld, Scope,
       ExecutedIsScoped, ColumnsAreReadFirst, NoTableWithoutColumns, callVars, schemaVars
<1>6. ASSUME NEW c \in Calls, NEW kind \in {"read", "write"}, Call(c, kind) PROVE DriverInv'
  <2>1. /\ calls' \in [Calls -> CallStates] /\ calls'[c].step = "queued" /\ calls[c].step = "unused"
        /\ \A d \in Calls \ {c} : calls'[d] = calls[d]
    BY <1>6 DEF Call, DriverTypeOK, CallStates, Steps, NoCall
  <2>2. callQueue' \in Seq(Calls) /\ callQueue' # <<>> /\ (callQueue # <<>> => Head(callQueue') = Head(callQueue))
    BY <1>6 DEF Call, DriverTypeOK
  <2>3. \A d \in Calls : InTransaction(d)' <=> InTransaction(d)
    BY <2>1 DEF InTransaction
  <2>4. TransactionsAreOwned'
    <3>1. \A d \in Calls : calls'[d].step = "begun" => calls[d].step = "begun"
      BY <2>1
    <3>2. \A d \in Calls : InTransaction(d) => HasTurn(d)' /\ calls'[d].kind = "read"
      BY <2>1, <2>2 DEF TransactionsAreOwned, HasTurn, InTransaction
    <3>3. UNCHANGED <<engine, driver, session, leftOpen>> /\ driver # "new"
      BY <1>6 DEF Call
    <3>4. session.tx \in NotHeld' \/ (\E d \in Calls : InTransaction(d)' /\ session.tx = d)
            \/ (engine = "mysql" /\ driver = "closed")
      BY <2>3, <3>3 DEF TransactionsAreOwned, NotHeld
    <3> QED
      BY <2>3, <3>1, <3>2, <3>3, <3>4 DEF TransactionsAreOwned
  <2> QED
    BY <1>6, <2>1, <2>2, <2>4 DEF Call, DriverTypeOK, schemaVars, Parts, NotHeld, Scope, ExecutedIsScoped,
       ColumnsAreReadFirst, NoTableWithoutColumns
<1>7. ASSUME NEW c \in Calls, CallStep(c) PROVE DriverInv'
  BY <1>7, StatementStep
<1>8. CASE ListSchema
  <2>1. introspection' \in [next : 0 .. Len(Parts), reads : Readings, waiting : BOOLEAN] /\ introspection'.next = 1
    BY <1>8, PartsAreNamed, NoReadsIsReading DEF ListSchema, DriverTypeOK
  <2>2. TransactionsAreOwned' /\ ExecutedIsScoped'
    BY <1>8 DEF ListSchema, TransactionsAreOwned, InTransaction, HasTurn, NotHeld, Scope,
       ExecutedIsScoped, callVars
  <2> QED
    BY <1>8, <2>1, <2>2 DEF ListSchema, DriverTypeOK, ColumnsAreReadFirst, NoTableWithoutColumns, Parts, callVars
<1>9. CASE ReadCatalog
  <2>1. DriverTypeOK'
    BY <1>9, ReadCatalogStep DEF ReadCatalog, DriverTypeOK, callVars, Parts
  <2> QED
    BY <1>9, <2>1, ReadCatalogStep DEF ReadCatalog, TransactionsAreOwned, InTransaction, HasTurn, NotHeld, Scope,
       ExecutedIsScoped, callVars
<1>10. CASE IntrospectionTimesOut
  <2>1. /\ introspection' \in [next : 0 .. Len(Parts), reads : Readings, waiting : BOOLEAN]
        /\ introspection'.next = introspection.next /\ introspection'.reads = introspection.reads
    BY <1>10 DEF IntrospectionTimesOut, DriverTypeOK
  <2> QED
    BY <1>10, <2>1 DEF IntrospectionTimesOut, DriverTypeOK, TransactionsAreOwned, InTransaction, HasTurn, NotHeld, Scope,
       ExecutedIsScoped, ColumnsAreReadFirst, NoTableWithoutColumns, Parts, callVars
<1>11. CASE IntrospectionBreaks
  <2>1. introspection' \in [next : 0 .. Len(Parts), reads : Readings, waiting : BOOLEAN] /\ introspection'.next = 0
    BY <1>11, PartsAreNamed, NoReadsIsReading DEF IntrospectionBreaks, DriverTypeOK
  <2>2. TransactionsAreOwned' /\ ExecutedIsScoped'
    BY <1>11 DEF IntrospectionBreaks, TransactionsAreOwned, InTransaction, HasTurn, NotHeld, Scope,
       ExecutedIsScoped, callVars
  <2> QED
    BY <1>11, <2>1, <2>2 DEF IntrospectionBreaks, DriverTypeOK, ColumnsAreReadFirst, NoTableWithoutColumns, Parts, callVars
<1>12. ASSUME NEW t \in CatalogTables, ChangeCatalog(t) PROVE DriverInv'
  BY <1>12 DEF ChangeCatalog, DriverTypeOK, TransactionsAreOwned, InTransaction, HasTurn, NotHeld, Scope,
     ExecutedIsScoped, ColumnsAreReadFirst, NoTableWithoutColumns, Parts, callVars
<1> QED
  BY <1>1, <1>2, <1>3, <1>4, <1>5, <1>6, <1>7, <1>8, <1>9, <1>10, <1>11, <1>12 DEF DriverNext, CallStep

\* In the session that all calls of a driver share, whatever fails or closes: a
\* read's statement runs in the transaction of its own call and a write in
\* none, but for transactions that a confirmed statement or a failed ROLLBACK
\* left open, which a MySQL read does not run in either; none but those is
\* open once nobody waits; and no table is shown without columns.
THEOREM SessionHolds == DriverSpec => []SessionIsShared
<1>1. DriverInit => DriverInv
  BY DriverInvInit
<1>2. DriverInv /\ [DriverNext]_driverVars => DriverInv'
  BY DriverStep
<1>3. DriverInv => SessionIsShared
  BY DEF DriverInv, SessionIsShared, StatementsAreScoped, ExecutedIsScoped, Scope, ColumnsAreReadFirst,
     TransactionsAreOwned, HasTurn, NotHeld, InTransaction
<1> QED
  BY <1>1, <1>2, <1>3, PTL DEF DriverSpec

-----------------------------------------------------------------------------
(* ReportRuns: the blocks of a report and their runs.                       *)

\* A block and a statement in flight, by their fields.
IsBlock(b) == b = [sql |-> b.sql, shown |-> b.shown]

IsSent(q) ==
    q = [id |-> q.id, gen |-> q.gen, sql |-> q.sql, target |-> q.target, confirmed |-> q.confirmed,
         mounted |-> q.mounted, latest |-> q.latest, ids |-> q.ids, seenTarget |-> q.seenTarget]

\* The types of the variables; what was not added yet has no run.
ReportTypeOK ==
    /\ reportNext \in Nat \ {0} /\ reportTarget \in Targets /\ reportShown \in BOOLEAN
    /\ DOMAIN reportBlocks \subseteq {id \in BlockIds : id < reportNext}
    /\ \A id \in DOMAIN reportBlocks : IsBlock(reportBlocks[id]) /\ reportBlocks[id].sql \in Statements
    /\ DOMAIN blockRuns = BlockIds /\ DOMAIN rendered = BlockIds /\ runGen \in [BlockIds -> Nat]
    /\ due \in [BlockIds -> Targets \cup {NothingDue}]
    /\ \A q \in reportWire : IsSent(q) /\ q.id \in BlockIds /\ q.id < reportNext
                             /\ q.gen \in Nat /\ q.mounted \in BOOLEAN /\ q.sql \in Statements
    /\ \A id \in BlockIds : id >= reportNext => blockRuns[id] = IdleRun /\ due[id] = NothingDue

\* The run of a block that its view waits for.
Newest(q, id) == q \in reportWire /\ q.mounted /\ q.id = id /\ q.gen = runGen[id]

\* Runs of a block are numbered in the order they were sent.
RunsAreNumbered ==
    /\ \A q \in reportWire : q.mounted => reportShown /\ q.gen <= runGen[q.id]
    /\ \A q, p \in reportWire : q.mounted /\ p.mounted /\ q.id = p.id /\ q.gen = p.gen => q = p

\* A preview that waits is one the author was shown.
PreviewsWereShown ==
    \A id \in BlockIds : blockRuns[id].state = "confirm" =>
      /\ reportShown
      /\ blockRuns[id] \in previews /\ blockRuns[id].sql \in Statements
      /\ blockRuns[id] = Preview(blockRuns[id].sql, blockRuns[id].target)

\* What a block draws of its run is that run, or that it was busy.
DrawnRuns ==
    \A id \in BlockIds :
      /\ rendered[id] = Drawn(rendered[id].run, rendered[id].rows)
      /\ rendered[id].run \in {blockRuns[id], BusyRun}
      /\ blockRuns[id] \in {IdleRun, BusyRun} \/ blockRuns[id].state = "confirm"
      /\ blockRuns[id] # IdleRun => reportShown

\* What a block owes comes with its newest run, or has come.
DueComes ==
    \A id \in DOMAIN reportBlocks : due[id] # NothingDue =>
      /\ reportShown /\ due[id] = reportTarget
      /\ \/ \E q \in reportWire : Newest(q, id) /\ q.target = due[id]
         \/ reportBlocks[id].shown.kind # "none" /\ reportBlocks[id].shown.target = due[id]

\* A block is busy while its newest run is in flight, and longer when a row of
\* it was clicked before the reply was drawn.
RunsAreBusy ==
    \A id \in DOMAIN reportBlocks :
      /\ (\E q \in reportWire : Newest(q, id)) => blockRuns[id].state = "busy"
      /\ blockRuns[id].state = "busy" => (\E q \in reportWire : Newest(q, id)) \/ id \in clickedLate

\* The inductive invariant.
ReportInv ==
    /\ ReportTypeOK /\ RunsAreNumbered /\ PreviewsWereShown /\ DueComes
    /\ ConfirmedWasPreviewed /\ RunsAreBusy /\ DrawnRuns

\* The states of a run differ.
LEMMA RunStates ==
    /\ IdleRun.state = "idle" /\ BusyRun.state = "busy"
    /\ \A sql, target : Preview(sql, target).state = "confirm" /\ Preview(sql, target).sql = sql
                        /\ Preview(sql, target).target = target
  BY DEF IdleRun, BusyRun, Preview

\* What a render draws.
LEMMA DrawnIs ==
    /\ \A run, rows : /\ Drawn(run, rows).run = run
                      /\ Drawn(run, rows) = Drawn(Drawn(run, rows).run, Drawn(run, rows).rows)
    /\ Undrawn.run = IdleRun /\ Undrawn = Drawn(Undrawn.run, Undrawn.rows)
  BY DEF Drawn, Undrawn

\* Nothing runs at first.
LEMMA ReportInvInit == ReportInit => ReportInv
<1> SUFFICES ASSUME ReportInit PROVE ReportInv
  OBVIOUS
<1> USE ReportAssumption DEF ReportInit
<1>1. \A id \in BlockIds : blockRuns[id] = IdleRun /\ IdleRun.state = "idle"
  BY RunStates
<1>2. DOMAIN reportBlocks = {} /\ reportWire = {}
  OBVIOUS
<1>3. ReportTypeOK
  BY <1>1, <1>2 DEF ReportTypeOK
<1>4. DrawnRuns
  <2>1. \A id \in BlockIds : rendered[id] = Undrawn
    OBVIOUS
  <2> QED
    BY <1>1, <2>1, DrawnIs DEF DrawnRuns
<1> QED
  BY <1>1, <1>2, <1>3, <1>4
     DEF ReportInv, RunsAreNumbered, PreviewsWereShown, DueComes, ConfirmedWasPreviewed, RunsAreBusy


\* Statements are sent: each is the newest run of its block.
LEMMA FireSteps ==
    ASSUME ReportInv, reportShown, NEW ids, ids \subseteq BlockIds, \A id \in ids : id < reportNext,
           NEW sqls, NEW target, NEW confirmed \in BOOLEAN,
           FireAgainst(ids, sqls, target, confirmed),
           \A id \in ids : sqls[id] \in Statements,
           \A id \in ids : confirmed => Preview(sqls[id], target) \in previews,
           reportTarget' \in Targets, due' \in [BlockIds -> Targets \cup {NothingDue}],
           \A id \in ids : due'[id] = NothingDue \/ (due'[id] = target /\ reportTarget' = target),
           \A id \in BlockIds \ ids :
             due'[id] = NothingDue \/ (due'[id] = due[id] /\ reportTarget' = reportTarget),
           UNCHANGED <<reportBlocks, reportNext, reportShown, previews>>
    PROVE  ReportInv'
<1> USE DEF ReportInv
<1> DEFINE N(id) == [id |-> id, gen |-> runGen[id] + 1, sql |-> sqls[id], target |-> target,
                     confirmed |-> confirmed, mounted |-> TRUE, latest |-> TRUE, ids |-> {},
                     seenTarget |-> target]
           new   == {N(id) : id \in ids}
<1>1. /\ runGen' = [id \in BlockIds |-> IF id \in ids THEN runGen[id] + 1 ELSE runGen[id]]
      /\ blockRuns' = [id \in BlockIds |-> IF id \in ids THEN BusyRun ELSE blockRuns[id]]
      /\ reportWire' = reportWire \cup new
      /\ rendered' = [id \in BlockIds |-> IF id \in ids THEN Drawn(BusyRun, rendered[id].rows)
                                                         ELSE rendered[id]]
      /\ clickedLate' = clickedLate \ ids
  BY DEF FireAgainst
<1>2. \A id : /\ IsSent(N(id)) /\ N(id).id = id /\ N(id).gen = runGen[id] + 1 /\ N(id).mounted
              /\ N(id).target = target /\ N(id).sql = sqls[id] /\ N(id).confirmed = confirmed
  BY DEF IsSent
<1>3. \A q \in new : q.id \in ids /\ q = N(q.id)
  BY <1>2
<1>4. \A id \in ids : N(id) \in new
  OBVIOUS
<1> HIDE DEF N, new
<1>5. /\ runGen' \in [BlockIds -> Nat]
      /\ \A id \in ids : runGen'[id] = runGen[id] + 1 /\ blockRuns'[id] = BusyRun
      /\ \A id \in BlockIds \ ids : runGen'[id] = runGen[id] /\ blockRuns'[id] = blockRuns[id]
  BY <1>1 DEF ReportTypeOK
<1>6. \A q \in new : /\ q.id \in ids /\ q.gen = runGen'[q.id] /\ q.mounted /\ q.target = target
                     /\ q.confirmed = confirmed /\ q.sql = sqls[q.id] /\ q.sql \in Statements /\ IsSent(q)
  BY <1>2, <1>3, <1>5
<1>7. ReportTypeOK'
  <2>1. \A q \in reportWire' : IsSent(q) /\ q.id \in BlockIds /\ q.id < reportNext
                               /\ q.gen \in Nat /\ q.mounted \in BOOLEAN /\ q.sql \in Statements
    BY <1>1, <1>5, <1>6 DEF ReportTypeOK
  <2>2. \A id \in BlockIds : id >= reportNext => blockRuns'[id] = IdleRun /\ due'[id] = NothingDue
    <3>1. \A id \in BlockIds : id >= reportNext => id \notin ids
      BY DEF ReportTypeOK, BlockIds
    <3> QED
      BY <1>5, <3>1 DEF ReportTypeOK
  <2> QED
    BY <1>1, <1>5, <2>1, <2>2 DEF ReportTypeOK
<1>8. RunsAreNumbered'
  <2>1. \A q \in reportWire : q.mounted => /\ q.gen <= runGen'[q.id]
                                           /\ q.id \in ids => q.gen < runGen'[q.id]
    BY <1>5 DEF RunsAreNumbered, ReportTypeOK
  <2>2. \A q \in reportWire' : q.mounted => reportShown' /\ q.gen <= runGen'[q.id]
    BY <1>1, <1>5, <1>6, <2>1 DEF ReportTypeOK
  <2>3. ASSUME NEW q \in reportWire', NEW p \in reportWire', q.mounted, p.mounted, q.id = p.id, q.gen = p.gen
        PROVE  q = p
    <3>1. CASE q \in reportWire /\ p \in reportWire
      BY <2>3, <3>1 DEF RunsAreNumbered
    <3>2. CASE q \in new /\ p \in new
      BY <1>3, <2>3, <3>2
    <3>3. CASE q \in reportWire /\ p \in new
      BY <1>5, <1>6, <2>1, <2>3, <3>3 DEF ReportTypeOK
    <3>4. CASE p \in reportWire /\ q \in new
      BY <1>5, <1>6, <2>1, <2>3, <3>4 DEF ReportTypeOK
    <3> QED
      BY <1>1, <3>1, <3>2, <3>3, <3>4
  <2> QED
    BY <2>2, <2>3 DEF RunsAreNumbered
<1>9. PreviewsWereShown'
  BY <1>5, RunStates DEF PreviewsWereShown
<1>10. \A id \in BlockIds : \A q :
         /\ id \in ids => (Newest(q, id)' <=> q = N(id))
         /\ id \notin ids => (Newest(q, id)' <=> Newest(q, id))
  <2> SUFFICES ASSUME NEW id \in BlockIds, NEW q
               PROVE  /\ id \in ids => (Newest(q, id)' <=> q = N(id))
                      /\ id \notin ids => (Newest(q, id)' <=> Newest(q, id))
    OBVIOUS
  <2>1. CASE id \in ids
    <3>1. q \in reportWire /\ q.mounted /\ q.id = id => q.gen # runGen'[id]
      BY <1>5, <2>1 DEF RunsAreNumbered, ReportTypeOK
    <3>2. q \in new /\ q.id = id => q = N(id)
      BY <1>3
    <3> QED
      BY <1>1, <1>2, <1>4, <1>5, <2>1, <3>1, <3>2 DEF Newest
  <2>2. CASE id \notin ids
    BY <1>1, <1>5, <1>6, <2>2 DEF Newest
  <2> QED
    BY <2>1, <2>2
<1>11. DOMAIN reportBlocks \subseteq BlockIds
  BY DEF ReportTypeOK
<1>12. DueComes'
  <2> SUFFICES ASSUME NEW id \in DOMAIN reportBlocks, due'[id] # NothingDue
               PROVE  /\ due'[id] = reportTarget'
                      /\ \/ \E q \in reportWire' : Newest(q, id)' /\ q.target = due'[id]
                         \/ reportBlocks[id].shown.kind # "none" /\ reportBlocks[id].shown.target = due'[id]
    BY DEF DueComes
  <2>1. CASE id \in ids
    <3>1. PICK q : q = N(id)
      OBVIOUS
    <3>2. Newest(q, id)' /\ q.target = target
      BY <1>2, <1>10, <1>11, <2>1, <3>1
    <3>3. due'[id] = target /\ reportTarget' = target
      BY <2>1
    <3> QED
      BY <2>1, <3>2, <3>3, <1>11 DEF Newest
  <2>2. CASE id \notin ids
    BY <1>1, <1>10, <1>11, <2>2 DEF DueComes
  <2> QED
    BY <2>1, <2>2
<1>13. ConfirmedWasPreviewed'
  BY <1>1, <1>6 DEF ConfirmedWasPreviewed
<1>14. RunsAreBusy'
  <2> SUFFICES ASSUME NEW id \in DOMAIN reportBlocks
               PROVE  /\ (\E q \in reportWire' : Newest(q, id)') => blockRuns'[id].state = "busy"
                      /\ blockRuns'[id].state = "busy" =>
                           (\E q \in reportWire' : Newest(q, id)') \/ id \in clickedLate'
    BY DEF RunsAreBusy
  <2>1. CASE id \in ids
    <3>1. PICK q : q = N(id)
      OBVIOUS
    <3>2. Newest(q, id)' /\ blockRuns'[id].state = "busy"
      BY <1>5, <1>10, <1>11, <2>1, <3>1, RunStates
    <3> QED
      BY <3>2 DEF Newest
  <2>2. CASE id \notin ids
    <3>1. (\E q \in reportWire' : Newest(q, id)') <=> \E q \in reportWire : Newest(q, id)
      BY <1>1, <1>10, <1>11, <2>2 DEF Newest
    <3> QED
      BY <1>1, <1>5, <1>11, <2>2, <3>1 DEF RunsAreBusy
  <2> QED
    BY <2>1, <2>2
<1>15. DrawnRuns'
  <2> SUFFICES ASSUME NEW id \in BlockIds
               PROVE  /\ rendered'[id] = Drawn(rendered'[id].run, rendered'[id].rows)
                      /\ rendered'[id].run \in {blockRuns'[id], BusyRun}
                      /\ blockRuns'[id] \in {IdleRun, BusyRun} \/ blockRuns'[id].state = "confirm"
                      /\ reportShown'
    BY DEF DrawnRuns
  <2>1. CASE id \in ids
    <3>1. rendered'[id] = Drawn(BusyRun, rendered[id].rows)
      BY <1>1, <2>1
    <3> QED
      BY <1>5, <2>1, <3>1, DrawnIs
  <2>2. CASE id \notin ids
    <3>1. rendered'[id] = rendered[id]
      BY <1>1, <2>2
    <3> QED
      BY <1>5, <2>2, <3>1 DEF DrawnRuns
  <2> QED
    BY <2>1, <2>2
<1> QED
  BY <1>7, <1>8, <1>9, <1>12, <1>13, <1>14, <1>15

\* The runs and what is due rest.
LEMMA RunsRest ==
    ASSUME ReportInv, UNCHANGED <<reportTarget, reportShown, runGen, reportWire, previews, due>>
    PROVE  /\ RunsAreNumbered' /\ ConfirmedWasPreviewed'
           /\ \A q, id : Newest(q, id)' <=> Newest(q, id)
  BY DEF ReportInv, RunsAreNumbered, ConfirmedWasPreviewed, Newest

\* The report is edited, a preview cancelled, a row clicked, a reply drawn.
LEMMA EditSteps ==
    ASSUME ReportInv,
           \/ AddQueryBlock
           \/ \E id \in BlockIds : RemoveBlock(id) \/ CancelConfirm(id) \/ SelectRow(id)
                                   \/ \E sql \in Statements : UpdateQuerySql(id, sql)
           \/ Render
    PROVE  ReportInv'
<1> USE DEF ReportInv
<1>1. CASE AddQueryBlock
  <2>1. /\ reportNext \in BlockIds /\ reportNext' = reportNext + 1
        /\ UNCHANGED <<reportTarget, reportShown, blockRuns, rendered, runGen, reportWire, previews, due,
                       clickedLate>>
        /\ DOMAIN reportBlocks' = DOMAIN reportBlocks \cup {reportNext}
        /\ \A id \in DOMAIN reportBlocks : reportBlocks'[id] = reportBlocks[id]
    BY <1>1 DEF AddQueryBlock, ReportTypeOK, BlockIds
  <2>2. RunsAreNumbered' /\ ConfirmedWasPreviewed' /\ \A q, id : Newest(q, id)' <=> Newest(q, id)
    BY <2>1, RunsRest
  <2>3. ReportTypeOK'
    <3>1. \A id \in BlockIds : id >= reportNext' => id >= reportNext
      BY <2>1 DEF ReportTypeOK, BlockIds
    <3>2. DOMAIN reportBlocks' \subseteq {id \in BlockIds : id < reportNext'}
      BY <2>1 DEF ReportTypeOK, BlockIds
    <3>3. \A q \in reportWire : q.id < reportNext'
      BY <2>1 DEF ReportTypeOK, BlockIds
    <3>4. \A id \in DOMAIN reportBlocks' : IsBlock(reportBlocks'[id]) /\ reportBlocks'[id].sql \in Statements
      BY <1>1, <2>1 DEF AddQueryBlock, NewBlock, Statements, ReportTypeOK, IsBlock
    <3> QED
      BY <2>1, <3>1, <3>2, <3>3, <3>4 DEF ReportTypeOK
  <2>4. blockRuns[reportNext].state = "idle" /\ due[reportNext] = NothingDue
    BY <2>1, RunStates DEF ReportTypeOK
  <2>5. ~\E q \in reportWire : Newest(q, reportNext)
    BY DEF ReportTypeOK, Newest
  <2>6. PreviewsWereShown' /\ DueComes' /\ DrawnRuns'
    BY <2>1, <2>2, <2>4 DEF PreviewsWereShown, DueComes, DrawnRuns
  <2>7. RunsAreBusy'
    BY <2>1, <2>2, <2>4, <2>5 DEF RunsAreBusy
  <2> QED
    BY <2>2, <2>3, <2>6, <2>7
<1>2. ASSUME NEW id \in BlockIds, RemoveBlock(id) PROVE ReportInv'
  <2>1. /\ UNCHANGED <<reportNext, reportTarget, reportShown, runGen, reportWire, previews, due, clickedLate>>
        /\ DOMAIN reportBlocks' = DOMAIN reportBlocks \ {id}
        /\ \A i \in DOMAIN reportBlocks' : reportBlocks'[i] = reportBlocks[i]
        /\ blockRuns' = [blockRuns EXCEPT ![id] = IdleRun]
        /\ rendered' = [rendered EXCEPT ![id] = Undrawn]
    BY <1>2 DEF RemoveBlock, Restrict
  <2>2. RunsAreNumbered' /\ ConfirmedWasPreviewed' /\ \A q, i : Newest(q, i)' <=> Newest(q, i)
    BY <2>1, RunsRest
  <2>3. /\ DOMAIN blockRuns' = BlockIds /\ blockRuns'[id] = IdleRun
        /\ \A i \in BlockIds \ {id} : blockRuns'[i] = blockRuns[i]
        /\ DOMAIN rendered' = BlockIds
        /\ \A i \in BlockIds \ {id} : rendered'[i] = rendered[i]
    BY <2>1 DEF ReportTypeOK
  <2>4. ReportTypeOK' /\ PreviewsWereShown' /\ DueComes'
    BY <2>1, <2>2, <2>3, RunStates DEF ReportTypeOK, PreviewsWereShown, DueComes
  <2>5. RunsAreBusy'
    BY <2>1, <2>2, <2>3 DEF ReportTypeOK, RunsAreBusy
  <2>6. DrawnRuns'
    <3>1. rendered'[id] = Undrawn
      BY <2>1 DEF ReportTypeOK
    <3> QED
      BY <2>1, <2>3, <3>1, DrawnIs DEF DrawnRuns
  <2> QED
    BY <2>2, <2>4, <2>5, <2>6
<1>3. ASSUME NEW id \in BlockIds, CancelConfirm(id) PROVE ReportInv'
  <2>1. /\ UNCHANGED <<reportBlocks, reportNext, reportTarget, reportShown, runGen, reportWire, previews, due,
                       clickedLate>>
        /\ blockRuns' = [blockRuns EXCEPT ![id] = IdleRun] /\ blockRuns[id].state = "confirm"
        /\ rendered' = [rendered EXCEPT ![id].run = IdleRun]
    BY <1>3, RunStates DEF CancelConfirm, Confirmable, DrawnRuns
  <2>2. RunsAreNumbered' /\ ConfirmedWasPreviewed' /\ \A q, i : Newest(q, i)' <=> Newest(q, i)
    BY <2>1, RunsRest
  <2>3. /\ DOMAIN blockRuns' = BlockIds /\ blockRuns'[id] = IdleRun
        /\ \A i \in BlockIds \ {id} : blockRuns'[i] = blockRuns[i]
        /\ DOMAIN rendered' = BlockIds
        /\ \A i \in BlockIds \ {id} : rendered'[i] = rendered[i]
    BY <2>1 DEF ReportTypeOK
  <2>4. ReportTypeOK' /\ PreviewsWereShown' /\ DueComes'
    BY <2>1, <2>2, <2>3, RunStates DEF ReportTypeOK, PreviewsWereShown, DueComes
  <2>5. RunsAreBusy'
    BY <2>1, <2>2, <2>3, RunStates DEF ReportTypeOK, RunsAreBusy
  <2>6. DrawnRuns'
    <3>1. rendered[id] = Drawn(rendered[id].run, rendered[id].rows)
      BY DEF DrawnRuns
    <3>2. rendered'[id] = [rendered[id] EXCEPT !.run = IdleRun]
      BY <2>1 DEF ReportTypeOK
    <3>3. rendered'[id] = Drawn(IdleRun, rendered[id].rows)
      BY <3>1, <3>2 DEF Drawn
    <3> QED
      BY <2>1, <2>3, <3>3, DrawnIs DEF DrawnRuns
  <2> QED
    BY <2>2, <2>4, <2>5, <2>6
<1>4. ASSUME NEW id \in BlockIds, NEW sql \in Statements, UpdateQuerySql(id, sql) PROVE ReportInv'
  <2>1. /\ UNCHANGED <<reportNext, reportTarget, reportShown, blockRuns, rendered, runGen, reportWire, previews,
                       due, clickedLate>>
        /\ DOMAIN reportBlocks' = DOMAIN reportBlocks
        /\ \A i \in DOMAIN reportBlocks : reportBlocks'[i] = IF i = id THEN [reportBlocks[i] EXCEPT !.sql = sql]
                                                                       ELSE reportBlocks[i]
    BY <1>4 DEF UpdateQuerySql, MapBlock
  <2>2. RunsAreNumbered' /\ ConfirmedWasPreviewed' /\ \A q, i : Newest(q, i)' <=> Newest(q, i)
    BY <2>1, RunsRest
  <2>3. \A i \in DOMAIN reportBlocks : /\ reportBlocks'[i].shown = reportBlocks[i].shown
                                       /\ IsBlock(reportBlocks'[i]) /\ reportBlocks'[i].sql \in Statements
    BY <2>1 DEF ReportTypeOK, IsBlock
  <2>4. ReportTypeOK' /\ PreviewsWereShown' /\ DueComes' /\ DrawnRuns'
    BY <2>1, <2>2, <2>3 DEF ReportTypeOK, PreviewsWereShown, DueComes, DrawnRuns
  <2>5. RunsAreBusy'
    BY <2>1, <2>2 DEF RunsAreBusy
  <2> QED
    BY <2>2, <2>4, <2>5
<1>5. ASSUME NEW id \in BlockIds, SelectRow(id) PROVE ReportInv'
  <2>1. /\ UNCHANGED <<reportBlocks, reportNext, reportTarget, reportShown, rendered, runGen, reportWire, previews,
                       due>>
        /\ blockRuns' = [blockRuns EXCEPT ![id] = rendered[id].run]
        /\ clickedLate' = IF rendered[id].run # blockRuns[id] THEN clickedLate \cup {id} ELSE clickedLate
        /\ id \in DOMAIN reportBlocks /\ reportShown
    BY <1>5 DEF SelectRow, Present, Interactive
  <2>2. RunsAreNumbered' /\ ConfirmedWasPreviewed' /\ \A q, i : Newest(q, i)' <=> Newest(q, i)
    BY <2>1, RunsRest
  <2>3. /\ DOMAIN blockRuns' = BlockIds
        /\ \A i \in BlockIds \ {id} : blockRuns'[i] = blockRuns[i]
        /\ blockRuns'[id] \in {blockRuns[id], BusyRun}
        /\ blockRuns'[id] = rendered[id].run
    BY <2>1 DEF ReportTypeOK, DrawnRuns
  <2>4. ReportTypeOK' /\ PreviewsWereShown' /\ DueComes'
    <3>1. id < reportNext
      BY <2>1 DEF ReportTypeOK
    <3>2. \A i \in BlockIds : i >= reportNext => blockRuns'[i] = IdleRun
      BY <2>3, <3>1 DEF ReportTypeOK, BlockIds
    <3>3. ReportTypeOK'
      BY <2>1, <2>3, <3>2 DEF ReportTypeOK
    <3>4. PreviewsWereShown'
      BY <2>1, <2>3, RunStates DEF PreviewsWereShown
    <3> QED
      BY <2>1, <2>2, <3>3, <3>4 DEF DueComes
  <2>5. RunsAreBusy'
    <3>1. blockRuns'[id] # blockRuns[id] => id \in clickedLate' /\ blockRuns'[id].state = "busy"
      BY <2>1, <2>3, RunStates
    <3>2. clickedLate \subseteq clickedLate' /\ DOMAIN reportBlocks \subseteq BlockIds
      BY <2>1 DEF ReportTypeOK
    <3> QED
      BY <2>1, <2>2, <2>3, <3>1, <3>2 DEF RunsAreBusy
  <2>6. DrawnRuns'
    BY <2>1, <2>3 DEF DrawnRuns
  <2> QED
    BY <2>2, <2>4, <2>5, <2>6
<1>6. CASE Render
  <2>1. /\ UNCHANGED <<reportBlocks, reportNext, reportTarget, reportShown, blockRuns, runGen, reportWire,
                       previews, due, clickedLate>>
        /\ rendered' = [id \in BlockIds |-> Drawn(blockRuns[id], HasRows(id))]
    BY <1>6 DEF Render
  <2>2. RunsAreNumbered' /\ ConfirmedWasPreviewed' /\ \A q, i : Newest(q, i)' <=> Newest(q, i)
    BY <2>1, RunsRest
  <2>3. ReportTypeOK' /\ PreviewsWereShown' /\ DueComes' /\ RunsAreBusy'
    BY <2>1, <2>2 DEF ReportTypeOK, PreviewsWereShown, DueComes, RunsAreBusy
  <2>4. DrawnRuns'
    BY <2>1, DrawnIs DEF DrawnRuns
  <2> QED
    BY <2>2, <2>3, <2>4
<1> QED
  BY <1>1, <1>2, <1>3, <1>4, <1>5, <1>6

\* One statement is sent.
LEMMA FireOne ==
    ASSUME ReportInv, reportShown, NEW id \in BlockIds, id < reportNext,
           NEW sqls, NEW target, NEW confirmed \in BOOLEAN,
           FireAgainst({id}, sqls, target, confirmed), sqls[id] \in Statements,
           confirmed => Preview(sqls[id], target) \in previews,
           due' = [due EXCEPT ![id] = IF target = reportTarget THEN target ELSE NothingDue],
           UNCHANGED <<reportBlocks, reportNext, reportTarget, reportShown, previews>>
    PROVE  ReportInv'
<1>1. PICK ids : ids = {id}
  OBVIOUS
<1>2. ids \subseteq BlockIds /\ \A i \in ids : i < reportNext /\ sqls[i] \in Statements
  BY <1>1
<1>3. FireAgainst(ids, sqls, target, confirmed)
  BY <1>1
<1>4. \A i \in ids : confirmed => Preview(sqls[i], target) \in previews
  BY <1>1
<1>5. /\ reportTarget' \in Targets /\ due' \in [BlockIds -> Targets \cup {NothingDue}]
      /\ \A i \in ids : due'[i] = NothingDue \/ (due'[i] = target /\ reportTarget' = target)
      /\ \A i \in BlockIds \ ids :
           due'[i] = NothingDue \/ (due'[i] = due[i] /\ reportTarget' = reportTarget)
  BY <1>1 DEF ReportInv, ReportTypeOK
<1> QED
  BY <1>2, <1>3, <1>4, <1>5, FireSteps

\* A block is run or confirmed, or the report re-targeted.
LEMMA SendSteps ==
    ASSUME ReportInv,
           \/ \E id \in BlockIds : RunBlock(id) \/ ConfirmBlock(id)
           \/ \E target \in Targets : HandleRetarget(target)
    PROVE  ReportInv'
<1>1. DOMAIN reportBlocks \subseteq {id \in BlockIds : id < reportNext}
  BY DEF ReportInv, ReportTypeOK
<1>2. ASSUME NEW id \in BlockIds, RunBlock(id) PROVE ReportInv'
  <2>1. /\ reportShown /\ id \in DOMAIN reportBlocks
        /\ FireAgainst({id}, Sqls, reportTarget, FALSE) /\ due' = [due EXCEPT ![id] = reportTarget]
        /\ UNCHANGED <<reportBlocks, reportNext, reportTarget, reportShown, previews>>
    BY <1>2 DEF RunBlock, Interactive, Present
  <2>2. PICK target : target = reportTarget
    OBVIOUS
  <2>3. PICK sqls : sqls = Sqls
    OBVIOUS
  <2>4. FireAgainst({id}, sqls, target, FALSE)
    BY <2>1, <2>2, <2>3
  <2>5. id < reportNext /\ sqls[id] \in Statements
    BY <1>1, <2>1, <2>3 DEF ReportInv, ReportTypeOK, Sqls
  <2>6. due' = [due EXCEPT ![id] = IF target = reportTarget THEN target ELSE NothingDue]
    BY <2>1, <2>2
  <2> QED
    BY <2>1, <2>4, <2>5, <2>6, FireOne
<1>3. ASSUME NEW id \in BlockIds, ConfirmBlock(id) PROVE ReportInv'
  <2> DEFINE preview == rendered[id].run
  <2>1. /\ reportShown /\ id \in DOMAIN reportBlocks /\ preview.state = "confirm"
        /\ FireAgainst({id}, [i \in {id} |-> preview.sql], preview.target, TRUE)
        /\ due' = [due EXCEPT ![id] = IF preview.target = reportTarget THEN preview.target ELSE NothingDue]
        /\ UNCHANGED <<reportBlocks, reportNext, reportTarget, reportShown, previews>>
    BY <1>3 DEF ConfirmBlock, Confirmable, Present
  <2>2. preview = blockRuns[id]
    BY <2>1, RunStates DEF ReportInv, DrawnRuns
  <2>3. /\ preview \in previews /\ preview.sql \in Statements
        /\ preview = Preview(preview.sql, preview.target)
    BY <2>1, <2>2 DEF ReportInv, PreviewsWereShown
  <2>4. PICK target : target = preview.target
    OBVIOUS
  <2>5. PICK sqls : sqls = [i \in {id} |-> preview.sql]
    OBVIOUS
  <2> HIDE DEF preview
  <2>6. FireAgainst({id}, sqls, target, TRUE)
    BY <2>1, <2>4, <2>5
  <2>7. sqls[id] \in Statements /\ Preview(sqls[id], target) \in previews
    BY <2>3, <2>4, <2>5
  <2>8. id < reportNext /\ due' = [due EXCEPT ![id] = IF target = reportTarget THEN target ELSE NothingDue]
    BY <1>1, <2>1, <2>4
  <2> QED
    BY <2>1, <2>6, <2>7, <2>8, FireOne
<1>4. ASSUME NEW target \in Targets, HandleRetarget(target) PROVE ReportInv'
  <2>1. /\ reportShown
        /\ reportTarget' = target /\ FireAgainst(PlanRetarget, Sqls, target, FALSE)
        /\ due' = [id \in BlockIds |-> IF Present(id) /\ Sqls[id] # "blank" THEN target ELSE NothingDue]
        /\ UNCHANGED <<reportBlocks, reportNext, reportShown, previews>>
    BY <1>4 DEF HandleRetarget, Interactive
  <2>2. /\ PlanRetarget \subseteq BlockIds
        /\ \A id \in PlanRetarget : id < reportNext /\ Sqls[id] \in Statements
    BY <1>1 DEF PlanRetarget, Present, Sqls, ReportInv, ReportTypeOK
  <2>3. /\ due' \in [BlockIds -> Targets \cup {NothingDue}]
        /\ \A id \in PlanRetarget : due'[id] = target
        /\ \A id \in BlockIds \ PlanRetarget : due'[id] = NothingDue
    BY <2>1 DEF PlanRetarget
  <2> QED
    BY <2>1, <2>2, <2>3, FireSteps
<1> QED
  BY <1>2, <1>3, <1>4

\* A reply to the mounted view, or to one that is gone.
LEMMA ReplyStep == ASSUME ReportInv, NEW q \in reportWire, ApplyOutcome(q) PROVE ReportInv'
<1> USE DEF ReportInv
<1> DEFINE id == q.id
           Run(r) == blockRuns' = IF q.mounted THEN [blockRuns EXCEPT ![id] = r] ELSE blockRuns
           present == IF q.mounted THEN Present(id) ELSE id \in q.ids
           target  == IF q.mounted THEN reportTarget ELSE q.seenTarget
<1>1. /\ reportWire' = reportWire \ {q}
      /\ UNCHANGED <<reportNext, reportTarget, reportShown, rendered, runGen, fires, clickedLate>>
      /\ id \in BlockIds /\ q.mounted \in BOOLEAN /\ q.sql \in Statements
  BY DEF ApplyOutcome, ReportTypeOK
<1>2. PICK answer \in Answers(q) :
        \/ /\ ~present \/ ~IsLatest(q)
           /\ UNCHANGED <<reportBlocks, blockRuns, previews, due>>
        \/ /\ present /\ IsLatest(q) /\ target # q.target
           /\ Run(IdleRun)
           /\ UNCHANGED <<reportBlocks, previews, due>>
        \/ /\ present /\ IsLatest(q) /\ target = q.target /\ answer # "confirm"
           /\ reportBlocks' = MapBlock(id, LAMBDA b :
                                [b EXCEPT !.shown = [kind |-> answer, target |-> q.target]])
           /\ Run(IdleRun)
           /\ due' = IF q.mounted THEN due ELSE [due EXCEPT ![id] = NothingDue]
           /\ UNCHANGED previews
        \/ /\ present /\ IsLatest(q) /\ target = q.target /\ answer = "confirm"
           /\ Run(Preview(q.sql, q.target))
           /\ previews' = IF q.mounted THEN previews \cup {Preview(q.sql, q.target)} ELSE previews
           /\ due' = [due EXCEPT ![id] = NothingDue]
           /\ UNCHANGED reportBlocks
  BY DEF ApplyOutcome
<1>3. /\ DOMAIN reportBlocks' = DOMAIN reportBlocks
      /\ \A i \in DOMAIN reportBlocks : i # id => reportBlocks'[i] = reportBlocks[i]
      /\ \A i \in DOMAIN reportBlocks : IsBlock(reportBlocks'[i]) /\ reportBlocks'[i].sql \in Statements
  BY <1>2 DEF MapBlock, ReportTypeOK, IsBlock
<1>4. /\ DOMAIN blockRuns' = BlockIds
      /\ \A i \in BlockIds : i # id => blockRuns'[i] = blockRuns[i]
      /\ ~q.mounted => blockRuns' = blockRuns
  BY <1>1, <1>2 DEF ReportTypeOK
<1>5. /\ due' \in [BlockIds -> Targets \cup {NothingDue}]
      /\ \A i \in BlockIds : due'[i] \in {due[i], NothingDue} /\ (i # id => due'[i] = due[i])
  BY <1>1, <1>2 DEF ReportTypeOK
<1>6. previews \subseteq previews'
  BY <1>2
<1>7. RunsAreNumbered' /\ ConfirmedWasPreviewed'
  BY <1>1, <1>6 DEF RunsAreNumbered, ConfirmedWasPreviewed
<1>8. ReportTypeOK'
  <2>1. q.id < reportNext /\ reportNext \in Nat /\ BlockIds \subseteq Nat
    BY DEF ReportTypeOK, BlockIds
  <2>2. \A i \in BlockIds : i >= reportNext => blockRuns'[i] = IdleRun /\ due'[i] = NothingDue
    BY <1>4, <1>5, <2>1 DEF ReportTypeOK
  <2> QED
    BY <1>1, <1>3, <1>4, <1>5, <2>2 DEF ReportTypeOK
<1>9. \A p, i : Newest(p, i)' <=> Newest(p, i) /\ p # q
  BY <1>1 DEF Newest
<1>10. \A p, i : Newest(p, i) /\ p # q => ~Newest(q, i)
  BY DEF Newest, RunsAreNumbered
<1>11. IsLatest(q) /\ q.mounted => Newest(q, id)
  BY DEF IsLatest, Newest
<1>12. Newest(q, id) => q.mounted /\ IsLatest(q) /\ reportShown
  BY DEF IsLatest, Newest, RunsAreNumbered
<1>13. \A i : i # id => ~Newest(q, i)
  BY DEF Newest
<1>14. DOMAIN reportBlocks \subseteq BlockIds
  BY DEF ReportTypeOK
<1>15. PreviewsWereShown'
  <2>1. ASSUME q.mounted, blockRuns'[id].state = "confirm", blockRuns'[id] # blockRuns[id]
        PROVE  /\ blockRuns'[id] = Preview(q.sql, q.target) /\ blockRuns'[id] \in previews'
               /\ IsLatest(q)
    BY <1>1, <1>2, <2>1, RunStates DEF ReportTypeOK
  <2>2. \A i \in BlockIds : blockRuns'[i] # blockRuns[i] => i = id /\ q.mounted
    BY <1>4
  <2> QED
    BY <1>1, <1>6, <1>11, <1>12, <2>1, <2>2, RunStates DEF PreviewsWereShown, Statements
<1>16. DueComes'
  <2> SUFFICES ASSUME NEW i \in DOMAIN reportBlocks, due'[i] # NothingDue
               PROVE  /\ reportShown /\ due'[i] = reportTarget
                      /\ \/ \E p \in reportWire' : Newest(p, i)' /\ p.target = due'[i]
                         \/ reportBlocks'[i].shown.kind # "none" /\ reportBlocks'[i].shown.target = due'[i]
    BY <1>1, <1>3 DEF DueComes
  <2>1. due'[i] = due[i] /\ due[i] = reportTarget /\ reportShown
    BY <1>5, <1>14 DEF DueComes
  <2>2. CASE reportBlocks'[i].shown.kind # "none" /\ reportBlocks'[i].shown.target = due'[i]
    BY <2>1, <2>2
  <2>3. CASE \E p \in reportWire : Newest(p, i) /\ p.target = due[i] /\ p # q
    BY <1>1, <1>9, <2>1, <2>3
  <2>4. CASE Newest(q, i) /\ q.target = due[i]
    <3>1. i = id /\ q.mounted /\ IsLatest(q) /\ present /\ target = q.target
      BY <1>12, <1>13, <1>14, <2>1, <2>4 DEF Present
    <3>2. answer # "confirm"
      BY <1>2, <2>1, <3>1, <1>1 DEF ReportTypeOK
    <3>3. reportBlocks' = MapBlock(id, LAMBDA b : [b EXCEPT !.shown = [kind |-> answer, target |-> q.target]])
      BY <1>2, <3>1, <3>2
    <3>4. reportBlocks'[i].shown = [kind |-> answer, target |-> q.target]
      BY <3>1, <3>3 DEF MapBlock, ReportTypeOK, IsBlock
    <3>5. answer # "none"
      BY <1>1, <1>2 DEF Answers, Statements
    <3> QED
      BY <2>1, <2>4, <3>4, <3>5
  <2>5. CASE reportBlocks[i].shown.kind # "none" /\ reportBlocks[i].shown.target = due[i]
    <3>1. CASE reportBlocks'[i] = reportBlocks[i]
      BY <2>1, <2>5, <3>1
    <3>2. CASE reportBlocks'[i] # reportBlocks[i]
      <4>1. /\ reportBlocks' = MapBlock(id, LAMBDA b : [b EXCEPT !.shown = [kind |-> answer, target |-> q.target]])
            /\ i = id /\ present /\ target = q.target /\ due' = IF q.mounted THEN due ELSE [due EXCEPT ![id] = NothingDue]
        BY <1>2, <1>3, <3>2
      <4>2. q.mounted /\ q.target = reportTarget
        BY <1>1, <4>1 DEF ReportTypeOK
      <4>3. reportBlocks'[i].shown = [kind |-> answer, target |-> q.target]
        BY <4>1 DEF MapBlock, ReportTypeOK, IsBlock
      <4>4. answer # "none"
        BY <1>1, <1>2 DEF Answers, Statements
      <4> QED
        BY <2>1, <4>2, <4>3, <4>4
    <3> QED
      BY <3>1, <3>2
  <2> QED
    BY <2>1, <2>2, <2>3, <2>4, <2>5 DEF DueComes, Newest
<1>17. RunsAreBusy'
  <2> SUFFICES ASSUME NEW i \in DOMAIN reportBlocks
               PROVE  /\ (\E p \in reportWire' : Newest(p, i)') => blockRuns'[i].state = "busy"
                      /\ blockRuns'[i].state = "busy" =>
                           (\E p \in reportWire' : Newest(p, i)') \/ i \in clickedLate
    BY <1>1, <1>3 DEF RunsAreBusy
  <2>1. CASE Newest(q, i)
    <3>1. i = id /\ q.mounted /\ IsLatest(q) /\ present
      BY <1>12, <1>13, <1>14, <2>1 DEF Present
    <3>2. ~\E p \in reportWire' : Newest(p, i)'
      BY <1>9, <1>10, <2>1
    <3>3. blockRuns'[i].state # "busy"
      BY <1>1, <1>2, <3>1, RunStates DEF ReportTypeOK
    <3> QED
      BY <3>2, <3>3
  <2>2. CASE ~Newest(q, i)
    <3>1. (\E p \in reportWire' : Newest(p, i)') <=> \E p \in reportWire : Newest(p, i)
      BY <1>1, <1>9, <2>2
    <3>2. blockRuns'[i] = blockRuns[i]
      <4>1. CASE i # id \/ ~q.mounted
        BY <1>4, <1>14, <4>1
      <4>2. CASE i = id /\ q.mounted
        <5>1. ~IsLatest(q)
          BY <1>11, <2>2, <4>2
        <5> QED
          BY <1>2, <5>1
      <4> QED
        BY <1>1, <4>1, <4>2
    <3> QED
      BY <3>1, <3>2 DEF RunsAreBusy
  <2> QED
    BY <2>1, <2>2
<1>18. DrawnRuns'
  <2>1. blockRuns'[id] # blockRuns[id] =>
          /\ blockRuns[id] = BusyRun /\ reportShown
          /\ blockRuns'[id] = IdleRun \/ blockRuns'[id].state = "confirm"
    <3> SUFFICES ASSUME blockRuns'[id] # blockRuns[id]
                 PROVE  /\ blockRuns[id] = BusyRun /\ reportShown
                        /\ blockRuns'[id] = IdleRun \/ blockRuns'[id].state = "confirm"
      OBVIOUS
    <3>1. q.mounted /\ IsLatest(q) /\ present
      BY <1>1, <1>2, <1>4
    <3>2. Newest(q, id) /\ id \in DOMAIN reportBlocks /\ reportShown
      BY <1>11, <1>12, <3>1 DEF Present
    <3>3. blockRuns[id].state = "busy"
      BY <3>2 DEF RunsAreBusy
    <3>4. blockRuns[id] = BusyRun
      BY <1>1, <3>3, RunStates DEF DrawnRuns
    <3>5. blockRuns'[id] = IdleRun \/ blockRuns'[id].state = "confirm"
      BY <1>1, <1>2, <3>1, RunStates DEF ReportTypeOK
    <3> QED
      BY <3>2, <3>4, <3>5
  <2> QED
    BY <1>1, <1>4, <2>1 DEF DrawnRuns
<1> QED
  BY <1>7, <1>8, <1>15, <1>16, <1>17, <1>18

\* The view is left with its runs in flight, and mounted again.
LEMMA MountSteps == ASSUME ReportInv, LeaveReport \/ ReturnToReport PROVE ReportInv'
<1> USE DEF ReportInv
<1>1. CASE LeaveReport
  <2> DEFINE Left(q) == IF q.mounted
                        THEN [q EXCEPT !.mounted = FALSE, !.latest = (runGen[q.id] = q.gen),
                                       !.ids = DOMAIN reportBlocks, !.seenTarget = reportTarget]
                        ELSE q
  <2>1. /\ reportShown' = FALSE /\ reportWire' = {Left(q) : q \in reportWire}
        /\ blockRuns' = [id \in BlockIds |-> IdleRun] /\ runGen' = [id \in BlockIds |-> 0]
        /\ rendered' = [id \in BlockIds |-> Undrawn]
        /\ due' = [id \in BlockIds |-> NothingDue]
        /\ UNCHANGED <<reportBlocks, reportNext, reportTarget, fires, previews>>
    BY <1>1 DEF LeaveReport
  <2>2. \A q \in reportWire : /\ IsSent(Left(q)) /\ Left(q).mounted = FALSE /\ Left(q).id = q.id
                              /\ Left(q).gen = q.gen /\ Left(q).confirmed = q.confirmed
                              /\ Left(q).sql = q.sql /\ Left(q).target = q.target
    <3> SUFFICES ASSUME NEW q \in reportWire
                 PROVE  /\ IsSent(Left(q)) /\ Left(q).mounted = FALSE /\ Left(q).id = q.id
                        /\ Left(q).gen = q.gen /\ Left(q).confirmed = q.confirmed
                        /\ Left(q).sql = q.sql /\ Left(q).target = q.target
      OBVIOUS
    <3>1. IsSent(q) /\ q.mounted \in BOOLEAN
      BY DEF ReportTypeOK
    <3>2. CASE q.mounted
      <4>1. Left(q) = [id |-> q.id, gen |-> q.gen, sql |-> q.sql, target |-> q.target,
                       confirmed |-> q.confirmed, mounted |-> FALSE,
                       latest |-> (runGen[q.id] = q.gen), ids |-> DOMAIN reportBlocks,
                       seenTarget |-> reportTarget]
        BY <3>1, <3>2 DEF IsSent
      <4> HIDE DEF Left
      <4> QED
        BY <4>1 DEF IsSent
    <3>3. CASE ~q.mounted
      <4>1. Left(q) = q
        BY <3>3
      <4> HIDE DEF Left
      <4> QED
        BY <3>1, <3>3, <4>1
    <3> QED
      BY <3>2, <3>3
  <2> HIDE DEF Left
  <2>3. \A p \in reportWire' : ~p.mounted
    BY <2>1, <2>2
  <2>4. \A id \in BlockIds : blockRuns'[id] = IdleRun /\ due'[id] = NothingDue /\ runGen'[id] = 0
    BY <2>1
  <2>5. ReportTypeOK'
    <3>1. \A p \in reportWire' : IsSent(p) /\ p.id \in BlockIds /\ p.id < reportNext
                                 /\ p.gen \in Nat /\ p.mounted \in BOOLEAN /\ p.sql \in Statements
      <4> SUFFICES ASSUME NEW p \in reportWire'
                   PROVE  IsSent(p) /\ p.id \in BlockIds /\ p.id < reportNext
                          /\ p.gen \in Nat /\ p.mounted \in BOOLEAN /\ p.sql \in Statements
        OBVIOUS
      <4>1. PICK q \in reportWire : p = Left(q)
        BY <2>1
      <4>2. q.id \in BlockIds /\ q.id < reportNext /\ q.gen \in Nat /\ q.sql \in Statements
        BY DEF ReportTypeOK
      <4>3. IsSent(p) /\ p.id = q.id /\ p.gen = q.gen /\ p.sql = q.sql
        BY <2>2, <4>1
      <4>4. p.mounted \in BOOLEAN
        BY <2>2, <4>1
      <4> QED
        BY <4>2, <4>3, <4>4
    <3> QED
      BY <2>1, <2>4, <3>1 DEF ReportTypeOK
  <2>6. DOMAIN reportBlocks \subseteq BlockIds
    BY DEF ReportTypeOK
  <2>7. RunsAreNumbered' /\ PreviewsWereShown' /\ DueComes'
    BY <2>1, <2>3, <2>4, <2>6, RunStates DEF RunsAreNumbered, PreviewsWereShown, DueComes
  <2>8. ConfirmedWasPreviewed'
    BY <2>1, <2>2 DEF ConfirmedWasPreviewed
  <2>9. RunsAreBusy'
    BY <2>1, <2>3, <2>4, <2>6, RunStates DEF Newest, RunsAreBusy
  <2>10. DrawnRuns'
    BY <2>1, <2>4, DrawnIs DEF DrawnRuns
  <2> QED
    BY <2>5, <2>7, <2>8, <2>9, <2>10
<1>2. CASE ReturnToReport
  <2>1. /\ ~reportShown /\ reportShown' = TRUE
        /\ rendered' = [id \in BlockIds |-> Drawn(IdleRun, HasRows(id))]
        /\ UNCHANGED <<reportBlocks, reportNext, reportTarget, blockRuns, runGen, reportWire, previews, due,
                       clickedLate>>
    BY <1>2 DEF ReturnToReport
  <2>2. ReportTypeOK' /\ RunsAreNumbered' /\ PreviewsWereShown' /\ DueComes' /\ ConfirmedWasPreviewed'
    BY <2>1 DEF ReportTypeOK, RunsAreNumbered, PreviewsWereShown, DueComes, ConfirmedWasPreviewed
  <2>3. RunsAreBusy'
    BY <2>1 DEF Newest, RunsAreBusy
  <2>4. DrawnRuns'
    BY <2>1, DrawnIs DEF DrawnRuns
  <2> QED
    BY <2>2, <2>3, <2>4
<1> QED
  BY <1>1, <1>2

\* Every step keeps the invariant.
LEMMA ReportStep == ReportInv /\ [ReportNext]_reportVars => ReportInv'
<1> SUFFICES ASSUME ReportInv, [ReportNext]_reportVars PROVE ReportInv'
  OBVIOUS
<1>1. CASE UNCHANGED reportVars
  <2>1. /\ UNCHANGED <<reportBlocks, reportNext, reportTarget, reportShown, blockRuns, rendered, runGen>>
        /\ UNCHANGED <<reportWire, previews, due, clickedLate>>
    BY <1>1 DEF reportVars
  <2>2. RunsAreNumbered' /\ ConfirmedWasPreviewed' /\ \A q, i : Newest(q, i)' <=> Newest(q, i)
    BY <2>1, RunsRest
  <2>3. ReportTypeOK' /\ PreviewsWereShown'
    BY <2>1 DEF ReportInv, ReportTypeOK, PreviewsWereShown
  <2>4. DueComes' /\ RunsAreBusy' /\ DrawnRuns'
    BY <2>1, <2>2 DEF ReportInv, DueComes, RunsAreBusy, DrawnRuns
  <2> QED
    BY <2>2, <2>3, <2>4 DEF ReportInv
<1>2. CASE ReportNext
  BY <1>2, EditSteps, SendSteps, ReplyStep, MountSteps DEF ReportNext
<1> QED
  BY <1>1, <1>2

\* Nothing is run as confirmed but what a preview showed on its target; with no
\* run of the page in flight each block shows the outcome of its newest run;
\* and a block is busy while that run is in flight, and longer only when a row
\* was clicked before the reply was drawn: for any number of blocks, targets,
\* edits, runs and re-targets.
THEOREM ReportHolds == ReportSpec => []ReportIsTrue
<1>1. ReportInit => ReportInv
  BY ReportInvInit
<1>2. ReportInv /\ [ReportNext]_reportVars => ReportInv'
  BY ReportStep
<1>3. ReportInv => ReportIsTrue
  <2> SUFFICES ASSUME ReportInv PROVE ReportIsTrue
    OBVIOUS
  <2>1. ShownIsDue
    BY DEF ReportInv, DueComes, ShownIsDue, Newest
  <2>2. BusyHasItsRun
    BY DEF ReportInv, BusyHasItsRun, Newest, RunsAreBusy, Firing
  <2> QED
    BY <2>1, <2>2 DEF ReportInv, ReportIsTrue
<1> QED
  BY <1>1, <1>2, <1>3, PTL DEF ReportSpec

-----------------------------------------------------------------------------
(* LiveReport: the live registry and the pages it serves.                   *)

LiveTargets == LiveConns \cup {Default}

LivePages == [opened : BOOLEAN, current : LiveTargets, picker : LiveTargets, offered : SUBSET LiveConns]

ListRequests    == [kind : {"list"}, run : Nat]
ExecuteRequests == [kind : {"execute"}, run : Nat, block : Blocks, target : LiveTargets]

RunOutcomes == [kind : {"note", "unreachable", "rows", "error", "confirm"}, target : LiveTargets]

Windows == [state : {"blank", "blocked", "closed", "linked", "page", "unknown"}, link : Nat]

\* The types of the variables.
LiveTypeOK ==
    /\ exporting \in {"no", "publishing", "downloading"}
    /\ windows \in Seq(Windows) /\ published \in Nat /\ latestRun \in Nat
    /\ liveSaved \subseteq LiveConns /\ livePage \in LivePages
    /\ liveSlots \in [Blocks -> Seq(RunOutcomes)]
    /\ liveWire \subseteq ListRequests \cup ExecuteRequests

\* The registry holds the newest reports, as many as it can.
StoreIsRecent ==
    /\ liveStore \in Seq(Nat)
    /\ Len(liveStore) <= MaxEntries /\ Len(liveStore) <= published
    /\ Len(liveStore) < MaxEntries => Len(liveStore) = published
    /\ \A i \in 1 .. Len(liveStore) : liveStore[i] = (published - Len(liveStore)) + i

\* A window that was sent to a link was sent to a published one.
WindowsAreSent ==
    /\ exporting = "publishing" => windows # <<>>
    /\ \A i \in DOMAIN windows : windows[i].state = "linked" => windows[i].link \in 1 .. published

\* The requests of a run.
ListOf(run) == [kind |-> "list", run |-> run]
ExecuteOf(run, b, target) == [kind |-> "execute", run |-> run, block |-> b, target |-> target]

\* The newest run has asked for the connections, and for nothing else.
Listing ==
    /\ ListOf(latestRun) \in liveWire
    /\ \A q \in liveWire : q.run = latestRun => q.kind = "list"

\* A block of the newest run: asked of the connection picked, or answered by it.
Asked(b)    == ExecuteOf(latestRun, b, livePage.picker) \in liveWire /\ liveSlots[b] = <<>>
Answered(b) == /\ Len(liveSlots[b]) = 1
               /\ liveSlots[b][1].kind \in {"rows", "error", "confirm"} =>
                    liveSlots[b][1].target = livePage.picker

\* Every block of the newest run is asked or answered.
Running ==
    /\ \A q \in liveWire : q.run = latestRun =>
         q.kind = "execute" /\ q.target = livePage.picker /\ Asked(q.block)
    /\ \A b \in Blocks : Asked(b) \/ Answered(b)

\* Requests are of the newest run or of earlier ones, and the newest lists or
\* runs.
RunsAreOrdered ==
    /\ \A q \in liveWire : q.run <= latestRun
    /\ ~livePage.opened => liveWire = {}
    /\ livePage.opened => Listing \/ Running

\* The inductive invariant.
LiveInv == LiveTypeOK /\ StoreIsRecent /\ WindowsAreSent /\ RunsAreOrdered

\* Nothing is published and no page open at first.
LEMMA LiveInvInit == LiveInit => LiveInv
<1> SUFFICES ASSUME LiveInit PROVE LiveInv
  OBVIOUS
<1>1. LiveTypeOK
  <2>1. livePage \in LivePages
    BY DEF LiveInit, NotOpen, LivePages, LiveTargets
  <2>2. liveSlots \in [Blocks -> Seq(RunOutcomes)]
    BY EmptySeq DEF LiveInit
  <2>3. windows \in Seq(Windows)
    BY EmptySeq DEF LiveInit
  <2> QED
    BY <2>1, <2>2, <2>3 DEF LiveInit, LiveTypeOK
<1>2. StoreIsRecent /\ WindowsAreSent
  BY EmptySeq, LiveAssumption DEF LiveInit, StoreIsRecent, WindowsAreSent
<1>3. RunsAreOrdered
  BY DEF LiveInit, NotOpen, RunsAreOrdered
<1> QED
  BY <1>1, <1>2, <1>3 DEF LiveInv

\* What is left when the oldest entry has gone, if it had to: the newest ones, and
\* fewer than the registry holds.
LEMMA EvictedIsRecent ==
    ASSUME StoreIsRecent, published \in Nat
    PROVE  /\ Evicted \in Seq(Nat) /\ Len(Evicted) \in Nat
           /\ Len(Evicted) < MaxEntries /\ Len(Evicted) <= published
           /\ Len(Evicted) + 1 < MaxEntries => Len(Evicted) = published
           /\ \A i \in 1 .. Len(Evicted) : Evicted[i] = (published - Len(Evicted)) + i
<1> DEFINE n == Len(liveStore)
<1> USE LiveAssumption DEF StoreIsRecent
<1>1. n \in Nat
  BY LenProperties
<1>2. CASE n < MaxEntries
  <2>1. Evicted = liveStore
    BY <1>1, <1>2 DEF Evicted
  <2>2. n = published /\ n <= published
    BY <1>2
  <2> QED
    BY <1>1, <1>2, <2>1, <2>2
<1>3. CASE n = MaxEntries
  <2> DEFINE t == Tail(liveStore)
  <2>1. Evicted = t /\ liveStore # <<>>
    BY <1>3 DEF Evicted
  <2>2. t \in Seq(Nat) /\ Len(t) = n - 1 /\ \A i \in 1 .. Len(t) : t[i] = liveStore[i + 1]
    BY <2>1, HeadTailProperties
  <2> HIDE DEF t
  <2>3. \A i \in 1 .. Len(t) : t[i] = (published - Len(t)) + i
    BY <1>1, <2>2
  <2> QED
    BY <1>1, <1>3, <2>1, <2>2, <2>3
<1> QED
  BY <1>1, <1>2, <1>3

\* Then the newest comes.
LEMMA StoreStep ==
    ASSUME StoreIsRecent, published \in Nat, liveStore' = Append(Evicted, published + 1),
           published' = published + 1
    PROVE  StoreIsRecent'
<1> DEFINE e == Evicted
           a == Append(e, published + 1)
<1>1. /\ e \in Seq(Nat) /\ Len(e) \in Nat /\ Len(e) < MaxEntries /\ Len(e) <= published
      /\ Len(e) + 1 < MaxEntries => Len(e) = published
      /\ \A i \in 1 .. Len(e) : e[i] = (published - Len(e)) + i
  BY EvictedIsRecent
<1> HIDE DEF e
<1>2. /\ a \in Seq(Nat) /\ Len(a) = Len(e) + 1 /\ a[Len(e) + 1] = published + 1
      /\ \A i \in 1 .. Len(e) : a[i] = e[i]
  BY <1>1, AppendProperties
<1>3. liveStore' = a
  BY DEF e
<1> HIDE DEF a
<1>4. \A i \in 1 .. Len(a) : a[i] = (published + 1 - Len(a)) + i
  <2> TAKE i \in 1 .. Len(a)
  <2>1. CASE i = Len(e) + 1
    BY <1>1, <1>2, <2>1
  <2>2. CASE i # Len(e) + 1
    <3>1. i \in 1 .. Len(e)
      BY <1>1, <1>2, <2>2
    <3>2. a[i] = (published - Len(e)) + i
      BY <1>1, <1>2, <3>1
    <3> QED
      BY <1>1, <1>2, <3>1, <3>2
  <2> QED
    BY <2>1, <2>2
<1>5. Len(a) <= MaxEntries /\ Len(a) <= published + 1 /\ (Len(a) < MaxEntries => Len(a) = published + 1)
  BY <1>1, <1>2, LiveAssumption
<1> DEFINE p == published + 1
<1>6. a \in Seq(Nat)
  BY <1>2
<1>7. /\ Len(a) <= MaxEntries /\ Len(a) <= p /\ (Len(a) < MaxEntries => Len(a) = p)
      /\ \A i \in 1 .. Len(a) : a[i] = (p - Len(a)) + i
  BY <1>4, <1>5
<1>8. published' = p
  OBVIOUS
<1> HIDE DEF p
<1> QED
  BY <1>3, <1>6, <1>7, <1>8, Zenon DEF StoreIsRecent

\* Hence a link sent is known for as long as it should be.
LEMMA LinksAreKnown ==
    ASSUME LiveTypeOK, StoreIsRecent, WindowsAreSent
    PROVE  LinksStayKnown
<1> SUFFICES ASSUME NEW i \in DOMAIN windows, windows[i].state = "linked",
                    ~(published >= windows[i].link + MaxEntries)
             PROVE  Contains(liveStore, windows[i].link)
  BY DEF LinksStayKnown
<1> DEFINE k == windows[i].link
           n == Len(liveStore)
<1>1. k \in 1 .. published /\ n \in Nat
  BY DEF WindowsAreSent, StoreIsRecent
<1>a. n <= MaxEntries /\ n <= published /\ (n < MaxEntries => n = published)
  BY DEF StoreIsRecent
<1>b. published \in Nat /\ MaxEntries \in Nat
  BY LiveAssumption DEF LiveTypeOK
<1>c. ~(published >= k + MaxEntries)
  OBVIOUS
<1> HIDE DEF k, n
<1>2. k - (published - n) \in 1 .. n
  BY <1>1, <1>a, <1>b, <1>c
<1> USE DEF k, n
<1>3. liveStore[k - (published - n)] = k
  BY <1>1, <1>2 DEF StoreIsRecent, LiveTypeOK
<1> QED
  BY <1>2, <1>3 DEF Contains

\* Hence what a slot shows is of the connection picked.
LEMMA SlotsAreTrue ==
    ASSUME LiveTypeOK, RunsAreOrdered
    PROVE  SlotsShowThePick
<1> SUFFICES ASSUME livePage.opened, \A q \in liveWire : q.run # latestRun, NEW b \in Blocks
             PROVE  Answered(b)
  BY DEF SlotsShowThePick, Answered
<1>1. Running
  BY DEF RunsAreOrdered, Listing, ListOf
<1>2. ~Asked(b)
  BY DEF Asked, ExecuteOf
<1> QED
  BY <1>1, <1>2 DEF Running

\* A run begins.
LEMMA RunBegins ==
    ASSUME LiveTypeOK, RunsAreOrdered, NEW page \in LivePages, page.opened, RunAll(page)
    PROVE  /\ latestRun' \in Nat /\ livePage' \in LivePages
           /\ liveWire' \subseteq ListRequests \cup ExecuteRequests
           /\ RunsAreOrdered'
<1>1. latestRun' = latestRun + 1 /\ livePage' = page /\ liveWire' = liveWire \cup {ListOf(latestRun + 1)}
  BY DEF RunAll, ListOf
<1>2. latestRun' \in Nat /\ ListOf(latestRun + 1) \in ListRequests
  BY <1>1 DEF LiveTypeOK, ListOf, ListRequests
<1>3. \A q \in liveWire : q.run <= latestRun /\ q.run \in Nat
  BY DEF LiveTypeOK, RunsAreOrdered, ListRequests, ExecuteRequests
<1>4. \A q \in liveWire' : q.run <= latestRun' /\ (q.run = latestRun' => q.kind = "list")
  BY <1>1, <1>3 DEF LiveTypeOK, ListOf
<1>5. Listing'
  BY <1>1, <1>4 DEF Listing
<1> QED
  BY <1>1, <1>2, <1>4, <1>5 DEF LiveTypeOK, RunsAreOrdered

\* A list request is known by its run.
LEMMA ListIs ==
    ASSUME NEW q \in ListRequests \cup ExecuteRequests, q.kind = "list" PROVE q = ListOf(q.run)
  BY DEF ListRequests, ExecuteRequests, ListOf

\* The connections arrive for the newest run.
LEMMA RunIsSent ==
    ASSUME LiveTypeOK, RunsAreOrdered, NEW q \in liveWire, q.run = latestRun, ListReplies(q)
    PROVE  LiveTypeOK' /\ RunsAreOrdered'
<1> DEFINE target == IF livePage.current \in liveSaved THEN livePage.current ELSE Default
           sent   == {ExecuteOf(latestRun, b, target) : b \in {c \in Blocks : LiveBlocks[c] # "blank"}}
<1>1. target \in LiveTargets
  BY DEF LiveTypeOK, LivePages, LiveTargets
<1>2. /\ livePage' = [livePage EXCEPT !.offered = liveSaved, !.current = target, !.picker = target]
      /\ liveSlots' = [b \in Blocks |-> IF LiveBlocks[b] = "blank" THEN <<Note>> ELSE <<>>]
      /\ liveWire' = (liveWire \ {q}) \cup sent
      /\ UNCHANGED <<exportVars, liveSaved, latestRun>>
  BY DEF ListReplies, ExecuteOf
<1>3. q.kind = "list"
  BY DEF ListReplies
<1>4. Listing
  BY <1>3 DEF RunsAreOrdered, Running
<1>5. \A p \in liveWire \ {q} : p.run # latestRun
  BY <1>3, <1>4, ListIs DEF Listing, LiveTypeOK
<1> HIDE DEF target
<1>6. /\ livePage' \in LivePages /\ livePage'.opened = livePage.opened /\ livePage'.picker = target
  BY <1>1, <1>2 DEF LiveTypeOK, LivePages
<1>7. sent \subseteq ExecuteRequests /\ \A p \in sent : p.run = latestRun
  BY <1>1 DEF LiveTypeOK, ExecuteOf, ExecuteRequests
<1>8. liveSlots' \in [Blocks -> Seq(RunOutcomes)]
  <2>1. <<Note>> \in Seq(RunOutcomes)
    BY DEF Note, RunOutcomes, LiveTargets
  <2> QED
    BY <1>2, <2>1, EmptySeq
<1>9. LiveTypeOK'
  BY <1>2, <1>6, <1>7, <1>8 DEF LiveTypeOK, exportVars
<1>10. \A b \in Blocks : LiveBlocks[b] # "blank" => Asked(b)'
  BY <1>2, <1>6 DEF Asked
<1>11. \A b \in Blocks : LiveBlocks[b] = "blank" => Answered(b)'
  BY <1>2 DEF Answered, Note
<1>12. \A p \in liveWire' : p.run = latestRun' => \E b \in Blocks : LiveBlocks[b] # "blank" /\ p = ExecuteOf(latestRun, b, target)
  BY <1>2, <1>5
<1>13. \A p \in liveWire' : p.run = latestRun' =>
         p.kind = "execute" /\ p.target = livePage'.picker /\ Asked(p.block)'
  BY <1>6, <1>10, <1>12 DEF ExecuteOf
<1>14. Running'
  BY <1>10, <1>11, <1>13 DEF Running
<1>15. livePage.opened
  BY DEF RunsAreOrdered
<1>16. \A p \in liveWire' : p.run <= latestRun'
  BY <1>2, <1>7 DEF RunsAreOrdered, LiveTypeOK
<1> QED
  BY <1>6, <1>9, <1>14, <1>15, <1>16 DEF RunsAreOrdered

\* The connections fail to arrive for the newest run.
LEMMA ListFailsStep ==
    ASSUME LiveTypeOK, RunsAreOrdered, NEW q \in liveWire, q.run = latestRun, ListFails(q)
    PROVE  LiveTypeOK' /\ RunsAreOrdered'
<1>1. /\ livePage' = [livePage EXCEPT !.offered = {}, !.picker = Default]
      /\ liveSlots' = [b \in Blocks |-> <<Unreached>>]
      /\ liveWire' = liveWire \ {q} /\ q.kind = "list"
      /\ UNCHANGED <<exportVars, liveSaved, latestRun>>
  BY DEF ListFails
<1>2. Listing
  BY <1>1 DEF RunsAreOrdered, Running
<1>3. \A p \in liveWire' : p.run # latestRun'
  BY <1>1, <1>2, ListIs DEF Listing, LiveTypeOK
<1>4. livePage' \in LivePages /\ livePage'.opened = livePage.opened
  BY <1>1 DEF LiveTypeOK, LivePages, LiveTargets
<1>5. <<Unreached>> \in Seq(RunOutcomes)
  BY DEF Unreached, RunOutcomes, LiveTargets
<1>6. LiveTypeOK'
  BY <1>1, <1>4, <1>5 DEF LiveTypeOK, exportVars
<1>7. \A b \in Blocks : Answered(b)'
  BY <1>1 DEF Answered, Unreached
<1>8. Running'
  BY <1>3, <1>7 DEF Running
<1> QED
  BY <1>1, <1>4, <1>6, <1>8 DEF RunsAreOrdered

\* A request of an earlier run is answered or fails.
LEMMA OvertakenStep ==
    ASSUME LiveTypeOK, RunsAreOrdered, NEW q \in liveWire, q.run # latestRun, liveWire' = liveWire \ {q},
           UNCHANGED <<exportVars, liveSaved, livePage, latestRun, liveSlots>>
    PROVE  LiveTypeOK' /\ RunsAreOrdered'
<1>1. LiveTypeOK'
  BY DEF LiveTypeOK, exportVars
<1>2. \A p \in liveWire : p.run = latestRun => p \in liveWire'
  OBVIOUS
<1>3. \A b \in Blocks : (Asked(b) => Asked(b)') /\ (Answered(b) => Answered(b)')
  BY <1>2 DEF Asked, Answered, ExecuteOf
<1>4. Listing => Listing'
  BY <1>2 DEF Listing, ListOf
<1>5. Running => Running'
  BY <1>3 DEF Running, LiveTypeOK, ListRequests, ExecuteRequests
<1> QED
  BY <1>1, <1>4, <1>5 DEF RunsAreOrdered

\* A block of the newest run is answered.
LEMMA BlockIsAnswered ==
    ASSUME LiveTypeOK, RunsAreOrdered, NEW q \in liveWire, q.run = latestRun, ExecuteReplies(q)
    PROVE  LiveTypeOK' /\ RunsAreOrdered'
<1> DEFINE c == q.block
<1>1. q.kind = "execute" /\ liveWire' = liveWire \ {q} /\ UNCHANGED <<exportVars, liveSaved, livePage, latestRun>>
  BY DEF ExecuteReplies
<1>2. q \in ExecuteRequests /\ c \in Blocks /\ livePage.opened
  BY <1>1 DEF LiveTypeOK, ListRequests, ExecuteRequests, RunsAreOrdered
<1>3. Running
  BY <1>1, <1>2 DEF RunsAreOrdered, Listing
<1>4. Asked(c) /\ q.target = livePage.picker /\ q = ExecuteOf(latestRun, c, livePage.picker)
  BY <1>1, <1>2, <1>3 DEF Running, ExecuteRequests, ExecuteOf
<1>5. PICK k \in {"rows", "error", "confirm"} :
        liveSlots' = [liveSlots EXCEPT ![c] = Append(@, [kind |-> k, target |-> q.target])]
  BY DEF ExecuteReplies, ClassifyReply
<1> DEFINE o == [kind |-> k, target |-> livePage.picker]
<1>6. o \in RunOutcomes
  BY DEF LiveTypeOK, LivePages, RunOutcomes
<1>7. liveSlots' = [liveSlots EXCEPT ![c] = <<o>>]
  BY <1>2, <1>4, <1>5 DEF Asked, LiveTypeOK
<1>8. LiveTypeOK'
  BY <1>1, <1>2, <1>6, <1>7 DEF LiveTypeOK, exportVars
<1>9. Answered(c)'
  BY <1>1, <1>2, <1>7 DEF Answered, LiveTypeOK
<1> HIDE DEF o, c
<1>10. \A b \in Blocks \ {c} : liveSlots'[b] = liveSlots[b]
  BY <1>7 DEF LiveTypeOK
<1>11. \A b \in Blocks \ {c} : ExecuteOf(latestRun, b, livePage.picker) \in liveWire => ExecuteOf(latestRun, b, livePage.picker) \in liveWire'
  BY <1>1, <1>4 DEF ExecuteOf
<1>12. \A b \in Blocks \ {c} : (Asked(b) => Asked(b)') /\ (Answered(b) => Answered(b)')
  BY <1>1, <1>10, <1>11 DEF Asked, Answered
<1>13. \A b \in Blocks : Asked(b)' \/ Answered(b)'
  BY <1>3, <1>9, <1>12 DEF Running
<1>14. \A p \in liveWire' : p.run = latestRun =>
         p.kind = "execute" /\ p.target = livePage.picker /\ p.block \in Blocks \ {c} /\ Asked(p.block)
  <2> SUFFICES ASSUME NEW p \in liveWire', p.run = latestRun
               PROVE  p.kind = "execute" /\ p.target = livePage.picker /\ p.block \in Blocks \ {c} /\ Asked(p.block)
    OBVIOUS
  <2>1. p.kind = "execute" /\ p.target = livePage.picker /\ Asked(p.block) /\ p # q /\ p \in ExecuteRequests
    BY <1>1, <1>3 DEF Running, LiveTypeOK, ListRequests, ExecuteRequests
  <2>2. p = ExecuteOf(latestRun, p.block, livePage.picker)
    BY <2>1 DEF ExecuteRequests, ExecuteOf
  <2> QED
    BY <1>4, <2>1, <2>2 DEF ExecuteRequests
<1>15. Running'
  BY <1>1, <1>12, <1>13, <1>14 DEF Running
<1> QED
  BY <1>1, <1>8, <1>15 DEF RunsAreOrdered

\* The page is not concerned.
LEMMA PageRests ==
    ASSUME RunsAreOrdered, UNCHANGED pageVars
    PROVE  RunsAreOrdered'
  BY DEF RunsAreOrdered, Listing, Running, Asked, Answered, pageVars

\* The registry is not concerned.
LEMMA StoreRests ==
    ASSUME StoreIsRecent, UNCHANGED <<liveStore, published>> PROVE StoreIsRecent'
  BY DEF StoreIsRecent

\* Every step keeps the invariant.
LEMMA LiveStep ==
    ASSUME LiveInv, [LiveNext]_liveVars
    PROVE  LiveInv'
<1> USE DEF LiveInv
<1>1. CASE UNCHANGED liveVars
  BY <1>1, PageRests, StoreRests DEF liveVars, pageVars, LiveTypeOK, WindowsAreSent
<1>2. ASSUME NEW popup \in BOOLEAN, ExportLive(popup) PROVE LiveInv'
  <2> DEFINE w == [state |-> IF popup THEN "blank" ELSE "blocked", link |-> 0]
  <2>1. w \in Windows /\ w.state # "linked"
    BY DEF Windows
  <2>2. windows' = Append(windows, w)
    BY <1>2 DEF ExportLive
  <2> HIDE DEF w
  <2>3. windows' \in Seq(Windows) /\ windows' # <<>>
    BY <2>1, <2>2, AppendProperties DEF LiveTypeOK
  <2>4. \A i \in DOMAIN windows' : windows'[i].state = "linked" =>
          i \in DOMAIN windows /\ windows'[i] = windows[i]
    BY <2>1, <2>2 DEF LiveTypeOK
  <2>5. WindowsAreSent'
    BY <1>2, <2>3, <2>4 DEF ExportLive, WindowsAreSent
  <2> QED
    BY <1>2, <2>3, <2>5, PageRests, StoreRests DEF ExportLive, LiveTypeOK, pageVars
<1>3. ASSUME NEW w \in Windows, w.state = "linked" => w.link \in 1 .. published', published' >= published,
             windows # <<>>, published' \in Nat, exporting' # "publishing", SendWindow(w.state, w.link)
      PROVE  windows' \in Seq(Windows) /\ WindowsAreSent'
  <2> DEFINE n == Len(windows)
             v == IF windows[n].state = "blank" THEN w ELSE windows[n]
  <2>1. n \in DOMAIN windows /\ windows[n] \in Windows
    BY <1>3 DEF LiveTypeOK
  <2>2. [state |-> w.state, link |-> w.link] = w
    BY DEF Windows
  <2>3. windows' = [windows EXCEPT ![n] = v] /\ v \in Windows
    BY <1>3, <2>1, <2>2 DEF SendWindow
  <2>4. v.state = "linked" => v.link \in 1 .. published'
    BY <1>3, <2>1 DEF WindowsAreSent, LiveTypeOK
  <2> HIDE DEF v, n
  <2>5. windows' \in Seq(Windows) /\ Len(windows') = Len(windows)
        /\ \A i \in 1 .. Len(windows) : windows'[i] = IF i = n THEN v ELSE windows[i]
    BY <2>1, <2>3, ExceptSeq DEF LiveTypeOK
  <2>6. DOMAIN windows = 1 .. Len(windows) /\ DOMAIN windows' = 1 .. Len(windows)
    BY <2>5, LenProperties DEF LiveTypeOK
  <2> QED
    BY <1>3, <2>4, <2>5, <2>6 DEF WindowsAreSent, LiveTypeOK
<1>4. ASSUME NEW replied \in BOOLEAN, Publish(replied) PROVE LiveInv'
  <2>1. StoreIsRecent' /\ published' \in Nat /\ published' >= published
    BY <1>4, StoreStep DEF Publish, LiveTypeOK
  <2>2. windows # <<>>
    BY <1>4 DEF Publish, WindowsAreSent
  <2> DEFINE w == IF replied THEN [state |-> "linked", link |-> published + 1] ELSE [state |-> "closed", link |-> 0]
  <2>3. w \in Windows /\ (w.state = "linked" => w.link \in 1 .. published') /\ SendWindow(w.state, w.link)
        /\ exporting' \in {"no", "downloading"}
    BY <1>4 DEF Publish, Windows, LiveTypeOK
  <2> HIDE DEF w
  <2>4. windows' \in Seq(Windows) /\ WindowsAreSent'
    BY <1>3, <2>1, <2>2, <2>3
  <2> QED
    BY <1>4, <2>1, <2>3, <2>4, PageRests DEF Publish, LiveTypeOK, pageVars
<1>5. CASE PublishFails
  <2> DEFINE w == [state |-> "closed", link |-> 0]
  <2>1. windows # <<>>
    BY <1>5 DEF PublishFails, WindowsAreSent
  <2>2. w \in Windows /\ w.state # "linked" /\ SendWindow(w.state, w.link) /\ exporting' = "no"
        /\ published' = published
    BY <1>5 DEF PublishFails, Windows
  <2> HIDE DEF w
  <2>3. windows' \in Seq(Windows) /\ WindowsAreSent'
    BY <1>3, <2>1, <2>2 DEF LiveTypeOK
  <2> QED
    BY <1>5, <2>2, <2>3, PageRests, StoreRests DEF PublishFails, LiveTypeOK, pageVars
<1>6. CASE Download
  BY <1>6, PageRests, StoreRests DEF Download, LiveTypeOK, pageVars, WindowsAreSent
<1>7. CASE Refresh
  <2>1. livePage \in LivePages
    BY DEF LiveTypeOK
  <2>2. LiveTypeOK' /\ RunsAreOrdered'
    BY <1>7, <2>1, RunBegins DEF Refresh, LiveTypeOK, exportVars
  <2> QED
    BY <1>7, <2>2, StoreRests DEF Refresh, exportVars, WindowsAreSent
<1>8. ASSUME NEW c \in LiveConns \cup {Default}, Pick(c) PROVE LiveInv'
  <2> DEFINE page == [livePage EXCEPT !.current = c, !.picker = c]
  <2>1. page \in LivePages /\ page.opened
    BY <1>8 DEF Pick, LiveTypeOK, LivePages, LiveTargets
  <2>2. RunAll(page)
    BY <1>8 DEF Pick
  <2> HIDE DEF page
  <2>3. LiveTypeOK' /\ RunsAreOrdered'
    BY <1>8, <2>1, <2>2, RunBegins DEF Pick, LiveTypeOK, exportVars
  <2> QED
    BY <1>8, <2>3, StoreRests DEF Pick, exportVars, WindowsAreSent
<1>9. ASSUME NEW i \in DOMAIN windows, OpenLink(i) PROVE LiveInv'
  <2>1. PICK state \in {"page", "unknown"} : windows' = [windows EXCEPT ![i].state = state]
    BY <1>9 DEF OpenLink
  <2> DEFINE v == [windows[i] EXCEPT !.state = state]
  <2> DEFINE x == windows[i]
  <2>2. v \in Windows /\ v.state # "linked"
    <3>1. x \in Windows
      BY DEF LiveTypeOK
    <3>2. v = [x EXCEPT !.state = state]
      OBVIOUS
    <3> HIDE DEF x
    <3> QED
      BY <3>1, <3>2 DEF Windows
  <2>3. windows' = [windows EXCEPT ![i] = v] /\ DOMAIN windows = 1 .. Len(windows)
    BY <2>1, LenProperties DEF LiveTypeOK
  <2> HIDE DEF v
  <2>4. windows' \in Seq(Windows) /\ Len(windows') = Len(windows)
        /\ \A j \in 1 .. Len(windows) : windows'[j] = IF j = i THEN v ELSE windows[j]
    BY <2>2, <2>3, ExceptSeq DEF LiveTypeOK
  <2>5. DOMAIN windows' = 1 .. Len(windows)
    BY <2>4, LenProperties
  <2>6. WindowsAreSent'
    BY <1>9, <2>2, <2>3, <2>4, <2>5 DEF OpenLink, WindowsAreSent
  <2>7. CASE UNCHANGED <<livePage, latestRun, liveWire>>
    BY <1>9, <2>4, <2>6, <2>7, PageRests, StoreRests DEF OpenLink, LiveTypeOK, pageVars
  <2>8. CASE RunAll([livePage EXCEPT !.opened = TRUE])
    <3> DEFINE page == [livePage EXCEPT !.opened = TRUE]
    <3>1. page \in LivePages /\ page.opened
      BY DEF LiveTypeOK, LivePages
    <3> HIDE DEF page
    <3>2. LiveTypeOK' /\ RunsAreOrdered'
      BY <1>9, <2>4, <2>8, <3>1, RunBegins DEF OpenLink, LiveTypeOK, page
    <3> QED
      BY <1>9, <2>6, <3>2, StoreRests DEF OpenLink
  <2> QED
    BY <1>9, <2>7, <2>8 DEF OpenLink
<1>10. ASSUME NEW q \in liveWire, ListFails(q) \/ ListReplies(q) \/ ExecuteReplies(q) PROVE LiveInv'
  <2>1. LiveTypeOK' /\ RunsAreOrdered'
    <3>1. CASE q.run = latestRun
      BY <1>10, <3>1, ListFailsStep, RunIsSent, BlockIsAnswered
    <3>2. CASE q.run # latestRun
      BY <1>10, <3>2, OvertakenStep DEF ListFails, ListReplies, ExecuteReplies, exportVars
    <3> QED
      BY <3>1, <3>2
  <2> QED
    BY <1>10, <2>1, StoreRests DEF ListFails, ListReplies, ExecuteReplies, exportVars, WindowsAreSent
<1>11. ASSUME NEW c \in LiveConns, DeleteSaved(c) PROVE LiveInv'
  BY <1>11, PageRests, StoreRests DEF DeleteSaved, LiveTypeOK, pageVars, exportVars, WindowsAreSent
<1> QED
  BY <1>1, <1>2, <1>4, <1>5, <1>6, <1>7, <1>8, <1>9, <1>10, <1>11 DEF LiveNext

\* A link once opened leads to its report until newer ones push it out, and a
\* live page shows what the connection picked answered, in whatever order the
\* answers come.
THEOREM LivePagesHold == LiveSpec => []LivePagesAreTrue
<1>1. LiveInit => LiveInv
  BY LiveInvInit
<1>2. LiveInv /\ [LiveNext]_liveVars => LiveInv'
  BY LiveStep
<1>3. LiveInv => LivePagesAreTrue
  BY SlotsAreTrue, LinksAreKnown DEF LiveInv, LivePagesAreTrue
<1> QED
  BY <1>1, <1>2, <1>3, PTL DEF LiveSpec

-----------------------------------------------------------------------------
(* FrozenReport: from an answer to a file that shows it.                    *)

\* What a driver returns in a cell.
CellValues == {"null", "boolean", "number", "nan", "text", "digits", "date", "far", "no date", "bytes"}

\* An answer of the database.
IsAnswer(a) ==
    /\ Len(a.rows) \in Nat /\ DOMAIN a.rows = 1 .. Len(a.rows)
    /\ \A i \in DOMAIN a.rows : \A c \in DOMAIN a.types : a.rows[i][c].js \in CellValues

\* The kind of a column, and what its cells become on their way to the page.
ColumnKind(a, c) ==
    IF IsNaiveDateTimeType(a.types[c]) THEN "string"
    ELSE InferColumnKind([i \in DOMAIN a.rows |-> a.rows[i][c]])

\* What a cell becomes on its way to the page.
TaggedCell(a, i, c) == CellFor(a.rows[i][c], ColumnKind(a, c), IsNaiveDateTimeType(a.types[c]))

\* What an answer becomes.
Wired(a) == OverTheWire(RowsToFrozenData(a.types, a.rows))

\* A tagged cell, by its fields.
IsCell(x) == x = [kind |-> x.kind, of |-> x.of, as |-> x.as]

\* A cell tagged for the value v, in a column of this kind.
IsTagged(x, v, kind, naive) ==
    /\ IsCell(x) /\ x.of = v /\ v.js \in CellValues
    /\ kind \in {"boolean", "number", "date", "string"} /\ x.kind \in {"null", kind}
    /\ x.kind = "null" <=> v.js = "null"
    /\ x.kind = "number" => v.js = "number"
    /\ x.kind = "date" => ~naive /\ v.js \in {"date", "far"} /\ x.as = "iso"
    /\ x.as \in {"none", "wall clock", "iso", "value", "text"}
    /\ v.js \in {"date", "far"} => x.as = IF naive THEN "wall clock" ELSE "iso"

\* A result with the columns and the cells of an answer.
IsTaggedTable(d, a) ==
    /\ DOMAIN d.columns = DOMAIN a.types /\ DOMAIN d.rows = DOMAIN a.rows
    /\ d = [columns |-> d.columns, rows |-> d.rows]
    /\ \A c \in DOMAIN a.types : d.columns[c].type = ColumnKind(a, c)
    /\ \A i \in DOMAIN a.rows : /\ DOMAIN d.rows[i] = DOMAIN a.types
                                /\ \A c \in DOMAIN a.types : d.rows[i][c] = TaggedCell(a, i, c)

\* A block, by its fields.
IsQueryBlock(b) ==
    b = [result |-> b.result, note |-> b.note, truncated |-> b.truncated, view |-> b.view,
         chart |-> b.chart]

\* A block shows its answer, or a note.
ShowsAnswer(b, a) ==
    /\ IsQueryBlock(b)
    /\ b.result # NoResult => IsAnswer(a) /\ b.result = Wired(a)

\* A file has the block of the moment export was pressed, or what an editor made of it.
IsFileOf(f, b) ==
    \/ f = [form |-> "saved", block |-> ToSnapshotBlock(b)]
    \/ f.form \in {"no json", "other version"}
    \/ /\ f.form \in {"microseconds", "other tag"}
       /\ ToSnapshotBlock(b).kind \in {"table", "chart"}
       /\ f = [form |-> f.form, block |-> EditFrozenBlock(f.form, ToSnapshotBlock(b))]

\* The inductive invariant: the block shows the last answer, what is exported
\* is what was clicked, and the file has it.
FrozenInv ==
    /\ ShowsAnswer(queryBlock, dbAnswer) /\ ShowsAnswer(clicked.block, clicked.answer)
    /\ freezing.on => freezing.block = clicked.block
    /\ frozenFile # NoFile => IsFileOf(frozenFile, clicked.block)

\* The kinds of a cell's value.
LEMMA NaturalKinds ==
    ASSUME NEW v, v.js \in CellValues
    PROVE  /\ NaturalKind(v) \in {"unknown", "boolean", "number", "date", "string"}
           /\ NaturalKind(v) = "unknown" <=> v.js = "null"
           /\ NaturalKind(v) = "boolean" <=> v.js = "boolean"
           /\ NaturalKind(v) = "number" <=> v.js = "number"
           /\ NaturalKind(v) = "date" <=> v.js \in {"date", "far"}
  BY DEF NaturalKind, CellValues

\* A column is of the kind its values share, null aside.
LEMMA ColumnKinds ==
    ASSUME NEW column, \A i \in DOMAIN column : column[i].js \in CellValues
    PROVE  LET k == InferColumnKind(column)
           IN  /\ k \in {"boolean", "number", "date", "string"}
               /\ k # "string" => \A i \in DOMAIN column : NaturalKind(column[i]) \in {k, "unknown"}
<1> DEFINE kinds == {NaturalKind(column[i]) : i \in DOMAIN column} \ {"unknown"}
           k == InferColumnKind(column)
<1>1. \A i \in DOMAIN column : NaturalKind(column[i]) \in {"unknown", "boolean", "number", "date", "string"}
  BY NaturalKinds
<1>2. kinds \subseteq {"boolean", "number", "date", "string"}
  BY <1>1
<1>3. IsFiniteSet(kinds)
  <2>1. IsFiniteSet({"boolean", "number", "date", "string"})
    <3>1. IsFiniteSet({"boolean"} \cup {"number"} \cup {"date"} \cup {"string"})
      <4>1. IsFiniteSet({"boolean"})
        BY FS_Singleton
      <4>2. IsFiniteSet({"boolean"} \cup {"number"})
        BY <4>1, FS_AddElement
      <4>3. IsFiniteSet({"boolean"} \cup {"number"} \cup {"date"})
        BY <4>2, FS_AddElement
      <4> QED
        BY <4>3, FS_AddElement
    <3>2. {"boolean"} \cup {"number"} \cup {"date"} \cup {"string"} = {"boolean", "number", "date", "string"}
      OBVIOUS
    <3> QED
      BY <3>1, <3>2
  <2> QED
    BY <1>2, <2>1, FS_Subset
<1>4. k = IF Cardinality(kinds) = 1 THEN CHOOSE x \in kinds : TRUE ELSE "string"
  BY DEF InferColumnKind
<1>5. CASE Cardinality(kinds) = 1
  <2>1. PICK x : kinds = {x}
    BY <1>3, <1>5, FS_Singleton
  <2>2. k = x
    BY <1>4, <1>5, <2>1
  <2>3. \A i \in DOMAIN column : NaturalKind(column[i]) \in {x, "unknown"}
    BY <2>1
  <2> QED
    BY <1>2, <2>1, <2>2, <2>3
<1>6. CASE Cardinality(kinds) # 1
  BY <1>4, <1>6
<1> QED
  BY <1>5, <1>6

\* What a cell is tagged with, by its value and the kind of its column.
LEMMA TaggedCells ==
    ASSUME NEW a, IsAnswer(a), NEW i \in DOMAIN a.rows, NEW c \in DOMAIN a.types
    PROVE  IsTagged(TaggedCell(a, i, c), a.rows[i][c], ColumnKind(a, c), IsNaiveDateTimeType(a.types[c]))
<1> DEFINE column == [j \in DOMAIN a.rows |-> a.rows[j][c]]
           kind == ColumnKind(a, c)
           v == a.rows[i][c]
           naive == IsNaiveDateTimeType(a.types[c])
           x == TaggedCell(a, i, c)
<1>1. v.js \in CellValues /\ \A j \in DOMAIN column : column[j].js \in CellValues
  BY DEF IsAnswer
<1>2. /\ InferColumnKind(column) \in {"boolean", "number", "date", "string"}
      /\ InferColumnKind(column) # "string" =>
           \A j \in DOMAIN column : NaturalKind(column[j]) \in {InferColumnKind(column), "unknown"}
  BY <1>1, ColumnKinds
<1>3. column[i] = v /\ i \in DOMAIN column
  OBVIOUS
<1>4. /\ kind \in {"boolean", "number", "date", "string"} /\ (naive => kind = "string")
      /\ kind # "string" => NaturalKind(v) \in {kind, "unknown"}
  BY <1>2, <1>3 DEF ColumnKind
<1>5. /\ kind = "boolean" => v.js \in {"boolean", "null"}
      /\ kind = "number" => v.js \in {"number", "null"}
      /\ kind = "date" => v.js \in {"date", "far", "null"}
  BY <1>1, <1>4, NaturalKinds
<1>6. naive \in BOOLEAN
  BY DEF IsNaiveDateTimeType
<1>7. x = CellFor(v, kind, naive)
  BY DEF TaggedCell
<1> HIDE DEF v, kind, naive, x, column
<1> SUFFICES IsTagged(x, v, kind, naive)
  BY DEF v, kind, naive, x
<1>8. CASE v.js = "null"
  <2>1. x = [kind |-> "null", of |-> v, as |-> "none"]
    BY <1>7, <1>8 DEF CellFor
  <2> QED
    BY <1>1, <1>4, <1>8, <2>1 DEF IsCell, IsTagged
<1>9. CASE v.js # "null" /\ naive /\ v.js \in {"date", "far"}
  <2>1. x = [kind |-> "string", of |-> v, as |-> "wall clock"]
    BY <1>7, <1>9 DEF CellFor
  <2> QED
    BY <1>1, <1>4, <1>9, <2>1 DEF IsCell, IsTagged
<1>10. CASE v.js # "null" /\ ~naive /\ kind = "date"
  <2>1. x = [kind |-> "date", of |-> v, as |-> "iso"]
    BY <1>5, <1>7, <1>10 DEF CellFor
  <2> QED
    BY <1>1, <1>4, <1>5, <1>10, <2>1 DEF IsCell, IsTagged
<1>11. CASE v.js # "null" /\ kind \in {"number", "boolean"}
  <2>1. v.js = kind /\ ~naive
    BY <1>4, <1>5, <1>11
  <2>2. x = [kind |-> kind, of |-> v, as |-> "value"]
    BY <1>7, <1>11, <2>1 DEF CellFor
  <2> QED
    BY <1>1, <1>4, <1>11, <2>1, <2>2 DEF IsCell, IsTagged
<1>12. CASE v.js # "null" /\ kind = "string" /\ ~(naive /\ v.js \in {"date", "far"})
  <2>1. x = [kind |-> "string", of |-> v, as |-> IF v.js \in {"date", "far"} THEN "iso" ELSE "text"]
    BY <1>7, <1>12 DEF CellFor
  <2> QED
    BY <1>1, <1>4, <1>12, <2>1 DEF IsCell, IsTagged
<1> QED
  BY <1>4, <1>6, <1>8, <1>9, <1>10, <1>11, <1>12

\* The result of an answer.
LEMMA WiredIs == ASSUME NEW a, IsAnswer(a) PROVE IsTaggedTable(Wired(a), a)
<1> DEFINE r == RowsToFrozenData(a.types, a.rows)
           d == Wired(a)
<1>1. DOMAIN r.columns = DOMAIN a.types /\ DOMAIN r.rows = DOMAIN a.rows
  BY DEF RowsToFrozenData
<1>2. \A c \in DOMAIN a.types : r.columns[c].type = ColumnKind(a, c)
  BY DEF RowsToFrozenData, ColumnKind
<1>3. ASSUME NEW i \in DOMAIN a.rows
      PROVE  DOMAIN r.rows[i] = DOMAIN a.types /\ \A c \in DOMAIN a.types : r.rows[i][c] = TaggedCell(a, i, c)
  BY DEF RowsToFrozenData, ColumnKind, TaggedCell
<1>4. r = [columns |-> r.columns, rows |-> r.rows]
  BY DEF RowsToFrozenData
<1>5. d = [r EXCEPT !.rows = [i \in DOMAIN r.rows |-> [c \in DOMAIN r.rows[i] |-> CellOnTheWire(r.rows[i][c])]]]
  BY DEF Wired, OverTheWire, MapCells
<1> HIDE DEF r, d
<1>6. d.columns = r.columns
      /\ d.rows = [i \in DOMAIN r.rows |-> [c \in DOMAIN r.rows[i] |-> CellOnTheWire(r.rows[i][c])]]
      /\ d = [columns |-> d.columns, rows |-> d.rows]
  BY <1>4, <1>5
<1>7. ASSUME NEW i \in DOMAIN a.rows, NEW c \in DOMAIN a.types
      PROVE  CellOnTheWire(r.rows[i][c]) = TaggedCell(a, i, c)
  <2>1. PICK x : x = TaggedCell(a, i, c)
    OBVIOUS
  <2>2. IsTagged(x, a.rows[i][c], ColumnKind(a, c), IsNaiveDateTimeType(a.types[c]))
    BY <2>1, TaggedCells
  <2>3. CellOnTheWire(x) = x
    BY <2>2 DEF CellOnTheWire, IsTagged
  <2> QED
    BY <1>3, <2>1, <2>3
<1>8. ASSUME NEW i \in DOMAIN a.rows
      PROVE  DOMAIN d.rows[i] = DOMAIN a.types /\ \A c \in DOMAIN a.types : d.rows[i][c] = TaggedCell(a, i, c)
  BY <1>1, <1>3, <1>6, <1>7
<1> QED
  BY <1>1, <1>2, <1>6, <1>8 DEF d, IsTaggedTable

\* It can be saved unless it has a column of dates with a far one among them.
LEMMA Encodable ==
    ASSUME NEW a, IsAnswer(a), NEW d, IsTaggedTable(d, a), ~HasFarDate(a)
    PROVE  Encodes(d)
<1> SUFFICES ASSUME NEW i \in DOMAIN a.rows, NEW c \in DOMAIN a.types
             PROVE  /\ d.rows[i][c].kind \in {"null", d.columns[c].type}
                    /\ EncodesCell(d.rows[i][c])
  BY DEF Encodes, AssertWellFormed, IsTaggedTable
<1> DEFINE naive == IsNaiveDateTimeType(a.types[c])
<1>1. PICK x : x = TaggedCell(a, i, c)
  OBVIOUS
<1>2. d.rows[i][c] = x /\ d.columns[c].type = ColumnKind(a, c)
  BY <1>1 DEF IsTaggedTable
<1>3. IsTagged(x, a.rows[i][c], ColumnKind(a, c), naive)
  BY <1>1, TaggedCells
<1>4. ASSUME x.kind = "date", a.rows[i][c].js = "far" PROVE FALSE
  <2>1. ~naive /\ ColumnKind(a, c) = "date"
    BY <1>3, <1>4 DEF IsTagged
  <2>2. \A j \in DOMAIN a.rows : a.rows[j][c].js \in {"null", "date", "far"}
    <3> SUFFICES ASSUME NEW j \in DOMAIN a.rows PROVE a.rows[j][c].js \in {"null", "date", "far"}
      OBVIOUS
    <3>1. PICK y : y = TaggedCell(a, j, c)
      OBVIOUS
    <3>2. IsTagged(y, a.rows[j][c], "date", naive)
      BY <2>1, <3>1, TaggedCells
    <3> QED
      BY <3>2 DEF IsTagged
  <2> QED
    BY <1>4, <2>1, <2>2 DEF HasFarDate
<1>5. EncodesCell(x)
  BY <1>3, <1>4 DEF IsTagged, EncodesCell
<1> QED
  BY <1>2, <1>3, <1>5 DEF IsTagged

\* What the opened file shows of cells that are as they were tagged.
ShowsCells(e, a) ==
    /\ DOMAIN e.columns = DOMAIN a.types /\ DOMAIN e.rows = DOMAIN a.rows
    /\ \A i \in DOMAIN a.rows : \A c \in DOMAIN a.types : e.rows[i][c] = TaggedCell(a, i, c)

\* They are shown as texts that stand for the values.
LEMMA TableIsShown ==
    ASSUME NEW a, IsAnswer(a), NEW e, ShowsCells(e, a)
    PROVE  /\ Len(FrozenTable(e)) = Len(a.rows) /\ Len(FrozenToRecords(e)) = Len(a.rows)
           /\ \A i \in DOMAIN a.rows : \A c \in DOMAIN a.types :
                StandsFor(FrozenTable(e)[i][c], a.rows[i][c], a.types[c])
<1>1. DOMAIN e.rows = 1 .. Len(a.rows) /\ Len(a.rows) \in Nat
  BY DEF ShowsCells, IsAnswer
<1>2. ASSUME NEW s, s = [i \in DOMAIN s |-> s[i]], DOMAIN s = DOMAIN e.rows PROVE Len(s) = Len(a.rows)
  <2>1. s \in [1 .. Len(a.rows) -> {s[i] : i \in DOMAIN s}]
    BY <1>1, <1>2
  <2>2. s \in Seq({s[i] : i \in DOMAIN s})
    BY <1>1, <2>1
  <2>3. Len(s) \in Nat /\ DOMAIN s = 1 .. Len(s)
    BY <2>2, LenProperties
  <2> QED
    BY <1>1, <1>2, <2>3
<1>3. Len(FrozenTable(e)) = Len(a.rows)
  <2>1. PICK s : s = FrozenTable(e)
    OBVIOUS
  <2>2. s = [i \in DOMAIN s |-> s[i]] /\ DOMAIN s = DOMAIN e.rows
    BY <2>1 DEF FrozenTable
  <2> QED
    BY <1>2, <2>1, <2>2
<1>4. Len(FrozenToRecords(e)) = Len(a.rows)
  <2>1. PICK s : s = FrozenToRecords(e)
    OBVIOUS
  <2>2. s = [i \in DOMAIN s |-> s[i]] /\ DOMAIN s = DOMAIN e.rows
    BY <2>1 DEF FrozenToRecords
  <2> QED
    BY <1>2, <2>1, <2>2
<1>5. ASSUME NEW i \in DOMAIN a.rows, NEW c \in DOMAIN a.types
      PROVE  StandsFor(FrozenTable(e)[i][c], a.rows[i][c], a.types[c])
  <2>1. PICK x : x = TaggedCell(a, i, c)
    OBVIOUS
  <2>2. IsTagged(x, a.rows[i][c], ColumnKind(a, c), IsNaiveDateTimeType(a.types[c]))
    BY <2>1, TaggedCells
  <2>3. FrozenTable(e)[i][c] = FormatCell(x)
    BY <2>1 DEF FrozenTable, ShowsCells
  <2>4. FormatCell(x).of = a.rows[i][c]
        /\ FormatCell(x).as = IF x.kind = "null" THEN "placeholder" ELSE x.as
    BY <2>2 DEF FormatCell, IsTagged
  <2>5. IsNaiveDateTimeType(a.types[c]) \in BOOLEAN
    BY DEF IsNaiveDateTimeType
  <2> HIDE DEF IsNaiveDateTimeType
  <2> QED
    BY <2>2, <2>3, <2>4, <2>5 DEF IsTagged, StandsFor
<1> QED
  BY <1>3, <1>4, <1>5

\* Cells are changed where they are.
LEMMA MappedIs ==
    ASSUME NEW d, d = [columns |-> d.columns, rows |-> d.rows], NEW rows,
           NEW e, e = [d EXCEPT !.rows = rows]
    PROVE  e.columns = d.columns /\ e.rows = rows /\ e = [columns |-> e.columns, rows |-> e.rows]
  OBVIOUS

\* A result with its cells edited.
EditedCells(form, d) == MapCells(d, LAMBDA cell : EditFrozenCell(form, cell))

\* Decoding leaves the cells as they were tagged; it undoes what an editor did to
\* the dates.
LEMMA DecodedIs ==
    ASSUME NEW a, IsAnswer(a), NEW d, IsTaggedTable(d, a)
    PROVE  /\ Decode(d).columns = d.columns /\ ShowsCells(Decode(d), a)
           /\ ShowsCells(Decode(EditedCells("microseconds", d)), a)
<1>1. ASSUME NEW i \in DOMAIN a.rows, NEW c \in DOMAIN a.types
      PROVE  /\ DecodeCell(d.rows[i][c]) = TaggedCell(a, i, c)
             /\ DecodeCell(EditFrozenCell("microseconds", d.rows[i][c])) = TaggedCell(a, i, c)
  <2>1. PICK x : x = TaggedCell(a, i, c)
    OBVIOUS
  <2>2. IsTagged(x, a.rows[i][c], ColumnKind(a, c), IsNaiveDateTimeType(a.types[c]))
    BY <2>1, TaggedCells
  <2>3. d.rows[i][c] = x
    BY <2>1 DEF IsTaggedTable
  <2>4. DecodeCell(x) = x
    BY <2>2 DEF DecodeCell, IsTagged
  <2>5. DecodeCell(EditFrozenCell("microseconds", x)) = x
    <3>1. CASE x.kind = "date"
      <4>1. x.as = "iso" /\ IsCell(x)
        BY <2>2, <3>1 DEF IsTagged
      <4>2. PICK y : y = EditFrozenCell("microseconds", x)
        OBVIOUS
      <4>3. y = [kind |-> x.kind, of |-> x.of, as |-> "iso too precise"]
        BY <3>1, <4>1, <4>2 DEF EditFrozenCell, IsCell
      <4>4. DecodeCell(y) = [kind |-> x.kind, of |-> x.of, as |-> "iso"]
        BY <4>3 DEF DecodeCell
      <4> QED
        BY <4>1, <4>2, <4>4 DEF IsCell
    <3>2. CASE x.kind # "date"
      BY <2>4, <3>2 DEF EditFrozenCell
    <3> QED
      BY <3>1, <3>2
  <2> QED
    BY <2>1, <2>3, <2>4, <2>5
<1>2. d = [columns |-> d.columns, rows |-> d.rows]
  BY DEF IsTaggedTable
<1>3. Decode(d).columns = d.columns /\ ShowsCells(Decode(d), a)
  <2>1. PICK e : e = Decode(d)
    OBVIOUS
  <2>2. e = [d EXCEPT !.rows = [i \in DOMAIN d.rows |-> [c \in DOMAIN d.rows[i] |-> DecodeCell(d.rows[i][c])]]]
    BY <2>1 DEF Decode, MapCells
  <2>3. /\ e.columns = d.columns
        /\ e.rows = [i \in DOMAIN d.rows |-> [c \in DOMAIN d.rows[i] |-> DecodeCell(d.rows[i][c])]]
    BY <1>2, <2>2, MappedIs
  <2>4. ShowsCells(e, a)
    BY <1>1, <2>3 DEF ShowsCells, IsTaggedTable
  <2> QED
    BY <2>1, <2>3, <2>4
<1>4. PICK g : g = EditedCells("microseconds", d)
  OBVIOUS
<1>5. g = [d EXCEPT !.rows = [i \in DOMAIN d.rows |-> [c \in DOMAIN d.rows[i] |->
                                 EditFrozenCell("microseconds", d.rows[i][c])]]]
  BY <1>4 DEF MapCells, EditedCells
<1>6. /\ g.columns = d.columns /\ g = [columns |-> g.columns, rows |-> g.rows]
      /\ g.rows = [i \in DOMAIN d.rows |-> [c \in DOMAIN d.rows[i] |->
                                 EditFrozenCell("microseconds", d.rows[i][c])]]
  BY <1>2, <1>5, MappedIs
<1>7. ShowsCells(Decode(g), a)
  <2>1. PICK e : e = Decode(g)
    OBVIOUS
  <2>2. e = [g EXCEPT !.rows = [i \in DOMAIN g.rows |-> [c \in DOMAIN g.rows[i] |-> DecodeCell(g.rows[i][c])]]]
    BY <2>1 DEF Decode, MapCells
  <2>3. /\ e.columns = g.columns
        /\ e.rows = [i \in DOMAIN g.rows |-> [c \in DOMAIN g.rows[i] |-> DecodeCell(g.rows[i][c])]]
    BY <1>6, <2>2, MappedIs
  <2>4. ShowsCells(e, a)
    BY <1>1, <1>6, <2>3 DEF ShowsCells, IsTaggedTable
  <2> QED
    BY <2>1, <2>4
<1> QED
  BY <1>3, <1>4, <1>7

\* A block that was frozen as a table or a chart.
LEMMA FrozenBlockIs ==
    ASSUME NEW b, ToSnapshotBlock(b).kind \in {"table", "chart"}
    PROVE  /\ b.result # NoResult /\ Encodes(b.result)
           /\ ToSnapshotBlock(b) = [kind |-> ToSnapshotBlock(b).kind, data |-> b.result,
                                    truncated |-> b.truncated]
           /\ b.view = "table" => ToSnapshotBlock(b).kind = "table"
           /\ b.view = "chart" /\ b.chart # NoChart /\ ParseChartSpec(b.chart, b.result) # NoChart =>
                ToSnapshotBlock(b).kind = "chart"
<1>1. CASE b.result = NoResult
  BY <1>1 DEF ToSnapshotBlock
<1>2. CASE b.result # NoResult /\ ~Encodes(b.result)
  BY <1>2 DEF ToSnapshotBlock
<1>3. CASE b.result # NoResult /\ Encodes(b.result)
  <2> DEFINE chart == b.view = "chart" /\ b.chart # NoChart /\ ParseChartSpec(b.chart, b.result) # NoChart
  <2>1. ToSnapshotBlock(b) = [kind |-> IF chart THEN "chart" ELSE "table",
                              data |-> b.result, truncated |-> b.truncated]
    BY <1>3 DEF ToSnapshotBlock
  <2> QED
    BY <1>3, <2>1
<1> QED
  BY <1>1, <1>2, <1>3

\* What is drawn of such a block.
LEMMA RenderedIs ==
    ASSUME NEW s, NEW data, NEW truncated, NEW kind \in {"table", "chart"},
           s = [kind |-> kind, data |-> data, truncated |-> truncated]
    PROVE  RenderBlock(NormalizeSnapshotDoc(s)) =
             <<kind, IF kind = "table" THEN FrozenTable(Decode(data)) ELSE FrozenToRecords(Decode(data)),
               truncated>>
<1>1. PICK n : n = NormalizeSnapshotDoc(s)
  OBVIOUS
<1>2. PICK e : e = Decode(data)
  OBVIOUS
<1>3. n = [kind |-> kind, data |-> e, truncated |-> truncated]
  BY <1>1, <1>2 DEF NormalizeSnapshotDoc
<1> QED
  BY <1>1, <1>2, <1>3 DEF RenderBlock

\* A page that opened is a page, not the note that it could not be.
LEMMA OpenedIs ==
    /\ \A x : <<"prose", x>> # Fallback /\ <<"prose", x>>[2] = x
    /\ \A f : MountSnapshot(f) = IF IsSnapshotDoc(f)
                                 THEN <<"prose", RenderBlock(NormalizeSnapshotDoc(f.block))>>
                                 ELSE Fallback
  BY DEF Fallback, MountSnapshot

\* What FrozenFileIsTrue says of a file f, the block b and the answer a.
SavedShows(f, b, a) ==
    LET openedPage == MountSnapshot(f)
        p          == openedPage[2]
    IN  /\ openedPage # Fallback
        /\ b.result = NoResult => p = <<IF b.note = "info" THEN "info" ELSE "no data">>
        /\ b.result # NoResult /\ ~HasFarDate(a) =>
             /\ p[1] \in {"table", "chart"} /\ p[3] = b.truncated
             /\ Len(p[2]) = Len(a.rows)
             /\ p[1] = "table" => \A i \in DOMAIN a.rows : \A c \in DOMAIN a.types :
                                    StandsFor(p[2][i][c], a.rows[i][c], a.types[c])
             /\ b.view = "table" => p[1] = "table"
             /\ b.view = "chart" /\ b.chart # NoChart /\ MapChart(b.result, b.chart) =>
                  p = <<"chart", FrozenToRecords(b.result), b.truncated>>

EditedShows(f, a) ==
    LET openedPage == MountSnapshot(f)
        p          == openedPage[2]
    IN  \/ openedPage = Fallback
        \/ f.form = "microseconds" /\ (p[1] = "table" =>
             \A i \in DOMAIN a.rows : \A c \in DOMAIN a.types :
               StandsFor(p[2][i][c], a.rows[i][c], a.types[c]))
        \/ f.form = "other tag" /\ \A i \in DOMAIN a.rows : \A c \in DOMAIN a.types :
             a.rows[i][c].js = "null"

\* A file that was not edited shows the block.
LEMMA SavedIsTrue ==
    ASSUME NEW f, NEW b, NEW a, ShowsAnswer(b, a), IsFileOf(f, b), f.form = "saved"
    PROVE  SavedShows(f, b, a)
<1>1. PICK s : s = ToSnapshotBlock(b)
  OBVIOUS
<1>2. f.block = s
  <2>1. f = [form |-> "saved", block |-> ToSnapshotBlock(b)]
    BY DEF IsFileOf
  <2>2. f = [form |-> "saved", block |-> s]
    BY <1>1, <2>1
  <2> QED
    BY <2>2
<1>3. s.kind \in {"table", "chart"} => Encodes(s.data)
  <2> SUFFICES ASSUME s.kind \in {"table", "chart"} PROVE Encodes(s.data)
    OBVIOUS
  <2>1. ToSnapshotBlock(b).kind \in {"table", "chart"}
    BY <1>1
  <2>2. Encodes(b.result) /\ s = [kind |-> s.kind, data |-> b.result, truncated |-> b.truncated]
    BY <1>1, <2>1, FrozenBlockIs
  <2>3. s.data = b.result
    BY <2>2
  <2> QED
    BY <2>2, <2>3
<1>4. PICK p : p = RenderBlock(NormalizeSnapshotDoc(s))
  OBVIOUS
<1>5. MountSnapshot(f) = <<"prose", p>>
  BY <1>2, <1>3, <1>4, OpenedIs DEF IsSnapshotDoc
<1>6. MountSnapshot(f) # Fallback /\ MountSnapshot(f)[2] = p
  BY <1>5, OpenedIs
<1>7. ASSUME b.result = NoResult PROVE p = <<IF b.note = "info" THEN "info" ELSE "no data">>
  <2>1. PICK note \in {"info", "no data"} : note = IF b.note = "info" THEN "info" ELSE "no data"
    OBVIOUS
  <2>2. s = [kind |-> note]
    BY <1>1, <1>7, <2>1 DEF ToSnapshotBlock
  <2>3. s.kind = note /\ NormalizeSnapshotDoc(s) = s
    BY <2>2 DEF NormalizeSnapshotDoc
  <2>4. RenderBlock(s) = <<note>>
    BY <2>1, <2>3 DEF RenderBlock
  <2> QED
    BY <1>4, <2>1, <2>3, <2>4
<1>8. ASSUME b.result # NoResult, ~HasFarDate(a)
      PROVE  /\ p[1] \in {"table", "chart"} /\ p[3] = b.truncated
             /\ Len(p[2]) = Len(a.rows)
             /\ p[1] = "table" => \A i \in DOMAIN a.rows : \A c \in DOMAIN a.types :
                                    StandsFor(p[2][i][c], a.rows[i][c], a.types[c])
             /\ b.view = "table" => p[1] = "table"
             /\ b.view = "chart" /\ b.chart # NoChart /\ MapChart(b.result, b.chart) =>
                  p = <<"chart", FrozenToRecords(b.result), b.truncated>>
  <2>1. PICK d : d = b.result
    OBVIOUS
  <2>2. IsAnswer(a) /\ IsTaggedTable(d, a)
    BY <1>8, <2>1, WiredIs DEF ShowsAnswer
  <2>3. Encodes(d)
    BY <1>8, <2>2, Encodable
  <2>4. s.kind \in {"table", "chart"}
    BY <1>1, <1>8, <2>1, <2>3 DEF ToSnapshotBlock
  <2>5. PICK k \in {"table", "chart"} : k = s.kind
    BY <2>4
  <2>6. /\ s = [kind |-> k, data |-> d, truncated |-> b.truncated]
        /\ b.view = "table" => k = "table"
        /\ b.view = "chart" /\ b.chart # NoChart /\ ParseChartSpec(b.chart, d) # NoChart => k = "chart"
    <3>1. ToSnapshotBlock(b).kind \in {"table", "chart"}
      BY <1>1, <2>4
    <3>2. /\ s = [kind |-> s.kind, data |-> b.result, truncated |-> b.truncated]
          /\ b.view = "table" => s.kind = "table"
          /\ b.view = "chart" /\ b.chart # NoChart /\ ParseChartSpec(b.chart, b.result) # NoChart =>
               s.kind = "chart"
      BY <1>1, <3>1, FrozenBlockIs
    <3> QED
      BY <2>1, <2>5, <3>2
  <2>7. PICK e : e = Decode(d)
    OBVIOUS
  <2>8. p = <<k, IF k = "table" THEN FrozenTable(e) ELSE FrozenToRecords(e), b.truncated>>
    <3>1. RenderBlock(NormalizeSnapshotDoc(s)) =
            <<k, IF k = "table" THEN FrozenTable(Decode(d)) ELSE FrozenToRecords(Decode(d)), b.truncated>>
      BY <2>6, RenderedIs
    <3> QED
      BY <1>4, <2>7, <3>1
  <2>9. e.columns = d.columns /\ ShowsCells(e, a)
    BY <2>2, <2>7, DecodedIs
  <2>10. /\ Len(FrozenTable(e)) = Len(a.rows) /\ Len(FrozenToRecords(e)) = Len(a.rows)
         /\ \A i \in DOMAIN a.rows : \A c \in DOMAIN a.types :
               StandsFor(FrozenTable(e)[i][c], a.rows[i][c], a.types[c])
    BY <2>2, <2>9, TableIsShown
  <2>11. FrozenToRecords(e) = FrozenToRecords(d)
    <3>1. /\ DOMAIN e.rows = DOMAIN a.rows /\ DOMAIN d.rows = DOMAIN a.rows
          /\ DOMAIN d.columns = DOMAIN a.types
      BY <2>2, <2>9 DEF ShowsCells, IsTaggedTable
    <3>2. \A i \in DOMAIN a.rows : \A c \in DOMAIN a.types : e.rows[i][c] = d.rows[i][c]
      BY <2>2, <2>9 DEF ShowsCells, IsTaggedTable
    <3>3. \A i \in DOMAIN d.rows : \A c \in DOMAIN d.columns :
            CellValue(e.rows[i][c], FrozenColumnDisplayKind(e.columns[c]))
              = CellValue(d.rows[i][c], FrozenColumnDisplayKind(d.columns[c]))
      BY <2>9, <3>1, <3>2
    <3> QED
      BY <2>9, <3>1, <3>3 DEF FrozenToRecords
  <2>12. MapChart(d, b.chart) => ParseChartSpec(b.chart, d) # NoChart
    BY DEF MapChart
  <2>13. p[1] = k /\ p[3] = b.truncated /\ p[2] = IF k = "table" THEN FrozenTable(e) ELSE FrozenToRecords(e)
    BY <2>8
  <2> QED
    BY <2>1, <2>6, <2>8, <2>10, <2>11, <2>12, <2>13
<1> QED
  BY <1>6, <1>7, <1>8 DEF SavedShows

\* A file that was edited cannot be opened, or shows what was saved.
LEMMA EditedIsTrue ==
    ASSUME NEW f, NEW b, NEW a, ShowsAnswer(b, a), IsFileOf(f, b), f.form # "saved"
    PROVE  EditedShows(f, a)
<1>1. CASE ~IsSnapshotDoc(f)
  BY <1>1, OpenedIs DEF EditedShows
<1>2. CASE IsSnapshotDoc(f)
  <2>1. PICK s : s = ToSnapshotBlock(b)
    OBVIOUS
  <2>2. PICK form : form = f.form
    OBVIOUS
  <2>3. form \in {"microseconds", "other tag"} /\ s.kind \in {"table", "chart"}
        /\ f = [form |-> form, block |-> EditFrozenBlock(form, s)]
    <3>1. f.form \notin {"no json", "other version"}
      BY <1>2 DEF IsSnapshotDoc
    <3>2. f # [form |-> "saved", block |-> ToSnapshotBlock(b)]
      OBVIOUS
    <3>3. /\ f.form \in {"microseconds", "other tag"} /\ ToSnapshotBlock(b).kind \in {"table", "chart"}
          /\ f = [form |-> f.form, block |-> EditFrozenBlock(f.form, ToSnapshotBlock(b))]
      BY <3>1, <3>2 DEF IsFileOf
    <3> QED
      BY <2>1, <2>2, <3>3
  <2>4. PICK d : d = b.result
    OBVIOUS
  <2>5. PICK k \in {"table", "chart"} : k = s.kind
    BY <2>3
  <2>6. b.result # NoResult /\ s = [kind |-> k, data |-> d, truncated |-> b.truncated]
    <3>1. ToSnapshotBlock(b).kind \in {"table", "chart"}
      BY <2>1, <2>3
    <3>2. b.result # NoResult /\ s = [kind |-> s.kind, data |-> b.result, truncated |-> b.truncated]
      BY <2>1, <3>1, FrozenBlockIs
    <3> QED
      BY <2>4, <2>5, <3>2
  <2>7. IsAnswer(a) /\ IsTaggedTable(d, a)
    BY <2>4, <2>6, WiredIs DEF ShowsAnswer
  <2>8. PICK g : g = EditedCells(form, d)
    OBVIOUS
  <2>9. s.data = d
    BY <2>6
  <2>10. EditFrozenBlock(form, s) = [s EXCEPT !.data = g]
    BY <2>3, <2>8, <2>9 DEF EditFrozenBlock, EditedCells
  <2>11. f.block = [kind |-> k, data |-> g, truncated |-> b.truncated]
    BY <2>3, <2>6, <2>10
  <2>12. PICK p : p = RenderBlock(NormalizeSnapshotDoc(f.block))
    OBVIOUS
  <2>13. MountSnapshot(f) = <<"prose", p>> /\ MountSnapshot(f)[2] = p
    BY <1>2, <2>12, OpenedIs
  <2>14. p = <<k, IF k = "table" THEN FrozenTable(Decode(g)) ELSE FrozenToRecords(Decode(g)), b.truncated>>
    <3>1. RenderBlock(NormalizeSnapshotDoc(f.block)) =
            <<k, IF k = "table" THEN FrozenTable(Decode(g)) ELSE FrozenToRecords(Decode(g)), b.truncated>>
      BY <2>11, RenderedIs
    <3> QED
      BY <2>12, <3>1
  <2>15. CASE form = "microseconds"
    <3>1. g = EditedCells("microseconds", d)
      BY <2>8, <2>15
    <3>2. ShowsCells(Decode(g), a)
      BY <2>7, <3>1, DecodedIs
    <3>3. \A i \in DOMAIN a.rows : \A c \in DOMAIN a.types :
            StandsFor(FrozenTable(Decode(g))[i][c], a.rows[i][c], a.types[c])
      BY <2>7, <3>2, TableIsShown
    <3>4. p[1] = "table" => p[2] = FrozenTable(Decode(g))
      BY <2>14
    <3> QED
      BY <2>2, <2>13, <2>15, <3>3, <3>4 DEF EditedShows
  <2>16. CASE form = "other tag"
    <3>1. g = [d EXCEPT !.rows = [i \in DOMAIN d.rows |-> [c \in DOMAIN d.rows[i] |->
                                     EditFrozenCell("other tag", d.rows[i][c])]]]
      BY <2>8, <2>16 DEF MapCells, EditedCells
    <3>2. d = [columns |-> d.columns, rows |-> d.rows]
      BY <2>7 DEF IsTaggedTable
    <3>3. /\ g.columns = d.columns
          /\ g.rows = [i \in DOMAIN d.rows |-> [c \in DOMAIN d.rows[i] |->
                                     EditFrozenCell("other tag", d.rows[i][c])]]
      BY <3>1, <3>2, MappedIs
    <3>4. Encodes(g)
      <4>1. f.block.kind \in {"table", "chart"} => Encodes(f.block.data)
        BY <1>2 DEF IsSnapshotDoc
      <4>2. f.block.kind = k /\ f.block.data = g
        BY <2>11
      <4> QED
        BY <4>1, <4>2
    <3>5. ASSUME NEW i \in DOMAIN a.rows, NEW c \in DOMAIN a.types PROVE a.rows[i][c].js = "null"
      <4>1. PICK x : x = TaggedCell(a, i, c)
        OBVIOUS
      <4>2. IsTagged(x, a.rows[i][c], ColumnKind(a, c), IsNaiveDateTimeType(a.types[c]))
        BY <2>7, <4>1, TaggedCells
      <4>3. i \in DOMAIN d.rows /\ c \in DOMAIN d.rows[i] /\ c \in DOMAIN d.columns
            /\ d.rows[i][c] = x /\ d.columns[c].type = ColumnKind(a, c)
        BY <2>7, <4>1 DEF IsTaggedTable
      <4>4. g.rows[i][c] = EditFrozenCell("other tag", x) /\ g.columns[c].type = ColumnKind(a, c)
            /\ i \in DOMAIN g.rows /\ c \in DOMAIN g.columns
        <5>1. DOMAIN g.rows = DOMAIN d.rows
              /\ g.rows[i] = [j \in DOMAIN d.rows[i] |-> EditFrozenCell("other tag", d.rows[i][j])]
          BY <3>3, <4>3
        <5>2. g.rows[i][c] = EditFrozenCell("other tag", d.rows[i][c])
          BY <4>3, <5>1
        <5> QED
          BY <3>3, <4>3, <5>1, <5>2
      <4>5. EditFrozenCell("other tag", x).kind \in {"null", ColumnKind(a, c)}
        BY <3>4, <4>4 DEF Encodes, AssertWellFormed
      <4>6. x.kind # "null" => EditFrozenCell("other tag", x).kind = "object"
        BY <4>2 DEF EditFrozenCell, IsTagged, IsCell
      <4> QED
        BY <4>2, <4>5, <4>6 DEF IsTagged
    <3> QED
      BY <2>2, <2>13, <2>16, <3>5 DEF EditedShows
  <2> QED
    BY <2>3, <2>15, <2>16
<1> QED
  BY <1>1, <1>2

\* The invariant is what the runs check, and more.
LEMMA FrozenInvIsTrue == FrozenInv => FrozenFileIsTrue
<1> SUFFICES ASSUME FrozenInv, frozenFile # NoFile PROVE FrozenFileIsTrue
  BY DEF FrozenFileIsTrue
<1>1. ShowsAnswer(clicked.block, clicked.answer) /\ IsFileOf(frozenFile, clicked.block)
  BY DEF FrozenInv
<1>2. CASE frozenFile.form = "saved"
  <2>1. SavedShows(frozenFile, clicked.block, clicked.answer)
    BY <1>1, <1>2, SavedIsTrue
  <2> QED
    BY <1>2, <2>1 DEF SavedShows, FrozenFileIsTrue
<1>3. CASE frozenFile.form # "saved"
  <2>1. EditedShows(frozenFile, clicked.answer)
    BY <1>1, <1>3, EditedIsTrue
  <2> QED
    BY <1>3, <2>1 DEF EditedShows, FrozenFileIsTrue
<1> QED
  BY <1>2, <1>3

\* Nothing is shown at first.
LEMMA FrozenInvInit == FrozenInit => FrozenInv
  BY DEF FrozenInit, FrozenInv, ShowsAnswer, IsQueryBlock, EmptyQueryBlock, NoExport

\* An answer arrives.
LEMMA AnswerStep == ASSUME FrozenInv, RunAnswered PROVE FrozenInv'
<1> SUFFICES ShowsAnswer(queryBlock, dbAnswer)'
  BY DEF RunAnswered, FrozenInv
<1>1. IsQueryBlock(queryBlock)
  BY DEF FrozenInv, ShowsAnswer
<1>2. ASSUME NEW note, NoteArrives(note) PROVE ShowsAnswer(queryBlock, dbAnswer)'
  <2>1. queryBlock' = [result |-> NoResult, note |-> note, truncated |-> FALSE,
                       view |-> queryBlock.view, chart |-> queryBlock.chart]
    BY <1>1, <1>2 DEF NoteArrives, IsQueryBlock
  <2> QED
    BY <2>1 DEF ShowsAnswer, IsQueryBlock
<1>3. ASSUME NEW types, NEW rows, NEW more, RowsArrive(types, rows, more), NEW n \in Nat,
             rows = [i \in 1 .. n |-> rows[i]],
             \A i \in 1 .. n : \A c \in DOMAIN types : rows[i][c].js \in CellValues
      PROVE  ShowsAnswer(queryBlock, dbAnswer)'
  <2>1. PICK d : d = OverTheWire(RowsToFrozenData(types, rows))
    OBVIOUS
  <2>2. queryBlock' = [result |-> d, note |-> "none", truncated |-> more,
                       view |-> queryBlock.view, chart |-> queryBlock.chart]
    BY <1>1, <1>3, <2>1 DEF RowsArrive, IsQueryBlock
  <2>3. PICK a : a = [types |-> types, rows |-> rows]
    OBVIOUS
  <2>4. dbAnswer' = a
    BY <1>3, <2>3 DEF RowsArrive
  <2>5. Wired(a) = d
    BY <2>1, <2>3 DEF Wired
  <2>6. IsAnswer(a)
    <3>1. rows \in Seq({rows[i] : i \in 1 .. n}) /\ DOMAIN rows = 1 .. n
      BY <1>3
    <3>2. Len(rows) \in Nat /\ DOMAIN rows = 1 .. Len(rows)
      BY <3>1, LenProperties
    <3>3. a.types = types /\ a.rows = rows
      BY <2>3
    <3> QED
      BY <1>3, <3>1, <3>2, <3>3 DEF IsAnswer
  <2>7. PICK b : b = queryBlock'
    OBVIOUS
  <2>8. ShowsAnswer(b, a)
    BY <2>2, <2>5, <2>6, <2>7 DEF ShowsAnswer, IsQueryBlock
  <2> QED
    BY <2>4, <2>7, <2>8 DEF ShowsAnswer
<1>4. ASSUME NEW hasA \in BOOLEAN, NEW more \in BOOLEAN, NEW type \in DataTypes, NEW n \in 0 .. RowsNow,
             NEW js \in [1 .. n -> JsValues],
             RowsArrive(IF hasA THEN <<"none", type>> ELSE <<type>>,
                        [i \in 1 .. n |-> LET b == [js |-> js[i], n |-> i]
                                          IN  IF hasA THEN <<[js |-> "text", n |-> i], b>> ELSE <<b>>],
                        more)
      PROVE  ShowsAnswer(queryBlock, dbAnswer)'
  <2>1. PICK types : types = IF hasA THEN <<"none", type>> ELSE <<type>>
    OBVIOUS
  <2>2. PICK rows : rows = [i \in 1 .. n |-> LET b == [js |-> js[i], n |-> i]
                                          IN  IF hasA THEN <<[js |-> "text", n |-> i], b>> ELSE <<b>>]
    OBVIOUS
  <2>3. RowsArrive(types, rows, more)
    BY <1>4, <2>1, <2>2
  <2>4. n \in Nat
    BY DEF RowsNow
  <2>5. rows = [i \in 1 .. n |-> rows[i]]
    BY <2>2
  <2>6. ASSUME NEW i \in 1 .. n, NEW c \in DOMAIN types PROVE rows[i][c].js \in CellValues
    <3>1. js[i] \in CellValues /\ "text" \in CellValues
      BY FrozenAssumption DEF CellValues
    <3>2. CASE hasA
      <4>1. rows[i] = <<[js |-> "text", n |-> i], [js |-> js[i], n |-> i]>> /\ c \in 1 .. 2
        BY <2>1, <2>2, <3>2
      <4> QED
        BY <3>1, <4>1
    <3>3. CASE ~hasA
      <4>1. rows[i] = <<[js |-> js[i], n |-> i]>> /\ c \in 1 .. 1
        BY <2>1, <2>2, <3>3
      <4> QED
        BY <3>1, <4>1
    <3> QED
      BY <3>2, <3>3
  <2> QED
    BY <1>3, <2>3, <2>4, <2>5, <2>6
<1> QED
  BY <1>2, <1>4 DEF RunAnswered

\* The view or the chart of the block changes.
LEMMA ViewSteps ==
    ASSUME FrozenInv,
           \/ \E view \in {"table", "chart"} : SetBlockView(view)
           \/ \E y \in {"a", "b"} : ChangeChart(y)
    PROVE  FrozenInv'
<1>1. IsQueryBlock(queryBlock)
  BY DEF FrozenInv, ShowsAnswer
<1>2. ASSUME NEW view, NEW chart,
             queryBlock' = [result |-> queryBlock.result, note |-> queryBlock.note,
                            truncated |-> queryBlock.truncated, view |-> view, chart |-> chart],
             UNCHANGED <<dbAnswer, freezing, clicked, frozenFile>>
      PROVE  FrozenInv'
  <2>1. queryBlock'.result = queryBlock.result /\ IsQueryBlock(queryBlock')
    BY <1>2 DEF IsQueryBlock
  <2>2. PICK b : b = queryBlock'
    OBVIOUS
  <2>3. ShowsAnswer(b, dbAnswer)
    BY <2>1, <2>2 DEF FrozenInv, ShowsAnswer
  <2>4. ShowsAnswer(queryBlock, dbAnswer)'
    BY <1>2, <2>2, <2>3 DEF ShowsAnswer
  <2> QED
    BY <1>2, <2>4 DEF FrozenInv
<1>3. ASSUME NEW view, SetBlockView(view) PROVE FrozenInv'
  <2>1. queryBlock' = [result |-> queryBlock.result, note |-> queryBlock.note,
                       truncated |-> queryBlock.truncated, view |-> view, chart |-> queryBlock.chart]
        /\ UNCHANGED <<dbAnswer, freezing, clicked, frozenFile>>
    BY <1>1, <1>3 DEF SetBlockView, IsQueryBlock
  <2> QED
    BY <1>2, <2>1
<1>4. ASSUME NEW y, ChangeChart(y) PROVE FrozenInv'
  <2>1. PICK chart : chart = ParseChartSpec(y, queryBlock.result)
    OBVIOUS
  <2>2. queryBlock' = [result |-> queryBlock.result, note |-> queryBlock.note,
                       truncated |-> queryBlock.truncated, view |-> queryBlock.view, chart |-> chart]
        /\ UNCHANGED <<dbAnswer, freezing, clicked, frozenFile>>
    BY <1>1, <1>4, <2>1 DEF ChangeChart, IsQueryBlock
  <2> QED
    BY <1>2, <2>2
<1> QED
  BY <1>3, <1>4

\* The block is exported, and its file saved and edited.
LEMMA ExportSteps ==
    ASSUME FrozenInv,
           \/ HandleExport \/ \E fetched \in BOOLEAN : RuntimeFetched(fetched)
           \/ \E form \in {"no json", "other version", "microseconds", "other tag"} : EditFile(form)
    PROVE  FrozenInv'
<1>1. CASE HandleExport
  <2>1. /\ frozenFile = NoFile /\ frozenFile' = NoFile /\ UNCHANGED <<dbAnswer, queryBlock>>
        /\ freezing'.block = queryBlock /\ clicked'.block = queryBlock /\ clicked'.answer = dbAnswer
    BY <1>1 DEF HandleExport
  <2> QED
    BY <2>1 DEF FrozenInv, ShowsAnswer
<1>2. ASSUME NEW fetched \in BOOLEAN, RuntimeFetched(fetched) PROVE FrozenInv'
  <2>1. /\ freezing.on /\ ~freezing'.on /\ UNCHANGED <<dbAnswer, queryBlock, clicked>>
        /\ frozenFile' # NoFile => frozenFile' = [form |-> "saved", block |-> ToSnapshotBlock(freezing.block)]
    BY <1>2 DEF RuntimeFetched, NoExport
  <2>2. freezing.block = clicked.block
    BY <2>1 DEF FrozenInv
  <2>3. frozenFile' # NoFile => IsFileOf(frozenFile', clicked.block)
    BY <2>1, <2>2 DEF IsFileOf
  <2> QED
    BY <2>1, <2>3 DEF FrozenInv, ShowsAnswer, IsFileOf
<1>3. ASSUME NEW form \in {"no json", "other version", "microseconds", "other tag"}, EditFile(form)
      PROVE  FrozenInv'
  <2>1. PICK s : s = ToSnapshotBlock(clicked.block)
    OBVIOUS
  <2>2. frozenFile.form = "saved" /\ frozenFile # NoFile
    <3>1. NoFile.form = "none"
      BY DEF NoFile
    <3> QED
      BY <1>3, <3>1 DEF EditFile
  <2>3. frozenFile.block = s
    <3>1. IsFileOf(frozenFile, clicked.block)
      BY <2>2 DEF FrozenInv
    <3>2. frozenFile = [form |-> "saved", block |-> ToSnapshotBlock(clicked.block)]
      BY <2>2, <3>1 DEF IsFileOf
    <3>3. frozenFile = [form |-> "saved", block |-> s]
      BY <2>1, <3>2
    <3> QED
      BY <3>3
  <2>4. PICK block : block = EditFrozenBlock(form, s)
    OBVIOUS
  <2>5. /\ frozenFile' = [form |-> form, block |-> block]
        /\ form \in {"microseconds", "other tag"} => s.kind \in {"table", "chart"}
        /\ UNCHANGED <<dbAnswer, queryBlock, freezing, clicked>>
    BY <1>3, <2>3, <2>4 DEF EditFile
  <2>6. PICK f : f = frozenFile'
    OBVIOUS
  <2>7. f = [form |-> form, block |-> block] /\ f.form = form
    BY <2>5, <2>6
  <2>8. IsFileOf(f, clicked.block)
    BY <2>1, <2>4, <2>5, <2>7 DEF IsFileOf
  <2>9. IsFileOf(frozenFile, clicked.block)'
    BY <2>5, <2>6, <2>8 DEF IsFileOf
  <2> QED
    BY <2>5, <2>9 DEF FrozenInv, ShowsAnswer
<1> QED
  BY <1>1, <1>2, <1>3

\* Every step keeps the invariant.
LEMMA FrozenStep == FrozenInv /\ [FrozenNext]_frozenVars => FrozenInv'
<1> SUFFICES ASSUME FrozenInv, [FrozenNext]_frozenVars PROVE FrozenInv'
  OBVIOUS
<1>1. CASE UNCHANGED frozenVars
  BY <1>1 DEF frozenVars, FrozenInv, ShowsAnswer, IsFileOf
<1>2. CASE FrozenNext
  BY <1>2, AnswerStep, ViewSteps, ExportSteps DEF FrozenNext
<1> QED
  BY <1>1, <1>2

\* A saved report shows every cell of the answer it was made from, or the note
\* in its place, and an edited one shows well-formed cells or that it cannot be
\* opened, for any rows, columns and answers.
THEOREM FrozenFileHolds == FrozenSpec => []FrozenFileIsTrue
<1>1. FrozenInit => FrozenInv
  BY FrozenInvInit
<1>2. FrozenInv /\ [FrozenNext]_frozenVars => FrozenInv'
  BY FrozenStep
<1>3. FrozenInv => FrozenFileIsTrue
  BY FrozenInvIsTrue
<1> QED
  BY <1>1, <1>2, <1>3, PTL DEF FrozenSpec

-----------------------------------------------------------------------------
(* TableTab: the data grid of a table.                                      *)

\* A load and a change, by their fields.
IsLoad(l) == l = [id |-> l.id, page |-> l.page, alive |-> l.alive, stage |-> l.stage,
                  total |-> l.total, rows |-> l.rows]
IsOp(o) == o = [id |-> o.id, kind |-> o.kind, key |-> o.key, value |-> o.value, asked |-> o.asked,
                stage |-> o.stage, awaited |-> o.awaited]

\* One load at most is awaited, and it is for the page asked for.
LoadsInv ==
    /\ \A l \in tblLoads : IsLoad(l)
    /\ \A l \in tblLoads : l.alive => tblOpen /\ tblLoading /\ l.page = tblPage
    /\ \A l, m \in tblLoads : l.alive /\ m.alive => l = m

\* A change is of the row it was asked for; none is awaited in a tab that is
\* closed.
OpsInv == \A o \in tblOps : IsOp(o) /\ o.key = o.asked /\ (o.awaited => tblOpen)

\* No change is in the table that the page has still to hear of.
Fresh == ~tblDoubt /\ \A o \in tblOps : o.awaited => o.stage # "done"

\* What a load has brought is what the table holds.
LoadIsTrue(l) ==
    /\ l.stage # "sent" => l.total = Cardinality(DOMAIN dbRows)
    /\ l.stage \notin {"sent", "counted"} => l.rows = PlanTableRows(dbRows, l.page)

\* What the grid shows is what the table holds.
DataIsTrue ==
    /\ tblData = PlanTableRows(dbRows, tblPage)
    /\ tblGrid = [page |-> tblPage, total |-> Cardinality(DOMAIN dbRows)]

\* While the page has heard of every change, its load and its data are true.
GridInv ==
    tblOpen /\ Fresh =>
      /\ \A l \in tblLoads : l.alive => LoadIsTrue(l)
      /\ ~tblLoading /\ ~tblError => DataIsTrue

\* The row picked is the one shown at its place.
IsTruePick(p) == p # NoPick => p.key = VisibleRows[p.at].key
\* Both picks, of the editor and of the dialog.
PicksInv == IsTruePick(tblEditing) /\ IsTruePick(tblDeleting)

\* The inductive invariant.
TableInv == LoadsInv /\ OpsInv /\ GridInv /\ PicksInv

\* A load the page no longer waits for keeps its page.
LEMMA LoadDies ==
    ASSUME NEW l, IsLoad(l), NEW m, m = [l EXCEPT !.alive = FALSE]
    PROVE  IsLoad(m) /\ m.page = l.page /\ ~m.alive
BY DEF IsLoad

\* A load that begins is the only one awaited.
LEMMA StartLoadSteps ==
    ASSUME LoadsInv, NEW page, StartLoad(page), tblPage' = page, tblOpen' = TRUE
    PROVE  LoadsInv' /\ GridInv'
<1> DEFINE new  == [id |-> tblCount.loads + 1, page |-> page, alive |-> TRUE, stage |-> "sent",
                    total |-> 0, rows |-> <<>>]
           dead == {[l EXCEPT !.alive = FALSE] : l \in tblLoads}
<1>1. tblLoads' = dead \cup {new} /\ tblLoading' = TRUE
  BY DEF StartLoad
<1>2. \A l \in dead : IsLoad(l) /\ ~l.alive
  <2> SUFFICES ASSUME NEW l \in tblLoads PROVE IsLoad([l EXCEPT !.alive = FALSE]) /\ ~[l EXCEPT !.alive = FALSE].alive
    OBVIOUS
  <2>1. IsLoad(l)
    BY DEF LoadsInv
  <2> QED
    BY <2>1, LoadDies
<1>3. IsLoad(new) /\ new.stage = "sent" /\ new.page = page
  BY DEF IsLoad
<1> HIDE DEF dead, new
<1>4. \A l \in tblLoads' : l.alive => l = new
  BY <1>1, <1>2
<1>5. LoadsInv'
  BY <1>1, <1>2, <1>3, <1>4 DEF LoadsInv
<1>6. GridInv'
  BY <1>1, <1>3, <1>4 DEF GridInv, LoadIsTrue
<1> QED
  BY <1>5, <1>6

\* The table and the grid are not concerned.
LEMMA TableRests ==
    ASSUME LoadsInv, GridInv,
           UNCHANGED <<tblOpen, tblPage, tblGrid, tblData, tblLoading, tblError, tblLoads, dbRows>>,
           Fresh' => Fresh
    PROVE  LoadsInv' /\ GridInv'
<1>1. LoadsInv'
  BY DEF LoadsInv
<1>2. GridInv'
  BY DEF GridInv, LoadIsTrue, DataIsTrue
<1> QED
  BY <1>1, <1>2

\* The rows shown depend on the data and the filter.
LEMMA VisibleRests == ASSUME UNCHANGED <<tblData, tblFiltered>> PROVE VisibleRows' = VisibleRows
  BY DEF VisibleRows

\* The picks stay on the same rows, or go.
LEMMA PicksRest ==
    ASSUME PicksInv, UNCHANGED <<tblData, tblFiltered>>, tblEditing' \in {tblEditing, NoPick},
           tblDeleting' \in {tblDeleting, NoPick}
    PROVE  PicksInv'
<1>1. VisibleRows' = VisibleRows
  BY VisibleRests
<1> QED
  BY <1>1 DEF PicksInv, IsTruePick, NoPick

\* No pick is a true one.
LEMMA NoPicks == ASSUME tblEditing' = NoPick, tblDeleting' = NoPick PROVE PicksInv'
  BY DEF PicksInv, IsTruePick, NoPick

\* A change that goes on is of the same row.
LEMMA OpReplaced ==
    ASSUME OpsInv, NEW o \in tblOps, tblOpen' = tblOpen, NEW p,
           p \in {[o EXCEPT !.stage = "done"], [o EXCEPT !.stage = "refused"], [o EXCEPT !.awaited = FALSE]},
           tblOps' \in {(tblOps \ {o}) \cup {p}, tblOps \ {o}}
    PROVE  OpsInv'
<1>1. IsOp(o) /\ o.key = o.asked /\ (o.awaited => tblOpen)
  BY DEF OpsInv
<1>2. IsOp(p) /\ p.key = p.asked /\ (p.awaited => o.awaited)
  BY <1>1 DEF IsOp
<1> QED
  BY <1>1, <1>2 DEF OpsInv

\* A load goes on to a true answer.
LEMMA LoadTurns ==
    ASSUME TableInv, NEW l \in tblLoads, NEW m,
           IsLoad(m), m.alive = l.alive, m.page = l.page, LoadIsTrue(l) => LoadIsTrue(m),
           tblLoads' = (tblLoads \ {l}) \cup {m},
           UNCHANGED <<dbRows, tblOpen, tblPage, tblGrid, tblData, tblLoading, tblError, tblFiltered,
                       picks, tblDraft, tblMutating, tblOps, tblCount, tblDoubt>>
    PROVE  TableInv'
<1>1. LoadsInv'
  BY DEF TableInv, LoadsInv
<1>2. Fresh' = Fresh /\ DataIsTrue' = DataIsTrue
  BY DEF Fresh, DataIsTrue
<1>3. ASSUME tblOpen, Fresh PROVE GridInv'
  <2>1. \A k \in tblLoads' : k.alive => LoadIsTrue(k)
    BY <1>3 DEF TableInv, GridInv
  <2>2. \A k \in tblLoads' : k.alive => LoadIsTrue(k)'
    BY <2>1 DEF LoadIsTrue
  <2> QED
    BY <1>2, <1>3, <2>2 DEF TableInv, GridInv
<1>4. GridInv'
  BY <1>2, <1>3 DEF GridInv
<1>5. PicksInv'
  BY PicksRest DEF TableInv, picks
<1>6. OpsInv'
  BY DEF TableInv, OpsInv
<1> QED
  BY <1>1, <1>4, <1>5, <1>6 DEF TableInv

\* The Core counts, then selects.
LEMMA LoadSteps ==
    ASSUME TableInv, NEW l \in tblLoads, CoreCounts(l) \/ CoreSelects(l)
    PROVE  TableInv'
<1> DEFINE total == Cardinality(DOMAIN dbRows)
           rows  == PlanTableRows(dbRows, l.page)
           counted  == [l EXCEPT !.stage = "counted", !.total = total]
           selected == [l EXCEPT !.stage = "rows", !.rows = rows]
<1>1. IsLoad(l)
  BY DEF TableInv, LoadsInv
<1>2. CASE CoreCounts(l)
  <2>0. counted = [l EXCEPT !.stage = "counted", !.total = total]
    OBVIOUS
  <2>1. /\ tblLoads' = (tblLoads \ {l}) \cup {counted}
        /\ UNCHANGED <<dbRows, tblOpen, tblPage, tblGrid, tblData, tblLoading, tblError, tblFiltered,
                       picks, tblDraft, tblMutating, tblOps, tblCount, tblDoubt>>
    BY <1>2 DEF CoreCounts
  <2> HIDE DEF counted, total, rows
  <2>2. IsLoad(counted) /\ counted.alive = l.alive /\ counted.page = l.page
        /\ counted.stage = "counted" /\ counted.total = total
    BY <1>1, <2>0 DEF IsLoad
  <2>3. LoadIsTrue(counted)
    BY <2>2 DEF LoadIsTrue, total
  <2> QED
    BY <2>1, <2>2, <2>3, LoadTurns
<1>3. CASE CoreSelects(l)
  <2>0. selected = [l EXCEPT !.stage = "rows", !.rows = rows]
    OBVIOUS
  <2>1. /\ tblLoads' = (tblLoads \ {l}) \cup {selected}
        /\ UNCHANGED <<dbRows, tblOpen, tblPage, tblGrid, tblData, tblLoading, tblError, tblFiltered,
                       picks, tblDraft, tblMutating, tblOps, tblCount, tblDoubt>>
    BY <1>3 DEF CoreSelects
  <2> HIDE DEF selected, total, rows
  <2>2. IsLoad(selected) /\ selected.alive = l.alive /\ selected.page = l.page
        /\ selected.stage = "rows" /\ selected.total = l.total /\ selected.rows = rows
    BY <1>1, <2>0 DEF IsLoad
  <2>3. LoadIsTrue(l) => LoadIsTrue(selected)
    BY <1>3, <2>2 DEF LoadIsTrue, CoreSelects, rows
  <2> QED
    BY <2>1, <2>2, <2>3, LoadTurns
<1> QED
  BY <1>2, <1>3

\* The page takes the answer it waits for and drops the others.
LEMMA LoadRepliesStep ==
    ASSUME TableInv, NEW l \in tblLoads, LoadReplies(l)
    PROVE  TableInv'
<1>1. OpsInv'
  BY DEF TableInv, OpsInv, LoadReplies
<1>2. Fresh' = Fresh
  BY DEF Fresh, LoadReplies
<1>3. CASE ~l.alive /\ UNCHANGED <<tblData, tblGrid, tblError, tblLoading, picks>>
  <2>1. PicksInv'
    BY <1>3, PicksRest DEF TableInv, LoadReplies, picks
  <2>2. LoadsInv'
    BY <1>3 DEF TableInv, LoadsInv, LoadReplies
  <2>3. GridInv'
    BY <1>2, <1>3 DEF TableInv, GridInv, LoadReplies, LoadIsTrue, DataIsTrue
  <2> QED
    BY <1>1, <2>1, <2>2, <2>3 DEF TableInv
<1>4. CASE l.alive /\ tblEditing' = NoPick /\ tblDeleting' = NoPick /\ tblLoading' = FALSE
  <2>1. PicksInv'
    BY <1>4, NoPicks
  <2>2. \A m \in tblLoads' : ~m.alive
    BY <1>4 DEF TableInv, LoadsInv, LoadReplies
  <2>3. LoadsInv'
    BY <2>2 DEF TableInv, LoadsInv, LoadReplies
  <2>4. ASSUME tblError' = TRUE PROVE GridInv'
    BY <2>2, <2>4 DEF GridInv, LoadIsTrue
  <2>5. ASSUME l.stage = "rows", tblData' = l.rows, tblGrid' = [page |-> l.page, total |-> l.total]
        PROVE  GridInv'
    <3>1. l.page = tblPage /\ tblOpen /\ tblPage' = tblPage /\ dbRows' = dbRows /\ tblOpen' = tblOpen
      BY <1>4 DEF TableInv, LoadsInv, LoadReplies
    <3>2. Fresh => LoadIsTrue(l)
      BY <1>4, <3>1 DEF TableInv, GridInv
    <3>3. Fresh => /\ tblData' = PlanTableRows(dbRows, tblPage)
                   /\ tblGrid' = [page |-> tblPage, total |-> Cardinality(DOMAIN dbRows)]
      BY <2>5, <3>1, <3>2 DEF LoadIsTrue
    <3>4. Fresh => DataIsTrue'
      BY <3>1, <3>3 DEF DataIsTrue
    <3> QED
      BY <1>2, <2>2, <3>4 DEF GridInv, LoadIsTrue
  <2>6. GridInv'
    BY <1>4, <2>4, <2>5 DEF LoadReplies
  <2> QED
    BY <1>1, <2>1, <2>3, <2>6 DEF TableInv
<1> QED
  BY <1>3, <1>4 DEF LoadReplies

\* Every step keeps the invariant.
LEMMA TableStep == TableInv /\ [TableNext]_tableVars => TableInv'
<1> SUFFICES ASSUME TableInv, [TableNext]_tableVars PROVE TableInv'
  OBVIOUS
<1> USE DEF TableInv
<1>1. CASE UNCHANGED tableVars
  <2>1. PicksInv'
    BY <1>1, PicksRest DEF tableVars
  <2>2. OpsInv' /\ Fresh' = Fresh
    BY <1>1 DEF tableVars, OpsInv, Fresh
  <2> QED
    BY <1>1, <2>1, <2>2, TableRests DEF tableVars
<1>2. CASE OpenTable
  <2>1. LoadsInv' /\ GridInv'
    BY <1>2, StartLoadSteps DEF OpenTable
  <2> QED
    BY <1>2, <2>1, NoPicks DEF OpenTable, OpsInv
<1>3. CASE LeaveTable
  <2>1. PicksInv'
    BY <1>3, PicksRest DEF LeaveTable, picks
  <2>2. OpsInv'
    <3>1. ASSUME NEW o \in tblOps, NEW p, p = [o EXCEPT !.awaited = FALSE]
          PROVE  IsOp(p) /\ p.key = p.asked /\ ~p.awaited
      <4>1. IsOp(o) /\ o.key = o.asked
        BY DEF OpsInv
      <4> QED
        BY <3>1, <4>1 DEF IsOp
    <3> QED
      BY <1>3, <3>1 DEF OpsInv, LeaveTable
  <2>3. LoadsInv'
    <3>1. \A l \in tblLoads : IsLoad([l EXCEPT !.alive = FALSE]) /\ ~[l EXCEPT !.alive = FALSE].alive
      <4> TAKE l \in tblLoads
      <4>1. IsLoad(l)
        BY DEF LoadsInv
      <4> QED
        BY <4>1, LoadDies
    <3>2. \A l \in tblLoads' : IsLoad(l) /\ ~l.alive
      BY <1>3, <3>1 DEF LeaveTable
    <3> QED
      BY <3>2 DEF LoadsInv
  <2> QED
    BY <1>3, <2>1, <2>2, <2>3 DEF GridInv, LeaveTable
<1>4. ASSUME NEW page, TurnPage(page), tblOpen PROVE TableInv'
  <2>1. LoadsInv' /\ GridInv'
    BY <1>4, StartLoadSteps DEF TurnPage
  <2>2. PicksInv'
    BY <1>4, PicksRest DEF TurnPage, picks
  <2> QED
    BY <1>4, <2>1, <2>2 DEF TurnPage, OpsInv
<1>5. CASE PressPrev \/ PressNext
  BY <1>4, <1>5 DEF PressPrev, PressNext
<1>6. CASE Retry
  <2>1. LoadsInv' /\ GridInv'
    BY <1>6, StartLoadSteps DEF Retry
  <2>2. PicksInv'
    BY <1>6, PicksRest DEF Retry, picks
  <2> QED
    BY <1>6, <2>1, <2>2 DEF Retry, OpsInv
<1>7. ASSUME NEW l \in tblLoads, CoreCounts(l) \/ CoreSelects(l) \/ LoadReplies(l) PROVE TableInv'
  BY <1>7, LoadSteps, LoadRepliesStep
<1>8. ASSUME NEW b \in BOOLEAN, SetFilter(b) PROVE TableInv'
  <2>1. OpsInv' /\ Fresh' = Fresh
    BY <1>8 DEF SetFilter, OpsInv, Fresh
  <2> QED
    BY <1>8, <2>1, TableRests, NoPicks DEF SetFilter
<1>9. ASSUME NEW r \in DOMAIN VisibleRows, EditCell(r) \/ AskDelete(r) PROVE TableInv'
  <2>1. OpsInv' /\ Fresh' = Fresh
    BY <1>9 DEF EditCell, AskDelete, OpsInv, Fresh
  <2>2. VisibleRows' = VisibleRows
    BY <1>9, VisibleRests DEF EditCell, AskDelete
  <2>3. IsTruePick(PickAt(r))
    BY DEF IsTruePick, PickAt
  <2>4. PicksInv'
    BY <1>9, <2>2, <2>3 DEF EditCell, AskDelete, PicksInv, IsTruePick
  <2> QED
    BY <1>9, <2>1, <2>4, TableRests DEF EditCell, AskDelete
<1>10. CASE OpenDraft \/ Cancel
  <2>1. OpsInv' /\ Fresh' = Fresh
    BY <1>10 DEF OpenDraft, Cancel, OpsInv, Fresh
  <2>2. PicksInv'
    BY <1>10, PicksRest DEF OpenDraft, Cancel, picks
  <2> QED
    BY <1>10, <2>1, <2>2, TableRests DEF OpenDraft, Cancel
<1>11. ASSUME NEW kind, NEW key, NEW value, RunOp(kind, key, value, key),
              tblOpen,
              UNCHANGED <<dbRows, tblOpen, tblPage, tblGrid, tblData, tblLoading, tblError, tblFiltered,
                          tblEditing, tblDraft, tblLoads, tblDoubt>>,
              tblDeleting' \in {tblDeleting, NoPick}
       PROVE  TableInv'
  <2> DEFINE o == [id |-> tblCount.ops + 1, kind |-> kind, key |-> key, value |-> value,
                   asked |-> key, stage |-> "sent", awaited |-> TRUE]
  <2>1. tblOps' = tblOps \cup {o}
    BY <1>11 DEF RunOp
  <2>2. IsOp(o) /\ o.stage = "sent" /\ o.key = o.asked
    BY DEF IsOp
  <2> HIDE DEF o
  <2>3. OpsInv'
    BY <1>11, <2>1, <2>2 DEF OpsInv
  <2>4. Fresh' => Fresh
    BY <1>11, <2>1 DEF Fresh
  <2>5. PicksInv'
    BY <1>11, PicksRest
  <2> QED
    BY <1>11, <2>3, <2>4, <2>5, TableRests
<1>12. CASE CommitEdit
  <2>1. VisibleRows[tblEditing.at].key = tblEditing.key
    BY <1>12 DEF CommitEdit, PicksInv, IsTruePick
  <2> QED
    BY <1>11, <1>12, <2>1 DEF CommitEdit, picks
<1>13. CASE DeleteRow
  <2>1. VisibleRows[tblDeleting.at].key = tblDeleting.key
    BY <1>13 DEF DeleteRow, PicksInv, IsTruePick
  <2> QED
    BY <1>11, <1>13, <2>1 DEF DeleteRow, picks
<1>14. ASSUME NEW k \in RowKeys, InsertRow(k) PROVE TableInv'
  BY <1>11, <1>14 DEF InsertRow, picks
<1>15. ASSUME NEW o \in tblOps, CoreExecutes(o) PROVE TableInv'
  <2>1. OpsInv'
    BY <1>15, OpReplaced DEF CoreExecutes
  <2>2. PicksInv'
    BY <1>15, PicksRest DEF CoreExecutes, picks
  <2>3. LoadsInv'
    BY <1>15 DEF LoadsInv, CoreExecutes
  <2>4. IsOp(o) /\ o.stage = "sent"
    BY <1>15 DEF CoreExecutes, OpsInv
  <2>5. CASE UNCHANGED <<dbRows, tblDoubt>> /\ tblOps \ {o} \subseteq tblOps'
    <3>1. Fresh' => Fresh
      BY <2>4, <2>5 DEF Fresh
    <3> QED
      BY <1>15, <2>1, <2>2, <2>5, <3>1, TableRests DEF CoreExecutes
  <2>6. CASE /\ tblOps' = IF o.awaited THEN (tblOps \ {o}) \cup {[o EXCEPT !.stage = "done"]} ELSE tblOps \ {o}
             /\ tblDoubt' = (tblDoubt \/ ~o.awaited)
    <3>1. CASE o.awaited
      <4>1. [o EXCEPT !.stage = "done"].awaited = o.awaited /\ [o EXCEPT !.stage = "done"].stage = "done"
        BY <2>4 DEF IsOp
      <4> QED
        BY <2>1, <2>2, <2>3, <2>6, <3>1, <4>1 DEF GridInv, Fresh
    <3>2. CASE ~o.awaited
      <4>1. ~Fresh'
        BY <2>6, <3>2 DEF Fresh
      <4> QED
        BY <2>1, <2>2, <2>3, <4>1 DEF GridInv
    <3> QED
      BY <3>1, <3>2
  <2> QED
    BY <1>15, <2>5, <2>6 DEF CoreExecutes
<1>16. ASSUME NEW o \in tblOps, OpDone(o) PROVE TableInv'
  <2>1. PicksInv'
    BY <1>16, PicksRest DEF OpDone
  <2>2. OpsInv'
    BY <1>16 DEF OpDone, OpsInv
  <2>3. tblOpen
    BY <1>16 DEF OpDone, OpsInv
  <2>4. LoadsInv' /\ GridInv'
    BY <1>16, <2>3, StartLoadSteps DEF OpDone
  <2> QED
    BY <2>1, <2>2, <2>4
<1>17. ASSUME NEW o \in tblOps, OpFails(o) PROVE TableInv'
  <2>1. PicksInv'
    BY <1>17, PicksRest DEF OpFails, picks
  <2>2. OpsInv'
    BY <1>17, OpReplaced DEF OpFails
  <2>3. Fresh' => Fresh
    BY <1>17 DEF OpFails, Fresh
  <2> QED
    BY <1>17, <2>1, <2>2, <2>3, TableRests DEF OpFails
<1> QED
  BY <1>1, <1>2, <1>3, <1>5, <1>6, <1>7, <1>8, <1>9, <1>10, <1>12, <1>13, <1>14, <1>15, <1>16, <1>17
     DEF TableNext

\* A grid at rest shows the page of the table it is on, and the row being
\* edited or deleted is the one the user picked, in whatever order loads and
\* changes are answered.
THEOREM GridHolds == TableSpec => []GridIsTrue
<1>1. TableInit => TableInv
  BY DEF TableInit, TableInv, LoadsInv, OpsInv, GridInv, PicksInv, IsTruePick
<1>2. TableInv => GridIsTrue
  BY DEF TableInv, GridIsTrue, GridInv, OpsInv, RestingGridIsTrue, HitsTheRowPicked, DataIsTrue, Fresh, IsOp
<1> QED
  BY <1>1, <1>2, TableStep, PTL DEF TableSpec

-----------------------------------------------------------------------------
(* ErdLayout: the places of the tables in the ERD.                          *)

\* The inductive invariant: what the layout keeps and what is drawn are where
\* the user last saw the tables.
ErdInv ==
    /\ erdTab = "erd" => /\ erdPositions = erdSeen
                         /\ DOMAIN erdNodes # {} => erdNodes = erdSeen
    /\ erdTab # "erd" => erdNodes = Empty /\ erdSeen = erdSaved

\* Deriving the graph anew moves no table that had a place.
LEMMA DeriveKeeps ==
    ASSUME NEW introspected, NEW created, NEW positions, Derive(introspected, created, positions, positions)
    PROVE  erdPositions' = erdSeen' /\ (DOMAIN erdNodes' # {} => erdNodes' = erdSeen')
<1> DEFINE ids   == GraphIds(introspected, created)
           nodes == ApplyLayout(ids, positions)
           seen  == [id \in DOMAIN nodes |-> IF id \in DOMAIN positions THEN positions[id] ELSE nodes[id]]
<1>1. erdNodes' = nodes /\ erdPositions' = ReconcilePositions(positions, nodes)
      /\ erdSeen' = IF DOMAIN nodes = {} THEN positions ELSE seen
  BY DEF Derive
<1> HIDE DEF ids
<1>2. seen = nodes
  BY DEF ApplyLayout
<1> HIDE DEF nodes, seen
<1> QED
  BY <1>1, <1>2 DEF ReconcilePositions

\* So a change of the tables keeps the invariant.
LEMMA TablesKeep ==
    ASSUME ErdInv, NEW introspected, NEW created, SetTables(introspected, created),
           erdTab' \in {erdTab, "other"}, erdTab' = "erd" <=> erdTab = "erd", erdSaved' = erdSaved
    PROVE  ErdInv'
<1>1. CASE erdTab = "erd"
  BY <1>1, DeriveKeeps DEF ErdInv, SetTables
<1>2. CASE erdTab # "erd"
  BY <1>2 DEF ErdInv, SetTables
<1> QED
  BY <1>1, <1>2

\* Every step keeps the invariant.
LEMMA ErdStep == ErdInv /\ [ErdNext]_erdVars => ErdInv'
<1> SUFFICES ASSUME ErdInv, [ErdNext]_erdVars PROVE ErdInv'
  OBVIOUS
<1>1. CASE UNCHANGED erdVars
  BY <1>1 DEF ErdInv, erdVars
<1>2. CASE CoreIntrospects \/ IntrospectionFails \/ RetryIntrospection
  BY <1>2 DEF ErdInv, CoreIntrospects, IntrospectionFails, RetryIntrospection
<1>3. CASE OnSchemaLoaded
  BY <1>3, TablesKeep DEF OnSchemaLoaded
<1>4. ASSUME NEW n \in ErdTables, SubmitTable(n) PROVE ErdInv'
  BY <1>4 DEF ErdInv, SubmitTable
<1>5. ASSUME NEW r \in creating, CoreCreatesTable(r) \/ CreateRefused(r) PROVE ErdInv'
  BY <1>5 DEF ErdInv, CoreCreatesTable, CreateRefused
<1>6. ASSUME NEW r \in creating, TableCreated(r) PROVE ErdInv'
  BY <1>6, TablesKeep DEF TableCreated
<1>7. ASSUME NEW tab \in {"panel", "other"}, LeaveErd(tab) PROVE ErdInv'
  BY <1>7 DEF ErdInv, LeaveErd, Unmount
<1>8. CASE OpenErd
  BY <1>8, DeriveKeeps DEF ErdInv, OpenErd
<1>9. CASE PanErd
  BY <1>9 DEF ErdInv, PanErd, Report
<1>10. ASSUME NEW id \in DOMAIN erdNodes, NEW p \in Spots, Drag(id, p) PROVE ErdInv'
  BY <1>10 DEF ErdInv, Drag, Report
<1>11. ASSUME NEW tab \in {"erd", "other"}, ReloadErd(tab) PROVE ErdInv'
  BY <1>11, DeriveKeeps DEF ErdInv, ReloadErd, Unmount
<1> QED
  BY <1>1, <1>2, <1>3, <1>4, <1>5, <1>6, <1>7, <1>8, <1>9, <1>10, <1>11 DEF ErdNext

\* A table stays where the user put it, whatever is introspected, created,
\* refreshed or left meanwhile.
THEOREM TablesHold == ErdSpec => []TablesStayPut
<1>1. ErdInit => ErdInv
  BY DEF ErdInit, ErdInv
<1>2. ErdInv => TablesStayPut
  BY DEF ErdInv, TablesStayPut, Empty
<1> QED
  BY <1>1, <1>2, ErdStep, PTL DEF ErdSpec

-----------------------------------------------------------------------------
(* SchemaTree: the tree of connections.                                     *)

\* What the variables hold.
States == {Idle, Loading, Failed} \cup {ReadyOn(d) : d \in Nat}

Ops == {"add", "rename", "repoint", "remove"}

\* A read, a connect and a change, by their fields.
IsRead(f)     == f = [kind |-> f.kind, seq |-> f.seq, handled |-> f.handled, ids |-> f.ids]
IsConnect(k)  == k = [root |-> k.root, seq |-> k.seq, handled |-> k.handled, db |-> k.db]
IsMutation(m) == m = [op |-> m.op, id |-> m.id, from |-> m.from, handled |-> m.handled]

\* The types of the variables of the lists.
TreeTypeOK ==
    /\ registry \in [Saved -> Nat] /\ treeSeq \in Nat
    /\ revision \in Nat /\ seenRevision \in Nat /\ seenRevision <= revision
    /\ \A f \in treeReads : IsRead(f) /\ f.seq \in Nat /\ f.seq <= treeSeq
    /\ \A m \in mutations : IsMutation(m) /\ m.id \in Saved /\ m.op \in Ops

\* The types of the variables of the roots; a root that loads waits for its
\* newest connect.
NodesOK ==
    /\ rootSeq \in [Root -> Nat] /\ rootState \in [Root -> States]
    /\ \A k \in connects : /\ IsConnect(k) /\ k.root \in Root /\ k.db \in Nat
                           /\ k.seq \in Nat /\ k.seq <= rootSeq[k.root]
    /\ \A r \in Root : rootState[r].kind = "loading" =>
         \E k \in connects : k.root = r /\ k.seq = rootSeq[r]

\* The page has heard of all that was done to a connection.
Clean(c) ==
    c \notin unreported /\ revision = seenRevision /\ \A m \in mutations : m.handled => m.id # c
\* A list is right about the connections the page has heard of.
ListsTrue(ids) == \A c \in Saved : Clean(c) => (c \in ids <=> registry[c] > 0)

\* The newest read was answered and its list is shown without a warning.
Settled ==
    (\A f \in treeReads : f.seq # treeSeq) /\ treePhase = "roots" /\ treeWarning = "none"

\* The newest read brings a right list, and so does a settled tree.
ReadsInv ==
    /\ \A f \in treeReads : f.seq = treeSeq /\ f.handled => ListsTrue(f.ids)
    /\ Settled => ListsTrue(summariesRef) /\ pendingRepoint = {}

\* The roots as the page knows them.
Built == BuildRoots(activeRef, summariesRef)

\* The roots shown are the roots known; only those hold anything.
ViewInv ==
    /\ treePhase = "roots" => treeRoots = Built
    /\ \A r \in Root : rootState[r] # Idle => r \in Built
    /\ activeRef = "target" => rootState[Boot] # Idle

\* The page is told, or about to be, that a connection was repointed.
Told(c) ==
    \/ c \in pendingRepoint
    \/ revision # seenRevision /\ repointed = c
    \/ \E m \in mutations : m.handled /\ m.op = "repoint" /\ m.id = c

\* The catalog of a root, shown or on its way, is of the database its record
\* names.
Current(c) ==
    /\ rootState[c].kind = "ready" => rootState[c].db = registry[c]
    /\ \A k \in connects : k.root = c /\ k.handled /\ k.seq = rootSeq[c] /\ rootState[c] # Idle =>
         k.db = registry[c]

\* A root that was never saved shows nothing.
Blank(c) == rootState[c].kind # "ready" /\ \A k \in connects : k.root = c => ~k.handled

\* A saved connection's catalog is current unless the page is yet to be told.
CatalogsInv ==
    \A c \in Saved :
      /\ registry[c] > 0 /\ c \notin unreported /\ ~Told(c) => Current(c)
      /\ registry[c] = 0 /\ c \notin retired => Blank(c)

\* The inductive invariant.
TreeInv == TreeTypeOK /\ NodesOK /\ ReadsInv /\ ViewInv /\ CatalogsInv

\* The states are those of the roots, or idle.
Pruned(states) ==
    /\ states \in [Root -> States]
    /\ \A r \in Root : states[r] \in {rootState[r], Idle}
    /\ \A c \in Saved : c \in pendingRepoint /\ c \notin pendingRepoint' => states[c] = Idle

\* The registry rests, and what is known of it.
NothingTold == UNCHANGED <<registry, retired, unreported, revision, seenRevision, repointed, mutations>>

\* The states of a root differ by their kinds.
LEMMA StateKinds ==
    /\ Idle.kind = "idle" /\ Loading.kind = "loading" /\ Failed.kind = "error"
    /\ \A d : ReadyOn(d).kind = "ready" /\ ReadyOn(d).db = d
    /\ {Idle, Loading, Failed} \subseteq States /\ \A d \in Nat : ReadyOn(d) \in States
    /\ \A s \in States : s.kind = "idle" => s = Idle
    /\ \A s \in States : s.kind \in {"idle", "loading", "ready", "error"}
<1>1. /\ Idle.kind = "idle" /\ Loading.kind = "loading" /\ Failed.kind = "error"
      /\ \A d : ReadyOn(d).kind = "ready" /\ ReadyOn(d).db = d
  BY DEF Idle, Loading, Failed, ReadyOn
<1>2. {Idle, Loading, Failed} \subseteq States /\ \A d \in Nat : ReadyOn(d) \in States
  BY Zenon DEF States
<1>3. ASSUME NEW s \in States
      PROVE  s = Idle \/ s = Loading \/ s = Failed \/ \E d \in Nat : s = ReadyOn(d)
  BY Zenon DEF States
<1>4. ASSUME NEW s \in States
      PROVE  (s.kind = "idle" => s = Idle) /\ s.kind \in {"idle", "loading", "ready", "error"}
  BY <1>1, <1>3
<1> QED
  BY <1>1, <1>2, <1>4

\* Saved connections are roots, the boot target is another.
LEMMA SavedAreRoots == Saved \subseteq Root /\ Boot \in Root /\ Boot \notin Saved /\ NoId \notin Saved
BY SchemaTreeAssumption DEF Root, Boot, NoId

\* The page goes on being told until it prunes.
LEMMA ToldStays ==
    ASSUME NothingTold, NEW c \in Saved, Told(c), c \notin pendingRepoint \ pendingRepoint'
    PROVE  Told(c)'
BY DEF NothingTold, Told

\* Pruning keeps the roots right.
LEMMA PruneSteps ==
    ASSUME TreeInv, Pruned(rootState'), UNCHANGED <<rootSeq, connects>>, NothingTold
    PROVE  NodesOK' /\ CatalogsInv'
<1>1. \A r \in Root : rootState'[r] \in {rootState[r], Idle}
  BY DEF Pruned
<1>2. NodesOK'
  <2>1. \A r \in Root : rootState'[r].kind = "loading" => rootState[r].kind = "loading"
    BY <1>1, StateKinds
  <2> QED
    BY <2>1 DEF TreeInv, NodesOK, Pruned
<1>3. ASSUME NEW c \in Saved, registry'[c] > 0, c \notin unreported', ~Told(c)' PROVE Current(c)'
  <2>1. CASE c \in pendingRepoint \ pendingRepoint'
    <3>1. rootState'[c] = Idle
      BY <2>1 DEF Pruned
    <3> QED
      BY <3>1, StateKinds DEF Current
  <2>2. CASE c \notin pendingRepoint \ pendingRepoint'
    <3>1. ~Told(c) /\ registry' = registry /\ unreported' = unreported
      BY <1>3, <2>2, ToldStays DEF NothingTold
    <3>2. Current(c)
      BY <1>3, <3>1 DEF TreeInv, CatalogsInv
    <3>3. rootState'[c] \in {rootState[c], Idle}
      BY <1>1, SavedAreRoots
    <3> QED
      BY <3>1, <3>2, <3>3, StateKinds DEF Current
  <2> QED
    BY <2>1, <2>2
<1>4. ASSUME NEW c \in Saved, registry'[c] = 0, c \notin retired' PROVE Blank(c)'
  <2>1. Blank(c) /\ rootState'[c] \in {rootState[c], Idle}
    BY <1>1, <1>4, SavedAreRoots DEF TreeInv, CatalogsInv, NothingTold
  <2> QED
    BY <2>1, StateKinds DEF Blank
<1> QED
  BY <1>2, <1>3, <1>4 DEF CatalogsInv

\* So does opening one, pruning first.
LEMMA FetchSteps ==
    ASSUME TreeInv, NEW states, Pruned(states), NEW r \in Root, FetchRoot(r, states), NothingTold
    PROVE  NodesOK' /\ CatalogsInv' /\ rootState' = [states EXCEPT ![r] = Loading]
<1> DEFINE new == [root |-> r, seq |-> rootSeq[r] + 1, handled |-> FALSE, db |-> 0]
<1>1. /\ rootState' = [states EXCEPT ![r] = Loading] /\ rootSeq' = [rootSeq EXCEPT ![r] = @ + 1]
      /\ connects' = connects \cup {new}
  BY DEF FetchRoot
<1>2. new.root = r /\ new.seq = rootSeq[r] + 1 /\ ~new.handled /\ new.db \in Nat /\ IsConnect(new)
  BY DEF IsConnect
<1> HIDE DEF new
<1>3. /\ rootSeq \in [Root -> Nat] /\ states \in [Root -> States]
      /\ \A s \in Root : states[s] \in {rootState[s], Idle}
  BY DEF TreeInv, NodesOK, Pruned
<1>4. /\ rootState' \in [Root -> States] /\ rootState'[r] = Loading
      /\ \A s \in Root : s # r => rootState'[s] = states[s]
  BY <1>1, <1>3, StateKinds
<1>5. /\ rootSeq' \in [Root -> Nat] /\ rootSeq'[r] = rootSeq[r] + 1
      /\ \A s \in Root : s # r => rootSeq'[s] = rootSeq[s]
  BY <1>1, <1>3
<1>6. \A k \in connects : k.root = r => k.seq # rootSeq'[r]
  BY <1>3, <1>5 DEF TreeInv, NodesOK
<1>7. NodesOK'
  <2>1. \A k \in connects' : /\ IsConnect(k) /\ k.root \in Root /\ k.db \in Nat
                             /\ k.seq \in Nat /\ k.seq <= rootSeq'[k.root]
    <3> TAKE k \in connects'
    <3>1. CASE k = new
      BY <1>2, <1>3, <1>5, <3>1
    <3>2. CASE k \in connects
      <4>1. IsConnect(k) /\ k.root \in Root /\ k.db \in Nat /\ k.seq \in Nat /\ k.seq <= rootSeq[k.root]
        BY <3>2 DEF TreeInv, NodesOK
      <4> QED
        BY <1>3, <1>5, <4>1
    <3> QED
      BY <1>1, <3>1, <3>2
  <2>2. ASSUME NEW s \in Root, rootState'[s].kind = "loading"
        PROVE  \E k \in connects' : k.root = s /\ k.seq = rootSeq'[s]
    <3>1. CASE s = r
      BY <1>1, <1>2, <1>5, <3>1
    <3>2. CASE s # r
      <4>1. rootState[s].kind = "loading"
        BY <1>3, <1>4, <2>2, <3>2, StateKinds
      <4> QED
        BY <1>1, <1>5, <3>2, <4>1 DEF TreeInv, NodesOK
    <3> QED
      BY <3>1, <3>2
  <2> QED
    BY <1>4, <1>5, <2>1, <2>2 DEF NodesOK
<1>8. ASSUME NEW c \in Saved, registry'[c] > 0, c \notin unreported', ~Told(c)' PROVE Current(c)'
  <2>0. c \in Root
    BY SavedAreRoots
  <2>1. CASE c = r
    BY <1>1, <1>2, <1>4, <1>6, <2>1, StateKinds DEF Current
  <2>2. CASE c # r /\ c \in pendingRepoint \ pendingRepoint'
    <3>1. rootState'[c] = Idle
      BY <1>4, <2>0, <2>2 DEF Pruned
    <3> QED
      BY <3>1, StateKinds DEF Current
  <2>3. CASE c # r /\ c \notin pendingRepoint \ pendingRepoint'
    <3>1. ~Told(c) /\ registry' = registry /\ unreported' = unreported
      BY <1>8, <2>3, ToldStays DEF NothingTold
    <3>2. Current(c)
      BY <1>8, <3>1 DEF TreeInv, CatalogsInv
    <3>3. rootState'[c] \in {rootState[c], Idle} /\ rootSeq'[c] = rootSeq[c]
      BY <1>3, <1>4, <1>5, <2>0, <2>3
    <3>4. \A k \in connects' : k.root = c => k \in connects
      BY <1>1, <1>2, <2>3
    <3> QED
      BY <3>1, <3>2, <3>3, <3>4, StateKinds DEF Current
  <2> QED
    BY <2>1, <2>2, <2>3
<1>9. ASSUME NEW c \in Saved, registry'[c] = 0, c \notin retired' PROVE Blank(c)'
  <2>0. c \in Root
    BY SavedAreRoots
  <2>1. Blank(c)
    BY <1>9 DEF TreeInv, CatalogsInv, NothingTold
  <2>2. rootState'[c] \in {rootState[c], Idle, Loading}
    BY <1>3, <1>4, <2>0
  <2> QED
    BY <1>1, <1>2, <2>1, <2>2, StateKinds DEF Blank
<1> QED
  BY <1>1, <1>7, <1>8, <1>9 DEF CatalogsInv

\* Reconciling prunes what is gone or repointed, and opens the boot root.
LEMMA ReconcileSteps ==
    ASSUME TreeInv, NEW roots, Reconcile(roots), NothingTold
    PROVE  /\ NodesOK' /\ CatalogsInv' /\ pendingRepoint' = {}
           /\ \A r \in Root : rootState'[r] # Idle => r \in roots
           /\ Boot \in roots => rootState'[Boot] # Idle
<1> DEFINE kept == [r \in Root |-> IF r \in Retained(roots) THEN rootState[r] ELSE Idle]
<1>1. /\ pendingRepoint' = {}
      /\ IF Boot \in roots /\ kept[Boot] = Idle THEN FetchRoot(Boot, kept)
         ELSE rootState' = kept /\ UNCHANGED <<rootSeq, connects>>
  BY DEF Reconcile
<1>2. Boot \in Root /\ Saved \subseteq Root
  BY SavedAreRoots
<1>3. kept \in [Root -> States] /\ \A r \in Root : kept[r] \in {rootState[r], Idle}
  BY StateKinds DEF TreeInv, NodesOK
<1>4. \A r \in Root : kept[r] # Idle => r \in roots
  BY DEF Retained
<1>5. \A c \in Saved : c \in pendingRepoint => kept[c] = Idle
  BY <1>2 DEF Retained
<1> HIDE DEF kept
<1>6. Pruned(kept)
  BY <1>3, <1>5 DEF Pruned
<1>7. CASE Boot \in roots /\ kept[Boot] = Idle
  <2>1. NodesOK' /\ CatalogsInv' /\ rootState' = [kept EXCEPT ![Boot] = Loading]
    BY <1>1, <1>2, <1>6, <1>7, FetchSteps
  <2>2. rootState'[Boot] = Loading /\ \A r \in Root : r # Boot => rootState'[r] = kept[r]
    BY <1>2, <1>3, <2>1
  <2> QED
    BY <1>1, <1>4, <1>7, <2>1, <2>2, StateKinds
<1>8. CASE ~(Boot \in roots /\ kept[Boot] = Idle)
  <2>1. rootState' = kept /\ UNCHANGED <<rootSeq, connects>>
    BY <1>1, <1>8
  <2>2. Pruned(rootState')
    BY <1>6, <2>1
  <2> QED
    BY <1>1, <1>4, <1>8, <2>1, <2>2, PruneSteps
<1> QED
  BY <1>7, <1>8

\* What the reads keep when neither the list nor the registry moves.
LEMMA ReadsRest ==
    ASSUME TreeInv, NothingTold,
           UNCHANGED <<treeReads, treeSeq, treePhase, treeWarning, summariesRef, pendingRepoint>>
    PROVE  ReadsInv'
BY DEF TreeInv, ReadsInv, Settled, ListsTrue, Clean, NothingTold

\* What is heard of depends on the registry and the page's revision.
LEMMA CleanRests == ASSUME NothingTold, NEW ids PROVE ListsTrue(ids)' <=> ListsTrue(ids)
BY DEF NothingTold, ListsTrue, Clean

\* A new read is the newest, with nothing in it yet.
LEMMA NewRead ==
    ASSUME TreeInv, NEW kind, treeSeq' = treeSeq + 1,
           treeReads' = treeReads \cup {Read(kind, treeSeq + 1)},
           UNCHANGED <<registry, mutations, revision>>, seenRevision' \in {seenRevision, revision}
    PROVE  TreeTypeOK' /\ ReadsInv'
<1> DEFINE new == Read(kind, treeSeq + 1)
<1>1. IsRead(new) /\ new.seq = treeSeq + 1 /\ ~new.handled
  BY DEF IsRead, Read
<1> HIDE DEF new
<1>2. treeReads' = treeReads \cup {new}
  BY DEF new
<1>3. TreeTypeOK'
  BY <1>1, <1>2 DEF TreeInv, TreeTypeOK
<1>4. \A f \in treeReads' : f.seq = treeSeq' => f = new
  BY <1>1, <1>2 DEF TreeInv, TreeTypeOK
<1>5. ReadsInv'
  BY <1>1, <1>2, <1>4 DEF ReadsInv, Settled
<1> QED
  BY <1>3, <1>5

\* The roots are not concerned.
LEMMA NodesRest ==
    ASSUME TreeInv, UNCHANGED <<nodeVars, registry, retired, unreported>>,
           \A c \in Saved : c \notin unreported /\ Told(c) => Told(c)'
    PROVE  NodesOK' /\ CatalogsInv'
<1>1. UNCHANGED <<rootState, rootSeq, connects>>
  BY DEF nodeVars
<1>2. NodesOK'
  BY <1>1 DEF TreeInv, NodesOK
<1>3. \A c \in Saved : (Current(c) => Current(c)') /\ (Blank(c) => Blank(c)')
  BY <1>1 DEF Current, Blank
<1>4. CatalogsInv'
  BY <1>3 DEF TreeInv, CatalogsInv
<1> QED
  BY <1>2, <1>4

\* The view is not concerned.
LEMMA ViewRests ==
    ASSUME TreeInv, UNCHANGED <<refVars, viewVars, rootState>>
    PROVE  ViewInv'
BY DEF TreeInv, ViewInv, Built, BuildRoots, refVars, viewVars

\* The list is asked for again.
LEMMA LoadTreeStep == ASSUME TreeInv, LoadTree PROVE TreeInv'
<1> USE DEF registryVars, settingsVars
<1>1. TreeTypeOK' /\ ReadsInv'
  BY NewRead DEF LoadTree
<1>2. NothingTold /\ pendingRepoint' = pendingRepoint /\ UNCHANGED nodeVars
  BY DEF LoadTree, NothingTold
<1>3. NodesOK' /\ CatalogsInv'
  BY <1>2, NodesRest, ToldStays DEF NothingTold
<1>4. Built' = Built /\ UNCHANGED <<activeRef, treeRoots, rootState>> /\ (treePhase' = "roots" => treePhase = "roots")
  BY DEF LoadTree, Built, refVars, nodeVars, BuildRoots
<1>5. ViewInv'
  BY <1>4 DEF TreeInv, ViewInv
<1> QED
  BY <1>1, <1>3, <1>5 DEF TreeInv

\* The page takes up a change of the registry.
LEMMA RegistryRevisedStep == ASSUME TreeInv, RegistryRevised PROVE TreeInv'
<1> USE DEF registryVars, settingsVars
<1>1. TreeTypeOK' /\ ReadsInv'
  BY NewRead DEF RegistryRevised
<1>2. \A c \in Saved : Told(c) => Told(c)'
  BY SavedAreRoots DEF RegistryRevised, Told
<1>3. NodesOK' /\ CatalogsInv'
  BY <1>2, NodesRest DEF RegistryRevised
<1>4. ViewInv'
  BY ViewRests DEF RegistryRevised, nodeVars
<1> QED
  BY <1>1, <1>3, <1>4 DEF TreeInv

\* The Core lists.
LEMMA CoreListsStep == ASSUME TreeInv, NEW f \in treeReads, CoreLists(f) PROVE TreeInv'
<1> USE DEF registryVars, settingsVars
<1> DEFINE g == [f EXCEPT !.handled = TRUE, !.ids = Listed]
<1>1. treeReads' = (treeReads \ {f}) \cup {g}
  BY DEF CoreLists
<1>2. NothingTold /\ UNCHANGED <<treeSeq, pendingRepoint, refVars, viewVars, nodeVars>>
  BY DEF CoreLists, NothingTold
<1>3. IsRead(f) /\ f.seq \in Nat /\ f.seq <= treeSeq
  BY DEF TreeInv, TreeTypeOK
<1> DEFINE now == Listed
<1>4. g = [f EXCEPT !.handled = TRUE, !.ids = now]
  OBVIOUS
<1>5. ListsTrue(now)
  BY DEF ListsTrue, Listed
<1> HIDE DEF g, now
<1>6. IsRead(g) /\ g.seq = f.seq /\ g.handled /\ g.ids = now
  BY <1>3, <1>4 DEF IsRead
<1>7. TreeTypeOK'
  BY <1>1, <1>2, <1>3, <1>6 DEF TreeInv, TreeTypeOK, NothingTold
<1>8. \A h \in treeReads' : h.seq = treeSeq' /\ h.handled => ListsTrue(h.ids)
  BY <1>1, <1>2, <1>5, <1>6 DEF TreeInv, ReadsInv
<1>9. \A h \in treeReads' : h.seq = treeSeq' /\ h.handled => ListsTrue(h.ids)'
  BY <1>2, <1>8, CleanRests
<1>10. Settled' => Settled
  BY <1>1, <1>2, <1>6 DEF Settled, viewVars
<1>11. ReadsInv'
  BY <1>2, <1>9, <1>10, CleanRests DEF TreeInv, ReadsInv, refVars
<1>12. NodesOK' /\ CatalogsInv'
  BY <1>2, NodesRest, ToldStays DEF NothingTold
<1>13. ViewInv'
  BY <1>2, ViewRests DEF nodeVars
<1> QED
  BY <1>7, <1>11, <1>12, <1>13 DEF TreeInv

\* A reply to a read: an older one changes no list; the newest sets it, or warns.
LEMMA LoadTreeRepliesStep == ASSUME TreeInv, NEW f \in treeReads, LoadTreeReplies(f) PROVE TreeInv'
<1> USE DEF registryVars, settingsVars
<1>1. NothingTold /\ treeSeq' = treeSeq /\ treeReads' = treeReads \ {f}
  BY DEF LoadTreeReplies, NothingTold
<1>2. TreeTypeOK'
  BY <1>1 DEF TreeInv, TreeTypeOK, NothingTold
<1>a. PICK active \in (IF activeRef = "unknown" THEN {"unknown", "target", "no target"}
                                                 ELSE {activeRef}),
           readActive \in BOOLEAN, answer \in Outcomes(f) :
        /\ active # activeRef => readActive
        /\ readActive => active # "unknown"
        /\ activeRef' = active
        /\ IF f.seq # treeSeq
           THEN /\ bootWarning' = (~readActive /\ (bootWarning \/ activeRef = "unknown"))
                /\ AdoptBootRoot(active)
                /\ UNCHANGED summariesRef
           ELSE /\ bootWarning' = ~readActive
                /\ summariesRef' = IF answer = "ok" THEN f.ids ELSE summariesRef
                /\ IF answer = "failed" /\ active # "target" /\ summariesRef = {}
                   THEN /\ treePhase' = "error"
                        /\ UNCHANGED <<treeRoots, treeWarning, nodeVars, pendingRepoint>>
                   ELSE /\ treePhase' = "roots"
                        /\ treeRoots' = BuildRoots(active, summariesRef')
                        /\ treeWarning' = CASE ~readActive -> "boot"
                                            [] readActive /\ answer = "failed" -> "registry"
                                            [] OTHER -> "none"
                        /\ Reconcile(treeRoots')
  BY Zenon DEF LoadTreeReplies
<1>b. activeRef = "target" => active = "target"
  OBVIOUS
<1>3. /\ activeRef = "target" => active = "target"
      /\ activeRef' = active
      /\ IF f.seq # treeSeq
         THEN /\ AdoptBootRoot(active)
              /\ UNCHANGED summariesRef
         ELSE /\ summariesRef' = IF answer = "ok" THEN f.ids ELSE summariesRef
              /\ IF answer = "failed" /\ active # "target" /\ summariesRef = {}
                 THEN /\ treePhase' = "error"
                      /\ UNCHANGED <<treeRoots, treeWarning, nodeVars, pendingRepoint>>
                 ELSE /\ treePhase' = "roots"
                      /\ treeRoots' = BuildRoots(active, summariesRef')
                      /\ treeWarning' = CASE ~readActive -> "boot"
                                          [] readActive /\ answer = "failed" -> "registry"
                                          [] OTHER -> "none"
                      /\ Reconcile(treeRoots')
  BY <1>a, <1>b
<1>4. \A h \in treeReads' : h.seq = treeSeq' /\ h.handled => ListsTrue(h.ids)'
  BY <1>1, CleanRests DEF TreeInv, ReadsInv
<1>5. CASE f.seq # treeSeq
  <2> DEFINE roots == BuildRoots(active, summariesRef)
  <2>1. AdoptBootRoot(active) /\ summariesRef' = summariesRef
    BY <1>3, <1>5
  <2>2. CASE active = "target"
    <3>1. /\ treeRoots' = IF treePhase = "roots" /\ Boot \notin treeRoots THEN roots ELSE treeRoots
          /\ Reconcile(roots) /\ UNCHANGED <<treePhase, treeWarning>>
      BY <2>1, <2>2 DEF AdoptBootRoot
    <3>2. Built' = roots /\ Boot \in roots /\ Built \subseteq roots /\ (Boot \in Built => Built = roots)
      BY <1>3, <2>1, <2>2, SavedAreRoots DEF Built, BuildRoots
    <3> HIDE DEF roots
    <3>3. /\ NodesOK' /\ CatalogsInv' /\ pendingRepoint' = {}
          /\ \A r \in Root : rootState'[r] # Idle => r \in roots
          /\ Boot \in roots => rootState'[Boot] # Idle
      BY <1>1, <3>1, ReconcileSteps
    <3>4. treePhase' = "roots" => treeRoots' = roots
      BY <3>1, <3>2 DEF TreeInv, ViewInv
    <3>5. ViewInv'
      BY <3>2, <3>3, <3>4 DEF ViewInv
    <3>6. Settled' => Settled
      BY <1>1, <1>5, <3>1 DEF Settled
    <3>7. ReadsInv'
      BY <1>1, <1>4, <2>1, <3>3, <3>6, CleanRests DEF TreeInv, ReadsInv
    <3> QED
      BY <1>2, <3>3, <3>5, <3>7 DEF TreeInv
  <2>3. CASE active # "target"
    <3>1. UNCHANGED <<viewVars, nodeVars, pendingRepoint>>
      BY <2>1, <2>3 DEF AdoptBootRoot
    <3>2. Built' = Built
      BY <1>3, <2>1, <2>3 DEF Built, BuildRoots
    <3>3. ViewInv'
      BY <1>3, <2>3, <3>1, <3>2 DEF TreeInv, ViewInv, viewVars, nodeVars
    <3>4. NodesOK' /\ CatalogsInv'
      BY <1>1, <3>1, NodesRest, ToldStays DEF NothingTold
    <3>5. Settled' => Settled
      BY <1>1, <1>5, <3>1 DEF Settled, viewVars
    <3>6. ReadsInv'
      BY <1>1, <1>4, <2>1, <3>1, <3>5, CleanRests DEF TreeInv, ReadsInv
    <3> QED
      BY <1>2, <3>3, <3>4, <3>6 DEF TreeInv
  <2> QED
    BY <2>2, <2>3
<1>6. CASE f.seq = treeSeq
  <2>1. CASE answer = "failed" /\ active # "target" /\ summariesRef = {}
    <3>1. /\ treePhase' = "error" /\ summariesRef' = summariesRef
          /\ UNCHANGED <<treeRoots, treeWarning, nodeVars, pendingRepoint>>
      BY <1>3, <1>6, <2>1
    <3>2. Built' = Built
      BY <1>3, <2>1, <3>1 DEF Built, BuildRoots
    <3>3. ViewInv'
      BY <1>3, <2>1, <3>1, <3>2 DEF TreeInv, ViewInv, nodeVars
    <3>4. NodesOK' /\ CatalogsInv'
      BY <1>1, <3>1, NodesRest, ToldStays DEF NothingTold
    <3>5. ReadsInv'
      BY <1>4, <3>1 DEF ReadsInv, Settled
    <3> QED
      BY <1>2, <3>3, <3>4, <3>5 DEF TreeInv
  <2>2. CASE ~(answer = "failed" /\ active # "target" /\ summariesRef = {})
    <3> DEFINE roots == BuildRoots(active, summariesRef')
    <3>1. /\ summariesRef' = IF answer = "ok" THEN f.ids ELSE summariesRef
          /\ treePhase' = "roots" /\ treeRoots' = roots
          /\ treeWarning' = CASE ~readActive -> "boot"
                              [] readActive /\ answer = "failed" -> "registry"
                              [] OTHER -> "none"
          /\ Reconcile(treeRoots')
      BY <1>3, <1>6, <2>2
    <3>2. Built' = roots /\ (active = "target" => Boot \in roots)
      BY <1>3 DEF Built, BuildRoots
    <3> HIDE DEF roots
    <3>3. /\ NodesOK' /\ CatalogsInv' /\ pendingRepoint' = {}
          /\ \A r \in Root : rootState'[r] # Idle => r \in roots
          /\ Boot \in roots => rootState'[Boot] # Idle
      BY <1>1, <3>1, ReconcileSteps
    <3>4. ViewInv'
      BY <1>3, <3>1, <3>2, <3>3 DEF ViewInv
    <3>5. treeWarning' = "none" => answer = "ok" /\ f.handled
      BY <1>3, <3>1 DEF Outcomes
    <3>6. treeWarning' = "none" => ListsTrue(summariesRef')
      BY <1>6, <3>1, <3>5 DEF TreeInv, ReadsInv
    <3>7. treeWarning' = "none" => ListsTrue(summariesRef)'
      BY <1>1, <3>6 DEF NothingTold, ListsTrue, Clean
    <3>8. ReadsInv'
      BY <1>4, <3>3, <3>7 DEF ReadsInv, Settled
    <3> QED
      BY <1>2, <3>3, <3>4, <3>8 DEF TreeInv
  <2> QED
    BY <2>1, <2>2
<1> QED
  BY <1>5, <1>6

\* A reply to a refresh: the newest sets the list, or warns of the old one.
LEMMA RefreshRepliesStep == ASSUME TreeInv, NEW f \in treeReads, RefreshReplies(f) PROVE TreeInv'
<1> USE DEF registryVars, settingsVars
<1>1. NothingTold /\ treeSeq' = treeSeq /\ treeReads' = treeReads \ {f}
  BY DEF RefreshReplies, NothingTold
<1>2. TreeTypeOK'
  BY <1>1 DEF TreeInv, TreeTypeOK, NothingTold
<1>3. \A h \in treeReads' : h.seq = treeSeq' /\ h.handled => ListsTrue(h.ids)'
  BY <1>1, CleanRests DEF TreeInv, ReadsInv
<1>4. ASSUME UNCHANGED <<refVars, treePhase, treeRoots, nodeVars, pendingRepoint>>,
             Settled' => Settled
      PROVE  TreeInv'
  <2>1. ViewInv'
    BY <1>4 DEF TreeInv, ViewInv, Built, BuildRoots, refVars, nodeVars
  <2>2. NodesOK' /\ CatalogsInv'
    BY <1>1, <1>4, NodesRest, ToldStays DEF NothingTold
  <2>3. ReadsInv'
    BY <1>1, <1>3, <1>4, CleanRests DEF TreeInv, ReadsInv, refVars
  <2> QED
    BY <1>2, <2>1, <2>2, <2>3 DEF TreeInv
<1>5. CASE f.seq # treeSeq
  <2>1. UNCHANGED <<refVars, viewVars, nodeVars, pendingRepoint>>
    BY <1>5 DEF RefreshReplies
  <2>2. Settled' => Settled
    BY <1>1, <1>5, <2>1 DEF Settled, viewVars
  <2> QED
    BY <1>4, <2>1, <2>2 DEF viewVars
<1>6. CASE f.seq = treeSeq
  <2>1. PICK answer \in Outcomes(f) :
          \/ /\ answer = "failed"
             /\ treeWarning' = IF treePhase # "roots" THEN treeWarning
                               ELSE IF bootWarning THEN "boot" ELSE "registry"
             /\ UNCHANGED <<refVars, treePhase, treeRoots, nodeVars, pendingRepoint>>
          \/ /\ answer = "ok"
             /\ summariesRef' = f.ids /\ treePhase' = "roots"
             /\ treeRoots' = BuildRoots(activeRef, f.ids)
             /\ Reconcile(treeRoots') /\ activeRef' = activeRef
    BY <1>6 DEF RefreshReplies, Outcomes
  <2>2. CASE /\ treeWarning' = IF treePhase # "roots" THEN treeWarning
                               ELSE IF bootWarning THEN "boot" ELSE "registry"
             /\ UNCHANGED <<refVars, treePhase, treeRoots, nodeVars, pendingRepoint>>
    <3>1. ~Settled'
      BY <2>2 DEF Settled
    <3> QED
      BY <1>4, <2>2, <3>1
  <2>3. CASE /\ answer = "ok"
             /\ summariesRef' = f.ids /\ treePhase' = "roots"
             /\ treeRoots' = BuildRoots(activeRef, f.ids)
             /\ Reconcile(treeRoots') /\ activeRef' = activeRef
    <3> DEFINE roots == BuildRoots(activeRef, f.ids)
    <3>1. Built' = roots /\ (activeRef = "target" => Boot \in roots) /\ treeRoots' = roots
      BY <2>3 DEF Built, BuildRoots
    <3> HIDE DEF roots
    <3>2. /\ NodesOK' /\ CatalogsInv' /\ pendingRepoint' = {}
          /\ \A r \in Root : rootState'[r] # Idle => r \in roots
          /\ Boot \in roots => rootState'[Boot] # Idle
      BY <1>1, <2>3, <3>1, ReconcileSteps
    <3>3. ViewInv'
      BY <2>3, <3>1, <3>2 DEF ViewInv
    <3>4. ListsTrue(summariesRef')
      BY <1>6, <2>1, <2>3 DEF TreeInv, ReadsInv, Outcomes
    <3>5. ListsTrue(summariesRef)'
      BY <1>1, <3>4 DEF NothingTold, ListsTrue, Clean
    <3>6. ReadsInv'
      BY <1>3, <3>2, <3>5 DEF ReadsInv
    <3> QED
      BY <1>2, <3>2, <3>3, <3>6 DEF TreeInv
  <2> QED
    BY <2>1, <2>2, <2>3
<1> QED
  BY <1>5, <1>6

\* A root is opened.
LEMMA OpenRootStep == ASSUME TreeInv, NEW r \in Root, OpenRoot(r) PROVE TreeInv'
<1> USE DEF registryVars, settingsVars
<1>1. /\ NothingTold /\ FetchRoot(r, rootState) /\ treePhase = "roots" /\ r \in treeRoots
      /\ UNCHANGED <<treeReads, treeSeq, refVars, viewVars, pendingRepoint>>
  BY DEF OpenRoot, NothingTold, Shown
<1>2. Pruned(rootState)
  BY <1>1 DEF Pruned, TreeInv, NodesOK
<1>3. NodesOK' /\ CatalogsInv' /\ rootState' = [rootState EXCEPT ![r] = Loading]
  BY <1>1, <1>2, FetchSteps
<1>4. ReadsInv'
  BY <1>1, ReadsRest DEF refVars, viewVars
<1>5. \A s \in Root : rootState'[s] # Idle => rootState[s] # Idle \/ s = r
  BY <1>3 DEF TreeInv, NodesOK
<1>6. Boot \in Root /\ \A s \in Root : rootState[s] # Idle => rootState'[s] # Idle
  BY <1>3, StateKinds, SavedAreRoots DEF TreeInv, NodesOK
<1>7. ViewInv'
  BY <1>1, <1>5, <1>6 DEF TreeInv, ViewInv, Built, BuildRoots, refVars, viewVars
<1>8. TreeTypeOK'
  BY <1>1 DEF TreeInv, TreeTypeOK, NothingTold
<1> QED
  BY <1>3, <1>4, <1>7, <1>8 DEF TreeInv

\* The Core connects to the database the record names now.
LEMMA CoreConnectsStep == ASSUME TreeInv, NEW c \in connects, CoreConnects(c) PROVE TreeInv'
<1> USE DEF registryVars, settingsVars
<1>1. /\ NothingTold
      /\ UNCHANGED <<rootState, rootSeq, treeReads, treeSeq, refVars, viewVars, pendingRepoint>>
  BY DEF CoreConnects, NothingTold
<1> DEFINE d == IF c.root = Boot THEN 1 ELSE registry[c.root]
           k == [c EXCEPT !.handled = TRUE, !.db = d]
<1>2. d > 0 /\ connects' = (connects \ {c}) \cup {k}
  BY DEF CoreConnects
<1>3. /\ IsConnect(c) /\ c.root \in Root /\ c.seq \in Nat /\ c.seq <= rootSeq[c.root]
  BY DEF TreeInv, NodesOK
<1>4. d \in Nat /\ (c.root \in Saved => d = registry[c.root])
  BY <1>3, SavedAreRoots DEF TreeInv, TreeTypeOK, Root
<1>5. k = [c EXCEPT !.handled = TRUE, !.db = d]
  OBVIOUS
<1> HIDE DEF d, k
<1>6. IsConnect(k) /\ k.root = c.root /\ k.seq = c.seq /\ k.db = d
  BY <1>3, <1>5 DEF IsConnect
<1>7. NodesOK'
  <2>1. \A r \in Root : rootState'[r].kind = "loading" =>
          \E j \in connects' : j.root = r /\ j.seq = rootSeq'[r]
    BY <1>1, <1>2, <1>6 DEF TreeInv, NodesOK
  <2> QED
    BY <1>1, <1>2, <1>3, <1>4, <1>6, <2>1 DEF TreeInv, NodesOK
<1>8. ASSUME NEW s \in Saved, registry'[s] > 0, s \notin unreported', ~Told(s)' PROVE Current(s)'
  <2>1. ~Told(s)
    BY <1>1, <1>8, ToldStays
  <2>2. Current(s) /\ registry' = registry
    BY <1>1, <1>8, <2>1 DEF TreeInv, CatalogsInv, NothingTold
  <2>3. \A j \in connects' : j \in connects \/ j = k
    BY <1>2
  <2>4. k.root = s => k.db = registry[s]
    BY <1>4, <1>6
  <2> QED
    BY <1>1, <2>2, <2>3, <2>4 DEF Current
<1>9. ASSUME NEW s \in Saved, registry'[s] = 0, s \notin retired' PROVE Blank(s)'
  <2>1. Blank(s) /\ registry[s] = 0
    BY <1>1, <1>9 DEF TreeInv, CatalogsInv, NothingTold
  <2>2. k.root # s
    BY <1>2, <1>4, <1>6, <2>1
  <2> QED
    BY <1>1, <1>2, <2>1, <2>2 DEF Blank
<1>10. CatalogsInv'
  BY <1>8, <1>9 DEF CatalogsInv
<1>11. ReadsInv' /\ ViewInv'
  BY <1>1, ReadsRest, ViewRests DEF refVars, viewVars
<1>12. TreeTypeOK'
  BY <1>1 DEF TreeInv, TreeTypeOK, NothingTold
<1> QED
  BY <1>7, <1>10, <1>11, <1>12 DEF TreeInv

\* A connect is answered: only the newest of its root counts.
LEMMA ConnectRepliesStep == ASSUME TreeInv, NEW c \in connects, ConnectReplies(c) PROVE TreeInv'
<1> USE DEF registryVars, settingsVars
<1>1. /\ NothingTold /\ connects' = connects \ {c}
      /\ UNCHANGED <<rootSeq, treeReads, treeSeq, refVars, viewVars, pendingRepoint>>
  BY DEF ConnectReplies, NothingTold
<1> DEFINE r == c.root
<1>2. r \in Root /\ c.db \in Nat /\ rootState \in [Root -> States]
  BY DEF TreeInv, NodesOK
<1>3. \/ rootState' = rootState /\ (rootSeq[r] # c.seq \/ rootState[r] = Idle)
      \/ /\ rootSeq[r] = c.seq /\ rootState[r] # Idle
         /\ \/ c.handled /\ rootState' = [rootState EXCEPT ![r] = ReadyOn(c.db)]
            \/ rootState' = [rootState EXCEPT ![r] = Failed]
  BY DEF ConnectReplies, Superseded, Outcomes
<1> HIDE DEF r
<1>4. /\ rootState' \in [Root -> States]
      /\ \A s \in Root : s # r => rootState'[s] = rootState[s]
      /\ rootState'[r].kind = "loading" => rootSeq[r] # c.seq
      /\ \A s \in Root : rootState'[s] = Idle <=> rootState[s] = Idle
  BY <1>2, <1>3, StateKinds
<1>5. NodesOK'
  <2>1. ASSUME NEW s \in Root, rootState'[s].kind = "loading"
        PROVE  \E j \in connects' : j.root = s /\ j.seq = rootSeq'[s]
    <3>1. rootState[s].kind = "loading"
      BY <1>2, <1>3, <1>4, <2>1, StateKinds
    <3>2. PICK j \in connects : j.root = s /\ j.seq = rootSeq[s]
      BY <3>1 DEF TreeInv, NodesOK
    <3>3. j # c
      BY <1>4, <2>1, <3>2 DEF r
    <3> QED
      BY <1>1, <3>2, <3>3
  <2> QED
    BY <1>1, <1>4, <2>1 DEF TreeInv, NodesOK
<1>6. ASSUME NEW s \in Saved, registry'[s] > 0, s \notin unreported', ~Told(s)' PROVE Current(s)'
  <2>0. s \in Root
    BY SavedAreRoots
  <2>1. ~Told(s)
    BY <1>1, <1>6, ToldStays
  <2>2. Current(s) /\ registry' = registry
    BY <1>1, <1>6, <2>1 DEF TreeInv, CatalogsInv, NothingTold
  <2>3. rootState'[s].kind = "ready" => rootState'[s].db = registry[s]
    BY <1>2, <1>3, <1>4, <2>0, <2>2, StateKinds DEF Current, r
  <2> QED
    BY <1>1, <1>4, <2>0, <2>2, <2>3 DEF Current
<1>7. ASSUME NEW s \in Saved, registry'[s] = 0, s \notin retired' PROVE Blank(s)'
  <2>1. Blank(s) /\ s \in Root
    BY <1>1, <1>7, SavedAreRoots DEF TreeInv, CatalogsInv, NothingTold
  <2>2. rootState'[s].kind # "ready"
    BY <1>2, <1>3, <1>4, <2>1, StateKinds DEF Blank, r
  <2> QED
    BY <1>1, <2>1, <2>2 DEF Blank
<1>8. CatalogsInv'
  BY <1>6, <1>7 DEF CatalogsInv
<1>9. ReadsInv'
  BY <1>1, ReadsRest DEF refVars, viewVars
<1>10. ViewInv'
  BY <1>1, <1>4, SavedAreRoots DEF TreeInv, ViewInv, Built, BuildRoots, refVars, viewVars
<1>11. TreeTypeOK'
  BY <1>1 DEF TreeInv, TreeTypeOK, NothingTold
<1> QED
  BY <1>5, <1>8, <1>9, <1>10, <1>11 DEF TreeInv

\* What a change of the registry, or what becomes known of it, leaves alone.
LEMMA SettingsRest ==
    ASSUME TreeInv, UNCHANGED <<refVars, viewVars, nodeVars, treeSeq, treeReads, pendingRepoint>>,
           \A c \in Saved : Clean(c)' => Clean(c) /\ registry'[c] = registry[c]
    PROVE  NodesOK' /\ ViewInv' /\ ReadsInv'
<1>1. NodesOK' /\ ViewInv'
  BY ViewRests DEF TreeInv, NodesOK, nodeVars
<1>2. \A ids : ListsTrue(ids) => ListsTrue(ids)'
  BY DEF ListsTrue
<1>3. Settled' = Settled /\ UNCHANGED <<summariesRef, treeReads, treeSeq, pendingRepoint>>
  BY DEF Settled, viewVars, refVars
<1>4. ReadsInv'
  BY <1>2, <1>3 DEF TreeInv, ReadsInv
<1> QED
  BY <1>1, <1>4

\* Settings asks for a change.
LEMMA MutateStep ==
    ASSUME TreeInv, NEW op \in Ops, NEW c \in Saved, Mutate(op, c)
    PROVE  TreeInv'
<1> DEFINE new == [op |-> op, id |-> c, from |-> panel.number, handled |-> FALSE]
<1>1. /\ mutations' = mutations \cup {new}
      /\ UNCHANGED <<registryVars, refVars, viewVars, nodeVars, revision, repointed, unreported,
                     treeSeq, pendingRepoint, treeReads, seenRevision>>
  BY DEF Mutate
<1>2. IsMutation(new) /\ new.id \in Saved /\ new.op \in Ops /\ ~new.handled
  BY DEF IsMutation
<1> HIDE DEF new
<1>3. TreeTypeOK'
  BY <1>1, <1>2 DEF TreeInv, TreeTypeOK, registryVars
<1>4. \A s \in Saved : (Clean(s)' => Clean(s) /\ registry'[s] = registry[s]) /\ (Told(s) => Told(s)')
  BY <1>1 DEF Clean, Told, registryVars
<1>5. NodesOK' /\ CatalogsInv'
  BY <1>1, <1>4, NodesRest DEF registryVars
<1>6. ViewInv' /\ ReadsInv'
  BY <1>1, <1>4, SettingsRest
<1> QED
  BY <1>3, <1>5, <1>6 DEF TreeInv

\* The Core makes it.
LEMMA CoreMutatesStep == ASSUME TreeInv, NEW m \in mutations, CoreMutates(m) PROVE TreeInv'
<1> DEFINE n == [m EXCEPT !.handled = TRUE]
           i == m.id
<1>1. IsMutation(m) /\ i \in Saved /\ m.op \in Ops
  BY DEF TreeInv, TreeTypeOK
<1>2. n = [m EXCEPT !.handled = TRUE] /\ mutations' = (mutations \ {m}) \cup {n} /\ ~m.handled
  BY DEF CoreMutates
<1>3. UNCHANGED <<refVars, viewVars, nodeVars, revision, repointed, unreported,
                  treeSeq, pendingRepoint, treeReads, seenRevision>>
  BY DEF CoreMutates
<1> HIDE DEF n
<1>4. IsMutation(n) /\ n.id = i /\ n.op = m.op /\ n.handled
  BY <1>1, <1>2 DEF IsMutation
<1>5. registry \in [Saved -> Nat]
  BY DEF TreeInv, TreeTypeOK
<1>6. /\ registry' \in [Saved -> Nat] /\ \A c \in Saved : c # i => registry'[c] = registry[c]
      /\ \A c : c \in retired => c \in retired'
      /\ m.op = "add" => registry[i] = 0 /\ i \notin retired
      /\ m.op = "rename" => registry'[i] = registry[i] /\ registry[i] > 0
      /\ m.op = "remove" => registry'[i] = 0 /\ i \in retired'
  <2> DEFINE v == CASE m.op = "add"     -> 1
                    [] m.op = "rename"  -> registry[i]
                    [] m.op = "repoint" -> registry[i] + 1
                    [] m.op = "remove"  -> 0
  <2>1. registry' = [registry EXCEPT ![i] = v]
    BY DEF CoreMutates
  <2>2. v \in Nat /\ (m.op = "rename" => v = registry[i]) /\ (m.op = "remove" => v = 0)
    BY <1>1, <1>5 DEF Ops
  <2> HIDE DEF v
  <2>3. /\ registry' \in [Saved -> Nat] /\ registry'[i] = v
        /\ \A c \in Saved : c # i => registry'[c] = registry[c]
    BY <1>1, <1>5, <2>1, <2>2
  <2>4. /\ retired' = IF m.op = "remove" THEN retired \cup {i} ELSE retired
        /\ IF m.op = "add" THEN i \notin Listed \cup retired ELSE i \in Listed
    BY DEF CoreMutates
  <2>5. (m.op = "add" => registry[i] = 0 /\ i \notin retired) /\ (m.op = "rename" => registry[i] > 0)
    BY <1>1, <1>5, <2>4 DEF Listed
  <2> QED
    BY <2>2, <2>3, <2>4, <2>5
<1>7. TreeTypeOK'
  BY <1>1, <1>2, <1>3, <1>4, <1>6 DEF TreeInv, TreeTypeOK
<1>8. \A c \in Saved : Clean(c)' => Clean(c) /\ registry'[c] = registry[c]
  BY <1>2, <1>3, <1>4, <1>6 DEF Clean
<1>9. NodesOK' /\ ViewInv' /\ ReadsInv'
  BY <1>3, <1>8, SettingsRest
<1>10. \A c \in Saved : Told(c) => Told(c)'
  BY <1>2, <1>3 DEF Told
<1>11. /\ \A c \in Saved : c # i /\ Current(c) => Current(c)'
       /\ \A c \in Saved : Blank(c) => Blank(c)' /\ Current(c)'
       /\ \A c \in Saved : registry'[c] = registry[c] /\ Current(c) => Current(c)'
  BY <1>3, <1>6 DEF Current, Blank, nodeVars
<1>12. ASSUME NEW c \in Saved
       PROVE  /\ registry'[c] > 0 /\ c \notin unreported' /\ ~Told(c)' => Current(c)'
              /\ registry'[c] = 0 /\ c \notin retired' => Blank(c)'
  <2>0. /\ registry[c] > 0 /\ c \notin unreported /\ ~Told(c) => Current(c)
        /\ registry[c] = 0 /\ c \notin retired => Blank(c)
    BY DEF TreeInv, CatalogsInv
  <2>1. CASE c # i
    BY <1>3, <1>6, <1>10, <1>11, <2>0, <2>1
  <2>2. CASE c = i /\ m.op = "add"
    <3>1. Blank(c)
      BY <1>6, <2>0, <2>2
    <3> QED
      BY <1>11, <3>1
  <2>3. CASE c = i /\ m.op = "rename"
    BY <1>3, <1>6, <1>10, <1>11, <2>0, <2>3
  <2>4. CASE c = i /\ m.op = "repoint"
    <3>1. Told(c)'
      BY <1>2, <1>4, <2>4 DEF Told
    <3>2. registry'[c] > 0
      BY <2>4, <1>5 DEF CoreMutates, Listed
    <3> QED
      BY <3>1, <3>2
  <2>5. CASE c = i /\ m.op = "remove"
    BY <1>6, <2>5
  <2> QED
    BY <1>1, <2>1, <2>2, <2>3, <2>4, <2>5 DEF Ops
<1>13. CatalogsInv'
  BY <1>12 DEF CatalogsInv
<1> QED
  BY <1>7, <1>9, <1>13 DEF TreeInv

\* The page hears of it.
LEMMA MutationRepliesStep == ASSUME TreeInv, NEW m \in mutations, MutationReplies(m) PROVE TreeInv'
<1>1. /\ mutations' = mutations \ {m}
      /\ UNCHANGED <<registryVars, refVars, viewVars, nodeVars, treeSeq, pendingRepoint, treeReads,
                     seenRevision>>
      /\ \/ Announce(m)
         \/ /\ unreported' = IF m.handled THEN unreported \cup {m.id} ELSE unreported
            /\ UNCHANGED <<revision, repointed>>
  BY DEF MutationReplies
<1>2. TreeTypeOK'
  BY <1>1 DEF TreeInv, TreeTypeOK, registryVars, Announce
<1>3. m.id \in Saved /\ NoId \notin Saved /\ seenRevision \in Nat /\ revision \in Nat /\ seenRevision <= revision
  BY SavedAreRoots DEF TreeInv, TreeTypeOK
<1>4. \A c \in Saved : Clean(c)' => Clean(c)
  BY <1>1, <1>3 DEF Clean, Announce
<1>5. \A c \in Saved : Told(c) => Told(c)' \/ c \in unreported'
  BY <1>1, <1>3 DEF Told, Announce
<1>6. unreported \subseteq unreported'
  BY <1>1 DEF Announce
<1>7. NodesOK' /\ ViewInv' /\ ReadsInv'
  BY <1>1, <1>4, SettingsRest DEF registryVars
<1>8. \A c \in Saved : (Current(c) => Current(c)') /\ (Blank(c) => Blank(c)')
  BY <1>1 DEF Current, Blank, nodeVars, registryVars
<1>9. CatalogsInv'
  BY <1>1, <1>5, <1>6, <1>8 DEF TreeInv, CatalogsInv, registryVars
<1> QED
  BY <1>2, <1>7, <1>9 DEF TreeInv

\* The tree loads at first.
LEMMA TreeInvInit == TreeInit => TreeInv
<1> SUFFICES ASSUME TreeInit PROVE TreeInv
  OBVIOUS
<1>1. IsRead(Read("load", 1)) /\ Read("load", 1).seq = 1 /\ ~Read("load", 1).handled
  BY DEF IsRead, Read
<1>2. TreeTypeOK
  BY <1>1 DEF TreeInit, TreeTypeOK
<1>3. NodesOK
  BY StateKinds DEF TreeInit, NodesOK
<1>4. ReadsInv
  BY <1>1 DEF TreeInit, ReadsInv, Settled
<1>5. ViewInv
  BY DEF TreeInit, ViewInv
<1>6. CatalogsInv
  BY StateKinds, SavedAreRoots DEF TreeInit, CatalogsInv, Current, Blank
<1> QED
  BY <1>2, <1>3, <1>4, <1>5, <1>6 DEF TreeInv

\* Every step keeps the invariant.
LEMMA TreeStep == TreeInv /\ [TreeNext]_treeVars => TreeInv'
<1> SUFFICES ASSUME TreeInv, [TreeNext]_treeVars PROVE TreeInv'
  OBVIOUS
<1>1. CASE UNCHANGED treeVars
  <2>1. NothingTold /\ UNCHANGED <<treeReads, treeSeq, refVars, viewVars, nodeVars, pendingRepoint>>
    BY <1>1 DEF treeVars, NothingTold, registryVars, settingsVars
  <2>2. TreeTypeOK'
    BY <2>1 DEF TreeInv, TreeTypeOK, NothingTold
  <2>3. ReadsInv' /\ ViewInv'
    BY <2>1, ReadsRest, ViewRests DEF refVars, viewVars, nodeVars
  <2>4. NodesOK' /\ CatalogsInv'
    BY <2>1, NodesRest, ToldStays DEF NothingTold
  <2> QED
    BY <2>2, <2>3, <2>4 DEF TreeInv
<1>2. CASE ReopenSettings
  <2>1. NothingTold /\ UNCHANGED <<treeReads, treeSeq, refVars, viewVars, nodeVars, pendingRepoint>>
    BY <1>2 DEF ReopenSettings, NothingTold, registryVars
  <2>2. TreeTypeOK'
    BY <2>1 DEF TreeInv, TreeTypeOK, NothingTold
  <2>3. ReadsInv' /\ ViewInv'
    BY <2>1, ReadsRest, ViewRests DEF refVars, viewVars, nodeVars
  <2>4. NodesOK' /\ CatalogsInv'
    BY <2>1, NodesRest, ToldStays DEF NothingTold
  <2> QED
    BY <2>2, <2>3, <2>4 DEF TreeInv
<1>3. CASE LoadTree \/ RegistryRevised
  BY <1>3, LoadTreeStep, RegistryRevisedStep
<1>4. ASSUME NEW f \in treeReads, CoreLists(f) \/ LoadTreeReplies(f) \/ RefreshReplies(f) PROVE TreeInv'
  BY <1>4, CoreListsStep, LoadTreeRepliesStep, RefreshRepliesStep
<1>5. ASSUME NEW c \in connects, CoreConnects(c) \/ ConnectReplies(c) PROVE TreeInv'
  BY <1>5, CoreConnectsStep, ConnectRepliesStep
<1>6. ASSUME NEW op \in Ops, NEW c \in Saved, Mutate(op, c) PROVE TreeInv'
  BY <1>6, MutateStep
<1>7. ASSUME NEW m \in mutations, CoreMutates(m) \/ MutationReplies(m) PROVE TreeInv'
  BY <1>7, CoreMutatesStep, MutationRepliesStep
<1>8. ASSUME NEW r \in Root, OpenRoot(r) PROVE TreeInv'
  BY <1>8, OpenRootStep
<1> QED
  BY <1>1, <1>2, <1>3, <1>4, <1>5, <1>6, <1>7, <1>8 DEF TreeNext, Ops

\* The invariant is what the runs check, and more.
LEMMA TreeInvIsTrue == TreeInv => TreeIsTrue
<1> SUFFICES ASSUME TreeInv PROVE TreeIsTrue
  OBVIOUS
<1>1. RootsAreBacked
  BY DEF TreeInv, NodesOK, ViewInv, RootsAreBacked
<1>2. ASSUME TreeQuiet, treePhase = "roots" PROVE treeRoots = Built
  BY <1>2 DEF TreeInv, ViewInv
<1>3. ASSUME TreeQuiet, treePhase = "roots", treeWarning = "none", NEW c \in Saved \ unreported
      PROVE  /\ c \in treeRoots <=> registry[c] > 0
             /\ rootState[c].kind = "ready" => rootState[c].db = registry[c]
  <2>1. Settled /\ Clean(c)
    BY <1>3 DEF TreeQuiet, Settled, Clean
  <2>2. (c \in summariesRef <=> registry[c] > 0) /\ pendingRepoint = {}
    BY <2>1 DEF TreeInv, ReadsInv, ListsTrue
  <2>3. c \in treeRoots <=> c \in summariesRef
    BY <1>2, <1>3, SavedAreRoots DEF Built, BuildRoots
  <2>4. CASE registry[c] > 0
    <3>1. ~Told(c)
      BY <1>3, <2>2 DEF TreeQuiet, Told
    <3> QED
      BY <2>2, <2>3, <2>4, <3>1 DEF TreeInv, CatalogsInv, Current
  <2>5. CASE ~(registry[c] > 0)
    <3>1. rootState[c] = Idle
      BY <1>2, <1>3, <2>2, <2>3, <2>5, SavedAreRoots DEF TreeInv, ViewInv
    <3> QED
      BY <2>2, <2>3, <2>5, <3>1, StateKinds
  <2> QED
    BY <2>4, <2>5
<1>4. ASSUME TreeQuiet, treePhase = "roots", activeRef = "target"
      PROVE  Boot \in treeRoots /\ rootState[Boot].kind \in {"ready", "error"}
  <2>1. Boot \in Root /\ rootState[Boot] # Idle /\ rootState[Boot] \in States
    BY <1>4, SavedAreRoots DEF TreeInv, ViewInv, NodesOK
  <2>2. rootState[Boot].kind # "loading"
    BY <1>4, <2>1 DEF TreeInv, NodesOK, TreeQuiet
  <2>3. Boot \in treeRoots
    BY <1>2, <1>4 DEF Built, BuildRoots
  <2> QED
    BY <2>1, <2>2, <2>3, StateKinds
<1>5. QuietTreeIsTrue
  BY <1>3, <1>4 DEF QuietTreeIsTrue
<1> QED
  BY <1>1, <1>5 DEF TreeIsTrue

\* A tree at rest lists the connections saved, and the catalog under a root is
\* of the database its record names, in whatever order reads, changes and
\* connects are answered.
THEOREM TreeHolds == TreeSpec => []TreeIsTrue
BY TreeInvInit, TreeStep, TreeInvIsTrue, PTL DEF TreeSpec

-----------------------------------------------------------------------------
(* RawScan: induction over the naturals and along an interval.              *)

\* Induction over the naturals, for a set.
LEMMA SetInduction ==
    ASSUME NEW S, 0 \in S, \A n \in Nat : n \in S => n + 1 \in S
    PROVE  Nat \subseteq S
<1> DEFINE R == {ss \in Nat \X Nat : ss[1] < ss[2]}
           T == Nat \ S
<1>1. \A x, y \in Nat : <<x, y>> \in R <=> x < y
  OBVIOUS
<1>2. R = OpToRel(<, Nat)
  BY DEF OpToRel
<1>3. IsWellFoundedOn(R, Nat)
  BY <1>2, NatLessThanWellFounded
<1> HIDE DEF R
<1> SUFFICES ASSUME T # {} PROVE FALSE
  OBVIOUS
<1>4. PICK x \in T : \A y \in T : ~ (<<y, x>> \in R)
  BY <1>3, WFMin
<1>5. x - 1 \in Nat /\ x - 1 < x /\ (x - 1) + 1 = x
  OBVIOUS
<1>6. x - 1 \in S
  BY <1>1, <1>4, <1>5
<1> QED
  BY <1>5, <1>6

\* A set of naturals that is not empty has a least element.
LEMMA HasLeast ==
    ASSUME NEW S \in SUBSET Nat, S # {}
    PROVE  \E x \in S : \A y \in S : x <= y
<1> DEFINE T == {k \in Nat : \A x \in S : x > k \/ x = k}
<1> SUFFICES ASSUME \A x \in S : \E y \in S : y < x PROVE FALSE
  OBVIOUS
<1>1. 0 \in T
  OBVIOUS
<1>2. ASSUME NEW k \in Nat, k \in T PROVE k + 1 \in T
  <2>1. SUFFICES ASSUME NEW x \in S, ~(x > k + 1 \/ x = k + 1) PROVE FALSE
    OBVIOUS
  <2>2. x > k \/ x = k
    BY <1>2
  <2>3. PICK y \in S : y < x
    OBVIOUS
  <2>4. y > k \/ y = k
    BY <1>2
  <2> QED
    BY <2>1, <2>2, <2>3, <2>4
<1>3. Nat \subseteq T
  <2> HIDE DEF T
  <2> QED
    BY <1>1, <1>2, SetInduction
<1>4. PICK x \in S : TRUE
  OBVIOUS
<1>5. x \in Nat /\ x + 1 \in T
  BY <1>3
<1> QED
  BY <1>4, <1>5

\* A bounded set of naturals that is not empty has a greatest element.
LEMMA HasGreatest ==
    ASSUME NEW n \in Nat, NEW S \in SUBSET (1 .. n), S # {}
    PROVE  \E x \in S : \A y \in S : y <= x
<1> DEFINE T == {k \in Nat : n - k \in S}
<1>1. \A x \in S : n - x \in T /\ n - (n - x) = x
  OBVIOUS
<1>2. T # {} /\ T \in SUBSET Nat
  BY <1>1
<1>3. PICK k \in T : \A y \in T : k <= y
  <2> HIDE DEF T
  <2> QED
    BY <1>2, HasLeast
<1>4. n - k \in S /\ k \in Nat
  OBVIOUS
<1>5. ASSUME NEW y \in S PROVE y <= n - k
  <2>1. n - y \in T
    BY <1>1
  <2>2. y \in Nat
    OBVIOUS
  <2> HIDE DEF T
  <2>3. k <= n - y
    BY <1>3, <2>1
  <2> QED
    BY <1>4, <2>2, <2>3
<1> QED
  BY <1>4, <1>5

\* Induction along an interval, upward.
LEMMA Upward ==
    ASSUME NEW a \in Int, NEW b \in Int, NEW S, a <= b => a \in S, \A j \in a .. (b - 1) : j \in S => j + 1 \in S
    PROVE  a .. b \subseteq S
<1> DEFINE T == {k \in Nat : a + k <= b => a + k \in S}
<1>1. 0 \in T
  OBVIOUS
<1>2. ASSUME NEW k \in Nat, k \in T PROVE k + 1 \in T
  <2>1. SUFFICES ASSUME a + (k + 1) <= b PROVE a + (k + 1) \in S
    OBVIOUS
  <2>2. a + k \in S /\ a + k \in a .. (b - 1)
    BY <1>2, <2>1
  <2> QED
    BY <2>2
<1> HIDE DEF T
<1>3. Nat \subseteq T
  BY <1>1, <1>2, SetInduction
<1>4. ASSUME NEW j \in a .. b PROVE j \in S
  <2>1. j - a \in T
    BY <1>3
  <2> QED
    BY <2>1 DEF T
<1> QED
  BY <1>4

\* Induction along an interval, downward.
LEMMA Downward ==
    ASSUME NEW a \in Int, NEW b \in Int, NEW S, a <= b => b \in S, \A j \in (a + 1) .. b : j \in S => j - 1 \in S
    PROVE  a .. b \subseteq S
<1> DEFINE T == {k \in Nat : a <= b - k => b - k \in S}
<1>1. 0 \in T
  OBVIOUS
<1>2. ASSUME NEW k \in Nat, k \in T PROVE k + 1 \in T
  <2>1. SUFFICES ASSUME a <= b - (k + 1) PROVE b - (k + 1) \in S
    OBVIOUS
  <2>2. b - k \in S /\ b - k \in (a + 1) .. b
    BY <1>2, <2>1
  <2> QED
    BY <2>2
<1> HIDE DEF T
<1>3. Nat \subseteq T
  BY <1>1, <1>2, SetInduction
<1>4. ASSUME NEW j \in a .. b PROVE j \in S
  <2>1. b - j \in T
    BY <1>3
  <2> QED
    BY <2>1 DEF T
<1> QED
  BY <1>4

-----------------------------------------------------------------------------
(* A loop over a text.                                                      *)

\* A loop goes on, and not past the end.
IsLoop(n, g) == n \in Nat /\ g \in [1 .. n -> 1 .. n + 1] /\ \A i \in 1 .. n : g[i] > i

\* The positions a loop comes to from i on are i and those from where it goes on.
LEMMA StopsAre ==
    ASSUME NEW n, NEW g, IsLoop(n, g)
    PROVE  /\ Stops(n, g)[n + 1] = {}
           /\ \A i \in 1 .. n : Stops(n, g)[i] = {i} \cup Stops(n, g)[g[i]]
<1> DEFINE Is(f, k) == f = [i \in 1 .. n + 1 |-> IF i > n \/ i < k THEN {} ELSE {i} \cup f[g[i]]]
           S == {k \in 1 .. n + 1 : \E f : Is(f, k)}
<1> USE DEF IsLoop
<1>1. n + 1 \in S
  <2> DEFINE f == [i \in 1 .. n + 1 |-> {}]
  <2>1. Is(f, n + 1)
    OBVIOUS
  <2> QED
    BY <2>1
<1>2. ASSUME NEW k \in 2 .. n + 1, k \in S PROVE k - 1 \in S
  <2>1. PICK f : Is(f, k)
    BY <1>2
  <2> DEFINE h == [i \in 1 .. n + 1 |-> IF i = k - 1 THEN {i} \cup f[g[i]] ELSE f[i]]
  <2>2. ASSUME NEW i \in 1 .. n + 1
        PROVE  h[i] = IF i > n \/ i < k - 1 THEN {} ELSE {i} \cup h[g[i]]
    <3>1. i \in 1 .. n => g[i] \in 1 .. n + 1 /\ g[i] > i
      OBVIOUS
    <3>2. f[i] = IF i > n \/ i < k THEN {} ELSE {i} \cup f[g[i]]
      BY <2>1
    <3>3. CASE i = k - 1
      <4>1. h[i] = {i} \cup f[g[i]] /\ h[g[i]] = f[g[i]]
        BY <3>1, <3>3
      <4> QED
        BY <3>3, <4>1
    <3>4. CASE i > n \/ i < k - 1
      BY <3>2, <3>4
    <3>5. CASE i >= k /\ i <= n
      <4>1. h[i] = f[i] /\ h[g[i]] = f[g[i]]
        BY <3>1, <3>5
      <4>2. f[i] = {i} \cup f[g[i]]
        BY <3>2, <3>5
      <4> HIDE DEF h
      <4> QED
        BY <3>5, <4>1, <4>2
    <3> QED
      BY <3>3, <3>4, <3>5
  <2>3. Is(h, k - 1)
    <3> DEFINE r == [i \in 1 .. n + 1 |-> IF i > n \/ i < k - 1 THEN {} ELSE {i} \cup h[g[i]]]
    <3>1. \A i \in 1 .. n + 1 : h[i] = r[i]
      BY <2>2
    <3>2. h = [i \in 1 .. n + 1 |-> h[i]] /\ r = [i \in 1 .. n + 1 |-> r[i]]
      OBVIOUS
    <3> HIDE DEF h
    <3>3. h = r
      <4> HIDE DEF r
      <4> QED
        BY <3>1, <3>2
    <3> QED
      BY <3>3
  <2>4. k - 1 \in 1 .. n + 1
    OBVIOUS
  <2> HIDE DEF h, Is
  <2> QED
    BY <2>3, <2>4
<1>3. 1 .. n + 1 \subseteq S
  <2> HIDE DEF S
  <2>1. \A j \in (1 + 1) .. (n + 1) : j \in S => j - 1 \in S
    BY <1>2
  <2>2. 1 \in Int /\ n + 1 \in Int
    OBVIOUS
  <2> QED
    BY <1>1, <2>1, <2>2, Downward
<1>4. 1 \in S
  <2>1. 1 \in 1 .. n + 1
    OBVIOUS
  <2> QED
    BY <1>3, <2>1
<1>5. PICK f : Is(f, 1)
  BY <1>4
<1>6. Stops(n, g) = [i \in 1 .. n + 1 |-> IF i > n THEN {} ELSE {i} \cup Stops(n, g)[g[i]]]
  <2>1. f = [i \in 1 .. n + 1 |-> IF i > n THEN {} ELSE {i} \cup f[g[i]]]
    <3>1. \A i \in 1 .. n + 1 : ~(i < 1)
      OBVIOUS
    <3> QED
      BY <1>5, <3>1
  <2> QED
    BY <2>1 DEF Stops
<1> HIDE DEF Is
<1> QED
  BY <1>6

\* The positions F[k] a loop comes to from k on: they begin with k and follow g, none is
\* jumped over, and what is not one of them is.
IsChain(n, g, k, at) ==
    /\ at \subseteq k .. n
    /\ k <= n => k \in at
    /\ \A i \in at : g[i] <= n => g[i] \in at
    /\ \A i, j \in at : i < j => g[i] <= j
    /\ \A j \in k .. n : j \in at \/ \E i \in at : i < j /\ j < g[i]

\* The positions a loop comes to are a chain.
LEMMA StopsAreChains ==
    ASSUME NEW n, NEW g, IsLoop(n, g), NEW k \in 1 .. n + 1
    PROVE  IsChain(n, g, k, Stops(n, g)[k])
<1> DEFINE F == Stops(n, g)
           S == {i \in 1 .. n + 1 : \A m \in i .. n + 1 : IsChain(n, g, m, F[m])}
<1>1. /\ F[n + 1] = {}
      /\ \A i \in 1 .. n : F[i] = {i} \cup F[g[i]]
  BY StopsAre
<1>2. n \in Nat /\ \A i \in 1 .. n : g[i] \in i + 1 .. n + 1
  BY DEF IsLoop
<1> HIDE DEF F
<1>3. n + 1 \in S
  <2>1. \A m \in n + 1 .. n + 1 : m = n + 1
    BY <1>2
  <2>2. IsChain(n, g, n + 1, F[n + 1])
    BY <1>1, <1>2 DEF IsChain
  <2>3. n + 1 \in 1 .. n + 1
    BY <1>2
  <2> QED
    BY <2>1, <2>2, <2>3
<1>4. ASSUME NEW j \in (1 + 1) .. (n + 1), j \in S PROVE j - 1 \in S
  <2> DEFINE i == j - 1
  <2>1. i \in 1 .. n /\ j = i + 1
    BY <1>2
  <2> HIDE DEF i
  <2> DEFINE m == g[i]
  <2>2. m \in i + 1 .. n + 1
    BY <1>2, <2>1
  <2>3. IsChain(n, g, m, F[m])
    BY <1>4, <2>1, <2>2
  <2>4. F[i] = {i} \cup F[m]
    BY <1>1, <2>1
  <2>5. IsChain(n, g, i, F[i])
    <3>1. F[i] \subseteq i .. n /\ i \in F[i]
      BY <1>2, <2>1, <2>2, <2>3, <2>4 DEF IsChain
    <3>2. \A x \in F[i] : g[x] <= n => g[x] \in F[i]
      BY <2>2, <2>3, <2>4 DEF IsChain
    <3>3. \A x, y \in F[i] : x < y => g[x] <= y
      BY <1>2, <2>1, <2>2, <2>3, <2>4 DEF IsChain
    <3>4. ASSUME NEW y \in i .. n PROVE y \in F[i] \/ \E x \in F[i] : x < y /\ y < g[x]
      <4>1. CASE y = i
        BY <3>1, <4>1
      <4>2. CASE i < y /\ y < m
        BY <3>1, <4>2
      <4>3. CASE y >= m
        <5>1. y \in m .. n
          BY <1>2, <2>1, <2>2, <4>3
        <5> QED
          BY <2>3, <2>4, <5>1 DEF IsChain
      <4> QED
        BY <1>2, <2>1, <2>2, <4>1, <4>2, <4>3
    <3> QED
      BY <3>1, <3>2, <3>3, <3>4 DEF IsChain
  <2>6. \A x \in i .. n + 1 : x = i \/ x \in j .. n + 1
    BY <1>2, <2>1
  <2>7. \A x \in i .. n + 1 : IsChain(n, g, x, F[x])
    BY <1>4, <2>5, <2>6
  <2> QED
    BY <2>1, <2>7, <1>2
<1>5. 1 .. n + 1 \subseteq S
  <2> HIDE DEF S
  <2>1. 1 \in Int /\ n + 1 \in Int
    BY <1>2
  <2> QED
    BY <1>3, <1>4, <2>1, Downward
<1>6. k \in k .. n + 1
  BY <1>2
<1> QED
  BY <1>5, <1>6 DEF F

-----------------------------------------------------------------------------
(* The server's reading.                                                    *)

\* The server reads a text from its first symbol on, one at a time.
LEMMA LexedIs ==
    ASSUME NEW sql, Len(sql) \in Nat, NEW s
    PROVE  /\ Lexed(sql, s)[1] = Code
           /\ \A i \in 1 .. Len(sql) : Lexed(sql, s)[i + 1] = LexStep(sql, s, Lexed(sql, s)[i], i)
<1> DEFINE n == Len(sql)
           Is(f, k) == f = [i \in 1 .. n + 1 |->
                              IF i = 1 \/ i > k THEN Code ELSE LexStep(sql, s, f[i - 1], i - 1)]
           S == {k \in 1 .. n + 1 : \E f : Is(f, k)}
<1>1. 1 \in S
  <2> DEFINE f == [i \in 1 .. n + 1 |-> Code]
  <2>1. Is(f, 1)
    OBVIOUS
  <2>2. 1 \in 1 .. n + 1
    OBVIOUS
  <2> QED
    BY <2>1, <2>2
<1>2. ASSUME NEW k \in 1 .. (n + 1) - 1, k \in S PROVE k + 1 \in S
  <2>1. PICK f : Is(f, k)
    BY <1>2
  <2> DEFINE x == LexStep(sql, s, f[k], k)
             h == [i \in 1 .. n + 1 |-> IF i = k + 1 THEN x ELSE f[i]]
             r == [i \in 1 .. n + 1 |-> IF i = 1 \/ i > k + 1 THEN Code ELSE LexStep(sql, s, h[i - 1], i - 1)]
  <2>2. ASSUME NEW i \in 1 .. n + 1 PROVE h[i] = r[i]
    <3>1. f[i] = IF i = 1 \/ i > k THEN Code ELSE LexStep(sql, s, f[i - 1], i - 1)
      BY <2>1
    <3>2. CASE i = k + 1
      <4>1. k \in 1 .. n + 1 /\ k # k + 1
        OBVIOUS
      <4>2. h[k] = f[k]
        BY <4>1
      <4>3. h[i] = x /\ i - 1 = k /\ ~(i = 1 \/ i > k + 1)
        BY <3>2
      <4> HIDE DEF h
      <4> QED
        BY <4>2, <4>3
    <3>3. CASE i = 1 \/ i > k + 1
      BY <3>1, <3>3
    <3>4. CASE i # 1 /\ i <= k
      <4>1. h[i] = f[i] /\ h[i - 1] = f[i - 1]
        BY <3>4
      <4> HIDE DEF h
      <4> QED
        BY <3>1, <3>4, <4>1
    <3> QED
      BY <3>2, <3>3, <3>4
  <2>3. h = r
    <3>1. h = [i \in 1 .. n + 1 |-> h[i]] /\ r = [i \in 1 .. n + 1 |-> r[i]]
      OBVIOUS
    <3> HIDE DEF h, r
    <3> QED
      BY <2>2, <3>1
  <2>4. k + 1 \in 1 .. n + 1
    OBVIOUS
  <2>5. Is(h, k + 1)
    <3> HIDE DEF h
    <3> QED
      BY <2>3
  <2> HIDE DEF h, Is
  <2> QED
    BY <2>4, <2>5
<1>3. 1 .. n + 1 \subseteq S
  <2> HIDE DEF S
  <2>1. 1 \in Int /\ n + 1 \in Int
    OBVIOUS
  <2> QED
    BY <1>1, <1>2, <2>1, Upward
<1>4. n + 1 \in S
  <2>1. n + 1 \in 1 .. n + 1
    OBVIOUS
  <2> QED
    BY <1>3, <2>1
<1>5. PICK f : Is(f, n + 1)
  BY <1>4
<1>6. f = [i \in 1 .. n + 1 |-> IF i = 1 THEN Code ELSE LexStep(sql, s, f[i - 1], i - 1)]
  <2>1. \A i \in 1 .. n + 1 : ~(i > n + 1)
    OBVIOUS
  <2> QED
    BY <1>5, <2>1
<1>7. Lexed(sql, s) = [i \in 1 .. n + 1 |-> IF i = 1 THEN Code ELSE LexStep(sql, s, Lexed(sql, s)[i - 1], i - 1)]
  BY <1>6 DEF Lexed
<1>8. Lexed(sql, s)[1] = Code
  BY <1>7
<1>9. ASSUME NEW i \in 1 .. n PROVE Lexed(sql, s)[i + 1] = LexStep(sql, s, Lexed(sql, s)[i], i)
  <2>1. i + 1 \in 1 .. n + 1 /\ i + 1 # 1 /\ (i + 1) - 1 = i
    OBVIOUS
  <2> QED
    BY <1>7, <2>1
<1> QED
  BY <1>8, <1>9

-----------------------------------------------------------------------------
(* Symbols and positions.                                                   *)

\* What a text is made of, and a text.
Symbols     == Words \cup Space \cup Marks
IsText(sql) == sql \in Seq(Symbols)

\* A position of a text holds a symbol; outside there is none.
LEMMA TextIs ==
    ASSUME NEW sql, IsText(sql)
    PROVE  /\ Len(sql) \in Nat /\ DOMAIN sql = 1 .. Len(sql)
           /\ \A i \in 1 .. Len(sql) : At(sql, i) = sql[i] /\ sql[i] \in Symbols /\ sql[i] # "end"
           /\ \A i \in Int : i \notin 1 .. Len(sql) => At(sql, i) = "end"
<1>1. Len(sql) \in Nat /\ DOMAIN sql = 1 .. Len(sql) /\ \A i \in 1 .. Len(sql) : sql[i] \in Symbols
  BY DEF IsText
<1>2. \A c \in Symbols : c # "end"
  BY DEF Symbols, Words, Space, Marks
<1> QED
  BY <1>1, <1>2 DEF At

\* The first of a set of positions, from i on.
IsFirst(n, i, positions, j) ==
    \/ j \in positions /\ j >= i /\ \A p \in positions : p >= i => p >= j
    \/ j = n + 1 /\ \A p \in positions : p < i

\* It is the least of them, or there is none and it is past the end.
LEMMA FirstIs ==
    ASSUME NEW sql, Len(sql) \in Nat, NEW i \in Int, NEW P \in SUBSET (1 .. Len(sql))
    PROVE  IsFirst(Len(sql), i, P, First(sql, i, P))
<1> DEFINE hits == {j \in P : j >= i}
<1>1. CASE hits = {}
  BY <1>1 DEF First, IsFirst
<1>2. CASE hits # {}
  <2>1. \E j \in hits : \A k \in hits : j <= k
    <3>1. hits \in SUBSET Nat
      <4>1. \A j \in P : j \in Nat
        OBVIOUS
      <4> QED
        BY <4>1
    <3> HIDE DEF hits
    <3> QED
      BY <1>2, <3>1, HasLeast
  <2>2. First(sql, i, P) \in hits /\ \A k \in hits : First(sql, i, P) <= k
    <3> DEFINE f == CHOOSE j \in hits : \A k \in hits : j <= k
    <3>1. First(sql, i, P) = f
      BY <1>2 DEF First
    <3>2. f \in hits /\ \A k \in hits : f <= k
      BY <2>1
    <3> QED
      BY <3>1, <3>2
  <2> QED
    BY <2>2 DEF IsFirst
<1> QED
  BY <1>1, <1>2

-----------------------------------------------------------------------------
(* One step of the server's reading.                                        *)

\* A state of the lexer, as a record in one piece.
Passing(span, skip, tag) == [in |-> span, skip |-> skip, tag |-> tag]

\* The states the model names are such records.
LEMMA PassingIs == Code = Passing("code", 0, <<>>) /\ \A span, k : In(span, k) = Passing(span, k, <<>>)
  BY DEF In, Code, Passing

\* Inside of a mark.
LEMMA SkipStep ==
    ASSUME NEW sql, Len(sql) \in Nat, NEW s, NEW i \in 1 .. Len(sql), NEW span, NEW k \in Nat, k > 0, NEW tag,
           Lexed(sql, s)[i] = Passing(span, k, tag)
    PROVE  Lexed(sql, s)[i + 1] = Passing(span, k - 1, tag)
<1>1. Lexed(sql, s)[i + 1] = LexStep(sql, s, Passing(span, k, tag), i)
  BY LexedIs
<1>2. LexStep(sql, s, Passing(span, k, tag), i) = Passing(span, k - 1, tag)
  BY DEF Passing, LexStep
<1> QED
  BY <1>1, <1>2

\* At the last symbol of a mark.
LEMMA PassOne ==
    ASSUME NEW sql, IsText(sql), NEW s, NEW i \in 1 .. Len(sql), NEW span, NEW tag,
           Lexed(sql, s)[i] = Passing(span, 1, tag)
    PROVE  Lexed(sql, s)[i + 1] = Passing(span, 0, tag)
<1>1. Len(sql) \in Nat
  BY TextIs
<1>2. 1 \in Nat /\ 1 > 0 /\ 1 - 1 = 0
  OBVIOUS
<1>3. Lexed(sql, s)[i + 1] = Passing(span, 1 - 1, tag)
  BY <1>1, <1>2, SkipStep
<1> QED
  BY <1>2, <1>3

\* In the code.
LEMMA CodeStep ==
    ASSUME NEW sql, Len(sql) \in Nat, NEW s, NEW i \in 1 .. Len(sql), Lexed(sql, s)[i] = Code
    PROVE  Lexed(sql, s)[i + 1] = Opens(sql, s, i)
<1>1. Lexed(sql, s)[i + 1] = LexStep(sql, s, Code, i)
  BY LexedIs
<1> QED
  BY <1>1 DEF Code, In, LexStep

\* Inside of a span.
LEMMA SpanStep ==
    ASSUME NEW sql, Len(sql) \in Nat, NEW s, NEW i \in 1 .. Len(sql), NEW span, span # "code", NEW tag,
           Lexed(sql, s)[i] = Passing(span, 0, tag)
    PROVE  Lexed(sql, s)[i + 1] = Inside(sql, s, Passing(span, 0, tag), i)
<1>1. Lexed(sql, s)[i + 1] = LexStep(sql, s, Passing(span, 0, tag), i)
  BY LexedIs
<1> QED
  BY <1>1 DEF Passing, LexStep

\* A mark of several symbols is passed one at a time.
LEMMA MarksArePassed ==
    ASSUME NEW sql, IsText(sql), NEW s, NEW a \in 1 .. Len(sql) + 1, NEW b \in a .. Len(sql) + 1,
           NEW span, NEW tag, Lexed(sql, s)[a] = Passing(span, b - a, tag)
    PROVE  \A j \in a .. b : Lexed(sql, s)[j] = Passing(span, b - j, tag)
<1> DEFINE S == {j \in a .. b : Lexed(sql, s)[j] = Passing(span, b - j, tag)}
<1>1. Len(sql) \in Nat
  BY TextIs
<1>2. a \in S
  BY <1>1
<1>3. ASSUME NEW j \in a .. b - 1, j \in S PROVE j + 1 \in S
  <2> DEFINE m == b - j
  <2>1. m \in Nat /\ m > 0 /\ m - 1 = b - (j + 1) /\ j + 1 \in a .. b /\ j \in 1 .. Len(sql)
    BY <1>1
  <2>2. Lexed(sql, s)[j] = Passing(span, m, tag)
    BY <1>3
  <2> HIDE DEF m
  <2>3. Lexed(sql, s)[j + 1] = Passing(span, m - 1, tag)
    BY <1>1, <2>1, <2>2, SkipStep
  <2> QED
    BY <2>1, <2>3
<1>4. a .. b \subseteq S
  <2> HIDE DEF S
  <2>1. a \in Int /\ b \in Int
    BY <1>1
  <2> QED
    BY <1>2, <1>3, <2>1, Upward
<1> QED
  BY <1>4

-----------------------------------------------------------------------------
(* What the scanner jumps over, the server reads inside of a span.          *)

\* A position the server counts to the code.
IsCode(sql, s, j) == Lexed(sql, s)[j].in = "code" /\ Lexed(sql, s)[j].skip = 0

\* The server is in the code, or about to leave a comment with the end of its line.
AtRest(sql, s, j) == Lexed(sql, s)[j] = Code \/ (Lexed(sql, s)[j] = In("line", 0) /\ sql[j] = "nl")

\* A span from i to before e.
IsSpan(sql, s, i, e) ==
    /\ e \in i + 1 .. Len(sql) + 1 /\ sql[i] \notin Words \cup {"semi"}
    /\ \A j \in i + 1 .. e - 1 : ~IsCode(sql, s, j)
    /\ e <= Len(sql) => AtRest(sql, s, e)

\* A comment to the end of its line.
LEMMA LineIsSpan ==
    ASSUME NEW sql, IsText(sql), NEW s, NEW i \in 1 .. Len(sql), sql[i] = "-", At(sql, i + 1) = "-",
           Lexed(sql, s)[i + 1] = In("line", 1)
    PROVE  IsSpan(sql, s, i, First(sql, i + 2, LineEnds(sql)))
<1> DEFINE n == Len(sql)
           e == First(sql, i + 2, LineEnds(sql))
<1>1. n \in Nat /\ i + 1 \in 1 .. n
  BY TextIs
<1>2. LineEnds(sql) \in SUBSET (1 .. n)
  BY TextIs DEF LineEnds
<1>3. IsFirst(n, i + 2, LineEnds(sql), e)
  BY <1>1, <1>2, FirstIs
<1> HIDE DEF e
<1>4. e \in i + 2 .. n + 1 /\ (e <= n => e \in LineEnds(sql)) /\ \A j \in i + 2 .. e - 1 : j \notin LineEnds(sql)
  BY <1>1, <1>2, <1>3 DEF IsFirst
<1>5. Lexed(sql, s)[i + 1] = Passing("line", 1, <<>>)
  BY PassingIs
<1>6. Lexed(sql, s)[i + 2] = Passing("line", 0, <<>>)
  <2>1. Lexed(sql, s)[(i + 1) + 1] = Passing("line", 0, <<>>)
    BY <1>1, <1>5, PassOne
  <2> QED
    BY <1>1, <2>1
<1> DEFINE S == {j \in i + 2 .. e : Lexed(sql, s)[j] = Passing("line", 0, <<>>)}
<1>7. i + 2 \in S
  BY <1>1, <1>4, <1>6
<1>8. ASSUME NEW j \in i + 2 .. e - 1, j \in S PROVE j + 1 \in S
  <2>1. j \in 1 .. n /\ sql[j] # "nl" /\ j + 1 \in i + 2 .. e
    BY <1>1, <1>4, TextIs DEF LineEnds
  <2>2. Lexed(sql, s)[j + 1] = Inside(sql, s, Passing("line", 0, <<>>), j)
    BY <1>1, <1>8, <2>1, SpanStep
  <2>3. Inside(sql, s, Passing("line", 0, <<>>), j) = Passing("line", 0, <<>>)
    BY <2>1 DEF Inside, Passing
  <2> QED
    BY <2>1, <2>2, <2>3
<1>9. \A j \in i + 2 .. e : Lexed(sql, s)[j] = Passing("line", 0, <<>>)
  <2> HIDE DEF S
  <2>1. i + 2 \in Int /\ e \in Int
    BY <1>1, <1>4
  <2>2. i + 2 .. e \subseteq S
    BY <1>7, <1>8, <2>1, Upward
  <2> QED
    BY <2>2 DEF S
<1>10. \A j \in i + 1 .. e - 1 : ~IsCode(sql, s, j)
  <2>1. \A j \in i + 1 .. e - 1 : j = i + 1 \/ j \in i + 2 .. e
    BY <1>1, <1>4
  <2> QED
    BY <1>5, <1>9, <2>1 DEF IsCode, Passing
<1>11. e <= n => AtRest(sql, s, e)
  <2>1. e \in i + 2 .. e
    BY <1>1, <1>4
  <2> QED
    BY <1>4, <1>9, <2>1, PassingIs DEF AtRest, LineEnds
<1>12. sql[i] \notin Words \cup {"semi"}
  BY DEF Words
<1> QED
  BY <1>1, <1>4, <1>10, <1>11, <1>12 DEF IsSpan, e

\* A block comment.
LEMMA BlockIsSpan ==
    ASSUME NEW sql, IsText(sql), NEW s, NEW i \in 1 .. Len(sql), sql[i] = "/", At(sql, i + 1) = "*",
           Lexed(sql, s)[i + 1] = In("block", 1)
    PROVE  IsSpan(sql, s, i, UpTo(Len(sql), First(sql, i + 2, BlockEnds(sql)) + 2))
<1> DEFINE n == Len(sql)
           h == First(sql, i + 2, BlockEnds(sql))
           e == UpTo(n, h + 2)
<1>1. n \in Nat /\ i + 1 \in 1 .. n
  BY TextIs
<1>2. BlockEnds(sql) \in SUBSET (1 .. n)
  BY TextIs DEF BlockEnds
<1>3. IsFirst(n, i + 2, BlockEnds(sql), h)
  BY <1>1, <1>2, FirstIs
<1>0. UpTo(Len(sql), First(sql, i + 2, BlockEnds(sql)) + 2) = e
  OBVIOUS
<1> HIDE DEF h, e
<1>4. h \in i + 2 .. n + 1 /\ (h <= n => h \in BlockEnds(sql)) /\ \A j \in i + 2 .. h - 1 : j \notin BlockEnds(sql)
  BY <1>1, <1>2, <1>3 DEF IsFirst
<1>5. Lexed(sql, s)[i + 1] = Passing("block", 1, <<>>)
  BY PassingIs
<1>6. Lexed(sql, s)[i + 2] = Passing("block", 0, <<>>)
  <2>1. Lexed(sql, s)[(i + 1) + 1] = Passing("block", 0, <<>>)
    BY <1>1, <1>5, PassOne
  <2> QED
    BY <1>1, <2>1
<1> DEFINE S == {j \in i + 2 .. h : Lexed(sql, s)[j] = Passing("block", 0, <<>>)}
<1>7. i + 2 \in S
  BY <1>1, <1>4, <1>6
<1>8. ASSUME NEW j \in i + 2 .. h - 1, j \in S PROVE j + 1 \in S
  <2>1. j \in 1 .. n /\ ~(sql[j] = "*" /\ At(sql, j + 1) = "/") /\ j + 1 \in i + 2 .. h
    BY <1>1, <1>4, TextIs DEF BlockEnds
  <2>2. Lexed(sql, s)[j + 1] = Inside(sql, s, Passing("block", 0, <<>>), j)
    BY <1>1, <1>8, <2>1, SpanStep
  <2>3. Inside(sql, s, Passing("block", 0, <<>>), j) = Passing("block", 0, <<>>)
    BY <2>1 DEF Inside, Passing
  <2> QED
    BY <2>1, <2>2, <2>3
<1>9. \A j \in i + 2 .. h : Lexed(sql, s)[j] = Passing("block", 0, <<>>)
  <2> HIDE DEF S
  <2>1. i + 2 \in Int /\ h \in Int
    BY <1>1, <1>4
  <2>2. i + 2 .. h \subseteq S
    BY <1>7, <1>8, <2>1, Upward
  <2> QED
    BY <2>2 DEF S
<1>10. \A j \in i + 1 .. h : ~IsCode(sql, s, j)
  <2>1. \A j \in i + 1 .. h : j = i + 1 \/ j \in i + 2 .. h
    BY <1>1, <1>4
  <2> QED
    BY <1>5, <1>9, <2>1 DEF IsCode, Passing
<1>11. sql[i] \notin Words \cup {"semi"}
  BY DEF Words
<1>12. ASSUME h = n + 1 PROVE IsSpan(sql, s, i, e)
  <2>1. e = n + 1
    BY <1>1, <1>12 DEF UpTo, e
  <2>2. e \in i + 1 .. n + 1 /\ ~(e <= n) /\ e - 1 = n
    BY <1>1, <2>1
  <2>3. i + 1 .. e - 1 \subseteq i + 1 .. h
    BY <1>1, <1>12, <2>2
  <2> QED
    BY <1>10, <1>11, <2>2, <2>3 DEF IsSpan
<1>13. ASSUME h <= n PROVE IsSpan(sql, s, i, e)
  <2>1. h \in 1 .. n /\ sql[h] = "*" /\ At(sql, h + 1) = "/"
    BY <1>1, <1>4, <1>13 DEF BlockEnds
  <2>2. h + 1 \in 1 .. n
    BY <1>1, <2>1, TextIs
  <2>3. e = h + 2
    <3>1. ~(h + 2 > n + 1) /\ h \in Nat
      BY <1>1, <2>1, <2>2
    <3>2. h + 2 = n + 1 \/ ~(h + 2 > n)
      BY <1>1, <3>1
    <3> QED
      BY <3>2 DEF UpTo, e
  <2>4. Lexed(sql, s)[h + 1] = Passing("code", 1, <<>>)
    <3>1. h \in i + 2 .. h
      BY <1>1, <1>4
    <3>2. Lexed(sql, s)[h + 1] = Inside(sql, s, Passing("block", 0, <<>>), h)
      BY <1>1, <1>9, <2>1, <3>1, SpanStep
    <3> QED
      BY <2>1, <3>2, PassingIs DEF Inside, Passing
  <2>5. Lexed(sql, s)[h + 2] = Passing("code", 0, <<>>)
    <3>1. Lexed(sql, s)[(h + 1) + 1] = Passing("code", 0, <<>>)
      BY <1>1, <2>2, <2>4, PassOne
    <3>2. (h + 1) + 1 = h + 2
      BY <1>1, <2>1
    <3> QED
      BY <3>1, <3>2
  <2>6. \A j \in i + 1 .. e - 1 : ~IsCode(sql, s, j)
    <3>1. \A j \in i + 1 .. e - 1 : j = h + 1 \/ j \in i + 1 .. h
      BY <1>1, <1>4, <2>3
    <3> QED
      BY <1>10, <2>4, <3>1 DEF IsCode, Passing
  <2>7. AtRest(sql, s, e)
    BY <2>3, <2>5, PassingIs DEF AtRest
  <2>8. e \in i + 1 .. n + 1
    BY <1>1, <1>4, <2>2, <2>3
  <2> QED
    BY <1>11, <2>6, <2>7, <2>8 DEF IsSpan
<1> QED
  BY <1>0, <1>1, <1>4, <1>12, <1>13

\* The tag at a dollar: words between two dollars.
LEMMA TagIs ==
    ASSUME NEW sql, IsText(sql), NEW i \in 1 .. Len(sql), MatchDollarTag(sql, i) # 0
    PROVE  /\ MatchDollarTag(sql, i) \in Nat /\ MatchDollarTag(sql, i) >= 2
           /\ i + MatchDollarTag(sql, i) - 1 \in 1 .. Len(sql)
           /\ At(sql, i + MatchDollarTag(sql, i) - 1) = "$"
           /\ \A k \in i + 1 .. i + MatchDollarTag(sql, i) - 2 : IsWord(sql[k])
<1> DEFINE n == Len(sql)
           P == {k \in DOMAIN sql : ~IsWord(sql[k])}
           j == First(sql, i + 1, P)
           t == MatchDollarTag(sql, i)
<1>1. n \in Nat /\ P \in SUBSET (1 .. n) /\ DOMAIN sql = 1 .. n
  BY TextIs
<1>2. IsFirst(n, i + 1, P, j)
  <2> HIDE DEF P
  <2> QED
    BY <1>1, FirstIs
<1>3. At(sql, j) = "$" /\ t = j - i + 1
  BY DEF MatchDollarTag
<1> HIDE DEF j, t, P
<1>4. j \in i + 1 .. n + 1
  <2>1. \A p \in P : p \in 1 .. n
    BY <1>1
  <2>2. n \in Nat /\ i \in 1 .. n
    BY <1>1
  <2> HIDE DEF n
  <2> QED
    BY <1>2, <2>1, <2>2 DEF IsFirst
<1>5. j \in 1 .. n
  BY <1>1, <1>3, <1>4, TextIs
<1>6. \A k \in i + 1 .. j - 1 : k \notin P
  BY <1>1, <1>2, <1>5 DEF IsFirst
<1>7. \A k \in i + 1 .. j - 1 : IsWord(sql[k])
  BY <1>1, <1>5, <1>6 DEF P
<1>8. i + t - 1 = j /\ i + t - 2 = j - 1 /\ t \in Nat /\ t >= 2
  BY <1>1, <1>3, <1>5, <1>4
<1> QED
  BY <1>3, <1>5, <1>7, <1>8 DEF t

\* A piece of a text has the length it was given.
LEMMA TextHas ==
    ASSUME NEW sql, IsText(sql), NEW i \in Int, NEW t \in Nat
    PROVE  /\ Len(Text(sql, i, t)) = t
           /\ \A k \in 1 .. t : Text(sql, i, t)[k] = At(sql, i + k - 1)
<1>1. Text(sql, i, t) = [k \in 1 .. t |-> At(sql, i + k - 1)]
  BY DEF Text
<1>2. \A k \in 1 .. t : At(sql, i + k - 1) \in Symbols \cup {"end"}
  BY TextIs
<1>3. Text(sql, i, t) \in Seq(Symbols \cup {"end"})
  BY <1>1, <1>2
<1>4. Len(Text(sql, i, t)) = t
  BY <1>1, <1>3
<1> QED
  BY <1>1, <1>4

\* A dollar quote.
LEMMA DollarIsSpan ==
    ASSUME NEW sql, IsText(sql), NEW s, NEW i \in 1 .. Len(sql), NEW t \in Nat, t >= 2,
           i + t - 1 \in 1 .. Len(sql), At(sql, i + t - 1) = "$",
           sql[i] = "$", Lexed(sql, s)[i + 1] = Passing("dollar", t - 1, Text(sql, i, t))
    PROVE  IsSpan(sql, s, i, UpTo(Len(sql), First(sql, i + t, Matches(sql, i, t)) + t))
<1> DEFINE n == Len(sql)
           tag == Text(sql, i, t)
           h == First(sql, i + t, Matches(sql, i, t))
           e == UpTo(n, h + t)
<1>0. UpTo(Len(sql), First(sql, i + t, Matches(sql, i, t)) + t) = e
  OBVIOUS
<1>1. n \in Nat /\ t \in Nat /\ t >= 2 /\ i + t - 1 \in 1 .. n /\ At(sql, i + t - 1) = "$" /\ i \in 1 .. n
  BY TextIs
<1>2. Matches(sql, i, t) \in SUBSET (1 .. n)
  BY TextIs DEF Matches
<1>3. IsFirst(n, i + t, Matches(sql, i, t), h)
  BY <1>1, <1>2, FirstIs
<1> HIDE DEF h, e
<1>4. h \in i + t .. n + 1 /\ (h <= n => h \in Matches(sql, i, t)) /\ \A j \in i + t .. h - 1 : j \notin Matches(sql, i, t)
  BY <1>1, <1>2, <1>3 DEF IsFirst
<1>5. \A j \in i + 1 .. i + t : Lexed(sql, s)[j] = Passing("dollar", (i + t) - j, tag)
  <2> DEFINE a == i + 1
             b == i + t
  <2>1. a \in 1 .. Len(sql) + 1 /\ b \in a .. Len(sql) + 1 /\ b - a = t - 1
    BY <1>1
  <2>2. Lexed(sql, s)[a] = Passing("dollar", b - a, tag)
    BY <2>1
  <2> HIDE DEF a, b
  <2>3. \A j \in a .. b : Lexed(sql, s)[j] = Passing("dollar", b - j, tag)
    BY <2>1, <2>2, MarksArePassed
  <2> QED
    BY <2>3 DEF a, b
<1>6. Len(tag) = t
  BY <1>1, TextHas
<1> HIDE DEF tag
<1> DEFINE S == {j \in i + t .. h : Lexed(sql, s)[j] = Passing("dollar", 0, tag)}
<1>7. i + t \in S
  <2>1. i + t \in i + 1 .. i + t /\ i + t \in i + t .. h /\ (i + t) - (i + t) = 0
    BY <1>1, <1>4
  <2> QED
    BY <1>5, <2>1
<1>8. ASSUME NEW j \in i + t .. h - 1, j \in S PROVE j + 1 \in S
  <2>1. j \in 1 .. n /\ j + 1 \in i + t .. h
    BY <1>1, <1>4
  <2>2. Text(sql, j, t) # tag
    BY <1>1, <1>4, <2>1, TextIs DEF Matches, tag
  <2>3. Lexed(sql, s)[j + 1] = Inside(sql, s, Passing("dollar", 0, tag), j)
    BY <1>1, <1>8, <2>1, SpanStep
  <2>4. Inside(sql, s, Passing("dollar", 0, tag), j) = Passing("dollar", 0, tag)
    BY <1>6, <2>2 DEF Inside, Passing
  <2> QED
    BY <2>1, <2>3, <2>4
<1>9. \A j \in i + t .. h : Lexed(sql, s)[j] = Passing("dollar", 0, tag)
  <2> HIDE DEF S
  <2>1. i + t \in Int /\ h \in Int
    BY <1>1, <1>4
  <2>2. i + t .. h \subseteq S
    BY <1>7, <1>8, <2>1, Upward
  <2> QED
    BY <2>2 DEF S
<1>10. \A j \in i + 1 .. h : ~IsCode(sql, s, j)
  <2>1. \A j \in i + 1 .. h : j \in i + 1 .. i + t \/ j \in i + t .. h
    BY <1>1, <1>4
  <2>2. \A k : ~(Passing("dollar", k, tag).in = "code")
    BY DEF Passing
  <2> QED
    BY <1>5, <1>9, <2>1, <2>2 DEF IsCode
<1>11. sql[i] \notin Words \cup {"semi"}
  BY DEF Words
<1>12. ASSUME h = n + 1 PROVE IsSpan(sql, s, i, e)
  <2>1. e = n + 1
    <3>1. h + t > n
      BY <1>1, <1>12
    <3> QED
      BY <3>1 DEF UpTo, e
  <2>2. e \in i + 1 .. n + 1 /\ ~(e <= n) /\ e - 1 = n
    BY <1>1, <2>1
  <2>3. i + 1 .. e - 1 \subseteq i + 1 .. h
    BY <1>1, <1>12, <2>2
  <2> QED
    BY <1>10, <1>11, <2>2, <2>3 DEF IsSpan
<1>13. ASSUME h <= n PROVE IsSpan(sql, s, i, e)
  <2>1. h \in 1 .. n /\ Text(sql, h, t) = Text(sql, i, t)
    BY <1>1, <1>4, <1>13 DEF Matches
  <2>2. At(sql, h + t - 1) = "$"
    <3>1. t \in 1 .. t
      BY <1>1
    <3>2. Text(sql, h, t)[t] = At(sql, h + t - 1) /\ Text(sql, i, t)[t] = At(sql, i + t - 1)
      BY <1>1, <2>1, <3>1, TextHas
    <3> QED
      BY <1>1, <2>1, <3>2
  <2>3. h + t - 1 \in 1 .. n
    <3>1. h + t - 1 \in Int
      BY <1>1, <2>1
    <3> QED
      BY <2>2, <3>1, TextIs
  <2>4. e = h + t
    <3>1. h + t = n + 1 \/ ~(h + t > n)
      BY <1>1, <2>1, <2>3
    <3> QED
      BY <3>1 DEF UpTo, e
  <2>5. Lexed(sql, s)[h + 1] = Passing("code", t - 1, <<>>)
    <3>1. h \in i + t .. h
      BY <1>1, <1>4
    <3>2. Lexed(sql, s)[h + 1] = Inside(sql, s, Passing("dollar", 0, tag), h)
      BY <1>1, <1>9, <2>1, <3>1, SpanStep
    <3>3. Text(sql, h, Len(tag)) = tag
      BY <1>6, <2>1 DEF tag
    <3>4. Inside(sql, s, Passing("dollar", 0, tag), h) = In("code", Len(tag) - 1)
      BY <3>3 DEF Inside, Passing
    <3> QED
      BY <1>6, <3>2, <3>4, PassingIs
  <2>6. \A j \in h + 1 .. h + t : Lexed(sql, s)[j] = Passing("code", (h + t) - j, <<>>)
    <3> DEFINE a == h + 1
               b == h + t
    <3>1. a \in 1 .. Len(sql) + 1 /\ b \in a .. Len(sql) + 1 /\ b - a = t - 1
      BY <1>1, <2>1, <2>3
    <3>2. Lexed(sql, s)[a] = Passing("code", b - a, <<>>)
      BY <2>5, <3>1
    <3> HIDE DEF a, b
    <3>3. \A j \in a .. b : Lexed(sql, s)[j] = Passing("code", b - j, <<>>)
      BY <3>1, <3>2, MarksArePassed
    <3> QED
      BY <3>3 DEF a, b
  <2>7. \A j \in i + 1 .. e - 1 : ~IsCode(sql, s, j)
    <3>1. \A j \in i + 1 .. e - 1 : j \in i + 1 .. h \/ (j \in h + 1 .. h + t /\ (h + t) - j # 0)
      BY <1>1, <1>4, <2>1, <2>4
    <3>2. \A k : Passing("code", k, <<>>).skip = k
      BY DEF Passing
    <3> QED
      BY <1>10, <2>6, <3>1, <3>2 DEF IsCode
  <2>8. AtRest(sql, s, e)
    <3>1. h + t \in h + 1 .. h + t /\ (h + t) - (h + t) = 0
      BY <1>1, <2>1
    <3> QED
      BY <2>4, <2>6, <3>1, PassingIs DEF AtRest
  <2>9. e \in i + 1 .. n + 1
    BY <1>1, <1>4, <2>1, <2>3, <2>4
  <2> QED
    BY <1>11, <2>7, <2>8, <2>9 DEF IsSpan
<1> QED
  BY <1>0, <1>1, <1>4, <1>12, <1>13

\* A string or a quoted identifier.
LEMMA QuotedIsSpan ==
    ASSUME NEW sql, IsText(sql), NEW s, NEW i \in 1 .. Len(sql), NEW span,
           span \notin {"code", "line", "block", "dollar"}, Delim(span) # "\\",
           sql[i] \notin Words \cup {"semi"}, Lexed(sql, s)[i + 1] = Passing(span, 0, <<>>)
    PROVE  IsSpan(sql, s, i, ConsumeDelimited(sql, i, Delim(span), Escapes(Backslashed(s, span))))
<1> DEFINE n == Len(sql)
           d == Delim(span)
           esc == Escapes(Backslashed(s, span))
           IsPair(j) == sql[j] \in esc \/ (sql[j] = d /\ At(sql, j + 1) = d)
           g == [j \in 1 .. n |-> UpTo(n, IF IsPair(j) THEN j + 2 ELSE j + 1)]
           at == Stops(n, g)[i + 1]
           P == {j \in at : sql[j] = d /\ ~IsPair(j)}
           c == First(sql, i + 1, P)
           e == UpTo(n, c + 1)
<1>0. ConsumeDelimited(sql, i, Delim(span), Escapes(Backslashed(s, span))) = e
  BY DEF ConsumeDelimited
<1>1. n \in Nat /\ i \in 1 .. n /\ i + 1 \in 1 .. n + 1
  BY TextIs
<1>2. \A j \in 1 .. n : /\ IsPair(j) => g[j] = (IF j = n THEN n + 1 ELSE j + 2)
                        /\ ~IsPair(j) => g[j] = j + 1
  BY <1>1 DEF UpTo
<1>d. esc = (IF Backslashed(s, span) THEN {"\\"} ELSE {}) /\ d = Delim(span) /\ d # "\\"
  BY DEF Escapes
<1> HIDE DEF IsPair, esc, d
<1>3. g \in [1 .. n -> 1 .. n + 1]
  BY <1>1 DEF UpTo
<1> HIDE DEF g, e
<1>4. IsLoop(n, g)
  BY <1>1, <1>2, <1>3 DEF IsLoop
<1>5. IsChain(n, g, i + 1, at)
  BY <1>1, <1>4, StopsAreChains
<1> HIDE DEF at
<1>6. at \subseteq i + 1 .. n /\ P \in SUBSET (1 .. n)
  <2>1. at \subseteq i + 1 .. n
    BY <1>5 DEF IsChain
  <2>2. i + 1 .. n \subseteq 1 .. n
    BY <1>1
  <2> QED
    BY <2>1, <2>2
<1>7. IsFirst(n, i + 1, P, c)
  <2> HIDE DEF P
  <2> QED
    BY <1>1, <1>6, FirstIs
<1> HIDE DEF c
<1>8. c \in i + 1 .. n + 1 /\ (c <= n => c \in P) /\ \A j \in i + 1 .. c - 1 : j \notin P
  <2>1. \A p \in P : p \in i + 1 .. n
    BY <1>6
  <2> HIDE DEF P
  <2> QED
    BY <1>1, <1>7, <2>1 DEF IsFirst
<1> DEFINE S == {j \in i + 1 .. c : \/ j = n + 1
                                    \/ j \in at /\ Lexed(sql, s)[j] = Passing(span, 0, <<>>)
                                    \/ /\ j \notin at /\ Lexed(sql, s)[j] = Passing(span, 1, <<>>)
                                       /\ j + 1 \in at \cup {n + 1}}
<1>9. i + 1 \in S
  <2>1. i + 1 <= n => i + 1 \in at
    BY <1>5 DEF IsChain
  <2> QED
    BY <1>1, <1>8, <2>1
<1>10. ASSUME NEW j \in i + 1 .. c - 1, j \in S PROVE j + 1 \in S
  <2>1. j \in 1 .. n /\ j # n + 1 /\ j + 1 \in i + 1 .. c
    BY <1>1, <1>8
  <2>2. ASSUME j \in at, Lexed(sql, s)[j] = Passing(span, 0, <<>>) PROVE j + 1 \in S
    <3>1. Lexed(sql, s)[j + 1] = Inside(sql, s, Passing(span, 0, <<>>), j)
      BY <1>1, <2>1, <2>2, SpanStep
    <3>2. g[j] <= n => g[j] \in at
      BY <1>5, <2>2 DEF IsChain
    <3>3. CASE IsPair(j)
      <4>1. Lexed(sql, s)[j + 1] = Passing(span, 1, <<>>)
        BY <1>d, <3>1, <3>3, PassingIs DEF Inside, Passing, IsPair
      <4>2. g[j] = (IF j = n THEN n + 1 ELSE j + 2)
        BY <1>2, <2>1, <3>3
      <4>3. j + 1 \in at => g[j] <= j + 1
        BY <1>1, <1>5, <2>1, <2>2 DEF IsChain
      <4>4. CASE j = n
        BY <2>1, <4>4
      <4>5. CASE j # n
        <5>1. g[j] = j + 2 /\ j + 1 \notin at
          BY <2>1, <4>2, <4>3, <4>5
        <5>2. (j + 1) + 1 = j + 2 /\ (j + 2 <= n \/ j + 2 = n + 1)
          BY <1>1, <2>1, <4>5
        <5> QED
          BY <2>1, <3>2, <4>1, <5>1, <5>2
      <4> QED
        BY <4>4, <4>5
    <3>4. CASE ~IsPair(j)
      <4>1. sql[j] # d /\ sql[j] \notin esc
        <5>1. j \notin P
          BY <1>8
        <5> QED
          BY <2>2, <3>4, <5>1 DEF IsPair
      <4>2. Lexed(sql, s)[j + 1] = Passing(span, 0, <<>>)
        BY <1>d, <3>1, <4>1 DEF Inside, Passing
      <4>3. g[j] = j + 1
        BY <1>2, <2>1, <3>4
      <4>4. j + 1 <= n \/ j + 1 = n + 1
        BY <1>1, <2>1
      <4> QED
        BY <2>1, <3>2, <4>2, <4>3, <4>4
    <3> QED
      BY <3>3, <3>4
  <2>3. ASSUME Lexed(sql, s)[j] = Passing(span, 1, <<>>), j + 1 \in at \cup {n + 1} PROVE j + 1 \in S
    <3>1. Lexed(sql, s)[j + 1] = Passing(span, 0, <<>>)
      BY <2>1, <2>3, PassOne
    <3> QED
      BY <2>1, <2>3, <3>1
  <2> QED
    BY <1>10, <2>1, <2>2, <2>3
<1>11. i + 1 .. c \subseteq S
  <2> HIDE DEF S
  <2>1. i + 1 \in Int /\ c \in Int
    BY <1>1, <1>8
  <2> QED
    BY <1>9, <1>10, <2>1, Upward
<1>12. \A j \in i + 1 .. c : j # n + 1 => ~IsCode(sql, s, j)
  BY <1>11 DEF IsCode, Passing
<1>13. ASSUME c = n + 1 PROVE IsSpan(sql, s, i, e)
  <2>1. e = n + 1
    <3>1. c + 1 > n
      BY <1>1, <1>13
    <3> QED
      BY <3>1 DEF UpTo, e
  <2>2. e \in i + 1 .. n + 1 /\ ~(e <= n) /\ e - 1 = n
    BY <1>1, <2>1
  <2>3. \A j \in i + 1 .. e - 1 : j \in i + 1 .. c /\ j # n + 1
    BY <1>1, <1>13, <2>2
  <2> QED
    BY <1>12, <2>2, <2>3 DEF IsSpan
<1>14. ASSUME c <= n PROVE IsSpan(sql, s, i, e)
  <2>1. c \in 1 .. n /\ c \in i + 1 .. c /\ c \in P /\ c # n + 1
    BY <1>1, <1>8, <1>14
  <2>2. e = c + 1 /\ e \in i + 1 .. n + 1 /\ e - 1 = c
    <3>1. c + 1 = n + 1 \/ ~(c + 1 > n)
      BY <1>1, <2>1
    <3>2. e = c + 1
      BY <3>1 DEF UpTo, e
    <3> QED
      BY <1>1, <2>1, <3>2
  <2>3. Lexed(sql, s)[c] = Passing(span, 0, <<>>) /\ sql[c] = d /\ ~IsPair(c)
    BY <1>11, <2>1
  <2>4. Lexed(sql, s)[c + 1] = Inside(sql, s, Passing(span, 0, <<>>), c)
    BY <1>1, <2>1, <2>3, SpanStep
  <2>5. Lexed(sql, s)[c + 1] = Code
    BY <1>d, <2>3, <2>4 DEF Inside, Passing, IsPair
  <2>6. AtRest(sql, s, e)
    BY <2>2, <2>5 DEF AtRest
  <2>7. \A j \in i + 1 .. e - 1 : ~IsCode(sql, s, j)
    BY <1>1, <1>12, <2>1, <2>2
  <2> QED
    BY <2>2, <2>6, <2>7 DEF IsSpan
<1> QED
  BY <1>0, <1>1, <1>8, <1>13, <1>14

\* In the code the scanner stays where the server opens no span, and passes the one
\* it opens.
LEMMA SpanIsRead ==
    ASSUME NEW sql, IsText(sql), NEW s, Readable(sql, s), NEW i \in 1 .. Len(sql), Lexed(sql, s)[i] = Code
    PROVE  \/ ConsumeSpan(sql, i, s) = i /\ Lexed(sql, s)[i + 1] = Code
           \/ IsSpan(sql, s, i, ConsumeSpan(sql, i, s))
<1> DEFINE c == sql[i]
           pg == s.engine = "postgres"
           e == ConsumeSpan(sql, i, s)
           opens == Opens(sql, s, i)
           t == MatchDollarTag(sql, i)
<1>1. Len(sql) \in Nat
  BY TextIs
<1>2. Lexed(sql, s)[i + 1] = opens
  BY <1>1, CodeStep
<1> HIDE DEF e, opens, t
<1>3. CASE c = "-" /\ At(sql, i + 1) = "-" /\ (pg \/ At(sql, i + 2) \in Space \cup {"end"})
  <2>1. e = First(sql, i + 2, LineEnds(sql)) /\ opens = In("line", 1)
    BY <1>3 DEF ConsumeSpan, Opens, e, opens
  <2> QED
    BY <1>2, <1>3, <2>1, LineIsSpan DEF e
<1>4. CASE c = "/" /\ At(sql, i + 1) = "*"
  <2>1. e = UpTo(Len(sql), First(sql, i + 2, BlockEnds(sql)) + 2) /\ opens = In("block", 1)
    BY <1>4 DEF ConsumeSpan, Opens, e, opens
  <2> QED
    BY <1>2, <1>4, <2>1, BlockIsSpan DEF e
<1>5. CASE c = "$" /\ pg /\ t = 0
  <2>1. e = i /\ opens = Code
    BY <1>5 DEF ConsumeSpan, Opens, e, opens, t
  <2> QED
    BY <1>2, <2>1 DEF e
<1>6. CASE c = "$" /\ pg /\ t # 0
  <2>1. /\ t \in Nat /\ t >= 2 /\ t > 0
        /\ i + t - 1 \in 1 .. Len(sql) /\ At(sql, i + t - 1) = "$"
    BY <1>6, TagIs DEF t
  <2>2. e = UpTo(Len(sql), First(sql, i + t, Matches(sql, i, t)) + t)
    BY <1>6 DEF ConsumeSpan, e, t
  <2>3. opens = Passing("dollar", t - 1, Text(sql, i, t))
    BY <1>6, <2>1 DEF Opens, Passing, opens, t
  <2> QED
    BY <1>2, <1>6, <2>1, <2>2, <2>3, DollarIsSpan DEF e
<1>7. CASE c = "bq" /\ ~pg
  <2>1. e = ConsumeDelimited(sql, i, "bq", Escapes(FALSE)) /\ opens = In("bq", 0)
    BY <1>7 DEF ConsumeSpan, Opens, e, opens
  <2>2. Escapes(FALSE) = Escapes(Backslashed(s, "bq")) /\ Delim("bq") = "bq"
    BY DEF Escapes, Backslashed, Delim
  <2>3. sql[i] \notin Words \cup {"semi"}
    BY <1>7 DEF Words
  <2>4. Lexed(sql, s)[i + 1] = Passing("bq", 0, <<>>)
    BY <1>2, <2>1, PassingIs
  <2>5. IsSpan(sql, s, i, ConsumeDelimited(sql, i, Delim("bq"), Escapes(Backslashed(s, "bq"))))
    BY <2>2, <2>3, <2>4, QuotedIsSpan
  <2> QED
    BY <2>1, <2>2, <2>5 DEF e
<1>8. CASE c = "dq"
  <2>1. e = ConsumeDelimited(sql, i, "dq", Escapes(~pg /\ ~s.ansiQuotes /\ ~s.noBackslash)) /\ opens = In("dq", 0)
    BY <1>8 DEF ConsumeSpan, Opens, e, opens
  <2>2. Escapes(~pg /\ ~s.ansiQuotes /\ ~s.noBackslash) = Escapes(Backslashed(s, "dq")) /\ Delim("dq") = "dq"
    BY DEF Escapes, Backslashed, Delim
  <2>3. sql[i] \notin Words \cup {"semi"}
    BY <1>8 DEF Words
  <2>4. Lexed(sql, s)[i + 1] = Passing("dq", 0, <<>>)
    BY <1>2, <2>1, PassingIs
  <2>5. IsSpan(sql, s, i, ConsumeDelimited(sql, i, Delim("dq"), Escapes(Backslashed(s, "dq"))))
    BY <2>2, <2>3, <2>4, QuotedIsSpan
  <2> QED
    BY <2>1, <2>2, <2>5 DEF e
<1>9. CASE c = "'"
  <2> DEFINE estr == pg /\ At(sql, i - 1) = "e" /\ ~(IsWord(At(sql, i - 2)) \/ At(sql, i - 2) = "$")
             span == IF pg /\ At(sql, i - 1) = "e" /\ ~IsWord(At(sql, i - 2)) THEN "estring" ELSE "'"
             esc == Escapes(estr \/ (pg /\ ~s.standardStrings) \/ (~pg /\ ~s.noBackslash))
  <2>1. e = ConsumeDelimited(sql, i, "'", esc) /\ opens = In(span, 0)
    BY <1>9 DEF ConsumeSpan, Opens, e, opens
  <2>2. At(sql, i - 1) = "e" => At(sql, i - 2) # "$"
    <3>1. i \in ServerCode(sql, s)
      BY TextIs DEF ServerCode, Code, In
    <3> QED
      BY <1>9, <3>1 DEF Readable
  <2>3. /\ span \in {"'", "estring"} /\ (span = "estring" <=> estr)
        /\ span \notin {"code", "line", "block", "dollar"} /\ Delim(span) = "'" /\ Delim(span) # "\\"
    BY <2>2 DEF Delim
  <2> HIDE DEF span
  <2>4. Backslashed(s, span) <=> (estr \/ (pg /\ ~s.standardStrings) \/ (~pg /\ ~s.noBackslash))
    <3>1. CASE estr
      BY <2>3, <3>1 DEF Backslashed
    <3>2. CASE ~estr
      <4>1. span = "'"
        BY <2>3, <3>2
      <4> HIDE DEF estr
      <4> QED
        BY <3>2, <4>1 DEF Backslashed
    <3> QED
      BY <3>1, <3>2
  <2>5. esc = Escapes(Backslashed(s, span))
    BY <2>4 DEF Escapes
  <2>6. sql[i] \notin Words \cup {"semi"}
    BY <1>9 DEF Words
  <2>7. Lexed(sql, s)[i + 1] = Passing(span, 0, <<>>)
    BY <1>2, <2>1, PassingIs
  <2>8. IsSpan(sql, s, i, ConsumeDelimited(sql, i, Delim(span), Escapes(Backslashed(s, span))))
    BY <2>3, <2>6, <2>7, QuotedIsSpan
  <2> QED
    BY <2>1, <2>3, <2>5, <2>8 DEF e
<1>10. CASE /\ ~(c = "-" /\ At(sql, i + 1) = "-" /\ (pg \/ At(sql, i + 2) \in Space \cup {"end"}))
            /\ ~(c = "/" /\ At(sql, i + 1) = "*") /\ ~(c = "$" /\ pg) /\ ~(c = "bq" /\ ~pg) /\ c # "dq" /\ c # "'"
  <2>1. e = i /\ opens = Code
    BY <1>10 DEF ConsumeSpan, Opens, e, opens
  <2> QED
    BY <1>2, <2>1 DEF e
<1> QED
  BY <1>3, <1>4, <1>5, <1>6, <1>7, <1>8, <1>9, <1>10

-----------------------------------------------------------------------------
(* The scan of a text is the server's reading of it.                        *)

\* A position is cut off just past the end.
LEMMA UpToIs == ASSUME NEW n \in Nat, NEW i \in Int PROVE UpTo(n, i) \in Int /\ UpTo(n, i) <= n + 1
  BY DEF UpTo

\* The first of a set of positions is a position, or just past the end.
LEMMA FirstEnds ==
    ASSUME NEW sql, IsText(sql), NEW i \in Int, NEW P \in SUBSET (1 .. Len(sql))
    PROVE  First(sql, i, P) \in 1 .. Len(sql) + 1
<1>1. Len(sql) \in Nat
  BY TextIs
<1>2. IsFirst(Len(sql), i, P, First(sql, i, P))
  BY <1>1, FirstIs
<1>3. \A p \in P : p \in 1 .. Len(sql) + 1
  BY <1>1
<1>4. Len(sql) + 1 \in 1 .. Len(sql) + 1
  BY <1>1
<1> QED
  BY <1>2, <1>3, <1>4 DEF IsFirst

\* A string or a quoted identifier ends in the text, or with it.
LEMMA DelimitedEnds ==
    ASSUME NEW sql, IsText(sql), NEW i \in 1 .. Len(sql), NEW d, NEW esc
    PROVE  ConsumeDelimited(sql, i, d, esc) \in Int /\ ConsumeDelimited(sql, i, d, esc) <= Len(sql) + 1
<1> DEFINE n == Len(sql)
           IsPair(j) == sql[j] \in esc \/ (sql[j] = d /\ At(sql, j + 1) = d)
           g == [j \in 1 .. n |-> UpTo(n, IF IsPair(j) THEN j + 2 ELSE j + 1)]
           at == Stops(n, g)[i + 1]
           P == {j \in at : sql[j] = d /\ ~IsPair(j)}
<1>1. n \in Nat /\ i \in 1 .. n /\ i + 1 \in 1 .. n + 1 /\ i + 1 \in Int
  BY TextIs
<1>2. \A j \in 1 .. n : g[j] \in j + 1 .. n + 1
  BY <1>1 DEF UpTo
<1> HIDE DEF IsPair
<1>3. IsLoop(n, g)
  BY <1>1, <1>2 DEF IsLoop
<1>4. IsChain(n, g, i + 1, at)
  BY <1>1, <1>3, StopsAreChains
<1>5. P \in SUBSET (1 .. n)
  <2>1. at \subseteq i + 1 .. n
    BY <1>4 DEF IsChain
  <2>2. i + 1 .. n \subseteq 1 .. n
    BY <1>1
  <2> QED
    BY <2>1, <2>2
<1>6. ConsumeDelimited(sql, i, d, esc) = UpTo(n, First(sql, i + 1, P) + 1)
  BY DEF ConsumeDelimited, IsPair
<1> HIDE DEF P
<1>7. First(sql, i + 1, P) + 1 \in Int
  <2>1. First(sql, i + 1, P) \in 1 .. Len(sql) + 1
    BY <1>1, <1>5, FirstEnds
  <2> QED
    BY <2>1
<1> QED
  BY <1>1, <1>6, <1>7, UpToIs

\* The scan goes on from every position.
LEMMA ScanGoesOn ==
    ASSUME NEW sql, IsText(sql), NEW s, NEW i \in 1 .. Len(sql)
    PROVE  ScanOn(sql, i, s) \in i + 1 .. Len(sql) + 1
<1> DEFINE n == Len(sql)
           e == ConsumeSpan(sql, i, s)
           t == MatchDollarTag(sql, i)
<1>1. n \in Nat /\ i \in 1 .. n
  BY TextIs
<1>2. LineEnds(sql) \in SUBSET (1 .. n) /\ BlockEnds(sql) \in SUBSET (1 .. n) /\ Matches(sql, i, t) \in SUBSET (1 .. n)
  BY TextIs DEF LineEnds, BlockEnds, Matches
<1>3. First(sql, i + 2, LineEnds(sql)) \in 1 .. n + 1
  BY <1>1, <1>2, FirstEnds
<1>4. UpTo(n, First(sql, i + 2, BlockEnds(sql)) + 2) \in Int /\ UpTo(n, First(sql, i + 2, BlockEnds(sql)) + 2) <= n + 1
  <2>1. First(sql, i + 2, BlockEnds(sql)) \in 1 .. n + 1
    BY <1>1, <1>2, FirstEnds
  <2>2. First(sql, i + 2, BlockEnds(sql)) + 2 \in Int
    BY <2>1
  <2> QED
    BY <1>1, <2>2, UpToIs
<1>5. t # 0 => /\ UpTo(n, First(sql, i + t, Matches(sql, i, t)) + t) \in Int
               /\ UpTo(n, First(sql, i + t, Matches(sql, i, t)) + t) <= n + 1
  <2> SUFFICES ASSUME t # 0
               PROVE  /\ UpTo(n, First(sql, i + t, Matches(sql, i, t)) + t) \in Int
                      /\ UpTo(n, First(sql, i + t, Matches(sql, i, t)) + t) <= n + 1
    OBVIOUS
  <2>1. t \in Nat
    BY TagIs
  <2> HIDE DEF t
  <2>2. i + t \in Int
    BY <2>1
  <2>3. First(sql, i + t, Matches(sql, i, t)) \in 1 .. n + 1
    BY <1>1, <1>2, <2>2, FirstEnds
  <2>4. First(sql, i + t, Matches(sql, i, t)) + t \in Int
    BY <2>1, <2>3
  <2> QED
    BY <1>1, <2>4, UpToIs
<1>6. \A d, esc : ConsumeDelimited(sql, i, d, esc) \in Int /\ ConsumeDelimited(sql, i, d, esc) <= n + 1
  BY <1>1, DelimitedEnds
<1>7. e \in Int /\ e <= n + 1
  <2>1. \/ e = i
        \/ e = First(sql, i + 2, LineEnds(sql))
        \/ e = UpTo(n, First(sql, i + 2, BlockEnds(sql)) + 2)
        \/ t # 0 /\ e = UpTo(n, First(sql, i + t, Matches(sql, i, t)) + t)
        \/ \E d, esc : e = ConsumeDelimited(sql, i, d, esc)
    BY DEF ConsumeSpan
  <2> HIDE DEF e, t
  <2> QED
    BY <1>1, <1>3, <1>4, <1>5, <1>6, <2>1
<1> HIDE DEF e
<1> QED
  BY <1>1, <1>7 DEF ScanOn, e

\* Where the server is at rest: the scan goes on to where it is at rest again, and stays
\* at a word or a semicolon, in the code.
LEMMA ScanStep ==
    ASSUME NEW sql, IsText(sql), NEW s, Readable(sql, s), NEW i \in 1 .. Len(sql), AtRest(sql, s, i)
    PROVE  /\ ScanOn(sql, i, s) <= Len(sql) => AtRest(sql, s, ScanOn(sql, i, s))
           /\ \A j \in i + 1 .. ScanOn(sql, i, s) - 1 : ~IsCode(sql, s, j)
           /\ sql[i] \in Words \cup {"semi"} => ConsumeSpan(sql, i, s) = i /\ IsCode(sql, s, i)
<1> DEFINE e == ConsumeSpan(sql, i, s)
           m == ScanOn(sql, i, s)
<1>1. Len(sql) \in Nat /\ ~(i > i) /\ (i + 1) - 1 = i
  BY TextIs
<1>2. m = IF e > i THEN e ELSE i + 1
  BY DEF ScanOn
<1> HIDE DEF e, m
<1>3. ASSUME e = i, Lexed(sql, s)[i + 1] = Code
      PROVE  (m <= Len(sql) => AtRest(sql, s, m)) /\ \A j \in i + 1 .. m - 1 : ~IsCode(sql, s, j)
  <2>1. m = i + 1
    BY <1>1, <1>2, <1>3
  <2>2. AtRest(sql, s, m)
    BY <1>3, <2>1 DEF AtRest
  <2>3. \A j : j \notin i + 1 .. (i + 1) - 1
    BY <1>1
  <2> QED
    BY <2>1, <2>2, <2>3
<1>4. CASE Lexed(sql, s)[i] = Code
  <2>1. (e = i /\ Lexed(sql, s)[i + 1] = Code) \/ IsSpan(sql, s, i, e)
    BY <1>4, SpanIsRead DEF e
  <2>2. IsCode(sql, s, i)
    BY <1>4 DEF IsCode, Code, In
  <2>3. CASE IsSpan(sql, s, i, e)
    <3>1. e > i
      BY <1>1, <2>3 DEF IsSpan
    <3>2. m = e
      BY <1>2, <3>1
    <3> QED
      BY <2>3, <3>2 DEF IsSpan, m
  <2>4. CASE e = i /\ Lexed(sql, s)[i + 1] = Code
    BY <1>3, <2>2, <2>4 DEF e, m
  <2> QED
    BY <2>1, <2>3, <2>4
<1>5. CASE Lexed(sql, s)[i] = In("line", 0) /\ sql[i] = "nl"
  <2>1. e = i
    BY <1>5 DEF ConsumeSpan, e
  <2>2. Lexed(sql, s)[i + 1] = Code
    <3>1. Lexed(sql, s)[i] = Passing("line", 0, <<>>)
      BY <1>5, PassingIs
    <3>2. Lexed(sql, s)[i + 1] = Inside(sql, s, Passing("line", 0, <<>>), i)
      BY <1>1, <3>1, SpanStep
    <3> QED
      BY <1>5, <3>2 DEF Inside, Passing
  <2>3. sql[i] \notin Words \cup {"semi"}
    BY <1>5 DEF Words
  <2> QED
    BY <1>3, <2>1, <2>2, <2>3 DEF e, m
<1> QED
  BY <1>4, <1>5 DEF AtRest

\* A word or a semicolon is outside every span to the scanner when it is in the code to
\* the server.
LEMMA ScanIsRead ==
    ASSUME NEW sql, IsText(sql), NEW s, Readable(sql, s)
    PROVE  /\ TopLevel(sql, s) \subseteq 1 .. Len(sql) /\ ServerCode(sql, s) \subseteq 1 .. Len(sql)
           /\ \A j \in 1 .. Len(sql) : sql[j] \in Words \cup {"semi"} =>
                                          (j \in TopLevel(sql, s) <=> j \in ServerCode(sql, s))
<1> DEFINE n == Len(sql)
           g == [i \in DOMAIN sql |-> ScanOn(sql, i, s)]
           at == Stops(n, g)[1]
<1>1. n \in Nat /\ DOMAIN sql = 1 .. n
  BY TextIs
<1>2. \A i \in 1 .. n : g[i] = ScanOn(sql, i, s) /\ g[i] \in i + 1 .. n + 1
  BY <1>1, ScanGoesOn
<1>3. g \in [1 .. n -> 1 .. n + 1]
  <2>1. \A i \in 1 .. n : ScanOn(sql, i, s) \in 1 .. n + 1
    <3>1. \A i \in 1 .. n : i + 1 .. n + 1 \subseteq 1 .. n + 1
      BY <1>1
    <3> QED
      BY <1>2, <3>1
  <2> QED
    BY <1>1, <2>1
<1>4. TopLevel(sql, s) = {i \in at : ConsumeSpan(sql, i, s) = i}
  BY DEF TopLevel
<1> HIDE DEF g
<1>5. IsLoop(n, g)
  BY <1>1, <1>2, <1>3 DEF IsLoop
<1>6. IsChain(n, g, 1, at)
  <2>1. 1 \in 1 .. n + 1
    BY <1>1
  <2> QED
    BY <1>5, <2>1, StopsAreChains
<1> HIDE DEF at
<1>7. at \subseteq 1 .. n
  BY <1>6 DEF IsChain
<1> DEFINE S == {j \in 0 .. n : \A m \in at : m <= j => AtRest(sql, s, m)}
<1>8. 0 \in S
  BY <1>1, <1>7
<1>9. ASSUME NEW j \in 0 .. n - 1, j \in S PROVE j + 1 \in S
  <2>1. SUFFICES ASSUME j + 1 \in at PROVE AtRest(sql, s, j + 1)
    BY <1>1, <1>7, <1>9
  <2>2. CASE j = 0
    <3>1. Lexed(sql, s)[1] = Code
      BY <1>1, LexedIs
    <3> QED
      BY <2>2, <3>1 DEF AtRest
  <2>3. CASE j # 0
    <3>1. j \in 1 .. n
      BY <1>1, <2>3
    <3>2. PICK p \in at : p <= j /\ g[p] = j + 1
      <4>1. CASE j \in at
        <5>1. g[j] <= j + 1
          BY <1>6, <2>1, <3>1, <4>1 DEF IsChain
        <5> QED
          BY <1>2, <3>1, <4>1, <5>1
      <4>2. CASE j \notin at
        <5>1. PICK i \in at : i < j /\ j < g[i]
          BY <1>6, <3>1, <4>2 DEF IsChain
        <5>2. i < j + 1
          BY <1>7, <3>1, <5>1
        <5>3. g[i] <= j + 1
          BY <1>6, <2>1, <5>2 DEF IsChain
        <5>4. g[i] = j + 1
          <6>1. g[i] \in Int
            BY <1>2, <1>7
          <6> QED
            BY <3>1, <5>1, <5>3, <6>1
        <5> QED
          BY <1>7, <3>1, <5>1, <5>4
      <4> QED
        BY <4>1, <4>2
    <3>3. AtRest(sql, s, p)
      BY <1>9, <3>2
    <3>4. j + 1 <= n
      BY <1>1
    <3> QED
      BY <1>2, <1>7, <3>2, <3>3, <3>4, ScanStep
  <2> QED
    BY <2>2, <2>3
<1>10. \A m \in at : AtRest(sql, s, m)
  <2>1. 0 .. n \subseteq S
    <3> HIDE DEF S
    <3>1. 0 \in Int /\ n \in Int
      BY <1>1
    <3> QED
      BY <1>8, <1>9, <3>1, Upward
  <2>2. n \in 0 .. n /\ \A m \in at : m <= n
    BY <1>1, <1>7
  <2> QED
    BY <2>1, <2>2
<1>11. \A j : j \in ServerCode(sql, s) <=> j \in 1 .. n /\ IsCode(sql, s, j)
  BY <1>1 DEF ServerCode, IsCode
<1>12. ASSUME NEW j \in 1 .. n, sql[j] \in Words \cup {"semi"}
       PROVE  j \in TopLevel(sql, s) <=> j \in ServerCode(sql, s)
  <2>1. CASE j \in at
    BY <1>4, <1>10, <1>11, <1>12, <2>1, ScanStep
  <2>2. CASE j \notin at
    <3>1. PICK i \in at : i < j /\ j < g[i]
      BY <1>6, <2>2 DEF IsChain
    <3>2. j \in i + 1 .. ScanOn(sql, i, s) - 1
      BY <1>2, <1>7, <3>1
    <3>3. ~IsCode(sql, s, j)
      BY <1>7, <1>10, <3>2, ScanStep
    <3> QED
      BY <1>4, <1>11, <2>2, <3>3
  <2> QED
    BY <2>1, <2>2
<1>13. TopLevel(sql, s) \subseteq 1 .. n /\ ServerCode(sql, s) \subseteq 1 .. n
  BY <1>4, <1>7, <1>11
<1> QED
  BY <1>12, <1>13

-----------------------------------------------------------------------------
(* A piece of a text is read as the text is.                                *)

\* The spans, the symbols of a dollar tag, and what may follow a statement.
Spans    == {"code", "line", "block", "dollar", "'", "estring", "dq", "bq"}
TagMarks == Words \cup {"$"}
Gap      == Space \cup {"semi", "end"}

\* A state of the lexer before a position: a mark it has yet to pass is not a gap.
Sound(sql, i, st) ==
    /\ st = Passing(st.in, st.skip, st.tag) /\ st.in \in Spans /\ st.skip \in Nat
    /\ st.tag \in Seq(TagMarks)
    /\ st.in = "code" => st.tag = <<>>
    /\ st.in = "dollar" => st.tag # <<>>
    /\ st.in \in {"code", "line"} => \A t \in 0 .. st.skip - 1 : At(sql, i + t) \notin Gap

\* A record whose fields fit together is a sound state.
LEMMA PassingIsSound ==
    ASSUME NEW sql, NEW i, NEW span \in Spans, NEW k \in Nat, NEW tag \in Seq(TagMarks),
           span = "code" => tag = <<>>, span = "dollar" => tag # <<>>,
           span \in {"code", "line"} => \A t \in 0 .. k - 1 : At(sql, i + t) \notin Gap
    PROVE  Sound(sql, i, Passing(span, k, tag))
  BY DEF Sound, Passing

\* So is the start of a span, and of one whose mark has a symbol to go.
LEMMA InIsSound ==
    ASSUME NEW sql, NEW i, NEW span \in Spans, span # "dollar"
    PROVE  /\ Sound(sql, i, In(span, 0))
           /\ span \notin {"code", "line"} \/ At(sql, i + 0) \notin Gap => Sound(sql, i, In(span, 1))
<1>1. In(span, 0) = Passing(span, 0, <<>>) /\ In(span, 1) = Passing(span, 1, <<>>) /\ <<>> \in Seq(TagMarks)
  BY PassingIs
<1>2. Sound(sql, i, Passing(span, 0, <<>>))
  <2>1. 0 \in Nat /\ \A t : t \notin 0 .. 0 - 1
    OBVIOUS
  <2> QED
    BY <1>1, <2>1, PassingIsSound
<1>3. ASSUME span \notin {"code", "line"} \/ At(sql, i + 0) \notin Gap PROVE Sound(sql, i, Passing(span, 1, <<>>))
  <2>1. 1 \in Nat /\ \A t \in 0 .. 1 - 1 : t = 0
    OBVIOUS
  <2> QED
    BY <1>1, <1>3, <2>1, PassingIsSound
<1> QED
  BY <1>1, <1>2, <1>3

\* The tag at a dollar holds no gap.
LEMMA TagHas ==
    ASSUME NEW sql, IsText(sql), NEW i \in 1 .. Len(sql), sql[i] = "$", MatchDollarTag(sql, i) # 0
    PROVE  Text(sql, i, MatchDollarTag(sql, i)) \in Seq(TagMarks)
<1> DEFINE t == MatchDollarTag(sql, i)
<1>1. /\ t \in Nat /\ t >= 2 /\ i + t - 1 \in 1 .. Len(sql) /\ At(sql, i + t - 1) = "$"
      /\ \A k \in i + 1 .. i + t - 2 : IsWord(sql[k])
  BY TagIs
<1>2. Len(sql) \in Nat
  BY TextIs
<1> HIDE DEF t
<1>3. ASSUME NEW k \in 1 .. t PROVE At(sql, i + k - 1) \in TagMarks
  <2>1. i + k - 1 \in 1 .. Len(sql)
    BY <1>1, <1>2
  <2>2. At(sql, i + k - 1) = sql[i + k - 1]
    BY <2>1, TextIs
  <2>3. CASE k = 1
    <3>1. i + k - 1 = i
      BY <2>3
    <3> QED
      BY <2>2, <3>1 DEF TagMarks
  <2>4. CASE k = t
    BY <1>1, <2>4 DEF TagMarks
  <2>5. CASE k # 1 /\ k # t
    <3>1. i + k - 1 \in i + 1 .. i + t - 2
      BY <1>1, <1>2, <2>5
    <3> QED
      BY <1>1, <2>2, <3>1 DEF TagMarks, IsWord
  <2> QED
    BY <2>3, <2>4, <2>5
<1>4. Text(sql, i, t) = [k \in 1 .. t |-> At(sql, i + k - 1)]
  BY DEF Text
<1>5. Text(sql, i, t) \in Seq(TagMarks)
  BY <1>1, <1>3, <1>4
<1> QED
  BY <1>5 DEF t

\* One symbol takes a sound state to a sound one.
LEMMA StepIsSound ==
    ASSUME NEW sql, IsText(sql), NEW s, NEW i \in 1 .. Len(sql), NEW st, Sound(sql, i, st)
    PROVE  Sound(sql, i + 1, LexStep(sql, s, st, i))
<1> DEFINE next == LexStep(sql, s, st, i)
           c == sql[i]
           d == At(sql, i + 1)
<1>1. Len(sql) \in Nat /\ (i + 1) + 0 = i + 1
  BY TextIs
<1>2. d = "-" \/ d = "/" => At(sql, (i + 1) + 0) \notin Gap
  BY <1>1 DEF Gap, Space
<1>3. CASE st.skip > 0
  <2> DEFINE k == st.skip
  <2>1. k \in Nat /\ k > 0 /\ k - 1 \in Nat
    BY <1>3 DEF Sound
  <2>2. next = Passing(st.in, k - 1, st.tag)
    <3>1. st = Passing(st.in, k, st.tag)
      BY DEF Sound
    <3>2. LexStep(sql, s, Passing(st.in, k, st.tag), i) = Passing(st.in, k - 1, st.tag)
      <4> HIDE DEF k
      <4> QED
        BY <2>1 DEF LexStep, Passing
    <3> QED
      BY <3>1, <3>2
  <2>3. st.in \in {"code", "line"} => \A t \in 0 .. (k - 1) - 1 : At(sql, (i + 1) + t) \notin Gap
    <3> SUFFICES ASSUME st.in \in {"code", "line"}, NEW t \in 0 .. (k - 1) - 1
                 PROVE  At(sql, (i + 1) + t) \notin Gap
      OBVIOUS
    <3>1. t + 1 \in 0 .. k - 1 /\ (i + 1) + t = i + (t + 1)
      BY <2>1
    <3> QED
      BY <3>1 DEF Sound
  <2>4. /\ st.in \in Spans /\ st.tag \in Seq(TagMarks) /\ (st.in = "code" => st.tag = <<>>) /\ (st.in = "dollar" => st.tag # <<>>)
    BY DEF Sound
  <2> HIDE DEF k, next
  <2>5. Sound(sql, i + 1, next)
    BY <2>1, <2>2, <2>3, <2>4, PassingIsSound
  <2> QED
    BY <2>5 DEF next
<1>4. CASE st.skip = 0 /\ st.in = "code"
  <2>1. next = Opens(sql, s, i)
    BY <1>4 DEF LexStep
  <2> DEFINE t == MatchDollarTag(sql, i)
  <2>2. CASE c = "$" /\ s.engine = "postgres" /\ t > 0
    <3>1. t # 0
      BY <2>2
    <3>2. /\ t \in Nat /\ t >= 2 /\ t - 1 \in Nat /\ Text(sql, i, t) \in Seq(TagMarks) /\ Len(Text(sql, i, t)) = t
      BY <2>2, <3>1, TagIs, TagHas, TextHas
    <3> HIDE DEF t
    <3>3. Text(sql, i, t) # <<>>
      BY <3>2
    <3>4. Opens(sql, s, i) = Passing("dollar", t - 1, Text(sql, i, t))
      BY <2>2 DEF Opens, Passing, t
    <3>5. Sound(sql, i + 1, Passing("dollar", t - 1, Text(sql, i, t)))
      BY <3>2, <3>3, PassingIsSound DEF Spans
    <3> QED
      BY <2>1, <3>4, <3>5
  <2>3. CASE ~(c = "$" /\ s.engine = "postgres" /\ t > 0)
    <3>1. \/ d = "-" /\ Opens(sql, s, i) = In("line", 1)
          \/ Opens(sql, s, i) = In("block", 1)
          \/ \E span \in {"estring", "'", "dq", "bq"} : Opens(sql, s, i) = In(span, 0)
          \/ Opens(sql, s, i) = In("code", 0)
      BY <2>3 DEF Opens, Code
    <3>2. /\ d = "-" => Sound(sql, i + 1, In("line", 1))
          /\ Sound(sql, i + 1, In("block", 1)) /\ Sound(sql, i + 1, In("code", 0))
          /\ \A span \in {"estring", "'", "dq", "bq"} : Sound(sql, i + 1, In(span, 0))
      BY <1>2, InIsSound DEF Spans
    <3> HIDE DEF next, d
    <3> QED
      BY <2>1, <3>1, <3>2 DEF next
  <2> QED
    BY <2>2, <2>3
<1>5. CASE st.skip = 0 /\ st.in # "code"
  <2>1. next = Inside(sql, s, st, i)
    BY <1>5 DEF LexStep
  <2>2. Sound(sql, i + 1, st)
    <3>1. \A t : t \notin 0 .. 0 - 1
      OBVIOUS
    <3> QED
      BY <1>5, <3>1 DEF Sound
  <2>3. CASE st.in = "line"
    BY <2>1, <2>2, <2>3, InIsSound DEF Inside, Code, Spans
  <2>4. CASE st.in = "block"
    <3>1. Inside(sql, s, st, i) = st \/ (d = "/" /\ Inside(sql, s, st, i) = In("code", 1))
      BY <2>4 DEF Inside
    <3> QED
      BY <1>2, <2>1, <2>2, <3>1, InIsSound DEF Spans
  <2>5. CASE st.in = "dollar"
    <3> DEFINE tag == st.tag
               m == Len(tag)
    <3>1. tag \in Seq(TagMarks) /\ tag # <<>>
      BY <2>5 DEF Sound
    <3>2. m \in Nat /\ m >= 1 /\ \A k \in 1 .. m : tag[k] \in TagMarks
      BY <3>1
    <3> HIDE DEF tag, m
    <3>3. ASSUME Text(sql, i, m) = tag PROVE Sound(sql, i + 1, In("code", m - 1))
      <4>1. ASSUME NEW t \in 0 .. (m - 1) - 1 PROVE At(sql, (i + 1) + t) \notin Gap
        <5>1. t + 2 \in 1 .. m /\ i + (t + 2) - 1 = (i + 1) + t
          BY <1>1, <3>2
        <5>2. At(sql, i + (t + 2) - 1) = tag[t + 2]
          BY <1>1, <3>2, <3>3, <5>1, TextHas
        <5>3. tag[t + 2] \in TagMarks
          BY <3>2, <5>1
        <5>4. \A x \in TagMarks : x \notin Gap
          BY DEF TagMarks, Words, Gap, Space
        <5> QED
          BY <5>1, <5>2, <5>3, <5>4
      <4>2. m - 1 \in Nat /\ <<>> \in Seq(TagMarks)
        BY <3>2
      <4>3. Sound(sql, i + 1, Passing("code", m - 1, <<>>))
        BY <4>1, <4>2, PassingIsSound DEF Spans
      <4> QED
        BY <4>3, PassingIs
    <3>4. Inside(sql, s, st, i) = IF Text(sql, i, m) = tag THEN In("code", m - 1) ELSE st
      BY <2>5 DEF Inside, tag, m
    <3> QED
      BY <2>1, <2>2, <3>3, <3>4
  <2>6. CASE st.in \notin {"line", "block", "dollar"}
    <3>1. Inside(sql, s, st, i) \in {st, Code, In(st.in, 1)}
      BY <2>6 DEF Inside
    <3>2. st.in \in Spans /\ "code" \in Spans
      BY DEF Sound, Spans
    <3>3. Sound(sql, i + 1, In(st.in, 1)) /\ Sound(sql, i + 1, Code)
      BY <1>5, <2>6, <3>2, InIsSound DEF Code
    <3> QED
      BY <2>1, <2>2, <3>1, <3>3
  <2> QED
    BY <2>3, <2>4, <2>5, <2>6
<1> QED
  BY <1>3, <1>4, <1>5 DEF Sound

\* The states of a reading are sound.
LEMMA LexedIsSound ==
    ASSUME NEW sql, IsText(sql), NEW s
    PROVE  \A i \in 1 .. Len(sql) + 1 : Sound(sql, i, Lexed(sql, s)[i])
<1> DEFINE S == {i \in 1 .. Len(sql) + 1 : Sound(sql, i, Lexed(sql, s)[i])}
<1>1. Len(sql) \in Nat
  BY TextIs
<1>2. 1 \in S
  BY <1>1, LexedIs, InIsSound DEF Code, Spans
<1>3. ASSUME NEW i \in 1 .. (Len(sql) + 1) - 1, i \in S PROVE i + 1 \in S
  <2>1. i \in 1 .. Len(sql) /\ i + 1 \in 1 .. Len(sql) + 1
    BY <1>1
  <2>2. Lexed(sql, s)[i + 1] = LexStep(sql, s, Lexed(sql, s)[i], i)
    BY <1>1, <2>1, LexedIs
  <2> QED
    BY <1>3, <2>1, <2>2, StepIsSound
<1>4. 1 .. Len(sql) + 1 \subseteq S
  <2> HIDE DEF S
  <2>1. 1 \in Int /\ Len(sql) + 1 \in Int
    BY <1>1
  <2> QED
    BY <1>2, <1>3, <2>1, Upward
<1> QED
  BY <1>4

\* A piece of a text after its first o symbols, that starts after no word and ends at a gap.
IsPiece(w, sql, o) ==
    /\ o \in Nat /\ o + Len(w) <= Len(sql) /\ \A p \in 1 .. Len(w) : w[p] = sql[o + p]
    /\ At(sql, o) \notin Words /\ At(sql, o + Len(w) + 1) \in Gap

\* The symbols of a piece are those of the text, and there are none outside of it.
LEMMA PieceAt ==
    ASSUME NEW w, IsText(w), NEW sql, IsText(sql), NEW o, IsPiece(w, sql, o)
    PROVE  /\ Len(w) \in Nat /\ Len(sql) \in Nat /\ o \in Nat
           /\ \A p \in 1 .. Len(w) : /\ o + p \in 1 .. Len(sql) /\ w[p] = sql[o + p]
                                     /\ At(w, p) = w[p] /\ At(sql, o + p) = sql[o + p]
           /\ At(w, 0) = "end" /\ At(w, -1) = "end" /\ At(w, Len(w) + 1) = "end"
<1>1. Len(w) \in Nat /\ Len(sql) \in Nat /\ o \in Nat
  BY TextIs DEF IsPiece
<1>2. ASSUME NEW p \in 1 .. Len(w)
      PROVE  /\ o + p \in 1 .. Len(sql) /\ w[p] = sql[o + p] /\ At(w, p) = w[p] /\ At(sql, o + p) = sql[o + p]
  <2>1. o + p \in 1 .. Len(sql) /\ w[p] = sql[o + p]
    BY <1>1 DEF IsPiece
  <2> QED
    BY <2>1, TextIs
<1>3. 0 \in Int /\ -1 \in Int /\ Len(w) + 1 \in Int /\ \A x \in {0, -1, Len(w) + 1} : x \notin 1 .. Len(w)
  BY <1>1
<1>4. At(w, 0) = "end" /\ At(w, -1) = "end" /\ At(w, Len(w) + 1) = "end"
  BY <1>3, TextIs
<1> QED
  BY <1>1, <1>2, <1>4

\* A position of a piece holds what it holds in the text.
LEMMA PieceSame ==
    ASSUME NEW w, IsText(w), NEW sql, IsText(sql), NEW o, IsPiece(w, sql, o), NEW p \in 1 .. Len(w)
    PROVE  At(w, p) = At(sql, o + p)
<1>1. w[p] = sql[o + p] /\ At(w, p) = w[p] /\ At(sql, o + p) = sql[o + p]
  BY PieceAt
<1> QED
  BY <1>1

\* A dollar has the same tag in a piece as in the text.
LEMMA TagInPiece ==
    ASSUME NEW w, IsText(w), NEW sql, IsText(sql), NEW o, IsPiece(w, sql, o), NEW p \in 1 .. Len(w)
    PROVE  MatchDollarTag(w, p) = MatchDollarTag(sql, o + p)
<1> DEFINE m == Len(w)
           n == Len(sql)
           P == {k \in DOMAIN w : ~IsWord(w[k])}
           Q == {k \in DOMAIN sql : ~IsWord(sql[k])}
           j == First(w, p + 1, P)
           h == First(sql, o + p + 1, Q)
<1>1. m \in Nat /\ n \in Nat /\ o \in Nat /\ p \in 1 .. m /\ p + 1 \in Int /\ o + p + 1 \in Int /\ o + m <= n
  BY PieceAt DEF IsPiece
<1>2. P \in SUBSET (1 .. m) /\ Q \in SUBSET (1 .. n) /\ DOMAIN w = 1 .. m /\ DOMAIN sql = 1 .. n
  BY TextIs
<1>3. ASSUME NEW k \in 1 .. m PROVE k \in P <=> o + k \in Q
  <2>1. o + k \in 1 .. n /\ w[k] = sql[o + k]
    BY PieceAt
  <2> QED
    BY <1>2, <2>1
<1>4. MatchDollarTag(w, p) = (IF At(w, j) = "$" THEN j - p + 1 ELSE 0)
  BY DEF MatchDollarTag
<1>5. MatchDollarTag(sql, o + p) = (IF At(sql, h) = "$" THEN h - (o + p) + 1 ELSE 0)
  BY DEF MatchDollarTag
<1> HIDE DEF P, Q
<1>6. IsFirst(m, p + 1, P, j) /\ IsFirst(n, o + p + 1, Q, h)
  BY <1>1, <1>2, FirstIs
<1>7. j \in 1 .. m + 1 /\ h \in 1 .. n + 1
  BY <1>1, <1>2, FirstEnds
<1> HIDE DEF j, h
<1>8. CASE j \in P /\ j >= p + 1
  <2>1. j \in 1 .. m /\ o + j \in Q /\ o + j >= o + p + 1
    BY <1>1, <1>2, <1>3, <1>8
  <2>2. h \in Q /\ h >= o + p + 1 /\ h <= o + j
    BY <1>1, <1>6, <2>1 DEF IsFirst
  <2>3. h - o \in 1 .. m /\ o + (h - o) = h
    BY <1>1, <1>7, <2>1, <2>2
  <2>4. h - o \in P /\ h - o >= p + 1
    BY <1>1, <1>3, <1>7, <2>2, <2>3
  <2>5. j <= h - o
    <3>1. \A k \in P : k >= p + 1 => k >= j
      BY <1>1, <1>2, <1>6, <1>8 DEF IsFirst
    <3> QED
      BY <1>1, <1>7, <2>4, <3>1
  <2>6. h = o + j
    BY <1>1, <1>7, <2>1, <2>2, <2>5
  <2>7. At(w, j) = At(sql, h)
    <3>1. At(w, j) = At(sql, o + j)
      BY <2>1, PieceSame
    <3> QED
      BY <2>6, <3>1
  <2>8. j - p + 1 = h - (o + p) + 1
    BY <1>1, <1>7, <2>6
  <2> QED
    BY <1>4, <1>5, <2>7, <2>8
<1>9. CASE j = m + 1 /\ \A k \in P : k < p + 1
  <2>1. At(w, j) # "$"
    BY <1>9, PieceAt
  <2>2. h > o + m
    <3> SUFFICES ASSUME h <= o + m PROVE FALSE
      BY <1>1, <1>7
    <3>1. h \in Q /\ h >= o + p + 1
      BY <1>1, <1>6, <1>7 DEF IsFirst
    <3>2. h - o \in 1 .. m /\ o + (h - o) = h /\ ~(h - o < p + 1)
      BY <1>1, <1>7, <3>1
    <3>3. h - o \in P
      BY <1>3, <3>1, <3>2
    <3> QED
      BY <1>9, <3>2, <3>3
  <2>3. h = o + m + 1
    <3>1. CASE o + m = n
      BY <1>1, <1>7, <2>2, <3>1
    <3>2. CASE o + m < n
      <4>1. o + m + 1 \in 1 .. n
        BY <1>1, <3>2
      <4>2. At(sql, o + m + 1) = sql[o + m + 1]
        BY <4>1, TextIs
      <4>3. ~IsWord(sql[o + m + 1])
        BY <4>2 DEF IsPiece, Gap, Space, Words, IsWord
      <4>4. o + m + 1 \in Q /\ o + m + 1 >= o + p + 1
        BY <1>1, <1>2, <4>1, <4>3 DEF Q
      <4>5. h <= o + m + 1
        BY <1>1, <1>6, <4>4 DEF IsFirst
      <4> QED
        BY <1>1, <1>7, <2>2, <4>5
    <3> QED
      BY <1>1, <3>1, <3>2
  <2>4. At(sql, h) # "$"
    BY <2>3 DEF IsPiece, Gap, Space
  <2> QED
    BY <1>4, <1>5, <2>1, <2>4
<1> QED
  BY <1>6, <1>8, <1>9 DEF IsFirst

\* A tag is found again in a piece where it is in the text.
LEMMA TextInPiece ==
    ASSUME NEW w, IsText(w), NEW sql, IsText(sql), NEW o, IsPiece(w, sql, o), NEW p \in 1 .. Len(w),
           NEW tag \in Seq(TagMarks)
    PROVE  Text(w, p, Len(tag)) = tag <=> Text(sql, o + p, Len(tag)) = tag
<1> DEFINE m == Len(w)
           l == Len(tag)
<1>1. m \in Nat /\ o \in Nat /\ p \in 1 .. m /\ l \in Nat /\ o + p \in Int /\ \A k \in 1 .. l : tag[k] \in TagMarks
  BY PieceAt
<1> HIDE DEF l, m
<1>2. CASE p + l - 1 <= m
  <2>1. ASSUME NEW k \in 1 .. l PROVE At(w, p + k - 1) = At(sql, (o + p) + k - 1)
    <3>1. p + k - 1 \in 1 .. m /\ o + (p + k - 1) = (o + p) + k - 1
      BY <1>1, <1>2
    <3>2. At(w, p + k - 1) = At(sql, o + (p + k - 1))
      BY <3>1, PieceSame DEF m
    <3> QED
      BY <3>1, <3>2
  <2>2. Text(w, p, l) = Text(sql, o + p, l)
    BY <2>1 DEF Text
  <2> QED
    BY <2>2 DEF l
<1>3. CASE p + l - 1 > m
  <2> DEFINE k == m + 2 - p
  <2>1. k \in 1 .. l /\ p + k - 1 = m + 1 /\ (o + p) + k - 1 = o + m + 1
    BY <1>1, <1>3
  <2> HIDE DEF k
  <2>2. Text(w, p, l)[k] = At(w, m + 1) /\ Text(sql, o + p, l)[k] = At(sql, o + m + 1)
    BY <2>1 DEF Text
  <2>3. At(w, m + 1) \in Gap /\ At(sql, o + m + 1) \in Gap
    BY PieceAt DEF IsPiece, Gap, m
  <2>4. tag[k] \notin Gap
    BY <1>1, <2>1 DEF TagMarks, Words, Gap, Space
  <2>5. Text(w, p, l) # tag /\ Text(sql, o + p, l) # tag
    BY <2>2, <2>3, <2>4
  <2> QED
    BY <2>5 DEF l
<1> QED
  BY <1>1, <1>2, <1>3

\* A symbol opens in a piece what it opens in the text, but for a comment whose opening
\* ends the piece.
LEMMA OpensInPiece ==
    ASSUME NEW w, IsText(w), NEW sql, IsText(sql), NEW s, NEW o, IsPiece(w, sql, o), NEW p \in 1 .. Len(w) - 1
    PROVE  Opens(w, s, p) = Opens(sql, s, o + p) \/ (p + 1 = Len(w) /\ w[p + 1] = "-")
<1> DEFINE m == Len(w)
           q == o + p
           t == MatchDollarTag(w, p)
<1>1. m \in Nat /\ o \in Nat /\ Len(sql) \in Nat /\ p \in 1 .. m - 1 /\ p \in 1 .. m
  BY PieceAt
<1>2. w[p] = sql[q] /\ q \in 1 .. Len(sql)
  BY <1>1, PieceAt
<1>3. At(w, p + 1) = At(sql, q + 1) /\ At(w, p + 1) = w[p + 1]
  <2>1. p + 1 \in 1 .. m /\ o + (p + 1) = q + 1
    BY <1>1
  <2> QED
    BY <2>1, PieceSame, PieceAt
<1>4. p + 1 # m => At(w, p + 2) = At(sql, q + 2)
  <2> SUFFICES ASSUME p + 1 # m PROVE At(w, p + 2) = At(sql, q + 2)
    OBVIOUS
  <2>1. p + 2 \in 1 .. m /\ o + (p + 2) = q + 2
    BY <1>1
  <2> QED
    BY <2>1, PieceSame
<1>5. At(w, p - 1) = "e" <=> At(sql, q - 1) = "e"
  <2>1. CASE p = 1
    <3>1. p - 1 = 0 /\ q - 1 = o
      BY <1>1, <2>1
    <3>2. At(w, 0) = "end" /\ At(sql, o) # "e"
      BY PieceAt DEF IsPiece, Words
    <3> QED
      BY <3>1, <3>2
  <2>2. CASE p # 1
    <3>1. p - 1 \in 1 .. m /\ o + (p - 1) = q - 1
      BY <1>1, <2>2
    <3> QED
      BY <3>1, PieceSame
  <2> QED
    BY <2>1, <2>2
<1>6. At(w, p - 1) = "e" => (IsWord(At(w, p - 2)) <=> IsWord(At(sql, q - 2)))
  <2>1. CASE p = 1
    <3>1. p - 1 = 0
      BY <2>1
    <3> QED
      BY <3>1, PieceAt
  <2>2. CASE p = 2
    <3>1. p - 2 = 0 /\ q - 2 = o
      BY <1>1, <2>2
    <3>2. ~IsWord(At(w, 0)) /\ ~IsWord(At(sql, o))
      BY PieceAt DEF IsPiece, Words, IsWord
    <3> QED
      BY <3>1, <3>2
  <2>3. CASE p # 1 /\ p # 2
    <3>1. p - 2 \in 1 .. m /\ o + (p - 2) = q - 2
      BY <1>1, <2>3
    <3>2. At(w, p - 2) = At(sql, q - 2)
      BY <3>1, PieceSame
    <3> QED
      BY <3>2
  <2> QED
    BY <2>1, <2>2, <2>3
<1>7. MatchDollarTag(sql, q) = t
  BY <1>1, TagInPiece
<1>8. w[p] = "$" /\ t > 0 => Text(sql, q, t) = Text(w, p, t)
  <2> SUFFICES ASSUME w[p] = "$", t > 0 PROVE Text(sql, q, t) = Text(w, p, t)
    OBVIOUS
  <2>1. t # 0 /\ t \in Nat
    BY <1>1, TagIs
  <2>2. Text(w, p, t) \in Seq(TagMarks) /\ Len(Text(w, p, t)) = t
    BY <1>1, <2>1, TagHas, TextHas
  <2> HIDE DEF t, q
  <2>3. Text(w, p, Len(Text(w, p, t))) = Text(w, p, t) <=> Text(sql, q, Len(Text(w, p, t))) = Text(w, p, t)
    BY <1>1, <2>2, TextInPiece DEF q
  <2> QED
    BY <2>2, <2>3
<1> HIDE DEF m, q, t
<1>9. CASE w[p] = "-" /\ At(w, p + 1) = "-"
  <2>1. CASE p + 1 = m
    BY <1>3, <1>9, <2>1 DEF m
  <2>2. CASE p + 1 # m
    BY <1>2, <1>3, <1>4, <1>9, <2>2 DEF Opens, q
  <2> QED
    BY <2>1, <2>2
<1>10. CASE w[p] = "$"
  BY <1>2, <1>7, <1>8, <1>10 DEF Opens, q, t
<1>11. CASE w[p] = "'"
  BY <1>2, <1>5, <1>6, <1>11 DEF Opens, q
<1>12. CASE ~(w[p] = "-" /\ At(w, p + 1) = "-") /\ w[p] # "$" /\ w[p] # "'"
  BY <1>2, <1>3, <1>12 DEF Opens, q
<1> QED
  BY <1>9, <1>10, <1>11, <1>12

\* A symbol inside of a span does in a piece what it does in the text.
LEMMA InsideInPiece ==
    ASSUME NEW w, IsText(w), NEW sql, IsText(sql), NEW s, NEW o, IsPiece(w, sql, o), NEW p \in 1 .. Len(w) - 1,
           NEW st, Sound(w, p, st)
    PROVE  Inside(w, s, st, p) = Inside(sql, s, st, o + p)
<1> DEFINE q == o + p
<1>1. p \in 1 .. Len(w) /\ p + 1 \in 1 .. Len(w) /\ o + (p + 1) = q + 1
  BY PieceAt
<1>2. w[p] = sql[q]
  BY <1>1, PieceAt
<1>3. At(w, p + 1) = At(sql, q + 1)
  BY <1>1, PieceSame
<1>4. Text(w, p, Len(st.tag)) = st.tag <=> Text(sql, q, Len(st.tag)) = st.tag
  <2>1. st.tag \in Seq(TagMarks)
    BY DEF Sound
  <2> QED
    BY <1>1, <2>1, TextInPiece
<1> HIDE DEF q
<1>5. CASE st.in = "dollar"
  BY <1>4, <1>5 DEF Inside, q
<1>6. CASE st.in # "dollar"
  BY <1>2, <1>3, <1>6 DEF Inside, q
<1> QED
  BY <1>5, <1>6

\* From the code on, a piece is read as the text is, up to its last symbol.
LEMMA PieceIsRead ==
    ASSUME NEW w, IsText(w), NEW sql, IsText(sql), NEW s, NEW o, IsPiece(w, sql, o), Lexed(sql, s)[o + 1] = Code
    PROVE  \A p \in 1 .. Len(w) : \/ Lexed(w, s)[p] = Lexed(sql, s)[o + p]
                                  \/ p = Len(w) /\ w[p] = "-"
<1> DEFINE m == Len(w)
           S == {p \in 1 .. m : Lexed(w, s)[p] = Lexed(sql, s)[o + p] \/ (p = m /\ w[p] = "-")}
<1>1. m \in Nat /\ Len(sql) \in Nat /\ o \in Nat
  BY PieceAt
<1>2. 1 <= m => 1 \in S
  BY <1>1, LexedIs
<1>3. ASSUME NEW p \in 1 .. m - 1, p \in S PROVE p + 1 \in S
  <2> DEFINE st == Lexed(w, s)[p]
  <2>1. p \in 1 .. m /\ p # m /\ p + 1 \in 1 .. m /\ o + (p + 1) = (o + p) + 1
    BY <1>1
  <2>2. Lexed(sql, s)[o + p] = st
    BY <1>3, <2>1
  <2>3. o + p \in 1 .. Len(sql)
    BY <2>1, PieceAt
  <2>4. Lexed(w, s)[p + 1] = LexStep(w, s, st, p)
    BY <1>1, <2>1, LexedIs
  <2>5. Lexed(sql, s)[(o + p) + 1] = LexStep(sql, s, st, o + p)
    BY <1>1, <2>2, <2>3, LexedIs
  <2>6. Sound(w, p, st)
    <3>1. p \in 1 .. Len(w) + 1
      BY <1>1, <2>1
    <3> QED
      BY <3>1, LexedIsSound
  <2> HIDE DEF st
  <2>7. Inside(w, s, st, p) = Inside(sql, s, st, o + p)
    BY <2>6, InsideInPiece
  <2>8. Opens(w, s, p) = Opens(sql, s, o + p) \/ (p + 1 = m /\ w[p + 1] = "-")
    BY OpensInPiece
  <2>9. LexStep(w, s, st, p) = LexStep(sql, s, st, o + p) \/ (p + 1 = m /\ w[p + 1] = "-")
    BY <2>7, <2>8 DEF LexStep
  <2> HIDE DEF m
  <2> QED
    BY <2>1, <2>4, <2>5, <2>9
<1>4. 1 .. m \subseteq S
  <2>1. 1 \in Int /\ m \in Int
    BY <1>1
  <2> HIDE DEF S, m
  <2> QED
    BY <1>2, <1>3, <2>1, Upward
<1> QED
  BY <1>4

\* What is said of the server's reading of a text holds of its pieces.
LEMMA PieceIsReadable ==
    ASSUME NEW w, IsText(w), NEW sql, IsText(sql), NEW s, NEW o, IsPiece(w, sql, o), Lexed(sql, s)[o + 1] = Code,
           Readable(sql, s)
    PROVE  Readable(w, s)
<1>1. Len(w) \in Nat /\ Len(sql) \in Nat /\ o \in Nat /\ DOMAIN w = 1 .. Len(w) /\ DOMAIN sql = 1 .. Len(sql)
  BY PieceAt, TextIs
<1>2. ASSUME NEW p \in ServerCode(w, s), w[p] # "-"
      PROVE  p \in 1 .. Len(w) /\ o + p \in ServerCode(sql, s) /\ w[p] = sql[o + p]
  <2>1. p \in 1 .. Len(w) /\ Lexed(w, s)[p].in = "code" /\ Lexed(w, s)[p].skip = 0
    BY <1>1 DEF ServerCode
  <2>2. Lexed(w, s)[p] = Lexed(sql, s)[o + p]
    BY <1>2, <2>1, PieceIsRead
  <2>3. o + p \in 1 .. Len(sql) /\ w[p] = sql[o + p]
    BY <2>1, PieceAt
  <2> QED
    BY <1>1, <2>1, <2>2, <2>3 DEF ServerCode
<1>3. ASSUME NEW p \in ServerCode(w, s), IsWord(w[p]) \/ (w[p] = "$" /\ MatchDollarTag(w, p) > 0)
      PROVE  ~IsWord(At(w, p - 1))
  <2>1. w[p] # "-"
    BY <1>3 DEF IsWord, Words
  <2>2. p \in 1 .. Len(w) /\ o + p \in ServerCode(sql, s) /\ w[p] = sql[o + p]
    BY <1>2, <2>1
  <2>3. MatchDollarTag(w, p) = MatchDollarTag(sql, o + p)
    BY <2>2, TagInPiece
  <2>4. ~IsWord(At(sql, (o + p) - 1))
    BY <1>3, <2>2, <2>3 DEF Readable
  <2>5. CASE p = 1
    <3>1. p - 1 = 0
      BY <2>5
    <3> QED
      BY <3>1, PieceAt DEF IsWord, Words
  <2>6. CASE p # 1
    <3>1. p - 1 \in 1 .. Len(w) /\ o + (p - 1) = (o + p) - 1
      BY <1>1, <2>2, <2>6
    <3> QED
      BY <2>4, <3>1, PieceSame
  <2> QED
    BY <2>5, <2>6
<1>4. ASSUME NEW p \in ServerCode(w, s), w[p] = "'", At(w, p - 1) = "e"
      PROVE  At(w, p - 2) # "$"
  <2>1. w[p] # "-"
    BY <1>4
  <2>2. p \in 1 .. Len(w) /\ o + p \in ServerCode(sql, s) /\ w[p] = sql[o + p]
    BY <1>2, <2>1
  <2>3. p # 1
    <3> SUFFICES ASSUME p = 1 PROVE FALSE
      OBVIOUS
    <3>1. p - 1 = 0
      OBVIOUS
    <3> QED
      BY <1>4, <3>1, PieceAt
  <2>4. At(sql, (o + p) - 1) = "e"
    <3>1. p - 1 \in 1 .. Len(w) /\ o + (p - 1) = (o + p) - 1
      BY <1>1, <2>2, <2>3
    <3> QED
      BY <1>4, <3>1, PieceSame
  <2>5. At(sql, (o + p) - 2) # "$"
    BY <1>4, <2>2, <2>4 DEF Readable
  <2>6. CASE p = 2
    <3>1. p - 2 = 0
      BY <2>6
    <3> QED
      BY <3>1, PieceAt
  <2>7. CASE p # 2
    <3>1. p - 2 \in 1 .. Len(w) /\ o + (p - 2) = (o + p) - 2
      BY <1>1, <2>2, <2>3, <2>7
    <3> QED
      BY <2>5, <3>1, PieceSame
  <2> QED
    BY <2>6, <2>7
<1>5. ASSUME NEW p \in ServerCode(w, s), s.engine = "mysql", w[p] = "/", At(w, p + 1) = "*"
      PROVE  At(w, p + 2) # "!"
  <2> SUFFICES ASSUME At(w, p + 2) = "!" PROVE FALSE
    OBVIOUS
  <2>1. w[p] # "-"
    BY <1>5
  <2>2. p \in 1 .. Len(w) /\ o + p \in ServerCode(sql, s) /\ w[p] = sql[o + p]
    BY <1>2, <2>1
  <2>3. p + 1 \in 1 .. Len(w) /\ p + 2 \in 1 .. Len(w)
    <3>1. p + 1 \in Int /\ p + 2 \in Int
      BY <1>1, <2>2
    <3> QED
      BY <1>5, <3>1, TextIs
  <2>4. o + (p + 1) = (o + p) + 1 /\ o + (p + 2) = (o + p) + 2
    BY <1>1, <2>2
  <2>5. At(sql, (o + p) + 1) = "*" /\ At(sql, (o + p) + 2) = "!"
    BY <1>5, <2>3, <2>4, PieceSame
  <2> QED
    BY <1>5, <2>2, <2>5 DEF Readable
<1> QED
  BY <1>3, <1>4, <1>5 DEF Readable

-----------------------------------------------------------------------------
(* The statement of a text.                                                 *)

\* A segment that is not blank has a symbol that is not a space.
LEMMA NotBlank ==
    ASSUME NEW seg, IsText(seg), ~IsBlank(seg)
    PROVE  \E i \in 1 .. Len(seg) : seg[i] \notin Space
<1> DEFINE n == Len(seg)
           IsLine(i) == seg[i] = "-" /\ At(seg, i + 1) = "-"
           OpensBlock(i) == seg[i] = "/" /\ At(seg, i + 1) = "*"
           Goes(i) == CASE IsLine(i) -> First(seg, i + 2, LineEnds(seg))
                        [] OpensBlock(i) -> UpTo(n, First(seg, i + 2, BlockEnds(seg)) + 2)
                        [] OTHER -> i + 1
           g == [i \in 1 .. n |-> Goes(i)]
           at == Stops(n, g)[1]
<1>1. n \in Nat /\ DOMAIN seg = 1 .. n
  BY TextIs
<1>2. LineEnds(seg) \in SUBSET (1 .. n) /\ BlockEnds(seg) \in SUBSET (1 .. n)
  BY <1>1 DEF LineEnds, BlockEnds
<1>3. ASSUME NEW i \in 1 .. n PROVE Goes(i) \in i + 1 .. n + 1
  <2> DEFINE l == First(seg, i + 2, LineEnds(seg))
             b == First(seg, i + 2, BlockEnds(seg))
  <2>0. i + 2 \in Int
    BY <1>1
  <2>1. IsFirst(n, i + 2, LineEnds(seg), l) /\ IsFirst(n, i + 2, BlockEnds(seg), b)
    BY <1>1, <1>2, <2>0, FirstIs
  <2>2. l \in 1 .. n + 1 /\ b \in 1 .. n + 1
    BY <1>2, <2>0, FirstEnds
  <2> HIDE DEF l, b
  <2>3. l \in i + 1 .. n + 1 /\ b \in i + 1 .. n + 1
    BY <1>1, <2>1, <2>2 DEF IsFirst
  <2>4. UpTo(n, b + 2) \in i + 1 .. n + 1
    BY <1>1, <2>3 DEF UpTo
  <2>5. i + 1 \in i + 1 .. n + 1
    BY <1>1
  <2> QED
    BY <2>3, <2>4, <2>5 DEF l, b
<1> HIDE DEF Goes
<1>4. g \in [1 .. n -> 1 .. n + 1]
  <2>1. \A i \in 1 .. n : i + 1 .. n + 1 \subseteq 1 .. n + 1
    BY <1>1
  <2> QED
    BY <1>3, <2>1
<1>5. IsLoop(n, g)
  BY <1>1, <1>3, <1>4 DEF IsLoop
<1>6. at \subseteq 1 .. n
  <2>1. 1 \in 1 .. n + 1
    BY <1>1
  <2>2. IsChain(n, g, 1, at)
    BY <1>5, <2>1, StopsAreChains
  <2> QED
    BY <2>2 DEF IsChain
<1>7. \E i \in at : seg[i] \notin Space
  BY DEF IsBlank, Goes
<1> QED
  BY <1>6, <1>7

\* The cuts are where the server reads a semicolon in the code, and the start.
LEMMA CutsAre ==
    ASSUME NEW sql, IsText(sql), NEW s, Readable(sql, s)
    PROVE  /\ 0 \in Cuts(sql, s) /\ Cuts(sql, s) \subseteq 0 .. Len(sql)
           /\ \A c \in 1 .. Len(sql) : c \in Cuts(sql, s) <=> c \in ServerCode(sql, s) /\ sql[c] = "semi"
<1>1. Len(sql) \in Nat
  BY TextIs
<1>2. /\ TopLevel(sql, s) \subseteq 1 .. Len(sql)
      /\ \A j \in 1 .. Len(sql) : sql[j] = "semi" => (j \in TopLevel(sql, s) <=> j \in ServerCode(sql, s))
  BY ScanIsRead
<1>3. Cuts(sql, s) = {0} \cup {i \in TopLevel(sql, s) : sql[i] = "semi"}
  BY DEF Cuts
<1>4. 0 \in 0 .. Len(sql) /\ 1 .. Len(sql) \subseteq 0 .. Len(sql) /\ 0 \notin 1 .. Len(sql)
  BY <1>1
<1> QED
  BY <1>2, <1>3, <1>4

\* A segment goes from after a cut c to before the next, d, or to the end.
IsSegment(sql, cuts, c, d, seg) ==
    /\ d \in c + 1 .. Len(sql) + 1 /\ (d <= Len(sql) => d \in cuts)
    /\ \A j \in c + 1 .. d - 1 : j \notin cuts
    /\ IsText(seg) /\ Len(seg) = (d - 1) - c
    /\ \A k \in 1 .. (d - 1) - c : seg[k] = sql[c + k]

\* Each cut has such a segment.
LEMMA SegmentIs ==
    ASSUME NEW sql, IsText(sql), NEW cuts, cuts \subseteq 0 .. Len(sql), NEW c \in cuts
    PROVE  \E d : IsSegment(sql, cuts, c, d, Segment(sql, cuts, c))
<1> DEFINE n == Len(sql)
           P == {j \in cuts : j # 0}
           d == First(sql, c + 1, P)
           seg == Segment(sql, cuts, c)
<1>1. n \in Nat /\ c \in 0 .. n /\ c + 1 \in Int
  BY TextIs
<1>2. P \in SUBSET (1 .. n)
  <2>1. \A j \in P : j \in 0 .. n /\ j # 0
    OBVIOUS
  <2>2. \A j \in 0 .. n : j # 0 => j \in 1 .. n
    BY <1>1
  <2> HIDE DEF P, n
  <2> QED
    BY <2>1, <2>2
<1>3. First(sql, c + 1, cuts) = d
  <2>1. \A j \in cuts : j >= c + 1 => j # 0
    BY <1>1
  <2> DEFINE G == {j \in cuts : j >= c + 1}
             H == {j \in P : j >= c + 1}
  <2>2. G = H
    BY <2>1
  <2> HIDE DEF P
  <2>3. First(sql, c + 1, cuts) = IF G = {} THEN n + 1 ELSE CHOOSE j \in G : \A k \in G : j <= k
    BY DEF First
  <2>4. d = IF H = {} THEN n + 1 ELSE CHOOSE j \in H : \A k \in H : j <= k
    BY DEF First
  <2> HIDE DEF G, H, d
  <2> QED
    BY <2>2, <2>3, <2>4
<1> HIDE DEF d
<1>4. IsFirst(n, c + 1, P, d)
  BY <1>1, <1>2, FirstIs DEF d
<1>5. d \in 1 .. n + 1
  BY <1>1, <1>2, FirstEnds DEF d
<1>6. d \in c + 1 .. n + 1 /\ (d <= n => d \in P) /\ \A j \in c + 1 .. d - 1 : j \notin P
  <2>1. \A p \in P : p \in 1 .. n
    BY <1>2
  <2> HIDE DEF P
  <2> QED
    BY <1>1, <1>4, <1>5, <2>1 DEF IsFirst
<1>7. \A j \in c + 1 .. d - 1 : j \notin cuts
  <2>1. \A j \in c + 1 .. d - 1 : j # 0
    BY <1>1
  <2> QED
    BY <1>6, <2>1
<1>8. seg = SubSeq(sql, c + 1, d - 1)
  BY <1>3 DEF Segment
<1>9. \A i \in c + 1 .. d - 1 : i \in 1 .. n
  BY <1>1, <1>5
<1>10. /\ seg \in Seq(Symbols) /\ Len(seg) = (d - 1) - c
       /\ \A k \in 1 .. (d - 1) - c : seg[k] = sql[c + k]
  <2> DEFINE a == c + 1
             b == d - 1
             m == b - c
  <2>0. a \in 1 .. n + 1 /\ b \in 0 .. n /\ b - a + 1 = m /\ m \in Nat /\ (a <= b \/ m = 0) /\ b >= a - 1
    BY <1>1, <1>5, <1>6
  <2>1. \A k \in 1 .. m : a + k - 1 = c + k /\ c + k \in 1 .. n
    BY <1>1, <1>5
  <2>2. sql \in Seq(Symbols)
    BY DEF IsText
  <2>3. \A i \in 1 .. n : sql[i] \in Symbols
    BY TextIs
  <2> HIDE DEF a, b, m
  <2>4. SubSeq(sql, a, b) = [k \in 1 .. m |-> sql[a + k - 1]]
    BY <2>0, <2>2
  <2>5. SubSeq(sql, a, b) = [k \in 1 .. m |-> sql[c + k]]
    BY <2>1, <2>4
  <2>6. \A k \in 1 .. m : sql[c + k] \in Symbols
    BY <2>1, <2>3
  <2>7. SubSeq(sql, a, b) \in Seq(Symbols) /\ Len(SubSeq(sql, a, b)) = m
    BY <2>0, <2>5, <2>6
  <2>8. \A k \in 1 .. m : SubSeq(sql, a, b)[k] = sql[c + k]
    BY <2>5
  <2> QED
    BY <1>8, <2>7, <2>8 DEF a, b, m
<1> HIDE DEF seg
<1>11. IsText(seg)
  BY <1>10 DEF IsText
<1>12. IsSegment(sql, cuts, c, d, seg)
  BY <1>6, <1>7, <1>10, <1>11 DEF IsSegment, P
<1> QED
  BY <1>12 DEF seg

\* Trimmed, it starts at its first symbol that is not a space, a, and ends at its last, b.
IsTrimmed(seg, a, b, w) ==
    /\ a \in 1 .. Len(seg) /\ b \in a .. Len(seg)
    /\ \A j \in 1 .. a - 1 : seg[j] \in Space
    /\ \A j \in b + 1 .. Len(seg) : seg[j] \in Space
    /\ IsText(w) /\ Len(w) = (b + 1) - a
    /\ \A k \in 1 .. (b + 1) - a : w[k] = seg[(a - 1) + k]

\* A segment with such a symbol is trimmed so.
LEMMA TrimIs ==
    ASSUME NEW seg, IsText(seg), \E i \in 1 .. Len(seg) : seg[i] \notin Space
    PROVE  \E a, b : IsTrimmed(seg, a, b, Trim(seg))
<1> DEFINE n == Len(seg)
           solid == {i \in DOMAIN seg : seg[i] \notin Space}
           a == CHOOSE i \in solid : \A j \in solid : i <= j
           b == CHOOSE i \in solid : \A j \in solid : j <= i
           w == Trim(seg)
<1>1. n \in Nat /\ DOMAIN seg = 1 .. n /\ \A i \in 1 .. n : seg[i] \in Symbols
  BY TextIs
<1>2. solid # {} /\ solid \in SUBSET (1 .. n)
  BY <1>1
<1>3. \A i \in 1 .. n : i \in solid \/ seg[i] \in Space
  BY <1>1
<1>4. w = SubSeq(seg, a, b)
  BY DEF Trim
<1> HIDE DEF solid
<1>5. \E i \in solid : \A j \in solid : i <= j
  <2>1. solid \in SUBSET Nat
    <3>1. \A i \in 1 .. n : i \in Nat
      BY <1>1
    <3> QED
      BY <1>2, <3>1
  <2> QED
    BY <1>2, <2>1, HasLeast
<1>6. \E i \in solid : \A j \in solid : j <= i
  BY <1>1, <1>2, HasGreatest
<1>7. a \in solid /\ b \in solid /\ \A j \in solid : a <= j /\ j <= b
  BY <1>5, <1>6
<1> HIDE DEF a, b
<1>8. a \in 1 .. n /\ b \in a .. n
  BY <1>1, <1>2, <1>7
<1>9. \A j \in 1 .. a - 1 : seg[j] \in Space
  <2>1. \A j \in 1 .. a - 1 : j \in 1 .. n /\ ~(a <= j)
    BY <1>1, <1>8
  <2> QED
    BY <1>3, <1>7, <2>1
<1>10. \A j \in b + 1 .. n : seg[j] \in Space
  <2>1. \A j \in b + 1 .. n : j \in 1 .. n /\ ~(j <= b)
    BY <1>1, <1>8
  <2> QED
    BY <1>3, <1>7, <2>1
<1>11. w \in Seq(Symbols) /\ Len(w) = (b + 1) - a /\ \A k \in 1 .. (b + 1) - a : w[k] = seg[(a - 1) + k]
  <2> DEFINE m == (b + 1) - a
  <2>0. b - a + 1 = m /\ m \in Nat /\ a <= b /\ a \in 1 .. n /\ b \in 1 .. n
    BY <1>1, <1>8
  <2>1. \A k \in 1 .. m : a + k - 1 = (a - 1) + k /\ (a - 1) + k \in 1 .. n
    BY <1>1, <1>8
  <2>2. seg \in Seq(Symbols)
    BY DEF IsText
  <2> HIDE DEF m
  <2>3. w = [k \in 1 .. m |-> seg[a + k - 1]]
    BY <1>4, <2>0, <2>2
  <2>4. w = [k \in 1 .. m |-> seg[(a - 1) + k]]
    BY <2>1, <2>3
  <2>5. \A k \in 1 .. m : seg[(a - 1) + k] \in Symbols
    BY <1>1, <2>1
  <2>6. w \in Seq(Symbols) /\ Len(w) = m
    BY <2>0, <2>4, <2>5
  <2> QED
    BY <2>4, <2>6 DEF m
<1> HIDE DEF w
<1>12. IsText(w)
  BY <1>11 DEF IsText
<1>13. IsTrimmed(seg, a, b, w)
  BY <1>8, <1>9, <1>10, <1>11, <1>12 DEF IsTrimmed
<1> QED
  BY <1>13 DEF w

\* After a cut the server is in the code, and stays there over spaces.
LEMMA CodeAfterCut ==
    ASSUME NEW sql, IsText(sql), NEW s, NEW c \in 0 .. Len(sql),
           c # 0 => c \in ServerCode(sql, s) /\ sql[c] = "semi",
           NEW e \in c .. Len(sql), \A j \in c + 1 .. e : sql[j] \in Space
    PROVE  Lexed(sql, s)[e + 1] = Code
<1> DEFINE S == {j \in c .. e : Lexed(sql, s)[j + 1] = Code}
<1>1. Len(sql) \in Nat
  BY TextIs
<1>2. c \in S
  <2>1. CASE c = 0
    <3>1. c + 1 = 1 /\ c \in c .. e
      BY <2>1
    <3> QED
      BY <1>1, <3>1, LexedIs
  <2>2. CASE c # 0
    <3>1. c \in 1 .. Len(sql) /\ c \in 1 .. Len(sql) + 1 /\ c \in c .. e
      BY <1>1, <2>2
    <3>2. Lexed(sql, s)[c].in = "code" /\ Lexed(sql, s)[c].skip = 0
      BY <2>2 DEF ServerCode
    <3>3. Sound(sql, c, Lexed(sql, s)[c])
      BY <3>1, LexedIsSound
    <3>4. Lexed(sql, s)[c] = Passing("code", 0, <<>>)
      BY <3>2, <3>3 DEF Sound
    <3>5. Lexed(sql, s)[c + 1] = Opens(sql, s, c)
      BY <1>1, <3>1, <3>4, CodeStep, PassingIs
    <3>6. Opens(sql, s, c) = Code
      BY <2>2 DEF Opens
    <3> QED
      BY <3>1, <3>5, <3>6
  <2> QED
    BY <2>1, <2>2
<1>3. ASSUME NEW j \in c .. e - 1, j \in S PROVE j + 1 \in S
  <2>1. j + 1 \in 1 .. Len(sql) /\ j + 1 \in c .. e /\ j + 1 \in c + 1 .. e
    BY <1>1
  <2>2. Lexed(sql, s)[(j + 1) + 1] = Opens(sql, s, j + 1)
    BY <1>1, <1>3, <2>1, CodeStep
  <2>3. sql[j + 1] \in Space
    BY <2>1
  <2>4. Opens(sql, s, j + 1) = Code
    BY <2>3 DEF Opens, Space
  <2> QED
    BY <2>1, <2>2, <2>4
<1>4. c .. e \subseteq S
  <2>1. c \in Int /\ e \in Int
    BY <1>1
  <2> HIDE DEF S
  <2> QED
    BY <1>2, <1>3, <2>1, Upward
<1>5. e \in c .. e
  BY <1>1
<1> QED
  BY <1>4, <1>5

\* A statement of a text holds something and no semicolon in the code, and is as readable.
LEMMA StatementIs ==
    ASSUME NEW sql, IsText(sql), NEW s, Readable(sql, s), NEW c \in SplitStatements(sql, Cuts(sql, s)),
           NEW w, w = Trim(Segment(sql, Cuts(sql, s), c))
    PROVE  /\ IsText(w) /\ Len(w) # 0 /\ Readable(w, s)
           /\ \A p \in ServerCode(w, s) : w[p] # "semi"
<1> DEFINE n == Len(sql)
           cuts == Cuts(sql, s)
           seg == Segment(sql, cuts, c)
<1>1. n \in Nat
  BY TextIs
<1>2. c \in cuts /\ ~IsBlank(seg)
  BY DEF SplitStatements
<1>3. /\ cuts \subseteq 0 .. n
      /\ \A x \in 1 .. n : x \in cuts <=> x \in ServerCode(sql, s) /\ sql[x] = "semi"
  BY CutsAre
<1>4. w = Trim(seg)
  OBVIOUS
<1> HIDE DEF cuts
<1> HIDE DEF seg
<1>5. PICK d : IsSegment(sql, cuts, c, d, seg)
  BY <1>2, <1>3, SegmentIs DEF seg
<1>6. PICK a, b : IsTrimmed(seg, a, b, w)
  <2>1. IsText(seg)
    BY <1>5 DEF IsSegment
  <2> QED
    BY <1>2, <1>4, <2>1, NotBlank, TrimIs
<1>7. /\ d \in c + 1 .. n + 1 /\ (d <= n => d \in cuts)
      /\ \A j \in c + 1 .. d - 1 : j \notin cuts
      /\ IsText(seg) /\ Len(seg) = (d - 1) - c
      /\ \A k \in 1 .. (d - 1) - c : seg[k] = sql[c + k]
      /\ a \in 1 .. Len(seg) /\ b \in a .. Len(seg)
      /\ \A j \in 1 .. a - 1 : seg[j] \in Space
      /\ \A j \in b + 1 .. Len(seg) : seg[j] \in Space
      /\ IsText(w) /\ Len(w) = (b + 1) - a
      /\ \A k \in 1 .. (b + 1) - a : w[k] = seg[(a - 1) + k]
  BY <1>5, <1>6 DEF IsSegment, IsTrimmed
<1> DEFINE o == c + (a - 1)
           l == (d - 1) - c
<1>8. c \in 0 .. n /\ l \in Nat /\ Len(seg) = l /\ a \in 1 .. l /\ b \in a .. l
  BY <1>1, <1>2, <1>3, <1>7
<1>9. o \in c .. n /\ o \in Nat /\ o + Len(w) = c + b /\ c + b <= n /\ c + l = d - 1 /\ d \in c + 1 .. n + 1
  BY <1>1, <1>7, <1>8
<1>10. ASSUME NEW p \in 1 .. Len(w) PROVE w[p] = sql[o + p] /\ o + p \in c + 1 .. d - 1 /\ o + p \in 1 .. n
  <2>1. p \in 1 .. (b + 1) - a
    BY <1>7
  <2>2. (a - 1) + p \in 1 .. l /\ c + ((a - 1) + p) = o + p
    BY <1>8, <2>1
  <2>3. w[p] = seg[(a - 1) + p] /\ seg[(a - 1) + p] = sql[c + ((a - 1) + p)]
    BY <1>7, <2>1, <2>2
  <2>4. o + p \in c + 1 .. d - 1 /\ o + p \in 1 .. n
    BY <1>1, <1>8, <1>9, <2>2
  <2> QED
    BY <2>2, <2>3, <2>4
<1>11. ASSUME NEW j \in c + 1 .. o PROVE sql[j] \in Space
  <2>1. j - c \in 1 .. a - 1 /\ j - c \in 1 .. l /\ c + (j - c) = j
    BY <1>8
  <2>2. seg[j - c] \in Space /\ seg[j - c] = sql[c + (j - c)]
    BY <1>7, <2>1
  <2> QED
    BY <2>1, <2>2
<1>12. c # 0 => c \in 1 .. n /\ c \in ServerCode(sql, s) /\ sql[c] = "semi"
  <2>1. c # 0 => c \in 1 .. n
    BY <1>8
  <2> QED
    BY <1>2, <1>3, <2>1
<1> HIDE DEF o, l
<1>13. Lexed(sql, s)[o + 1] = Code
  BY <1>8, <1>9, <1>11, <1>12, CodeAfterCut
<1>14. At(sql, o) \notin Words
  <2>1. CASE o = 0
    <3>1. At(sql, o) = "end"
      BY <1>1, <2>1, TextIs
    <3> QED
      BY <3>1 DEF Words
  <2>2. CASE o # 0
    <3>1. o \in 1 .. n
      BY <1>1, <1>9, <2>2
    <3>2. At(sql, o) = sql[o]
      BY <3>1, TextIs
    <3>3. o = c \/ o \in c + 1 .. o
      BY <1>8, <1>9
    <3>4. sql[o] \in Space \cup {"semi"}
      BY <1>11, <1>12, <2>2, <3>3
    <3> QED
      BY <3>2, <3>4 DEF Words, Space
  <2> QED
    BY <2>1, <2>2
<1>15. At(sql, o + Len(w) + 1) \in Gap
  <2>1. o + Len(w) + 1 = c + (b + 1)
    BY <1>8, <1>9
  <2>2. CASE b = l
    <3>1. c + (b + 1) = d
      BY <1>8, <1>9, <2>2
    <3>2. CASE d <= n
      <4>1. d \in 1 .. n
        BY <1>8, <1>9, <3>2
      <4>2. sql[d] = "semi" /\ At(sql, d) = sql[d]
        BY <1>3, <1>7, <3>2, <4>1, TextIs
      <4> QED
        BY <2>1, <3>1, <4>2 DEF Gap
    <3>3. CASE ~(d <= n)
      <4>1. d \in Int /\ d \notin 1 .. n
        BY <1>1, <1>9, <3>3
      <4>2. At(sql, d) = "end"
        BY <4>1, TextIs
      <4> QED
        BY <2>1, <3>1, <4>2 DEF Gap
    <3> QED
      BY <3>2, <3>3
  <2>3. CASE b # l
    <3>1. b + 1 \in b + 1 .. l /\ b + 1 \in 1 .. l /\ c + (b + 1) \in 1 .. n
      BY <1>1, <1>8, <1>9, <2>3
    <3>2. seg[b + 1] \in Space /\ seg[b + 1] = sql[c + (b + 1)]
      BY <1>7, <1>8, <3>1 DEF l
    <3>3. At(sql, c + (b + 1)) = sql[c + (b + 1)]
      BY <3>1, TextIs
    <3> QED
      BY <2>1, <3>2, <3>3 DEF Gap
  <2> QED
    BY <2>2, <2>3
<1>16. IsPiece(w, sql, o)
  BY <1>9, <1>10, <1>14, <1>15 DEF IsPiece
<1>17. Readable(w, s)
  BY <1>7, <1>13, <1>16, PieceIsReadable
<1>18. ASSUME NEW p \in ServerCode(w, s), w[p] = "semi" PROVE FALSE
  <2>1. p \in 1 .. Len(w) /\ Lexed(w, s)[p].in = "code" /\ Lexed(w, s)[p].skip = 0
    BY <1>7, TextIs DEF ServerCode
  <2>2. Lexed(w, s)[p] = Lexed(sql, s)[o + p]
    BY <1>7, <1>13, <1>16, <1>18, <2>1, PieceIsRead
  <2>3. w[p] = sql[o + p] /\ o + p \in c + 1 .. d - 1 /\ o + p \in 1 .. n
    BY <1>10, <2>1
  <2>4. o + p \in ServerCode(sql, s)
    BY <2>1, <2>2, <2>3, TextIs DEF ServerCode
  <2>5. o + p \in cuts
    BY <1>3, <1>18, <2>3, <2>4
  <2> QED
    BY <1>7, <2>3, <2>5
<1>19. Len(w) # 0
  BY <1>7, <1>8
<1> QED
  BY <1>7, <1>17, <1>18, <1>19

-----------------------------------------------------------------------------
(* What is handed to the driver.                                            *)

\* The words of a statement are the words the server reads in its code.
LEMMA WordsAgree ==
    ASSUME NEW w, IsText(w), NEW s, Readable(w, s)
    PROVE  TopLevelWords(w, s) = WordsAt(w, ServerCode(w, s))
<1> DEFINE A == {i \in TopLevel(w, s) : IsWord(w[i])}
           B == {i \in ServerCode(w, s) : IsWord(w[i])}
<1>1. A = B
  BY ScanIsRead DEF IsWord
<1>2. TopLevelWords(w, s) = [verb |-> At(w, First(w, 1, A)), all |-> {w[i] : i \in A}]
  BY DEF TopLevelWords, WordsAt
<1>3. WordsAt(w, ServerCode(w, s)) = [verb |-> At(w, First(w, 1, B)), all |-> {w[i] : i \in B}]
  BY DEF WordsAt
<1> HIDE DEF A, B
<1> QED
  BY <1>1, <1>2, <1>3

\* A line after the end of a statement: the code, or a span that was left open and
\* is not a comment of one line.
LEMMA NextLine ==
    ASSUME NEW x, IsText(x), NEW s, NEW i \in 1 .. Len(x), x[i] = "nl"
    PROVE  Lexed(x, s)[i + 1] = Code \/ Lexed(x, s)[i + 1].in \notin {"code", "line"}
<1> DEFINE st == Lexed(x, s)[i]
<1>1. Len(x) \in Nat /\ At(x, i) = "nl" /\ i + 0 = i
  BY TextIs
<1>2. Lexed(x, s)[i + 1] = LexStep(x, s, st, i)
  BY <1>1, LexedIs
<1>3. Sound(x, i, st)
  <2>1. i \in 1 .. Len(x) + 1
    BY <1>1
  <2> QED
    BY <2>1, LexedIsSound
<1> HIDE DEF st
<1>4. CASE st.in \in {"code", "line"}
  <2>1. st.skip = 0
    <3> SUFFICES ASSUME st.skip # 0 PROVE FALSE
      OBVIOUS
    <3>1. 0 \in 0 .. st.skip - 1
      BY <1>3 DEF Sound
    <3> QED
      BY <1>1, <1>3, <1>4, <3>1 DEF Sound, Gap, Space
  <2>2. CASE st.in = "code"
    BY <1>2, <2>1, <2>2 DEF LexStep, Opens
  <2>3. CASE st.in = "line"
    BY <1>2, <2>1, <2>3 DEF LexStep, Inside
  <2> QED
    BY <1>4, <2>2, <2>3
<1>5. CASE st.in \notin {"code", "line"}
  <2>1. CASE st.skip > 0
    <3>1. LexStep(x, s, st, i) = [st EXCEPT !.skip = @ - 1]
      BY <2>1 DEF LexStep
    <3>2. st = Passing(st.in, st.skip, st.tag)
      BY <1>3 DEF Sound
    <3>3. [st EXCEPT !.skip = @ - 1].in = st.in
      BY <3>2 DEF Passing
    <3> QED
      BY <1>2, <1>5, <3>1, <3>3
  <2>2. CASE ~(st.skip > 0)
    <3>1. Lexed(x, s)[i + 1] = Inside(x, s, st, i)
      BY <1>2, <1>5, <2>2 DEF LexStep
    <3>2. CASE st.in = "block"
      BY <1>5, <3>1, <3>2 DEF Inside
    <3>3. CASE st.in = "dollar"
      <4> DEFINE tag == st.tag
                 m == Len(tag)
      <4>1. tag \in Seq(TagMarks) /\ tag # <<>>
        BY <1>3, <3>3 DEF Sound
      <4>2. m \in Nat /\ 1 \in 1 .. m /\ tag[1] \in TagMarks
        BY <4>1
      <4> HIDE DEF tag, m
      <4>3. Text(x, i, m)[1] = "nl"
        <5>1. i + 1 - 1 = i
          BY <1>1
        <5>2. Text(x, i, m)[1] = At(x, i + 1 - 1)
          BY <1>1, <4>2, TextHas
        <5> QED
          BY <1>1, <5>1, <5>2
      <4>4. Text(x, i, m) # tag
        BY <4>2, <4>3 DEF TagMarks, Words
      <4> QED
        BY <1>5, <3>1, <3>3, <4>4 DEF Inside, tag, m
    <3>4. CASE st.in \in {"'", "estring", "dq", "bq"}
      BY <1>5, <3>1, <3>4 DEF Inside, Delim
    <3> QED
      BY <1>3, <1>5, <3>2, <3>3, <3>4 DEF Sound, Spans
  <2> QED
    BY <2>1, <2>2
<1> QED
  BY <1>4, <1>5

\* With the bound on a line of its own, the server reads the same words, and the bound.
LEMMA BoundIsRead ==
    ASSUME NEW w, IsText(w), Len(w) # 0, NEW s, NEW x, x = w \o <<"nl", "limit">>
    PROVE  /\ IsText(x) /\ Len(x) = Len(w) + 2 /\ x[Len(w) + 1] = "nl" /\ x[Len(w) + 2] = "limit"
           /\ \A p \in 1 .. Len(w) : x[p] = w[p] /\ (w[p] # "-" => (p \in ServerCode(x, s) <=> p \in ServerCode(w, s)))
           /\ ServerCode(x, s) \subseteq 1 .. Len(w) + 2 /\ ServerCode(w, s) \subseteq 1 .. Len(w)
           /\ Len(w) + 2 \in ServerCode(x, s) \/ Lexed(x, s)[Len(w) + 2].in \notin {"code", "line"}
<1> DEFINE m == Len(w)
<1>1. m \in Nat /\ m # 0 /\ DOMAIN w = 1 .. m
  BY TextIs
<1>2. /\ x \in Seq(Symbols) /\ Len(x) = m + 2 /\ x[m + 1] = "nl" /\ x[m + 2] = "limit"
      /\ \A p \in 1 .. m : x[p] = w[p]
  <2>1. w \in Seq(Symbols)
    BY DEF IsText
  <2>2. <<"nl", "limit">> \in Seq(Symbols)
    BY DEF Symbols, Space, Words
  <2> QED
    BY <2>1, <2>2
<1>3. IsText(x)
  BY <1>2 DEF IsText
<1>4. DOMAIN x = 1 .. m + 2
  BY <1>2, <1>3, TextIs
<1> HIDE DEF m
<1>5. IsPiece(w, x, 0)
  <2>1. 0 \in Nat /\ 0 + m <= m + 2 /\ 0 + m + 1 = m + 1 /\ m + 1 \in 1 .. m + 2 /\ \A p \in 1 .. m : 0 + p = p
    BY <1>1
  <2>2. At(x, 0) \notin Words
    <3>1. 0 \in Int /\ 0 \notin 1 .. m + 2
      BY <1>1
    <3>2. At(x, 0) = "end"
      BY <1>2, <1>3, <3>1, TextIs
    <3> QED
      BY <3>2 DEF Words
  <2>3. At(x, m + 1) \in Gap
    BY <1>2, <1>3, <2>1, TextIs DEF Gap, Space
  <2> QED
    BY <1>2, <2>1, <2>2, <2>3 DEF IsPiece, m
<1>6. Lexed(x, s)[0 + 1] = Code
  <2>1. 0 + 1 = 1
    OBVIOUS
  <2>2. Len(x) \in Nat
    BY <1>1, <1>2
  <2> QED
    BY <2>1, <2>2, LexedIs
<1>7. ASSUME NEW p \in 1 .. m, w[p] # "-" PROVE p \in ServerCode(x, s) <=> p \in ServerCode(w, s)
  <2>1. 0 + p = p /\ p \in 1 .. m + 2
    BY <1>1
  <2>2. Lexed(w, s)[p] = Lexed(x, s)[0 + p]
    <3>1. p \in 1 .. Len(w)
      BY DEF m
    <3> DEFINE o == 0
    <3>2. IsPiece(w, x, o) /\ Lexed(x, s)[o + 1] = Code
      BY <1>5, <1>6
    <3> HIDE DEF o
    <3>3. \A k \in 1 .. Len(w) : Lexed(w, s)[k] = Lexed(x, s)[o + k] \/ (k = Len(w) /\ w[k] = "-")
      BY <1>3, <3>2, PieceIsRead
    <3>4. \A k \in 1 .. Len(w) : Lexed(w, s)[k] = Lexed(x, s)[0 + k] \/ (k = Len(w) /\ w[k] = "-")
      BY <3>3 DEF o
    <3> QED
      BY <1>7, <3>1, <3>4
  <2> QED
    BY <1>1, <1>4, <2>1, <2>2 DEF ServerCode
<1>8. ServerCode(x, s) \subseteq 1 .. m + 2 /\ ServerCode(w, s) \subseteq 1 .. m
  BY <1>1, <1>4 DEF ServerCode
<1>9. m + 2 \in ServerCode(x, s) \/ Lexed(x, s)[m + 2].in \notin {"code", "line"}
  <2>1. m + 1 \in 1 .. Len(x) /\ (m + 1) + 1 = m + 2 /\ m + 2 \in 1 .. m + 2
    BY <1>1, <1>2
  <2>2. Lexed(x, s)[m + 2] = Code \/ Lexed(x, s)[m + 2].in \notin {"code", "line"}
    <3>1. Lexed(x, s)[(m + 1) + 1] = Code \/ Lexed(x, s)[(m + 1) + 1].in \notin {"code", "line"}
      BY <1>2, <1>3, <2>1, NextLine
    <3> QED
      BY <2>1, <3>1
  <2>3. Code.in = "code" /\ Code.skip = 0
    BY DEF Code, In
  <2> QED
    BY <1>4, <2>1, <2>2, <2>3 DEF ServerCode
<1> QED
  BY <1>2, <1>3, <1>7, <1>8, <1>9 DEF m

\* The first of two sets of positions that begin with the same one.
LEMMA FirstSame ==
    ASSUME NEW w, NEW x, IsText(w), IsText(x), NEW A \in SUBSET (1 .. Len(w)), NEW B \in SUBSET (1 .. Len(x)),
           A # {}, A \subseteq B, \A j \in B : j \notin A => \A i \in A : i < j
    PROVE  First(x, 1, B) = First(w, 1, A) /\ First(w, 1, A) \in A
<1> DEFINE f == First(w, 1, A)
           g == First(x, 1, B)
<1>1. Len(w) \in Nat /\ Len(x) \in Nat
  BY TextIs
<1>2. IsFirst(Len(w), 1, A, f) /\ IsFirst(Len(x), 1, B, g)
  BY <1>1, FirstIs
<1>3. \A i \in A : i \in Int /\ i >= 1
  BY <1>1
<1>4. \A i \in B : i \in Int /\ i >= 1
  BY <1>1
<1> HIDE DEF f, g
<1>5. f \in A /\ \A i \in A : i >= f
  <2>1. ~(\A p \in A : p < 1)
    <3>1. PICK p \in A : TRUE
      OBVIOUS
    <3> QED
      BY <1>3, <3>1
  <2> QED
    BY <1>2, <1>3, <2>1 DEF IsFirst
<1>6. g \in B /\ \A i \in B : i >= g
  <2>1. ~(\A p \in B : p < 1)
    <3>1. PICK p \in B : TRUE
      OBVIOUS
    <3> QED
      BY <1>4, <3>1
  <2> QED
    BY <1>2, <1>4, <2>1 DEF IsFirst
<1>7. g \in A
  <2> SUFFICES ASSUME g \notin A PROVE FALSE
    OBVIOUS
  <2>1. f < g
    BY <1>5, <1>6
  <2>2. f >= g
    BY <1>5, <1>6
  <2> QED
    BY <1>3, <1>4, <1>5, <1>6, <2>1, <2>2
<1>8. g = f
  BY <1>3, <1>5, <1>6, <1>7
<1> QED
  BY <1>5, <1>8 DEF f, g

\* One statement that holds no semicolon in the code runs as the server reads it.
LEMMA StatementAgrees ==
    ASSUME NEW w, IsText(w), Len(w) # 0, Readable(w, scanModes), \A p \in ServerCode(w, scanModes) : w[p] # "semi"
    PROVE  AgreesOn(RunOrAsk(w, TopLevelWords(w, scanModes), TRUE))
<1> DEFINE code == ServerCode(w, scanModes)
           words == WordsAt(w, code)
           A == {i \in code : IsWord(w[i])}
           x == w \o <<"nl", "limit">>
           xcode == ServerCode(x, scanModes)
           xwords == WordsAt(x, xcode)
           B == {i \in xcode : IsWord(x[i])}
<1>1. TopLevelWords(w, scanModes) = words
  BY WordsAgree
<1>2. words = [verb |-> At(w, First(w, 1, A)), all |-> {w[i] : i \in A}]
  BY DEF WordsAt
<1>3. xwords = [verb |-> At(x, First(x, 1, B)), all |-> {x[i] : i \in B}]
  BY DEF WordsAt
<1>4. /\ IsText(x) /\ Len(x) = Len(w) + 2 /\ x[Len(w) + 1] = "nl" /\ x[Len(w) + 2] = "limit"
      /\ \A p \in 1 .. Len(w) : x[p] = w[p] /\ (w[p] # "-" => (p \in xcode <=> p \in code))
      /\ xcode \subseteq 1 .. Len(w) + 2 /\ code \subseteq 1 .. Len(w)
      /\ Len(w) + 2 \in xcode \/ Lexed(x, scanModes)[Len(w) + 2].in \notin {"code", "line"}
  BY BoundIsRead
<1>5. Len(w) \in Nat /\ \A p \in 1 .. Len(w) + 2 : p \in 1 .. Len(w) \/ p = Len(w) + 1 \/ p = Len(w) + 2
  BY TextIs
<1> HIDE DEF code, words, xcode, xwords, x
<1>6. A \subseteq B /\ \A j \in B : j \notin A => j = Len(w) + 2
  <2>1. \A i \in A : w[i] # "-" /\ i \in 1 .. Len(w)
    BY <1>4 DEF IsWord, Words
  <2>2. \A i \in A : i \in B
    BY <1>4, <2>1
  <2>3. ASSUME NEW j \in B, j \notin A PROVE j = Len(w) + 2
    <3>1. j \in 1 .. Len(w) + 2 /\ IsWord(x[j]) /\ j \in xcode
      BY <1>4
    <3>2. j # Len(w) + 1 /\ x[j] # "-"
      BY <1>4, <3>1 DEF IsWord, Words
    <3>3. j \in 1 .. Len(w) => j \in A
      BY <1>4, <3>1, <3>2
    <3> QED
      BY <1>5, <2>3, <3>1, <3>2, <3>3
  <2> QED
    BY <2>2, <2>3
<1>7. CASE ~(words.verb \in {"select", "show"} /\ "into" \notin words.all)
  <2>1. RunOrAsk(w, words, TRUE) = [how |-> "run", sql |-> w]
    BY <1>7 DEF RunOrAsk
  <2> DEFINE r == [how |-> "run", sql |-> w]
  <2>2. r.how # "read" /\ r.sql = w
    OBVIOUS
  <2> HIDE DEF r
  <2>3. AgreesOn(r)
    BY <2>2 DEF AgreesOn, ServerAgrees, code
  <2> QED
    BY <1>1, <2>1, <2>3 DEF r
<1>8. CASE /\ words.verb \in {"select", "show"} /\ "into" \notin words.all
           /\ words.verb # "select" \/ words.all \cap {"limit", "update"} # {}
  <2>1. RunOrAsk(w, words, TRUE) = [how |-> "read", sql |-> w]
    BY <1>8 DEF RunOrAsk, BoundRawRead
  <2> DEFINE r == [how |-> "read", sql |-> w]
  <2>2. r.sql = w
    OBVIOUS
  <2> HIDE DEF r
  <2>3. AgreesOn(r)
    BY <1>8, <2>2 DEF AgreesOn, ServerAgrees, code, words
  <2> QED
    BY <1>1, <2>1, <2>3 DEF r
<1>9. CASE words.verb = "select" /\ "into" \notin words.all /\ words.all \cap {"limit", "update"} = {}
  <2>1. RunOrAsk(w, words, TRUE) = [how |-> "read", sql |-> x]
    BY <1>9 DEF RunOrAsk, BoundRawRead, x
  <2> DEFINE r == [how |-> "read", sql |-> x]
  <2>2. r.sql = x
    OBVIOUS
  <2> HIDE DEF r
  <2>3. \A i \in xcode : x[i] # "semi"
    <3> SUFFICES ASSUME NEW i \in xcode, x[i] = "semi" PROVE FALSE
      OBVIOUS
    <3>1. i \in 1 .. Len(w)
      BY <1>4, <1>5
    <3>2. w[i] = "semi" /\ i \in code
      BY <1>4, <3>1
    <3> QED
      BY <3>2 DEF code
  <2>4. A # {}
    <3> SUFFICES ASSUME A = {} PROVE FALSE
      OBVIOUS
    <3>1. First(w, 1, A) = Len(w) + 1
      BY DEF First
    <3>2. Len(w) + 1 \in Int /\ Len(w) + 1 \notin 1 .. Len(w)
      BY <1>5
    <3>3. At(w, Len(w) + 1) = "end"
      BY <3>2, TextIs
    <3> QED
      BY <1>2, <1>9, <3>1, <3>3
  <2>5. First(x, 1, B) = First(w, 1, A) /\ First(w, 1, A) \in A
    <3>1. A \in SUBSET (1 .. Len(w)) /\ B \in SUBSET (1 .. Len(x))
      BY <1>4
    <3>2. ASSUME NEW j \in B, j \notin A, NEW i \in A PROVE i < j
      <4>1. i \in 1 .. Len(w) /\ j = Len(w) + 2
        BY <1>6, <3>1, <3>2
      <4> QED
        BY <1>5, <4>1
    <3> HIDE DEF A, B
    <3> QED
      BY <1>4, <1>6, <2>4, <3>1, <3>2, FirstSame
  <2>6. xwords.verb = "select"
    <3> DEFINE f == First(w, 1, A)
    <3>1. f \in 1 .. Len(w) /\ f \in 1 .. Len(x)
      <4>1. A \subseteq 1 .. Len(w) /\ f \in A
        BY <1>4, <2>5
      <4>2. 1 .. Len(w) \subseteq 1 .. Len(x)
        BY <1>4, <1>5
      <4> HIDE DEF A, f
      <4> QED
        BY <4>1, <4>2
    <3> HIDE DEF f
    <3>2. At(w, f) = w[f] /\ At(x, f) = x[f] /\ x[f] = w[f]
      BY <1>4, <3>1, TextIs
    <3> QED
      BY <1>2, <1>3, <1>9, <2>5, <3>2 DEF f
  <2>7. "into" \notin xwords.all
    <3> SUFFICES ASSUME NEW i \in B, x[i] = "into" PROVE FALSE
      BY <1>3
    <3>1. i # Len(w) + 2
      BY <1>4
    <3>2. i \in A
      BY <1>6, <3>1
    <3>3. w[i] = "into"
      BY <1>4, <3>2
    <3> QED
      BY <1>2, <1>9, <3>2, <3>3
  <2>8. xwords.all \cap {"limit", "update"} # {} \/ Lexed(x, scanModes)[Len(x)].in \notin {"code", "line"}
    <3>1. CASE Len(w) + 2 \in xcode
      <4>1. Len(w) + 2 \in B
        BY <1>4, <3>1 DEF IsWord, Words
      <4>2. "limit" \in xwords.all
        BY <1>3, <1>4, <4>1
      <4> QED
        BY <4>2
    <3>2. CASE Lexed(x, scanModes)[Len(w) + 2].in \notin {"code", "line"}
      BY <1>4, <3>2
    <3> QED
      BY <1>4, <3>1, <3>2
  <2>9. AgreesOn(r)
    BY <2>2, <2>3, <2>6, <2>7, <2>8 DEF AgreesOn, ServerAgrees, xcode, xwords
  <2> QED
    BY <1>1, <2>1, <2>9 DEF r
<1> QED
  BY <1>7, <1>8, <1>9

\* What is typed is a text that the server reads as its symbols say.
RawTextInv == IsText(typed) /\ Readable(typed, scanModes)

\* Of such a text, executeRaw hands one statement to the driver as the server reads it.
LEMMA ExecuteAgrees == RawTextInv => RawRunsOneStatement
<1> SUFFICES ASSUME RawTextInv PROVE RawRunsOneStatement
  OBVIOUS
<1> DEFINE cuts == Cuts(typed, scanModes)
           statements == SplitStatements(typed, cuts)
           c == CHOOSE x \in statements : TRUE
           w == Trim(Segment(typed, cuts, c))
<1>1. CASE Cardinality(statements) # 1
  <2>1. ExecuteRaw(typed, scanModes, TRUE) = Refused
    BY <1>1 DEF ExecuteRaw
  <2>2. Refused.how = "refused" /\ Refused.sql = <<>>
    BY DEF Refused
  <2>3. ServerCode(<<>>, scanModes) = {}
    BY DEF ServerCode
  <2>4. AgreesOn(Refused)
    BY <2>2, <2>3 DEF AgreesOn, ServerAgrees
  <2> QED
    BY <2>1, <2>4 DEF RawRunsOneStatement
<1>2. CASE Cardinality(statements) = 1
  <2>1. ExecuteRaw(typed, scanModes, TRUE) = RunOrAsk(w, TopLevelWords(w, scanModes), TRUE)
    BY <1>2 DEF ExecuteRaw
  <2>2. c \in statements
    <3>1. statements # {}
      <4> HIDE DEF statements
      <4> QED
        BY <1>2, FS_EmptySet
    <3> QED
      BY <3>1
  <2>3. /\ IsText(w) /\ Len(w) # 0 /\ Readable(w, scanModes)
        /\ \A p \in ServerCode(w, scanModes) : w[p] # "semi"
    <3> HIDE DEF c
    <3> QED
      BY <2>2, StatementIs DEF RawTextInv
  <2> HIDE DEF w
  <2>4. AgreesOn(RunOrAsk(w, TopLevelWords(w, scanModes), TRUE))
    BY <2>3, StatementAgrees
  <2> QED
    BY <2>1, <2>4 DEF RawRunsOneStatement
<1> QED
  BY <1>1, <1>2

\* The text typed first is one.
LEMMA RawTextInit == ScanInit => RawTextInv
<1> SUFFICES ASSUME ScanInit PROVE RawTextInv
  OBVIOUS
<1>1. CASE typed = <<>>
  <2>1. IsText(typed) /\ ServerCode(typed, scanModes) = {}
    BY <1>1 DEF IsText, ServerCode
  <2> QED
    BY <2>1 DEF RawTextInv, Readable
<1>2. CASE \E c \in {"select", "show"} : typed = <<c>>
  <2>1. IsText(typed) /\ Len(typed) = 1 /\ typed[1] \in {"select", "show"}
    BY <1>2 DEF IsText, Symbols, Words
  <2>2. At(typed, 1 - 1) = "end"
    <3>1. 1 - 1 \in Int /\ 1 - 1 \notin 1 .. 1
      OBVIOUS
    <3> QED
      BY <2>1, <3>1, TextIs
  <2>3. \A i \in ServerCode(typed, scanModes) : i = 1
    BY <2>1, TextIs DEF ServerCode
  <2>4. Readable(typed, scanModes)
    BY <2>1, <2>2, <2>3 DEF Readable, IsWord, Words
  <2> QED
    BY <2>1, <2>4 DEF RawTextInv
<1> QED
  BY <1>1, <1>2 DEF ScanInit

\* Typing a piece leaves one.
LEMMA RawTextStep == RawTextInv /\ [ScanNext]_scanVars => RawTextInv'
<1> SUFFICES ASSUME RawTextInv, [ScanNext]_scanVars PROVE RawTextInv'
  OBVIOUS
<1>1. ASSUME NEW piece \in Pieces, Type(piece) PROVE RawTextInv'
  <2>1. piece \in Seq(Symbols)
    BY ScanAssumption DEF Symbols
  <2>2. IsText(typed \o piece)
    BY <2>1 DEF RawTextInv, IsText
  <2> QED
    BY <1>1, <2>2 DEF Type, RawTextInv
<1>2. CASE UNCHANGED scanVars
  BY <1>2 DEF RawTextInv, scanVars
<1> QED
  BY <1>1, <1>2 DEF ScanNext

\* Whatever is typed, in whatever SQL mode, executeRaw hands the driver one statement as
\* the server reads it, and what it runs unasked is to the server too a SELECT or a SHOW
\* with no INTO, a SELECT bounded unless a span was left open.
THEOREM RawStatementsAgree == ScanSpec => []RawRunsOneStatement
<1>1. ScanSpec => []RawTextInv
  BY RawTextInit, RawTextStep, PTL DEF ScanSpec
<1> QED
  BY <1>1, ExecuteAgrees, PTL

=============================================================================
