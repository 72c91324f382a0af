------------------------------ MODULE ErdLayout ------------------------------
(***************************************************************************)
(* The ERD tab: which tables it draws, and where (src/src/ui/workspace/    *)
(* ErdTabView.tsx, src/src/ui/erd/erd-graph.ts, src/src/ui/App.tsx,        *)
(* src/src/ui/schema/CreateTablePanel.tsx).  The tables come from the boot *)
(* target's introspection, which answers late, may fail and is read once,  *)
(* and from the create-table panel, whose optimistic entries App keeps     *)
(* beside it.  Every change of the tables lays the diagram out anew, and   *)
(* the positions the view remembers are put over that layout.  Only the    *)
(* active tab is mounted; App keeps the layout the view last reported,     *)
(* and the workspace store keeps it across a reload of the page (that it   *)
(* is really saved is WorkspaceSave's concern, not this module's).         *)
(*                                                                         *)
(* A drag is one step, from pick-up to drop.  The viewport, the hover and  *)
(* the columns drawn are left out.                                         *)
(***************************************************************************)
EXTENDS Naturals, Functions, FiniteSets

CONSTANTS ErdTables,  \* table names
          ErdFirst,   \* the tables the database starts with
          References, \* the foreign-key targets of each of those
          Spots       \* the places a table may be dragged to

ASSUME ErdAssumption ==
    /\ ErdFirst \subseteq ErdTables
    /\ DOMAIN References = ErdFirst

VARIABLES
    erdDb,         \* the tables the database has
    bootLoad,      \* the boot root's introspection: its state and what it read
    schemaTables,  \* App's introspected tables
    createdTables, \* App's optimistic tables
    createPanel,         \* the create-table panel: its frozen schema, and whether it waits
    creating,      \* create requests: on their way to the core, or answered
    erdTab,        \* what the active tab is: the ERD, the panel, or another
    erdNodes,      \* the diagram: the place of each table drawn
    erdPositions,  \* positionsRef
    erdSaved,      \* App's (and the store's) layout of the tab
    erdSeen        \* history: where the reader has reason to expect each table

erdVars == <<erdDb, bootLoad, schemaTables, createdTables, createPanel, creating, erdTab,
             erdNodes, erdPositions, erdSaved, erdSeen>>

Empty == [n \in {} |-> n]

\* tableId: a table created before any schema was known has a blank schema, and
\* is another table to App than the one introspection finds.
TableId(n)   == [table |-> n, blank |-> FALSE]
PhantomId(n) == [table |-> n, blank |-> TRUE]

\* Positions: dragged to a spot, or laid out among a set of nodes.
Dropped(p)  == [spot |-> p, among |-> {}]
Dagre(ids)  == [spot |-> 0, among |-> ids]

ErdInit ==
    /\ erdDb = ErdFirst /\ bootLoad = [state |-> "reading", tables |-> {}]
    /\ schemaTables = {} /\ createdTables = {}
    /\ createPanel = [blank |-> FALSE, busy |-> FALSE] /\ creating = {}
    /\ erdTab = "erd"
    /\ erdNodes = Empty /\ erdPositions = Empty /\ erdSaved = Empty /\ erdSeen = Empty

-----------------------------------------------------------------------------

\* schemaToGraph: every known table once, and the external targets of the
\* foreign keys of the introspected ones.
GraphIds(introspected, created) ==
    {TableId(n) : n \in introspected} \cup created
      \cup {TableId(m) : m \in UNION {References[n] : n \in introspected \cap ErdFirst}}

\* applyLayout: a remembered position goes over the automatic one.
ApplyLayout(ids, positions) ==
    [id \in ids |-> IF id \in DOMAIN positions THEN positions[id] ELSE Dagre(ids)]

\* Mutant of ReconcilePositions: an empty diagram is remembered like any other.
ReconcileAlways(previous, nodes) == nodes

\* reconcilePositions: an empty diagram forgets nothing.
ReconcilePositions(previous, nodes) == IF DOMAIN nodes = {} THEN previous ELSE nodes

\* The graph is derived from the tables and the remembered positions, which
\* then become what is on the screen.
Derive(introspected, created, positions, expected) ==
    LET nodes == ApplyLayout(GraphIds(introspected, created), positions)
    IN  /\ erdNodes' = nodes
        /\ erdPositions' = ReconcilePositions(positions, nodes)
        /\ erdSeen' = IF DOMAIN nodes = {} THEN expected
                      ELSE [id \in DOMAIN nodes |->
                              IF id \in DOMAIN expected THEN expected[id] ELSE nodes[id]]

\* App's tables change; a mounted diagram follows.
SetTables(introspected, created) ==
    /\ schemaTables' = introspected /\ createdTables' = created
    /\ IF erdTab = "erd"
       THEN Derive(introspected, created, erdPositions, erdSeen)
       ELSE UNCHANGED <<erdNodes, erdPositions, erdSeen>>

\* report: the diagram as it is drawn is remembered and handed to App.
Report(nodes) ==
    /\ erdPositions' = nodes
    /\ erdSaved' = nodes

-----------------------------------------------------------------------------
(* The tables.                                                             *)

CoreIntrospects ==
    /\ bootLoad.state = "reading"
    /\ bootLoad' = [state |-> "replying", tables |-> erdDb]
    /\ UNCHANGED <<erdDb, schemaTables, createdTables, createPanel, creating, erdTab, erdNodes,
                   erdPositions, erdSaved, erdSeen>>

IntrospectionFails ==
    /\ bootLoad.state = "reading"
    /\ bootLoad' = [bootLoad EXCEPT !.state = "failed"]
    /\ UNCHANGED <<erdDb, schemaTables, createdTables, createPanel, creating, erdTab, erdNodes,
                   erdPositions, erdSaved, erdSeen>>

RetryIntrospection ==
    /\ bootLoad.state = "failed"
    /\ bootLoad' = [bootLoad EXCEPT !.state = "reading"]
    /\ UNCHANGED <<erdDb, schemaTables, createdTables, createPanel, creating, erdTab, erdNodes,
                   erdPositions, erdSaved, erdSeen>>

\* onSchemaLoaded: an optimistic entry that was introspected is retired.
OnSchemaLoaded ==
    /\ bootLoad.state = "replying"
    /\ bootLoad' = [bootLoad EXCEPT !.state = "ready"]
    /\ SetTables(bootLoad.tables, createdTables \ {TableId(n) : n \in bootLoad.tables})
    /\ UNCHANGED <<erdDb, createPanel, creating, erdTab, erdSaved>>

\* onSubmit; the schema was fixed when the panel was mounted.
SubmitTable(n) ==
    /\ erdTab = "panel" /\ ~createPanel.busy
    /\ \A r \in creating : r.table # n
    /\ createPanel' = [createPanel EXCEPT !.busy = TRUE]
    /\ creating' = creating \cup {[table |-> n, blank |-> createPanel.blank, state |-> "sent",
                                  page |-> TRUE, own |-> TRUE]}
    /\ UNCHANGED <<erdDb, bootLoad, schemaTables, createdTables, erdTab, erdNodes, erdPositions,
                   erdSaved, erdSeen>>

\* executeCreateTable: a table that exists is refused.
CoreCreatesTable(r) ==
    /\ r.state = "sent"
    /\ erdDb' = erdDb \cup {r.table}
    /\ creating' = (creating \ {r}) \cup
         (IF r.page THEN {[r EXCEPT !.state = IF r.table \in erdDb THEN "refused" ELSE "ok"]} ELSE {})
    /\ UNCHANGED <<bootLoad, schemaTables, createdTables, createPanel, erdTab, erdNodes, erdPositions,
                   erdSaved, erdSeen>>

\* onTableCreated and the panel's own close: App hears of the table, and the tab
\* closes, even when the panel was left meanwhile.
TableCreated(r) ==
    /\ r.state = "ok"
    /\ creating' = creating \ {r}
    /\ SetTables(schemaTables, createdTables \cup
                   {IF r.blank THEN PhantomId(r.table) ELSE TableId(r.table)})
    /\ createPanel' = [createPanel EXCEPT !.busy = FALSE]
    /\ erdTab' = IF erdTab = "panel" THEN "other" ELSE erdTab
    /\ UNCHANGED <<erdDb, bootLoad, erdSaved>>

\* The panel stays open with its draft.
CreateRefused(r) ==
    /\ r.state = "refused"
    /\ creating' = creating \ {r}
    /\ createPanel' = [createPanel EXCEPT !.busy = @ /\ ~r.own]
    /\ UNCHANGED <<erdDb, bootLoad, schemaTables, createdTables, erdTab, erdNodes, erdPositions,
                   erdSaved, erdSeen>>

-----------------------------------------------------------------------------
(* The tabs.                                                               *)

\* The diagram is unmounted, and what it did not report is forgotten.
Unmount ==
    /\ erdNodes' = Empty /\ erdPositions' = Empty
    /\ erdSeen' = erdSaved

\* What a panel that is left had sent is answered to a view no longer mounted.
Disowned == {[r EXCEPT !.own = FALSE] : r \in creating}

\* Another tab, or the panel, which takes the first schema known; the panel's
\* tab is left, never closed, by hand.
LeaveErd(tab) ==
    /\ erdTab # tab
    /\ erdTab' = tab
    /\ createPanel' = IF tab = "panel"
                THEN [busy |-> FALSE,
                      blank |-> schemaTables = {} /\ \A id \in createdTables : id.blank]
                ELSE createPanel
    /\ creating' = Disowned
    /\ Unmount
    /\ UNCHANGED <<erdDb, bootLoad, schemaTables, createdTables, erdSaved>>

\* Mutant of OpenErd: the saved layout is not read.
OpenErdAnew ==
    /\ erdTab # "erd"
    /\ erdTab' = "erd"
    /\ Derive(schemaTables, createdTables, Empty, erdSaved)
    /\ creating' = Disowned
    /\ UNCHANGED <<erdDb, bootLoad, schemaTables, createdTables, createPanel, erdSaved>>

\* The view is mounted and reads the saved layout, once.
OpenErd ==
    /\ erdTab # "erd"
    /\ erdTab' = "erd"
    /\ Derive(schemaTables, createdTables, erdSaved, erdSaved)
    /\ creating' = Disowned
    /\ UNCHANGED <<erdDb, bootLoad, schemaTables, createdTables, createPanel, erdSaved>>

\* handleNodeDragStop.
Drag(id, p) ==
    /\ erdTab = "erd" /\ id \in DOMAIN erdNodes /\ erdNodes[id] # Dropped(p)
    /\ erdNodes' = [erdNodes EXCEPT ![id] = Dropped(p)]
    /\ Report(erdNodes')
    /\ erdSeen' = [erdSeen EXCEPT ![id] = Dropped(p)]
    /\ UNCHANGED <<erdDb, bootLoad, schemaTables, createdTables, createPanel, creating, erdTab>>

\* handleMoveEnd, of the reader's own gesture or a toolbar command: a fit the
\* view makes by itself reports nothing.
PanErd ==
    /\ erdTab = "erd" /\ DOMAIN erdNodes # {} /\ erdSaved # erdNodes
    /\ Report(erdNodes)
    /\ UNCHANGED <<erdDb, bootLoad, schemaTables, createdTables, createPanel, creating, erdTab, erdNodes,
                   erdSeen>>

\* The page is loaded again with the ERD, or another tab, active; requests on
\* their way to the core still reach it.
ReloadErd(tab) ==
    /\ bootLoad' = [state |-> "reading", tables |-> {}]
    /\ schemaTables' = {} /\ createdTables' = {}
    /\ createPanel' = [blank |-> FALSE, busy |-> FALSE]
    /\ creating' = {[r EXCEPT !.page = FALSE] : r \in {r \in creating : r.state = "sent"}}
    /\ erdTab' = tab
    /\ IF tab = "erd" THEN Derive({}, {}, erdSaved, erdSaved) ELSE Unmount
    /\ UNCHANGED <<erdDb, erdSaved>>

ErdNext ==
    \/ CoreIntrospects \/ IntrospectionFails \/ RetryIntrospection \/ OnSchemaLoaded
    \/ \E n \in ErdTables : SubmitTable(n)
    \/ \E r \in creating : CoreCreatesTable(r) \/ TableCreated(r) \/ CreateRefused(r)
    \/ \E tab \in {"panel", "other"} : LeaveErd(tab)
    \/ OpenErd \/ PanErd
    \/ \E id \in DOMAIN erdNodes, p \in Spots : Drag(id, p)
    \/ \E tab \in {"erd", "other"} : ReloadErd(tab)

ErdSpec == ErdInit /\ [][ErdNext]_erdVars

-----------------------------------------------------------------------------

\* A table drawn is where the reader last saw it: where it was dragged or first
\* laid out in this mount, or, after the tab was left or the page reloaded, where
\* it was when the diagram was last dragged or panned.  No table created or
\* introspected, in whatever order, moves another.  A table missing from a
\* diagram that shows others is forgotten: so it is, too, when a table created
\* before the introspection answered was drawn alone.
TablesStayPut == \A id \in DOMAIN erdNodes : erdNodes[id] = erdSeen[id]

=============================================================================
