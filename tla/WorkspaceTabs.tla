----------------------------- MODULE WorkspaceTabs -----------------------------
(***************************************************************************)
(* The tabs of the Workspace (src/src/ui/workspace/workspace-state.ts),    *)
(* what App.tsx keeps for each of them, their way through a snapshot and   *)
(* back, and the list of live connections by which Workspace.tsx tells     *)
(* that the connection of a tab is gone.                                   *)
(*                                                                         *)
(* A tab's content lives outside the tab, under its id: drafts, chats and  *)
(* reports for the session, ERD layouts on disk too.  Replies may come     *)
(* after the tab was closed, and a new report is stored under the id its   *)
(* tab is about to get.  Titles and panel sizes are left out.  Saving is   *)
(* module WorkspaceSave: here a page that is loaded again has saved.       *)
(***************************************************************************)
EXTENDS Naturals, FiniteSets, SequencesExt

CONSTANTS Conns,       \* connections a tab may be bound to
          FirstConns,  \* those saved at first
          MaxId,       \* bound: tab ids given out
          MaxRevisions \* bound: changes of the registry

ASSUME TabsAssumption ==
    /\ FirstConns \subseteq Conns
    /\ {"", "boot", "not known"} \cap Conns = {}
    /\ MaxId \in Nat /\ MaxRevisions \in Nat

VARIABLES
    ws,        \* WorkspaceState: tabs, activeTabId, nextId
    sessions,  \* queryDrafts, chatStates, reportStates: by tab id, where the content came from
    layouts,   \* erdLayouts: by tab id, how much of the layout is usable
    lateIds,   \* report tabs with a run in flight
    savedConns,  \* the saved connections, in the Core
    registryRevision,  \* registryRevision
    retried,   \* retriedRevision
    told,      \* whether the page was told of the registry's last change
    connRead,  \* the read of the connections: idle, sent, listed or to be retried
    readOk,    \* history: the last read was answered
    liveConns  \* the connections the page knows; NotKnown before the first answer

tabsVars == <<ws, sessions, layouts, lateIds, savedConns, registryRevision, retried, told, connRead,
              readOk, liveConns>>
contents == <<sessions, layouts, lateIds>>
connVars == <<savedConns, registryRevision, retried, told, connRead, readOk, liveConns>>

\* A query tab's draft is kept as a chat's messages are, and is left out.
Kinds    == {"table", "erd", "chat", "report", "settings", "create-table"}
NoTab    == 0
NotKnown == {"not known"}
Sent     == [at |-> "sent", list |-> {}]
NoFn     == [i \in {} |-> "blank"]

\* An ERD layout: as the page writes it, with a part that is no number, or not a
\* layout at all (the last two by an editor's hand).
Shapes == {"whole", "in part", "none"}

\* The k-th of a set of indices, and what filter leaves of a list: the elements at
\* the indices I, in their order.
Rank(I, i)        == Cardinality({j \in I : j <= i})
Nth(I, k)         == CHOOSE i \in I : Rank(I, i) = k
Subsequence(s, I) == [k \in 1 .. Cardinality(I) |-> s[Nth(I, k)]]

TabIds(tabs) == {tabs[i].id : i \in DOMAIN tabs}
TabOf(w, id) == w.tabs[CHOOSE i \in DOMAIN w.tabs : w.tabs[i].id = id]
ActiveKind   == IF ws.activeTabId = NoTab THEN "none" ELSE TabOf(ws, ws.activeTabId).kind

\* Tab: from is where its content comes from (history).
Tab(id, kind, conn, bound, from) ==
    [id |-> id, kind |-> kind, connectionId |-> conn, table |-> bound, from |-> from]

EmptyWorkspace == [tabs |-> <<>>, activeTabId |-> NoTab, nextId |-> 1]

-----------------------------------------------------------------------------
(* workspace-state.ts.                                                     *)

Activate(w, id) == IF id \in TabIds(w.tabs) THEN [w EXCEPT !.activeTabId = id] ELSE w

Added(w, kind, conn, bound, from) ==
    [tabs |-> Append(w.tabs, Tab(w.nextId, kind, conn, bound, from)),
     activeTabId |-> w.nextId, nextId |-> w.nextId + 1]

\* Settings and Create table are there at most once: opening focuses.
OpenOrFocus(w, kind) ==
    LET there == {i \in DOMAIN w.tabs : w.tabs[i].kind = kind}
    IN  IF there # {} THEN Activate(w, w.tabs[Nth(there, 1)].id) ELSE Added(w, kind, "boot", FALSE, "blank")

OpenTab(w, kind, from) ==
    IF kind \in {"settings", "create-table"} THEN OpenOrFocus(w, kind)
    ELSE Added(w, kind, "boot", FALSE, from)

\* The tab that takes the closed one's place in the strip becomes active, or the
\* last one.
CloseTab(w, id) ==
    IF id \notin TabIds(w.tabs) THEN w
    ELSE LET i    == CHOOSE j \in DOMAIN w.tabs : w.tabs[j].id = id
             rest == RemoveAt(w.tabs, i)
         IN  [w EXCEPT !.tabs = rest,
                       !.activeTabId = IF @ # id THEN @
                                       ELSE IF rest = <<>> THEN NoTab
                                       ELSE IF i <= Len(rest) THEN rest[i].id ELSE Last(rest).id]

\* A table goes into the active tab if that is a table tab, else into a new one.
BindTableToActiveTab(w, conn) ==
    IF \E i \in DOMAIN w.tabs : w.tabs[i].id = w.activeTabId /\ w.tabs[i].kind = "table"
    THEN [w EXCEPT !.tabs = [i \in DOMAIN @ |->
            IF @[i].id = w.activeTabId THEN [@[i] EXCEPT !.table = TRUE, !.connectionId = conn] ELSE @[i]]]
    ELSE Added(w, "table", conn, TRUE, "blank")

\* Pointing a tab at another connection unbinds its table.
SetTabConnection(w, id, conn) ==
    [w EXCEPT !.tabs = [i \in DOMAIN @ |->
        IF @[i].id = id THEN [@[i] EXCEPT !.table = FALSE, !.connectionId = conn] ELSE @[i]]]

\* The tabs that are written.
Written(tabs) == Subsequence(tabs, {i \in DOMAIN tabs : tabs[i].kind # "create-table"})

PruneErdLayouts(lay, tabs) == Restrict(lay, DOMAIN lay \cap TabIds(tabs))

\* Mutant of ToWorkspaceSnapshot: the active tab is written whatever it is.
ToWorkspaceSnapshotRaw(w, lay) ==
    LET kept == Written(w.tabs)
    IN  [tabs |-> [i \in DOMAIN kept |->
                     [id |-> kept[i].id, kind |-> kept[i].kind, connectionId |-> kept[i].connectionId]],
         activeTabId |-> w.activeTabId, nextId |-> w.nextId, erdLayouts |-> PruneErdLayouts(lay, w.tabs)]

\* A Create table tab is not written, nor is the table a tab was bound to.
ToWorkspaceSnapshot(w, lay) ==
    LET kept == Written(w.tabs)
    IN  [tabs |-> [i \in DOMAIN kept |->
                     [id |-> kept[i].id, kind |-> kept[i].kind, connectionId |-> kept[i].connectionId]],
         activeTabId |-> IF w.activeTabId \in TabIds(kept) THEN w.activeTabId
                         ELSE IF kept = <<>> THEN NoTab ELSE kept[1].id,
         nextId |-> w.nextId, erdLayouts |-> PruneErdLayouts(lay, w.tabs)]

\* A connection id that is blank stands for the boot connection.
NormalizeConnectionId(c) == IF c = "" THEN "boot" ELSE c

\* restoreWorkspace: of the tabs with one id the first is kept, of the Settings
\* tabs that are left the first.
FirstOfId(tabs, i) == \A j \in 1 .. i - 1 : tabs[j].id # tabs[i].id

Restorable(tabs) ==
    {i \in DOMAIN tabs :
       /\ FirstOfId(tabs, i)
       /\ tabs[i].kind = "settings" =>
            ~\E j \in 1 .. i - 1 : FirstOfId(tabs, j) /\ tabs[j].kind = "settings"}

RestoreWorkspace(s) ==
    LET kept == Subsequence(s.tabs, Restorable(s.tabs))
        tabs == [i \in DOMAIN kept |->
                   Tab(kept[i].id, kept[i].kind, NormalizeConnectionId(kept[i].connectionId),
                       FALSE, "blank")]
    IN  [tabs |-> tabs,
         activeTabId |-> IF s.activeTabId \in TabIds(tabs) THEN s.activeTabId
                         ELSE IF tabs = <<>> THEN NoTab ELSE tabs[1].id,
         nextId |-> Max({s.nextId} \cup {id + 1 : id \in TabIds(tabs)})]

\* sanitizeErdLayout: what is usable of a layout.
SanitizeErdLayout(shape) == IF shape = "none" THEN {} ELSE {"whole"}

\* Mutant of RestoreErdLayouts: layouts are taken as they are in the file.
RestoreErdLayoutsRaw(s, w) == PruneErdLayouts(s.erdLayouts, w.tabs)

\* restoreErdLayouts: of the tabs that are there, what is usable.
RestoreErdLayouts(s, w) ==
    LET pruned == PruneErdLayouts(s.erdLayouts, w.tabs)
        usable == {id \in DOMAIN pruned : SanitizeErdLayout(pruned[id]) # {}}
    IN  [id \in usable |-> CHOOSE shape \in SanitizeErdLayout(pruned[id]) : TRUE]

\* Nothing is on disk; a first run opens Settings.
TabsInit ==
    /\ ws \in {EmptyWorkspace, OpenOrFocus(EmptyWorkspace, "settings")}
    /\ sessions = NoFn /\ layouts = NoFn /\ lateIds = {}
    /\ savedConns = FirstConns /\ registryRevision = 0 /\ retried = 0 /\ told = "yes"
    /\ connRead = Sent /\ readOk = FALSE /\ liveConns = NotKnown

-----------------------------------------------------------------------------
(* core/workspace-registry.ts: what workspace.save accepts.                *)

CheckTabs(tabs) ==
    \A i \in DOMAIN tabs :
      /\ tabs[i].kind \in Kinds \ {"create-table"}
      /\ tabs[i].connectionId # ""
      /\ \A j \in DOMAIN tabs : tabs[j].id = tabs[i].id => j = i

CheckErdLayouts(lay) == \A id \in DOMAIN lay : lay[id] = "whole"

ValidateSnapshotParams(s) ==
    /\ CheckTabs(s.tabs)
    /\ IF s.tabs = <<>> THEN s.activeTabId = NoTab ELSE s.activeTabId \in TabIds(s.tabs)
    /\ \A id \in TabIds(s.tabs) : id < s.nextId
    /\ CheckErdLayouts(s.erdLayouts)

-----------------------------------------------------------------------------
(* App.tsx.                                                                *)

Open(kind) ==
    /\ ws.nextId <= MaxId
    /\ ws' = OpenTab(ws, kind, "blank")
    /\ UNCHANGED <<contents, connVars>>

\* Mutant of OpenReport: the id is read once the tab is there.
OpenReportAfter ==
    /\ ActiveKind = "chat" /\ ws.nextId <= MaxId
    /\ ws' = OpenTab(ws, "report", "spec")
    /\ sessions' = [i \in DOMAIN sessions \cup {ws.nextId + 1} |->
                      IF i = ws.nextId + 1 THEN "spec" ELSE sessions[i]]
    /\ UNCHANGED <<layouts, lateIds, connVars>>

\* onOpenReport: the content goes under the id the tab is about to get.
OpenReport ==
    /\ ActiveKind = "chat" /\ ws.nextId <= MaxId
    /\ ws' = OpenTab(ws, "report", "spec")
    /\ sessions' = [i \in DOMAIN sessions \cup {ws.nextId} |->
                      IF i = ws.nextId THEN "spec" ELSE sessions[i]]
    /\ UNCHANGED <<layouts, lateIds, connVars>>

ActivateTab(id) ==
    /\ ws' = Activate(ws, id)
    /\ UNCHANGED <<contents, connVars>>

\* onClose: everything the tab had goes with it.
Close(id) ==
    /\ ws' = CloseTab(ws, id)
    /\ sessions' = Restrict(sessions, DOMAIN sessions \ {id})
    /\ layouts' = Restrict(layouts, DOMAIN layouts \ {id})
    /\ UNCHANGED <<lateIds, connVars>>

ActivateTable(conn) ==
    /\ ws.nextId <= MaxId
    /\ ws' = BindTableToActiveTab(ws, conn)
    /\ UNCHANGED <<contents, connVars>>

\* The body of a tab whose connection is gone offers the live ones.
Missing(t) == liveConns # NotKnown /\ t.connectionId # "boot" /\ t.connectionId \notin liveConns

Reassign(conn) ==
    /\ ActiveKind = "table" /\ Missing(TabOf(ws, ws.activeTabId))
    /\ ws' = SetTabConnection(ws, ws.activeTabId, conn)
    /\ UNCHANGED <<contents, connVars>>

\* The view of a tab keeps what is in it under the tab's id: what is there, or a
\* blank one, changed.
Kept(id) == [i \in DOMAIN sessions \cup {id} |-> IF i \in DOMAIN sessions THEN sessions[i] ELSE "blank"]

Write ==
    /\ ActiveKind \in {"chat", "report"}
    /\ sessions' = Kept(ws.activeTabId)
    /\ \/ UNCHANGED lateIds
       \/ ActiveKind = "report" /\ lateIds' = lateIds \cup {ws.activeTabId}
    /\ UNCHANGED <<ws, layouts, connVars>>

\* onReportStateChange from a view that is gone, its tab perhaps closed.
LateReply(id) ==
    /\ lateIds' = lateIds \ {id}
    /\ sessions' = Kept(id)
    /\ UNCHANGED <<ws, layouts, connVars>>

WriteLayout ==
    /\ ActiveKind = "erd"
    /\ layouts' = [i \in DOMAIN layouts \cup {ws.activeTabId} |-> "whole"]
    /\ UNCHANGED <<ws, sessions, lateIds, connVars>>

\* A file edited by hand, which the Core loads: an id given twice, two Settings
\* tabs, a blank connection, a layout that is none.
EditedFile(k, j, shape) ==
    [tabs |-> <<[id |-> 2, kind |-> k, connectionId |-> ""],
                [id |-> j, kind |-> "settings", connectionId |-> "boot"]>>,
     activeTabId |-> 1, nextId |-> 1, erdLayouts |-> (1 :> "whole" @@ 2 :> shape)]

EditedFiles ==
    {EditedFile(k, j, shape) : k \in {"settings", "erd"}, j \in 1 .. 2, shape \in Shapes}

\* The page is loaded again, on what it has saved or on a file edited by hand.
Reload ==
    /\ \E s \in {ToWorkspaceSnapshot(ws, layouts)} \cup EditedFiles :
         /\ ws' = RestoreWorkspace(s)
         /\ layouts' = RestoreErdLayouts(s, ws')
    /\ sessions' = NoFn /\ lateIds' = {}
    /\ registryRevision' = 0 /\ retried' = 0 /\ told' = "yes"
    /\ connRead' = Sent /\ readOk' = FALSE /\ liveConns' = NotKnown
    /\ UNCHANGED savedConns

-----------------------------------------------------------------------------
(* Workspace.tsx: the live connections.                                    *)

\* The Settings tab adds or removes a connection.
SettingsMutates(c) ==
    /\ ActiveKind = "settings" /\ registryRevision < MaxRevisions /\ told = "yes"
    /\ savedConns' = (savedConns \ {c}) \cup ({c} \ savedConns)
    /\ told' = "not yet"
    /\ UNCHANGED <<ws, contents, registryRevision, retried, connRead, readOk, liveConns>>

\* Mutant of RegistryChanged: the list is not read anew.
RegistryChangedOnly ==
    /\ told = "not yet" /\ told' = "yes" /\ registryRevision' = registryRevision + 1
    /\ UNCHANGED <<ws, contents, savedConns, retried, connRead, readOk, liveConns>>

\* onRegistryChanged, on the reply; the reply to a read sent before is ignored.
RegistryChanged ==
    /\ told = "not yet" /\ told' = "yes"
    /\ registryRevision' = registryRevision + 1
    /\ connRead' = Sent
    /\ UNCHANGED <<ws, contents, savedConns, retried, readOk, liveConns>>

\* The reply is lost, or its tab closed: the page is not told.
ReplyIsLost ==
    /\ told = "not yet" /\ told' = "no"
    /\ UNCHANGED <<ws, contents, savedConns, registryRevision, retried, connRead, readOk, liveConns>>

CoreListsConnections ==
    /\ connRead = Sent
    /\ connRead' = [at |-> "listed", list |-> savedConns]
    /\ UNCHANGED <<ws, contents, savedConns, registryRevision, retried, told, readOk, liveConns>>

\* The replies to connections.list and connection.active are both in: the list is
\* kept if it came, and if either failed both are asked once more for this
\* revision, after two seconds.
ConnectionsRead(listed, active) ==
    /\ connRead.at \in {"sent", "listed"} /\ (listed => connRead.at = "listed")
    /\ readOk' = listed
    /\ liveConns' = IF listed THEN connRead.list ELSE liveConns
    /\ connRead' = [Sent EXCEPT !.at = IF ~(listed /\ active) /\ retried # registryRevision + 1
                                        THEN "retry" ELSE "idle"]
    /\ UNCHANGED <<ws, contents, savedConns, registryRevision, retried, told>>

RetryRead ==
    /\ connRead.at = "retry"
    /\ retried' = registryRevision + 1
    /\ connRead' = Sent
    /\ UNCHANGED <<ws, contents, savedConns, registryRevision, told, readOk, liveConns>>

-----------------------------------------------------------------------------

TabsNext ==
    \/ \E k \in Kinds : Open(k)
    \/ OpenReport \/ Write \/ WriteLayout \/ Reload \/ RetryRead
    \/ \E id \in TabIds(ws.tabs) : ActivateTab(id) \/ Close(id)
    \/ \E c \in savedConns \cup {"boot"} : ActivateTable(c) \/ Reassign(c)
    \/ \E id \in lateIds : LateReply(id)
    \/ \E c \in Conns : SettingsMutates(c)
    \/ RegistryChanged \/ ReplyIsLost \/ CoreListsConnections
    \/ \E listed, active \in BOOLEAN : ConnectionsRead(listed, active)

TabsSpec == TabsInit /\ [][TabsNext]_tabsVars

-----------------------------------------------------------------------------
(* Properties.                                                             *)

\* Whatever was opened, closed, restored or edited in the file, the Core accepts
\* the snapshot the page saves; it comes back as the Workspace it was, up to the
\* Create table tab and the tables that were shown; and saving it again untouched
\* writes the same snapshot, so that opening the page is not a change to be saved.
RestoreGivesItBack ==
    LET s == ToWorkspaceSnapshot(ws, layouts)
        r == RestoreWorkspace(s)
    IN  /\ ValidateSnapshotParams(s)
        /\ ToWorkspaceSnapshot(r, RestoreErdLayouts(s, r)) = s
        /\ ActiveKind # "create-table" => r.activeTabId = ws.activeTabId
        /\ RestoreErdLayouts(s, r) = PruneErdLayouts(layouts, r.tabs)

\* A tab shows its own content: a new one inherits nothing from a tab closed
\* before it, a reply that comes after the close included, and a report opened
\* from a chat shows the chat's.
ContentIsItsOwn ==
    /\ \A i \in DOMAIN ws.tabs :
         LET t == ws.tabs[i]
         IN  /\ t.id \in DOMAIN sessions => sessions[t.id] = t.from
             /\ t.from = "spec" => t.id \in DOMAIN sessions
    /\ \A id \in DOMAIN sessions \cup DOMAIN layouts : id < ws.nextId

\* With no read of the connections under way and the last one answered, a tab is
\* said to have lost its connection exactly when it has, unless the reply to the
\* change of the registry never came.
MissingIsTrue ==
    connRead.at = "idle" /\ readOk /\ told = "yes" =>
      \A i \in DOMAIN ws.tabs :
        Missing(ws.tabs[i]) <=> ws.tabs[i].connectionId \notin savedConns \cup {"boot"}

\* Through a reload, a close and a change of the connections, each tab stays itself.
TabsAreTrue == RestoreGivesItBack /\ ContentIsItsOwn /\ MissingIsTrue

=============================================================================
