------------------------------ MODULE SchemaTree ------------------------------
(***************************************************************************)
(* The connections panel of the page (src/src/ui/schema/SchemaTree.tsx):   *)
(* one root for the boot connection and one per saved connection, each     *)
(* introspected when it is first opened.  Three kinds of request race:     *)
(* the reads of the root list (at mount, by "Reintentar" and after every   *)
(* change made in Settings), the connect of each root, and the changes     *)
(* Settings sends (src/src/ui/settings/SettingsPanel.tsx), which the tree  *)
(* hears of through two pieces of state of Workspace.tsx.  Core is the     *)
(* registry of saved connections: an id and the database it points at.     *)
(***************************************************************************)
EXTENDS Naturals, FiniteSets

CONSTANTS Saved,         \* ids of the saved connections, now or later
          MaxReads,      \* bound: root-list reads asked for by the user
          MaxConnects,   \* bound: per root, the connects the user asks for
          MaxMutations,  \* bound: changes made in Settings
          MaxPanels      \* bound: times the Settings tab is mounted

ASSUME SchemaTreeAssumption ==
    /\ {MaxReads, MaxMutations, MaxPanels} \subseteq Nat
    /\ {"boot", "no id"} \cap Saved = {}
    /\ MaxConnects \in [Saved \cup {"boot"} -> Nat]

Boot == "boot"
Root == Saved \cup {Boot}
NoId == "no id"

VARIABLES
    registry,       \* Core: the database each saved id points at, 0 if none
    retired,        \* ids that were removed; Core mints a new id every time
    treePhase,      \* "loading", "error" or "roots"
    treeRoots,      \* the roots on screen
    treeWarning,    \* "none", "boot" or "registry"
    rootState,      \* per root: idle, loading, ready with a database, error
    activeRef,      \* "unknown" until connection.active answered
    summariesRef,   \* the last list of saved connections
    treeSeq,        \* newest root-list read
    rootSeq,        \* newest connect of each root
    bootWarning,    \* bootWarningRef
    pendingRepoint, \* pendingRepointRef
    treeReads,      \* root-list reads in flight
    connects,       \* connects in flight
    mutations,      \* Settings requests in flight
    mutationsSent,  \* how many were sent
    panel,          \* the mounted SettingsPanel: its number and busy flag
    revision,       \* Workspace: registryRevision
    repointed,      \* Workspace: repointedConnectionId
    seenRevision,   \* the revision the tree's effect last ran for
    unreported      \* history: changes Core made that the tree was never told

registryVars == <<registry, retired>>
refVars      == <<activeRef, summariesRef, bootWarning>>
viewVars     == <<treePhase, treeRoots, treeWarning>>
nodeVars     == <<rootState, rootSeq, connects>>
settingsVars == <<mutations, mutationsSent, panel, revision, repointed, unreported>>
treeVars == <<registryVars, refVars, viewVars, nodeVars, settingsVars,
              treeSeq, pendingRepoint, treeReads, seenRevision>>

Idle       == [kind |-> "idle", db |-> 0]
Loading    == [kind |-> "loading", db |-> 0]
Failed     == [kind |-> "error", db |-> 0]
ReadyOn(d) == [kind |-> "ready", db |-> d]

Listed == {c \in Saved : registry[c] > 0}

Read(kind, n) == [kind |-> kind, seq |-> n, handled |-> FALSE, ids |-> {}]

TreeInit ==
    /\ registry \in [Saved -> {0, 1}]
    /\ retired = {}
    /\ treePhase = "loading" /\ treeRoots = {} /\ treeWarning = "none"
    /\ rootState = [r \in Root |-> Idle]
    /\ activeRef = "unknown" /\ summariesRef = {} /\ bootWarning = FALSE
    /\ treeSeq = 1 /\ treeReads = {Read("load", 1)}
    /\ rootSeq = [r \in Root |-> 0] /\ connects = {}
    /\ pendingRepoint = {}
    /\ mutations = {} /\ mutationsSent = 0
    /\ panel = [number |-> 1, busy |-> FALSE]
    /\ revision = 0 /\ repointed = NoId /\ seenRevision = 0 /\ unreported = {}

-----------------------------------------------------------------------------
(* What the handlers share.                                                *)

\* loadRoot up to its await: the root is loading and its newest connect leaves.
FetchRoot(r, states) ==
    /\ rootState' = [states EXCEPT ![r] = Loading]
    /\ rootSeq' = [rootSeq EXCEPT ![r] = @ + 1]
    /\ connects' = connects \cup {[root |-> r, seq |-> rootSeq[r] + 1,
                                   handled |-> FALSE, db |-> 0]}

BuildRoots(active, summaries) ==
    (IF active = "target" THEN {Boot} ELSE {}) \cup summaries

\* Mutant of Retained: a repointed root keeps the catalog it shows.
RetainedRepointed(roots) == roots

\* The roots that keep what they hold: neither gone nor repointed.
Retained(roots) == roots \ pendingRepoint

\* reconcile: prune what is gone or repointed, then open an idle boot root.
Reconcile(roots) ==
    LET kept == [r \in Root |-> IF r \in Retained(roots) THEN rootState[r] ELSE Idle]
    IN  /\ pendingRepoint' = {}
        /\ IF Boot \in roots /\ kept[Boot] = Idle
           THEN FetchRoot(Boot, kept)
           ELSE rootState' = kept /\ UNCHANGED <<rootSeq, connects>>

\* adoptBootRoot, with the boot target an overtaken read has just learned of.
AdoptBootRoot(active) ==
    LET roots == BuildRoots(active, summariesRef)
    IN  IF active = "target"
        THEN /\ treeRoots' = IF treePhase = "roots" /\ Boot \notin treeRoots
                             THEN roots ELSE treeRoots
             /\ Reconcile(roots)
             /\ UNCHANGED <<treePhase, treeWarning>>
        ELSE UNCHANGED <<viewVars, nodeVars, pendingRepoint>>

-----------------------------------------------------------------------------
(* Root-list reads.                                                        *)

\* "Reintentar" of the panel, offered on an error and beside a warning.
LoadTree ==
    /\ treePhase = "error" \/ (treePhase = "roots" /\ treeWarning # "none")
    /\ treeSeq < MaxReads + revision
    /\ treePhase' = IF treePhase = "roots" THEN "roots" ELSE "loading"
    /\ treeSeq' = treeSeq + 1
    /\ treeReads' = treeReads \cup {Read("load", treeSeq + 1)}
    /\ UNCHANGED <<registryVars, refVars, treeRoots, treeWarning, nodeVars,
                   settingsVars, pendingRepoint, seenRevision>>

\* The effect on registryRevision: bank the repoint, then read the list.
RegistryRevised ==
    /\ revision # seenRevision
    /\ seenRevision' = revision
    /\ pendingRepoint' = pendingRepoint \cup ({repointed} \ {NoId})
    /\ treeSeq' = treeSeq + 1
    /\ treeReads' = treeReads \cup {Read("refresh", treeSeq + 1)}
    /\ UNCHANGED <<registryVars, refVars, viewVars, nodeVars, settingsVars>>

\* Core answers connections.list.
CoreLists(f) ==
    /\ ~f.handled
    /\ treeReads' = (treeReads \ {f}) \cup {[f EXCEPT !.handled = TRUE, !.ids = Listed]}
    /\ UNCHANGED <<registryVars, refVars, viewVars, nodeVars, settingsVars,
                   treeSeq, pendingRepoint, seenRevision>>

\* A request may fail before Core handles it or on the way back.
Outcomes(request) == IF request.handled THEN {"ok", "failed"} ELSE {"failed"}

\* The continuation of loadTree.  The boot target is a launch argument: what
\* the first answer says of it, every later one repeats.
LoadTreeReplies(f) ==
    /\ f.kind = "load"
    /\ treeReads' = treeReads \ {f}
    /\ \E active \in (IF activeRef = "unknown" THEN {"unknown", "target", "no target"}
                                               ELSE {activeRef}),
          readActive \in BOOLEAN, answer \in Outcomes(f) :
         /\ active # activeRef => readActive
         /\ readActive => active # "unknown"
         /\ activeRef' = active
         /\ IF f.seq # treeSeq
            THEN /\ bootWarning' = (~readActive /\ (bootWarning \/ activeRef = "unknown"))
                 /\ AdoptBootRoot(active)
                 /\ UNCHANGED summariesRef
            ELSE /\ bootWarning' = ~readActive
                 /\ summariesRef' = IF answer = "ok" THEN f.ids ELSE summariesRef
                 /\ IF answer = "failed" /\ active # "target" /\ summariesRef = {}
                    THEN /\ treePhase' = "error"
                         /\ UNCHANGED <<treeRoots, treeWarning, nodeVars, pendingRepoint>>
                    ELSE /\ treePhase' = "roots"
                         /\ treeRoots' = BuildRoots(active, summariesRef')
                         /\ treeWarning' = CASE ~readActive -> "boot"
                                             [] readActive /\ answer = "failed" -> "registry"
                                             [] OTHER -> "none"
                         /\ Reconcile(treeRoots')
    /\ UNCHANGED <<registryVars, settingsVars, treeSeq, seenRevision>>

\* The continuation of the refresh effect; an overtaken one does nothing.
RefreshReplies(f) ==
    /\ f.kind = "refresh"
    /\ treeReads' = treeReads \ {f}
    /\ \E answer \in Outcomes(f) :
       CASE f.seq # treeSeq ->
              UNCHANGED <<refVars, viewVars, nodeVars, pendingRepoint>>
         [] f.seq = treeSeq /\ answer = "failed" ->
              /\ treeWarning' = IF treePhase # "roots" THEN treeWarning
                                ELSE IF bootWarning THEN "boot" ELSE "registry"
              /\ UNCHANGED <<refVars, treePhase, treeRoots, nodeVars, pendingRepoint>>
         [] f.seq = treeSeq /\ answer = "ok" ->
              /\ summariesRef' = f.ids
              /\ treePhase' = "roots"
              /\ treeRoots' = BuildRoots(activeRef, f.ids)
              /\ treeWarning' = IF bootWarning THEN "boot" ELSE "none"
              /\ Reconcile(treeRoots')
              /\ UNCHANGED <<activeRef, bootWarning>>
    /\ UNCHANGED <<registryVars, settingsVars, treeSeq, seenRevision>>

-----------------------------------------------------------------------------
(* Roots.                                                                  *)

Shown(r) == treePhase = "roots" /\ r \in treeRoots

\* toggleRoot, of which only the introspection of an idle root it opens is
\* kept, and "Reintentar" of a root that failed.  loadRoot bails while the root
\* is loading.
OpenRoot(r) ==
    /\ Shown(r) /\ rootState[r].kind \in {"idle", "error"}
    /\ rootSeq[r] < MaxConnects[r]
    /\ FetchRoot(r, rootState)
    /\ UNCHANGED <<registryVars, refVars, viewVars, settingsVars,
                   treeSeq, pendingRepoint, treeReads, seenRevision>>

\* Core connects on the record it holds now; without one the request fails.
CoreConnects(c) ==
    /\ ~c.handled
    /\ LET db == IF c.root = Boot THEN 1 ELSE registry[c.root]
       IN  /\ db > 0
           /\ connects' = (connects \ {c}) \cup {[c EXCEPT !.handled = TRUE, !.db = db]}
    /\ UNCHANGED <<registryVars, refVars, viewVars, rootState, rootSeq, settingsVars,
                   treeSeq, pendingRepoint, treeReads, seenRevision>>

\* Mutant of Superseded: an answer for a root that is gone is not dropped.
SupersededOnly(c) == rootSeq[c.root] # c.seq

\* loadRoot drops an answer that was overtaken or whose root was pruned.
Superseded(c) == rootSeq[c.root] # c.seq \/ rootState[c.root] = Idle

\* The continuation of loadRoot.
ConnectReplies(c) ==
    /\ connects' = connects \ {c}
    /\ \E answer \in Outcomes(c) :
         rootState' = IF Superseded(c) THEN rootState
                      ELSE [rootState EXCEPT ![c.root] =
                              IF answer = "ok" THEN ReadyOn(c.db) ELSE Failed]
    /\ UNCHANGED <<registryVars, refVars, viewVars, rootSeq, settingsVars,
                   treeSeq, pendingRepoint, treeReads, seenRevision>>

-----------------------------------------------------------------------------
(* Settings.                                                               *)

\* onAdd, onSaveEdit (with and without a new target) and onRemove, up to the
\* await.  A panel may still list a connection that another one removed.
Mutate(op, c) ==
    /\ ~panel.busy /\ mutationsSent < MaxMutations
    /\ op = "add" <=> c \notin Listed \cup retired
    /\ panel' = [panel EXCEPT !.busy = TRUE]
    /\ mutationsSent' = mutationsSent + 1
    /\ mutations' = mutations \cup {[op |-> op, id |-> c, from |-> panel.number, handled |-> FALSE]}
    /\ UNCHANGED <<registryVars, refVars, viewVars, nodeVars, revision, repointed,
                   unreported, treeSeq, pendingRepoint, treeReads, seenRevision>>

\* Closing Settings and opening it again mounts a panel that is not busy.
ReopenSettings ==
    /\ panel.number < MaxPanels /\ panel.busy
    /\ panel' = [number |-> panel.number + 1, busy |-> FALSE]
    /\ UNCHANGED <<registryVars, refVars, viewVars, nodeVars, mutations, mutationsSent,
                   revision, repointed, unreported, treeSeq, pendingRepoint, treeReads, seenRevision>>

\* Core applies the change to a record it has.
CoreMutates(m) ==
    /\ ~m.handled
    /\ IF m.op = "add" THEN m.id \notin Listed \cup retired ELSE m.id \in Listed
    /\ registry' = [registry EXCEPT ![m.id] = CASE m.op = "add"     -> 1
                                                [] m.op = "rename"  -> @
                                                [] m.op = "repoint" -> @ + 1
                                                [] m.op = "remove"  -> 0]
    /\ retired' = IF m.op = "remove" THEN retired \cup {m.id} ELSE retired
    /\ mutations' = (mutations \ {m}) \cup {[m EXCEPT !.handled = TRUE]}
    /\ UNCHANGED <<refVars, viewVars, nodeVars, mutationsSent, panel, revision, repointed,
                   unreported, treeSeq, pendingRepoint, treeReads, seenRevision>>

\* onRegistryChanged: two pieces of state, set by the panel that is told.  A
\* second call before React commits replaces the id of the first.
Announce(m) ==
    /\ revision' = revision + 1
    /\ repointed' = IF m.op = "repoint" THEN m.id ELSE NoId
    /\ unreported' = IF revision # seenRevision /\ repointed \notin {NoId, repointed'}
                     THEN unreported \cup {repointed} ELSE unreported

\* The continuation of a Settings request.  The reply may be lost on the way
\* back, after Core applied the change.
MutationReplies(m) ==
    /\ mutations' = mutations \ {m}
    /\ panel' = IF m.from = panel.number THEN [panel EXCEPT !.busy = FALSE] ELSE panel
    /\ \/ m.handled /\ Announce(m)
       \/ /\ unreported' = IF m.handled THEN unreported \cup {m.id} ELSE unreported
          /\ UNCHANGED <<revision, repointed>>
    /\ UNCHANGED <<registryVars, refVars, viewVars, nodeVars, mutationsSent,
                   treeSeq, pendingRepoint, treeReads, seenRevision>>

-----------------------------------------------------------------------------

TreeNext ==
    \/ LoadTree \/ RegistryRevised \/ ReopenSettings
    \/ \E f \in treeReads : CoreLists(f) \/ LoadTreeReplies(f) \/ RefreshReplies(f)
    \/ \E r \in Root : OpenRoot(r)
    \/ \E c \in connects : CoreConnects(c) \/ ConnectReplies(c)
    \/ \E op \in {"add", "rename", "repoint", "remove"}, c \in Saved : Mutate(op, c)
    \/ \E m \in mutations : CoreMutates(m) \/ MutationReplies(m)

TreeSpec == TreeInit /\ [][TreeNext]_treeVars

-----------------------------------------------------------------------------
(* Properties.                                                             *)

\* No request is in flight and every revision was seen.
TreeQuiet ==
    /\ treeReads = {} /\ connects = {} /\ mutations = {}
    /\ revision = seenRevision

\* Once every request has settled and no warning is on screen, the panel tells
\* the truth about every connection whose changes it was told of: its root is
\* there exactly when the registry has it, and a catalog on screen is the
\* catalog of the database it points at now, whatever order the answers of
\* list, connect and edit came in.  A boot target that was ever heard of has
\* its root, and that root was introspected.
QuietTreeIsTrue ==
    TreeQuiet /\ treePhase = "roots" =>
      /\ treeWarning = "none" =>
           \A c \in Saved \ unreported :
             /\ c \in treeRoots <=> registry[c] > 0
             /\ rootState[c].kind = "ready" => rootState[c].db = registry[c]
      /\ activeRef = "target" =>
           /\ Boot \in treeRoots
           /\ rootState[Boot].kind \in {"ready", "error"}

\* Nothing is kept for a root that is not on screen, and a root that shows
\* "introspecting" has its newest connect in flight: an overtaken answer
\* neither revives a removed root nor leaves one loading for ever.
RootsAreBacked ==
    /\ treePhase = "roots" =>
         {r \in Root : rootState[r] # Idle} \subseteq treeRoots
    /\ \A r \in Root : rootState[r].kind = "loading" =>
         \E c \in connects : c.root = r /\ c.seq = rootSeq[r]

\* The panel of the connections keeps to the registry and to its own requests.
TreeIsTrue == QuietTreeIsTrue /\ RootsAreBacked

=============================================================================
