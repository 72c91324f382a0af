# quick-studio in TLA+

quick-studio is a local database studio: a Core process (Bun) that holds the
database connections and the user's encrypted files, and a page (React) served
on the loopback interface that talks to it over `/rpc`. This directory holds
TLA+ models of the parts whose behaviour depends on the order in which things
happen or on text that two programs must read alike, the TLC configurations that
check them, and machine-checked proofs about some of them. Paths below are
relative to `src/src/` of the repository.

    tlc -workers 2 -config Workspace_main.cfg MCWorkspace.tla
    tlc -workers 2 -config Data_main.cfg MCData.tla
    tlapm ConnectionManagerProofs.tla

## 1. Inventory

### Core

| Component | State | Operations | Hard behaviour | What makes it correct |
|---|---|---|---|---|
| Connection manager, `core/connection.ts` | `driver`, `cached` schema, `schemaStale`, `schemaGeneration`, the promises `inflight` and `refreshing`, `closed` | `connect`, `getSchema`, `runQuery` (through the executor), `invalidateSchema`, `close` | requests interleave at every await; a re-introspection may be overtaken by DDL; `close()` may come at any await | no invalidation lost, one flight at a time, stale answers only when the bounded loop was outrun, nothing left after `close()`, every request answered |
| Drivers, `core/driver*.ts` | one session per driver, the mutex (MySQL) or the pool of one (Postgres) | connect, read-only query, query, `listSchema`, close | the statements of several tabs interleave on one session; a reply or the session is lost between them | each statement runs in the transaction of its own call, none is left open but by a confirmed statement or a ROLLBACK that failed, no table is shown without its columns |
| Statement executor, `core/executor.ts`, `core/table-rows.ts` | none | scan, split, classify, confirm, run, invalidate; structured operations; pages of a table | quotes, escapes, comments and dollar tags by engine and SQL mode; lost reply of a committed DDL | one statement as the server reads it, no write runs unasked, invalidates after every acknowledged catalog change |
| Connection targets, `core/connection-targets.ts` | map of managers per saved connection, `closed` latch | resolve, evict, closeAll | eviction while requests run; edits and removals between resolve and use; resolve racing closeAll | a manager is open exactly while it is cached, a request runs at the record it was resolved with, none made after closeAll |
| Server and lifecycle, `core/server.ts`, `core/rpc.ts`, `core/lifecycle.ts`, `core/auth.ts`, `core/binding.ts` | listeners, the launch's token, `stopping` | serve a page, check, dispatch, stop | pages outlive their Core; hosts and ports have several spellings; requests keep arriving during the ordered shutdown | a page of this launch is served wherever the Core listens, nobody else; what stop awaits is closed, the stop ends |
| Writer lock, `core/store-lock.ts` | the lock file, shared with other processes and hosts | acquire, reclaim, release | check-then-act by path; crashes; reused pids; filesystems without hard links | one writer, a stale lock never blocks, release spares a successor |
| Encrypted stores, `core/credential-store.ts`, `core/provider-key-store.ts`, key in `core/store-key.ts` | `.enc` files, `.meta` descriptors, the keychain entry, the open store's map | open (keychain, existing passphrase store, new passphrase store), save, delete | crash between the first two writes; failed writes; wiped or shared keychain; wrong passphrase | memory agrees with disk, no store re-keyed, the lock follows the store |
| Registries, `core/connection-registry.ts`, `core/provider-registry.ts` | the memoized open, `closed` | list, save, delete, close | open racing close; a write that fails after the page gave up | opened at most once, closed for good |
| First-run setup, `core/first-run-*.ts`, `core/store-presence.ts`, `core/passphrase-*.ts` | none | probe, prompt, unlock, create | boots cut short between two files and two stores; a passphrase nobody checked | one passphrase for both stores; what was handed over opens them |
| Workspace store, `core/workspace-store.ts`, `core/workspace-registry.ts` | one JSON file | load (with a backup of a newer file), validate, save | crash during a write; a load that degrades to nothing and re-enables saving | what was acknowledged is in the file; what a newer build wrote is kept |
| Chat, `core/chat.ts`, `core/ai-provider.ts` | one stream per request | prepare, stream chunks, abort | abort racing chunks; a stream without an end | a turn whose page is gone ends; an ended turn frees the composer |
| Live reports, `core/live-report-registry.ts` | up to 64 documents | publish, serve, evict | eviction of an open report | bounded, newest kept |
| Update check, `core/update-check.ts` | a cache file shared by launches | read, notify, fetch, write | clock set back, damaged file, upgrade in between | never told of an older version, never silent for good |
| Keychain, crypto, paths, command line, browser opening | none that outlives a call | | | |

### Page

| Component | State | Operations | Hard behaviour | What makes it correct |
|---|---|---|---|---|
| Autosave, `ui/workspace/save-scheduler.ts`, `ui/App.tsx` | debounce timer, `lastPersistedRef`, `running`, `pending`, save indicator | edit, debounce, beforeunload, Stop | replies late, lost, or after the abort; edits during a save; quitting during a save | saves in order, nothing unsaved without notice, Stop leaves the target on disk |
| Workspace tabs, `ui/workspace/workspace-state.ts`, `ui/App.tsx`, `ui/workspace/Workspace.tsx` | tabs, active tab, next id; drafts, chats, reports and layouts by tab id | reducer, snapshot, restore | ids given out anew; replies after a close | restore gives the Workspace back; a tab never shows another's content |
| Chat tab, `ui/workspace/ChatTabView.tsx`, `ui/rpc/rpc-stream.ts` | conversation, run entries, chart frame | send, abort on leaving, run the SQL of an answer, draw | tab left while streaming; frame, guest and rows in any order | answers whole and under their question; the chart is that of the rows shown |
| Query and table tabs, `ui/workspace/QueryTabView.tsx`, `ui/workspace/TabContent.tsx`, `ui/data/*` | rows, page, editor, draft, confirmation | type, run, confirm, page, edit a cell, delete, insert | replies after an edit, a page turn or a return; positions in rows that were replaced | shows the last answer; changes the row that was picked |
| Schema tree, `ui/schema/*`, `ui/settings/SettingsPanel.tsx` | roots, per-root state, sequence numbers | list, connect, refresh, prune | list, connect and edit answered in any order | a root shows the catalog of the database it points at |
| ERD, `ui/workspace/ErdTabView.tsx`, `ui/erd/erd-graph.ts` | positions, remembered layout | lay out, drag, pan, create a table | every change of the tables lays out anew | tables stay where they were seen |
| Reports, `ui/report/*`, `live-report/runtime.ts`, `snapshot/runtime.ts` | blocks, run generations, target; the published page's slots; the exported file | run, confirm, re-target, publish, freeze | older replies, re-target during a confirmation, runs during an export | what is run and shown is what was asked last; the file shows the database's answer |
| Provider settings, `ui/settings/ProvidersPanel.tsx` | list, drafts | list, save, remove | answers lost, or heard by a later panel | the list is the Core's |
| Sandboxed charts, `sandbox/*`, `ui/sandbox/*` | host, guest document, heights | rebind, load, draw, measure | window not there yet, reload, late messages | see the chat tab |

### Interactions

The page sends `/rpc` requests; the Core answers them on one event loop. A
request that names a saved connection goes through the registry (credential
store, which holds the writer lock from its first open to `close()`), then the
targets, then a connection manager, then a driver. The executor runs a statement
and invalidates the manager's memo. The page's autosave sends `workspace.save`;
Stop first drains the scheduler, then sends the shutdown call, on which the
server closes targets, boot manager, registry and listeners in this order. App
holds what a tab shows; only the active tab is mounted, and a reply to an
unmounted one is judged by references nothing updates any more.

The hazards, each at the line where it bites and with the properties that would
catch it, are in `PROJECT.json`.

## 2. Modules

| Module | Models | State | Actions |
|---|---|---|---|
| `ConnectionManager` | `core/connection.ts`, and the run-then-invalidate step of `core/executor.ts` | the manager's variables under their own names; the two memoized promises as records (phase, owner, captured generation, database's answer); a program counter per request | the code between two awaits |
| `ManagedDriver` | abstract: what a connection manager promises to its owners | the physical connection, how far `close()` has come | open, its end, `close()`, its end |
| `ConnectionTargets` | `core/connection-targets.ts`, the records and the life of the store in `core/connection-registry.ts`, requests holding a manager (`core/server.ts`, `core/executor.ts`) | saved records, cache and latch, one `ManagedDriver` per manager, a program counter per request | a resolve, an edit of a record, a step of a request, the end of an open or of a `close()` |
| `CoreShutdown` | `core/lifecycle.ts`, `bin/quick-studio.ts`, `stop()` in `core/server.ts`, composed with `ConnectionTargets` | how far `stop()` has come | the code between two awaits of `stop()` |
| `StoreLock` | `core/store-lock.ts` | the lock file, which files have a body, a program counter per process | one system call with the decision taken on its result |
| `EncryptedStores` | `core/credential-store.ts`, `core/provider-key-store.ts`, `core/store-key.ts`, the life of an open store in the registries | descriptors, `.enc` files, the keychain entry, each process's open stores | one file or keychain call |
| `WorkspaceSave` | `ui/workspace/save-scheduler.ts`, the save paths of `ui/App.tsx`, the abort of `ui/rpc/client.ts`, `workspace.save` in the Core | the page's and scheduler's variables, messages on their way, the file | one callback of the page, one message handled by the Core |
| `Autosave` | abstract: what saving promises about order | state shown, state on disk, abandoned writes | |
| `WorkspaceTabs` | `ui/workspace/workspace-state.ts`, the per-tab state of `ui/App.tsx`, the missing-connection notice of `ui/workspace/Workspace.tsx`, validation in `core/workspace-registry.ts` | the reducer's state; per tab id where its content came from and how usable its layout is; the read of the connections | an operation of the reducer with App's pruning; a reload; a reply |
| `WorkspaceFile` | `core/workspace-store.ts`, `core/workspace-registry.ts`, the load effect of `ui/App.tsx` | the file, its backup, the temporary file, what the page shows and believes saved | a call on the file; a load; a launch; what newer builds and editors write |
| `ChatStream` | `ui/workspace/ChatTabView.tsx` (send), `ui/rpc/rpc-stream.ts`, `core/chat.ts`, the route in `core/server.ts` | the conversation; per turn, Core's and the page's progress and the chunks between | a chunk produced, enqueued, read; an abort; leaving and returning |
| `ChatCharts` | the runs of an answer in `ui/workspace/ChatTabView.tsx`, `ui/sandbox/*`, `sandbox/guest.ts` | the run entry and what was rendered of it, the frame, the host, the guest, messages both ways | a click, a render, a reply, a message, a load |
| `QueryTab` | `ui/workspace/QueryTabView.tsx`, `ConfirmRun.tsx`, `run-raw-query.ts` | the editor's text, App's draft, the view's state and what was rendered | a key, a render, its effect, a run, a reply |
| `SchemaTree` | `ui/schema/SchemaTree.tsx`, `schema-tree-state.ts`, `ui/settings/SettingsPanel.tsx`, the registry | roots, their state and sequence numbers, reads, connects and changes in flight | a request sent, handled by the Core, answered |
| `ErdLayout` | `ui/workspace/ErdTabView.tsx`, `ui/erd/erd-graph.ts`, `CreateTablePanel.tsx`, the App's tables | tables introspected and created, positions drawn, remembered and saved | an introspection, a creation, a drag, leaving, a reload |
| `TableTab` | `ui/workspace/TabContent.tsx`, `ui/data/*`, `core/table-rows.ts`, the structured operations of `core/executor.ts` | the table, the page shown, the editor and the delete question by position, requests in flight | a load's two queries, a mutation, a click, a reply |
| `ReportRuns` | `ui/report/ReportTabView.tsx`, `report-state.ts`, `retarget-plan.ts` | blocks, target, run state and generations of the mounted view and what it has drawn, statements in flight | run, confirm, row click, re-target, edit, reply, render |
| `LiveReport` | `core/live-report-registry.ts`, `export-live-report.ts`, `live-report/runtime.ts` | the registry's map, the windows, the opened page with its runs | publish, open, pick, refresh, reply |
| `FrozenReport` | `core/frozen-map.ts`, `shared/frozen-table.ts`, `shared/snapshot.ts`, `export-snapshot.ts`, `report-chart.ts`, `snapshot/runtime.ts` | the database's answer, the block, the file | a run, a view, an export, its fetch, an edit of the file |
| `DriverSession` | `core/driver.ts`, `driver-mysql.ts`, `driver-postgres.ts` | the server's session and its transaction, the queue, each call's progress, the introspection's reads | one statement on the session |
| `RawScan` | the scanner, split, classification and `executeRaw` of `core/executor.ts` | a text typed piece by piece, and the connection's modes | a piece typed; the rest are operators |
| `FirstRun` | `core/first-run-setup.ts`, `first-run-signal.ts`, `store-presence.ts`, `passphrase-*.ts`, the boot in `bin/quick-studio.ts` | the files of both stores, the boot under way | a boot, an answer to a prompt, an open, a crash, a lost file |
| `Requests` | `fetch` and the routes of `core/server.ts`, `core/auth.ts`, `core/binding.ts`, `core/rpc.ts` | the launch, the windows and what launch served them, the request | a launch, a page opened, a request, its answer |
| `UpdateCheck` | `core/update-check.ts` | the cache file, the clock, each launch's check | a read, a fetch, a write |
| `ProviderKeys` | `ui/settings/ProvidersPanel.tsx`, `providers-model.ts`, the picker of `ChatTabView.tsx`, `core/provider-registry.ts` | the Core's keys, the view shown, calls under way | a click, a call handled, answered or lost |
| `ConnectionManagerProofs`, `CoreShutdownProofs`, `StoreLockProofs`, `WorkspaceSaveProofs`, `EncryptedStoresProofs` | theorems about the modules they are named after | | |
| `PageProofs` | theorems about `WorkspaceTabs`, `QueryTab`, `ChatStream`, `ChatCharts`, `ProviderKeys` | | |
| `LaunchProofs` | theorems about `UpdateCheck`, `FirstRun`, `Requests`, `WorkspaceFile` | | |
| `DataProofs` | theorems about `RawScan`, `DriverSession`, `ReportRuns`, `LiveReport`, `FrozenReport`, `TableTab`, `ErdLayout`, `SchemaTree` | | |
| `MCWorkspace`, `MCData` | one state space for the parts of the Workspace; one for those that bring a database to the screen | `part`: the part that moves | |
| other `MC...` | constants for TLC | | |

How they compose: `ConnectionManager` implements `ManagedDriver` (checked as
`ImplementsManagedDriver`, proved as `ManagerIsManagedDriver`). `ConnectionTargets`
keeps one `ManagedDriver` per manager (`Manager(m) == INSTANCE ...`) and drives it
from the resolver and from every request that holds it, by that module's own
steps: what a manager owes its owners is shown once, of `ConnectionManager`, and
relied on here. `ManagedDriver` knows of the physical connection only, not of the
re-introspections on it, which `NoLostInvalidation` and `SingleFlight` are about.
`CoreShutdown` extends `ConnectionTargets` with `stop()`. `WorkspaceSave`
implements `Autosave`.

`MCWorkspace` and `MCData` are not compositions in that sense. Their parts share
no variable in the code: a query tab's editor and a report's runs meet only in the
Core, whose side each module has for itself (a request is handled at any moment,
with any outcome). So a behaviour of all of them together is an interleaving of
behaviours of each, an invariant of one part holds in it exactly if it holds of
that part alone, and it is enough to let one part move at a time. `part` is chosen
at the start; the others rest in an initial state. Where two parts do meet, the
meeting is in a module: that what the tabs save comes back is `WorkspaceTabs`,
that it is really saved is `WorkspaceSave`, that the file survives `WorkspaceFile`.

What an abstraction leaves out is said at the head of each module. The main
choices:

* **A schema is the version of the catalog it describes** (`ConnectionManager`).
  The database counts its catalog changes, so "stale" is a comparison of numbers.
  `acked` is the newest version whose statement the manager saw succeed;
  a statement whose reply is lost has changed the catalog and is not in `acked`,
  because the code does not invalidate for it.
* **Event loop.** Actions of `ConnectionManager` may run in any order, except
  that the owner of a flight resumes before its joiners, which the order of
  promise reactions guarantees. This admits more interleavings than the
  microtask queue does: what holds here holds there. The one violation run was
  checked by hand against the code for a schedule that can occur.
* **A manager is its promise** (`ConnectionTargets`): whether its one physical
  connection is up and how far `close()` has come. A record is its url and the
  schema it is pinned to, which is what the resolver compares.
* **A file is the acquire call that made it** (`StoreLock`): the call's uuid is
  the number of the call. A rename or unlink acts on whatever is at the path.
* **A key is where it comes from** (`EncryptedStores`): the n-th keychain key
  minted, or the pair of a salt and a passphrase. A descriptor holds only the
  salt; the model keeps the passphrase beside it for the properties alone.
  `StoreLock` is replaced here by what it promises.
* **A Workspace is one of a few looks** (`WorkspaceSave`), because the code
  compares serialized values: an edit may restore an earlier look, which is where
  the comparison with `lastPersistedRef` can go wrong.

* **A reply sets state; a render shows it** (`ChatCharts`, `QueryTab`,
  `ReportRuns`): React gives handlers the values of the last render, so what is set
  and what was rendered are two variables where handlers read the older one. In
  `ReportRuns` this is what a row click writes back. Two such gaps are collapsed:
  that between a confirmation's render and its inert effect, and that between a
  grid's new rows and the effect that clears its editor (`DataGrid.tsx:408`). Key
  values are not converted in `TableTab` (`row-mutations.ts:180`).
* **A request has two ends** (`SchemaTree`, `TableTab`, `ReportRuns`,
  `ProviderKeys`, `LiveReport`): the Core handles it at one moment and the page
  hears of it at a later one, or never.
* **A text is symbols** (`RawScan`): words, white space and the marks that open or
  close a span (`"dq"`, `"bq"` and `"semi"` by name). The server's reading of the
  same text is written separately, one symbol at a time, as the reference the
  scanner is compared with. The scanner's loops are the sets of positions they come
  to; what an inner loop looks for is the first of a set of positions.
* **A number stands for a text or an arrangement** (`QueryTab`, `WorkspaceFile`,
  `ChatStream`): every edit makes a new one.

Variables called *history* in a module are read by properties only.

## 3. What the runs show

| Run | Properties | Shows | Distinct states |
|---|---|---|---|
| `connection` | `NoLostInvalidation`, `StaleAnswerWasOutrun`, `ClosedIsFinal`, `ImplementsManagedDriver`, `RequestsAnswered`, `CloseCompletes` | the memo protocol, with failures of every call to the database and `close()` at any point; nobody waits for ever when the database answers | 157 thousand |
| `connection_wedged` | `CloseCompletes` | **violated**, see below, with only what the code itself bounds | |
| `core_shutdown` | `CachedIffServing`, `ServesRecordAsResolved`, `StopLeavesOnlyEvicted`, `StopCompletes` | records edited and removed while requests run over their managers, and `stop()` in the middle of it | 396 thousand |
| `lock_safety` | `ExclusiveUnlessMisfired`, `RefusalIsJustified`, `ReleaseSparesOthers` | three processes on two hosts, with hard links, crashes, reused pids and failing reads | 845 thousand (up to the view) |
| `lock_fallback` | `ExclusiveUnlessMisfired`, `CallsReturn` | the filesystem without hard links, and termination, with failing reads | 1.1 million |
| `lock_race` | `MutualExclusion` | **violated**, though every read succeeds | |
| `stores` | `MemoryMatchesDisk`, `KeyIsRecoverable`, `LockFollowsStore` | both stores, two processes, a keychain that comes, goes and forgets | 2.1 million (up to symmetry) |
| `stores_wiped` | `KeyGoneIsNotCorrupt` | **violated** | |
| `stores_mint` | `MintNeverOverwrites` | **violated** | |
| `workspace` | `SavesAreTrue`, `SavesInOrder`, `DrainCompletes` | autosave, Stop and beforeunload over a network that loses and delays; refinement of `Autosave` | 203 thousand, all parts together |
| | `TabsAreTrue` | a snapshot is accepted, comes back as it was and is then no change to be saved; no tab inherits another's content; the missing notice is true | |
| | `WorkspaceSurvives` | acknowledged saves survive crashes; nothing unseen is overwritten; a newer build's file is kept | |
| | `AnswersAreWhole`, `TurnsEnd` | no partial or misplaced answer, no lost question; a turn that was left ends, once its preparation has, and the composer is busy with no turn that ended | |
| | `ChartIsCurrent` | the chart shown is that of the rows shown, at its own height | |
| | `QueryTabIsTrue` | a confirmation is of what the dialog shows; the answer shown is the last one, on a page it has; editor and draft agree | |
| `workspace_revert` | `QuietWithoutFailureIsSaved` | **violated** | |
| `data` | `PassphraseIsRight` | one passphrase unlocks both stores, and what the pre-flight hands over does open them | 1.35 million, all parts together |
| | `PagesAreServed` | a page of this launch is served at every kind of address, one of another launch or site is refused and nothing done | |
| | `ProvidersAreTrue` | the panel's list is the Core's; a chat that has providers has one picked, the user's own if there was one | |
| | `NoticesAreTrue` | a notice names a released version newer than the program, from an answer that is not too old | |
| | `RawRunsOneStatement` | what is run is one statement to the server too, and unasked only a SELECT or SHOW without INTO; the row bound of a SELECT is there and in no comment, unless a span was left open | |
| | `SessionIsShared` | a statement runs in its own call's transaction or in one left open by a confirmed statement or a failed ROLLBACK, and in no other | |
| | `TreeIsTrue` | a settled tree shows the registry's connections and their present databases | |
| | `TablesStayPut` | no table moves because another came | |
| | `GridIsTrue` | a grid at rest shows the table; a change hits the row that was picked | |
| | `ReportIsTrue` | only what was previewed is confirmed, at the target it was previewed for; a block shows its newest run at the present target; it is busy while that is in flight, and no longer but for a row clicked before the reply was drawn | |
| | `LivePagesAreTrue` | a slot's rows are of the connection the picker shows; a link works until 64 later reports | |
| | `FrozenFileIsTrue` | the file shows the database's answer at the time of the export; an edited one only well-formed cells | |

Properties that end in `...AreTrue` or `...IsTrue` are conjunctions of named parts,
each with a comment of its own in the module.

### Bounds

* `ConnectionManager`: two requests at a time, each of which may be followed by
  any number of others; a third request would join a flight as the second does.
  Two refresh turns (the code has three) and three catalog versions: the commit
  guard, joining, a second turn and leaving the loop stale all happen. To be
  outrun in every turn of the code's loop takes more versions than TLC can
  afford beside the liveness properties; `StaleAnswerHolds` covers that for every
  bound.
* `CoreShutdown`: two ids over one url pinned to one of two schemas, two requests,
  two target managers and one change of a record: enough for an eviction by an
  edit and by a removal, for the two requests to share a manager or to hold an
  evicted one and its successor, and for either to outlive `stop()`. The theorems
  hold for every bound.
* `StoreLock`: three acquire calls are what the race needs (a victim, a rival and
  a holder to reclaim from), and each of the three processes may make them. The
  code's three attempts in `lock_safety`; two in `lock_fallback`, where a liveness
  property is checked too. A read of the lock may fail at any time in both
  (`ReadsFail`), and in `lock_race` never, so that the race found there is of the
  renames alone. `lock_safety` compares states by a view that leaves out local
  variables no later step reads.
* `EncryptedStores`: two keychain keys (the second is the re-mint after a wipe or
  a race) and two descriptors (one rolled back or torn, one good); a right and a
  wrong passphrase; one record, as saves replace the whole file.
* `WorkspaceSave`: three edits over three looks, so that a look may be left and
  restored while a save of the other is in flight, with one save trailing.
  `WorkspaceFile`: four arrangements, of this build or a newer one.
  `WorkspaceTabs`: tab ids up to 2, which are given out again after every restore,
  one saved connection and one change of the registry besides its first state.
* `ChatStream`: two turns of up to two deltas: a turn left, another sent, the
  first one's chunks still coming. `ChatCharts`: two runs, two documents in the
  frame, one rebind attempt. `QueryTab`: three edits, three rows on pages of two.
* `FirstRun`: two good passphrases and one that is too long, two lost files, any
  number of boots. `Requests`: IPv4, IPv6 and wildcard binds on port 80, which
  browsers leave out, and another; two launches, two windows. `UpdateCheck`: two
  programs at a time, three releases with a prerelease between. `ProviderKeys`:
  two providers, one key, three views, one lost call.
* `RawScan`: texts of up to four pieces out of thirteen, in five combinations of
  engine and modes; each piece is a mark with what makes it matter (an escaped
  quote, a dollar tag, a comment's ends, a `!` behind a comment's start), so that
  nesting, escaping and leaving a span open all occur. The text starts with
  `select` or, on one of the connections, with `show`.
  `DriverSession`: two callers, one table added or dropped; any confirmed statement
  may begin or end a transaction.
* `SchemaTree`: the boot root and one saved connection, two changes, one read and
  one connect of each root at a time beside the first. `ErdLayout`: two tables, one
  foreign key. `TableTab`: three keys, pages of one row, three loads, one
  mutation. `ReportRuns`: two targets, a block, three statements. `LiveReport`: a
  read block and a write block, a registry of two entries, three reports.
  `FrozenReport`: results of up to two rows and two columns, of six kinds of value
  and three types.

A smaller instance of each part was first checked alone; the constants above are
the largest for which the two runs end in the time a developer will wait.

`CHECK_DEADLOCK FALSE` is said of `CoreShutdown`, which stops when the process exits,
of `WorkspaceSave`, which stops when the page is closed and the wire is empty, and so
of the two runs over parts.

### Fairness

* `ConnectionManager`, `BoundedByCode`: each request's continuation that is due
  runs (the event loop runs every settled promise's reactions), and the calls the
  code puts a bound on settle one way or the other: the handshake
  (`connect_timeout`), `listSchema` (30 s) and a driver's `close()` (5 s).
  `DatabaseAnswers` adds what the code takes on trust: the round trips of a
  driver's `connect()` after the handshake, and statements, settle too.
  `connection` assumes both; `connection_wedged` shows what the second is needed
  for. Nothing is assumed of arrivals, of `close()` being called, or of which way
  a call settles.
* `CoreShutdown`: `stop()` continues when what it awaits has settled; an open
  settles (`DatabaseAnswers`) and a manager's `close()` returns once no open is in
  flight (`CloseCompletes`). Requests need not go on, and statements need not end.
* `StoreLock`: a live process makes its next system call; a crash may pre-empt it.
* `WorkspaceSave`: the awaited save settles, because the client aborts it after ten
  seconds, and the Stop handler resumes once drained. The network is not fair.
* `ChatStream`: the page reads what has arrived, Core hears that a fetch was
  aborted and stops a turn it has heard is over. The provider need not send
  anything, ever, and a turn's preparation need not end: it awaits the schema,
  whose connection's first round trips nothing bounds (the first disagreement
  below), and does not look at the abort. `TurnsEnd` therefore lets a turn stay in
  preparation.

### Disagreements found

1. **A wedged database can block the shutdown.** Comments at `core/driver.ts:602`
   and `core/server.ts:1118` say it never can. The round trips of a driver's
   `connect()` after the handshake have no bound, `close()` of the manager waits
   for the open in flight, and `stop()` waits for `close()`. (`connection_wedged`)
2. **Two processes can hold the writer lock.** Reclaim renames by path: between
   `readLockInfo` and `rename` another process may reclaim the same stale lock and
   create its own, which is then renamed away. The comment at
   `core/store-lock.ts:225` says the rename makes reclaim race-free. (`lock_race`.)
   A failed read has the same effect without a race: `readText`
   (`core/store-lock.ts:204`) answers `null` for every error, acquire takes that for
   a stale lock, and release, which by its comment removes only "the exact lock THIS
   acquire wrote", takes it for its own. `ExclusiveUnlessMisfired` and
   `ReleaseSparesOthers` say that these are the only ways: a file is moved by
   somebody who had not read it, or, without hard links, was judged before its body
   was written.
3. **A change undone while a save is in flight can leave the wrong Workspace on
   disk.** The debounce compares with the last *settled* save; if the running save
   then lands, the disk holds the look the user left, the page is quiet and shows
   no failure. Any later edit, Stop or close repairs it. (`workspace_revert`)
4. **A keychain store whose key is gone reads as `corrupt` on the second open.**
   The first open mints a key as a side effect and answers `key-unavailable`, as
   the comment at `core/credential-store.ts:634` promises; the next one finds the
   minted key and fails to decrypt. (`stores_wiped`)
5. **Two processes can mint over each other.** The comment at
   `core/credential-store.ts:474` relies on the writer lock to keep a second
   process from replacing the key; the provider-key store mints the same entry
   without the lock. The first process's store cannot be opened again.
   (`stores_mint`; `KeyIsRecoverable` says that a wipe and this are the only ways.)

Two more behaviours the models show, which nothing in the repository denies:
`stop()` does not await the `close()` of a manager evicted earlier, so such a
connection may still be up when the process exits (`StopLeavesOnlyEvicted` says
that these are the only ones); and the manager of an edited or removed record
stays open until the next resolve of that id, or the stop.


Behaviours met while modelling that the runs leave aside, each stated where it is
excluded in the module; what the repository says of it, if anything, is quoted:

* **Read again after an await** (`core/connection.ts:357`). `doConnect` re-reads
  `cached` but not `closed`: a call that was waiting when `close()` began answers
  "connected". The comment at line 50 says it gets the neutral payload.
* **The provider of a chat is not saved.** `shared/contract.ts:1183` and
  `ui/App.tsx:386` say the last used provider is persisted;
  `core/workspace-registry.ts:241` builds the snapshot anew without it
  (`WorkspaceFile!Validated`).
* **An unreadable Workspace file is overwritten.** `ui/App.tsx:500` leaves saving
  disabled so that "a good-but-unreadable file is never overwritten";
  `core/workspace-store.ts:178` answers a failed read with `null`, which the page
  takes for a first launch (`WorkspaceFile!ReadFails`).
* `SchemaTree`: a change in Settings while the first list loads, followed by a
  failed refresh, leaves the panel loading; of two repoints announced in one render
  the tree sees one.
* `ReportRuns`: a reply to an unmounted report may show the outcome of the target it
  had. A row clicked between a reply and its render writes the older entry back: the
  preview that came is dropped, or the block stays busy until a re-target, where the
  comment at `ui/report/ReportTabView.tsx:264` says it never strands "running…"
  (`clickedLate` marks these blocks). A preview of a block blanked while its run was
  in flight survives a re-target, still on the target it was previewed for, and
  the outcome of confirming it is dropped.
* `DriverSession`: a confirmed BEGIN, or autocommit switched off, leaves a
  transaction open on the session all tabs share, and the ROLLBACK of the next
  Postgres read undoes what was written in it (`leftOpen` holds these).
* `ErdLayout`: a table created before the introspection answered makes the
  diagram forget the arrangement of the others, and one created before any schema
  was known stays beside the table the introspection finds.
* `ChatCharts`: the note of a failed chart stays after a later one is drawn; a row
  clicked between a reply and its render restores the busy entry. `ChatStream`: a
  provider picked while an answer streams is taken back when it ends. `QueryTab`: a
  key pressed between a render and its effect can be overwritten; a page turned
  between a reply and its render may not exist.
* `LiveReport`: after a failed list of connections the picker shows the default
  while the pick is kept. `ProviderKeys`: a draft typed while a save is in flight is
  erased by its answer; a provider whose key was removed stays picked.
* `FrozenReport`: a date outside the years 0 to 9999 is written in a form
  `ISO_UTC_RE` refuses, so that its block cannot be frozen; a report falls back to
  a table for a chart over a column that is not numeric, the exported file does not.
* `RawScan`: PostgreSQL nests comments and the scanner does not, and MySQL has `#`
  comments, which are left out. A dollar tag right behind a word is part of the word
  to PostgreSQL and a quote to the scanner; words that touch are one word, and
  an E string right behind a dollar is no text PostgreSQL takes. MySQL reads what is
  inside a comment that opens with `/*!`, and the scanner does not. `Readable` says
  which texts are left for that, once, as a guard of `Type`. A span left open
  swallows the row bound; the server refuses such a text. A SHOW runs as it was
  typed, without a bound.

## 4. What is proved

`ConnectionManagerProofs`, for every set of requests, every bound on the refresh
turns and every number of catalog changes (assumptions: the three ASSUMEs of
`ConnectionManager`, that the bounds are naturals and `Nobody` is not a request):

| Theorem | Says |
|---|---|
| `TypeCorrect` | `Spec => []TypeOK` |
| `NoLostInvalidationHolds` | `Spec => []NoLostInvalidation` |
| `SingleFlightHolds` | `Spec => []SingleFlight` |
| `ClosedIsFinalHolds` | `Spec => []ClosedIsFinal` |
| `DriverHasMemoHolds` | `Spec => []DriverHasMemo` |
| `StaleAnswerHolds` | `Spec => []StaleAnswerWasOutrun` |
| `ManagerIsManagedDriver` | `Spec => ImplementsManagedDriver` |

The argument has two layers.

`Inv` is inductive on its own. `NoLostInvalidation` is not: it needs to know that
an introspection about to commit saw a catalog at least as new as every
acknowledged statement. That is `RefreshInv`: *if no invalidation has come since
the flight captured the generation*, its answer covers `acked`. The commit guard
compares exactly that generation, which is why it is needed. The first open has
no such guard, and needs none, because nobody can run a statement before there is
a driver: `ColdInv` says where requests stand until then. `CloseInv` ties the
progress of `close()` to the flights it has waited for, which with `SingleFlight`
gives `ClosedIsFinal`.

`LoopInv`, relative to `Inv`, counts. A request in turn `t` of `refreshIfStale`
waits for a flight that began after at least `t - 1` invalidations of this call,
or the memo already covers what the request may expect (`TurnInv`); a flight that
ended without an error committed, was overtaken, or met `close()` (`SettledInv`).
So a request that leaves the loop uncovered has been outrun in every turn but,
at most, the first one, which it may have joined half-way.

The refinement maps the physical connection to `driver` and the open flight, and
`close()` to the progress of the code's own close; each action is shown to be one
step of `ManagedDriver` or a stutter, from `Inv`.

`CoreShutdownProofs`, for any ids, urls, scopes and requests, any number of
managers and changes (assumptions: the ASSUMEs of `ConnectionTargets`, that the
bounds are naturals and an absent record is not a target):

| Theorem | Says |
|---|---|
| `ShutdownTyped` | `Spec => []ShutdownTypeOK` |
| `CacheServes` | `Spec => []CachedIffServing` |
| `RevocationHolds` | `Spec => []ServesRecordAsResolved` |
| `CacheHasStore` | `Spec => []CachedNeedsStore` |
| `StopIsOrderly` | `Spec => []StopLeavesOnlyEvicted` |
| `LockIsReleased` | `Spec => []LockStaysReleased` |

`CachedIffServing` needs, to be inductive, that no manager is cached for two ids
(`CacheInv`, or evicting one would close the other's) and that a manager not yet
made is not closed (`FreshInv`). `StopLeavesOnlyEvicted` follows from where
`stop()` stands: the latch keeps the cache empty (`LatchInv`), what it has awaited
is done (`AwaitInv`, `BootInv`), and a `close()` that is done has released its
connection (`DoneInv`).

`StoreLockProofs`, for any processes on any hosts, either kind of filesystem, and
any number of attempts and calls (assumptions: the ASSUMEs of `StoreLock`, and
those the table names):

| Theorem | Says |
|---|---|
| `TypeCorrect` | `Spec => []TypeOK` |
| `ExclusionHolds` | `Spec => []ExclusiveUnlessMisfired` |
| `RefusalHolds` | `Spec => []RefusalIsJustified`, given `MaxAttempts >= 2` |
| `ReleaseHolds` | `Spec => ReleaseSparesOthers`, given hard links |

The invariant makes every file traceable to the process that made it (`NameInv`,
`FreshInv`). `ExclusionInv` is what makes mutual exclusion inductive: while nothing
has misfired - no file was moved by a process that had not read it, or judged before
it had a body -, the file of everybody who holds, writes or releases the lock is the
one at the path, *and a file somebody has judged stale is nobody's*. The second
half is kept because a judged file can only be one that was there before, and a
new one gets a new token. `AccountInv` says whose a readable lock is, which
with `AloneInv` (the lock an undisturbed process probes is still there, and its
first reclaim is its last) gives `RefusalIsJustified`. One attempt would not be
enough: the reclaim would succeed and the call be refused all the same, hence the
assumption, which the code's constant of three meets. `ReleaseSparesOthers` is about a lock that release could read: one it did not
see, or failed to read, it may remove. Without hard links it does not hold: a file
may be judged before its body is written, and have one when it is removed.

`WorkspaceSaveProofs`, for any looks a Workspace may have, any number of edits and
requests, with and without time-outs (assumptions: the ASSUMEs of `WorkspaceSave`):

| Theorem | Says |
|---|---|
| `TypeCorrect` | `Spec => []TypeOK` |
| `SavesTrue` | `Spec => []SavesAreTrue` |
| `ImplementsAutosave` | `Spec => SavesInOrder`, that is, `Autosave` is implemented |

A request the Core has not handled is the one the scheduler awaits or one the page
has given up on (`WireInv`, `GateInv`): the single-flight gate as a fact about the
network. From it, what runs is younger than whatever may still land before it
(`OrderInv`, `SeenInv`), and once Stop was pressed nothing younger than its target
is under way (`TargetInv`). `MarkerInv` keeps the disk level with
`lastPersistedRef`, or one answer ahead of it, and `QuietInv` says which save a
page with no timer set still has to hear of; `SavesAreTrue` follows. Each action is
then shown to be a step of `Autosave` or a stutter.

`EncryptedStoresProofs`, for any processes, stores, passphrases, keys and salts
(assumptions: the ASSUMEs of `EncryptedStores`):

| Theorem | Says |
|---|---|
| `TypeCorrect` | `Spec => []TypeOK` |
| `MemoryMatches` | `Spec => []MemoryMatchesDisk` |
| `KeyRecovers` | `Spec => []KeyIsRecoverable` |
| `LockFollows` | `Spec => []LockFollowsStore` |

A process uses a store while it opens it and while it has it open. A locked store
has one user because the lock follows the store (`UseInv`, which holds
`LockFollowsStore`), the other one as long as nobody contends for it, hence
`AloneInv`. So what an open has read stays true across its remaining calls
(`ReadInv`), which is what a check made on one call and relied on by the next needs.
`FitsInv` ties each key, on disk or in a memory, to what can give it again, and
`TornInv` each lone descriptor to the creation that has still to write the file.

`PageProofs`, for any number of tabs, edits, rows, turns, documents and calls
(assumptions: the ASSUMEs of the five modules, that bounds are naturals and that
the ids of saved connections, which are random UUIDs, are none of the reserved
words):

| Theorem | Says |
|---|---|
| `TabsHold` | `TabsSpec => []TabsAreTrue` |
| `QueryTypeCorrect`, `TabIsTrue` | `QuerySpec => []QueryTypeOK`, `QuerySpec => []QueryTabIsTrue` |
| `ChatTypeCorrect`, `AnswersAreTrue` | `ChatSpec => []ChatTypeOK`, `ChatSpec => []AnswersAreWhole` |
| `ChartHolds` | `ChartsSpec => []ChartIsCurrent` |
| `KeysTypeCorrect`, `ListsAreTrue` | `KeysSpec => []KeysTypeOK`, `KeysSpec => []ProvidersAreTrue` |

* `WorkspaceTabs`. That a snapshot comes back as the Workspace it was taken of is no
  fact about one step: it rests on what every earlier step kept. Tabs have ids of
  their own below `nextId`, one of them is Settings at most, and one is active if
  there are any (`TabsOK`); a tab's content is its own (`SessionsInv`); layouts
  are whole and under ids given out, and never those of a Create-table tab, which
  is not written (`LayoutsInv`: otherwise restoring would lose one and the page
  would find a change to save). The missing-connection notice needs that the read
  under way, or the last one, is of the registry as the page knows it
  (`ConnsInv`). What the snapshot leaves out is a filter; the lemmas about it say
  that it enumerates its set of indices in order, each once, which is a one-to-one
  map between finite sets of one size being onto, and that one which drops nothing
  is the identity.
* `QueryTab`. While a statement is out the view shows it as busy and the render is
  not behind, so a confirmed statement is still the one in the dialog
  (`FlightInv`); a view shows one kind of reply, to the statement it was last
  sent, on a page that answer has (`ViewsInv`).
* `ChatStream`. What the page has read and what is on its way make up what the
  provider produced (`WireInv`), and only the last question's answer is read, with
  the conversation still the one it was asked in (`ReadingInv`), which is why
  appending to the captured conversation loses nothing.
* `ChatCharts`. The property speaks of frames at rest. The invariant follows the
  last message each way: the last document on its way to the guest, or else the
  one drawn, is the current one (`DocArrives`), and the last height on its way,
  pending or applied is that document's (`HeightArrives`). Earlier messages may be
  about anything.
* `ProviderKeys`. A panel at which no change outlived another sends one at a time
  and none before its list (`OneChange`), so its list, with the change that was
  made and not yet heard of, is the Core's (`ListedInv`). That the picker finds a
  first configured provider at all is the least-number principle
  (`DefaultIsConfigured`).

`LaunchProofs`, for any number of launches, releases, passphrases, pages and saves
(assumptions: the ASSUMEs of the four modules: releases and ports are numbers, the
loopback addresses are among those a Core may bind, the marks for "no passphrase"
are not passphrases):

| Theorem | Says |
|---|---|
| `NoticesHold` | `UpdateSpec => NoticesAreTrue`, an action property |
| `PassphraseHolds` | `FirstRunSpec => []PassphraseIsRight` |
| `PagesHold` | `RequestsSpec => []PagesAreServed` |
| `WorkspaceHolds` | `FileSpec => []WorkspaceSurvives` |

* `UpdateCheck`. What the registry has answered was released, in whichever program
  or file it now is (`AnswersAreReleases`); the file may be damaged, the clock set
  back and another program installed between any two steps.
* `FirstRun`. That both stores open with one passphrase needs to know what a boot
  has found out by the stage it is in (`StageIsRight`): at "create" neither store
  has a descriptor, at "unlock" the target is there, and what the Core is handed
  opened its target. Files match their descriptors in every crash (`FilesMatch`).
* `Requests`. An answer is owed to the request as it was sent and to the launch that
  answers (`AnswerIsRight`). The work is in the addresses: what the Core derives
  from its bind host and port, brackets and default port left out as a browser
  does, is what a browser sends back as host and origin.
* `WorkspaceFile`. The property is about what is lost; the invariant adds who may
  lose it. A page that saves has seen the file it saves over, or the newer build's
  file is in its backup (`SavingPageHasSeen`), and a temporary file belongs to
  such a page (`PageLivesInCore`).

`DataProofs`, for any number of calls, blocks, runs, rows, tables and connections
(assumptions: the ASSUMEs of the eight modules: bounds are naturals, pages and the
live registry are not of size zero, reserved names are not ids, what is typed is made
of the symbols of `RawScan`):

| Theorem | Says |
|---|---|
| `SessionHolds` | `DriverSpec => []SessionIsShared` |
| `ReportHolds` | `ReportSpec => []ReportIsTrue` |
| `LivePagesHold` | `LiveSpec => []LivePagesAreTrue` |
| `FrozenFileHolds` | `FrozenSpec => []FrozenFileIsTrue` |
| `GridHolds` | `TableSpec => []GridIsTrue` |
| `TablesHold` | `ErdSpec => []TablesStayPut` |
| `TreeHolds` | `TreeSpec => []TreeIsTrue` |
| `RawStatementsAgree` | `ScanSpec => []RawRunsOneStatement` |

* `RawScan`. The theorem is about a text of any length, made of any pieces, on either
  engine and in every mode. The work is in the operators, as the state is only the
  text. *Scanner and server.* For each kind of span there is a lemma that the server,
  entering it where the scanner does, leaves it where `ConsumeSpan` ends and not
  before (`LineIsSpan`, `BlockIsSpan`, `DollarIsSpan`, `QuotedIsSpan`, together
  `SpanIsRead`); by `ScanStep` each position the scanner comes to is one where the
  server is in its code, or at the end of the line a comment runs to. So the
  two agree on which words and semicolons are outside all spans (`ScanIsRead`).
  *Pieces.* `executeRaw` decides about a trimmed segment and runs it with a line
  appended, and neither is the text that was split. `PieceIsRead` says that a piece
  that starts in the code is read as it was in the whole, as far as it goes, and
  `PieceIsReadable` that its symbols stay readable; `BoundIsRead` that the bound's
  line is read as code unless a span was left open. *Induction.* The library's
  induction theorems cannot be instantiated, but a set of positions is data: a set
  that holds the first position and with each the next holds all (`SetInduction`,
  from the well-foundedness of the naturals), and each statement about all positions
  is proved as one about the set of those it holds for. The loops of the scanner,
  which jump, are handled by `Stops`: a position one of them comes to is the first or
  the next of another (`StopsAre`). `RawTextInv`, that the text is of symbols and
  readable, is the inductive invariant.
* `DriverSession`. The session's transaction is none, one that was left open, or
  that of the read whose turn it is (`TransactionsAreOwned`), for both engines: the
  queue of MySQL and the pool of one of PostgreSQL; a MySQL driver closed under a
  call is the exception. A call that finds a transaction finds one somebody left,
  never one a waiting call has begun, and a MySQL read begins its own even then. No
  table
  is shown without its columns because columns are read first.
* `ReportRuns`. Runs of a block are numbered in the order they were sent and no two
  in flight have one number (`RunsAreNumbered`); a preview that waits was shown,
  with the statement and the target it is confirmed on (`PreviewsWereShown`); what
  is drawn of a run is that run, or that it was busy (`DrawnRuns`), so that a click
  on an older render can put back no preview that is over; what a block owes comes
  with its newest run or has come (`DueComes`), which re-targeting would break if it
  left a run behind; and `RunsAreBusy` is the property's last part, whether or not
  the report is shown.
* `LiveReport`. The registry is the run of the newest numbers (`StoreIsRecent`).
  Requests of earlier runs may still come; every block of the newest is asked of
  the connection the picker shows, or answered by it (`RunsAreOrdered`).
* `FrozenReport`. Block, click and file are each of one answer (`ShowsAnswer`,
  `IsFileOf`). Beneath it are the lemmas about the encoding: the kind inferred of a
  column fits each of its values, so a tagged cell can be encoded unless it is a
  far date (`ColumnKinds`, `TaggedCells`); reading gives back what writing took;
  and an edit of the file leaves well-formed cells or is refused.
* `TableTab`. While the page has heard of every change, the load it awaits brings,
  and the grid shows, what the table holds (`GridInv`); a pick is of the row shown
  at its position (`PicksInv`), so a change is of the row that was asked for.
* `ErdLayout`. What the layout keeps and what is drawn are where the user last saw
  the tables (`ErdInv`); deriving the graph anew moves none that had a place.
* `SchemaTree`. A connection is clean once the page has heard of all that was done
  to it; the newest read is right about the clean ones (`ReadsInv`), the roots
  shown are the roots known (`ViewInv`), and a root's catalog, shown or on its
  way, is of the database its record names unless the page is yet to be told
  (`CatalogsInv`). The settled tree is a consequence; lists, connects and changes
  are in flight in any number and order.

Model-checked only: liveness (`RequestsAnswered`, `CloseCompletes`, `StopCompletes`,
`CallsReturn`, `DrainCompletes`, `TurnsEnd`) and ENABLED, which the proof system does
not handle.

Every other property of the passing runs is a theorem, and the violated ones are
refuted by their runs. The type invariants, `SingleFlight`, `DriverHasMemo`,
`CachedNeedsStore` and `LockStaysReleased` are proved and no longer part of a run.

## 5. Not modelled

See `components` in `PROJECT.json` for every part and what is left out of it.
Rendering, layout, markup, the drawing of charts, help text and the parsing of
the command line have no behaviour over time. Encryption and key derivation are
assumed to do what they say. Damaged files of the credential store, tampering and
values of the wrong shape are left to unit tests. The library that talks to the
chat providers, the database servers, the keychain and the browser are external:
what the code in `src/` may see of them is a choice in the models.

## 6. Plan

1. **Refinement**: `TableTab` and `ReportRuns` as implementations of one abstract
   "latest request wins" view, which both now state as invariants of their own.
2. **Larger parts**: two saved connections in `SchemaTree` and `LiveReport`, whose
   runs are bounded by time.
3. **Left to model**: the key-by-key terminal prompt, the column types and SQL text
   of structured operations, the parsing of answers into SQL and chart fences.
