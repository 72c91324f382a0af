---------------------------- MODULE WorkspaceFile ----------------------------
(***************************************************************************)
(* workspace-state.json from one launch to the next: the total load and    *)
(* the atomic save of src/src/core/workspace-store.ts, the validation and  *)
(* the lazily opened store of workspace-registry.ts, the load effect of    *)
(* App.tsx that decides whether the page may save, and what else writes    *)
(* the file: a newer build that ran in between, an editor.                 *)
(*                                                                         *)
(* The order of the page's saves is module WorkspaceSave; here one is sent *)
(* at a time.  Of a snapshot there is the mark of the arrangement, every   *)
(* one a new mark, and the provider the chat was last used with.  Whether  *)
(* the arrangement itself is accepted and restored is WorkspaceTabs.  A    *)
(* page dies with its Core: the next one has another token.                *)
(***************************************************************************)
EXTENDS Naturals

CONSTANTS ChatProviders,  \* providers a chat may use
          MaxMarks        \* bound: arrangements made, by this build or a newer one

ASSUME WorkspaceFileAssumption == "none" \notin ChatProviders /\ MaxMarks \in Nat

VARIABLES
    stateFile,   \* workspace-state.json: form, mark and provider
    newerBackup, \* workspace-state.json.v2.bak: a mark, 0 without one
    launch,      \* Core: run mode, "down" when none runs, and whether the store is open
    temporary,   \* the temporary file of the save under way, None without one
    pageState,   \* the page: stage, savingEnabled, what it shows, lastPersistedRef
    marks,       \* arrangements so far
    newest,      \* history: the mark a newer build wrote last
    excused,     \* history: reads and backups of that one failed
    acked,       \* history: what the file holds as far as the page was told, if it was
    blind        \* history: a save replaced a snapshot its page had not seen

fileVars == <<stateFile, newerBackup, launch, temporary, pageState, marks, newest, excused,
              acked, blind>>

None     == [mark |-> 0, provider |-> "none"]
Absent   == [form |-> "absent", mark |-> 0, provider |-> "none"]
NoPage   == [stage |-> "closed", saving |-> FALSE, shows |-> None, persisted |-> None, seen |-> {}]
NoLaunch == [mode |-> "down", opened |-> FALSE]

FileInit ==
    /\ stateFile = Absent /\ newerBackup = 0 /\ launch = NoLaunch /\ temporary = None
    /\ pageState = NoPage /\ marks = 0
    /\ newest = 0 /\ excused = FALSE /\ acked = {} /\ blind = FALSE

-----------------------------------------------------------------------------
(* Core and the page start.                                                *)

Launch(mode) ==
    /\ launch = NoLaunch
    /\ launch' = [mode |-> mode, opened |-> FALSE]
    /\ UNCHANGED <<stateFile, newerBackup, temporary, pageState, marks, newest, excused, acked, blind>>

\* Core ends, or dies anywhere: between the two calls of a save the temporary
\* file is left behind.
CoreEnds ==
    /\ launch # NoLaunch
    /\ launch' = NoLaunch /\ temporary' = None /\ pageState' = NoPage
    /\ UNCHANGED <<stateFile, newerBackup, marks, newest, excused, acked, blind>>

\* obtain: the store is opened once; a failure is answered and not remembered.
Obtain(got) ==
    /\ launch.mode = "ephemeral" \/ launch.opened => got
    /\ launch' = [launch EXCEPT !.opened = got]

\* The page after a load that answered s, or none.
Restored(s, seen) ==
    [stage |-> "shown", saving |-> TRUE, shows |-> s, persisted |-> s, seen |-> seen]

\* Mutant of LoadFailed: saving is on after a failed load.
LoadFailedSaving ==
    /\ pageState.stage = "closed" /\ launch # NoLaunch
    /\ Obtain(FALSE) \/ UNCHANGED launch
    /\ pageState' = Restored(None, {})
    /\ UNCHANGED <<stateFile, newerBackup, temporary, marks, newest, excused, acked, blind>>

\* workspace.load is answered with an error, or not answered: the page stays
\* blank and never saves.
LoadFailed ==
    /\ pageState.stage = "closed" /\ launch # NoLaunch
    /\ Obtain(FALSE) \/ UNCHANGED launch
    /\ pageState' = [NoPage EXCEPT !.stage = "shown"]
    /\ UNCHANGED <<stateFile, newerBackup, temporary, marks, newest, excused, acked, blind>>

\* load of a file that is there and of this version.
LoadSnapshot ==
    /\ pageState.stage = "closed" /\ launch.mode = "persistent" /\ stateFile.form = "good"
    /\ Obtain(TRUE)
    /\ pageState' = Restored([mark |-> stateFile.mark, provider |-> stateFile.provider],
                             {stateFile.mark})
    /\ acked' = {stateFile.mark}
    /\ UNCHANGED <<stateFile, newerBackup, temporary, marks, newest, excused, blind>>

\* Mutant of LoadNothing: a newer file is not copied.
LoadNothingPlain ==
    /\ pageState.stage = "closed" /\ launch # NoLaunch
    /\ Obtain(TRUE)
    /\ launch.mode = "ephemeral" \/ stateFile.form # "good"
    /\ pageState' = Restored(None, {})
    /\ UNCHANGED <<stateFile, newerBackup, temporary, marks, newest, excused, acked, blind>>

\* load that degrades to null, which the page takes for a first launch: no file,
\* one that is not a snapshot, and one of a newer version, copied aside first if
\* that succeeds.  Without a directory for it, in Ephemeral mode, none is read.
LoadNothing ==
    /\ pageState.stage = "closed" /\ launch # NoLaunch
    /\ Obtain(TRUE)
    /\ \/ /\ launch.mode = "ephemeral" \/ stateFile.form \in {"absent", "unusable"}
          /\ UNCHANGED <<newerBackup, excused>>
       \/ /\ launch.mode = "persistent" /\ stateFile.form = "newer"
          /\ \/ newerBackup' = stateFile.mark /\ UNCHANGED excused
             \/ excused' = TRUE /\ UNCHANGED newerBackup
    /\ pageState' = Restored(None, {})
    /\ UNCHANGED <<stateFile, temporary, marks, newest, acked, blind>>

\* A file that is there and cannot be read degrades to null too.
ReadFails ==
    /\ pageState.stage = "closed" /\ launch.mode = "persistent" /\ stateFile.form # "absent"
    /\ Obtain(TRUE)
    /\ pageState' = Restored(None, {stateFile.mark})
    /\ excused' = TRUE
    /\ UNCHANGED <<stateFile, newerBackup, temporary, marks, newest, acked, blind>>

\* The page is loaded again; Core finishes a save before it answers the load.
ClosePage ==
    /\ pageState.stage = "shown" /\ temporary = None
    /\ pageState' = NoPage
    /\ UNCHANGED <<stateFile, newerBackup, launch, temporary, marks, newest, excused, acked, blind>>

-----------------------------------------------------------------------------
(* Saving.                                                                 *)

Rearrange ==
    /\ pageState.stage = "shown" /\ marks < MaxMarks
    /\ marks' = marks + 1
    /\ pageState' = [pageState EXCEPT !.shows.mark = marks + 1]
    /\ UNCHANGED <<stateFile, newerBackup, launch, temporary, newest, excused, acked, blind>>

\* A chat reports the provider it uses.
PickProvider(p) ==
    /\ pageState.stage = "shown"
    /\ pageState' = [pageState EXCEPT !.shows.provider = p]
    /\ UNCHANGED <<stateFile, newerBackup, launch, temporary, marks, newest, excused, acked, blind>>

\* What validateSnapshotParams builds anew of the snapshot it was sent.
Validated(s) == [s EXCEPT !.provider = "none"]

\* Mutant of SaveBegins: the file itself is written.
SaveInPlace ==
    /\ pageState.saving /\ pageState.shows # pageState.persisted
    /\ launch.mode = "persistent" /\ temporary = None
    /\ Obtain(TRUE)
    /\ temporary' = pageState.shows
    /\ stateFile' = [form |-> "unusable", mark |-> 0, provider |-> "none"]
    /\ UNCHANGED <<newerBackup, pageState, marks, newest, excused, acked, blind>>

\* save writes the temporary file.
SaveBegins ==
    /\ pageState.saving /\ pageState.shows # pageState.persisted
    /\ launch.mode = "persistent" /\ temporary = None
    /\ Obtain(TRUE)
    /\ temporary' = pageState.shows
    /\ UNCHANGED <<stateFile, newerBackup, pageState, marks, newest, excused, acked, blind>>

\* It is renamed over the file; the reply comes, or is lost.
SaveRenames ==
    /\ temporary # None
    /\ stateFile' = [form |-> "good", mark |-> temporary.mark, provider |-> Validated(temporary).provider]
    /\ temporary' = None
    /\ blind' = (blind \/ (stateFile.form = "good" /\ stateFile.mark \notin pageState.seen))
    /\ \/ /\ pageState' = [pageState EXCEPT !.persisted = temporary, !.seen = @ \cup {temporary.mark}]
          /\ acked' = {temporary.mark}
       \/ /\ pageState' = [pageState EXCEPT !.seen = @ \cup {temporary.mark}]
          /\ acked' = {}
    /\ UNCHANGED <<newerBackup, launch, marks, newest, excused>>

\* A call of the save fails: the temporary file is removed.
SaveFails ==
    /\ temporary # None
    /\ temporary' = None
    /\ UNCHANGED <<stateFile, newerBackup, launch, pageState, marks, newest, excused, acked, blind>>

\* Ephemeral: nothing is written, and the page is told that all is well.
SaveNowhere ==
    /\ pageState.saving /\ pageState.shows # pageState.persisted
    /\ launch.mode = "ephemeral"
    /\ Obtain(TRUE)
    /\ pageState' = [pageState EXCEPT !.persisted = pageState.shows]
    /\ UNCHANGED <<stateFile, newerBackup, temporary, marks, newest, excused, acked, blind>>

-----------------------------------------------------------------------------
(* Others, while no Core of this build runs.                               *)

NewerBuildSaves ==
    /\ launch = NoLaunch /\ marks < MaxMarks
    /\ marks' = marks + 1
    /\ stateFile' = [form |-> "newer", mark |-> marks + 1, provider |-> "none"]
    /\ newest' = marks + 1 /\ excused' = FALSE /\ acked' = {}
    /\ UNCHANGED <<newerBackup, launch, temporary, pageState, blind>>

HandEdit ==
    /\ launch = NoLaunch /\ stateFile.form = "good"
    /\ stateFile' = [form |-> "unusable", mark |-> 0, provider |-> "none"]
    /\ acked' = {}
    /\ UNCHANGED <<newerBackup, launch, temporary, pageState, marks, newest, excused, blind>>

-----------------------------------------------------------------------------

FileNext ==
    \/ \E mode \in {"persistent", "ephemeral"} : Launch(mode)
    \/ CoreEnds \/ LoadFailed \/ LoadSnapshot \/ LoadNothing \/ ReadFails \/ ClosePage
    \/ Rearrange \/ \E p \in ChatProviders : PickProvider(p)
    \/ SaveBegins \/ SaveRenames \/ SaveFails \/ SaveNowhere
    \/ NewerBuildSaves \/ HandEdit

FileSpec == FileInit /\ [][FileNext]_fileVars

-----------------------------------------------------------------------------
(* Properties.                                                             *)

\* What was saved survives crashes, failures and downgrades.  The file holds the
\* arrangement the page was last told is saved, or the one whose reply it is
\* waiting for; no save replaces a snapshot its page had neither restored nor
\* been answered null for, which is also the answer for a file of a newer build
\* and for one that cannot be read; and what a newer build saved last is in the
\* file or in its backup, unless the file could not be read or copied.
WorkspaceSurvives ==
    /\ \A m \in acked : stateFile.form = "good" /\ stateFile.mark = m
    /\ ~blind
    /\ newest # 0 /\ ~excused =>
         \/ stateFile.form = "newer" /\ stateFile.mark = newest
         \/ newerBackup = newest

=============================================================================
