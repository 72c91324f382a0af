------------------------------ MODULE UpdateCheck ------------------------------
(***************************************************************************)
(* The check for a newer release at launch (src/src/core/update-check.ts): *)
(* launches of the program, several at a time, share a cache file; each    *)
(* tells of what the file knows and, when that is old, asks the registry   *)
(* for the next one.  The clock may be set back.                           *)
(***************************************************************************)
EXTENDS Naturals

CONSTANTS Programs,    \* programs that may run at the same time
          Releases,    \* versions, ordered as numbers
          Prereleases, \* those of them that are prereleases
          TtlMs,       \* how long an answer is believed
          MaxClock     \* bound: the time on the clock

ASSUME UpdateAssumption == /\ Releases \subseteq Nat \ {0} /\ Prereleases \subseteq Releases
                           /\ TtlMs \in Nat \ {0} /\ MaxClock \in Nat

VARIABLES
    clock,     \* Date.now()
    released,  \* what the registry calls latest
    everReleased,   \* history: everything it has called so
    installed, \* VERSION of the programs launched from now on
    cacheFile, \* update-check.json: an answer and its time, or NoCache
    programs,   \* by program: its version, and where its check is
    notice,    \* history: the last notice, and the version it was given to
    fetchedBy  \* by program: the version the registry gave it

updateVars == <<clock, released, everReleased, installed, cacheFile, programs, notice, fetchedBy>>

NoCache  == [latest |-> 0, checkedAt |-> 0]
NotRun   == [version |-> 0, at |-> "ended"]
NoNotice == [latest |-> 0, version |-> 0]

\* Mutant of IsNewer: prereleases are told of.
IsNewerOrPre(latest, current) == latest > current

\* isNewer: never a prerelease.
IsNewer(latest, current) == latest \notin Prereleases /\ latest > current

\* Mutant of IsCacheStale: a time to come counts as fresh.
IsCacheOld(checkedAt) == checkedAt <= clock /\ clock - checkedAt >= TtlMs

\* isCacheStale: old, or from a time that is still to come.
IsCacheStale(checkedAt) == checkedAt > clock \/ clock - checkedAt >= TtlMs

UpdateInit ==
    /\ clock = 0 /\ \E v \in Releases : released = v /\ installed = v /\ everReleased = {v}
    /\ cacheFile = NoCache /\ notice = NoNotice
    /\ programs = [p \in Programs |-> NotRun] /\ fetchedBy = [p \in Programs |-> 0]

-----------------------------------------------------------------------------

Release(v) ==
    /\ v > released /\ released' = v /\ everReleased' = everReleased \cup {v}
    /\ UNCHANGED <<clock, installed, cacheFile, programs, notice, fetchedBy>>

Upgrade ==
    /\ installed' = released
    /\ UNCHANGED <<clock, released, everReleased, cacheFile, programs, notice, fetchedBy>>

ClockMoves ==
    /\ clock' \in {IF clock < MaxClock THEN clock + 1 ELSE clock, 0}
    /\ UNCHANGED <<released, everReleased, installed, cacheFile, programs, notice, fetchedBy>>

\* runUpdateCheck: not when ephemeral or opted out; else the notice first, from
\* the file, then perhaps a request, which the launch does not wait for.
LaunchChecks(p, quiet) ==
    /\ programs[p].at = "ended"
    /\ programs' = [programs EXCEPT ![p] =
         [version |-> installed,
          at |-> IF quiet THEN "quiet"
                 ELSE IF cacheFile = NoCache \/ IsCacheStale(cacheFile.checkedAt) THEN "asking"
                 ELSE "believing"]]
    /\ notice' = IF ~quiet /\ cacheFile # NoCache /\ IsNewer(cacheFile.latest, installed)
                 THEN [latest |-> cacheFile.latest, version |-> installed] ELSE notice
    /\ UNCHANGED <<clock, released, everReleased, installed, cacheFile, fetchedBy>>

\* refreshCache: the answer, which is a version or is dropped, as is none in time.
RegistryAnswers(p, answered) ==
    /\ programs[p].at = "asking"
    /\ programs' = [programs EXCEPT ![p].at = IF answered THEN "fetched" ELSE "checked"]
    /\ fetchedBy' = IF answered THEN [fetchedBy EXCEPT ![p] = released] ELSE fetchedBy
    /\ UNCHANGED <<clock, released, everReleased, installed, cacheFile, notice>>

\* writeCacheToDisk: a file of its own, renamed; a failure is dropped.
WriteUpdateCache(p, written) ==
    /\ programs[p].at = "fetched"
    /\ programs' = [programs EXCEPT ![p].at = "checked"]
    /\ fetchedBy' = [fetchedBy EXCEPT ![p] = 0]
    /\ cacheFile' = IF written THEN [latest |-> fetchedBy[p], checkedAt |-> clock] ELSE cacheFile
    /\ UNCHANGED <<clock, released, everReleased, installed, notice>>

\* The program ends, whatever its check was doing.
ProgramEnds(p) ==
    /\ programs[p].at # "ended"
    /\ programs' = [programs EXCEPT ![p] = NotRun]
    /\ fetchedBy' = [fetchedBy EXCEPT ![p] = 0]
    /\ UNCHANGED <<clock, released, everReleased, installed, cacheFile, notice>>

\* The file is spoilt or removed: it is read as none.
CacheIsSpoilt ==
    /\ cacheFile # NoCache /\ cacheFile' = NoCache
    /\ UNCHANGED <<clock, released, everReleased, installed, programs, notice, fetchedBy>>

UpdateNext ==
    \/ \E v \in Releases : Release(v)
    \/ Upgrade \/ ClockMoves \/ CacheIsSpoilt
    \/ \E p \in Programs, b \in BOOLEAN :
         LaunchChecks(p, b) \/ RegistryAnswers(p, b) \/ WriteUpdateCache(p, b)
    \/ \E p \in Programs : ProgramEnds(p)

UpdateSpec == UpdateInit /\ [][UpdateNext]_updateVars

\* A notice names a version the registry has called latest, no prerelease and newer
\* than the program it is given to, an upgrade in between or not; and a launch that
\* believes the file does so for an answer no older, by the clock, than it may be.
NoticesAreTrue ==
    [][ /\ notice' # notice => /\ notice'.latest \in everReleased \ Prereleases
                               /\ notice'.latest > installed /\ notice'.version = installed
        /\ \A p \in Programs : programs'[p].at = "believing" /\ programs[p].at # "believing" =>
             cacheFile.checkedAt \in {t \in 0 .. clock : clock < t + TtlMs} ]_updateVars

=============================================================================
