----------------------------- MODULE StoreLock -----------------------------
(***************************************************************************)
(* The advisory writer lock of the credential store (src/core/store-lock.ts*)
(* ): a file beside the store that names its holder.  Several quick-studio *)
(* processes, on one or more hosts, share the directory.                   *)
(*                                                                         *)
(* A process is single-threaded and acquire and release are synchronous, so*)
(* it runs one call at a time; between processes every system call may     *)
(* interleave, and an action is one system call with the decision the code *)
(* takes on its result.  A process may die at any point and its pid may be *)
(* given to a new quick-studio process.                                    *)
(*                                                                         *)
(* Each acquire call draws a fresh uuid; the number of the call stands for *)
(* it, and for the file it creates.  0 stands for no file.  The temporary  *)
(* .acquire and .stale files have unique names nobody else opens and are   *)
(* left out.                                                               *)
(***************************************************************************)
EXTENDS Naturals

CONSTANTS
  Procs,        \* processes, by pid
  HostOf,       \* the host each of them runs on
  HardLinks,    \* whether the filesystem of the app directory has hard links
  ReadsFail,    \* whether the reading of a lock file may fail
  MaxAttempts,  \* MAX_ACQUIRE_ATTEMPTS
  MaxCalls      \* bound: acquire calls made altogether

ASSUME ProcsAssumption == Procs # {} /\ DOMAIN HostOf = Procs
ASSUME LinksAssumption == HardLinks \in BOOLEAN /\ ReadsFail \in BOOLEAN
ASSUME AttemptsAssumption == MaxAttempts \in Nat \ {0}
ASSUME CallsAssumption == MaxCalls \in Nat

VARIABLES
  lock,         \* the file at lockPath, 0 for none
  written,      \* files whose body has been written
  running,      \* processes that are alive
  holding,      \* processes whose release function has not been called
  pc,           \* the system call each process makes next
  token,        \* the token of each process's latest acquire call
  attempt,      \* the loop counter of acquireStoreLock
  judged,       \* the file the latest readLockInfo of a process read, 0 for none
  outcome,      \* what the latest acquire of a process returned
  calls,        \* acquire calls so far
  owner,        \* the process that made each call
  orphans,      \* history: tokens of processes that have died since
  kept,         \* history: tokens whose file release failed to remove
  misfires,     \* history: how a file was moved that its mover had not judged
  undisturbed   \* history: processes nobody interfered with since they began

files == <<lock, written>>
processes == <<running, holding, pc, token, attempt, judged, outcome>>
names == <<calls, owner>>
history == <<orphans, kept, misfires, undisturbed>>
vars == <<files, processes, names, history>>

Files == 1 .. MaxCalls
Pcs == {"idle", "create", "write", "read", "probe", "rename", "check", "remove"}
Outcomes == {"none", "acquired", "held", "unavailable"}
Misfires == {"unread", "unwritten"}

TypeOK ==
  /\ lock \in Nat
  /\ written \subseteq Nat
  /\ running \subseteq Procs
  /\ holding \subseteq running
  /\ pc \in [Procs -> Pcs]
  /\ token \in [Procs -> Nat]
  /\ attempt \in [Procs -> Nat]
  /\ judged \in [Procs -> Nat]
  /\ outcome \in [Procs -> Outcomes]
  /\ calls \in Nat
  /\ owner \in [Files -> Procs]
  /\ orphans \subseteq Nat
  /\ kept \subseteq Nat
  /\ misfires \subseteq Misfires
  /\ undisturbed \subseteq Procs
  /\ \A p \in Procs : attempt[p] <= MaxAttempts

Init ==
  /\ lock = 0 /\ written = {}
  /\ running = Procs /\ holding = {}
  /\ pc = [p \in Procs |-> "idle"]
  /\ token = [p \in Procs |-> 0]
  /\ attempt = [p \in Procs |-> 0]
  /\ judged = [p \in Procs |-> 0]
  /\ outcome = [p \in Procs |-> "none"]
  /\ calls = 0
  /\ owner = [f \in Files |-> CHOOSE p \in Procs : TRUE]    \* read only up to `calls'
  /\ orphans = {} /\ kept = {} /\ misfires = {} /\ undisturbed = {}

Goto(p, step) == pc' = [pc EXCEPT ![p] = step]

Return(p, result) ==
  /\ Goto(p, "idle")
  /\ outcome' = [outcome EXCEPT ![p] = result]

\* A step of p that others can notice: only p itself stays undisturbed.
Disturbs(p) == undisturbed' = undisturbed \cap {p}

-----------------------------------------------------------------------------
(* acquireStoreLock.                                                        *)

\* The product opens the store once per process at a time: the registry
\* memoizes it, and the first-run probe closes its own before the Core starts.
Acquire(p) ==
  /\ p \in running \ holding /\ pc[p] = "idle"
  /\ calls < MaxCalls
  /\ calls' = calls + 1
  /\ owner' = [owner EXCEPT ![calls + 1] = p]
  /\ token' = [token EXCEPT ![p] = calls + 1]
  /\ attempt' = [attempt EXCEPT ![p] = 0]
  /\ undisturbed' = undisturbed \cup {p}
  /\ Goto(p, "create")
  /\ outcome' = [outcome EXCEPT ![p] = "none"]
  /\ UNCHANGED <<files, running, holding, judged, orphans, kept, misfires>>

Acquired(p) ==
  /\ holding' = holding \cup {p}
  /\ Return(p, "acquired")

\* createExclusive with hard links: the file appears with its body.
CreateLinked(p) ==
  /\ HardLinks
  /\ pc[p] = "create" /\ lock = 0
  /\ lock' = token[p]
  /\ written' = written \cup {token[p]}
  /\ Acquired(p)
  /\ Disturbs(p)
  /\ UNCHANGED <<running, token, attempt, judged, names, orphans, kept, misfires>>

\* Its fallback: open with O_EXCL, then write.
CreateEmpty(p) ==
  /\ ~HardLinks
  /\ pc[p] = "create" /\ lock = 0
  /\ lock' = token[p]
  /\ Goto(p, "write")
  /\ Disturbs(p)
  /\ UNCHANGED <<written, running, holding, token, attempt, judged, outcome, names,
                 orphans, kept, misfires>>

\* The descriptor still reaches the file if somebody has moved it meanwhile.
WriteBody(p) ==
  /\ pc[p] = "write"
  /\ written' = written \cup {token[p]}
  /\ Acquired(p)
  /\ Disturbs(p)
  /\ UNCHANGED <<lock, running, token, attempt, judged, names, orphans, kept, misfires>>

\* An error other than EEXIST, from any of createExclusive's calls.
CreateFails(p) ==
  /\ pc[p] \in {"create", "write"}
  /\ Return(p, "unavailable")
  /\ UNCHANGED <<files, running, holding, token, attempt, judged, names, history>>

CreateExists(p) ==
  /\ pc[p] = "create" /\ lock # 0
  /\ Goto(p, "read")
  /\ UNCHANGED <<files, running, holding, token, attempt, judged, outcome, names, history>>

\* The body is not there to be read: the file vanished, or has none yet.
Unreadable == lock \notin written

\* Mutant of ReadInfo: the foreign-host branch probes the pid on this host.
ReadInfoIgnoringHost(p) ==
  /\ pc[p] = "read"
  /\ judged' = [judged EXCEPT ![p] = lock]
  /\ \/ /\ Unreadable \/ HostOf[owner[lock]] # HostOf[p] \/ owner[lock] = p
        /\ Goto(p, "rename")
     \/ /\ ~Unreadable /\ owner[lock] # p /\ HostOf[owner[lock]] = HostOf[p]
        /\ Goto(p, "probe")
  /\ UNCHANGED <<files, running, holding, token, attempt, outcome, names, history>>

\* readLockInfo, when the read goes through, and the decision on what it says.
ReadInfo(p) ==
  /\ pc[p] = "read"
  /\ judged' = [judged EXCEPT ![p] = lock]
  /\ \/ /\ Unreadable
        /\ Goto(p, "rename")
        /\ UNCHANGED outcome
     \/ /\ ~Unreadable /\ HostOf[owner[lock]] # HostOf[p]
        /\ Return(p, "held")
     \/ /\ ~Unreadable /\ owner[lock] = p
        /\ Goto(p, "rename")
        /\ UNCHANGED outcome
     \/ /\ ~Unreadable /\ owner[lock] # p /\ HostOf[owner[lock]] = HostOf[p]
        /\ Goto(p, "probe")
        /\ UNCHANGED outcome
  /\ misfires' = misfires \cup
       {m \in {"unwritten"} : \E q \in running : pc[q] = "write" /\ token[q] = lock}
  /\ UNCHANGED <<files, running, holding, token, attempt, names, orphans, kept, undisturbed>>

\* readText throws (EACCES, EIO, EMFILE): null as well, whatever the lock says.
ReadFails(p) ==
  /\ ReadsFail
  /\ pc[p] = "read"
  /\ judged' = [judged EXCEPT ![p] = 0]
  /\ Goto(p, "rename")
  /\ UNCHANGED <<files, running, holding, token, attempt, outcome, names, history>>

\* Mutants of Probe: every error of kill taken for a dead process; for a live one.
ProbeDead(p) ==
  /\ pc[p] = "probe"
  /\ Goto(p, "rename")
  /\ UNCHANGED <<files, running, holding, token, attempt, judged, outcome, names, history>>

ProbeAlive(p) ==
  /\ pc[p] = "probe"
  /\ Return(p, "held")
  /\ UNCHANGED <<files, running, holding, token, attempt, judged, names, history>>

\* isProcessAlive: kill(pid, 0).
Probe(p) ==
  /\ pc[p] = "probe"
  /\ IF owner[judged[p]] \in running
     THEN Return(p, "held")
     ELSE Goto(p, "rename") /\ UNCHANGED outcome
  /\ UNCHANGED <<files, running, holding, token, attempt, judged, names, history>>

\* Mutant of NextAttempt: the increment dropped.
ForgottenIncrement(p) ==
  /\ UNCHANGED <<attempt, outcome>>
  /\ Goto(p, "create")

\* The for loop's increment and test.
NextAttempt(p) ==
  /\ attempt' = [attempt EXCEPT ![p] = @ + 1]
  /\ IF attempt[p] + 1 < MaxAttempts
     THEN Goto(p, "create") /\ UNCHANGED outcome
     ELSE Return(p, "held")

\* A path call acts on whatever file is at the path now: another one than its
\* caller has read, or one it failed to read.
Unread(p) == {m \in {"unread"} : lock \notin {0, judged[p]}}

\* reclaim: rename away what is at lockPath; ENOENT when nothing is.
Rename(p) ==
  /\ pc[p] = "rename"
  /\ lock' = 0
  /\ misfires' = misfires \cup Unread(p)
  /\ NextAttempt(p)
  /\ Disturbs(p)
  /\ UNCHANGED <<written, running, holding, token, judged, names, orphans, kept>>

RenameFails(p) ==
  /\ pc[p] = "rename"
  /\ NextAttempt(p)
  /\ undisturbed' = undisturbed \ {p}
  /\ UNCHANGED <<files, running, holding, token, judged, names, orphans, kept, misfires>>

-----------------------------------------------------------------------------
(* The release function.                                                    *)

Release(p) ==
  /\ p \in holding /\ pc[p] = "idle"
  /\ holding' = holding \ {p}
  /\ Goto(p, "check")
  /\ Disturbs(p)
  /\ UNCHANGED <<files, running, token, attempt, judged, outcome, names, orphans, kept, misfires>>

\* Mutant of ReleaseCheck: no token guard.
ReleaseUnguarded(p) ==
  /\ pc[p] = "check"
  /\ judged' = [judged EXCEPT ![p] = lock]
  /\ Goto(p, "remove")
  /\ UNCHANGED <<files, running, holding, token, attempt, outcome, names, history>>

\* Only a file that is read and names another acquire is spared.
ReleaseCheck(p) ==
  /\ pc[p] = "check"
  /\ judged' = [judged EXCEPT ![p] = lock]
  /\ Goto(p, IF Unreadable \/ lock = token[p] THEN "remove" ELSE "idle")
  /\ UNCHANGED <<files, running, holding, token, attempt, outcome, names, history>>

\* readText throws: release takes the lock for its own.
ReleaseCheckFails(p) ==
  /\ ReadsFail
  /\ pc[p] = "check"
  /\ judged' = [judged EXCEPT ![p] = 0]
  /\ Goto(p, "remove")
  /\ UNCHANGED <<files, running, holding, token, attempt, outcome, names, history>>

Remove(p) ==
  /\ pc[p] = "remove"
  /\ lock' = 0
  /\ misfires' = misfires \cup Unread(p)
  /\ Goto(p, "idle")
  /\ Disturbs(p)
  /\ UNCHANGED <<written, running, holding, token, attempt, judged, outcome, names, orphans, kept>>

RemoveFails(p) ==
  /\ pc[p] = "remove"
  /\ kept' = kept \cup {token[p]}
  /\ Goto(p, "idle")
  /\ UNCHANGED <<files, running, holding, token, attempt, judged, outcome, names, orphans,
                 misfires, undisturbed>>

-----------------------------------------------------------------------------
(* The operating system.                                                    *)

Crash(p) ==
  /\ p \in running
  /\ running' = running \ {p}
  /\ holding' = holding \ {p}
  /\ Return(p, "none")
  /\ orphans' = orphans \cup {f \in Files : f <= calls /\ owner[f] = p}
  /\ Disturbs(p)
  /\ UNCHANGED <<files, token, attempt, judged, names, kept, misfires>>

\* A new process that is given the pid.
Restart(p) ==
  /\ p \notin running
  /\ running' = running \cup {p}
  /\ Disturbs(p)
  /\ UNCHANGED <<files, holding, pc, token, attempt, judged, outcome, names, orphans,
                 kept, misfires>>

-----------------------------------------------------------------------------

SystemCall(p) ==
  \/ CreateLinked(p) \/ CreateEmpty(p) \/ WriteBody(p) \/ CreateFails(p) \/ CreateExists(p)
  \/ ReadInfo(p) \/ ReadFails(p) \/ Probe(p) \/ Rename(p) \/ RenameFails(p)
  \/ ReleaseCheck(p) \/ ReleaseCheckFails(p) \/ Remove(p) \/ RemoveFails(p)

Next == \E p \in Procs :
  Acquire(p) \/ SystemCall(p) \/ Release(p) \/ Crash(p) \/ Restart(p)

Spec == Init /\ [][Next]_vars

\* A process that is alive gets to make its next system call.
FairSpec == Spec /\ \A p \in Procs : WF_vars(SystemCall(p))

-----------------------------------------------------------------------------
(* Properties.                                                              *)

(* What the lock is for: at most one live process has the store open.       *)
MutualExclusion == \A p, q \in holding : p = q

(* How it can fail, and nothing else: a rename or remove has hit a file its *)
(* caller had not read - another one had taken the place of the one it had, *)
(* or the read had failed, which the code takes for a stale lock - or a     *)
(* file was judged between its creation and the writing of its body, which  *)
(* hard links rule out.  A judgement is never wrong about the very file it  *)
(* read, whatever processes die, restart, or reuse a pid in between.        *)
ExclusiveUnlessMisfired ==
  /\ misfires = {} => MutualExclusion
  /\ HardLinks => "unwritten" \notin misfires

(* Release deletes another acquire's lock only if it never read it: that    *)
(* lock has replaced the one release looked at, or the reading of it failed *)
(* or found no body.  A holder whose lock was taken leaves its successor's  *)
(* alone whenever it can read whose it is.                                  *)
ReleaseSparesOthers ==
  [][\A p \in Procs : pc[p] = "remove" /\ pc'[p] = "idle" /\ lock # 0 /\ lock' = 0
                      /\ running' = running
       => lock = token[p] \/ lock # judged[p] \/ lock \notin written]_vars

(* A lone acquirer is refused only by a lock on another host, or one whose  *)
(* process is alive and has not released it: a stale lock never keeps the   *)
(* store closed, and an earlier open never leaks one.  The two exceptions   *)
(* are the pid of a dead holder given to a new process, and a release whose *)
(* remove failed.                                                           *)
RefusalIsJustified ==
  \A p \in undisturbed :
    outcome[p] = "held" =>
      /\ lock # 0
      /\ LET q == owner[lock]
         IN  \/ HostOf[q] # HostOf[p]
             \/ /\ q \in running
                /\ \/ lock \in orphans \cup kept
                   \/ token[q] = lock /\ (q \in holding \/ pc[q] \in {"check", "remove"})

(* Acquire and release return whatever the other processes do: the attempts *)
(* are bounded and nothing waits.                                           *)
CallsReturn == \A p \in Procs : pc[p] # "idle" ~> pc[p] = "idle"

=============================================================================
