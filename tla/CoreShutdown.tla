---------------------------- MODULE CoreShutdown ----------------------------
(***************************************************************************)
(* The orderly stop of the Core: the shutdown controller every trigger     *)
(* converges on (src/core/lifecycle.ts, src/bin/quick-studio.ts), and the  *)
(* ordered teardown it runs (stop() in src/core/server.ts), composed with  *)
(* the resolver and its managers.  Requests go on arriving until the server*)
(* itself is stopped, and those in flight go on running until the process  *)
(* exits.                                                                  *)
(***************************************************************************)
EXTENDS ConnectionTargets

VARIABLE
  stage  \* how far stop() has come: the await it is at

allVars == <<vars, stage>>

Stages == {"serving", "targets", "boot", "sandbox", "server", "exited"}

ShutdownTypeOK == TypeOK /\ stage \in Stages

ShutdownInit == Init /\ stage = "serving"

\* Mutant of Initiate: every signal runs stop() again.
InitiateAgain ==
  /\ stage # "exited"
  /\ stage' = "targets"
  /\ CloseAll

\* A signal, or the macrotask the shutdown RPC schedules: the first one starts
\* stop(), the others find `done' set.
Initiate ==
  /\ stage = "serving"
  /\ stage' = "targets"
  /\ CloseAll

\* Mutant of TargetsClosed: closeAll() is not awaited.
TargetsLeft ==
  /\ stage = "targets"
  /\ stage' = "boot"
  /\ closing' = Closed({Boot})
  /\ UNCHANGED <<records, resolver, physical, requests>>

TargetsClosed ==
  /\ stage = "targets" /\ AllClosed
  /\ stage' = "boot"
  /\ closing' = Closed({Boot})
  /\ UNCHANGED <<records, resolver, physical, requests>>

\* The boot manager is closed: the registry releases the store's lock in the
\* same step, and the sandbox server is told to stop.
BootClosed ==
  /\ stage = "boot" /\ closing[Boot] = "done"
  /\ stage' = "sandbox"
  /\ registry' = "closed"
  /\ UNCHANGED <<stored, edits, resolver, drivers, requests>>

\* It has, or it has thrown.
SandboxStopped ==
  /\ stage = "sandbox"
  /\ stage' = "server"
  /\ UNCHANGED vars

\* server.stop has settled, or thrown: exit() runs in either case.
Exit ==
  /\ stage = "server"
  /\ stage' = "exited"
  /\ UNCHANGED vars

Stop == TargetsClosed \/ BootClosed \/ SandboxStopped \/ Exit

Next ==
  \/ /\ stage \notin {"server", "exited"}
     /\ Arrive
     /\ UNCHANGED stage
  \/ /\ stage # "exited"
     /\ Proceed
     /\ UNCHANGED stage
  \/ Initiate
  \/ Stop

Spec == ShutdownInit /\ [][Next]_allVars

\* stop() continues when what it awaits has settled; a manager's close() returns
\* once no open is in flight (CloseCompletes of ConnectionManager); and the
\* database answers an open, which the code bounds only in part.
FairSpec ==
  /\ Spec
  /\ WF_allVars(Stop)
  /\ \A m \in Managers : WF_allVars((OpenSettles(m) \/ CloseEnds(m)) /\ UNCHANGED stage)

-----------------------------------------------------------------------------
(* Properties.                                                              *)

(* When stop() has closed the boot manager, the only connections that can   *)
(* still be up are those of managers evicted earlier, whose close() nobody  *)
(* awaits; they are closing, and no manager has been made or opened since.  *)
StopLeavesOnlyEvicted ==
  stage \in {"sandbox", "server", "exited"} =>
    \A m \in 0 .. made :
      /\ closing[m] # "no"
      /\ physical[m] # "none" => m \notin awaited \cup {Boot}

(* Once stop() has released the store's lock no request that is still       *)
(* running, or still arrives, takes it again.                               *)
LockStaysReleased ==
  stage \in {"sandbox", "server", "exited"} => registry = "closed"

(* Every shutdown that begins ends: stop() waits for managers that wait for *)
(* the database, never for one that waits for a request.                    *)
StopCompletes == stage # "serving" ~> stage = "exited"

=============================================================================
