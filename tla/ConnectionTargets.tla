------------------------- MODULE ConnectionTargets -------------------------
(***************************************************************************)
(* The resolver that turns the id of a saved connection into a connection  *)
(* manager (src/core/connection-targets.ts), with the two parts it stands  *)
(* between: the registry that holds the saved records and its store        *)
(* (src/core/connection-registry.ts), and the requests that run over the   *)
(* managers it hands out (src/core/server.ts, src/core/executor.ts).       *)
(*                                                                         *)
(* A manager takes the steps of ManagedDriver, which ConnectionManager     *)
(* implements, one copy of them per manager.  The code is one event        *)
(* loop: resolve and the registry's operations contain no await and are one*)
(* action each; a request that holds a manager waits for it between steps, *)
(* while records are edited, managers evicted and the resolver shut.       *)
(*                                                                         *)
(* Left out: the name of a record, which nothing depends on, and refusals  *)
(* that change nothing (a resolve once latched, a store that cannot be     *)
(* opened, a malformed parameter).                                         *)
(***************************************************************************)
EXTENDS Naturals

CONSTANTS
  Ids,          \* ids of saved connections
  Urls, Scopes, \* what a record may say: a url and the schema it is pinned to
  Requests,     \* requests in flight
  MaxManagers,  \* bound: target managers made
  MaxEdits      \* bound: changes of a saved record

ASSUME BoundsAssumption == MaxManagers \in Nat /\ MaxEdits \in Nat

\* A record that was never added, and one that was removed: ids are random,
\* so a removed id never comes back.
Unminted == [url |-> "unminted", scope |-> "unminted"]
Removed == [url |-> "removed", scope |-> "removed"]
Targets == [url : Urls, scope : Scopes]

ASSUME TargetsAssumption == Unminted \notin Targets /\ Removed \notin Targets

\* The boot manager, and the others in the order they are made.
Boot == 0
Managers == 0 .. MaxManagers

VARIABLES
  stored,    \* the records of the credential store
  registry,  \* the registry's store: "unopened", "open", "closed"
  edits,     \* changes made so far
  cache,     \* Map from id to the manager opened for it
  made,      \* target managers made so far
  target,    \* per manager: the url and scope it was made with
  latched,   \* closed: closeAll() has begun
  awaited,   \* the managers closeAll() waits for
  physical,  \* per manager: see ManagedDriver
  closing,   \* per manager: see ManagedDriver
  pc,        \* where each request stands
  serving,   \* per request: the manager behind its seams
  asked      \* history, per request: the record when it was resolved

records == <<stored, registry, edits>>
resolver == <<cache, made, target, latched, awaited>>
drivers == <<physical, closing>>
requests == <<pc, serving, asked>>
vars == <<records, resolver, drivers, requests>>

TypeOK ==
  /\ stored \in [Ids -> Targets \cup {Unminted, Removed}]
  /\ registry \in {"unopened", "open", "closed"}
  /\ edits \in 0 .. MaxEdits
  /\ DOMAIN cache \subseteq Ids
  /\ \A id \in DOMAIN cache : cache[id] \in 1 .. made
  /\ made \in 0 .. MaxManagers
  /\ target \in [Managers -> Targets \cup {Unminted}]
  /\ latched \in BOOLEAN
  /\ awaited \subseteq 1 .. made
  /\ physical \in [Managers -> {"none", "opening", "open"}]
  /\ closing \in [Managers -> {"no", "yes", "done"}]
  /\ pc \in [Requests -> {"idle", "using", "waiting", "running"}]
  /\ serving \in [Requests -> 0 .. made]
  /\ asked \in [Requests -> Targets \cup {Unminted}]

Init ==
  /\ stored \in [Ids -> Targets \cup {Unminted}]
  /\ registry = "unopened" /\ edits = 0
  /\ cache = [id \in {} |-> Boot] /\ made = 0
  /\ target = [m \in Managers |-> Unminted]
  /\ latched = FALSE /\ awaited = {}
  /\ physical = [m \in Managers |-> "none"]
  /\ closing = [m \in Managers |-> "no"]
  /\ pc = [r \in Requests |-> "idle"]
  /\ serving = [r \in Requests |-> Boot]
  /\ asked = [r \in Requests |-> Unminted]

-----------------------------------------------------------------------------
(* The registry.                                                            *)

Found(id) == stored[id] \in Targets

\* obtain(): the store is opened once and kept, and never again after close().
Obtain ==
  /\ registry # "closed"
  /\ registry' = "open"

\* list, an edit of an unknown id, a write that fails: only the store is opened.
Consult ==
  /\ Obtain
  /\ UNCHANGED <<stored, edits, resolver, drivers, requests>>

Save(id, t) ==
  /\ Obtain
  /\ stored[id] # t
  /\ edits < MaxEdits
  /\ edits' = edits + 1
  /\ stored' = [stored EXCEPT ![id] = t]
  /\ UNCHANGED <<resolver, drivers, requests>>

Add(id, t) == stored[id] = Unminted /\ Save(id, t)
Edit(id, t) == Found(id) /\ Save(id, t)
Remove(id) == Found(id) /\ Save(id, Removed)

-----------------------------------------------------------------------------
(* resolve.                                                                 *)

\* Mutant of Closed: the manager is dropped and left open.
NotClosed(S) == closing

\* manager.close() is called on each of S; its promise settles later.
Closed(S) ==
  [m \in Managers |-> IF m \in S /\ closing[m] = "no" THEN "yes" ELSE closing[m]]

Cached(id) == {cache[i] : i \in DOMAIN cache \cap {id}}

Without(id) == [i \in DOMAIN cache \ {id} |-> cache[i]]
With(id, m) == [i \in DOMAIN cache \cup {id} |-> IF i = id THEN m ELSE cache[i]]

Serves(r, m, t) ==
  /\ pc' = [pc EXCEPT ![r] = "using"]
  /\ serving' = [serving EXCEPT ![r] = m]
  /\ asked' = [asked EXCEPT ![r] = t]

\* Without an id: the boot manager, whatever has been closed.
ResolveBoot(r) ==
  /\ pc[r] = "idle"
  /\ Serves(r, Boot, Unminted)
  /\ UNCHANGED <<records, resolver, drivers>>

\* The record is gone, or never was: a manager opened for it stops serving.
ResolveUnknown(r, id) ==
  /\ pc[r] = "idle" /\ ~latched
  /\ Obtain
  /\ ~Found(id)
  /\ cache' = Without(id)
  /\ closing' = Closed(Cached(id))
  /\ UNCHANGED <<stored, edits, made, target, latched, awaited, physical, requests>>

\* Mutant of Current: the pinned schema is not compared.
CurrentUrl(m, t) == target[m].url = t.url

\* The manager was made with the url and the scope the record has now.
Current(m, t) == target[m] = t

ResolveCached(r, id) ==
  /\ pc[r] = "idle" /\ ~latched
  /\ Obtain
  /\ Found(id)
  /\ \E m \in Cached(id) : Current(m, stored[id]) /\ Serves(r, m, stored[id])
  /\ UNCHANGED <<stored, edits, resolver, drivers>>

\* First use of the id, or its record has changed: the stale manager is closed
\* and dropped, and a new one is made, which connects on its first use.
ResolveFresh(r, id) ==
  /\ pc[r] = "idle" /\ ~latched
  /\ Obtain
  /\ Found(id)
  /\ \A m \in Cached(id) : ~Current(m, stored[id])
  /\ made < MaxManagers
  /\ made' = made + 1
  /\ target' = [target EXCEPT ![made + 1] = stored[id]]
  /\ closing' = Closed(Cached(id))
  /\ cache' = With(id, made + 1)
  /\ Serves(r, made + 1, stored[id])
  /\ UNCHANGED <<stored, edits, latched, awaited, physical>>

\* closeAll(), up to its await.
CloseAll ==
  LET managers == {cache[id] : id \in DOMAIN cache} IN
  /\ latched' = TRUE
  /\ cache' = [id \in {} |-> Boot]
  /\ awaited' = managers
  /\ closing' = Closed(managers)
  /\ UNCHANGED <<records, made, target, physical, requests>>

\* Promise.all over the close() calls has settled.
AllClosed == \A m \in awaited : closing[m] = "done"

-----------------------------------------------------------------------------
(* A request uses its seams, once or several times.  It keeps the manager   *)
(* it was given, which may be evicted or closed meanwhile.                  *)

Goto(r, step) ==
  /\ pc' = [pc EXCEPT ![r] = step]
  /\ UNCHANGED <<records, resolver, serving, asked>>

UseOpens(r) ==
  LET m == serving[r] IN
  /\ pc[r] = "using"
  /\ closing[m] = "no" /\ physical[m] = "none"
  /\ physical' = [physical EXCEPT ![m] = "opening"]
  /\ UNCHANGED closing
  /\ Goto(r, "waiting")

UseJoins(r) ==
  LET m == serving[r] IN
  /\ pc[r] = "using"
  /\ closing[m] = "no" /\ physical[m] = "opening"
  /\ UNCHANGED drivers
  /\ Goto(r, "waiting")

UseRuns(r) ==
  LET m == serving[r] IN
  /\ pc[r] = "using"
  /\ closing[m] = "no" /\ physical[m] = "open"
  /\ UNCHANGED drivers
  /\ Goto(r, "running")

UseRefused(r) ==
  /\ pc[r] = "using"
  /\ closing[serving[r]] # "no"
  /\ UNCHANGED drivers
  /\ Goto(r, "idle")

\* The open has settled.  close() may have taken the driver since.
OpenAwaited(r) ==
  LET m == serving[r] IN
  /\ pc[r] = "waiting" /\ physical[m] # "opening"
  /\ UNCHANGED drivers
  /\ \/ physical[m] = "open" /\ Goto(r, "running")
     \/ (physical[m] = "none" \/ closing[m] # "no") /\ Goto(r, "idle")

\* The statement returns, and another one may follow; or it throws.
StatementSettles(r) ==
  /\ pc[r] = "running"
  /\ UNCHANGED drivers
  /\ Goto(r, "using") \/ Goto(r, "idle")

OpenSettles(m) ==
  /\ physical[m] = "opening"
  /\ \E outcome \in {"open", "none"} : physical' = [physical EXCEPT ![m] = outcome]
  /\ UNCHANGED <<closing, records, resolver, requests>>

CloseEnds(m) ==
  /\ closing[m] = "yes" /\ physical[m] # "opening"
  /\ closing' = [closing EXCEPT ![m] = "done"]
  /\ physical' = [physical EXCEPT ![m] = "none"]
  /\ UNCHANGED <<records, resolver, requests>>

-----------------------------------------------------------------------------

\* What arrives at the Core.
Arrive ==
  \/ Consult
  \/ \E id \in Ids, t \in Targets : Add(id, t) \/ Edit(id, t)
  \/ \E id \in Ids : Remove(id)
  \/ \E r \in Requests :
       \/ ResolveBoot(r)
       \/ \E id \in Ids : ResolveUnknown(r, id) \/ ResolveCached(r, id) \/ ResolveFresh(r, id)

Use(r) == UseOpens(r) \/ UseJoins(r) \/ UseRuns(r) \/ UseRefused(r) \/ OpenAwaited(r)

Proceed ==
  \/ \E r \in Requests : Use(r) \/ StatementSettles(r)
  \/ \E m \in Managers : OpenSettles(m) \/ CloseEnds(m)

-----------------------------------------------------------------------------
(* Properties.                                                              *)

(* A manager is open for business exactly while it is cached for the one id *)
(* it was made for: whatever leaves the cache is closed, so nothing is      *)
(* leaked, and whatever is cached is not closed, so nobody is handed a dead *)
(* connection.                                                              *)
CachedIffServing ==
  \A m \in 1 .. made :
    closing[m] = "no" <=> \E id \in DOMAIN cache : cache[id] = m

(* Revocation: a request runs all its statements at the url and scope the   *)
(* record had when the request was resolved, whatever edits, removals and   *)
(* evictions came before or come while it runs.                             *)
ServesRecordAsResolved ==
  \A r \in Requests :
    pc[r] # "idle" /\ serving[r] # Boot => target[serving[r]] = asked[r]

(* While a manager is cached the registry holds its store, so a store that  *)
(* cannot be opened is never met with a manager to serve or to evict.       *)
CachedNeedsStore == DOMAIN cache # {} => registry = "open"

=============================================================================
