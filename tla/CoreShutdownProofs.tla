------------------------- MODULE CoreShutdownProofs -------------------------
(***************************************************************************)
(* Theorems about CoreShutdown, and ConnectionTargets within it, for every *)
(* set of ids, urls, scopes and requests and any number of managers and    *)
(* edits.                                                                  *)
(***************************************************************************)
EXTENDS CoreShutdown, TLAPS

-----------------------------------------------------------------------------
(* The inductive invariant.                                                 *)

\* stop() is past the close of the boot manager.
Released == stage \in {"sandbox", "server", "exited"}

\* A manager that has not been made yet has not been closed either.
FreshInv == \A m \in Managers : m > made => closing[m] = "no"

\* No manager is cached for two ids.
CacheInv == \A i, j \in DOMAIN cache : cache[i] = cache[j] => i = j

\* A close() that has returned has released its connection.
DoneInv == \A m \in Managers : closing[m] = "done" => physical[m] = "none"

\* The latch goes with stop(), and empties the cache for good.
LatchInv ==
  /\ latched <=> stage # "serving"
  /\ latched => DOMAIN cache = {}
  /\ registry = "closed" <=> Released

\* Whatever closeAll() waits for is closing, and closed once stop() has moved on.
AwaitInv ==
  /\ \A m \in awaited : closing[m] # "no"
  /\ stage \notin {"serving", "targets"} => AllClosed

BootInv ==
  /\ stage \in {"serving", "targets"} <=> closing[Boot] = "no"
  /\ Released => closing[Boot] = "done"

Inv ==
  /\ ShutdownTypeOK
  /\ FreshInv /\ CacheInv /\ DoneInv /\ LatchInv /\ AwaitInv /\ BootInv
  /\ CachedIffServing
  /\ ServesRecordAsResolved
  /\ CachedNeedsStore

-----------------------------------------------------------------------------

LEMMA InvInit == ShutdownInit => Inv
<1> SUFFICES ASSUME ShutdownInit PROVE Inv
  OBVIOUS
<1> USE BoundsAssumption DEF ShutdownInit, Init, Managers, Boot
<1>1. ShutdownTypeOK
  <2>1. DOMAIN cache = {} /\ awaited = {}
    OBVIOUS
  <2>2. made \in 0 .. MaxManagers /\ edits \in 0 .. MaxEdits /\ 0 \in Managers
    OBVIOUS
  <2>3. serving \in [Requests -> 0 .. made]
    OBVIOUS
  <2>4. target \in [Managers -> Targets \cup {Unminted}]
    OBVIOUS
  <2> QED
    BY <2>1, <2>2, <2>3, <2>4 DEF ShutdownTypeOK, TypeOK, Stages
<1>2. FreshInv /\ CacheInv /\ DoneInv /\ LatchInv /\ AwaitInv /\ BootInv
  BY DEF FreshInv, CacheInv, DoneInv, LatchInv, AwaitInv, BootInv, Released
<1>3. CachedIffServing /\ ServesRecordAsResolved /\ CachedNeedsStore
  BY DEF CachedIffServing, ServesRecordAsResolved, CachedNeedsStore
<1> QED
  BY <1>1, <1>2, <1>3 DEF Inv

\* The registry alone.
LEMMA RegistryStep ==
  ASSUME Inv, stage \notin {"server", "exited"}, UNCHANGED stage,
         Consult \/ (\E id \in Ids, t \in Targets : Add(id, t) \/ Edit(id, t))
                 \/ (\E id \in Ids : Remove(id))
  PROVE  Inv'
<1> USE BoundsAssumption DEF Inv
<1>1. /\ Obtain
      /\ UNCHANGED <<resolver, drivers, requests, stage>>
      /\ stored' \in [Ids -> Targets \cup {Unminted, Removed}]
      /\ edits' \in 0 .. MaxEdits
  BY DEF Consult, Add, Edit, Remove, Save, ShutdownTypeOK, TypeOK
<1>2. UNCHANGED <<cache, made, target, latched, awaited, physical, closing, pc, serving, asked>>
  BY <1>1 DEF resolver, drivers, requests
<1>3. registry # "closed" /\ registry' = "open"
  BY <1>1 DEF Obtain
<1>4. ShutdownTypeOK'
  BY <1>1, <1>2, <1>3 DEF ShutdownTypeOK, TypeOK
<1>5. (FreshInv /\ CacheInv /\ DoneInv /\ AwaitInv /\ BootInv)'
  BY <1>1, <1>2 DEF FreshInv, CacheInv, DoneInv, AwaitInv, AllClosed, BootInv, Released
<1>6. (LatchInv /\ CachedNeedsStore)'
  BY <1>1, <1>2, <1>3 DEF LatchInv, CachedNeedsStore, Released
<1>7. (CachedIffServing /\ ServesRecordAsResolved)'
  BY <1>2 DEF CachedIffServing, ServesRecordAsResolved
<1> QED
  BY <1>4, <1>5, <1>6, <1>7

\* A request is given a manager that is there already.
LEMMA ServeStep ==
  ASSUME Inv, UNCHANGED stage, NEW r \in Requests,
         ResolveBoot(r) \/ (\E id \in Ids : ResolveCached(r, id))
  PROVE  Inv'
<1> USE BoundsAssumption DEF Inv
<1>1. UNCHANGED <<stored, edits, cache, made, target, latched, awaited, physical, closing, stage>>
  BY DEF ResolveBoot, ResolveCached, records, resolver, drivers
<1>2. /\ registry' \in {"unopened", "open", "closed"}
      /\ registry' = "closed" <=> registry = "closed"
      /\ registry = "open" => registry' = "open"
  BY DEF ResolveBoot, ResolveCached, Obtain, records, ShutdownTypeOK, TypeOK
<1>3. \E m \in 0 .. made, t \in Targets \cup {Unminted} :
         Serves(r, m, t) /\ (m # Boot => target[m] = t)
  <2>1. CASE ResolveBoot(r)
    BY <2>1 DEF ResolveBoot, Boot, ShutdownTypeOK, TypeOK
  <2>2. CASE \E id \in Ids : ResolveCached(r, id)
    BY <2>2 DEF ResolveCached, Cached, Current, Found, ShutdownTypeOK, TypeOK
  <2> QED
    BY <2>1, <2>2
<1>4. ShutdownTypeOK'
  BY <1>1, <1>2, <1>3 DEF ShutdownTypeOK, TypeOK, Serves
<1>5. (FreshInv /\ CacheInv /\ DoneInv /\ AwaitInv /\ BootInv)'
  BY <1>1 DEF FreshInv, CacheInv, DoneInv, AwaitInv, AllClosed, BootInv, Released
<1>6. (LatchInv /\ CachedNeedsStore /\ CachedIffServing)'
  BY <1>1, <1>2 DEF LatchInv, CachedNeedsStore, CachedIffServing, Released
<1>7. ServesRecordAsResolved'
  BY <1>1, <1>3 DEF ServesRecordAsResolved, Serves, ShutdownTypeOK, TypeOK
<1> QED
  BY <1>4, <1>5, <1>6, <1>7

\* What calling close() on the managers of S changes, and what it leaves.
LEMMA ClosedFacts ==
  ASSUME TypeOK, NEW S
  PROVE  /\ Closed(S) \in [Managers -> {"no", "yes", "done"}]
         /\ \A m \in Managers : Closed(S)[m] = "no" <=> closing[m] = "no" /\ m \notin S
         /\ \A m \in Managers : Closed(S)[m] = "done" <=> closing[m] = "done"
  BY DEF Closed, TypeOK

\* The managers cached for an id, none or one.
LEMMA CachedFacts ==
  ASSUME TypeOK, NEW id \in Ids
  PROVE  /\ Cached(id) \subseteq 1 .. made
         /\ Cached(id) \subseteq Managers
         /\ Boot \notin Cached(id)
         /\ \A m : m \in Cached(id) <=> id \in DOMAIN cache /\ cache[id] = m
  BY BoundsAssumption DEF TypeOK, Cached, Managers, Boot

\* The record is gone: the manager opened for it is evicted.
LEMMA UnknownStep ==
  ASSUME Inv, UNCHANGED stage, NEW r \in Requests, NEW id \in Ids, ResolveUnknown(r, id)
  PROVE  Inv'
<1> USE BoundsAssumption DEF Inv
<1>1. UNCHANGED <<stored, edits, made, target, latched, awaited, physical, pc, serving, asked, stage>>
  BY DEF ResolveUnknown, requests
<1>2. /\ stage = "serving" /\ ~latched
      /\ registry' = "open"
      /\ cache' = Without(id)
      /\ closing' = Closed(Cached(id))
  BY DEF ResolveUnknown, LatchInv, Obtain
<1>3. TypeOK
  BY DEF ShutdownTypeOK
<1>4. /\ DOMAIN cache' = DOMAIN cache \ {id}
      /\ \A i \in DOMAIN cache' : cache'[i] = cache[i]
  BY <1>2 DEF Without
<1>5. ShutdownTypeOK'
  BY <1>1, <1>2, <1>3, <1>4, ClosedFacts DEF ShutdownTypeOK, TypeOK
<1>6. \A m \in Managers : closing'[m] = "no" <=> closing[m] = "no" /\ m \notin Cached(id)
  BY <1>2, <1>3, ClosedFacts
<1>7. (FreshInv /\ BootInv)'
  BY <1>1, <1>2, <1>3, <1>6, CachedFacts DEF FreshInv, BootInv, Released, TypeOK, Managers, Boot
<1>8. CacheInv'
  BY <1>4 DEF CacheInv
<1>9. DoneInv'
  BY <1>1, <1>2, <1>3, ClosedFacts DEF DoneInv
<1>10. AwaitInv'
  BY <1>1, <1>2, <1>3, <1>6 DEF AwaitInv, TypeOK, Managers
<1>11. (LatchInv /\ CachedNeedsStore)'
  BY <1>1, <1>2 DEF LatchInv, CachedNeedsStore, Released
<1>12. CachedIffServing'
  <2> SUFFICES ASSUME NEW m \in 1 .. made
               PROVE  closing'[m] = "no" <=> \E i \in DOMAIN cache' : cache'[i] = m
    BY <1>1 DEF CachedIffServing
  <2>1. m \in Managers
    BY <1>3 DEF TypeOK, Managers
  <2>2. closing'[m] = "no" <=> closing[m] = "no" /\ m \notin Cached(id)
    BY <1>6, <2>1
  <2>3. closing[m] = "no" <=> \E i \in DOMAIN cache : cache[i] = m
    BY DEF CachedIffServing
  <2> QED
    BY <1>3, <1>4, <2>2, <2>3, CachedFacts DEF CacheInv
<1>13. ServesRecordAsResolved'
  BY <1>1 DEF ServesRecordAsResolved
<1> QED
  BY <1>5, <1>7, <1>8, <1>9, <1>10, <1>11, <1>12, <1>13

\* A new manager takes the place of the stale one.
LEMMA FreshStep ==
  ASSUME Inv, UNCHANGED stage, NEW r \in Requests, NEW id \in Ids, ResolveFresh(r, id)
  PROVE  Inv'
<1> USE BoundsAssumption DEF Inv
<1>1. UNCHANGED <<stored, edits, latched, awaited, physical, stage>>
  BY DEF ResolveFresh
<1>2. /\ stage = "serving" /\ ~latched
      /\ registry' = "open"
      /\ made < MaxManagers /\ made' = made + 1
      /\ target' = [target EXCEPT ![made + 1] = stored[id]]
      /\ stored[id] \in Targets
      /\ cache' = With(id, made + 1)
      /\ closing' = Closed(Cached(id))
  BY DEF ResolveFresh, LatchInv, Obtain, Found
<1>3. Serves(r, made + 1, stored[id])
  BY DEF ResolveFresh
<1>4. TypeOK /\ made \in Nat /\ made + 1 \in Managers
  BY <1>2 DEF ShutdownTypeOK, TypeOK, Managers
<1>5. /\ DOMAIN cache' = DOMAIN cache \cup {id}
      /\ cache'[id] = made + 1
      /\ \A i \in DOMAIN cache : i # id => cache'[i] = cache[i]
  BY <1>2 DEF With
<1>6. \A m \in Managers : closing'[m] = "no" <=> closing[m] = "no" /\ m \notin Cached(id)
  BY <1>2, <1>4, ClosedFacts
<1>7. ShutdownTypeOK'
  <2>1. (stored \in [Ids -> Targets \cup {Unminted, Removed}] /\ registry \in {"unopened", "open", "closed"}
          /\ edits \in 0 .. MaxEdits /\ latched \in BOOLEAN
          /\ physical \in [Managers -> {"none", "opening", "open"}] /\ stage \in Stages)'
    BY <1>1, <1>2, <1>4 DEF TypeOK, ShutdownTypeOK
  <2>2. (closing \in [Managers -> {"no", "yes", "done"}])'
    BY <1>2, <1>4, ClosedFacts
  <2>3. (DOMAIN cache \subseteq Ids /\ \A i \in DOMAIN cache : cache[i] \in 1 .. made)'
    BY <1>2, <1>4, <1>5 DEF TypeOK
  <2>4. (made \in 0 .. MaxManagers /\ target \in [Managers -> Targets \cup {Unminted}] /\ awaited \subseteq 1 .. made)'
    BY <1>1, <1>2, <1>4 DEF TypeOK
  <2>5. (pc \in [Requests -> {"idle", "using", "waiting", "running"}] /\ serving \in [Requests -> 0 .. made])'
    BY <1>2, <1>3, <1>4 DEF TypeOK, Serves
  <2>6. (asked \in [Requests -> Targets \cup {Unminted}])'
    BY <1>2, <1>3, <1>4 DEF TypeOK, Serves
  <2> QED
    BY <2>1, <2>2, <2>3, <2>4, <2>5, <2>6 DEF ShutdownTypeOK, TypeOK
<1>8. FreshInv'
  BY <1>2, <1>4, <1>6, CachedFacts DEF FreshInv, Managers
<1>9. BootInv'
  BY <1>1, <1>2, <1>4, <1>6, CachedFacts DEF BootInv, Released, Managers, Boot
<1>10. CacheInv'
  BY <1>4, <1>5 DEF CacheInv, TypeOK
<1>11. DoneInv'
  BY <1>1, <1>2, <1>4, ClosedFacts DEF DoneInv
<1>12. AwaitInv'
  BY <1>1, <1>2, <1>4, <1>6 DEF AwaitInv, TypeOK, Managers
<1>13. (LatchInv /\ CachedNeedsStore)'
  BY <1>1, <1>2 DEF LatchInv, CachedNeedsStore, Released
<1>14. CachedIffServing'
  <2> SUFFICES ASSUME NEW m \in 1 .. (made + 1)
               PROVE  closing'[m] = "no" <=> \E i \in DOMAIN cache' : cache'[i] = m
    BY <1>2 DEF CachedIffServing
  <2>1. m \in Managers
    BY <1>2, <1>4 DEF TypeOK, Managers
  <2>2. closing'[m] = "no" <=> closing[m] = "no" /\ m \notin Cached(id)
    BY <1>6, <2>1
  <2>3. CASE m = made + 1
    <3>1. closing[m] = "no" /\ m \notin Cached(id)
      BY <1>4, <2>1, <2>3, CachedFacts DEF FreshInv
    <3> QED
      BY <1>5, <2>2, <2>3, <3>1
  <2>4. CASE m # made + 1
    <3>1. m \in 1 .. made
      BY <1>4, <2>4
    <3>2. closing[m] = "no" <=> \E i \in DOMAIN cache : cache[i] = m
      BY <3>1 DEF CachedIffServing
    <3> QED
      BY <1>4, <1>5, <2>2, <2>4, <3>2, CachedFacts DEF CacheInv
  <2> QED
    BY <2>3, <2>4
<1>15. ServesRecordAsResolved'
  <2> SUFFICES ASSUME NEW q \in Requests, pc'[q] # "idle", serving'[q] # Boot
               PROVE  target'[serving'[q]] = asked'[q]
    BY DEF ServesRecordAsResolved
  <2>1. CASE q = r
    BY <1>2, <1>3, <1>4, <2>1 DEF Serves, TypeOK
  <2>2. CASE q # r
    <3>1. pc'[q] = pc[q] /\ serving'[q] = serving[q] /\ asked'[q] = asked[q]
      BY <1>3, <1>4, <2>2 DEF Serves, TypeOK
    <3>2. serving[q] \in 0 .. made
      BY <1>4 DEF TypeOK
    <3>3. target'[serving[q]] = target[serving[q]]
      BY <1>2, <1>4, <3>2 DEF TypeOK, Managers
    <3> QED
      BY <3>1, <3>3 DEF ServesRecordAsResolved
  <2> QED
    BY <2>1, <2>2
<1> QED
  BY <1>7, <1>8, <1>9, <1>10, <1>11, <1>12, <1>13, <1>14, <1>15

\* What requests and drivers do to the managers, beside stop() and the resolver.
DriversAdvance ==
  /\ physical' \in [Managers -> {"none", "opening", "open"}]
  /\ closing' \in [Managers -> {"no", "yes", "done"}]
  /\ \A m \in Managers :
       /\ closing'[m] = "no" <=> closing[m] = "no"
       /\ closing[m] = "done" => closing'[m] = "done"
       /\ closing'[m] = "done" => physical'[m] = "none"

\* A request moves on over the manager it holds; at most it opens that manager,
\* or the open or the close() of some manager comes to its end.
LEMMA ProceedStep ==
  ASSUME Inv, UNCHANGED stage, Proceed
  PROVE  Inv'
<1> USE BoundsAssumption DEF Inv
<1>1. UNCHANGED <<stored, registry, edits, cache, made, target, latched, awaited, serving, asked, stage>>
  BY DEF Proceed, Use, UseOpens, UseJoins, UseRuns, UseRefused, OpenAwaited, StatementSettles,
         OpenSettles, CloseEnds, Goto, records, resolver, requests
<1>2. /\ pc' \in [Requests -> {"idle", "using", "waiting", "running"}]
      /\ \A r \in Requests : pc'[r] # "idle" => pc[r] # "idle"
  <2>1. CASE \E r \in Requests : Use(r) \/ StatementSettles(r)
    BY <2>1 DEF Use, UseOpens, UseJoins, UseRuns, UseRefused, OpenAwaited, StatementSettles, Goto,
                ShutdownTypeOK, TypeOK
  <2>2. CASE \E m \in Managers : OpenSettles(m) \/ CloseEnds(m)
    BY <2>2 DEF OpenSettles, CloseEnds, requests, ShutdownTypeOK, TypeOK
  <2> QED
    BY <2>1, <2>2 DEF Proceed
<1>3. DriversAdvance
  <2>1. TypeOK
    BY DEF ShutdownTypeOK
  <2>2. CASE \E r \in Requests : Use(r) \/ StatementSettles(r)
    <3> PICK r \in Requests : Use(r) \/ StatementSettles(r)
      BY <2>2
    <3>1. serving[r] \in Managers
      BY <2>1 DEF TypeOK, Managers
    <3>2. CASE UseOpens(r)
      BY <2>1, <3>1, <3>2 DEF DriversAdvance, UseOpens, TypeOK, DoneInv
    <3>3. CASE ~UseOpens(r)
      <4>1. UNCHANGED <<physical, closing>>
        BY <3>3 DEF Use, UseJoins, UseRuns, UseRefused, OpenAwaited, StatementSettles, drivers
      <4> QED
        BY <2>1, <4>1 DEF DriversAdvance, TypeOK, DoneInv
    <3> QED
      BY <3>2, <3>3
  <2>3. ASSUME NEW m \in Managers, OpenSettles(m)
        PROVE  DriversAdvance
    BY <2>1, <2>3 DEF DriversAdvance, OpenSettles, TypeOK, DoneInv
  <2>4. ASSUME NEW m \in Managers, CloseEnds(m)
        PROVE  DriversAdvance
    BY <2>1, <2>4 DEF DriversAdvance, CloseEnds, TypeOK, DoneInv
  <2> QED
    BY <2>2, <2>3, <2>4 DEF Proceed
<1>4. ShutdownTypeOK'
  BY <1>1, <1>2, <1>3 DEF DriversAdvance, ShutdownTypeOK, TypeOK
<1>5. (FreshInv /\ DoneInv /\ CacheInv)'
  BY <1>1, <1>3 DEF DriversAdvance, FreshInv, DoneInv, CacheInv
<1>6. BootInv'
  BY <1>1, <1>3 DEF DriversAdvance, BootInv, Released, Managers, Boot
<1>7. AwaitInv'
  BY <1>1, <1>3 DEF DriversAdvance, AwaitInv, AllClosed, ShutdownTypeOK, TypeOK, Managers
<1>8. (LatchInv /\ CachedNeedsStore)'
  BY <1>1 DEF LatchInv, CachedNeedsStore, Released
<1>9. CachedIffServing'
  BY <1>1, <1>3 DEF DriversAdvance, CachedIffServing, ShutdownTypeOK, TypeOK, Managers
<1>10. ServesRecordAsResolved'
  BY <1>1, <1>2 DEF ServesRecordAsResolved
<1> QED
  BY <1>4, <1>5, <1>6, <1>7, <1>8, <1>9, <1>10

\* The stop begins: whatever is cached is closed, and will be waited for.
LEMMA InitiateStep ==
  ASSUME Inv, Initiate
  PROVE  Inv'
<1> USE BoundsAssumption DEF Inv
<1> DEFINE managers == {cache[id] : id \in DOMAIN cache}
<1>1. UNCHANGED <<stored, registry, edits, made, target, physical, pc, serving, asked>>
  BY DEF Initiate, CloseAll, records, requests
<1>2. /\ stage = "serving" /\ stage' = "targets"
      /\ latched' = TRUE
      /\ cache' = [id \in {} |-> Boot] /\ DOMAIN cache' = {}
      /\ awaited' = managers
      /\ closing' = Closed(managers)
  BY DEF Initiate, CloseAll
<1>3. TypeOK /\ managers \subseteq 1 .. made /\ managers \subseteq Managers /\ Boot \notin managers
  BY DEF ShutdownTypeOK, TypeOK, Managers, Boot
<1> HIDE DEF managers
<1>4. /\ closing' \in [Managers -> {"no", "yes", "done"}]
      /\ \A m \in Managers : closing'[m] = "no" <=> closing[m] = "no" /\ m \notin managers
      /\ \A m \in Managers : closing'[m] = "done" <=> closing[m] = "done"
  BY <1>2, <1>3, ClosedFacts
<1>5. ShutdownTypeOK'
  BY <1>1, <1>2, <1>3, <1>4 DEF ShutdownTypeOK, TypeOK, Stages
<1>6. (FreshInv /\ DoneInv /\ CacheInv)'
  BY <1>1, <1>2, <1>3, <1>4 DEF FreshInv, DoneInv, CacheInv, TypeOK, Managers
<1>7. (BootInv /\ AwaitInv)'
  BY <1>2, <1>3, <1>4 DEF BootInv, AwaitInv, Released, Managers, Boot
<1>8. (LatchInv /\ CachedNeedsStore)'
  BY <1>1, <1>2 DEF LatchInv, CachedNeedsStore, Released
<1>9. CachedIffServing'
  <2> SUFFICES ASSUME NEW m \in 1 .. made PROVE closing'[m] # "no"
    BY <1>1, <1>2 DEF CachedIffServing
  <2>1. m \in Managers
    BY <1>3 DEF TypeOK, Managers
  <2>2. closing[m] = "no" => m \in managers
    BY DEF CachedIffServing, managers
  <2> QED
    BY <1>4, <2>1, <2>2
<1>10. ServesRecordAsResolved'
  BY <1>1 DEF ServesRecordAsResolved
<1> QED
  BY <1>5, <1>6, <1>7, <1>8, <1>9, <1>10

\* The rest of stop(): the boot manager, then the registry, then the servers.
LEMMA StopStep ==
  ASSUME Inv, Stop
  PROVE  Inv'
<1> USE BoundsAssumption DEF Inv
<1>1. UNCHANGED <<stored, edits, cache, made, target, latched, awaited, physical, pc, serving, asked>>
  BY DEF Stop, TargetsClosed, BootClosed, SandboxStopped, Exit, records, resolver, drivers, requests, vars
<1>2. TypeOK /\ Boot \in Managers
  BY DEF ShutdownTypeOK, Managers, Boot
<1>3. CASE TargetsClosed
  <2>1. /\ stage = "targets" /\ AllClosed /\ stage' = "boot"
        /\ UNCHANGED registry
        /\ closing' = Closed({Boot})
    BY <1>3 DEF TargetsClosed, records
  <2>2. /\ closing' \in [Managers -> {"no", "yes", "done"}]
        /\ \A m \in Managers : closing'[m] = "no" <=> closing[m] = "no" /\ m # Boot
        /\ \A m \in Managers : closing'[m] = "done" <=> closing[m] = "done"
    BY <1>2, <2>1, ClosedFacts
  <2>3. ShutdownTypeOK'
    BY <1>1, <1>2, <2>1, <2>2 DEF ShutdownTypeOK, TypeOK, Stages
  <2>4. (FreshInv /\ DoneInv /\ CacheInv)'
    BY <1>1, <1>2, <2>2 DEF FreshInv, DoneInv, CacheInv, TypeOK, Managers, Boot
  <2>5. (BootInv /\ AwaitInv)'
    BY <1>1, <1>2, <2>1, <2>2 DEF BootInv, AwaitInv, AllClosed, Released, TypeOK, Managers, Boot
  <2>6. (LatchInv /\ CachedNeedsStore)'
    BY <1>1, <2>1 DEF LatchInv, CachedNeedsStore, Released
  <2>7. CachedIffServing'
    BY <1>1, <1>2, <2>2 DEF CachedIffServing, TypeOK, Managers, Boot
  <2>8. ServesRecordAsResolved'
    BY <1>1 DEF ServesRecordAsResolved
  <2> QED
    BY <2>3, <2>4, <2>5, <2>6, <2>7, <2>8
<1>4. CASE BootClosed \/ SandboxStopped \/ Exit
  <2>1. /\ stage \in {"boot", "sandbox", "server"}
        /\ stage' \in {"sandbox", "server", "exited"}
        /\ stage = "boot" => closing[Boot] = "done"
        /\ registry' = "closed"
        /\ UNCHANGED closing
    BY <1>4 DEF BootClosed, SandboxStopped, Exit, LatchInv, Released, vars, records, drivers
  <2>2. ShutdownTypeOK'
    BY <1>1, <1>2, <2>1 DEF ShutdownTypeOK, TypeOK, Stages
  <2>3. (FreshInv /\ DoneInv /\ CacheInv)'
    BY <1>1, <2>1 DEF FreshInv, DoneInv, CacheInv
  <2>4. (BootInv /\ AwaitInv)'
    BY <1>1, <2>1 DEF BootInv, AwaitInv, AllClosed, Released
  <2>5. (LatchInv /\ CachedNeedsStore)'
    BY <1>1, <2>1 DEF LatchInv, CachedNeedsStore, Released
  <2>6. CachedIffServing' /\ ServesRecordAsResolved'
    BY <1>1, <2>1 DEF CachedIffServing, ServesRecordAsResolved
  <2> QED
    BY <2>2, <2>3, <2>4, <2>5, <2>6
<1> QED
  BY <1>3, <1>4 DEF Stop

LEMMA InvStep == Inv /\ [Next]_allVars => Inv'
<1> SUFFICES ASSUME Inv, [Next]_allVars PROVE Inv'
  OBVIOUS
<1>1. CASE stage \notin {"server", "exited"} /\ Arrive /\ UNCHANGED stage
  BY <1>1, RegistryStep, ServeStep, UnknownStep, FreshStep DEF Arrive
<1>2. CASE stage # "exited" /\ Proceed /\ UNCHANGED stage
  BY <1>2, ProceedStep
<1>3. CASE Initiate
  BY <1>3, InitiateStep
<1>4. CASE Stop
  BY <1>4, StopStep
<1>5. CASE UNCHANGED allVars
  BY <1>5 DEF allVars, vars, records, resolver, drivers, requests, Inv, ShutdownTypeOK, TypeOK,
              FreshInv, CacheInv, DoneInv, LatchInv, AwaitInv, AllClosed, BootInv, Released,
              CachedIffServing, ServesRecordAsResolved, CachedNeedsStore
<1> QED
  BY <1>1, <1>2, <1>3, <1>4, <1>5 DEF Next

LEMMA Invariance == Spec => []Inv
<1> QED
  BY InvInit, InvStep, PTL DEF Spec

-----------------------------------------------------------------------------

(* Type correctness of the resolver, the registry and the stop.             *)
THEOREM ShutdownTyped == Spec => []ShutdownTypeOK
<1>1. Inv => ShutdownTypeOK
  BY DEF Inv
<1> QED
  BY <1>1, Invariance, PTL

(* Nothing that leaves the cache is leaked, nothing cached is dead: a       *)
(* manager is open for business exactly while it is cached.                 *)
THEOREM CacheServes == Spec => []CachedIffServing
<1>1. Inv => CachedIffServing
  BY DEF Inv
<1> QED
  BY <1>1, Invariance, PTL

(* Revocation: a request's statements run at the url and scope its record   *)
(* had when it was resolved.                                                *)
THEOREM RevocationHolds == Spec => []ServesRecordAsResolved
<1>1. Inv => ServesRecordAsResolved
  BY DEF Inv
<1> QED
  BY <1>1, Invariance, PTL

(* A cached manager never meets a registry without its store.               *)
THEOREM CacheHasStore == Spec => []CachedNeedsStore
<1>1. Inv => CachedNeedsStore
  BY DEF Inv
<1> QED
  BY <1>1, Invariance, PTL

(* After stop() has closed the boot manager only connections of managers    *)
(* evicted earlier can be up, and every manager is closing.                 *)
THEOREM StopIsOrderly == Spec => []StopLeavesOnlyEvicted
<1>1. Inv => StopLeavesOnlyEvicted
  <2> SUFFICES ASSUME Inv, stage \in {"sandbox", "server", "exited"}, NEW m \in 0 .. made
               PROVE  closing[m] # "no" /\ (physical[m] # "none" => m \notin awaited \cup {Boot})
    BY DEF StopLeavesOnlyEvicted
  <2>1. m \in Managers /\ Boot \in Managers /\ awaited \subseteq Managers
    BY BoundsAssumption DEF Inv, ShutdownTypeOK, TypeOK, Managers, Boot
  <2>2. DOMAIN cache = {} /\ closing[Boot] = "done"
    BY DEF Inv, LatchInv, BootInv, Released
  <2>3. closing[m] # "no"
    BY <2>2 DEF Inv, CachedIffServing, ShutdownTypeOK, TypeOK, Boot
  <2>4. m \in awaited \cup {Boot} => closing[m] = "done"
    BY <2>2 DEF Inv, AwaitInv, AllClosed
  <2> QED
    BY <2>1, <2>3, <2>4 DEF Inv, DoneInv
<1> QED
  BY <1>1, Invariance, PTL

(* The store's lock, once stop() has released it, is not taken again.       *)
THEOREM LockIsReleased == Spec => []LockStaysReleased
<1>1. Inv => LockStaysReleased
  BY DEF Inv, LatchInv, Released, LockStaysReleased
<1> QED
  BY <1>1, Invariance, PTL
=============================================================================
