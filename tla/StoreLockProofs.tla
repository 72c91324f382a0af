--------------------------- MODULE StoreLockProofs ---------------------------
(***************************************************************************)
(* Theorems about StoreLock, for any processes, hosts and kind of          *)
(* filesystem, and any number of attempts and calls.                       *)
(*                                                                         *)
(* Inv is inductive on its own: it holds the facts that make a lock file   *)
(* traceable to the process that made it.  AloneInv adds what an acquirer  *)
(* nobody interferes with knows.                                           *)
(***************************************************************************)
EXTENDS StoreLock, TLAPS

-----------------------------------------------------------------------------
(* The inductive invariant.                                                 *)

\* In the loop of acquireStoreLock, with no file made yet.
Acquiring(p) == pc[p] \in {"create", "read", "probe", "rename"}

\* Files are numbered by the calls that make them; the loop is bounded.
BoundInv ==
  /\ calls <= MaxCalls
  /\ lock <= calls
  /\ \A f \in written : f # 0 /\ f <= calls
  /\ \A p \in Procs : token[p] <= calls /\ judged[p] <= calls
  /\ \A p \in Procs : Acquiring(p) => attempt[p] < MaxAttempts

\* A token is its process's own, for as long as it is remembered.
NameInv ==
  /\ \A p \in Procs : pc[p] # "idle" \/ p \in holding => token[p] # 0
  /\ \A p \in Procs : token[p] # 0 => owner[token[p]] = p

\* One call at a time, and none by the dead.
LifeInv ==
  \A p \in Procs : pc[p] # "idle" => p \in running /\ p \notin holding

\* A file nobody has made yet.
Unmade(f) == lock # f /\ f \notin written /\ \A q \in Procs : judged[q] # f

\* A token names no file before its call has made one, and a finished call's
\* file has its body.
FreshInv ==
  /\ \A p \in Procs : Acquiring(p) => Unmade(token[p])
  /\ \A p \in Procs : p \in holding \/ pc[p] \in {"check", "remove"} => token[p] \in written
  /\ \A p \in Procs : pc[p] = "probe" => judged[p] \in written

\* With hard links a file is never seen without its body.
LinkInv ==
  HardLinks =>
    /\ "unwritten" \notin misfires
    /\ lock = 0 \/ lock \in written
    /\ \A p \in Procs : pc[p] # "write" /\ (pc[p] = "remove" => judged[p] \in {0, token[p]})

\* The file this process made is the lock it believes it has.
Owns(p) == p \in holding \/ pc[p] \in {"write", "check", "remove"}

\* While nothing has misfired: an owner's file is the one at the path, and no
\* file judged stale belongs to an owner.
ExclusionInv ==
  misfires = {} =>
    /\ \A p \in Procs : Owns(p) => lock = token[p]
    /\ \A p, q \in Procs : pc[p] = "rename" /\ Owns(q) => token[q] # judged[p]

\* A readable lock is that of an owner, of a process that died, or one whose
\* removal failed.
AccountInv ==
  lock \in written =>
    \/ lock \in orphans \cup kept
    \/ /\ token[owner[lock]] = lock
       /\ owner[lock] \in holding \/ pc[owner[lock]] \in {"check", "remove"}

Inv ==
  /\ TypeOK /\ BoundInv /\ LifeInv /\ NameInv /\ FreshInv
  /\ LinkInv /\ ExclusionInv /\ AccountInv

\* What a process knows that nobody has interfered with: the lock it probes is
\* still there, and its first reclaim is its last.
AloneInv ==
  \A p \in undisturbed :
    /\ pc[p] # "idle" \/ p \in holding => outcome[p] # "held"
    /\ pc[p] = "probe" => lock = judged[p]
    /\ Acquiring(p) => attempt[p] = 0 \/ (attempt[p] = 1 /\ lock = 0 /\ pc[p] = "create")

-----------------------------------------------------------------------------
(* Each part is preserved by every step.                                    *)

Step(p) == Acquire(p) \/ SystemCall(p) \/ Release(p) \/ Crash(p) \/ Restart(p)

(* The call that made a file is on record.                                  *)
LEMMA LockOwner ==
  ASSUME TypeOK, BoundInv, lock # 0
  PROVE  lock \in Files /\ owner[lock] \in Procs /\ lock # calls + 1
<1>1. lock \in Files /\ lock # calls + 1
  BY CallsAssumption DEF TypeOK, BoundInv, Files
<1> QED
  BY <1>1 DEF TypeOK

LEMMA TypeStep == TypeOK /\ BoundInv /\ LifeInv /\ [Next]_vars => TypeOK'
<1> SUFFICES ASSUME TypeOK, BoundInv, LifeInv, [Next]_vars PROVE TypeOK'
  OBVIOUS
<1> USE AttemptsAssumption, CallsAssumption
        DEF TypeOK, BoundInv, Acquiring, vars, files, processes, names, history, Files,
            Pcs, Outcomes, Misfires
<1>1. ASSUME NEW p \in Procs, Step(p) PROVE TypeOK'
  <2>1. CASE Acquire(p)
    <3> USE <2>1 DEF Acquire, Goto
    <3>1. calls + 1 \in Files
      OBVIOUS
    <3>2. owner' \in [Files -> Procs]
      BY <3>1
    <3>3. token' \in [Procs -> Nat]
      OBVIOUS
    <3>8. attempt' \in [Procs -> Nat]
      OBVIOUS
    <3>7. pc' \in [Procs -> Pcs]
      OBVIOUS
    <3>4. \A q \in Procs : attempt'[q] <= MaxAttempts
      OBVIOUS
    <3>5. outcome' \in [Procs -> Outcomes]
      OBVIOUS
    <3>6. calls' \in Nat /\ undisturbed' \subseteq Procs
      OBVIOUS
    <3> HIDE DEF Files
    <3> QED
      BY <3>2, <3>3, <3>4, <3>5, <3>6, <3>7, <3>8
  <2>2. CASE CreateLinked(p)
    <3> USE <2>2 DEF CreateLinked, Acquired, Return, Goto, Disturbs
    <3>1. pc' \in [Procs -> Pcs] /\ outcome' \in [Procs -> Outcomes]
      OBVIOUS
    <3>2. holding' \subseteq running' /\ written' \subseteq Nat
      BY DEF LifeInv
    <3> QED
      BY <3>1, <3>2
  <2>3. CASE CreateEmpty(p)
    BY <2>3 DEF CreateEmpty, Goto, Disturbs
  <2>4. CASE WriteBody(p)
    <3> USE <2>4 DEF WriteBody, Acquired, Return, Goto, Disturbs
    <3>1. pc' \in [Procs -> Pcs] /\ outcome' \in [Procs -> Outcomes]
      OBVIOUS
    <3>2. holding' \subseteq running' /\ written' \subseteq Nat
      BY DEF LifeInv
    <3> QED
      BY <3>1, <3>2
  <2>5. CASE CreateFails(p)
    BY <2>5 DEF CreateFails, Return, Goto
  <2>6. CASE CreateExists(p)
    BY <2>6 DEF CreateExists, Goto
  <2>7. CASE ReadInfo(p)
    <3> USE <2>7 DEF ReadInfo, Return, Goto, Unreadable
    <3>1. pc' \in [Procs -> Pcs]
      <4>1. \/ pc' = [pc EXCEPT ![p] = "rename"] \/ pc' = [pc EXCEPT ![p] = "probe"]
            \/ pc' = [pc EXCEPT ![p] = "idle"]
        OBVIOUS
      <4> QED
        BY ONLY <4>1, TypeOK DEF TypeOK, Pcs
    <3>2. judged' \in [Procs -> Nat] /\ outcome' \in [Procs -> Outcomes]
      OBVIOUS
    <3>3. misfires' \subseteq Misfires
      OBVIOUS
    <3> QED
      BY <3>1, <3>2, <3>3
  <2>8. CASE Probe(p)
    BY <2>8 DEF Probe, Return, Goto
  <2>9. CASE Rename(p)
    <3> USE <2>9 DEF Rename, Unread, NextAttempt, Return, Goto, Disturbs
    <3>1. pc' \in [Procs -> Pcs] /\ outcome' \in [Procs -> Outcomes]
      OBVIOUS
    <3>2. attempt' = [attempt EXCEPT ![p] = attempt[p] + 1] /\ attempt[p] < MaxAttempts
      OBVIOUS
    <3>3. attempt' \in [Procs -> Nat] /\ \A q \in Procs : attempt'[q] <= MaxAttempts
      BY ONLY <3>2, TypeOK, AttemptsAssumption DEF TypeOK
    <3> QED
      BY <3>1, <3>3
  <2>10. CASE RenameFails(p)
    <3> USE <2>10 DEF RenameFails, NextAttempt, Return, Goto
    <3>1. pc' \in [Procs -> Pcs] /\ outcome' \in [Procs -> Outcomes]
      OBVIOUS
    <3>2. attempt' \in [Procs -> Nat] /\ \A q \in Procs : attempt'[q] <= MaxAttempts
      OBVIOUS
    <3> QED
      BY <3>1, <3>2
  <2>11. CASE Release(p)
    BY <2>11 DEF Release, Goto, Disturbs
  <2>12. CASE ReleaseCheck(p)
    BY <2>12 DEF ReleaseCheck, Goto, Unreadable
  <2>13. CASE Remove(p)
    BY <2>13 DEF Remove, Unread, Goto, Disturbs
  <2>14. CASE RemoveFails(p)
    BY <2>14 DEF RemoveFails, Goto
  <2>15. CASE Crash(p)
    <3> USE <2>15 DEF Crash, Return, Goto, Disturbs
    <3>1. pc' \in [Procs -> Pcs] /\ outcome' \in [Procs -> Outcomes]
      OBVIOUS
    <3>2. orphans' \subseteq orphans \cup Files
      OBVIOUS
    <3>3. orphans' \subseteq Nat
      BY ONLY <3>2, TypeOK, CallsAssumption DEF TypeOK, Files
    <3> QED
      BY <3>1, <3>3
  <2>17. CASE ReadFails(p)
    BY <2>17 DEF ReadFails, Goto
  <2>18. CASE ReleaseCheckFails(p)
    BY <2>18 DEF ReleaseCheckFails, Goto
  <2>16. CASE Restart(p)
    BY <2>16 DEF Restart, Disturbs
  <2> QED
    BY <1>1, <2>1, <2>2, <2>3, <2>4, <2>5, <2>6, <2>7, <2>8, <2>9, <2>10, <2>11, <2>12,
       <2>13, <2>14, <2>15, <2>16, <2>17, <2>18 DEF Step, SystemCall
<1>2. CASE UNCHANGED vars
  BY <1>2
<1> QED
  BY <1>1, <1>2 DEF Next, Step
LEMMA BoundStep == TypeOK /\ BoundInv /\ LifeInv /\ NameInv /\ [Next]_vars => BoundInv'
<1> SUFFICES ASSUME TypeOK, BoundInv, LifeInv, NameInv, [Next]_vars PROVE BoundInv'
  OBVIOUS
<1> USE AttemptsAssumption, CallsAssumption
        DEF TypeOK, BoundInv, LifeInv, Acquiring, files, processes, names, history, Files
<1>1. ASSUME NEW p \in Procs, Step(p) PROVE BoundInv'
  <2>1. CASE Acquire(p)
    <3> USE <2>1 DEF Acquire, Goto
    <3>1. calls' <= MaxCalls /\ lock' <= calls'
      OBVIOUS
    <3>2. \A f \in written' : f # 0 /\ f <= calls'
      OBVIOUS
    <3>3. \A q \in Procs : token'[q] <= calls' /\ judged'[q] <= calls'
      <4>1. calls' = calls + 1 /\ judged' = judged
        OBVIOUS
      <4>2. \A q \in Procs : token'[q] = token[q] \/ token'[q] = calls + 1
        OBVIOUS
      <4>3. calls \in Nat /\ \A q \in Procs : /\ token[q] \in Nat /\ token[q] <= calls
                                             /\ judged[q] \in Nat /\ judged[q] <= calls
        OBVIOUS
      <4> QED
        BY ONLY <4>1, <4>2, <4>3
    <3>4. (\A q \in Procs : Acquiring(q) => attempt[q] < MaxAttempts)'
      OBVIOUS
    <3> QED
      BY <3>1, <3>2, <3>3, <3>4
  <2>2. CASE CreateLinked(p)
    <3> USE <2>2 DEF CreateLinked, Acquired, Return, Goto, Disturbs
    <3>1. calls' <= MaxCalls /\ lock' <= calls'
      OBVIOUS
    <3>2. \A f \in written' : f # 0 /\ f <= calls'
      BY DEF NameInv
    <3>3. \A q \in Procs : token'[q] <= calls' /\ judged'[q] <= calls'
      OBVIOUS
    <3>4. (\A q \in Procs : Acquiring(q) => attempt[q] < MaxAttempts)'
      OBVIOUS
    <3> QED
      BY <3>1, <3>2, <3>3, <3>4
  <2>3. CASE CreateEmpty(p)
    BY <2>3 DEF CreateEmpty, Goto, Disturbs
  <2>4. CASE WriteBody(p)
    <3> USE <2>4 DEF WriteBody, Acquired, Return, Goto, Disturbs
    <3>1. calls' <= MaxCalls /\ lock' <= calls'
      OBVIOUS
    <3>2. \A f \in written' : f # 0 /\ f <= calls'
      BY DEF NameInv
    <3>3. \A q \in Procs : token'[q] <= calls' /\ judged'[q] <= calls'
      OBVIOUS
    <3>4. (\A q \in Procs : Acquiring(q) => attempt[q] < MaxAttempts)'
      OBVIOUS
    <3> QED
      BY <3>1, <3>2, <3>3, <3>4
  <2>5. CASE CreateFails(p)
    BY <2>5 DEF CreateFails, Return, Goto
  <2>6. CASE CreateExists(p)
    BY <2>6 DEF CreateExists, Goto
  <2>7. CASE ReadInfo(p)
    <3> USE <2>7 DEF ReadInfo, Return, Goto, Unreadable
    <3>1. calls' <= MaxCalls /\ lock' <= calls'
      OBVIOUS
    <3>2. \A f \in written' : f # 0 /\ f <= calls'
      OBVIOUS
    <3>3. \A q \in Procs : token'[q] <= calls' /\ judged'[q] <= calls'
      OBVIOUS
    <3>4. (\A q \in Procs : Acquiring(q) => attempt[q] < MaxAttempts)'
      <4>1. \A q \in Procs : Acquiring(q)' => Acquiring(q)
        <5>1. pc[p] = "read" /\ \A q \in Procs \ {p} : pc'[q] = pc[q]
          OBVIOUS
        <5> QED
          BY ONLY <5>1 DEF Acquiring
      <4>2. attempt' = attempt
        OBVIOUS
      <4> HIDE DEF Acquiring
      <4> QED
        BY <4>1, <4>2
    <3> QED
      BY <3>1, <3>2, <3>3, <3>4
  <2>8. CASE Probe(p)
    BY <2>8 DEF Probe, Return, Goto
  <2>9. CASE Rename(p)
    BY <2>9 DEF Rename, Unread, NextAttempt, Return, Goto, Disturbs
  <2>10. CASE RenameFails(p)
    BY <2>10 DEF RenameFails, NextAttempt, Return, Goto
  <2>11. CASE Release(p)
    BY <2>11 DEF Release, Goto, Disturbs
  <2>12. CASE ReleaseCheck(p)
    BY <2>12 DEF ReleaseCheck, Goto, Unreadable
  <2>13. CASE Remove(p)
    BY <2>13 DEF Remove, Unread, Goto, Disturbs
  <2>14. CASE RemoveFails(p)
    BY <2>14 DEF RemoveFails, Goto
  <2>15. CASE Crash(p)
    BY <2>15 DEF Crash, Return, Goto, Disturbs
  <2>17. CASE ReadFails(p)
    BY <2>17 DEF ReadFails, Goto
  <2>18. CASE ReleaseCheckFails(p)
    BY <2>18 DEF ReleaseCheckFails, Goto
  <2>16. CASE Restart(p)
    BY <2>16 DEF Restart, Disturbs
  <2> QED
    BY <1>1, <2>1, <2>2, <2>3, <2>4, <2>5, <2>6, <2>7, <2>8, <2>9, <2>10, <2>11, <2>12,
       <2>13, <2>14, <2>15, <2>16, <2>17, <2>18 DEF Step, SystemCall
<1>2. CASE UNCHANGED vars
  BY <1>2 DEF vars, files, processes, names, history
<1> QED
  BY <1>1, <1>2 DEF Next, Step

LEMMA NameStep ==
  TypeOK /\ BoundInv /\ LifeInv /\ NameInv
  /\ [Next]_vars => NameInv' /\ LifeInv'
<1> SUFFICES ASSUME TypeOK, BoundInv, LifeInv, NameInv,
                [Next]_vars PROVE NameInv' /\ LifeInv'
  OBVIOUS
<1> USE CallsAssumption
        DEF TypeOK, BoundInv, LifeInv, NameInv, files, processes, names, history, Files
<1>1. ASSUME NEW p \in Procs, Step(p) PROVE NameInv' /\ LifeInv'
  <2>1. CASE Acquire(p)
    <3> USE <2>1 DEF Acquire, Goto
    <3>1. \A q \in Procs : token'[q] = IF q = p THEN calls + 1 ELSE token[q]
      OBVIOUS
    <3>2. \A f \in Files : owner'[f] = IF f = calls + 1 THEN p ELSE owner[f]
      OBVIOUS
    <3>3. \A q \in Procs : token'[q] # 0 => owner'[token'[q]] = q
      <4>1. calls + 1 \in Files
        OBVIOUS
      <4>2. \A q \in Procs : token[q] # 0 => token[q] \in Files /\ token[q] # calls + 1
        <5>1. \A q \in Procs : token[q] \in Nat /\ token[q] <= calls
          OBVIOUS
        <5>2. calls \in Nat /\ MaxCalls \in Nat /\ calls <= MaxCalls
          OBVIOUS
        <5> QED
          BY ONLY <5>1, <5>2 DEF Files
      <4> QED
        BY ONLY <3>1, <3>2, <4>1, <4>2, NameInv DEF NameInv
    <3>4. LifeInv'
      OBVIOUS
    <3>5. (\A q \in Procs : pc[q] # "idle" \/ q \in holding => token[q] # 0)'
      <4>1. holding' = holding /\ \A q \in Procs \ {p} : pc'[q] = pc[q]
        OBVIOUS
      <4>2. calls + 1 # 0
        OBVIOUS
      <4> QED
        BY ONLY <3>1, <4>1, <4>2, NameInv DEF NameInv
    <3> QED
      BY <3>3, <3>4, <3>5
  <2>2. CASE CreateLinked(p)
    BY <2>2 DEF CreateLinked, Acquired, Return, Goto, Disturbs
  <2>3. CASE CreateEmpty(p)
    BY <2>3 DEF CreateEmpty, Goto, Disturbs
  <2>4. CASE WriteBody(p)
    BY <2>4 DEF WriteBody, Acquired, Return, Goto, Disturbs
  <2>5. CASE CreateFails(p)
    BY <2>5 DEF CreateFails, Return, Goto
  <2>6. CASE CreateExists(p)
    BY <2>6 DEF CreateExists, Goto
  <2>7. CASE ReadInfo(p)
    BY <2>7 DEF ReadInfo, Return, Goto, Unreadable
  <2>8. CASE Probe(p)
    BY <2>8 DEF Probe, Return, Goto
  <2>9. CASE Rename(p)
    BY <2>9 DEF Rename, Unread, NextAttempt, Return, Goto, Disturbs
  <2>10. CASE RenameFails(p)
    BY <2>10 DEF RenameFails, NextAttempt, Return, Goto
  <2>11. CASE Release(p)
    BY <2>11 DEF Release, Goto, Disturbs
  <2>12. CASE ReleaseCheck(p)
    BY <2>12 DEF ReleaseCheck, Goto, Unreadable
  <2>13. CASE Remove(p)
    BY <2>13 DEF Remove, Unread, Goto, Disturbs
  <2>14. CASE RemoveFails(p)
    BY <2>14 DEF RemoveFails, Goto
  <2>15. CASE Crash(p)
    BY <2>15 DEF Crash, Return, Goto, Disturbs
  <2>17. CASE ReadFails(p)
    BY <2>17 DEF ReadFails, Goto
  <2>18. CASE ReleaseCheckFails(p)
    BY <2>18 DEF ReleaseCheckFails, Goto
  <2>16. CASE Restart(p)
    BY <2>16 DEF Restart, Disturbs
  <2> QED
    BY <1>1, <2>1, <2>2, <2>3, <2>4, <2>5, <2>6, <2>7, <2>8, <2>9, <2>10, <2>11, <2>12,
       <2>13, <2>14, <2>15, <2>16, <2>17, <2>18 DEF Step, SystemCall
<1>2. CASE UNCHANGED vars
  BY <1>2 DEF vars, files, processes, names, history
<1> QED
  BY <1>1, <1>2 DEF Next, Step

LEMMA FreshStep ==
  TypeOK /\ BoundInv /\ LifeInv /\ NameInv /\ FreshInv
  /\ [Next]_vars => FreshInv'
<1> SUFFICES ASSUME TypeOK, BoundInv, LifeInv, NameInv, FreshInv,
                [Next]_vars PROVE FreshInv'
  OBVIOUS
<1> USE CallsAssumption
        DEF TypeOK, BoundInv, LifeInv, NameInv, FreshInv, Unmade, Acquiring, files, processes,
            names, history, Files
<1>1. ASSUME NEW p \in Procs, Step(p) PROVE FreshInv'
  <2>1. CASE Acquire(p)
    <3> USE <2>1 DEF Acquire, Goto
    <3>1. (\A q \in Procs : Acquiring(q) => Unmade(token[q]))'
      <4>1. \A q \in Procs : token'[q] = IF q = p THEN calls + 1 ELSE token[q]
        OBVIOUS
      <4>2. \A n \in Nat : n <= calls => n # calls + 1
        OBVIOUS
      <4>3. \A q \in Procs : Acquiring(q)' => q = p \/ Acquiring(q)
        OBVIOUS
      <4>4. lock' # calls + 1 /\ calls + 1 \notin written' /\ \A r \in Procs : judged'[r] # calls + 1
        BY <4>2
      <4>5. lock' = lock /\ written' = written /\ judged' = judged
        OBVIOUS
      <4> HIDE DEF Acquiring
      <4> QED
        BY ONLY <4>1, <4>3, <4>4, <4>5, FreshInv DEF FreshInv, Unmade
    <3>2. (\A q \in Procs : q \in holding \/ pc[q] \in {"check", "remove"} => token[q] \in written)'
      <4>1. /\ p \notin holding' /\ pc'[p] = "create" /\ holding' = holding /\ written' = written
            /\ \A q \in Procs \ {p} : pc'[q] = pc[q] /\ token'[q] = token[q]
        OBVIOUS
      <4> QED
        BY ONLY <4>1, FreshInv DEF FreshInv
    <3>3. (\A q \in Procs : pc[q] = "probe" => judged[q] \in written)'
      OBVIOUS
    <3> QED
      BY ONLY <3>1, <3>2, <3>3 DEF FreshInv
  <2>2. CASE CreateLinked(p)
    <3> USE <2>2 DEF CreateLinked, Acquired, Return, Goto, Disturbs
    <3>1. (\A q \in Procs : Acquiring(q) => Unmade(token[q]))'
      <4>1. ~Acquiring(p)' /\ \A q \in Procs \ {p} : Acquiring(q)' => Acquiring(q)
        OBVIOUS
      <4>2. \A q \in Procs \ {p} : Acquiring(q) => token[q] # token[p]
        OBVIOUS
      <4>3. lock' = token[p] /\ token' = token /\ judged' = judged
            /\ written' \subseteq written \cup {token[p]}
        OBVIOUS
      <4> HIDE DEF Acquiring
      <4> QED
        BY <4>1, <4>2, <4>3
    <3>2. (\A q \in Procs : q \in holding \/ pc[q] \in {"check", "remove"} => token[q] \in written)'
      OBVIOUS
    <3>3. (\A q \in Procs : pc[q] = "probe" => judged[q] \in written)'
      OBVIOUS
    <3> QED
      BY ONLY <3>1, <3>2, <3>3 DEF FreshInv
  <2>3. CASE CreateEmpty(p)
    <3> USE <2>3 DEF CreateEmpty, Goto, Disturbs
    <3>1. (\A q \in Procs : Acquiring(q) => Unmade(token[q]))'
      <4>1. ~Acquiring(p)' /\ \A q \in Procs \ {p} : Acquiring(q)' => Acquiring(q)
        OBVIOUS
      <4>2. \A q \in Procs \ {p} : Acquiring(q) => token[q] # token[p]
        OBVIOUS
      <4>3. lock' = token[p] /\ token' = token /\ judged' = judged
            /\ written' \subseteq written \cup {token[p]}
        OBVIOUS
      <4> HIDE DEF Acquiring
      <4> QED
        BY <4>1, <4>2, <4>3
    <3>2. (\A q \in Procs : q \in holding \/ pc[q] \in {"check", "remove"} => token[q] \in written)'
      OBVIOUS
    <3>3. (\A q \in Procs : pc[q] = "probe" => judged[q] \in written)'
      OBVIOUS
    <3> QED
      BY ONLY <3>1, <3>2, <3>3 DEF FreshInv
  <2>4. CASE WriteBody(p)
    <3> USE <2>4 DEF WriteBody, Acquired, Return, Goto, Disturbs
    <3>1. /\ pc[p] = "write" /\ pc'[p] = "idle"
          /\ \A q \in Procs \ {p} : pc'[q] = pc[q]
      OBVIOUS
    <3>2. holding' = holding \cup {p} /\ written' = written \cup {token[p]} /\ token[p] # 0
      OBVIOUS
    <3>3. UNCHANGED <<lock, token, judged>>
      OBVIOUS
    <3>4. \A q \in Procs \ {p} : Acquiring(q) => token[q] # token[p]
      OBVIOUS
    <3> QED
      BY ONLY <3>1, <3>2, <3>3, <3>4, FreshInv DEF FreshInv, Unmade, Acquiring
  <2>5. CASE CreateFails(p)
    BY <2>5 DEF CreateFails, Return, Goto
  <2>6. CASE CreateExists(p)
    <3> USE <2>6 DEF CreateExists, Goto
    <3>1. /\ pc[p] = "create" /\ pc'[p] = "read"
          /\ \A q \in Procs \ {p} : pc'[q] = pc[q]
      OBVIOUS
    <3>2. UNCHANGED <<lock, written, token, judged, holding>>
      OBVIOUS
    <3> QED
      BY ONLY <3>1, <3>2, FreshInv DEF FreshInv, Unmade, Acquiring
  <2>7. CASE ReadInfo(p)
    <3> USE <2>7 DEF ReadInfo, Return, Goto, Unreadable
    <3>1. (\A q \in Procs : Acquiring(q) => Unmade(token[q]))'
      OBVIOUS
    <3>2. (\A q \in Procs : q \in holding \/ pc[q] \in {"check", "remove"} => token[q] \in written)'
      OBVIOUS
    <3>3. (\A q \in Procs : pc[q] = "probe" => judged[q] \in written)'
      <4>1. pc'[p] = "probe" => judged'[p] \in written
        OBVIOUS
      <4>2. \A q \in Procs \ {p} : pc'[q] = pc[q] /\ judged'[q] = judged[q]
        OBVIOUS
      <4>3. written' = written
        OBVIOUS
      <4> QED
        BY ONLY <4>1, <4>2, <4>3, FreshInv DEF FreshInv
    <3> QED
      BY ONLY <3>1, <3>2, <3>3 DEF FreshInv
  <2>8. CASE Probe(p)
    <3>1. /\ pc[p] = "probe" /\ pc'[p] \in {"idle", "rename"}
          /\ \A q \in Procs \ {p} : pc'[q] = pc[q]
      BY ONLY <2>8, TypeOK DEF TypeOK, Probe, Return, Goto
    <3>2. lock' = lock /\ written' = written /\ judged' = judged /\ token' = token /\ holding' = holding
      BY <2>8 DEF Probe
    <3> QED
      BY ONLY <3>1, <3>2, FreshInv DEF FreshInv, Unmade, Acquiring
  <2>9. CASE Rename(p)
    <3> USE <2>9 DEF Rename, Unread, NextAttempt, Return, Goto, Disturbs
    <3>1. (\A q \in Procs : Acquiring(q) => Unmade(token[q]))'
      <4>1. \A q \in Procs : Acquiring(q)' => Acquiring(q)
        OBVIOUS
      <4>2. \A q \in Procs : Acquiring(q) => token[q] # 0
        OBVIOUS
      <4>3. lock' \in {0, lock} /\ token' = token /\ judged' = judged /\ written' = written
        OBVIOUS
      <4> HIDE DEF Acquiring
      <4> QED
        BY <4>1, <4>2, <4>3
    <3>2. (\A q \in Procs : q \in holding \/ pc[q] \in {"check", "remove"} => token[q] \in written)'
      OBVIOUS
    <3>3. (\A q \in Procs : pc[q] = "probe" => judged[q] \in written)'
      OBVIOUS
    <3> QED
      BY ONLY <3>1, <3>2, <3>3 DEF FreshInv
  <2>10. CASE RenameFails(p)
    <3> USE <2>10 DEF RenameFails, NextAttempt, Return, Goto
    <3>1. (\A q \in Procs : Acquiring(q) => Unmade(token[q]))'
      OBVIOUS
    <3>2. (\A q \in Procs : q \in holding \/ pc[q] \in {"check", "remove"} => token[q] \in written)'
      OBVIOUS
    <3>3. (\A q \in Procs : pc[q] = "probe" => judged[q] \in written)'
      OBVIOUS
    <3> QED
      BY ONLY <3>1, <3>2, <3>3 DEF FreshInv
  <2>11. CASE Release(p)
    BY <2>11 DEF Release, Goto, Disturbs
  <2>12. CASE ReleaseCheck(p)
    <3>1. /\ pc[p] = "check" /\ pc'[p] \in {"remove", "idle"} /\ judged'[p] = lock
          /\ \A q \in Procs \ {p} : pc'[q] = pc[q] /\ judged'[q] = judged[q]
      BY ONLY <2>12, TypeOK DEF TypeOK, ReleaseCheck, Goto
    <3>2. UNCHANGED <<lock, written, token, holding>>
      BY <2>12 DEF ReleaseCheck
    <3> QED
      BY ONLY <3>1, <3>2, FreshInv DEF FreshInv, Unmade, Acquiring
  <2>13. CASE Remove(p)
    <3> USE <2>13 DEF Remove, Unread, Goto, Disturbs
    <3>1. (\A q \in Procs : Acquiring(q) => Unmade(token[q]))'
      OBVIOUS
    <3>2. (\A q \in Procs : q \in holding \/ pc[q] \in {"check", "remove"} => token[q] \in written)'
      OBVIOUS
    <3>3. (\A q \in Procs : pc[q] = "probe" => judged[q] \in written)'
      OBVIOUS
    <3> QED
      BY ONLY <3>1, <3>2, <3>3 DEF FreshInv
  <2>14. CASE RemoveFails(p)
    BY <2>14 DEF RemoveFails, Goto
  <2>15. CASE Crash(p)
    BY <2>15 DEF Crash, Return, Goto, Disturbs
  <2>17. CASE ReadFails(p)
    BY <2>17 DEF ReadFails, Goto
  <2>18. CASE ReleaseCheckFails(p)
    BY <2>18 DEF ReleaseCheckFails, Goto
  <2>16. CASE Restart(p)
    BY <2>16 DEF Restart, Disturbs
  <2> QED
    BY <1>1, <2>1, <2>2, <2>3, <2>4, <2>5, <2>6, <2>7, <2>8, <2>9, <2>10, <2>11, <2>12,
       <2>13, <2>14, <2>15, <2>16, <2>17, <2>18 DEF Step, SystemCall
<1>2. CASE UNCHANGED vars
  BY <1>2 DEF vars, files, processes, names, history
<1> QED
  BY <1>1, <1>2 DEF Next, Step

LEMMA LinkStep ==
  TypeOK /\ BoundInv /\ LifeInv /\ NameInv /\ FreshInv /\ LinkInv
  /\ [Next]_vars => LinkInv'
<1> SUFFICES ASSUME TypeOK, BoundInv, LifeInv, NameInv, FreshInv, LinkInv,
                [Next]_vars PROVE LinkInv'
  OBVIOUS
<1> USE DEF TypeOK, BoundInv, LifeInv, NameInv, FreshInv, LinkInv, files, processes,
            names, history
<1>1. ASSUME NEW p \in Procs, Step(p) PROVE LinkInv'
  <2>1. CASE Acquire(p)
    BY <2>1 DEF Acquire, Goto
  <2>2. CASE CreateLinked(p)
    BY <2>2 DEF CreateLinked, Acquired, Return, Goto, Disturbs
  <2>3. CASE CreateEmpty(p)
    BY <2>3 DEF CreateEmpty, Goto, Disturbs
  <2>4. CASE WriteBody(p)
    BY <2>4 DEF WriteBody, Acquired, Return, Goto, Disturbs
  <2>5. CASE CreateFails(p)
    BY <2>5 DEF CreateFails, Return, Goto
  <2>6. CASE CreateExists(p)
    BY <2>6 DEF CreateExists, Goto
  <2>7. CASE ReadInfo(p)
    BY <2>7 DEF ReadInfo, Return, Goto, Unreadable
  <2>8. CASE Probe(p)
    BY <2>8 DEF Probe, Return, Goto
  <2>9. CASE Rename(p)
    BY <2>9 DEF Rename, Unread, NextAttempt, Return, Goto, Disturbs
  <2>10. CASE RenameFails(p)
    BY <2>10 DEF RenameFails, NextAttempt, Return, Goto
  <2>11. CASE Release(p)
    BY <2>11 DEF Release, Goto, Disturbs
  <2>12. CASE ReleaseCheck(p)
    BY <2>12 DEF ReleaseCheck, Goto, Unreadable
  <2>13. CASE Remove(p)
    BY <2>13 DEF Remove, Unread, Goto, Disturbs
  <2>14. CASE RemoveFails(p)
    BY <2>14 DEF RemoveFails, Goto
  <2>15. CASE Crash(p)
    BY <2>15 DEF Crash, Return, Goto, Disturbs
  <2>17. CASE ReadFails(p)
    BY <2>17 DEF ReadFails, Goto
  <2>18. CASE ReleaseCheckFails(p)
    BY <2>18 DEF ReleaseCheckFails, Goto
  <2>16. CASE Restart(p)
    BY <2>16 DEF Restart, Disturbs
  <2> QED
    BY <1>1, <2>1, <2>2, <2>3, <2>4, <2>5, <2>6, <2>7, <2>8, <2>9, <2>10, <2>11, <2>12,
       <2>13, <2>14, <2>15, <2>16, <2>17, <2>18 DEF Step, SystemCall
<1>2. CASE UNCHANGED vars
  BY <1>2 DEF vars, files, processes, names, history
<1> QED
  BY <1>1, <1>2 DEF Next, Step

LEMMA ExclusionStep ==
  TypeOK /\ BoundInv /\ LifeInv /\ NameInv /\ FreshInv /\ ExclusionInv
  /\ [Next]_vars => ExclusionInv'
<1> SUFFICES ASSUME TypeOK, BoundInv, LifeInv, NameInv, FreshInv, ExclusionInv,
                [Next]_vars PROVE ExclusionInv'
  OBVIOUS
<1> USE DEF TypeOK, BoundInv, LifeInv, NameInv, FreshInv, ExclusionInv, Owns,
            Acquiring, files, processes, names, history, Files
<1>1. ASSUME NEW p \in Procs, Step(p) PROVE ExclusionInv'
  <2>1. CASE Acquire(p)
    BY <2>1 DEF Acquire, Goto
  <2>2. CASE CreateLinked(p)
    <3> USE <2>2 DEF CreateLinked, Acquired, Return, Goto, Disturbs
    <3>1. /\ pc[p] = "create" /\ lock = 0 /\ lock' = token[p]
          /\ \A q \in Procs \ {p} : pc'[q] = pc[q]
      OBVIOUS
    <3>2. \A q \in Procs : Owns(q) => token[q] # 0
      OBVIOUS
    <3>3. holding' = holding \cup {p} /\ pc'[p] = "idle"
      OBVIOUS
    <3>4. UNCHANGED <<token, judged, misfires>>
      OBVIOUS
    <3>5. \A q \in Procs : judged[q] # token[p]
      BY ONLY <2>2, FreshInv DEF FreshInv, Unmade, Acquiring, CreateLinked
    <3> QED
      BY ONLY <3>1, <3>2, <3>3, <3>4, <3>5, ExclusionInv DEF ExclusionInv, Owns
  <2>3. CASE CreateEmpty(p)
    <3> USE <2>3 DEF CreateEmpty, Goto, Disturbs
    <3>1. /\ pc[p] = "create" /\ lock = 0 /\ lock' = token[p]
          /\ \A q \in Procs \ {p} : pc'[q] = pc[q]
      OBVIOUS
    <3>2. \A q \in Procs : Owns(q) => token[q] # 0
      OBVIOUS
    <3>3. holding' = holding /\ pc'[p] = "write"
      OBVIOUS
    <3>4. UNCHANGED <<token, judged, misfires>>
      OBVIOUS
    <3>5. \A q \in Procs : judged[q] # token[p]
      BY ONLY <2>3, FreshInv DEF FreshInv, Unmade, Acquiring, CreateEmpty
    <3> QED
      BY ONLY <3>1, <3>2, <3>3, <3>4, <3>5, ExclusionInv DEF ExclusionInv, Owns
  <2>4. CASE WriteBody(p)
    BY <2>4 DEF WriteBody, Acquired, Return, Goto, Disturbs
  <2>5. CASE CreateFails(p)
    BY <2>5 DEF CreateFails, Return, Goto
  <2>6. CASE CreateExists(p)
    BY <2>6 DEF CreateExists, Goto
  <2>7. CASE ReadInfo(p)
    <3> USE <2>7 DEF ReadInfo, Return, Goto, Unreadable
    <3>1. misfires' = {} => (\A q \in Procs : Owns(q) => lock = token[q])'
      OBVIOUS
    <3>2. misfires' = {} => (\A q, r \in Procs : pc[q] = "rename" /\ Owns(r) => token[r] # judged[q])'
      <4>1. pc[p] = "read" /\ \A q \in Procs \ {p} : pc'[q] = pc[q]
        OBVIOUS
      <4>2. \A q \in Procs : Owns(q)' => Owns(q)
        BY <4>1
      <4>3. /\ \A q \in Procs : judged'[q] = IF q = p THEN lock ELSE judged[q]
            /\ token' = token /\ misfires \subseteq misfires'
        OBVIOUS
      <4>4. ASSUME misfires' = {}, pc'[p] = "rename", NEW r \in Procs, Owns(r), token[r] = lock PROVE FALSE
        <5>1. CASE Unreadable
          <6>1. pc[r] # "write"
            BY <4>4
          <6> QED
            BY <4>4, <5>1, <6>1
        <5>2. CASE owner[lock] = p
          BY <4>1, <4>4, <5>2
        <5> QED
          BY <4>1, <4>4, <5>1, <5>2
      <4> HIDE DEF Owns
      <4> QED
        BY ONLY <4>1, <4>2, <4>3, <4>4, ExclusionInv DEF ExclusionInv
    <3> QED
      BY ONLY <3>1, <3>2 DEF ExclusionInv
  <2>8. CASE Probe(p)
    <3> USE <2>8 DEF Probe, Return, Goto
    <3>1. /\ pc[p] = "probe" /\ pc'[p] \in {"idle", "rename"}
          /\ \A q \in Procs \ {p} : pc'[q] = pc[q]
      OBVIOUS
    <3>2. UNCHANGED <<lock, token, judged, misfires, holding>>
      OBVIOUS
    <3>3. pc'[p] = "rename" => owner[judged[p]] \notin running
      OBVIOUS
    <3>4. \A q \in Procs : Owns(q) => q \in running /\ owner[token[q]] = q
      OBVIOUS
    <3> QED
      BY ONLY <3>1, <3>2, <3>3, <3>4, ExclusionInv DEF ExclusionInv, Owns
  <2>9. CASE Rename(p)
    <3> USE <2>9 DEF Rename, Unread, NextAttempt, Return, Goto, Disturbs
    <3>1. misfires' = {} => (\A q \in Procs : Owns(q) => lock = token[q])'
      <4>1. misfires' = {} => misfires = {} /\ lock \in {0, judged[p]}
        OBVIOUS
      <4>2. \A q \in Procs : Owns(q)' => Owns(q) /\ token[q] # 0
        OBVIOUS
      <4>3. token' = token /\ lock' = 0
        OBVIOUS
      <4>4. misfires = {} => \A q \in Procs : Owns(q) => lock = token[q] /\ token[q] # judged[p]
        OBVIOUS
      <4> HIDE DEF Owns
      <4> QED
        BY ONLY <4>1, <4>2, <4>3, <4>4
    <3>2. misfires' = {} => (\A q, r \in Procs : pc[q] = "rename" /\ Owns(r) => token[r] # judged[q])'
      OBVIOUS
    <3> QED
      BY ONLY <3>1, <3>2 DEF ExclusionInv
  <2>10. CASE RenameFails(p)
    <3> USE <2>10 DEF RenameFails, NextAttempt, Return, Goto
    <3>1. /\ pc[p] = "rename" /\ pc'[p] \in {"idle", "create"}
          /\ \A q \in Procs \ {p} : pc'[q] = pc[q]
      OBVIOUS
    <3>2. UNCHANGED <<lock, token, judged, misfires, holding>>
      OBVIOUS
    <3> QED
      BY ONLY <3>1, <3>2, ExclusionInv DEF ExclusionInv, Owns
  <2>11. CASE Release(p)
    BY <2>11 DEF Release, Goto, Disturbs
  <2>12. CASE ReleaseCheck(p)
    BY <2>12 DEF ReleaseCheck, Goto, Unreadable
  <2>13. CASE Remove(p)
    <3> USE <2>13 DEF Remove, Unread, Goto, Disturbs
    <3>1. misfires' = {} => (\A q \in Procs : Owns(q) => lock = token[q])'
      <4>1. misfires' = {} => misfires = {} /\ lock \in {0, judged[p]}
        OBVIOUS
      <4>2. \A q \in Procs : Owns(q)' => Owns(q) /\ token[q] # 0
        OBVIOUS
      <4>3. token' = token /\ lock' = 0
        OBVIOUS
      <4>4. misfires = {} => \A q \in Procs : Owns(q) => lock = token[q] /\ lock = token[p] /\ token[p] # 0
        OBVIOUS
      <4>5. misfires = {} => \A q \in Procs : Owns(q) => q = p
        BY ONLY <4>4, NameInv DEF NameInv
      <4>6. ~Owns(p)'
        OBVIOUS
      <4> HIDE DEF Owns
      <4> QED
        BY ONLY <4>1, <4>2, <4>3, <4>5, <4>6
    <3>2. misfires' = {} => (\A q, r \in Procs : pc[q] = "rename" /\ Owns(r) => token[r] # judged[q])'
      OBVIOUS
    <3> QED
      BY ONLY <3>1, <3>2 DEF ExclusionInv
  <2>14. CASE RemoveFails(p)
    BY <2>14 DEF RemoveFails, Goto
  <2>15. CASE Crash(p)
    BY <2>15 DEF Crash, Return, Goto, Disturbs
  <2>17. CASE ReadFails(p)
    BY <2>17 DEF ReadFails, Goto
  <2>18. CASE ReleaseCheckFails(p)
    BY <2>18 DEF ReleaseCheckFails, Goto
  <2>16. CASE Restart(p)
    BY <2>16 DEF Restart, Disturbs
  <2> QED
    BY <1>1, <2>1, <2>2, <2>3, <2>4, <2>5, <2>6, <2>7, <2>8, <2>9, <2>10, <2>11, <2>12,
       <2>13, <2>14, <2>15, <2>16, <2>17, <2>18 DEF Step, SystemCall
<1>2. CASE UNCHANGED vars
  BY <1>2 DEF vars, files, processes, names, history
<1> QED
  BY <1>1, <1>2 DEF Next, Step

(* A step in which one process moves on, and not out of its release.        *)
LEMMA AccountKept ==
  ASSUME AccountInv, lock \in written => owner[lock] \in Procs, NEW p \in Procs,
         pc[p] \notin {"check", "remove"}, \A q \in Procs \ {p} : pc'[q] = pc[q],
         UNCHANGED <<lock, written, token, owner, orphans, kept, holding>>
  PROVE  AccountInv'
  BY DEF AccountInv

LEMMA AccountStep ==
  TypeOK /\ BoundInv /\ LifeInv /\ NameInv /\ FreshInv /\ AccountInv
  /\ [Next]_vars => AccountInv'
<1> SUFFICES ASSUME TypeOK, BoundInv, LifeInv, NameInv, FreshInv, AccountInv,
                [Next]_vars PROVE AccountInv'
  OBVIOUS
<1> USE CallsAssumption
        DEF TypeOK, BoundInv, LifeInv, NameInv, FreshInv, AccountInv, Acquiring, files,
            processes, names, history, Files
<1>0. lock \in written => owner[lock] \in Procs
  <2>1. lock \in written => lock \in Files
    OBVIOUS
  <2> QED
    BY <2>1
<1>1. ASSUME NEW p \in Procs, Step(p) PROVE AccountInv'
  <2>1. CASE Acquire(p)
    <3> USE <2>1 DEF Acquire, Goto
    <3>1. ASSUME lock \in written PROVE owner'[lock] = owner[lock]
      <4>1. lock # calls + 1
        BY <3>1
      <4> QED
        BY <4>1
    <3>2. /\ pc[p] = "idle" /\ p \notin holding
          /\ \A q \in Procs \ {p} : token'[q] = token[q] /\ pc'[q] = pc[q]
      OBVIOUS
    <3>3. UNCHANGED <<lock, written, orphans, kept, holding>>
      OBVIOUS
    <3> QED
      BY ONLY <1>0, <3>1, <3>2, <3>3, AccountInv DEF AccountInv
  <2>2. CASE CreateLinked(p)
    BY <2>2 DEF CreateLinked, Acquired, Return, Goto, Disturbs
  <2>3. CASE CreateEmpty(p)
    <3> USE <2>3 DEF CreateEmpty, Goto, Disturbs
    <3>1. lock' = token[p] /\ written' = written /\ token[p] \notin written
      BY ONLY <2>3, FreshInv DEF FreshInv, Unmade, Acquiring, CreateEmpty
    <3> QED
      BY ONLY <3>1, AccountInv DEF AccountInv
  <2>4. CASE WriteBody(p)
    <3> USE <2>4 DEF WriteBody, Acquired, Return, Goto, Disturbs
    <3>1. UNCHANGED <<lock, token, owner, orphans, kept>>
      OBVIOUS
    <3>2. written' = written \cup {token[p]} /\ holding' = holding \cup {p}
      OBVIOUS
    <3>3. owner[token[p]] = p
      OBVIOUS
    <3>4. pc[p] = "write" /\ \A q \in Procs \ {p} : pc'[q] = pc[q]
      OBVIOUS
    <3> QED
      BY ONLY <1>0, <3>1, <3>2, <3>3, <3>4, AccountInv DEF AccountInv
  <2>5. CASE CreateFails(p)
    <3> USE <2>5 DEF CreateFails, Return, Goto
    <3>1. pc[p] \in {"create", "write"} /\ \A q \in Procs \ {p} : pc'[q] = pc[q]
      OBVIOUS
    <3>2. UNCHANGED <<lock, written, token, owner, orphans, kept, holding>>
      OBVIOUS
    <3> QED
      BY ONLY <1>0, <3>1, <3>2, AccountInv, AccountKept
  <2>6. CASE CreateExists(p)
    <3> USE <2>6 DEF CreateExists, Goto
    <3>1. pc[p] = "create" /\ \A q \in Procs \ {p} : pc'[q] = pc[q]
      OBVIOUS
    <3>2. UNCHANGED <<lock, written, token, owner, orphans, kept, holding>>
      OBVIOUS
    <3> QED
      BY ONLY <1>0, <3>1, <3>2, AccountInv, AccountKept
  <2>7. CASE ReadInfo(p)
    <3> USE <2>7 DEF ReadInfo, Return, Goto, Unreadable
    <3>1. pc[p] = "read" /\ \A q \in Procs \ {p} : pc'[q] = pc[q]
      OBVIOUS
    <3>2. UNCHANGED <<lock, written, token, owner, orphans, kept, holding>>
      OBVIOUS
    <3> QED
      BY ONLY <1>0, <3>1, <3>2, AccountInv, AccountKept
  <2>8. CASE Probe(p)
    <3> USE <2>8 DEF Probe, Return, Goto
    <3>1. pc[p] = "probe" /\ \A q \in Procs \ {p} : pc'[q] = pc[q]
      OBVIOUS
    <3>2. UNCHANGED <<lock, written, token, owner, orphans, kept, holding>>
      OBVIOUS
    <3> QED
      BY ONLY <1>0, <3>1, <3>2, AccountInv, AccountKept
  <2>9. CASE Rename(p)
    BY <2>9 DEF Rename, Unread, NextAttempt, Return, Goto, Disturbs
  <2>10. CASE RenameFails(p)
    <3> USE <2>10 DEF RenameFails, NextAttempt, Return, Goto
    <3>1. pc[p] = "rename" /\ \A q \in Procs \ {p} : pc'[q] = pc[q]
      OBVIOUS
    <3>2. UNCHANGED <<lock, written, token, owner, orphans, kept, holding>>
      OBVIOUS
    <3> QED
      BY ONLY <1>0, <3>1, <3>2, AccountInv, AccountKept
  <2>11. CASE Release(p)
    <3> USE <2>11 DEF Release, Goto, Disturbs
    <3>1. /\ pc'[p] = "check" /\ holding' = holding \ {p}
          /\ \A q \in Procs \ {p} : pc'[q] = pc[q]
      OBVIOUS
    <3>2. UNCHANGED <<lock, written, token, owner, orphans, kept>>
      OBVIOUS
    <3> QED
      BY ONLY <3>1, <3>2, <1>0, AccountInv DEF AccountInv
  <2>12. CASE ReleaseCheck(p)
    <3> USE <2>12 DEF ReleaseCheck, Goto, Unreadable
    <3>1. /\ pc[p] = "check" /\ pc'[p] \in {"remove", "idle"}
          /\ \A q \in Procs \ {p} : pc'[q] = pc[q]
      OBVIOUS
    <3>2. pc'[p] = "idle" => lock # token[p]
      OBVIOUS
    <3>3. UNCHANGED <<lock, written, token, owner, orphans, kept, holding>>
      OBVIOUS
    <3> QED
      BY ONLY <3>1, <3>2, <3>3, <1>0, AccountInv DEF AccountInv
  <2>13. CASE Remove(p)
    BY <2>13 DEF Remove, Unread, Goto, Disturbs
  <2>14. CASE RemoveFails(p)
    <3> USE <2>14 DEF RemoveFails, Goto
    <3>1. /\ pc[p] = "remove" /\ kept' = kept \cup {token[p]}
          /\ \A q \in Procs \ {p} : pc'[q] = pc[q]
      OBVIOUS
    <3>2. UNCHANGED <<lock, written, token, owner, orphans, holding>>
      OBVIOUS
    <3>3. p \notin holding
      OBVIOUS
    <3> QED
      BY ONLY <3>1, <3>2, <3>3, <1>0, AccountInv DEF AccountInv
  <2>15. CASE Crash(p)
    <3> USE <2>15 DEF Crash, Return, Goto, Disturbs
    <3>1. /\ holding' = holding \ {p}
          /\ \A q \in Procs \ {p} : pc'[q] = pc[q]
      OBVIOUS
    <3>2. UNCHANGED <<lock, written, token, owner, kept>>
      OBVIOUS
    <3>3. orphans \subseteq orphans' /\ \A f \in Files : f <= calls /\ owner[f] = p => f \in orphans'
      OBVIOUS
    <3>4. lock \in written => lock \in Files /\ lock <= calls
      OBVIOUS
    <3> QED
      BY ONLY <3>1, <3>2, <3>3, <3>4, <1>0, AccountInv DEF AccountInv
  <2>17. CASE ReadFails(p)
    <3> USE <2>17 DEF ReadFails, Goto
    <3>1. pc[p] = "read" /\ \A q \in Procs \ {p} : pc'[q] = pc[q]
      OBVIOUS
    <3>2. UNCHANGED <<lock, written, token, owner, orphans, kept, holding>>
      OBVIOUS
    <3> QED
      BY ONLY <1>0, <3>1, <3>2, AccountInv, AccountKept
  <2>18. CASE ReleaseCheckFails(p)
    BY <2>18 DEF ReleaseCheckFails, Goto
  <2>16. CASE Restart(p)
    BY <2>16 DEF Restart, Disturbs
  <2> QED
    BY <1>1, <2>1, <2>2, <2>3, <2>4, <2>5, <2>6, <2>7, <2>8, <2>9, <2>10, <2>11, <2>12,
       <2>13, <2>14, <2>15, <2>16, <2>17, <2>18 DEF Step, SystemCall
<1>2. CASE UNCHANGED vars
  BY <1>2 DEF vars, files, processes, names, history
<1> QED
  BY <1>1, <1>2 DEF Next, Step

LEMMA AloneStep ==
  TypeOK /\ BoundInv /\ LifeInv /\ NameInv /\ AloneInv
  /\ [Next]_vars => AloneInv'
<1> SUFFICES ASSUME TypeOK, BoundInv, LifeInv, NameInv, AloneInv,
                [Next]_vars PROVE AloneInv'
  OBVIOUS
<1> USE DEF TypeOK, BoundInv, LifeInv, NameInv, AloneInv, Acquiring, files, processes,
            names, history, Files
<1>1. ASSUME NEW p \in Procs, Step(p) PROVE AloneInv'
  <2>1. CASE Acquire(p)
    BY <2>1 DEF Acquire, Goto
  <2>2. CASE CreateLinked(p)
    BY <2>2 DEF CreateLinked, Acquired, Return, Goto, Disturbs
  <2>3. CASE CreateEmpty(p)
    BY <2>3 DEF CreateEmpty, Goto, Disturbs
  <2>4. CASE WriteBody(p)
    BY <2>4 DEF WriteBody, Acquired, Return, Goto, Disturbs
  <2>5. CASE CreateFails(p)
    BY <2>5 DEF CreateFails, Return, Goto
  <2>6. CASE CreateExists(p)
    BY <2>6 DEF CreateExists, Goto
  <2>7. CASE ReadInfo(p)
    BY <2>7 DEF ReadInfo, Return, Goto, Unreadable
  <2>8. CASE Probe(p)
    BY <2>8 DEF Probe, Return, Goto
  <2>9. CASE Rename(p)
    <3> USE <2>9 DEF Rename, Unread, NextAttempt, Return, Goto, Disturbs
    <3>1. /\ undisturbed' \subseteq {p} /\ lock' = 0
          /\ pc'[p] = "idle" \/ (pc'[p] = "create" /\ outcome' = outcome)
          /\ holding' = holding /\ p \notin holding
      OBVIOUS
    <3>2. attempt'[p] = attempt[p] + 1 /\ pc[p] = "rename"
      OBVIOUS
    <3>3. p \in undisturbed' => attempt[p] = 0 /\ outcome[p] # "held"
      BY <3>2
    <3> QED
      BY ONLY <3>1, <3>2, <3>3 DEF AloneInv, Acquiring
  <2>10. CASE RenameFails(p)
    BY <2>10 DEF RenameFails, NextAttempt, Return, Goto
  <2>11. CASE Release(p)
    BY <2>11 DEF Release, Goto, Disturbs
  <2>12. CASE ReleaseCheck(p)
    BY <2>12 DEF ReleaseCheck, Goto, Unreadable
  <2>13. CASE Remove(p)
    <3> USE <2>13 DEF Remove, Unread, Goto, Disturbs
    <3>1. undisturbed' \subseteq {p} /\ pc'[p] = "idle" /\ p \notin holding'
      OBVIOUS
    <3> QED
      BY ONLY <3>1 DEF AloneInv, Acquiring
  <2>14. CASE RemoveFails(p)
    BY <2>14 DEF RemoveFails, Goto
  <2>15. CASE Crash(p)
    BY <2>15 DEF Crash, Return, Goto, Disturbs
  <2>17. CASE ReadFails(p)
    BY <2>17 DEF ReadFails, Goto
  <2>18. CASE ReleaseCheckFails(p)
    BY <2>18 DEF ReleaseCheckFails, Goto
  <2>16. CASE Restart(p)
    BY <2>16 DEF Restart, Disturbs
  <2> QED
    BY <1>1, <2>1, <2>2, <2>3, <2>4, <2>5, <2>6, <2>7, <2>8, <2>9, <2>10, <2>11, <2>12,
       <2>13, <2>14, <2>15, <2>16, <2>17, <2>18 DEF Step, SystemCall
<1>2. CASE UNCHANGED vars
  BY <1>2 DEF vars, files, processes, names, history
<1> QED
  BY <1>1, <1>2 DEF Next, Step

LEMMA RefusalStep ==
  MaxAttempts >= 2 /\ TypeOK /\ BoundInv /\ LifeInv /\ NameInv /\ FreshInv
  /\ AccountInv /\ AloneInv /\ RefusalIsJustified
  /\ [Next]_vars => RefusalIsJustified'
<1> SUFFICES ASSUME MaxAttempts >= 2, TypeOK, BoundInv, LifeInv, NameInv,
                FreshInv, AccountInv, AloneInv, RefusalIsJustified, [Next]_vars PROVE RefusalIsJustified'
  OBVIOUS
<1> USE AttemptsAssumption
        DEF TypeOK, BoundInv, LifeInv, NameInv, FreshInv, AccountInv, AloneInv,
            RefusalIsJustified, Acquiring, files, processes, names, history, Files
<1>1. ASSUME NEW p \in Procs, Step(p) PROVE RefusalIsJustified'
  <2>1. CASE Acquire(p)
    <3> USE <2>1 DEF Acquire, Goto
    <3>1. /\ outcome'[p] = "none" /\ undisturbed' \subseteq undisturbed \cup {p}
          /\ \A q \in Procs \ {p} : outcome'[q] = outcome[q] /\ token'[q] = token[q] /\ pc'[q] = pc[q]
      OBVIOUS
    <3>2. pc[p] = "idle" /\ p \notin holding
      OBVIOUS
    <3>3. lock # 0 => owner'[lock] = owner[lock] /\ owner[lock] \in Procs
      <4>1. lock # 0 => lock \in Files /\ owner[lock] \in Procs /\ lock # calls + 1
        BY ONLY TypeOK, BoundInv, LockOwner DEF TypeOK, BoundInv
      <4> QED
        BY ONLY <2>1, <4>1, TypeOK DEF TypeOK, Acquire
    <3>4. UNCHANGED <<lock, running, orphans, kept, holding>>
      OBVIOUS
    <3>5. undisturbed \subseteq Procs
      OBVIOUS
    <3> QED
      BY ONLY <3>1, <3>2, <3>3, <3>4, <3>5, RefusalIsJustified DEF RefusalIsJustified
  <2>2. CASE CreateLinked(p)
    BY <2>2 DEF CreateLinked, Acquired, Return, Goto, Disturbs
  <2>3. CASE CreateEmpty(p)
    BY <2>3 DEF CreateEmpty, Goto, Disturbs
  <2>4. CASE WriteBody(p)
    BY <2>4 DEF WriteBody, Acquired, Return, Goto, Disturbs
  <2>5. CASE CreateFails(p)
    BY <2>5 DEF CreateFails, Return, Goto
  <2>6. CASE CreateExists(p)
    BY <2>6 DEF CreateExists, Goto
  <2>7. CASE ReadInfo(p)
    BY <2>7 DEF ReadInfo, Return, Goto, Unreadable
  <2>8. CASE Probe(p)
    <3> USE <2>8 DEF Probe, Return, Goto
    <3>1. /\ pc[p] = "probe" /\ undisturbed' = undisturbed /\ undisturbed \subseteq Procs
          /\ \A q \in Procs \ {p} : outcome'[q] = outcome[q] /\ pc'[q] = pc[q]
      OBVIOUS
    <3>2. UNCHANGED <<lock, running, token, owner, orphans, kept, holding>>
      OBVIOUS
    <3>3. p \in undisturbed => lock = judged[p] /\ outcome[p] # "held"
      OBVIOUS
    <3>4. judged[p] \in written /\ judged[p] # 0
      OBVIOUS
    <3>5. outcome'[p] = "held" => owner[judged[p]] \in running \/ outcome[p] = "held"
      OBVIOUS
    <3>6. lock # 0 => owner[lock] \in Procs
      BY ONLY TypeOK, BoundInv, LockOwner DEF TypeOK, BoundInv
    <3> QED
      BY ONLY <3>1, <3>2, <3>3, <3>4, <3>5, <3>6, AccountInv, RefusalIsJustified
         DEF AccountInv, RefusalIsJustified
  <2>9. CASE Rename(p)
    <3> USE <2>9 DEF Rename, Unread, NextAttempt, Return, Goto, Disturbs
    <3>1. undisturbed' \subseteq {p} \cap undisturbed
      OBVIOUS
    <3>2. p \in undisturbed => attempt[p] = 0 /\ outcome[p] # "held"
      OBVIOUS
    <3>3. attempt[p] = 0 => outcome' = outcome
      OBVIOUS
    <3> QED
      BY ONLY <3>1, <3>2, <3>3 DEF RefusalIsJustified
  <2>10. CASE RenameFails(p)
    <3> USE <2>10 DEF RenameFails, NextAttempt, Return, Goto
    <3>1. /\ pc[p] = "rename" /\ undisturbed' = undisturbed \ {p} /\ undisturbed \subseteq Procs
          /\ \A q \in Procs \ {p} : outcome'[q] = outcome[q] /\ pc'[q] = pc[q]
      OBVIOUS
    <3>2. UNCHANGED <<lock, running, token, owner, orphans, kept, holding>>
      OBVIOUS
    <3>3. lock # 0 => owner[lock] \in Procs
      BY ONLY TypeOK, BoundInv, LockOwner DEF TypeOK, BoundInv
    <3> QED
      BY ONLY <3>1, <3>2, <3>3, RefusalIsJustified DEF RefusalIsJustified
  <2>11. CASE Release(p)
    BY <2>11 DEF Release, Goto, Disturbs
  <2>12. CASE ReleaseCheck(p)
    BY <2>12 DEF ReleaseCheck, Goto, Unreadable
  <2>13. CASE Remove(p)
    <3> USE <2>13 DEF Remove, Unread, Goto, Disturbs
    <3>1. undisturbed' \subseteq {p} \cap undisturbed /\ outcome' = outcome
      OBVIOUS
    <3>2. p \in undisturbed => outcome[p] # "held"
      OBVIOUS
    <3> QED
      BY ONLY <3>1, <3>2 DEF RefusalIsJustified
  <2>14. CASE RemoveFails(p)
    BY <2>14 DEF RemoveFails, Goto
  <2>15. CASE Crash(p)
    BY <2>15 DEF Crash, Return, Goto, Disturbs
  <2>17. CASE ReadFails(p)
    BY <2>17 DEF ReadFails, Goto
  <2>18. CASE ReleaseCheckFails(p)
    BY <2>18 DEF ReleaseCheckFails, Goto
  <2>16. CASE Restart(p)
    BY <2>16 DEF Restart, Disturbs
  <2> QED
    BY <1>1, <2>1, <2>2, <2>3, <2>4, <2>5, <2>6, <2>7, <2>8, <2>9, <2>10, <2>11, <2>12,
       <2>13, <2>14, <2>15, <2>16, <2>17, <2>18 DEF Step, SystemCall
<1>2. CASE UNCHANGED vars
  BY <1>2 DEF vars, files, processes, names, history
<1> QED
  BY <1>1, <1>2 DEF Next, Step

-----------------------------------------------------------------------------
(* The theorems.                                                            *)

LEMMA InvInit == Init => Inv /\ AloneInv /\ RefusalIsJustified
<1> SUFFICES ASSUME Init PROVE Inv /\ AloneInv /\ RefusalIsJustified
  OBVIOUS
<1> USE ProcsAssumption, AttemptsAssumption, CallsAssumption DEF Init
<1>1. TypeOK
  <2>1. (CHOOSE p \in Procs : TRUE) \in Procs
    OBVIOUS
  <2>2. owner \in [Files -> Procs]
    BY <2>1
  <2>3. pc \in [Procs -> Pcs] /\ outcome \in [Procs -> Outcomes]
    BY DEF Pcs, Outcomes
  <2>4. /\ token \in [Procs -> Nat] /\ attempt \in [Procs -> Nat] /\ judged \in [Procs -> Nat]
        /\ \A p \in Procs : attempt[p] <= MaxAttempts
    OBVIOUS
  <2>5. lock \in Nat /\ written \subseteq Nat /\ running \subseteq Procs /\ holding \subseteq running
    OBVIOUS
  <2>6. /\ calls \in Nat /\ orphans \subseteq Nat /\ kept \subseteq Nat
        /\ misfires \subseteq Misfires /\ undisturbed \subseteq Procs
    OBVIOUS
  <2> QED
    BY ONLY <2>2, <2>3, <2>4, <2>5, <2>6 DEF TypeOK
<1>2. BoundInv /\ LifeInv /\ NameInv /\ FreshInv
  <2>1. \A p \in Procs : token[p] = 0 /\ judged[p] = 0 /\ pc[p] = "idle" /\ ~Acquiring(p)
    BY DEF Acquiring
  <2>2. BoundInv
    BY <2>1 DEF BoundInv
  <2> QED
    BY <2>1, <2>2 DEF LifeInv, NameInv, FreshInv
<1>3. LinkInv /\ ExclusionInv /\ AccountInv
  BY DEF LinkInv, ExclusionInv, AccountInv, Owns
<1> QED
  BY <1>1, <1>2, <1>3 DEF Inv, AloneInv, RefusalIsJustified

LEMMA InvStep == Inv /\ [Next]_vars => Inv'
  BY TypeStep, BoundStep, NameStep, FreshStep, LinkStep, ExclusionStep, AccountStep DEF Inv

(* The invariant holds.                                                     *)
THEOREM InvHolds == Spec => []Inv
  BY InvInit, InvStep, PTL DEF Spec

(* Every variable keeps its type, and acquireStoreLock's loop counter its   *)
(* bound, in every behaviour of the lock.                                   *)
THEOREM TypeCorrect == Spec => []TypeOK
<1>1. Inv => TypeOK
  BY DEF Inv
<1> QED
  BY <1>1, InvHolds, PTL

(* The credential store has one writer unless a rename or a remove of       *)
(* store-lock.ts hit a file its caller had not read, be it that another one *)
(* had come in its place or that readText had thrown, or a file was judged  *)
(* before its body was written, which hard links rule out.                  *)
THEOREM ExclusionHolds == Spec => []ExclusiveUnlessMisfired
<1>1. Inv => ExclusiveUnlessMisfired
  <2> SUFFICES ASSUME Inv PROVE ExclusiveUnlessMisfired
    OBVIOUS
  <2>1. ASSUME misfires = {}, NEW p \in holding, NEW q \in holding PROVE p = q
    <3>1. p \in Procs /\ q \in Procs
      BY DEF Inv, TypeOK
    <3>2. token[p] = token[q] /\ token[p] # 0
      BY <2>1, <3>1 DEF Inv, ExclusionInv, Owns, NameInv
    <3> QED
      BY <3>1, <3>2 DEF Inv, NameInv
  <2>2. HardLinks => "unwritten" \notin misfires
    BY DEF Inv, LinkInv
  <2> QED
    BY <2>1, <2>2 DEF ExclusiveUnlessMisfired, MutualExclusion
<1> QED
  BY <1>1, InvHolds, PTL

(* An acquirer nobody interferes with is refused only by a lock on another  *)
(* host or one in use, given the two attempts that a reclaim and the create *)
(* after it need (the code has three).                                      *)
THEOREM RefusalHolds == ASSUME MaxAttempts >= 2 PROVE Spec => []RefusalIsJustified
<1>1. Inv /\ AloneInv /\ RefusalIsJustified /\ [Next]_vars
        => (Inv /\ AloneInv /\ RefusalIsJustified)'
  BY InvStep, AloneStep, RefusalStep DEF Inv
<1>2. Init => Inv /\ AloneInv /\ RefusalIsJustified
  BY InvInit
<1> QED
  BY <1>1, <1>2, PTL DEF Spec

(* With hard links, release removes another call's lock only if that lock   *)
(* came after release had looked, or release failed to read it.             *)
THEOREM ReleaseHolds == ASSUME HardLinks = TRUE PROVE Spec => ReleaseSparesOthers
<1>1. Inv => [\A p \in Procs : pc[p] = "remove" /\ pc'[p] = "idle" /\ lock # 0 /\ lock' = 0
                               /\ running' = running
                => lock = token[p] \/ lock # judged[p] \/ lock \notin written]_vars
  BY DEF Inv, LinkInv
<1> QED
  BY <1>1, InvHolds, PTL DEF ReleaseSparesOthers
=============================================================================
