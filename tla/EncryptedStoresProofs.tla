----------------------- MODULE EncryptedStoresProofs -----------------------
(***************************************************************************)
(* Theorems about EncryptedStores, for any processes, stores, records and  *)
(* passphrases, and any number of keys and descriptors.                    *)
(***************************************************************************)
EXTENDS EncryptedStores, TLAPS

-----------------------------------------------------------------------------
(* The inductive invariant.                                                 *)

\* Nothing is opened, written or created without a key, and a descriptor holds
\* a salt.
KeyedInv ==
  /\ \A p \in Procs, s \in Stores : Open(p, s) => memory[p][s].key.from # "none"
  /\ \A s \in Stores : enc[s] # Nothing => enc[s].key.from # "none"
  /\ \A s \in Stores : meta[s] # NoKey => meta[s].from = "passphrase" /\ meta[s].id # 0
  /\ \A p \in Procs : pc[p] \in {"load", "seed", "rollback"} => key[p].from # "none"
  /\ \A p \in Procs : pc[p] \in {"seed", "rollback"} => key[p].from = "passphrase"

\* A process opens what it has not open, and one locked store at most.
UseInv ==
  /\ \A p \in Procs : task[p] # NoStore => ~Open(p, task[p])
  /\ \A p \in Procs : \A s, t \in Locked : Uses(p, s) /\ Uses(p, t) => s = t
  /\ LockFollowsStore

\* A guarded store has one user at most.
AloneInv ==
  \A s \in Guarded : \A p, q \in Procs : Uses(p, s) /\ Uses(q, s) => p = q

\* What an open has read of a guarded store is still so.
ReadInv ==
  \A p \in Procs : task[p] \in Guarded =>
    /\ pc[p] \in {"get", "mint"} => (exists[p] <=> enc[task[p]] # Nothing)
    /\ pc[p] \in {"create", "seed", "rollback"} => enc[task[p]] = Nothing
    /\ pc[p] = "load" => enc[task[p]] # Nothing
    /\ pc[p] \in {"exists", "get", "mint", "create"} => meta[task[p]] = NoKey
    /\ pc[p] \in {"seed", "rollback"} => meta[task[p]] = key[p]

\* The keychain or the descriptor can give this key of the store again.
Fits(s, k) ==
  /\ k.from = "keychain" => meta[s] = NoKey /\ k.id # 0 /\ (chainKey = k.id \/ k.id \in lost)
  /\ k.from = "passphrase" => meta[s] = k

FitsInv ==
  \A s \in Guarded :
    /\ Fits(s, enc[s].key)
    /\ \A p \in Procs : Open(p, s) => Fits(s, memory[p][s].key)

TornInv ==
  \A s \in Guarded \ torn :
    meta[s] # NoKey /\ enc[s] = Nothing =>
      \E p \in Procs : task[p] = s /\ pc[p] \in {"seed", "rollback"}

Inv ==
  /\ TypeOK
  /\ KeyedInv /\ UseInv /\ AloneInv /\ ReadInv
  /\ MemoryMatchesDisk /\ FitsInv /\ TornInv

LEMMA KeyTyping ==
  /\ NoKey \in Keys /\ Nothing \in Contents
  /\ \A n \in Nat : ChainKey(n) \in Keys
  /\ \A n \in Nat, w \in Passphrases : DerivedKey(n, w) \in Keys
BY DEF NoKey, Nothing, Contents, Keys, ChainKey, DerivedKey

LEMMA InvInit == Init => Inv
<1> SUFFICES ASSUME Init PROVE Inv
  OBVIOUS
<1> USE DEF Init, Open, Uses, Guarded
<1>1. TypeOK
  BY KeyTyping DEF TypeOK, Pcs, Verdicts
<1>2. KeyedInv
  BY DEF KeyedInv
<1>3. UseInv
  BY NobodyAssumption, LockedAssumption DEF UseInv, LockFollowsStore
<1>4. AloneInv /\ ReadInv /\ MemoryMatchesDisk
  BY NobodyAssumption DEF AloneInv, ReadInv, MemoryMatchesDisk
<1>5. FitsInv /\ TornInv
  BY DEF FitsInv, TornInv, Fits, Nothing, NoKey
<1>6. QED
  BY <1>1, <1>2, <1>3, <1>4, <1>5 DEF Inv

-----------------------------------------------------------------------------
(* What the steps have in common.                                           *)

\* Whatever the keychain does, a key it no longer holds is accounted for.
ChainMoves ==
  /\ chainUp' \in BOOLEAN /\ chainKey' \in Nat /\ minted' \in Nat
  /\ lost \subseteq lost' /\ lost' \subseteq Nat
  /\ chainKey # 0 => chainKey' = chainKey \/ chainKey \in lost'

LEMMA ChainStays == ASSUME TypeOK, UNCHANGED chain, lost' = lost PROVE ChainMoves
BY DEF TypeOK, chain, ChainMoves

\* A key this step opens a store with, whose descriptor it leaves alone.
WillFit(s, k) ==
  /\ k.from = "keychain" => meta[s] = NoKey /\ k.id # 0 /\ (chainKey' = k.id \/ k.id \in lost')
  /\ k.from = "passphrase" => meta[s] = k

\* The lock and the users of a store stay when nobody begins or ends.
LEMMA UsesKept ==
  ASSUME Inv, UNCHANGED <<task, writer, contended>>,
         \A p \in Procs, s \in Stores : Open(p, s)' <=> Open(p, s)
  PROVE  UseInv' /\ AloneInv'
<1>1. \A p \in Procs, s \in Stores : Uses(p, s)' <=> Uses(p, s)
  BY DEF Uses
<1>2. \A p \in Procs : task[p] # NoStore => task[p] \in Stores
  BY DEF Inv, TypeOK
<1>3. UseInv'
  BY <1>1, <1>2, LockedAssumption DEF Inv, UseInv, LockFollowsStore
<1>4. AloneInv'
  BY <1>1 DEF Inv, AloneInv, Guarded
<1>5. QED
  BY <1>3, <1>4

\* An open that goes on, with what it now relies on.
LEMMA GotoKeeps ==
  ASSUME Inv, NEW p \in Procs, NEW step \in Pcs, NEW k \in Keys,
         Goto(p, step, k), pc[p] # "idle", step # "idle",
         ChainMoves, UNCHANGED <<disk, contended, torn>>,
         step \in {"load", "seed", "rollback"} => k.from # "none",
         step \in {"seed", "rollback"} => k.from = "passphrase",
         pc[p] \in {"seed", "rollback"} => step \in {"seed", "rollback"},
         task[p] \in Guarded =>
           /\ step \in {"get", "mint"} => (exists[p] <=> enc[task[p]] # Nothing)
           /\ step \in {"create", "seed", "rollback"} => enc[task[p]] = Nothing
           /\ step = "load" => enc[task[p]] # Nothing
           /\ step \in {"exists", "get", "mint", "create"} => meta[task[p]] = NoKey
           /\ step \in {"seed", "rollback"} => meta[task[p]] = k
  PROVE  Inv'
<1>1. /\ pc' = [pc EXCEPT ![p] = step] /\ key' = [key EXCEPT ![p] = k] /\ verdict' = "none"
      /\ UNCHANGED <<task, exists, writer, memory, meta, salts, enc, contended, torn>>
  BY DEF Goto, disk
<1>2. TypeOK'
  BY <1>1 DEF Inv, TypeOK, ChainMoves, Verdicts
<1>3. KeyedInv'
  BY <1>1 DEF Inv, KeyedInv, Open, TypeOK
<1>4. UseInv' /\ AloneInv'
  BY <1>1, UsesKept DEF Open
<1>5. ReadInv'
  BY <1>1 DEF Inv, ReadInv, Guarded, TypeOK
<1>6. MemoryMatchesDisk'
  BY <1>1 DEF Inv, MemoryMatchesDisk, Guarded, Open
<1>7. FitsInv'
  BY <1>1 DEF Inv, FitsInv, Fits, ChainMoves, Guarded, Open
<1>8. TornInv'
  <2> SUFFICES ASSUME NEW s \in Guarded \ torn, meta[s] # NoKey, enc[s] = Nothing
      PROVE  \E q \in Procs : task[q] = s /\ pc'[q] \in {"seed", "rollback"}
    BY <1>1 DEF TornInv, Guarded
  <2>1. PICK q \in Procs : task[q] = s /\ pc[q] \in {"seed", "rollback"}
    BY DEF Inv, TornInv
  <2>2. pc'[q] \in {"seed", "rollback"}
    BY <1>1, <2>1 DEF Inv, TypeOK
  <2>3. QED
    BY <2>1, <2>2
<1>9. QED
  BY <1>2, <1>3, <1>4, <1>5, <1>6, <1>7, <1>8 DEF Inv

\* The lock and the users of a store after an open that ends without one.
LEMMA RefuseUses ==
  ASSUME Inv, NEW p \in Procs, NEW outcome, Refuse(p, outcome), pc[p] # "idle",
         contended' = contended
  PROVE  UseInv' /\ AloneInv'
<1>1. /\ task' = [task EXCEPT ![p] = NoStore]
      /\ writer' = IF task[p] \in Locked THEN Nobody ELSE writer
      /\ UNCHANGED <<memory, contended>>
  BY DEF Refuse, Leave
<1>2. task[p] \in Stores /\ ~Open(p, task[p])
  BY NobodyAssumption DEF Inv, TypeOK, UseInv
<1>3. /\ \A q \in Procs, s \in Stores : Open(q, s)' <=> Open(q, s)
      /\ \A q \in Procs, s \in Stores : Uses(q, s)' <=> Uses(q, s) /\ ~(q = p /\ s = task[p])
  BY <1>1, <1>2, NobodyAssumption DEF Inv, TypeOK, Open, Uses
<1>4. UseInv'
  <2>1. \A q \in Procs : task'[q] # NoStore => ~Open(q, task[q])'
    BY <1>1, <1>3 DEF Inv, UseInv, TypeOK
  <2>2. \A q \in Procs : \A s, t \in Locked : Uses(q, s)' /\ Uses(q, t)' => s = t
    BY <1>3, LockedAssumption DEF Inv, UseInv
  <2>3. \A q \in Procs : writer' = q <=> \E s \in Locked : Uses(q, s)'
    <3> TAKE q \in Procs
    <3>1. CASE task[p] \notin Locked
      BY <1>1, <1>3, <3>1, LockedAssumption DEF Inv, UseInv, LockFollowsStore
    <3>2. CASE task[p] \in Locked /\ q = p
      <4>1. Uses(p, task[p])
        BY DEF Uses
      <4>2. \A s \in Locked : ~Uses(p, s)'
        BY <1>3, <3>2, <4>1, LockedAssumption DEF Inv, UseInv
      <4>3. QED
        BY <1>1, <3>2, <4>2, NobodyAssumption
    <3>3. CASE task[p] \in Locked /\ q # p
      <4>1. writer = p
        BY <3>3 DEF Inv, UseInv, LockFollowsStore, Uses
      <4>2. \A s \in Locked : ~Uses(q, s)
        BY <3>3, <4>1 DEF Inv, UseInv, LockFollowsStore
      <4>3. QED
        BY <1>1, <1>3, <3>3, <4>2, LockedAssumption, NobodyAssumption
    <3>4. QED
      BY <3>1, <3>2, <3>3
  <2>4. QED
    BY <1>1, <2>1, <2>2, <2>3 DEF Inv, UseInv, LockFollowsStore
<1>5. AloneInv'
  BY <1>1, <1>3 DEF Inv, AloneInv, Guarded
<1>6. QED
  BY <1>4, <1>5

\* An open that ends without a store.
LEMMA RefuseKeeps ==
  ASSUME Inv, NEW p \in Procs, NEW outcome \in Verdicts, Refuse(p, outcome),
         pc[p] # "idle", pc[p] \notin {"seed", "rollback"},
         ChainMoves, UNCHANGED <<meta, enc, contended, torn>>, salts' \in Nat
  PROVE  Inv'
<1>1. /\ pc' = [pc EXCEPT ![p] = "idle"] /\ task' = [task EXCEPT ![p] = NoStore]
      /\ exists' = [exists EXCEPT ![p] = FALSE] /\ key' = [key EXCEPT ![p] = NoKey]
      /\ verdict' = outcome
      /\ writer' = IF task[p] \in Locked THEN Nobody ELSE writer
      /\ UNCHANGED <<memory, meta, enc, contended, torn>>
  BY DEF Refuse, Leave
<1>2. task[p] \in Stores /\ ~Open(p, task[p])
  BY DEF Inv, TypeOK, UseInv
<1>3. TypeOK'
  BY <1>1, KeyTyping DEF Inv, TypeOK, ChainMoves, Pcs
<1>4. KeyedInv'
  BY <1>1 DEF Inv, KeyedInv, Open, TypeOK
<1>5. UseInv' /\ AloneInv'
  BY <1>1, RefuseUses
<1>6. ReadInv'
  BY <1>1, NobodyAssumption DEF Inv, ReadInv, Guarded, TypeOK
<1>7. MemoryMatchesDisk'
  BY <1>1 DEF Inv, MemoryMatchesDisk, Guarded, Open
<1>8. FitsInv'
  BY <1>1, ZenonT(60) DEF Inv, FitsInv, Fits, ChainMoves, Guarded, Open
<1>9. TornInv'
  <2> SUFFICES ASSUME NEW s \in Guarded \ torn, meta[s] # NoKey, enc[s] = Nothing
      PROVE  \E q \in Procs : task'[q] = s /\ pc'[q] \in {"seed", "rollback"}
    BY <1>1 DEF TornInv, Guarded
  <2>1. PICK q \in Procs : task[q] = s /\ pc[q] \in {"seed", "rollback"}
    BY DEF Inv, TornInv
  <2>2. q # p /\ task'[q] = task[q] /\ pc'[q] = pc[q]
    BY <1>1, <2>1 DEF Inv, TypeOK
  <2>3. QED
    BY <2>1, <2>2
<1>10. QED
  BY <1>3, <1>4, <1>5, <1>6, <1>7, <1>8, <1>9 DEF Inv

\* An open that ends with a store, which agrees with the disk.
LEMMA OpenedUses ==
  ASSUME Inv, NEW p \in Procs, NEW k \in Keys, NEW content \in SUBSET Records,
         Opened(p, k, content), pc[p] # "idle", k.from # "none", contended' = contended
  PROVE  /\ task[p] \in Stores
         /\ \A q \in Procs, s \in Stores :
              /\ memory'[q][s] = IF q = p /\ s = task[p] THEN [key |-> k, content |-> content]
                                 ELSE memory[q][s]
              /\ Open(q, s)' <=> Open(q, s) \/ (q = p /\ s = task[p])
              /\ Uses(q, s)' <=> Uses(q, s)
         /\ UseInv' /\ AloneInv'
<1>1. /\ task' = [task EXCEPT ![p] = NoStore] /\ writer' = writer
      /\ memory' = [memory EXCEPT ![p][task[p]] = [key |-> k, content |-> content]]
  BY DEF Opened, Leave
<1>2. task[p] \in Stores /\ task[p] # NoStore
  BY NobodyAssumption DEF Inv, TypeOK
<1>3. [key |-> k, content |-> content] # Nothing
  BY DEF Nothing, NoKey
<1>4. \A q \in Procs, s \in Stores :
        memory'[q][s] = IF q = p /\ s = task[p] THEN [key |-> k, content |-> content]
                        ELSE memory[q][s]
  BY <1>1, <1>2 DEF Inv, TypeOK
<1>5. \A q \in Procs, s \in Stores : Open(q, s)' <=> Open(q, s) \/ (q = p /\ s = task[p])
  BY <1>3, <1>4 DEF Open
<1>6. \A q \in Procs, s \in Stores : Uses(q, s)' <=> Uses(q, s)
  BY <1>1, <1>2, <1>5, NobodyAssumption DEF Uses, Inv, TypeOK
<1>7. UseInv'
  <2>1. \A q \in Procs : task'[q] # NoStore => ~Open(q, task[q])'
    BY <1>1, <1>5 DEF Inv, UseInv, TypeOK
  <2>2. QED
    BY <1>1, <1>6, <2>1, LockedAssumption DEF Inv, UseInv, LockFollowsStore
<1>8. AloneInv'
  BY <1>6 DEF Inv, AloneInv, Guarded
<1>9. QED
  BY <1>2, <1>4, <1>5, <1>6, <1>7, <1>8

LEMMA OpenedKeeps ==
  ASSUME Inv, NEW p \in Procs, NEW k \in Keys, NEW content \in SUBSET Records,
         Opened(p, k, content), pc[p] # "idle", pc[p] \notin {"seed", "rollback"},
         k.from # "none",
         ChainMoves, UNCHANGED <<disk, contended, torn>>,
         task[p] \in Guarded =>
           /\ IF enc[task[p]] = Nothing THEN content = {}
              ELSE enc[task[p]] = [key |-> k, content |-> content]
           /\ WillFit(task[p], k)
  PROVE  Inv'
<1>1. /\ pc' = [pc EXCEPT ![p] = "idle"] /\ task' = [task EXCEPT ![p] = NoStore]
      /\ exists' = [exists EXCEPT ![p] = FALSE] /\ key' = [key EXCEPT ![p] = NoKey]
      /\ verdict' = "opened"
      /\ memory' = [memory EXCEPT ![p][task[p]] = [key |-> k, content |-> content]]
      /\ UNCHANGED <<writer, meta, salts, enc, contended, torn>>
  BY DEF Opened, Leave, disk
<1>2. /\ task[p] \in Stores
      /\ \A q \in Procs, s \in Stores :
           /\ memory'[q][s] = IF q = p /\ s = task[p] THEN [key |-> k, content |-> content]
                              ELSE memory[q][s]
           /\ Open(q, s)' <=> Open(q, s) \/ (q = p /\ s = task[p])
      /\ UseInv' /\ AloneInv'
  BY OpenedUses
<1>3. TypeOK'
  <2>1. [key |-> k, content |-> content] \in Contents
    BY DEF Contents
  <2>2. memory' \in [Procs -> [Stores -> Contents]]
    BY <1>1, <1>2, <2>1 DEF Inv, TypeOK
  <2>3. QED
    BY <1>1, <2>2, KeyTyping DEF Inv, TypeOK, ChainMoves, Pcs, Verdicts
<1>4. KeyedInv'
  <2>1. \A q \in Procs, s \in Stores : Open(q, s)' => memory'[q][s].key.from # "none"
    BY <1>2 DEF Inv, KeyedInv
  <2>2. \A q \in Procs : pc'[q] \in {"load", "seed", "rollback"} =>
           pc'[q] = pc[q] /\ key'[q] = key[q]
    BY <1>1 DEF Inv, TypeOK
  <2>3. QED
    BY <1>1, <2>1, <2>2 DEF Inv, KeyedInv
<1>5. ReadInv'
  BY <1>1, NobodyAssumption DEF Inv, ReadInv, Guarded, TypeOK
<1>6. MemoryMatchesDisk'
  BY <1>1, <1>2 DEF Inv, MemoryMatchesDisk, Guarded
<1>7. FitsInv'
  <2> SUFFICES ASSUME NEW s \in Guarded
      PROVE  /\ Fits(s, enc[s].key)'
             /\ \A q \in Procs : Open(q, s)' => Fits(s, memory[q][s].key)'
    BY <1>1 DEF FitsInv, Guarded
  <2>1. Fits(s, enc[s].key)'
    BY <1>1 DEF Inv, FitsInv, Fits, ChainMoves
  <2>2. ASSUME NEW q \in Procs, Open(q, s)' PROVE Fits(s, memory[q][s].key)'
    <3>1. CASE q = p /\ s = task[p]
      BY <1>1, <1>2, <3>1 DEF Fits, WillFit
    <3>2. CASE ~(q = p /\ s = task[p])
      <4>1. Open(q, s) /\ memory'[q][s] = memory[q][s]
        BY <1>2, <2>2, <3>2 DEF Guarded
      <4>2. QED
        BY <1>1, <4>1 DEF Inv, FitsInv, Fits, ChainMoves
    <3>3. QED
      BY <3>1, <3>2
  <2>3. QED
    BY <2>1, <2>2
<1>8. TornInv'
  <2> SUFFICES ASSUME NEW s \in Guarded \ torn, meta[s] # NoKey, enc[s] = Nothing
      PROVE  \E q \in Procs : task'[q] = s /\ pc'[q] \in {"seed", "rollback"}
    BY <1>1 DEF TornInv, Guarded
  <2>1. PICK q \in Procs : task[q] = s /\ pc[q] \in {"seed", "rollback"}
    BY DEF Inv, TornInv
  <2>2. q # p /\ task'[q] = task[q] /\ pc'[q] = pc[q]
    BY <1>1, <2>1 DEF Inv, TypeOK
  <2>3. QED
    BY <2>1, <2>2
<1>9. QED
  BY <1>2, <1>3, <1>4, <1>5, <1>6, <1>7, <1>8 DEF Inv

-----------------------------------------------------------------------------
(* Every step of an open keeps the invariant.                               *)

LEMMA BeginOpenInv ==
  ASSUME Inv, NEW p \in Procs, NEW s \in Stores, BeginOpen(p, s) PROVE Inv'
<1>1. /\ pc[p] = "idle" /\ ~Open(p, s)
      /\ UNCHANGED <<chainUp, chainKey, minted, meta, salts, enc, memory, exists, key, lost, torn>>
  BY DEF BeginOpen, chain, disk
<1>2. task[p] = NoStore
  BY <1>1 DEF Inv, TypeOK
<1>3. CASE verdict' = "locked" /\ UNCHANGED <<pc, task, writer, contended>>
  <2>1. TypeOK'
    BY <1>1, <1>3 DEF Inv, TypeOK, Verdicts
  <2>2. KeyedInv' /\ UseInv' /\ AloneInv'
    BY <1>1, <1>3 DEF Inv, KeyedInv, UseInv, LockFollowsStore, AloneInv, Guarded, Uses, Open
  <2>3. ReadInv' /\ MemoryMatchesDisk' /\ FitsInv' /\ TornInv'
    BY <1>1, <1>3 DEF Inv, ReadInv, MemoryMatchesDisk, FitsInv, Fits, TornInv, Guarded, Open
  <2>4. QED
    BY <2>1, <2>2, <2>3 DEF Inv
<1>4. CASE /\ s \in Locked => writer = Nobody
           /\ writer' = IF s \in Locked THEN p ELSE writer
           /\ pc' = [pc EXCEPT ![p] = "descriptor"]
           /\ task' = [task EXCEPT ![p] = s]
           /\ verdict' = "none"
           /\ contended' = contended \cup {t \in {s} : \E q \in Procs \ {p} : Uses(q, t)}
  <2>1. TypeOK'
    BY <1>1, <1>4, NobodyAssumption DEF Inv, TypeOK, Verdicts, Pcs
  <2>2. KeyedInv'
    BY <1>1, <1>4 DEF Inv, KeyedInv, Open, TypeOK
  <2>3. /\ \A q \in Procs, t \in Stores : Open(q, t)' <=> Open(q, t)
        /\ \A q \in Procs, t \in Stores : Uses(q, t)' <=> Uses(q, t) \/ (q = p /\ t = s)
    BY <1>1, <1>2, <1>4, NobodyAssumption DEF Inv, TypeOK, Uses, Open
  <2>4. s \in Locked => \A q \in Procs : \A t \in Locked : ~Uses(q, t)
    BY <1>4, NobodyAssumption DEF Inv, UseInv, LockFollowsStore
  <2>5. UseInv'
    <3>1. \A q \in Procs : task'[q] # NoStore => ~Open(q, task[q])'
      BY <1>1, <1>4, <2>3 DEF Inv, UseInv, TypeOK, Open
    <3>2. \A q \in Procs : \A t, u \in Locked : Uses(q, t)' /\ Uses(q, u)' => t = u
      BY <2>3, <2>4, LockedAssumption DEF Inv, UseInv
    <3>3. \A q \in Procs : writer' = q <=> \E t \in Locked : Uses(q, t)'
      BY <1>4, <2>3, <2>4, LockedAssumption, NobodyAssumption DEF Inv, UseInv, LockFollowsStore
    <3>4. Locked \cap contended' = {}
      BY <1>4, <2>4 DEF Inv, UseInv, LockFollowsStore
    <3>5. QED
      BY <3>1, <3>2, <3>3, <3>4 DEF UseInv, LockFollowsStore
  <2>6. AloneInv'
    BY <1>4, <2>3 DEF Inv, AloneInv, Guarded
  <2>7. ReadInv'
    <3> SUFFICES ASSUME NEW q \in Procs, task'[q] \in Guarded', q # p PROVE
          /\ pc[q] \in {"get", "mint"} => (exists[q] <=> enc[task[q]] # Nothing)
          /\ pc[q] \in {"create", "seed", "rollback"} => enc[task[q]] = Nothing
          /\ pc[q] = "load" => enc[task[q]] # Nothing
          /\ pc[q] \in {"exists", "get", "mint", "create"} => meta[task[q]] = NoKey
          /\ pc[q] \in {"seed", "rollback"} => meta[task[q]] = key[q]
      BY <1>1, <1>4 DEF ReadInv, Inv, TypeOK
    <3>1. task[q] \in Guarded
      BY <1>4 DEF Guarded, Inv, TypeOK
    <3>2. QED
      BY <3>1 DEF Inv, ReadInv
  <2>8. Guarded' \subseteq Guarded
    BY <1>4 DEF Guarded
  <2>9. MemoryMatchesDisk'
    BY <1>1, <2>8 DEF Inv, MemoryMatchesDisk, Open
  <2>10. FitsInv'
    BY <1>1, <2>8 DEF Inv, FitsInv, Open, Fits
  <2>11. TornInv'
    <3> SUFFICES ASSUME NEW t \in Guarded \ torn, meta[t] # NoKey, enc[t] = Nothing
        PROVE  \E q \in Procs : task'[q] = t /\ pc'[q] \in {"seed", "rollback"}
      BY <1>1, <2>8 DEF TornInv
    <3>1. PICK q \in Procs : task[q] = t /\ pc[q] \in {"seed", "rollback"}
      BY DEF Inv, TornInv
    <3>2. q # p /\ task'[q] = task[q] /\ pc'[q] = pc[q]
      BY <1>1, <1>4, <3>1 DEF Inv, TypeOK
    <3>3. QED
      BY <3>1, <3>2
  <2>12. QED
    BY <2>1, <2>2, <2>5, <2>6, <2>7, <2>9, <2>10, <2>11 DEF Inv
<1>5. QED
  BY <1>3, <1>4 DEF BeginOpen

LEMMA ReadingInv ==
  ASSUME Inv, NEW p \in Procs,
         \/ OpenUnavailable(p) \/ ReadDescriptor(p) \/ Declined(p)
         \/ ChainUnreachable(p) \/ ChainNotFound(p)
         \/ \E w \in Passphrases : Unlock(p, w)
  PROVE  Inv'
<1>1. /\ UNCHANGED <<chain, meta, salts, enc, lost, contended, torn>>
      /\ UNCHANGED disk
  BY DEF OpenUnavailable, ReadDescriptor, Declined, ChainUnreachable, ChainNotFound, Unlock,
         disk, history
<1>2. TypeOK /\ ChainMoves /\ salts' \in Nat
  BY <1>1, ChainStays DEF Inv, TypeOK
<1>3. pc[p] # "idle" /\ pc[p] \notin {"seed", "rollback"}
  BY DEF OpenUnavailable, ReadDescriptor, Declined, ChainUnreachable, ChainNotFound, Unlock
<1>4. ASSUME NEW outcome \in Verdicts, Refuse(p, outcome) PROVE Inv'
  BY <1>1, <1>2, <1>3, <1>4, RefuseKeeps
<1>5. CASE OpenUnavailable(p)
  BY <1>4, <1>5 DEF OpenUnavailable, Verdicts
<1>6. CASE Declined(p)
  BY <1>4, <1>6 DEF Declined, Verdicts
<1>7. task[p] \in Stores
  BY <1>3 DEF Inv, TypeOK
<1>8. CASE ReadDescriptor(p)
  <2> DEFINE step == IF meta[task[p]].id # 0 THEN "unlock" ELSE "exists"
             k == [NoKey EXCEPT !.id = meta[task[p]].id]
  <2>1. Goto(p, step, k)
    BY <1>8 DEF ReadDescriptor
  <2>2. step \in {"unlock", "exists"} /\ step \in Pcs /\ k \in Keys
    BY <1>7 DEF Inv, TypeOK, Keys, NoKey, Pcs
  <2>3. step = "exists" => meta[task[p]] = NoKey
    BY <1>7 DEF Inv, KeyedInv
  <2> HIDE DEF step, k
  <2>4. QED
    BY <1>1, <1>2, <1>3, <2>1, <2>2, <2>3, GotoKeeps
<1>9. CASE ChainUnreachable(p)
  <2>1. CASE exists[p]
    BY <1>4, <1>9, <2>1 DEF ChainUnreachable, Verdicts
  <2>2. CASE ~exists[p]
    <3>1. Goto(p, "create", NoKey) /\ pc[p] \in {"get", "mint"}
      BY <1>9, <2>2 DEF ChainUnreachable
    <3>2. "create" \in Pcs /\ NoKey \in Keys
      BY KeyTyping DEF Pcs
    <3>3. task[p] \in Guarded => enc[task[p]] = Nothing /\ meta[task[p]] = NoKey
      BY <2>2, <3>1 DEF Inv, ReadInv
    <3>4. QED
      BY <1>1, <1>2, <1>3, <3>1, <3>2, <3>3, GotoKeeps
  <2>3. QED
    BY <2>1, <2>2
<1>10. CASE ChainNotFound(p)
  <2>1. Goto(p, "mint", NoKey) /\ pc[p] = "get"
    BY <1>10 DEF ChainNotFound
  <2>2. "mint" \in Pcs /\ NoKey \in Keys
    BY KeyTyping DEF Pcs
  <2>3. task[p] \in Guarded => /\ exists[p] <=> enc[task[p]] # Nothing
                               /\ meta[task[p]] = NoKey
    BY <2>1 DEF Inv, ReadInv
  <2>4. QED
    BY <1>1, <1>2, <1>3, <2>1, <2>2, <2>3, GotoKeeps
<1>11. ASSUME NEW w \in Passphrases, Unlock(p, w) PROVE Inv'
  <2>1. CASE enc[task[p]] = Nothing /\ Refuse(p, "corrupt")
    BY <1>4, <2>1 DEF Verdicts
  <2>2. CASE enc[task[p]] # Nothing /\ Goto(p, "load", DerivedKey(key[p].id, w))
    <3> DEFINE k == DerivedKey(key[p].id, w)
    <3>1. k \in Keys /\ k.from # "none" /\ "load" \in Pcs
      BY DEF Inv, TypeOK, Keys, DerivedKey, Pcs
    <3>2. Goto(p, "load", k)
      BY <2>2
    <3> HIDE DEF k
    <3>3. QED
      BY <1>1, <1>2, <1>3, <2>2, <3>1, <3>2, GotoKeeps
  <2>3. QED
    BY <1>11, <2>1, <2>2 DEF Unlock
<1>12. QED
  BY <1>5, <1>6, <1>8, <1>9, <1>10, <1>11

LEMMA FileExistsInv == ASSUME Inv, NEW p \in Procs, FileExists(p) PROVE Inv'
<1>1. /\ pc[p] = "exists" /\ pc' = [pc EXCEPT ![p] = "get"] /\ verdict' = "none"
      /\ exists' = [exists EXCEPT ![p] = enc[task[p]] # Nothing]
      /\ UNCHANGED <<chainUp, chainKey, minted, meta, salts, enc, task, key, writer, memory,
                     lost, contended, torn>>
  BY DEF FileExists, chain, disk, history
<1>2. TypeOK'
  BY <1>1 DEF Inv, TypeOK, Pcs, Verdicts
<1>3. KeyedInv'
  BY <1>1 DEF Inv, KeyedInv, Open, TypeOK
<1>4. UseInv' /\ AloneInv'
  BY <1>1, UsesKept DEF Open
<1>5. ReadInv'
  BY <1>1, ZenonT(60) DEF Inv, ReadInv, Guarded, TypeOK
<1>6. MemoryMatchesDisk' /\ FitsInv'
  BY <1>1 DEF Inv, MemoryMatchesDisk, FitsInv, Fits, Guarded, Open
<1>7. TornInv'
  BY <1>1 DEF Inv, TornInv, Guarded, TypeOK
<1>8. QED
  BY <1>2, <1>3, <1>4, <1>5, <1>6, <1>7 DEF Inv

LEMMA ChainFoundInv == ASSUME Inv, NEW p \in Procs, ChainFound(p) PROVE Inv'
<1> DEFINE k == ChainKey(chainKey)
<1>1. /\ pc[p] = "get" /\ chainKey # 0
      /\ IF exists[p] THEN Goto(p, "load", k) ELSE Opened(p, k, {})
      /\ UNCHANGED <<chain, disk, lost, contended, torn>>
  BY DEF ChainFound, history
<1>2. ChainMoves
  BY <1>1, ChainStays DEF Inv
<1>3. k \in Keys /\ k.from = "keychain" /\ k.id = chainKey /\ chainKey' = chainKey /\ meta' = meta
  BY <1>1, KeyTyping DEF Inv, TypeOK, ChainKey, chain, disk
<1>4. task[p] \in Guarded => /\ exists[p] <=> enc[task[p]] # Nothing
                             /\ meta[task[p]] = NoKey
  BY <1>1 DEF Inv, ReadInv
<1> HIDE DEF k
<1>5. CASE exists[p]
  <2>1. "load" \in Pcs /\ Goto(p, "load", k)
    BY <1>1, <1>5 DEF Pcs
  <2>2. QED
    BY <1>1, <1>2, <1>3, <1>4, <1>5, <2>1, GotoKeeps
<1>6. CASE ~exists[p]
  <2>1. task[p] \in Guarded => WillFit(task[p], k)
    BY <1>1, <1>3, <1>4 DEF WillFit
  <2>2. {} \in SUBSET Records /\ Opened(p, k, {})
    BY <1>1, <1>6
  <2>3. QED
    BY <1>1, <1>2, <1>3, <1>4, <1>6, <2>1, <2>2, OpenedKeeps
<1>7. QED
  BY <1>5, <1>6

LEMMA ChainMintInv == ASSUME Inv, NEW p \in Procs, ChainMint(p) PROVE Inv'
<1> DEFINE k == ChainKey(minted + 1)
<1>1. /\ pc[p] = "mint" /\ minted' = minted + 1 /\ chainKey' = minted + 1
      /\ lost' = lost \cup ({chainKey} \ {0})
      /\ IF exists[p] THEN Refuse(p, "key-unavailable") ELSE Opened(p, k, {})
      /\ UNCHANGED <<chainUp, disk, contended, torn>>
      /\ UNCHANGED <<meta, salts, enc>>
  BY DEF ChainMint, Minted, disk
<1>2. ChainMoves /\ salts' \in Nat
  BY <1>1 DEF Inv, TypeOK, ChainMoves
<1>3. k \in Keys /\ k.from = "keychain" /\ k.id = minted + 1 /\ k.id # 0
  BY KeyTyping DEF Inv, TypeOK, ChainKey
<1>4. task[p] \in Guarded => /\ exists[p] <=> enc[task[p]] # Nothing
                             /\ meta[task[p]] = NoKey
  BY <1>1 DEF Inv, ReadInv
<1> HIDE DEF k
<1>5. CASE exists[p]
  <2>1. Refuse(p, "key-unavailable") /\ "key-unavailable" \in Verdicts
    BY <1>1, <1>5 DEF Verdicts
  <2>2. QED
    BY <1>1, <1>2, <2>1, RefuseKeeps
<1>6. CASE ~exists[p]
  <2>1. task[p] \in Guarded => WillFit(task[p], k)
    BY <1>1, <1>3, <1>4 DEF WillFit
  <2>2. {} \in SUBSET Records /\ Opened(p, k, {})
    BY <1>1, <1>6
  <2>3. QED
    BY <1>1, <1>2, <1>3, <1>4, <1>6, <2>1, <2>2, OpenedKeeps
<1>7. QED
  BY <1>5, <1>6

LEMMA LoadInv == ASSUME Inv, NEW p \in Procs, Load(p) PROVE Inv'
<1> DEFINE file == enc[task[p]]
<1>1. /\ pc[p] = "load"
      /\ \/ file = Nothing /\ Opened(p, key[p], {})
         \/ file # Nothing /\ file.key = key[p] /\ Opened(p, key[p], file.content)
         \/ file # Nothing /\ file.key # key[p] /\ Refuse(p, "corrupt")
      /\ UNCHANGED <<chain, disk, lost, contended, torn>>
      /\ UNCHANGED <<meta, salts, enc, chainKey>>
  BY DEF Load, history, disk, chain
<1>2. ChainMoves /\ salts' \in Nat
  BY <1>1, ChainStays DEF Inv, TypeOK
<1>3. /\ task[p] \in Stores /\ file \in Contents
      /\ key[p] \in Keys /\ key[p].from # "none"
  BY <1>1 DEF Inv, TypeOK, KeyedInv
<1>4. task[p] \in Guarded => file # Nothing /\ Fits(task[p], file.key)
  BY <1>1 DEF Inv, ReadInv, FitsInv
<1> HIDE DEF file
<1>5. CASE file = Nothing /\ Opened(p, key[p], {})
  <2>1. {} \in SUBSET Records /\ task[p] \notin Guarded
    BY <1>4, <1>5
  <2>2. QED
    BY <1>1, <1>2, <1>3, <1>5, <2>1, OpenedKeeps
<1>6. CASE file # Nothing /\ file.key = key[p] /\ Opened(p, key[p], file.content)
  <2>1. file.content \in SUBSET Records /\ file = [key |-> key[p], content |-> file.content]
    BY <1>3, <1>6 DEF Contents
  <2>2. task[p] \in Guarded => WillFit(task[p], key[p])
    BY <1>1, <1>4, <1>6 DEF WillFit, Fits
  <2>3. file = enc[task[p]]
    BY DEF file
  <2>4. QED
    BY <1>1, <1>2, <1>3, <1>6, <2>1, <2>2, <2>3, OpenedKeeps
<1>7. CASE Refuse(p, "corrupt")
  <2>1. "corrupt" \in Verdicts
    BY DEF Verdicts
  <2>2. QED
    BY <1>1, <1>2, <1>7, <2>1, RefuseKeeps
<1>8. QED
  BY <1>1, <1>5, <1>6, <1>7

LEMMA CreateDescriptorInv ==
  ASSUME Inv, NEW p \in Procs, NEW w \in Passphrases, CreateDescriptor(p, w) PROVE Inv'
<1> DEFINE k == DerivedKey(salts + 1, w)
<1>1. /\ pc[p] = "create" /\ salts' = salts + 1
      /\ \/ meta' = [meta EXCEPT ![task[p]] = k] /\ Goto(p, "seed", k)
         \/ UNCHANGED meta /\ Refuse(p, "unavailable")
      /\ UNCHANGED <<chain, chainUp, chainKey, minted, enc, lost, contended, torn>>
  BY DEF CreateDescriptor, history, chain
<1>2. ChainMoves /\ salts' \in Nat
  BY <1>1, ChainStays DEF Inv, TypeOK
<1>3. /\ task[p] \in Stores
      /\ task[p] \in Guarded => enc[task[p]] = Nothing /\ meta[task[p]] = NoKey
  BY <1>1 DEF Inv, TypeOK, ReadInv
<1>4. k \in Keys /\ k.from = "passphrase" /\ k.id # 0 /\ k # NoKey
  <2>1. salts + 1 \in Nat /\ salts + 1 # 0
    BY DEF Inv, TypeOK
  <2>2. k \in Keys
    BY <2>1, KeyTyping
  <2>3. k.from = "passphrase" /\ k.id = salts + 1 /\ NoKey.from = "none"
    BY DEF DerivedKey, NoKey
  <2>4. QED
    BY <2>1, <2>2, <2>3
<1> HIDE DEF k
<1>5. CASE UNCHANGED meta /\ Refuse(p, "unavailable")
  <2>1. "unavailable" \in Verdicts
    BY DEF Verdicts
  <2>2. QED
    BY <1>1, <1>2, <1>5, <2>1, RefuseKeeps
<1>6. CASE meta' = [meta EXCEPT ![task[p]] = k] /\ Goto(p, "seed", k)
  <2>1. /\ pc' = [pc EXCEPT ![p] = "seed"] /\ key' = [key EXCEPT ![p] = k]
        /\ verdict' = "none" /\ UNCHANGED <<task, exists, writer, memory>>
    BY <1>6 DEF Goto
  <2>2. TypeOK'
    BY <1>1, <1>2, <1>4, <1>6, <2>1 DEF Inv, TypeOK, Pcs, Verdicts
  <2>3. KeyedInv'
    BY <1>1, <1>4, <1>6, <2>1 DEF Inv, KeyedInv, Open, TypeOK
  <2>4. UseInv' /\ AloneInv'
    BY <1>1, <2>1, UsesKept DEF Open
  <2>5. \A q \in Procs, s \in Guarded : Uses(q, s) /\ s = task[p] => q = p
    BY <1>3 DEF Inv, AloneInv, Uses
  <2>6. \A q \in Procs : ~(task[p] \in Guarded /\ Open(q, task[p]))
    BY <2>5, <1>3, NobodyAssumption DEF Inv, UseInv, TypeOK, Uses
  <2>7. ReadInv'
    <3> SUFFICES ASSUME NEW q \in Procs, task[q] \in Guarded PROVE
          /\ pc'[q] \in {"get", "mint"} => (exists[q] <=> enc[task[q]] # Nothing)
          /\ pc'[q] \in {"create", "seed", "rollback"} => enc[task[q]] = Nothing
          /\ pc'[q] = "load" => enc[task[q]] # Nothing
          /\ pc'[q] \in {"exists", "get", "mint", "create"} => meta'[task[q]] = NoKey
          /\ pc'[q] \in {"seed", "rollback"} => meta'[task[q]] = key'[q]
      BY <1>1, <2>1 DEF ReadInv, Guarded
    <3>1. CASE q = p
      BY <1>3, <1>6, <2>1, <3>1 DEF Inv, TypeOK
    <3>2. CASE q # p
      <4>1. task[q] # task[p] /\ pc'[q] = pc[q] /\ key'[q] = key[q]
        BY <2>1, <2>5, <3>2 DEF Uses, Inv, TypeOK
      <4>2. meta'[task[q]] = meta[task[q]]
        BY <1>6, <4>1 DEF Inv, TypeOK, Guarded
      <4>3. QED
        BY <4>1, <4>2 DEF Inv, ReadInv
    <3>3. QED
      BY <3>1, <3>2
  <2>8. MemoryMatchesDisk'
    BY <1>1, <2>1 DEF Inv, MemoryMatchesDisk, Guarded, Open
  <2>9. FitsInv'
    <3>1. \A s \in Guarded : s # task[p] => meta'[s] = meta[s]
      BY <1>6 DEF Inv, TypeOK, Guarded
    <3>2. \A s \in Guarded : s = task[p] => Fits(s, enc[s].key)'
      BY <1>1, <1>3 DEF Fits, Nothing, NoKey
    <3>3. QED
      BY <1>1, <2>1, <2>6, <3>1, <3>2 DEF Inv, FitsInv, Fits, Guarded, Open
  <2>10. TornInv'
    <3> SUFFICES ASSUME NEW s \in Guarded \ torn, meta'[s] # NoKey, enc[s] = Nothing
        PROVE  \E q \in Procs : task[q] = s /\ pc'[q] \in {"seed", "rollback"}
      BY <1>1, <2>1 DEF TornInv, Guarded
    <3>1. CASE s = task[p]
      BY <2>1, <3>1 DEF Inv, TypeOK
    <3>2. CASE s # task[p]
      <4>1. meta'[s] = meta[s]
        BY <1>6, <3>2 DEF Inv, TypeOK, Guarded
      <4>2. PICK q \in Procs : task[q] = s /\ pc[q] \in {"seed", "rollback"}
        BY <4>1 DEF Inv, TornInv
      <4>3. pc'[q] = pc[q]
        BY <2>1, <3>2, <4>2 DEF Inv, TypeOK
      <4>4. QED
        BY <4>2, <4>3
    <3>3. QED
      BY <3>1, <3>2
  <2>11. QED
    BY <2>2, <2>3, <2>4, <2>7, <2>8, <2>9, <2>10 DEF Inv
<1>7. QED
  BY <1>1, <1>5, <1>6

LEMMA SeedInv == ASSUME Inv, NEW p \in Procs, Seed(p) PROVE Inv'
<1>1. /\ pc[p] = "seed"
      /\ UNCHANGED <<chain, chainUp, chainKey, minted, meta, salts, lost, contended, torn>>
  BY DEF Seed, history, chain
<1>2. ChainMoves
  BY <1>1, ChainStays DEF Inv
<1>3. /\ task[p] \in Stores /\ key[p] \in Keys /\ key[p].from = "passphrase"
      /\ task[p] \in Guarded => enc[task[p]] = Nothing /\ meta[task[p]] = key[p]
  BY <1>1 DEF Inv, TypeOK, ReadInv, KeyedInv
<1>4. CASE UNCHANGED enc /\ Goto(p, "rollback", key[p])
  <2>1. "rollback" \in Pcs /\ UNCHANGED disk
    BY <1>1, <1>4 DEF Pcs, disk
  <2>2. QED
    BY <1>1, <1>2, <1>3, <1>4, <2>1, GotoKeeps
<1>5. CASE /\ enc' = [enc EXCEPT ![task[p]] = [key |-> key[p], content |-> {}]]
           /\ Opened(p, key[p], {})
  <2> DEFINE seeded == [key |-> key[p], content |-> {}]
  <2>1. /\ pc' = [pc EXCEPT ![p] = "idle"] /\ task' = [task EXCEPT ![p] = NoStore]
        /\ exists' = [exists EXCEPT ![p] = FALSE] /\ key' = [key EXCEPT ![p] = NoKey]
        /\ verdict' = "opened" /\ writer' = writer
    BY <1>5 DEF Opened, Leave
  <2>2. /\ \A q \in Procs, s \in Stores :
             /\ memory'[q][s] = IF q = p /\ s = task[p] THEN seeded ELSE memory[q][s]
             /\ Open(q, s)' <=> Open(q, s) \/ (q = p /\ s = task[p])
        /\ UseInv' /\ AloneInv'
    <3>1. {} \in SUBSET Records /\ pc[p] # "idle" /\ key[p].from # "none" /\ contended' = contended
      BY <1>1, <1>3
    <3>2. Opened(p, key[p], {})
      BY <1>5
    <3> HIDE DEF seeded
    <3>3. seeded = [key |-> key[p], content |-> {}]
      BY DEF seeded
    <3>4. \A q \in Procs, s \in Stores :
            /\ memory'[q][s] = IF q = p /\ s = task[p] THEN [key |-> key[p], content |-> {}]
                               ELSE memory[q][s]
            /\ Open(q, s)' <=> Open(q, s) \/ (q = p /\ s = task[p])
      BY <1>3, <3>1, <3>2, OpenedUses
    <3>5. UseInv' /\ AloneInv'
      BY <1>3, <3>1, <3>2, OpenedUses
    <3>6. QED
      BY <3>3, <3>4, <3>5
  <2>3. seeded \in Contents /\ seeded # Nothing
    BY <1>3 DEF Contents, Nothing, NoKey
  <2>4. \A s \in Stores : enc'[s] = IF s = task[p] THEN seeded ELSE enc[s]
    BY <1>3, <1>5 DEF Inv, TypeOK
  <2>5. TypeOK'
    <3>1. memory' = [memory EXCEPT ![p][task[p]] = seeded]
      BY <1>5 DEF Opened
    <3>2. memory' \in [Procs -> [Stores -> Contents]]
      BY <1>3, <2>3, <3>1 DEF Inv, TypeOK
    <3>3. enc' \in [Stores -> Contents]
      BY <1>5, <2>3 DEF Inv, TypeOK
    <3>4. QED
      BY <1>1, <2>1, <3>2, <3>3, KeyTyping DEF Inv, TypeOK, Pcs, Verdicts
  <2>6. KeyedInv'
    <3>1. \A q \in Procs, s \in Stores : Open(q, s)' => memory'[q][s].key.from # "none"
      BY <1>3, <2>2 DEF Inv, KeyedInv
    <3>2. \A s \in Stores : enc'[s] # Nothing => enc'[s].key.from # "none"
      BY <1>3, <2>4 DEF Inv, KeyedInv
    <3>3. \A q \in Procs : pc'[q] \in {"load", "seed", "rollback"} =>
             pc'[q] = pc[q] /\ key'[q] = key[q]
      BY <2>1 DEF Inv, TypeOK
    <3>4. QED
      BY <1>1, <3>1, <3>2, <3>3 DEF Inv, KeyedInv
  <2>7. ReadInv'
    <3> SUFFICES ASSUME NEW q \in Procs, task'[q] \in Guarded PROVE
          /\ pc'[q] \in {"get", "mint"} => (exists'[q] <=> enc'[task'[q]] # Nothing)
          /\ pc'[q] \in {"create", "seed", "rollback"} => enc'[task'[q]] = Nothing
          /\ pc'[q] = "load" => enc'[task'[q]] # Nothing
          /\ pc'[q] \in {"exists", "get", "mint", "create"} => meta'[task'[q]] = NoKey
          /\ pc'[q] \in {"seed", "rollback"} => meta'[task'[q]] = key'[q]
      BY <1>1 DEF ReadInv, Guarded
    <3>1. /\ q # p /\ task'[q] = task[q] /\ pc'[q] = pc[q] /\ key'[q] = key[q]
          /\ exists'[q] = exists[q]
      BY <2>1, NobodyAssumption DEF Inv, TypeOK, Guarded
    <3>2. task[q] # task[p]
      BY <3>1 DEF Inv, AloneInv, Uses
    <3>3. enc'[task[q]] = enc[task[q]] /\ meta' = meta
      BY <1>1, <2>4, <3>1, <3>2 DEF Guarded
    <3>4. QED
      BY <3>1, <3>3 DEF Inv, ReadInv
  <2>8. \A q \in Procs : \A s \in Guarded : s = task[p] => (Open(q, s)' => q = p)
    <3>1. Uses(p, task[p])
      BY DEF Uses
    <3>2. QED
      BY <1>3, <2>2, <3>1 DEF Inv, AloneInv, Uses
  <2>9. MemoryMatchesDisk'
    <3> SUFFICES ASSUME NEW q \in Procs, NEW s \in Guarded, Open(q, s)'
        PROVE  IF enc'[s] = Nothing THEN memory'[q][s].content = {}
                                    ELSE memory'[q][s] = enc'[s]
      BY <1>1 DEF MemoryMatchesDisk, Guarded
    <3>1. CASE s = task[p]
      BY <1>3, <2>2, <2>3, <2>4, <2>8, <3>1, ZenonT(60)
    <3>2. CASE s # task[p]
      <4>1. s \in Stores
        BY DEF Guarded
      <4>2. Open(q, s) /\ memory'[q][s] = memory[q][s] /\ enc'[s] = enc[s]
        BY <2>2, <2>4, <3>2, <4>1
      <4>3. QED
        BY <4>2 DEF Inv, MemoryMatchesDisk
    <3>3. QED
      BY <3>1, <3>2
  <2>10. FitsInv'
    <3> SUFFICES ASSUME NEW s \in Guarded
        PROVE  /\ Fits(s, enc[s].key)'
               /\ \A q \in Procs : Open(q, s)' => Fits(s, memory[q][s].key)'
      BY <1>1 DEF FitsInv, Guarded
    <3>1. s \in Stores
      BY DEF Guarded
    <3>2. CASE s = task[p]
      <4>1. enc'[s].key = key[p] /\ meta'[s] = key[p]
        BY <1>1, <1>3, <2>4, <3>1, <3>2
      <4>2. \A q \in Procs : Open(q, s)' => memory'[q][s].key = key[p]
        BY <2>2, <2>8, <3>1, <3>2
      <4>3. QED
        BY <1>3, <4>1, <4>2 DEF Fits
    <3>3. CASE s # task[p]
      <4>1. enc'[s] = enc[s]
        BY <2>4, <3>1, <3>3
      <4>2. \A q \in Procs : Open(q, s)' => Open(q, s) /\ memory'[q][s] = memory[q][s]
        BY <2>2, <3>1, <3>3
      <4>3. QED
        BY <1>1, <4>1, <4>2 DEF Inv, FitsInv, Fits
    <3>4. QED
      BY <3>2, <3>3
  <2>11. TornInv'
    <3> SUFFICES ASSUME NEW s \in Guarded \ torn, meta[s] # NoKey, enc'[s] = Nothing
        PROVE  \E q \in Procs : task'[q] = s /\ pc'[q] \in {"seed", "rollback"}
      BY <1>1 DEF TornInv, Guarded
    <3>1. s # task[p] /\ enc[s] = Nothing
      BY <2>3, <2>4 DEF Guarded
    <3>2. PICK q \in Procs : task[q] = s /\ pc[q] \in {"seed", "rollback"}
      BY <3>1 DEF Inv, TornInv
    <3>3. q # p /\ task'[q] = task[q] /\ pc'[q] = pc[q]
      BY <2>1, <3>1, <3>2 DEF Inv, TypeOK
    <3>4. QED
      BY <3>2, <3>3
  <2>12. QED
    BY <2>2, <2>5, <2>6, <2>7, <2>9, <2>10, <2>11 DEF Inv
<1>6. QED
  BY <1>4, <1>5 DEF Seed

LEMMA RollbackInv == ASSUME Inv, NEW p \in Procs, Rollback(p) PROVE Inv'
<1>1. /\ pc[p] = "rollback"
      /\ \/ meta' = [meta EXCEPT ![task[p]] = NoKey] /\ UNCHANGED torn
         \/ UNCHANGED meta /\ torn' = torn \cup {task[p]}
      /\ Refuse(p, "unavailable")
      /\ UNCHANGED <<chainUp, chainKey, minted, salts, enc, lost, contended>>
  BY DEF Rollback, chain
<1>2. /\ pc' = [pc EXCEPT ![p] = "idle"] /\ task' = [task EXCEPT ![p] = NoStore]
      /\ exists' = [exists EXCEPT ![p] = FALSE] /\ key' = [key EXCEPT ![p] = NoKey]
      /\ verdict' = "unavailable"
      /\ writer' = IF task[p] \in Locked THEN Nobody ELSE writer
      /\ memory' = memory
  BY <1>1 DEF Refuse, Leave
<1>3. /\ task[p] \in Stores
      /\ task[p] \in Guarded => enc[task[p]] = Nothing
  BY <1>1 DEF Inv, TypeOK, ReadInv
<1>4. \A s \in Stores : meta'[s] = meta[s] \/ (s = task[p] /\ meta'[s] = NoKey)
  BY <1>1 DEF Inv, TypeOK
<1>5. TypeOK'
  <2>1. meta' \in [Stores -> Keys]
    BY <1>1, KeyTyping DEF Inv, TypeOK
  <2>2. torn' \subseteq Stores
    BY <1>1, <1>3 DEF Inv, TypeOK
  <2>3. QED
    BY <1>1, <1>2, <2>1, <2>2, KeyTyping DEF Inv, TypeOK, Pcs, Verdicts
<1>6. KeyedInv'
  BY <1>1, <1>2, <1>4 DEF Inv, KeyedInv, Open, TypeOK
<1>7. UseInv' /\ AloneInv'
  BY <1>1, RefuseUses
<1>8. ReadInv'
  <2> SUFFICES ASSUME NEW q \in Procs, task'[q] \in Guarded PROVE
        /\ pc'[q] \in {"get", "mint"} => (exists'[q] <=> enc'[task'[q]] # Nothing)
        /\ pc'[q] \in {"create", "seed", "rollback"} => enc'[task'[q]] = Nothing
        /\ pc'[q] = "load" => enc'[task'[q]] # Nothing
        /\ pc'[q] \in {"exists", "get", "mint", "create"} => meta'[task'[q]] = NoKey
        /\ pc'[q] \in {"seed", "rollback"} => meta'[task'[q]] = key'[q]
    BY <1>1 DEF ReadInv, Guarded
  <2>1. /\ q # p /\ task'[q] = task[q] /\ pc'[q] = pc[q] /\ key'[q] = key[q]
        /\ exists'[q] = exists[q]
    BY <1>2, NobodyAssumption DEF Inv, TypeOK, Guarded
  <2>2. task[q] # task[p]
    BY <2>1 DEF Inv, AloneInv, Uses
  <2>3. enc' = enc /\ meta'[task[q]] = meta[task[q]]
    BY <1>1, <1>4, <2>1, <2>2 DEF Guarded
  <2>4. QED
    BY <2>1, <2>3 DEF Inv, ReadInv
<1>9. MemoryMatchesDisk'
  BY <1>1, <1>2 DEF Inv, MemoryMatchesDisk, Guarded, Open
<1>10. FitsInv'
  <2> SUFFICES ASSUME NEW s \in Guarded
      PROVE  /\ Fits(s, enc[s].key)'
             /\ \A q \in Procs : Open(q, s)' => Fits(s, memory[q][s].key)'
    BY <1>1 DEF FitsInv, Guarded
  <2>1. CASE s = task[p]
    <3>1. enc'[s] = Nothing
      BY <1>1, <1>3, <2>1
    <3>2. \A q \in Procs : ~Open(q, s)'
      <4>1. \A q \in Procs : Uses(q, s) => q = p
        BY <2>1 DEF Inv, AloneInv, Uses
      <4>2. ~Open(p, s)
        BY <1>3, <2>1, NobodyAssumption DEF Inv, UseInv
      <4>3. QED
        BY <1>2, <4>1, <4>2 DEF Uses, Open
    <3>3. QED
      BY <3>1, <3>2 DEF Fits, Nothing, NoKey
  <2>2. CASE s # task[p]
    <3>1. meta'[s] = meta[s]
      BY <1>4, <2>2 DEF Guarded
    <3>2. QED
      BY <1>1, <1>2, <3>1 DEF Inv, FitsInv, Fits, Open
  <2>3. QED
    BY <2>1, <2>2
<1>11. TornInv'
  <2> SUFFICES ASSUME NEW s \in Guarded \ torn', meta'[s] # NoKey, enc[s] = Nothing
      PROVE  \E q \in Procs : task'[q] = s /\ pc'[q] \in {"seed", "rollback"}
    BY <1>1 DEF TornInv, Guarded
  <2>1. s \in Stores /\ s # task[p] /\ s \notin torn
    BY <1>1, <1>3 DEF Guarded, Inv, TypeOK
  <2>2. PICK q \in Procs : task[q] = s /\ pc[q] \in {"seed", "rollback"}
    BY <1>4, <2>1 DEF Inv, TornInv
  <2>3. q # p /\ task'[q] = task[q] /\ pc'[q] = pc[q]
    BY <1>2, <2>1, <2>2 DEF Inv, TypeOK
  <2>4. QED
    BY <2>2, <2>3
<1>12. QED
  BY <1>5, <1>6, <1>7, <1>8, <1>9, <1>10, <1>11 DEF Inv

LEMMA OpenStepInv == ASSUME Inv, NEW p \in Procs, OpenStep(p) PROVE Inv'
<1>1. CASE \/ OpenUnavailable(p) \/ ReadDescriptor(p) \/ Declined(p)
           \/ ChainUnreachable(p) \/ ChainNotFound(p)
           \/ \E w \in Passphrases : Unlock(p, w)
  BY <1>1, ReadingInv
<1>2. CASE FileExists(p) \/ ChainFound(p) \/ ChainMint(p)
  BY <1>2, FileExistsInv, ChainFoundInv, ChainMintInv
<1>3. CASE Seed(p) \/ Rollback(p) \/ Load(p)
  BY <1>3, SeedInv, RollbackInv, LoadInv
<1>4. ASSUME NEW w \in Passphrases, CreateDescriptor(p, w) PROVE Inv'
  BY <1>4, CreateDescriptorInv
<1>5. QED
  BY <1>1, <1>2, <1>3, <1>4 DEF OpenStep

-----------------------------------------------------------------------------
(* The use of an open store, the end of a process and the keychain.         *)

LEMMA CommitInv ==
  ASSUME Inv, NEW p \in Procs, NEW s \in Stores, NEW content \in SUBSET Records,
         Commit(p, s, content)
  PROVE  Inv'
<1> DEFINE written == [key |-> memory[p][s].key, content |-> content]
<1>1. /\ Open(p, s) /\ pc[p] = "idle" /\ verdict' = "none"
      /\ enc' = [enc EXCEPT ![s] = written]
      /\ memory' = [memory EXCEPT ![p][s].content = content]
      /\ UNCHANGED <<chainUp, chainKey, minted, meta, salts, writer, pc, task, exists, key,
                     lost, contended, torn>>
  BY DEF Commit, chain, history
<1>2. written \in Contents /\ written # Nothing /\ written.key.from # "none"
      /\ memory[p][s] \in Contents
  BY <1>1 DEF Inv, TypeOK, KeyedInv, Contents, Nothing, NoKey
<1>3. /\ \A t \in Stores : enc'[t] = IF t = s THEN written ELSE enc[t]
      /\ enc' \in [Stores -> Contents]
  BY <1>1, <1>2 DEF Inv, TypeOK
<1>4. /\ \A q \in Procs, t \in Stores :
           memory'[q][t] = IF q = p /\ t = s THEN written ELSE memory[q][t]
      /\ memory' \in [Procs -> [Stores -> Contents]]
  <2>1. [memory[p][s] EXCEPT !.content = content] = written
    BY <1>2 DEF Contents
  <2>2. memory' = [memory EXCEPT ![p] = [memory[p] EXCEPT ![s] = written]]
    BY <1>1, <2>1 DEF Inv, TypeOK
  <2>3. QED
    BY <1>2, <2>2 DEF Inv, TypeOK
<1> HIDE DEF written
<1>5. TypeOK'
  BY <1>1, <1>3, <1>4 DEF Inv, TypeOK, Verdicts
<1>6. \A q \in Procs, t \in Stores : Open(q, t)' <=> Open(q, t)
  BY <1>1, <1>2, <1>4 DEF Open
<1>7. KeyedInv'
  BY <1>1, <1>2, <1>3, <1>4, <1>6 DEF Inv, KeyedInv
<1>8. UseInv' /\ AloneInv'
  BY <1>1, <1>6, UsesKept
<1>9. s \in Guarded => \A q \in Procs : Uses(q, s) => q = p
  BY <1>1 DEF Inv, AloneInv, Uses
<1>10. task[p] = NoStore
  BY <1>1 DEF Inv, TypeOK
<1>11. ReadInv'
  <2> SUFFICES ASSUME NEW q \in Procs, task[q] \in Guarded PROVE
        /\ pc[q] \in {"get", "mint"} => (exists[q] <=> enc'[task[q]] # Nothing)
        /\ pc[q] \in {"create", "seed", "rollback"} => enc'[task[q]] = Nothing
        /\ pc[q] = "load" => enc'[task[q]] # Nothing
        /\ pc[q] \in {"exists", "get", "mint", "create"} => meta[task[q]] = NoKey
        /\ pc[q] \in {"seed", "rollback"} => meta[task[q]] = key[q]
    BY <1>1 DEF ReadInv, Guarded
  <2>1. task[q] # s
    BY <1>9, <1>10, NobodyAssumption DEF Uses, Guarded
  <2>2. enc'[task[q]] = enc[task[q]]
    BY <1>3, <2>1 DEF Guarded
  <2>3. QED
    BY <2>2 DEF Inv, ReadInv
<1>12. MemoryMatchesDisk'
  <2> SUFFICES ASSUME NEW q \in Procs, NEW t \in Guarded, Open(q, t)
      PROVE  IF enc'[t] = Nothing THEN memory'[q][t].content = {}
                                  ELSE memory'[q][t] = enc'[t]
    BY <1>1, <1>6 DEF MemoryMatchesDisk, Guarded
  <2>1. CASE t = s
    BY <1>2, <1>3, <1>4, <1>9, <2>1 DEF Uses
  <2>2. CASE t # s
    BY <1>3, <1>4, <2>2 DEF Inv, MemoryMatchesDisk, Guarded
  <2>3. QED
    BY <2>1, <2>2
<1>13. FitsInv'
  <2> SUFFICES ASSUME NEW t \in Guarded
      PROVE  /\ Fits(t, enc[t].key)'
             /\ \A q \in Procs : Open(q, t)' => Fits(t, memory[q][t].key)'
    BY <1>1 DEF FitsInv, Guarded
  <2>1. t \in Stores /\ written.key = memory[p][s].key
    BY DEF Guarded, written
  <2>2. t = s => Fits(t, written.key)
    BY <1>1, <2>1 DEF Inv, FitsInv
  <2>3. /\ Fits(t, enc[t].key)
        /\ \A q \in Procs : Open(q, t) => Fits(t, memory[q][t].key)
    BY DEF Inv, FitsInv
  <2>4. Fits(t, enc'[t].key)
    BY <1>3, <2>1, <2>2, <2>3
  <2>5. ASSUME NEW q \in Procs, Open(q, t)' PROVE Fits(t, memory'[q][t].key)
    BY <1>4, <1>6, <2>1, <2>2, <2>3, <2>5
  <2>6. QED
    <3>1. UNCHANGED <<meta, chainKey, lost>>
      BY <1>1
    <3>2. Fits(t, enc[t].key)'
      BY <2>4, <3>1 DEF Fits
    <3>3. ASSUME NEW q \in Procs, Open(q, t)' PROVE Fits(t, memory[q][t].key)'
      BY <2>5, <3>1, <3>3 DEF Fits
    <3>4. QED
      BY <3>2, <3>3
<1>14. TornInv'
  BY <1>1, <1>2, <1>3 DEF Inv, TornInv, Guarded
<1>15. QED
  BY <1>5, <1>7, <1>8, <1>11, <1>12, <1>13, <1>14 DEF Inv

LEMMA EndsInv == ASSUME Inv, NEW p \in Procs, Ends(p) PROVE Inv'
<1>1. /\ pc' = [pc EXCEPT ![p] = "idle"] /\ task' = [task EXCEPT ![p] = NoStore]
      /\ exists' = [exists EXCEPT ![p] = FALSE] /\ key' = [key EXCEPT ![p] = NoKey]
      /\ verdict' = "none"
      /\ memory' = [memory EXCEPT ![p] = [s \in Stores |-> Nothing]]
      /\ writer' = IF writer = p THEN Nobody ELSE writer
      /\ torn' = torn \cup {s \in {task[p]} : pc[p] \in {"seed", "rollback"}}
      /\ UNCHANGED <<chainUp, chainKey, minted, meta, salts, enc, lost, contended>>
  BY DEF Ends, Leave, chain, disk
<1>2. TypeOK'
  <2>1. torn' \subseteq Stores
    BY <1>1 DEF Inv, TypeOK
  <2>2. memory' \in [Procs -> [Stores -> Contents]]
    BY <1>1, KeyTyping DEF Inv, TypeOK
  <2>3. QED
    BY <1>1, <2>1, <2>2, KeyTyping DEF Inv, TypeOK, Pcs, Verdicts
<1>3. /\ \A q \in Procs, s \in Stores :
           /\ Open(q, s)' <=> q # p /\ Open(q, s)
           /\ q # p => memory'[q][s] = memory[q][s]
           /\ Uses(q, s)' <=> q # p /\ Uses(q, s)
  BY <1>1, NobodyAssumption DEF Inv, TypeOK, Open, Uses
<1>4. KeyedInv'
  <2>1. \A q \in Procs : pc'[q] \in {"load", "seed", "rollback"} =>
           pc'[q] = pc[q] /\ key'[q] = key[q]
    BY <1>1 DEF Inv, TypeOK
  <2>2. QED
    BY <1>1, <1>3, <2>1 DEF Inv, KeyedInv
<1>5. UseInv'
  <2>1. \A q \in Procs : task'[q] # NoStore => ~Open(q, task[q])'
    BY <1>1, <1>3 DEF Inv, UseInv, TypeOK
  <2>2. \A q \in Procs : \A s, t \in Locked : Uses(q, s)' /\ Uses(q, t)' => s = t
    BY <1>3, LockedAssumption DEF Inv, UseInv
  <2>3. \A q \in Procs : writer' = q <=> \E s \in Locked : Uses(q, s)'
    BY <1>1, <1>3, LockedAssumption, NobodyAssumption DEF Inv, UseInv, LockFollowsStore
  <2>4. QED
    BY <1>1, <2>1, <2>2, <2>3 DEF Inv, UseInv, LockFollowsStore
<1>6. AloneInv'
  BY <1>1, <1>3 DEF Inv, AloneInv, Guarded
<1>7. ReadInv'
  BY <1>1, NobodyAssumption DEF Inv, ReadInv, Guarded, TypeOK
<1>8. MemoryMatchesDisk'
  BY <1>1, <1>3 DEF Inv, MemoryMatchesDisk, Guarded
<1>9. FitsInv'
  BY <1>1, <1>3 DEF Inv, FitsInv, Fits, Guarded
<1>10. TornInv'
  <2> SUFFICES ASSUME NEW s \in Guarded \ torn', meta[s] # NoKey, enc[s] = Nothing
      PROVE  \E q \in Procs : task'[q] = s /\ pc'[q] \in {"seed", "rollback"}
    BY <1>1 DEF TornInv, Guarded
  <2>1. PICK q \in Procs : task[q] = s /\ pc[q] \in {"seed", "rollback"}
    BY <1>1 DEF Inv, TornInv
  <2>2. q # p
    BY <1>1, <2>1
  <2>3. QED
    BY <1>1, <2>1, <2>2 DEF Inv, TypeOK
<1>11. QED
  BY <1>2, <1>4, <1>5, <1>6, <1>7, <1>8, <1>9, <1>10 DEF Inv

LEMMA KeychainInv == ASSUME Inv, ChainToggles \/ ChainForgets PROVE Inv'
<1>1. /\ verdict' = "none"
      /\ UNCHANGED <<minted, meta, salts, enc, writer, memory, pc, task, exists, key,
                     contended, torn>>
  BY DEF ChainToggles, ChainForgets, disk, history
<1>2. ChainMoves
  <2>1. /\ chainUp' \in BOOLEAN
        /\ \/ UNCHANGED <<chainKey, lost>>
           \/ chainKey' = 0 /\ lost' = lost \cup {chainKey}
    BY DEF Inv, TypeOK, ChainToggles, ChainForgets, history
  <2>2. chainKey \in Nat /\ minted \in Nat /\ lost \subseteq Nat
    BY DEF Inv, TypeOK
  <2>3. CASE UNCHANGED <<chainKey, lost>>
    BY <1>1, <2>1, <2>2, <2>3 DEF ChainMoves
  <2>4. CASE chainKey' = 0 /\ lost' = lost \cup {chainKey}
    <3>1. lost \subseteq lost' /\ lost' \subseteq Nat /\ chainKey \in lost'
      BY <2>2, <2>4
    <3>2. QED
      BY <1>1, <2>1, <2>2, <2>4, <3>1 DEF ChainMoves
  <2>5. QED
    BY <2>1, <2>3, <2>4
<1>3. TypeOK'
  BY <1>1, <1>2 DEF Inv, TypeOK, ChainMoves, Verdicts
<1>4. KeyedInv' /\ ReadInv' /\ MemoryMatchesDisk' /\ TornInv'
  BY <1>1 DEF Inv, KeyedInv, ReadInv, MemoryMatchesDisk, TornInv, Guarded, Open
<1>5. UseInv' /\ AloneInv'
  BY <1>1, UsesKept DEF Open
<1>6. FitsInv'
  BY <1>1, <1>2, ZenonT(60) DEF Inv, FitsInv, Fits, ChainMoves, Guarded, Open
<1>7. QED
  BY <1>3, <1>4, <1>5, <1>6 DEF Inv

LEMMA InvStep == Inv /\ [Next]_vars => Inv'
<1> SUFFICES ASSUME Inv, [Next]_vars PROVE Inv'
  OBVIOUS
<1>1. ASSUME NEW p \in Procs, OpenStep(p) PROVE Inv'
  BY <1>1, OpenStepInv
<1>2. ASSUME NEW p \in Procs, Ends(p) PROVE Inv'
  BY <1>2, EndsInv
<1>3. ASSUME NEW p \in Procs, NEW s \in Stores, BeginOpen(p, s) PROVE Inv'
  BY <1>3, BeginOpenInv
<1>4. ASSUME NEW p \in Procs, NEW s \in Stores, NEW r \in Records,
             Save(p, s, r) \/ Delete(p, s, r)
      PROVE  Inv'
  <2>1. memory[p][s].content \in SUBSET Records
    BY DEF Inv, TypeOK, Contents
  <2>2. PICK content \in SUBSET Records : Commit(p, s, content)
    BY <1>4, <2>1 DEF Save, Delete
  <2>3. QED
    BY <2>2, CommitInv
<1>5. CASE ChainToggles \/ ChainForgets
  BY <1>5, KeychainInv
<1>6. CASE UNCHANGED vars
  <2>1. UNCHANGED <<chainUp, chainKey, minted, meta, salts, enc, writer, memory, pc, task,
                    exists, key, verdict, lost, contended, torn>>
    BY <1>6 DEF vars, chain, disk, opening, history
  <2>2. TypeOK' /\ KeyedInv' /\ ReadInv' /\ MemoryMatchesDisk'
    BY <2>1 DEF Inv, TypeOK, KeyedInv, ReadInv, MemoryMatchesDisk, Guarded, Open
  <2>3. UseInv' /\ AloneInv'
    BY <2>1, UsesKept DEF Open
  <2>4. FitsInv' /\ TornInv'
    BY <2>1 DEF Inv, FitsInv, Fits, TornInv, Guarded, Open
  <2>5. QED
    BY <2>2, <2>3, <2>4 DEF Inv
<1>7. QED
  BY <1>1, <1>2, <1>3, <1>4, <1>5, <1>6 DEF Next, Use

LEMMA Invariance == Spec => []Inv
BY InvInit, InvStep, PTL DEF Spec

-----------------------------------------------------------------------------
(* Theorems.                                                                *)

(* The keychain, the files, the lock and every process keep to their types: *)
(* in particular a process has a store to open exactly while it opens one.  *)
THEOREM TypeCorrect == Spec => []TypeOK
<1>1. Inv => TypeOK
  BY DEF Inv
<1>2. QED
  BY <1>1, Invariance, PTL

(* An open store agrees with the disk in its records and its key, whatever  *)
(* passphrases are typed, keys minted or wiped and processes killed: so no  *)
(* wrong passphrase and no fresh key is ever accepted for an existing store.*)
THEOREM MemoryMatches == Spec => []MemoryMatchesDisk
<1>1. Inv => MemoryMatchesDisk
  BY DEF Inv
<1>2. QED
  BY <1>1, Invariance, PTL

(* What is on disk can be opened again, whichever step of a creation failed *)
(* or was cut short, and a failed creation leaves nothing half committed.   *)
THEOREM KeyRecovers == Spec => []KeyIsRecoverable
<1>1. Inv => KeyIsRecoverable
  BY DEF Inv, FitsInv, Fits, TornInv, KeyIsRecoverable
<1>2. QED
  BY <1>1, Invariance, PTL

(* The writer lock is held exactly while a store it guards is open or being *)
(* opened: every early return of an open and every end of a process gives   *)
(* it back, and no two processes meet in a locked store.                    *)
THEOREM LockFollows == Spec => []LockFollowsStore
<1>1. Inv => LockFollowsStore
  BY DEF Inv, UseInv
<1>2. QED
  BY <1>1, Invariance, PTL

=============================================================================
