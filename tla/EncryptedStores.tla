--------------------------- MODULE EncryptedStores ---------------------------
(***************************************************************************)
(* The encrypted stores of saved connections and of provider keys          *)
(* (src/core/credential-store.ts, src/core/provider-key-store.ts) and the  *)
(* key in the OS keychain they share (src/core/store-key.ts).              *)
(*                                                                         *)
(* A store is an .enc file, encrypted under one key, and for a passphrase  *)
(* store a descriptor with the salt the key is derived with.  Files are    *)
(* replaced by rename, so each write is one step.  A process runs one call *)
(* at a time and keeps a store open until it ends; it may end, by Stop or  *)
(* by a crash, between any two steps.  Several processes share the files   *)
(* and the keychain: an action is one call to either, with what the code   *)
(* decides on its result.                                                  *)
(*                                                                         *)
(* The connection store is opened under the writer lock (module StoreLock, *)
(* here its promise: one process at a time, a dead holder's lock is free). *)
(* The provider-key store is opened without one.  Nothing in the model     *)
(* damages a file: tampering, unknown schema versions and keychain values  *)
(* that are not keys are left out.                                         *)
(***************************************************************************)
EXTENDS Naturals

CONSTANTS
  Procs,        \* quick-studio processes
  Stores,       \* the stores of one app directory
  Locked,       \* those opened under the writer lock
  Records,      \* what can be saved
  Passphrases,  \* what a user may type
  MaxKeys,      \* bound: keychain keys minted
  MaxSalts      \* bound: descriptors written

ASSUME LockedAssumption == Locked \subseteq Stores
ASSUME BoundsAssumption == MaxKeys \in Nat /\ MaxSalts \in Nat

Nobody == "nobody"
NoStore == "no store"
NoPassphrase == "none"

ASSUME NobodyAssumption ==
  Nobody \notin Procs /\ NoStore \notin Stores /\ NoPassphrase \notin Passphrases

VARIABLES
  chainUp,    \* the keychain can be reached
  chainKey,   \* the key in the keychain, 0 for none
  minted,     \* keychain keys minted so far
  meta,       \* each store's descriptor: the key it is for, of which it holds the salt
  salts,      \* salts generated so far
  enc,        \* each store's .enc
  writer,     \* the holder of the writer lock
  memory,     \* the stores each process has open
  pc,         \* the next call of an open in progress
  task,       \* the store each process is opening
  exists,     \* whether existsSync saw the .enc
  key,        \* the key in hand
  verdict,    \* what the step just taken made an open return
  lost,       \* history: keychain keys wiped, or overwritten by another mint
  contended,  \* history: stores two processes have used at once
  torn        \* history: stores whose creation was cut short

chain == <<chainUp, chainKey, minted>>
disk == <<meta, salts, enc>>
opening == <<pc, task, exists, key, verdict>>
history == <<lost, contended, torn>>
vars == <<chain, disk, writer, memory, opening, history>>

ChainKey(n) == [from |-> "keychain", id |-> n, pass |-> NoPassphrase]
DerivedKey(salt, w) == [from |-> "passphrase", id |-> salt, pass |-> w]
NoKey == [from |-> "none", id |-> 0, pass |-> NoPassphrase]

\* A file, or an open store: what it holds and under which key.
Nothing == [key |-> NoKey, content |-> {}]

Keys == [from : {"none", "keychain", "passphrase"}, id : Nat,
         pass : Passphrases \cup {NoPassphrase}]
Contents == [key : Keys, content : SUBSET Records]
Pcs == {"idle", "descriptor", "unlock", "exists", "get", "mint", "create", "seed",
        "rollback", "load"}
Verdicts == {"none", "opened", "locked", "unavailable", "corrupt", "key-unavailable",
             "passphrase-declined"}

TypeOK ==
  /\ chainUp \in BOOLEAN
  /\ chainKey \in Nat /\ minted \in Nat
  /\ meta \in [Stores -> Keys] /\ salts \in Nat
  /\ enc \in [Stores -> Contents]
  /\ writer \in Procs \cup {Nobody}
  /\ memory \in [Procs -> [Stores -> Contents]]
  /\ pc \in [Procs -> Pcs]
  /\ task \in [Procs -> Stores \cup {NoStore}]
  /\ exists \in [Procs -> BOOLEAN]
  /\ key \in [Procs -> Keys]
  /\ verdict \in Verdicts
  /\ lost \subseteq Nat
  /\ contended \subseteq Stores
  /\ torn \subseteq Stores
  /\ \A p \in Procs : pc[p] = "idle" <=> task[p] = NoStore

Init ==
  /\ chainUp \in BOOLEAN /\ chainKey = 0 /\ minted = 0
  /\ meta = [s \in Stores |-> NoKey] /\ salts = 0
  /\ enc = [s \in Stores |-> Nothing]
  /\ writer = Nobody
  /\ memory = [p \in Procs |-> [s \in Stores |-> Nothing]]
  /\ pc = [p \in Procs |-> "idle"]
  /\ task = [p \in Procs |-> NoStore]
  /\ exists = [p \in Procs |-> FALSE]
  /\ key = [p \in Procs |-> NoKey]
  /\ verdict = "none"
  /\ lost = {} /\ contended = {} /\ torn = {}

Open(p, s) == memory[p][s] # Nothing
Uses(p, s) == Open(p, s) \/ task[p] = s

\* The open goes on, with this key in hand.
Goto(p, step, k) ==
  /\ pc' = [pc EXCEPT ![p] = step]
  /\ key' = [key EXCEPT ![p] = k]
  /\ verdict' = "none"
  /\ UNCHANGED <<task, exists, writer, memory>>

\* The open is over, and its locals with it.
Leave(p, outcome) ==
  /\ pc' = [pc EXCEPT ![p] = "idle"]
  /\ task' = [task EXCEPT ![p] = NoStore]
  /\ exists' = [exists EXCEPT ![p] = FALSE]
  /\ key' = [key EXCEPT ![p] = NoKey]
  /\ verdict' = outcome

\* Mutant of Refuse: the lock of a failed open is not released.
RefuseKeepingLock(p, outcome) ==
  /\ Leave(p, outcome)
  /\ UNCHANGED <<writer, memory>>

\* An open that returns without a store gives the lock back.
Refuse(p, outcome) ==
  /\ Leave(p, outcome)
  /\ writer' = IF task[p] \in Locked THEN Nobody ELSE writer
  /\ UNCHANGED memory

Opened(p, k, content) ==
  /\ Leave(p, "opened")
  /\ memory' = [memory EXCEPT ![p][task[p]] = [key |-> k, content |-> content]]
  /\ UNCHANGED writer

-----------------------------------------------------------------------------
(* Opening a store.                                                         *)

BeginOpen(p, s) ==
  /\ pc[p] = "idle" /\ ~Open(p, s)
  /\ \/ /\ s \in Locked /\ writer # Nobody
        /\ verdict' = "locked"
        /\ UNCHANGED <<pc, task, writer, contended>>
     \/ /\ s \in Locked => writer = Nobody
        /\ writer' = IF s \in Locked THEN p ELSE writer
        /\ pc' = [pc EXCEPT ![p] = "descriptor"]
        /\ task' = [task EXCEPT ![p] = s]
        /\ verdict' = "none"
        /\ contended' = contended \cup {t \in {s} : \E q \in Procs \ {p} : Uses(q, t)}
  /\ UNCHANGED <<chain, disk, memory, exists, key, lost, torn>>

\* Any read may fail with an I/O error, which judges nothing.
OpenUnavailable(p) ==
  /\ pc[p] \in {"descriptor", "load"}
  /\ Refuse(p, "unavailable")
  /\ UNCHANGED <<chain, disk, history>>

\* The descriptor is authoritative for the key mode.
ReadDescriptor(p) ==
  LET salt == meta[task[p]].id    \* 0 when there is no descriptor
  IN  /\ pc[p] = "descriptor"
      /\ Goto(p, IF salt # 0 THEN "unlock" ELSE "exists", [NoKey EXCEPT !.id = salt])
      /\ UNCHANGED <<chain, disk, history>>

Declined(p) ==
  /\ pc[p] \in {"unlock", "create"}
  /\ Refuse(p, "passphrase-declined")
  /\ UNCHANGED <<chain, disk, history>>

\* Mutant of Unlock: a missing .enc reaches loadStoreFromFile (DW-84).
UnlockUnchecked(p, w) ==
  /\ pc[p] = "unlock"
  /\ Goto(p, "load", DerivedKey(key[p].id, w))
  /\ UNCHANGED <<chain, disk, history>>

\* A descriptor whose .enc is gone has nothing to check a passphrase against.
Unlock(p, w) ==
  /\ pc[p] = "unlock"
  /\ \/ enc[task[p]] = Nothing /\ Refuse(p, "corrupt")
     \/ enc[task[p]] # Nothing /\ Goto(p, "load", DerivedKey(key[p].id, w))
  /\ UNCHANGED <<chain, disk, history>>

FileExists(p) ==
  /\ pc[p] = "exists"
  /\ pc' = [pc EXCEPT ![p] = "get"]
  /\ exists' = [exists EXCEPT ![p] = enc[task[p]] # Nothing]
  /\ verdict' = "none"
  /\ UNCHANGED <<chain, disk, task, key, writer, memory, history>>

\* No keychain: an existing store is out of reach, a new one takes a passphrase.
ChainUnreachable(p) ==
  /\ pc[p] \in {"get", "mint"} /\ ~chainUp
  /\ IF exists[p] THEN Refuse(p, "key-unavailable") ELSE Goto(p, "create", NoKey)
  /\ UNCHANGED <<chain, disk, history>>

ChainFound(p) ==
  LET k == ChainKey(chainKey)
  IN  /\ pc[p] = "get" /\ chainUp /\ chainKey # 0
      /\ IF exists[p] THEN Goto(p, "load", k) ELSE Opened(p, k, {})
      /\ UNCHANGED <<chain, disk, history>>

ChainNotFound(p) ==
  /\ pc[p] = "get" /\ chainUp /\ chainKey = 0
  /\ Goto(p, "mint", NoKey)
  /\ UNCHANGED <<chain, disk, history>>

\* The key just generated is in the keychain.
Minted ==
  /\ minted < MaxKeys
  /\ minted' = minted + 1
  /\ chainKey' = minted + 1
  /\ lost' = lost \cup ({chainKey} \ {0})

\* Mutant of ChainMint: a fresh key opens whatever is there, as an empty store.
ChainMintAccepted(p) ==
  /\ pc[p] = "mint" /\ chainUp /\ Minted
  /\ Opened(p, ChainKey(minted + 1), {})
  /\ UNCHANGED <<chainUp, disk, contended, torn>>

\* `created': a fresh key opens a new store and no existing one.
ChainMint(p) ==
  /\ pc[p] = "mint" /\ chainUp /\ Minted
  /\ IF exists[p] THEN Refuse(p, "key-unavailable") ELSE Opened(p, ChainKey(minted + 1), {})
  /\ UNCHANGED <<chainUp, disk, contended, torn>>

\* A new passphrase store: the descriptor first ...
CreateDescriptor(p, w) ==
  /\ pc[p] = "create" /\ salts < MaxSalts
  /\ salts' = salts + 1
  /\ \/ /\ meta' = [meta EXCEPT ![task[p]] = DerivedKey(salts + 1, w)]
        /\ Goto(p, "seed", DerivedKey(salts + 1, w))
     \/ UNCHANGED meta /\ Refuse(p, "unavailable")
  /\ UNCHANGED <<chain, enc, history>>

\* ... then an empty .enc, so that the passphrase can be checked from now on.
Seed(p) ==
  /\ pc[p] = "seed"
  /\ \/ /\ enc' = [enc EXCEPT ![task[p]] = [key |-> key[p], content |-> {}]]
        /\ Opened(p, key[p], {})
     \/ UNCHANGED enc /\ Goto(p, "rollback", key[p])
  /\ UNCHANGED <<chain, meta, salts, history>>

\* Mutant of Rollback: the descriptor stays.
RollbackForgotten(p) ==
  /\ pc[p] = "rollback"
  /\ Refuse(p, "unavailable")
  /\ UNCHANGED <<chain, disk, history>>

Rollback(p) ==
  /\ pc[p] = "rollback"
  /\ \/ meta' = [meta EXCEPT ![task[p]] = NoKey] /\ UNCHANGED torn
     \/ UNCHANGED meta /\ torn' = torn \cup {task[p]}
  /\ Refuse(p, "unavailable")
  /\ UNCHANGED <<chain, salts, enc, lost, contended>>

\* loadStoreFromFile: a missing file is an empty store, a wrong key is `corrupt'.
Load(p) ==
  LET file == enc[task[p]]
  IN  /\ pc[p] = "load"
      /\ \/ file = Nothing /\ Opened(p, key[p], {})
         \/ file # Nothing /\ file.key = key[p] /\ Opened(p, key[p], file.content)
         \/ file # Nothing /\ file.key # key[p] /\ Refuse(p, "corrupt")
      /\ UNCHANGED <<chain, disk, history>>

-----------------------------------------------------------------------------
(* An open store: the file is replaced first, memory follows only then.  A *)
(* write that fails changes nothing.                                        *)

Commit(p, s, content) ==
  /\ Open(p, s) /\ pc[p] = "idle"
  /\ enc' = [enc EXCEPT ![s] = [key |-> memory[p][s].key, content |-> content]]
  /\ memory' = [memory EXCEPT ![p][s].content = content]
  /\ verdict' = "none"
  /\ UNCHANGED <<chain, meta, salts, writer, pc, task, exists, key, history>>

Save(p, s, r) == Commit(p, s, memory[p][s].content \cup {r})
Delete(p, s, r) == r \in memory[p][s].content /\ Commit(p, s, memory[p][s].content \ {r})

-----------------------------------------------------------------------------
(* The process ends; the keychain comes, goes and forgets.                  *)

Ends(p) ==
  /\ Leave(p, "none")
  /\ memory' = [memory EXCEPT ![p] = [s \in Stores |-> Nothing]]
  /\ writer' = IF writer = p THEN Nobody ELSE writer
  /\ torn' = torn \cup {s \in {task[p]} : pc[p] \in {"seed", "rollback"}}
  /\ UNCHANGED <<chain, disk, lost, contended>>

ChainToggles ==
  /\ chainUp' = ~chainUp
  /\ verdict' = "none"
  /\ UNCHANGED <<chainKey, minted, disk, writer, memory, pc, task, exists, key, history>>

ChainForgets ==
  /\ chainKey # 0
  /\ chainKey' = 0
  /\ lost' = lost \cup {chainKey}
  /\ verdict' = "none"
  /\ UNCHANGED <<chainUp, minted, disk, writer, memory, pc, task, exists, key, contended, torn>>

-----------------------------------------------------------------------------

OpenStep(p) ==
  \/ OpenUnavailable(p) \/ ReadDescriptor(p) \/ Declined(p) \/ FileExists(p)
  \/ ChainUnreachable(p) \/ ChainFound(p) \/ ChainNotFound(p) \/ ChainMint(p)
  \/ Seed(p) \/ Rollback(p) \/ Load(p)
  \/ \E w \in Passphrases : Unlock(p, w) \/ CreateDescriptor(p, w)

Use(p, s) == BeginOpen(p, s) \/ (\E r \in Records : Save(p, s, r) \/ Delete(p, s, r))

Next ==
  \/ \E p \in Procs : OpenStep(p) \/ Ends(p) \/ \E s \in Stores : Use(p, s)
  \/ ChainToggles \/ ChainForgets

Spec == Init /\ [][Next]_vars

-----------------------------------------------------------------------------
(* Properties.  They are about the locked store, and about the other one as *)
(* long as no two processes use it at once.                                 *)

Guarded == Stores \ contended

(* An open store agrees with the disk: same records, and the key the file   *)
(* is encrypted under.  So no wrong passphrase and no fresh key is ever     *)
(* accepted for an existing store, and what is listed is what a restart     *)
(* would find.                                                              *)
MemoryMatchesDisk ==
  \A p \in Procs, s \in Guarded :
    Open(p, s) => IF enc[s] = Nothing THEN memory[p][s].content = {}
                                      ELSE memory[p][s] = enc[s]

(* What is on disk can be opened again: the descriptor fits the key of the  *)
(* .enc, and a keychain key the .enc needs is still in the keychain unless  *)
(* it was wiped or another mint has overwritten it.  So a passphrase store  *)
(* is never re-keyed under a passphrase other than the one it was created   *)
(* with (DW-84), and a crash between its two first writes never leaves one  *)
(* that reads as a keychain store.  And a failed creation leaves nothing    *)
(* half committed: a descriptor without an .enc is there only while a       *)
(* creation is under way, after a crash in the middle of one, or when the   *)
(* rollback itself failed.                                                  *)
KeyIsRecoverable ==
  /\ \A s \in Guarded :
       LET k == enc[s].key
       IN  /\ k.from = "keychain" => meta[s] = NoKey /\ (chainKey = k.id \/ k.id \in lost)
           /\ k.from = "passphrase" => meta[s] = k
  /\ \A s \in Guarded \ torn :
       meta[s] # NoKey /\ enc[s] = Nothing =>
         \E p \in Procs : task[p] = s /\ pc[p] \in {"seed", "rollback"}

(* The writer lock is held exactly while the store it guards is open or    *)
(* being opened: no way out of a failed open leaks it, and none gives it up *)
(* while the store is handed on.  So two processes never meet in the store. *)
LockFollowsStore ==
  /\ \A p \in Procs : writer = p <=> \E s \in Locked : Uses(p, s)
  /\ Locked \cap contended = {}

(* What credential-store.ts says of a keychain-mode store whose key is gone:*)
(* that is key-unavailable and never corrupt, which a store without a       *)
(* descriptor can only be when its file was damaged.                        *)
KeyGoneIsNotCorrupt ==
  [][\A p \in Procs : task[p] # NoStore /\ task'[p] = NoStore /\ verdict' = "corrupt"
       => meta[task[p]] # NoKey]_vars

(* ... and of the first-run mint: the lock is taken before it, so that a    *)
(* second process cannot replace the key of a store already written.        *)
MintNeverOverwrites ==
  [][chainKey # 0 => chainKey' \in {0, chainKey}]_vars

=============================================================================
