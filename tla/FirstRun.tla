------------------------------ MODULE FirstRun ------------------------------
(***************************************************************************)
(* The passphrase pre-flight of a boot (src/src/core/first-run-setup.ts,   *)
(* store-presence.ts, first-run-signal.ts, passphrase-prompt.ts,           *)
(* passphrase-provider.ts, src/bin/quick-studio.ts), over the boots of one *)
(* machine.  On a host without a keychain it asks for the passphrase that  *)
(* unlocks the stores, or for a new one, before the core starts; the core  *)
(* then opens both stores with what it was given.  Whether the keychain    *)
(* can be reached, whether there is a terminal and whether the environment *)
(* supplies a passphrase may differ from boot to boot.                     *)
(*                                                                         *)
(* An open of a store is one step, with the outcome EncryptedStores takes  *)
(* several steps to reach; a boot may end within a creation, between the   *)
(* descriptor and the file.  Ephemeral runs, which touch no store, damaged *)
(* files and other processes but for their lock are left out.              *)
(***************************************************************************)
EXTENDS Naturals

CONSTANTS Typed,     \* the passphrases a user may type or a transport supply
          Overlong,  \* those of them that are refused as too long
          MaxLosses  \* bound: files lost

ASSUME FirstRunAssumption == /\ Overlong \subseteq Typed /\ MaxLosses \in Nat
                             /\ {"none", "keychain"} \cap Typed = {}

VARIABLES
    chainUp,     \* the keychain can be reached, in this boot
    descriptor,  \* each store's descriptor: the passphrase its salt was made for
    encFile,     \* each store's .enc: what opens it
    losses,      \* files lost so far
    boot,        \* this boot: its stage, environment, attempts and result
    attended     \* history: no unattended boot has set the stores at odds

firstRunVars == <<chainUp, descriptor, encFile, losses, boot, attended>>
diskVars     == <<descriptor, encFile, losses, attended>>

SecretStores == {"credential", "providerKeys"}
Other(s)     == CHOOSE t \in SecretStores : t # s
NoPass       == "none"
InKeychain   == "keychain"
MAX_UNLOCK_ATTEMPTS == 3

Off == [stage |-> "off", interactive |-> FALSE, transport |-> NoPass, attempts |-> 0,
        target |-> "none", provider |-> NoPass, firstRun |-> FALSE]

FirstRunInit ==
    /\ chainUp \in BOOLEAN
    /\ descriptor = [s \in SecretStores |-> NoPass]
    /\ encFile = [s \in SecretStores |-> NoPass]
    /\ losses = 0 /\ boot = Off /\ attended = TRUE

-----------------------------------------------------------------------------
(* What is there, and what an open makes of it.                            *)

\* classifyOne.
Presence(s) ==
    IF descriptor[s] # NoPass
    THEN IF encFile[s] # NoPass THEN "passphrase-mode" ELSE "orphaned-descriptor"
    ELSE IF encFile[s] # NoPass THEN "keychain-mode" ELSE "first-run"

DescriptorPresent(s) == Presence(s) \in {"passphrase-mode", "orphaned-descriptor"}

\* Mutant of AnyDescriptorPresent: only the credential store is looked at.
CredentialDescriptorPresent == DescriptorPresent("credential")

AnyDescriptorPresent == \E s \in SecretStores : DescriptorPresent(s)

\* unlockTarget: the store a passphrase can be checked against.
UnlockTarget ==
    IF Presence("credential") = "passphrase-mode" THEN "credential"
    ELSE IF Presence("providerKeys") = "passphrase-mode" THEN "providerKeys" ELSE "none"

\* isFirstRunBoot.
IsFirstRunBoot == \A s \in SecretStores : Presence(s) = "first-run"

\* openCredentialStore and openProviderKeyStore, with a passphrase or without.
OpenOutcome(s, w) ==
    IF DescriptorPresent(s)
    THEN IF w = NoPass THEN "passphrase-declined"
         ELSE IF w \in Overlong THEN "passphrase-invalid"
         ELSE IF encFile[s] = w /\ descriptor[s] = w THEN "opened" ELSE "corrupt"
    ELSE IF chainUp THEN "opened"
    ELSE IF encFile[s] # NoPass THEN "key-unavailable"
    ELSE IF w = NoPass THEN "passphrase-declined"
    ELSE IF w \in Overlong THEN "passphrase-invalid" ELSE "opened"

Creates(s, w) == OpenOutcome(s, w) = "opened" /\ ~chainUp /\ Presence(s) = "first-run"

\* The descriptor and the empty .enc of a new passphrase store.
Created(s, w) ==
    /\ descriptor' = [descriptor EXCEPT ![s] = w]
    /\ encFile' = [encFile EXCEPT ![s] = w]
    /\ attended' = (attended /\ (boot.transport # NoPass => encFile[Other(s)] \in {NoPass, InKeychain, w}))
    /\ UNCHANGED losses

Opening(s, w) == IF Creates(s, w) THEN Created(s, w) ELSE UNCHANGED diskVars

-----------------------------------------------------------------------------
(* A boot.                                                                 *)

StartBoot(up, interactive, transport) ==
    /\ boot.stage = "off"
    /\ chainUp' = up
    /\ boot' = [Off EXCEPT !.stage = "preflight", !.interactive = interactive,
                           !.transport = transport, !.firstRun = IsFirstRunBoot]
    /\ UNCHANGED diskVars

\* The core starts with a provider from the pre-flight, or with the environment's.
StartCore(w) ==
    boot' = [boot EXCEPT !.stage = "core", !.provider = IF w # NoPass THEN w ELSE boot.transport,
                         !.target = IF w # NoPass THEN boot.target ELSE "none"]

\* runFirstRunSetup up to its prompts: a transport, a store that opens without a
\* passphrase, one that fails for another reason and a run without a terminal
\* all leave it to the core.
RunFirstRunSetup ==
    /\ boot.stage = "preflight"
    /\ \/ StartCore(NoPass)
          /\ \/ boot.transport # NoPass \/ ~boot.interactive
             \/ OpenOutcome("credential", NoPass) # "passphrase-declined"
             \/ AnyDescriptorPresent /\ UnlockTarget = "none"
       \/ /\ boot.transport = NoPass /\ boot.interactive
          /\ OpenOutcome("credential", NoPass) = "passphrase-declined"
          /\ IF AnyDescriptorPresent
             THEN /\ UnlockTarget # "none"
                  /\ boot' = [boot EXCEPT !.stage = "unlock", !.target = UnlockTarget]
             ELSE boot' = [boot EXCEPT !.stage = "create", !.target = "credential"]
    /\ UNCHANGED <<chainUp, diskVars>>

\* The probe, or an unlock, finds the lock taken or the file unreadable.
OpenFails ==
    /\ boot.stage \in {"preflight", "unlock", "create"}
    /\ boot.transport = NoPass
    /\ StartCore(NoPass)
    /\ UNCHANGED <<chainUp, diskVars>>

\* Mutant of ClassifyUnlockAttempt: a store that cannot be read is not retried.
ClassifyLeniently(outcome) == IF outcome \in {"opened", "corrupt"} THEN "opened" ELSE "retry"

\* classifyUnlockAttempt.
ClassifyUnlockAttempt(outcome) ==
    IF outcome = "opened" THEN "opened"
    ELSE IF outcome \in {"corrupt", "passphrase-invalid"} THEN "retry" ELSE "skip"

\* runUnlockLoop: one answer, checked by opening the target.
AnswerUnlock(w) ==
    LET verdict == ClassifyUnlockAttempt(OpenOutcome(boot.target, w))
    IN  /\ boot.stage = "unlock"
        /\ \/ verdict = "opened" /\ StartCore(w)
           \/ verdict = "skip" /\ StartCore(NoPass)
           \/ /\ verdict = "retry"
              /\ IF boot.attempts + 1 = MAX_UNLOCK_ATTEMPTS
                 THEN StartCore(NoPass)
                 ELSE boot' = [boot EXCEPT !.attempts = @ + 1]
        /\ UNCHANGED <<chainUp, diskVars>>

\* runCreatePath, with a passphrase typed twice alike.
AnswerCreate(w) ==
    /\ boot.stage = "create"
    /\ Opening("credential", w)
    /\ StartCore(IF OpenOutcome("credential", w) = "opened" THEN w ELSE NoPass)
    /\ UNCHANGED chainUp

\* promptNewPassphrase: the confirmation differs, and is asked for again.
Mismatch ==
    /\ boot.stage = "create" /\ boot.attempts + 1 < MAX_UNLOCK_ATTEMPTS
    /\ boot' = [boot EXCEPT !.attempts = @ + 1]
    /\ UNCHANGED <<chainUp, diskVars>>

\* declineResult: nothing typed, or no way to hide it.
Decline ==
    /\ boot.stage \in {"unlock", "create"}
    /\ StartCore(NoPass)
    /\ UNCHANGED <<chainUp, diskVars>>

\* The core opens a store, on the first call that needs it.
CoreOpens(s) ==
    /\ boot.stage = "core"
    /\ Creates(s, boot.provider)
    /\ Created(s, boot.provider)
    /\ UNCHANGED <<chainUp, boot>>

\* What is saved in a store that the keychain opened.
CoreSavesKey(s) ==
    /\ boot.stage = "core" /\ chainUp /\ Presence(s) = "first-run"
    /\ encFile' = [encFile EXCEPT ![s] = InKeychain]
    /\ UNCHANGED <<chainUp, descriptor, losses, boot, attended>>

\* Ctrl-C at a prompt, a crash, or the end of the run.
EndBoot ==
    /\ boot.stage # "off"
    /\ boot' = Off
    /\ UNCHANGED <<chainUp, diskVars>>

\* The boot ends between the two files of a creation.
CrashInCreation(s, w) ==
    /\ \/ boot.stage = "create" /\ s = "credential"
       \/ boot.stage = "core" /\ w = boot.provider
    /\ Creates(s, w)
    /\ descriptor' = [descriptor EXCEPT ![s] = w]
    /\ boot' = Off
    /\ UNCHANGED <<chainUp, encFile, losses, attended>>

\* Between boots an .enc is lost, or a descriptor deleted as the notice advises.
LoseFile(s) ==
    /\ boot.stage = "off" /\ losses < MaxLosses
    /\ losses' = losses + 1
    /\ \/ /\ encFile[s] # NoPass
          /\ encFile' = [encFile EXCEPT ![s] = NoPass] /\ UNCHANGED descriptor
       \/ /\ Presence(s) = "orphaned-descriptor"
          /\ descriptor' = [descriptor EXCEPT ![s] = NoPass] /\ UNCHANGED encFile
    /\ UNCHANGED <<chainUp, boot, attended>>

FirstRunNext ==
    \/ \E up, interactive \in BOOLEAN, transport \in Typed \cup {NoPass} :
         StartBoot(up, interactive, transport)
    \/ RunFirstRunSetup \/ OpenFails \/ Mismatch \/ Decline \/ EndBoot
    \/ \E w \in Typed : AnswerUnlock(w) \/ AnswerCreate(w)
    \/ \E s \in SecretStores :
         \/ CoreOpens(s) \/ CoreSavesKey(s) \/ LoseFile(s)
         \/ \E w \in Typed : CrashInCreation(s, w)

FirstRunSpec == FirstRunInit /\ [][FirstRunNext]_firstRunVars

-----------------------------------------------------------------------------

PassphraseStores == {s \in SecretStores : Presence(s) = "passphrase-mode"}

\* One passphrase unlocks both stores, whatever boots were cut short, whichever
\* store came first and whatever was lost in between: a user is never asked for
\* a new one while an old one still protects something.  Only a passphrase from
\* the environment, which nobody checks, can set the two at odds.
OnePassphrase ==
    attended => \A s, t \in PassphraseStores : encFile[s] = encFile[t]

\* What the pre-flight hands to the core does open the store it was asked for.
SetupUnlocks ==
    boot.stage = "core" /\ boot.target # "none" =>
      OpenOutcome(boot.target, boot.provider) = "opened"

\* No file is left behind a passphrase that is not the one its owner knows.
PassphraseIsRight == OnePassphrase /\ SetupUnlocks

=============================================================================
