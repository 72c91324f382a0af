---------------------------- MODULE LaunchProofs ----------------------------
(***************************************************************************)
(* Theorems about a launch: the update check, the pre-flight of the        *)
(* passphrase, the requests of pages and the file the Workspace is kept in,*)
(* for any number of launches, releases, pages and saves.                  *)
(***************************************************************************)
EXTENDS UpdateCheck, FirstRun, Requests, WorkspaceFile, TLAPS

-----------------------------------------------------------------------------
(* UpdateCheck: the update check and its cache.                             *)

\* What the variables hold: the cache file, and a program of some version.
CacheFiles == [latest : Nat, checkedAt : Nat]

ProgramStates == [version : Nat,
                  at : {"ended", "quiet", "asking", "believing", "fetched", "checked"}]

\* The types of the variables.
UpdateTypeOK ==
    /\ clock \in Nat
    /\ everReleased \subseteq Releases /\ released \in everReleased /\ installed \in everReleased
    /\ cacheFile \in CacheFiles
    /\ programs \in [Programs -> ProgramStates]
    /\ notice \in [latest : Nat, version : Nat]
    /\ fetchedBy \in [Programs -> Nat]

\* What the registry has answered, in a program or in the file, was released.
AnswersAreReleases ==
    /\ cacheFile # NoCache => cacheFile.latest \in everReleased
    /\ \A p \in Programs : programs[p].at = "fetched" => fetchedBy[p] \in everReleased

\* The inductive invariant.
UpdateInv == UpdateTypeOK /\ AnswersAreReleases

\* What NoticesAreTrue says of one step.
NoticeStep ==
    /\ notice' # notice => /\ notice'.latest \in everReleased \ Prereleases
                           /\ notice'.latest > installed /\ notice'.version = installed
    /\ \A p \in Programs : programs'[p].at = "believing" /\ programs[p].at # "believing" =>
         cacheFile.checkedAt \in {t \in 0 .. clock : clock < t + TtlMs}

\* Nothing has been asked at first.
LEMMA UpdateInvInit == UpdateInit => UpdateInv
  BY UpdateAssumption DEF UpdateInit, UpdateInv, UpdateTypeOK, AnswersAreReleases, CacheFiles,
     ProgramStates, NoCache, NotRun, NoNotice

\* A launch is the step that tells and that believes the cache.
LEMMA LaunchInv ==
    ASSUME UpdateInv, NEW p \in Programs, NEW quiet \in BOOLEAN, LaunchChecks(p, quiet)
    PROVE  UpdateInv' /\ NoticeStep
<1> USE UpdateAssumption DEF UpdateInv, UpdateTypeOK, AnswersAreReleases, NoCache
<1>1. /\ programs'[p].at \in {"quiet", "asking", "believing"} /\ programs'[p] \in ProgramStates
      /\ \A q \in Programs \ {p} : programs'[q] = programs[q]
      /\ programs' \in [Programs -> ProgramStates]
  BY DEF LaunchChecks, ProgramStates
<1>2. notice' \in [latest : Nat, version : Nat]
  BY DEF LaunchChecks, CacheFiles
<1>3. UpdateInv'
  BY <1>1, <1>2 DEF LaunchChecks
<1>4. notice' # notice => /\ notice'.latest \in everReleased \ Prereleases
                          /\ notice'.latest > installed /\ notice'.version = installed
  BY DEF LaunchChecks, CacheFiles, IsNewer
<1>5. programs'[p].at = "believing" => cacheFile # NoCache /\ ~IsCacheStale(cacheFile.checkedAt)
  BY DEF LaunchChecks
<1>6. ~IsCacheStale(cacheFile.checkedAt) => cacheFile.checkedAt \in {t \in 0 .. clock : clock < t + TtlMs}
  BY DEF IsCacheStale, CacheFiles
<1> QED
  BY <1>1, <1>3, <1>4, <1>5, <1>6 DEF NoticeStep

\* Every step keeps the invariant and tells the truth.
LEMMA UpdateStep ==
    ASSUME UpdateInv, [UpdateNext]_updateVars
    PROVE  UpdateInv' /\ NoticeStep
<1> USE UpdateAssumption DEF UpdateInv, UpdateTypeOK, AnswersAreReleases, NoticeStep
<1>1. CASE UNCHANGED updateVars
  BY <1>1 DEF updateVars
<1>2. ASSUME NEW v \in Releases, Release(v) PROVE UpdateInv' /\ NoticeStep
  BY <1>2 DEF Release
<1>3. CASE Upgrade
  BY <1>3 DEF Upgrade
<1>4. CASE ClockMoves
  BY <1>4 DEF ClockMoves
<1>5. CASE CacheIsSpoilt
  BY <1>5 DEF CacheIsSpoilt, NoCache, CacheFiles
<1>6. ASSUME NEW p \in Programs, NEW b \in BOOLEAN, LaunchChecks(p, b) PROVE UpdateInv' /\ NoticeStep
  BY <1>6, LaunchInv
<1>7. ASSUME NEW p \in Programs, NEW b \in BOOLEAN, RegistryAnswers(p, b) PROVE UpdateInv' /\ NoticeStep
  <2>1. /\ programs' \in [Programs -> ProgramStates]
        /\ programs'[p].at = (IF b THEN "fetched" ELSE "checked")
        /\ \A q \in Programs \ {p} : programs'[q] = programs[q]
    BY <1>7 DEF RegistryAnswers, ProgramStates
  <2>2. /\ fetchedBy' \in [Programs -> Nat] /\ b => fetchedBy'[p] \in everReleased
        /\ \A q \in Programs \ {p} : fetchedBy'[q] = fetchedBy[q]
    BY <1>7 DEF RegistryAnswers
  <2> QED
    BY <1>7, <2>1, <2>2 DEF RegistryAnswers
<1>8. ASSUME NEW p \in Programs, NEW b \in BOOLEAN, WriteUpdateCache(p, b) PROVE UpdateInv' /\ NoticeStep
  <2>1. /\ programs' \in [Programs -> ProgramStates] /\ programs'[p].at = "checked"
        /\ \A q \in Programs \ {p} : programs'[q] = programs[q] /\ fetchedBy'[q] = fetchedBy[q]
        /\ fetchedBy' \in [Programs -> Nat]
    BY <1>8 DEF WriteUpdateCache, ProgramStates
  <2>2. cacheFile' \in CacheFiles /\ (cacheFile' # NoCache => cacheFile'.latest \in everReleased)
    BY <1>8 DEF WriteUpdateCache, CacheFiles
  <2> QED
    BY <1>8, <2>1, <2>2 DEF WriteUpdateCache, NoCache
<1>9. ASSUME NEW p \in Programs, ProgramEnds(p) PROVE UpdateInv' /\ NoticeStep
  <2>1. /\ programs' \in [Programs -> ProgramStates] /\ programs'[p].at = "ended"
        /\ \A q \in Programs \ {p} : programs'[q] = programs[q] /\ fetchedBy'[q] = fetchedBy[q]
        /\ fetchedBy' \in [Programs -> Nat]
    BY <1>9 DEF ProgramEnds, ProgramStates, NotRun
  <2> QED
    BY <1>9, <2>1 DEF ProgramEnds
<1> QED
  BY <1>1, <1>2, <1>3, <1>4, <1>5, <1>6, <1>7, <1>8, <1>9 DEF UpdateNext

\* An update notice names a release newer than the version installed, and a
\* check is skipped only on a cache younger than a day, whatever the clock, the
\* cache file and other launches do.
THEOREM NoticesHold == UpdateSpec => NoticesAreTrue
<1>1. UpdateInit => UpdateInv
  BY UpdateInvInit
<1>2. UpdateInv /\ [UpdateNext]_updateVars => UpdateInv'
  BY UpdateStep
<1>3. UpdateInv /\ [UpdateNext]_updateVars => [NoticeStep]_updateVars
  BY UpdateStep
<1> QED
  BY <1>1, <1>2, <1>3, PTL DEF UpdateSpec, NoticesAreTrue, NoticeStep

-----------------------------------------------------------------------------
(* FirstRun: the pre-flight and the two stores.                             *)

\* What the variables hold.
Boots == [stage : {"off", "preflight", "unlock", "create", "core"}, interactive : BOOLEAN,
          transport : Typed \cup {NoPass}, attempts : Nat, target : SecretStores \cup {"none"},
          provider : Typed \cup {NoPass}, firstRun : BOOLEAN]

\* The types of the variables.
FirstRunTypeOK ==
    /\ chainUp \in BOOLEAN /\ attended \in BOOLEAN /\ losses \in Nat
    /\ descriptor \in [SecretStores -> Typed \cup {NoPass}]
    /\ encFile \in [SecretStores -> Typed \cup {NoPass, InKeychain}]
    /\ boot \in Boots

\* The .enc beside a descriptor is opened by the passphrase of that descriptor.
FilesMatch == \A s \in SecretStores : descriptor[s] # NoPass => encFile[s] \in {NoPass, descriptor[s]}

\* A store is there, under one passphrase.
Holds(s, w) == descriptor[s] = w /\ encFile[s] = w

\* What a boot has found out by the stage it is in: which store it unlocks or
\* creates, and what the passphrase it hands on opens.
StageIsRight ==
    /\ boot.stage = "unlock" => /\ boot.target \in SecretStores /\ boot.transport = NoPass
                                /\ Presence(boot.target) = "passphrase-mode"
    /\ boot.stage = "create" => /\ boot.target = "credential" /\ boot.transport = NoPass
                                /\ ~chainUp /\ encFile["credential"] = NoPass
                                /\ \A s \in SecretStores : descriptor[s] = NoPass
    /\ boot.stage = "core" /\ boot.target # "none" =>
         boot.provider \in Typed \ Overlong /\ Holds(boot.target, boot.provider)
    /\ boot.stage = "core" /\ boot.transport = NoPass /\ boot.provider # NoPass /\ attended =>
         \A s \in SecretStores : Presence(s) = "passphrase-mode" => encFile[s] = boot.provider
    /\ boot.stage = "core" /\ boot.transport # NoPass => boot.provider = boot.transport

\* The inductive invariant.
FirstRunInv == FirstRunTypeOK /\ FilesMatch /\ OnePassphrase /\ StageIsRight

\* There are two stores.
LEMMA TwoStores ==
    /\ Other("credential") = "providerKeys" /\ Other("providerKeys") = "credential"
    /\ SecretStores = {"credential", "providerKeys"}
  BY DEF Other, SecretStores

\* What a store's presence says of its two files.
LEMMA PresenceIs ==
    ASSUME NEW s \in SecretStores
    PROVE  /\ Presence(s) = "passphrase-mode" <=> descriptor[s] # NoPass /\ encFile[s] # NoPass
           /\ Presence(s) = "first-run" <=> descriptor[s] = NoPass /\ encFile[s] = NoPass
           /\ Presence(s) = "orphaned-descriptor" <=> descriptor[s] # NoPass /\ encFile[s] = NoPass
           /\ DescriptorPresent(s) <=> descriptor[s] # NoPass
  BY DEF Presence, DescriptorPresent

\* No boot is a boot.
LEMMA OffBoot == Off \in Boots /\ Off.stage = "off"
  BY DEF Off, Boots

\* Nothing is on disk at first.
LEMMA FirstRunInvInit == FirstRunInit => FirstRunInv
<1> SUFFICES ASSUME FirstRunInit PROVE FirstRunInv
  OBVIOUS
<1>1. FirstRunTypeOK
  BY OffBoot DEF FirstRunInit, FirstRunTypeOK
<1>2. FilesMatch /\ OnePassphrase
  BY DEF FirstRunInit, FilesMatch, OnePassphrase, PassphraseStores
<1>3. StageIsRight
  BY OffBoot DEF FirstRunInit, StageIsRight
<1> QED
  BY <1>1, <1>2, <1>3 DEF FirstRunInv

\* A step that leaves the files alone and ends in a stage that asks nothing of them.
LEMMA DiskKept ==
    ASSUME FirstRunInv, UNCHANGED diskVars, boot' \in Boots, chainUp' \in BOOLEAN, StageIsRight'
    PROVE  FirstRunInv'
<1>1. FirstRunTypeOK' /\ FilesMatch'
  BY DEF FirstRunInv, FirstRunTypeOK, FilesMatch, diskVars
<1>2. OnePassphrase'
  BY DEF FirstRunInv, OnePassphrase, PassphraseStores, Presence, diskVars
<1> QED
  BY <1>1, <1>2 DEF FirstRunInv

\* What a boot is once the Core starts.
LEMMA CoreBoot ==
    ASSUME FirstRunInv, NEW w \in Typed \cup {NoPass}, StartCore(w)
    PROVE  /\ boot' \in Boots /\ boot'.stage = "core" /\ boot'.transport = boot.transport
           /\ boot'.provider = (IF w # NoPass THEN w ELSE boot.transport)
           /\ boot'.target = (IF w # NoPass THEN boot.target ELSE "none")
  BY DEF FirstRunInv, FirstRunTypeOK, StartCore, Boots

\* The core starts without a passphrase of the pre-flight's.
LEMMA CoreUnaided ==
    ASSUME FirstRunInv, StartCore(NoPass), UNCHANGED <<chainUp, diskVars>>
    PROVE  FirstRunInv'
<1>1. /\ boot' \in Boots /\ boot'.stage = "core" /\ boot'.transport = boot.transport
      /\ boot'.provider = boot.transport /\ boot'.target = "none"
  BY CoreBoot
<1>2. StageIsRight'
  BY <1>1 DEF StageIsRight
<1> QED
  BY <1>1, <1>2, DiskKept DEF FirstRunInv, FirstRunTypeOK

\* The pre-flight finds nothing to ask, a store to unlock or one to create.
LEMMA SetupStep ==
    ASSUME FirstRunInv, RunFirstRunSetup
    PROVE  FirstRunInv'
<1>1. CASE StartCore(NoPass)
  BY <1>1, CoreUnaided DEF RunFirstRunSetup
<1>2. ASSUME boot.transport = NoPass, AnyDescriptorPresent, UnlockTarget # "none",
             boot' = [boot EXCEPT !.stage = "unlock", !.target = UnlockTarget]
      PROVE  FirstRunInv'
  <2>1. UnlockTarget \in SecretStores /\ Presence(UnlockTarget) = "passphrase-mode"
    BY <1>2 DEF UnlockTarget, SecretStores
  <2>2. boot' \in Boots /\ boot'.stage = "unlock" /\ boot'.target = UnlockTarget /\ boot'.transport = NoPass
    BY <1>2, <2>1 DEF FirstRunInv, FirstRunTypeOK, Boots
  <2>3. StageIsRight'
    BY <2>1, <2>2 DEF RunFirstRunSetup, StageIsRight, Presence, diskVars
  <2> QED
    BY <2>2, <2>3, DiskKept DEF RunFirstRunSetup, FirstRunInv, FirstRunTypeOK
<1>3. ASSUME boot.transport = NoPass, ~AnyDescriptorPresent,
             OpenOutcome("credential", NoPass) = "passphrase-declined",
             boot' = [boot EXCEPT !.stage = "create", !.target = "credential"]
      PROVE  FirstRunInv'
  <2>1. \A s \in SecretStores : descriptor[s] = NoPass
    BY <1>3, PresenceIs DEF AnyDescriptorPresent
  <2>2. ~chainUp /\ encFile["credential"] = NoPass
    BY <1>3 DEF OpenOutcome, AnyDescriptorPresent, SecretStores
  <2>3. boot' \in Boots /\ boot'.stage = "create" /\ boot'.target = "credential" /\ boot'.transport = NoPass
    BY <1>3, TwoStores DEF FirstRunInv, FirstRunTypeOK, Boots
  <2>4. StageIsRight'
    BY <2>1, <2>2, <2>3 DEF RunFirstRunSetup, StageIsRight, diskVars
  <2> QED
    BY <2>3, <2>4, DiskKept DEF RunFirstRunSetup, FirstRunInv, FirstRunTypeOK
<1> QED
  BY <1>1, <1>2, <1>3 DEF RunFirstRunSetup

\* An answer opens the store asked for, or is tried once more.
LEMMA UnlockStep ==
    ASSUME FirstRunInv, NEW w \in Typed, AnswerUnlock(w)
    PROVE  FirstRunInv'
<1> USE FirstRunAssumption DEF NoPass
<1>1. CASE StartCore(NoPass)
  BY <1>1, CoreUnaided DEF AnswerUnlock
<1>2. CASE StartCore(w) /\ OpenOutcome(boot.target, w) = "opened"
  <2>1. boot.target \in SecretStores /\ boot.transport = NoPass /\ Presence(boot.target) = "passphrase-mode"
    BY DEF AnswerUnlock, FirstRunInv, StageIsRight
  <2>2. w \notin Overlong /\ Holds(boot.target, w)
    BY <1>2, <2>1, PresenceIs DEF OpenOutcome, Holds
  <2>3. /\ boot' \in Boots /\ boot'.stage = "core" /\ boot'.transport = NoPass /\ boot'.provider = w
        /\ boot'.target = boot.target
    BY <1>2, <2>1, CoreBoot
  <2>4. attended => \A s \in SecretStores : Presence(s) = "passphrase-mode" => encFile[s] = w
    BY <2>1, <2>2 DEF FirstRunInv, OnePassphrase, PassphraseStores, Holds
  <2>5. StageIsRight'
    BY <2>1, <2>2, <2>3, <2>4 DEF AnswerUnlock, StageIsRight, Holds, Presence, diskVars
  <2> QED
    BY <2>3, <2>5, DiskKept DEF AnswerUnlock, FirstRunInv, FirstRunTypeOK
<1>3. CASE boot' = [boot EXCEPT !.attempts = @ + 1]
  <2>1. /\ boot' \in Boots /\ boot'.stage = boot.stage /\ boot'.target = boot.target
        /\ boot'.transport = boot.transport
    BY <1>3 DEF FirstRunInv, FirstRunTypeOK, Boots
  <2>2. StageIsRight'
    BY <2>1 DEF AnswerUnlock, FirstRunInv, StageIsRight, Presence, diskVars
  <2> QED
    BY <2>1, <2>2, DiskKept DEF AnswerUnlock, FirstRunInv, FirstRunTypeOK
<1> QED
  BY <1>1, <1>2, <1>3 DEF AnswerUnlock, ClassifyUnlockAttempt

\* A store created with w, when what the other one holds is w or no passphrase.
LEMMA CreatedFiles ==
    ASSUME FirstRunInv, NEW s \in SecretStores, NEW w \in Typed, Creates(s, w), Created(s, w)
    PROVE  /\ descriptor' \in [SecretStores -> Typed \cup {NoPass}]
           /\ encFile' \in [SecretStores -> Typed \cup {NoPass, InKeychain}]
           /\ descriptor[s] = NoPass /\ encFile[s] = NoPass /\ w \notin Overlong
           /\ descriptor'[s] = w /\ encFile'[s] = w
           /\ \A t \in SecretStores \ {s} : descriptor'[t] = descriptor[t] /\ encFile'[t] = encFile[t]
           /\ attended' \in BOOLEAN /\ (attended' => attended) /\ losses' \in Nat
           /\ FilesMatch'
<1> USE FirstRunAssumption DEF NoPass, InKeychain
<1>1. descriptor[s] = NoPass /\ encFile[s] = NoPass /\ w \notin Overlong
  BY PresenceIs DEF Creates, OpenOutcome
<1>2. /\ descriptor' \in [SecretStores -> Typed \cup {NoPass}]
      /\ encFile' \in [SecretStores -> Typed \cup {NoPass, InKeychain}]
      /\ descriptor'[s] = w /\ encFile'[s] = w
      /\ \A t \in SecretStores \ {s} : descriptor'[t] = descriptor[t] /\ encFile'[t] = encFile[t]
      /\ losses' \in Nat
  BY DEF Created, FirstRunInv, FirstRunTypeOK
<1>3. attended' \in BOOLEAN /\ (attended' => attended)
  BY Zenon DEF Created
<1>4. FilesMatch'
  BY <1>2 DEF FirstRunInv, FilesMatch
<1> QED
  BY <1>1, <1>2, <1>3, <1>4

\* An answer creates the first store.
LEMMA CreateStep ==
    ASSUME FirstRunInv, NEW w \in Typed, AnswerCreate(w)
    PROVE  FirstRunInv'
<1> USE FirstRunAssumption DEF NoPass
<1>1. /\ boot.stage = "create" /\ boot.target = "credential" /\ boot.transport = NoPass
      /\ ~chainUp /\ encFile["credential"] = NoPass
      /\ \A s \in SecretStores : descriptor[s] = NoPass
  BY DEF AnswerCreate, FirstRunInv, StageIsRight
<1>2. CASE OpenOutcome("credential", w) # "opened"
  <2>1. UNCHANGED diskVars
    BY <1>2 DEF AnswerCreate, Opening, Creates
  <2> QED
    BY <1>2, <2>1, CoreUnaided DEF AnswerCreate
<1>3. CASE OpenOutcome("credential", w) = "opened"
  <2>1. Creates("credential", w)
    BY <1>1, <1>3, PresenceIs, TwoStores DEF Creates
  <2>2. Created("credential", w) /\ StartCore(w) /\ UNCHANGED chainUp
    BY <1>3, <2>1 DEF AnswerCreate, Opening
  <2>3. /\ boot' \in Boots /\ boot'.stage = "core" /\ boot'.transport = NoPass /\ boot'.provider = w
        /\ boot'.target = "credential"
    BY <1>1, <2>2, CoreBoot
  <2>4. /\ descriptor'["credential"] = w /\ encFile'["credential"] = w /\ w \notin Overlong
        /\ descriptor'["providerKeys"] = NoPass
    BY <1>1, <2>1, <2>2, CreatedFiles, TwoStores
  <2>5. \A s \in SecretStores : (Presence(s) = "passphrase-mode")' => encFile'[s] = w
    BY <2>4, TwoStores DEF Presence
  <2>6. StageIsRight'
    BY <2>3, <2>4, <2>5 DEF StageIsRight, Holds
  <2>7. OnePassphrase'
    BY <2>5 DEF OnePassphrase, PassphraseStores
  <2>8. FirstRunTypeOK' /\ FilesMatch'
    BY <2>1, <2>2, <2>3, CreatedFiles, TwoStores DEF FirstRunInv, FirstRunTypeOK
  <2> QED
    BY <2>6, <2>7, <2>8 DEF FirstRunInv
<1> QED
  BY <1>2, <1>3

\* The Core creates the other store with the passphrase it was given.
LEMMA CoreOpensStep ==
    ASSUME FirstRunInv, NEW s \in SecretStores, CoreOpens(s)
    PROVE  FirstRunInv'
<1> USE FirstRunAssumption DEF NoPass, InKeychain
<1> DEFINE w == boot.provider
<1>1. w \in Typed
  BY DEF CoreOpens, Creates, OpenOutcome, FirstRunInv, FirstRunTypeOK, Boots, DescriptorPresent
<1> HIDE DEF w
<1>2. Creates(s, w) /\ Created(s, w) /\ boot.stage = "core" /\ UNCHANGED <<chainUp, boot>> /\ boot.provider = w
  BY DEF CoreOpens, w
<1>3. /\ descriptor[s] = NoPass /\ encFile[s] = NoPass /\ w \notin Overlong
      /\ descriptor'[s] = w /\ encFile'[s] = w
      /\ \A t \in SecretStores \ {s} : descriptor'[t] = descriptor[t] /\ encFile'[t] = encFile[t]
      /\ (attended' => attended) /\ FilesMatch'
  BY <1>1, <1>2, CreatedFiles
<1>4. FirstRunTypeOK'
  BY <1>1, <1>2, CreatedFiles DEF FirstRunInv, FirstRunTypeOK
<1>5. attended' => \A t \in SecretStores : (Presence(t) = "passphrase-mode")' => encFile'[t] = w
  <2> SUFFICES ASSUME attended', NEW t \in SecretStores \ {s}, (Presence(t) = "passphrase-mode")'
               PROVE  encFile[t] = w
    BY <1>3
  <2>1. descriptor[t] \in Typed /\ encFile[t] = descriptor[t] /\ Presence(t) = "passphrase-mode"
    BY <1>3, PresenceIs DEF Presence, FirstRunInv, FirstRunTypeOK, FilesMatch
  <2>2. CASE boot.transport = NoPass
    BY <1>1, <1>2, <1>3, <2>1, <2>2 DEF FirstRunInv, StageIsRight
  <2>3. CASE boot.transport # NoPass
    <3>1. t = Other(s)
      BY TwoStores
    <3>2. encFile[t] \in {NoPass, InKeychain, w}
      BY <1>2, <2>3, <3>1 DEF Created
    <3> QED
      BY <2>1, <3>2
  <2> QED
    BY <2>2, <2>3
<1>6. OnePassphrase'
  BY <1>5 DEF OnePassphrase, PassphraseStores
<1>7. boot.target # "none" => w \in Typed \ Overlong /\ descriptor'[boot.target] = w /\ encFile'[boot.target] = w
  <2> SUFFICES ASSUME boot.target # "none" PROVE w \in Typed \ Overlong /\ descriptor'[boot.target] = w /\ encFile'[boot.target] = w
    OBVIOUS
  <2>1. boot.target \in SecretStores /\ Holds(boot.target, w)
    BY <1>2 DEF FirstRunInv, FirstRunTypeOK, Boots, StageIsRight
  <2>2. boot.target # s
    BY <1>1, <1>3, <2>1 DEF Holds
  <2> QED
    BY <1>1, <1>2, <1>3, <2>1, <2>2 DEF Holds
<1>8. boot.transport # NoPass => w = boot.transport
  BY <1>2 DEF FirstRunInv, StageIsRight
<1>9. StageIsRight'
  BY <1>2, <1>5, <1>7, <1>8 DEF StageIsRight, Holds
<1> QED
  BY <1>3, <1>4, <1>6, <1>9 DEF FirstRunInv

\* A crash leaves a descriptor without its file.
LEMMA CrashStep ==
    ASSUME FirstRunInv, NEW s \in SecretStores, NEW w \in Typed, CrashInCreation(s, w)
    PROVE  FirstRunInv'
<1>1. descriptor[s] = NoPass /\ encFile[s] = NoPass
  BY PresenceIs DEF CrashInCreation, Creates
<1>2. FirstRunTypeOK'
  BY OffBoot DEF CrashInCreation, FirstRunInv, FirstRunTypeOK
<1>3. FilesMatch'
  BY <1>1 DEF CrashInCreation, FirstRunInv, FirstRunTypeOK, FilesMatch
<1>4. \A t \in SecretStores : (Presence(t) = "passphrase-mode")' => Presence(t) = "passphrase-mode" /\ t # s
  BY <1>1 DEF CrashInCreation, FirstRunInv, FirstRunTypeOK, Presence
<1>5. OnePassphrase'
  BY <1>4 DEF CrashInCreation, FirstRunInv, OnePassphrase, PassphraseStores
<1>6. StageIsRight'
  BY OffBoot DEF CrashInCreation, StageIsRight
<1> QED
  BY <1>2, <1>3, <1>5, <1>6 DEF FirstRunInv

\* A lost file makes no passphrase wrong.
LEMMA LoseStep ==
    ASSUME FirstRunInv, NEW s \in SecretStores, LoseFile(s)
    PROVE  FirstRunInv'
<1>1. FirstRunTypeOK'
  BY DEF LoseFile, FirstRunInv, FirstRunTypeOK
<1>2. FilesMatch'
  BY DEF LoseFile, FirstRunInv, FirstRunTypeOK, FilesMatch
<1>3. \A t \in SecretStores : (Presence(t) = "passphrase-mode")' =>
        Presence(t) = "passphrase-mode" /\ encFile'[t] = encFile[t]
  BY DEF LoseFile, FirstRunInv, FirstRunTypeOK, Presence
<1>4. OnePassphrase'
  BY <1>3 DEF LoseFile, FirstRunInv, OnePassphrase, PassphraseStores
<1>5. StageIsRight'
  BY DEF LoseFile, StageIsRight
<1> QED
  BY <1>1, <1>2, <1>4, <1>5 DEF FirstRunInv

\* A store whose key is in the keychain has no passphrase.
LEMMA SavesKeyStep ==
    ASSUME FirstRunInv, NEW s \in SecretStores, CoreSavesKey(s)
    PROVE  FirstRunInv'
<1> USE FirstRunAssumption DEF NoPass, InKeychain
<1>1. descriptor[s] = NoPass /\ encFile[s] = NoPass /\ boot.stage = "core"
  BY PresenceIs DEF CoreSavesKey
<1>2. FirstRunTypeOK'
  BY DEF CoreSavesKey, FirstRunInv, FirstRunTypeOK
<1>3. FilesMatch'
  BY <1>1 DEF CoreSavesKey, FirstRunInv, FirstRunTypeOK, FilesMatch
<1>4. \A t \in SecretStores : (Presence(t) = "passphrase-mode")' =>
        Presence(t) = "passphrase-mode" /\ encFile'[t] = encFile[t]
  BY <1>1 DEF CoreSavesKey, FirstRunInv, FirstRunTypeOK, Presence
<1>5. OnePassphrase'
  BY <1>4 DEF CoreSavesKey, FirstRunInv, OnePassphrase, PassphraseStores
<1>6. \A t \in SecretStores, w \in Typed :
        Holds(t, w) => descriptor'[t] = w /\ encFile'[t] = w
  BY <1>1 DEF CoreSavesKey, FirstRunInv, FirstRunTypeOK, Holds
<1>7. boot.target # "none" => /\ boot.provider \in Typed \ Overlong
                              /\ descriptor'[boot.target] = boot.provider
                              /\ encFile'[boot.target] = boot.provider
  BY <1>1, <1>6 DEF FirstRunInv, FirstRunTypeOK, StageIsRight, Boots
<1>8. StageIsRight'
  BY <1>1, <1>4, <1>7 DEF CoreSavesKey, FirstRunInv, StageIsRight, Holds
<1> QED
  BY <1>2, <1>3, <1>5, <1>8 DEF FirstRunInv

\* Every step keeps the invariant.
LEMMA FirstRunStep ==
    ASSUME FirstRunInv, [FirstRunNext]_firstRunVars
    PROVE  FirstRunInv'
<1>1. CASE UNCHANGED firstRunVars
  <2>1. StageIsRight'
    BY <1>1 DEF firstRunVars, FirstRunInv, StageIsRight, Holds, Presence
  <2> QED
    BY <1>1, <2>1, DiskKept DEF firstRunVars, diskVars, FirstRunInv, FirstRunTypeOK
<1>2. ASSUME NEW up \in BOOLEAN, NEW interactive \in BOOLEAN, NEW transport \in Typed \cup {NoPass},
             StartBoot(up, interactive, transport)
      PROVE  FirstRunInv'
  <2>1. boot' \in Boots /\ boot'.stage = "preflight" /\ chainUp' \in BOOLEAN
    <3>1. IsFirstRunBoot \in BOOLEAN
      BY DEF IsFirstRunBoot
    <3> QED
      BY <1>2, <3>1 DEF StartBoot, Off, Boots
  <2>2. StageIsRight'
    BY <2>1 DEF StageIsRight
  <2> QED
    BY <1>2, <2>1, <2>2, DiskKept DEF StartBoot
<1>3. CASE RunFirstRunSetup
  BY <1>3, SetupStep
<1>4. CASE OpenFails
  BY <1>4, CoreUnaided DEF OpenFails
<1>5. CASE Decline
  BY <1>5, CoreUnaided DEF Decline
<1>6. CASE Mismatch
  <2>1. /\ boot' \in Boots /\ boot'.stage = "create" /\ boot'.target = boot.target
        /\ boot'.transport = boot.transport /\ boot.stage = "create"
    BY <1>6 DEF Mismatch, FirstRunInv, FirstRunTypeOK, Boots
  <2>2. StageIsRight'
    BY <1>6, <2>1 DEF Mismatch, FirstRunInv, StageIsRight, diskVars
  <2> QED
    BY <1>6, <2>1, <2>2, DiskKept DEF Mismatch, FirstRunInv, FirstRunTypeOK
<1>7. CASE EndBoot
  <2>1. StageIsRight'
    BY <1>7, OffBoot DEF EndBoot, StageIsRight
  <2> QED
    BY <1>7, <2>1, OffBoot, DiskKept DEF EndBoot, FirstRunInv, FirstRunTypeOK
<1>8. ASSUME NEW w \in Typed, AnswerUnlock(w) \/ AnswerCreate(w) PROVE FirstRunInv'
  BY <1>8, UnlockStep, CreateStep
<1>9. ASSUME NEW s \in SecretStores, CoreOpens(s) \/ CoreSavesKey(s) \/ LoseFile(s) PROVE FirstRunInv'
  BY <1>9, CoreOpensStep, SavesKeyStep, LoseStep
<1>10. ASSUME NEW s \in SecretStores, NEW w \in Typed, CrashInCreation(s, w) PROVE FirstRunInv'
  BY <1>10, CrashStep
<1> QED
  BY <1>1, <1>2, <1>3, <1>4, <1>5, <1>6, <1>7, <1>8, <1>9, <1>10 DEF FirstRunNext

\* The stores never come to hold two passphrases while the user is there, and
\* the passphrase the pre-flight took opens the store it was asked for, through
\* crashes, lost files and the keychain coming and going.
THEOREM PassphraseHolds == FirstRunSpec => []PassphraseIsRight
<1>1. FirstRunInit => FirstRunInv
  BY FirstRunInvInit
<1>2. FirstRunInv /\ [FirstRunNext]_firstRunVars => FirstRunInv'
  BY FirstRunStep
<1>3. FirstRunInv => SetupUnlocks
  <2> SUFFICES ASSUME FirstRunInv, boot.stage = "core", boot.target # "none"
               PROVE  OpenOutcome(boot.target, boot.provider) = "opened"
    BY DEF SetupUnlocks
  <2>1. /\ boot.target \in SecretStores /\ boot.provider \in Typed \ Overlong
        /\ Holds(boot.target, boot.provider)
    BY DEF FirstRunInv, FirstRunTypeOK, Boots, StageIsRight
  <2>2. boot.provider # NoPass
    BY <2>1, FirstRunAssumption DEF NoPass
  <2> QED
    BY <2>1, <2>2, PresenceIs DEF OpenOutcome, Holds
<1>4. FirstRunInv => PassphraseIsRight
  BY <1>3 DEF FirstRunInv, PassphraseIsRight
<1> QED
  BY <1>1, <1>2, <1>4, PTL DEF FirstRunSpec

-----------------------------------------------------------------------------
(* Requests: the pages and the Core that answers them.                      *)

\* The requests there are.
PageRequests ==
    [path : {"/rpc", "/chat/stream"}, verb : {"POST", "GET"}, host : Addresses \cup {Elsewhere},
     origin : Addresses \cup {Elsewhere, NoOrigin}, token : Nat, size : {"small", "large"},
     body : {"json", "no json", "no method"}, method : Methods \cup {"no such"},
     params : {"good", "bad"}]

\* What a page sends differs from its own request in one respect at most.
IsPageRequest(r) ==
    /\ r \in PageRequests
    /\ r.host # Elsewhere /\ r.origin \notin {Elsewhere, NoOrigin} => r.origin = r.host
    /\ r.host = Elsewhere => r.origin \in Addresses

\* The last answer is the one its request is owed.
AnswerIsRight ==
    answered.code # "unreachable" =>
      IF Amiss(answered.req) THEN ~answered.ran /\ answered.code \notin {"ok", "internal_error"}
      ELSE IF answered.req.token = answered.launch
      THEN answered.ran /\ answered.code \in {"ok", "internal_error"}
      ELSE ~answered.ran /\ answered.code = "unauthorized"

\* The inductive invariant.
RequestsInv ==
    /\ bindHost \in BindHosts /\ boundPort \in BindPorts /\ launches \in Nat
    /\ \A w \in pages : w.at \in Addresses /\ w.launch \in Nat /\ IsUrl(w.sandbox) /\ w.sandbox.host.name \in Loopback
    /\ onItsWay # NoRequest => IsPageRequest(onItsWay)
    /\ AnswerIsRight

\* An address the Core derives can be written in a link, brackets and all.
LEMMA DerivedIsUrl ==
    ASSUME NEW h, NEW p PROVE IsUrl(DeriveOpenUrl(h, p))
  BY DEF IsUrl, DeriveOpenUrl, BracketIfIpv6

\* The sandbox is reached at a loopback name whatever the Core is bound to.
LEMMA SandboxIsLoopback ==
    ASSUME NEW h, NEW p
    PROVE  DeriveOpenUrl(SandboxBindHost(h), p).host.name \in Loopback
  BY RequestsAssumption DEF DeriveOpenUrl, BracketIfIpv6, SandboxBindHost

\* An address a page may have been opened at is the Core's host, or any on a
\* wildcard bind, and its port.
LEMMA AddressIsKnown ==
    ASSUME bindHost \in BindHosts, boundPort \in BindPorts, NEW at \in Addresses
    PROVE  /\ at # Elsewhere
           /\ ~IsWildcardHost(bindHost) => at.host = BracketIfIpv6(bindHost)
           /\ PortIsBound(at.port)
<1>1. CASE at = DeriveOpenUrl(bindHost, boundPort)
  BY <1>1, RequestsAssumption DEF DeriveOpenUrl, BracketIfIpv6, Elsewhere, PortIsBound, IsWildcardHost
<1>2. CASE IsWildcardHost(bindHost) /\ at = BrowserUrl([host |-> [name |-> "nas", brackets |-> FALSE], port |-> boundPort])
  BY <1>2 DEF BrowserUrl, Elsewhere, PortIsBound
<1> QED
  BY <1>1, <1>2 DEF Addresses, OtherNames

\* A page's own request is one.
LEMMA RequestOfPage ==
    ASSUME RequestsInv, NEW w \in pages, NEW path \in {"/rpc", "/chat/stream"}, NEW method \in Methods
    PROVE  IsPageRequest(RequestOf(w, path, method))
<1>1. w.at \in Addresses /\ w.at # Elsewhere /\ w.launch \in Nat
  BY AddressIsKnown DEF RequestsInv
<1>2. RequestOf(w, path, method) \in PageRequests
  BY <1>1 DEF RequestOf, PageRequests
<1> QED
  BY <1>1, <1>2 DEF RequestOf, IsPageRequest

\* So is each of its variants.
LEMMA VariantOfPage ==
    ASSUME RequestsInv, NEW w \in pages, NEW path \in {"/rpc", "/chat/stream"},
           NEW req \in Variants(RequestOf(w, path, "any other"))
    PROVE  IsPageRequest(req)
<1> DEFINE r == RequestOf(w, path, "any other")
<1>1. w.at \in Addresses /\ w.at # Elsewhere /\ w.launch \in Nat
  BY AddressIsKnown DEF RequestsInv
<1>2. IsPageRequest(r) /\ r.host = w.at /\ r.origin = w.at /\ r \in PageRequests
  BY RequestOfPage DEF Methods, RequestOf, IsPageRequest
<1>3. \/ req = r \/ req = [r EXCEPT !.verb = "GET"] \/ req = [r EXCEPT !.host = Elsewhere]
      \/ req = [r EXCEPT !.origin = Elsewhere] \/ req = [r EXCEPT !.origin = NoOrigin]
      \/ req = [r EXCEPT !.size = "large"] \/ req = [r EXCEPT !.body = "no json"]
      \/ req = [r EXCEPT !.body = "no method"] \/ req = [r EXCEPT !.method = "no such"]
      \/ req = [r EXCEPT !.params = "bad"]
  BY DEF Variants
<1> HIDE DEF r
<1>4. CASE req = [r EXCEPT !.host = Elsewhere]
  BY <1>1, <1>2, <1>4 DEF IsPageRequest, PageRequests
<1>5. CASE req = [r EXCEPT !.origin = Elsewhere] \/ req = [r EXCEPT !.origin = NoOrigin]
  BY <1>1, <1>2, <1>5 DEF IsPageRequest, PageRequests
<1>6. CASE \/ req = [r EXCEPT !.verb = "GET"] \/ req = [r EXCEPT !.size = "large"]
           \/ req = [r EXCEPT !.body = "no json"]
           \/ req = [r EXCEPT !.body = "no method"]
  BY <1>1, <1>2, <1>6 DEF IsPageRequest, PageRequests
<1>7. CASE \/ req = [r EXCEPT !.method = "no such"]
           \/ req = [r EXCEPT !.params = "bad"]
  BY <1>1, <1>2, <1>7 DEF IsPageRequest, PageRequests
<1> QED
  BY <1>2, <1>3, <1>4, <1>5, <1>6, <1>7

\* The origin check refuses exactly the pages that are elsewhere.
LEMMA OriginIsChecked ==
    ASSUME RequestsInv, NEW r, IsPageRequest(r)
    PROVE  ValidateOrigin(r.host, r.origin) <=> r.host # Elsewhere /\ r.origin # Elsewhere
<1> USE DEF RequestsInv
<1>1. CASE r.host # Elsewhere /\ r.origin # Elsewhere
  <2>1. r.host \in Addresses /\ (r.origin = NoOrigin \/ r.origin = r.host)
    BY <1>1 DEF IsPageRequest, PageRequests
  <2> QED
    BY <1>1, <2>1, AddressIsKnown DEF ValidateOrigin
<1>2. CASE r.host = Elsewhere
  <2>1. r.origin \in Addresses /\ r.origin # Elsewhere
    BY <1>2, AddressIsKnown DEF IsPageRequest
  <2>2. CASE IsWildcardHost(bindHost)
    <3>1. r.origin # NoOrigin
      BY <2>1, <2>2 DEF Addresses, OtherNames, NoOrigin, DeriveOpenUrl, BracketIfIpv6, BrowserUrl, IsWildcardHost
    <3> QED
      BY <1>2, <2>1, <2>2, <3>1 DEF ValidateOrigin
  <2>3. CASE ~IsWildcardHost(bindHost)
    BY <1>2, <2>3, RequestsAssumption DEF ValidateOrigin, Elsewhere, BracketIfIpv6
  <2> QED
    BY <2>2, <2>3
<1>3. CASE r.host # Elsewhere /\ r.origin = Elsewhere
  <2>1. r.origin # NoOrigin
    BY <1>3 DEF Elsewhere, NoOrigin
  <2> QED
    BY <1>3, <2>1, RequestsAssumption DEF ValidateOrigin, Elsewhere, BracketIfIpv6
<1> QED
  BY <1>1, <1>2, <1>3

\* The Core's answer is the one owed: the checks come in the order the code has
\* them.
LEMMA AnswerStep ==
    ASSUME RequestsInv, NEW outcome \in {"ok", "internal_error"}, FetchAnswers(outcome),
           NEW r, onItsWay = r
    PROVE  AnswerIsRight'
<1> DEFINE rpc  == r.path = "/rpc"
           runs == Refusal(r) = "none" /\ (rpc => Runs(r))
           code == IF Refusal(r) # "none" THEN Refusal(r) ELSE IF rpc THEN Dispatch(r, outcome) ELSE outcome
<1>1. /\ answered' = [req |-> r, ran |-> runs, launch |-> launches, code |-> code]
      /\ UNCHANGED configVars
  BY DEF FetchAnswers
<1>2. IsPageRequest(r)
  BY DEF RequestsInv, FetchAnswers
<1>3. ValidateOrigin(r.host, r.origin) <=> r.host # Elsewhere /\ r.origin # Elsewhere
  BY <1>2, OriginIsChecked
<1>4. Amiss(r)' <=> Amiss(r)
  BY <1>1 DEF Amiss, Elsewhere, configVars
<1>5. CASE Amiss(r)
  <2>1. CASE Refusal(r) # "none"
    <3>1. Refusal(r) \notin {"ok", "internal_error"}
      BY DEF Refusal
    <3> QED
      BY <1>1, <1>4, <1>5, <2>1, <3>1 DEF AnswerIsRight
  <2>2. CASE Refusal(r) = "none"
    <3>1. r.path = "/rpc" /\ \/ r.body = "no method" \/ r.method = "no such"
                             \/ r.params = "bad" /\ r.method \in {"livereport.publish", "any other"}
      BY <1>3, <1>5, <2>2 DEF Amiss, Refusal, OverBodyLimit
    <3>2. \A o \in {"ok", "internal_error"} : Dispatch(r, o) \in {"bad_request", "unknown_method"}
      BY <3>1 DEF Dispatch, Methods
    <3>3. ~runs /\ code \notin {"ok", "internal_error"}
      BY <2>2, <3>1, <3>2 DEF Runs
    <3> QED
      BY <1>1, <1>4, <1>5, <3>3 DEF AnswerIsRight
  <2> QED
    BY <2>1, <2>2
<1>6. CASE ~Amiss(r)
  <2>1. Refusal(r) = IF r.token = launches THEN "none" ELSE "unauthorized"
    BY <1>3, <1>6 DEF Refusal, Amiss, OverBodyLimit, ValidateToken
  <2>2. rpc => \A o \in {"ok", "internal_error"} : Dispatch(r, o) = o
    BY <1>2, <1>6 DEF Dispatch, Amiss, IsPageRequest, PageRequests
  <2>3. r.token = launches => runs /\ code = outcome
    BY <2>1, <2>2 DEF Runs
  <2>4. r.token # launches => ~runs /\ code = "unauthorized"
    BY <2>1
  <2> QED
    BY <1>1, <1>4, <1>6, <2>3, <2>4 DEF AnswerIsRight
<1> QED
  BY <1>5, <1>6

\* What a step changes that leaves the answer alone.
LEMMA AnswerKept ==
    ASSUME AnswerIsRight, UNCHANGED <<bindHost, boundPort, answered>>
    PROVE  AnswerIsRight'
  BY DEF AnswerIsRight, Amiss, Elsewhere

\* An unanswered request is owed nothing.
LEMMA NotAnsweredIsRight ==
    ASSUME NEW req, answered' = [NotAnswered EXCEPT !.req = req] \/ answered' = NotAnswered
    PROVE  AnswerIsRight'
  BY DEF AnswerIsRight, NotAnswered

\* Every step keeps the invariant.
LEMMA RequestsStep ==
    ASSUME RequestsInv, [RequestsNext]_requestVars
    PROVE  RequestsInv'
<1> USE RequestsAssumption DEF RequestsInv
<1>0. bindHost' = bindHost /\ boundPort' = boundPort
  BY DEF RequestsNext, requestVars, configVars, StartServer, StopCore, OpenPage, SendRequest, FetchAnswers
<1>1. /\ Addresses' = Addresses
      /\ \A r : IsPageRequest(r)' <=> IsPageRequest(r)
  <2>1. Addresses' = Addresses /\ Elsewhere' = Elsewhere
    BY <1>0 DEF Addresses, Elsewhere
  <2>2. PageRequests' = PageRequests
    BY <2>1 DEF PageRequests
  <2> QED
    BY <2>1, <2>2, Zenon DEF IsPageRequest
<1>2. CASE UNCHANGED requestVars
  BY <1>0, <1>1, <1>2, AnswerKept DEF requestVars
<1>3. CASE StartServer
  BY <1>0, <1>1, <1>3, AnswerKept DEF StartServer
<1>4. CASE StopCore
  <2>1. AnswerIsRight'
    BY <1>0, <1>4, AnswerKept, NotAnsweredIsRight DEF StopCore
  <2> QED
    BY <1>0, <1>1, <1>4, <2>1 DEF StopCore
<1>5. ASSUME NEW at \in Addresses, NEW kind \in {"app", "live"}, OpenPage(at, kind) PROVE RequestsInv'
  <2> DEFINE sandbox == DeriveOpenUrl(SandboxBindHost(bindHost), boundPort + 1)
             w       == [launch |-> launches, kind |-> kind, at |-> at, sandbox |-> sandbox]
  <2>1. IsUrl(sandbox) /\ sandbox.host.name \in Loopback
    BY DerivedIsUrl, SandboxIsLoopback
  <2>2. pages' = pages \cup {w}
    BY <1>5 DEF OpenPage
  <2> HIDE DEF sandbox
  <2>3. \A v \in pages' : v.at \in Addresses /\ v.launch \in Nat /\ IsUrl(v.sandbox) /\ v.sandbox.host.name \in Loopback
    BY <2>1, <2>2
  <2> QED
    BY <1>0, <1>1, <1>5, <2>3, AnswerKept DEF OpenPage
<1>6. ASSUME NEW req, IsPageRequest(req), SendRequest(req) PROVE RequestsInv'
  <2>1. AnswerIsRight'
    BY <1>6, NotAnsweredIsRight DEF SendRequest
  <2> QED
    BY <1>0, <1>1, <1>6, <2>1 DEF SendRequest
<1>7. ASSUME NEW outcome \in {"ok", "internal_error"}, FetchAnswers(outcome) PROVE RequestsInv'
  <2>1. AnswerIsRight'
    BY <1>7, AnswerStep
  <2> QED
    BY <1>0, <1>1, <1>7, <2>1 DEF FetchAnswers
<1> QED
  BY <1>2, <1>3, <1>4, <1>5, <1>6, <1>7, RequestOfPage, VariantOfPage DEF RequestsNext

\* A page of this launch is served whatever it asks for at any address it may
\* have been opened at, and one that is amiss or of an earlier launch is
\* refused without anything being run.
THEOREM PagesHold == RequestsSpec => []PagesAreServed
<1>1. RequestsInit => RequestsInv
  BY RequestsAssumption DEF RequestsInit, RequestsInv, AnswerIsRight, NotAnswered
<1>2. RequestsInv /\ [RequestsNext]_requestVars => RequestsInv'
  BY RequestsStep
<1>3. RequestsInv => PagesAreServed
  BY DerivedIsUrl DEF RequestsInv, AnswerIsRight, PagesAreServed
<1> QED
  BY <1>1, <1>2, <1>3, PTL DEF RequestsSpec

-----------------------------------------------------------------------------
(* WorkspaceFile: the file of the Workspace across launches.                *)

\* What the variables hold.
Snapshots == [mark : Nat, provider : ChatProviders \cup {"none"}]

PageStates == [stage : {"closed", "shown"}, saving : BOOLEAN, shows : Snapshots,
               persisted : Snapshots, seen : SUBSET Nat]

Launches == [mode : {"down", "persistent", "ephemeral"}, opened : BOOLEAN]

StateFiles == [form : {"absent", "good", "unusable", "newer"}, mark : Nat,
               provider : ChatProviders \cup {"none"}]

\* The types of the variables.
FileTypeOK ==
    /\ stateFile \in StateFiles /\ launch \in Launches
    /\ temporary \in Snapshots /\ pageState \in PageStates
    /\ newerBackup \in Nat /\ newest \in Nat /\ marks \in Nat
    /\ excused \in BOOLEAN /\ blind \in BOOLEAN /\ acked \subseteq Nat

\* A page that saves to the file.
PageMaySave == pageState.saving /\ launch.mode = "persistent"

\* No page without a Core, no save begun but by a page that saves.
PageLivesInCore ==
    /\ launch.mode = "down" => launch = NoLaunch /\ pageState.stage = "closed"
    /\ pageState.stage = "closed" => ~pageState.saving
    /\ temporary # None => PageMaySave

\* What is acknowledged is in the file; a newer build's Workspace is in the
\* file or in its backup.
NothingLostYet ==
    /\ \A m \in acked : stateFile.form = "good" /\ stateFile.mark = m
    /\ ~blind
    /\ stateFile.form = "newer" => stateFile.mark = newest
    /\ newest # 0 /\ ~excused => stateFile.form = "newer" \/ newerBackup = newest

\* A page that saves has seen the Workspace it saves over.
SavingPageHasSeen ==
    PageMaySave =>
      /\ stateFile.form = "good" => stateFile.mark \in pageState.seen
      /\ stateFile.form = "newer" /\ ~excused => newerBackup = newest

\* The inductive invariant.
FileInv == FileTypeOK /\ PageLivesInCore /\ NothingLostYet /\ SavingPageHasSeen

\* The values the variables start from are of their types.
LEMMA ConstantsTyped ==
    /\ None \in Snapshots /\ Absent \in StateFiles /\ Absent.form = "absent"
    /\ NoPage \in PageStates /\ NoPage.stage = "closed" /\ ~NoPage.saving
    /\ NoLaunch \in Launches /\ NoLaunch.mode = "down"
<1>1. None \in Snapshots
  BY DEF None, Snapshots
<1> QED
  BY <1>1 DEF Absent, NoPage, NoLaunch, StateFiles, PageStates, Launches

\* No file, no page and no Core at first.
LEMMA FileInvInit == FileInit => FileInv
<1> SUFFICES ASSUME FileInit PROVE FileInv
  OBVIOUS
<1>1. FileTypeOK
  BY ConstantsTyped DEF FileInit, FileTypeOK
<1>2. PageLivesInCore /\ SavingPageHasSeen
  BY ConstantsTyped DEF FileInit, PageLivesInCore, SavingPageHasSeen, PageMaySave
<1>3. NothingLostYet
  BY ConstantsTyped DEF FileInit, NothingLostYet
<1> QED
  BY <1>1, <1>2, <1>3 DEF FileInv

\* Asking for the store does not change what the launch may write.
LEMMA ObtainKeepsMode ==
    ASSUME FileInv, launch # NoLaunch, NEW got \in BOOLEAN, Obtain(got) \/ UNCHANGED launch
    PROVE  launch' \in Launches /\ launch'.mode = launch.mode /\ launch.mode # "down"
  BY DEF FileInv, FileTypeOK, PageLivesInCore, Obtain, Launches

\* A page that is shown a Workspace saves from then on.
LEMMA RestoredPage ==
    ASSUME NEW s \in Snapshots, NEW seen \in SUBSET Nat
    PROVE  /\ Restored(s, seen) \in PageStates
           /\ Restored(s, seen).stage = "shown" /\ Restored(s, seen).saving
           /\ Restored(s, seen).seen = seen
  BY DEF Restored, PageStates

\* A page loads: from the file, past it, or in vain.
LEMMA LoadStep ==
    ASSUME FileInv, LoadFailed \/ LoadSnapshot \/ LoadNothing \/ ReadFails
    PROVE  FileInv'
<1> USE ConstantsTyped DEF FileInv, FileTypeOK, PageLivesInCore, NothingLostYet, SavingPageHasSeen, PageMaySave
<1>1. CASE LoadFailed
  <2>1. launch' \in Launches /\ launch'.mode = launch.mode /\ launch.mode # "down"
    BY <1>1, ObtainKeepsMode DEF LoadFailed
  <2>2. pageState' \in PageStates /\ pageState'.stage = "shown" /\ ~pageState'.saving
    BY <1>1 DEF LoadFailed, PageStates
  <2> QED
    BY <1>1, <2>1, <2>2 DEF LoadFailed
<1>2. CASE LoadSnapshot
  <2>1. launch' \in Launches /\ launch'.mode = launch.mode /\ launch.mode # "down"
    BY <1>2, ObtainKeepsMode DEF LoadSnapshot
  <2>2. [mark |-> stateFile.mark, provider |-> stateFile.provider] \in Snapshots
    BY DEF Snapshots, StateFiles
  <2>3. stateFile.mark \in Nat
    BY DEF StateFiles
  <2>4. /\ pageState' \in PageStates /\ pageState'.stage = "shown" /\ pageState'.saving
        /\ pageState'.seen = {stateFile.mark}
    BY <1>2, <2>2, <2>3, RestoredPage DEF LoadSnapshot
  <2> QED
    BY <1>2, <2>1, <2>3, <2>4 DEF LoadSnapshot
<1>3. CASE LoadNothing
  <2>1. launch' \in Launches /\ launch'.mode = launch.mode /\ launch.mode # "down"
    BY <1>3, ObtainKeepsMode DEF LoadNothing
  <2>2. /\ pageState' \in PageStates /\ pageState'.stage = "shown" /\ pageState'.saving
        /\ pageState'.seen = {}
    BY <1>3, RestoredPage DEF LoadNothing
  <2>3. stateFile.mark \in Nat
    BY DEF StateFiles
  <2>4. newerBackup' \in Nat /\ excused' \in BOOLEAN
    BY <1>3, <2>3 DEF LoadNothing
  <2>5. UNCHANGED <<stateFile, temporary, marks, newest, acked, blind>>
    BY <1>3 DEF LoadNothing
  <2>6. /\ excused' \/ excused' = excused
        /\ newerBackup' = newerBackup \/ newerBackup' = newest
        /\ stateFile.form = "newer" /\ launch.mode = "persistent" /\ ~excused' => newerBackup' = newest
        /\ launch.mode = "persistent" => stateFile.form # "good"
    BY <1>3 DEF LoadNothing
  <2>7. temporary = None
    BY <1>3 DEF LoadNothing
  <2> QED
    BY <2>1, <2>2, <2>4, <2>5, <2>6, <2>7
<1>4. CASE ReadFails
  <2>1. launch' \in Launches /\ launch'.mode = launch.mode /\ launch.mode # "down"
    BY <1>4, ObtainKeepsMode DEF ReadFails
  <2>2. stateFile.mark \in Nat
    BY DEF StateFiles
  <2>3. /\ pageState' \in PageStates /\ pageState'.stage = "shown" /\ pageState'.saving
        /\ pageState'.seen = {stateFile.mark}
    BY <1>4, <2>2, RestoredPage DEF ReadFails
  <2> QED
    BY <1>4, <2>1, <2>2, <2>3 DEF ReadFails
<1> QED
  BY <1>1, <1>2, <1>3, <1>4

\* A save begins, replaces the file, fails or has no file.
LEMMA SaveStep ==
    ASSUME FileInv, SaveBegins \/ SaveRenames \/ SaveFails \/ SaveNowhere
    PROVE  FileInv'
<1> USE ConstantsTyped DEF FileInv, FileTypeOK, PageLivesInCore, NothingLostYet, SavingPageHasSeen, PageMaySave
<1>1. CASE SaveBegins
  <2>1. launch' \in Launches /\ launch'.mode = launch.mode /\ launch.mode # "down"
    BY <1>1, ObtainKeepsMode DEF SaveBegins
  <2>2. pageState.shows \in Snapshots
    BY DEF PageStates
  <2> QED
    BY <1>1, <2>1, <2>2 DEF SaveBegins
<1>2. CASE SaveRenames
  <2>1. stateFile' \in StateFiles /\ stateFile'.form = "good" /\ stateFile'.mark = temporary.mark
        /\ temporary.mark \in Nat
    BY <1>2 DEF SaveRenames, Validated, StateFiles, Snapshots
  <2> DEFINE seen == pageState.seen \cup {temporary.mark}
  <2>0. seen \in SUBSET Nat
    BY <2>1 DEF PageStates
  <2>2. /\ pageState' \in PageStates /\ pageState'.stage = pageState.stage
        /\ pageState'.saving = pageState.saving /\ temporary.mark \in pageState'.seen
    <3>1. temporary.mark \in seen
      OBVIOUS
    <3>2. \/ pageState' = [pageState EXCEPT !.persisted = temporary, !.seen = seen]
          \/ pageState' = [pageState EXCEPT !.seen = seen]
      BY <1>2 DEF SaveRenames
    <3> HIDE DEF seen
    <3> QED
      BY <2>0, <3>1, <3>2 DEF PageStates
  <2>3. ~blind'
    BY <1>2 DEF SaveRenames
  <2>4. acked' \subseteq {temporary.mark} /\ temporary' = None /\ UNCHANGED <<newerBackup, launch, marks, newest, excused>>
    BY <1>2 DEF SaveRenames
  <2>5. newest # 0 /\ ~excused => newerBackup = newest
    BY <1>2 DEF SaveRenames
  <2>6. acked' \subseteq Nat
    BY <2>1, <2>4
  <2>8. blind' \in BOOLEAN
    BY <1>2, Zenon DEF SaveRenames
  <2>7. NothingLostYet'
    BY <2>1, <2>3, <2>4, <2>5
  <2> QED
    BY <2>1, <2>2, <2>4, <2>6, <2>7, <2>8
<1>3. CASE SaveFails
  BY <1>3 DEF SaveFails
<1>4. CASE SaveNowhere
  <2>1. launch' \in Launches /\ launch'.mode = launch.mode /\ launch.mode # "down"
    BY <1>4, ObtainKeepsMode DEF SaveNowhere
  <2>2. /\ pageState' \in PageStates /\ pageState'.stage = pageState.stage
        /\ pageState'.saving = pageState.saving
    BY <1>4 DEF SaveNowhere, PageStates
  <2> QED
    BY <1>4, <2>1, <2>2 DEF SaveNowhere
<1> QED
  BY <1>1, <1>2, <1>3, <1>4

\* Every step keeps the invariant.
LEMMA FileStep ==
    ASSUME FileInv, [FileNext]_fileVars
    PROVE  FileInv'
<1> USE ConstantsTyped DEF FileInv, FileTypeOK, PageLivesInCore, NothingLostYet, SavingPageHasSeen, PageMaySave
<1>1. CASE UNCHANGED fileVars
  BY <1>1 DEF fileVars
<1>2. ASSUME NEW mode \in {"persistent", "ephemeral"}, Launch(mode) PROVE FileInv'
  BY <1>2 DEF Launch, NoLaunch, Launches
<1>3. CASE CoreEnds
  BY <1>3 DEF CoreEnds
<1>4. CASE ClosePage
  BY <1>4 DEF ClosePage
<1>5. CASE Rearrange
  <2>1. /\ pageState' \in PageStates /\ pageState'.stage = pageState.stage
        /\ pageState'.saving = pageState.saving /\ pageState'.seen = pageState.seen
    BY <1>5 DEF Rearrange, PageStates, Snapshots
  <2> QED
    BY <1>5, <2>1 DEF Rearrange
<1>6. ASSUME NEW p \in ChatProviders, PickProvider(p) PROVE FileInv'
  <2>1. /\ pageState' \in PageStates /\ pageState'.stage = pageState.stage
        /\ pageState'.saving = pageState.saving /\ pageState'.seen = pageState.seen
    BY <1>6 DEF PickProvider, PageStates, Snapshots
  <2> QED
    BY <1>6, <2>1 DEF PickProvider
<1>7. CASE NewerBuildSaves
  <2>1. stateFile' \in StateFiles /\ stateFile'.form = "newer" /\ stateFile'.mark = newest'
    BY <1>7 DEF NewerBuildSaves, StateFiles
  <2>2. newest' \in Nat /\ marks' \in Nat /\ acked' = {}
    BY <1>7 DEF NewerBuildSaves
  <2>4. excused' \in BOOLEAN
    BY <1>7, Zenon DEF NewerBuildSaves
  <2>3. ~pageState.saving /\ UNCHANGED <<newerBackup, launch, temporary, pageState, blind>>
    BY <1>7 DEF NewerBuildSaves
  <2> QED
    BY <2>1, <2>2, <2>3, <2>4
<1>8. CASE HandEdit
  BY <1>8 DEF HandEdit, StateFiles
<1> QED
  BY <1>1, <1>2, <1>3, <1>4, <1>5, <1>6, <1>7, <1>8, LoadStep, SaveStep DEF FileNext

\* What was saved last is in the file or in the backup, and no page saves over
\* a Workspace it has not seen, across launches, builds and hand edits.
THEOREM WorkspaceHolds == FileSpec => []WorkspaceSurvives
<1>1. FileInit => FileInv
  BY FileInvInit
<1>2. FileInv /\ [FileNext]_fileVars => FileInv'
  BY FileStep
<1>3. FileInv => WorkspaceSurvives
  BY DEF FileInv, NothingLostYet, WorkspaceSurvives, FileTypeOK
<1> QED
  BY <1>1, <1>2, <1>3, PTL DEF FileSpec

=============================================================================
