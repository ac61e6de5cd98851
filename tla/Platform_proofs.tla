--------------------------- MODULE Platform_proofs ---------------------------
(***************************************************************************)
(* The two parts of the demo that its targets bring with them.             *)
(*                                                                         *)
(* What the file operations of the OTA library promise whatever fails and  *)
(* whenever the program ends: an image that is closed was verified, the    *)
(* state file never says what was not set, and the memory that is lost is  *)
(* bounded by the jobs; for every size of the image and any number of      *)
(* jobs, resets and failing calls.                                         *)
(*                                                                         *)
(* And what the logging promises on either target, for any number of logs  *)
(* and any size of the stream buffer: the two texts of a log are printed   *)
(* together.                                                               *)
(***************************************************************************)
EXTENDS OtaPal, Program, SequenceTheorems, TLAPS

----------------------------------------------------------------------------
(* The file operations: the invariant.                                     *)

\* The file is open only while a job is received, and there is room in heap
\* for what its signature check may lose.
JobTypes ==
    /\ library \in {"start", "selfTest", "idle", "receiving", "failed", "close", "closed",
                    "activate", "reset"}
    /\ pFile \in BOOLEAN /\ pSignature \in BOOLEAN
    /\ pFile => library \in {"receiving", "failed", "close"}
    /\ image \in [Blocks -> {"missing", "good", "damaged"}]
    /\ mainErr \in Errors

Counters ==
    /\ jobs \in Nat /\ jobs <= MaxJobs
    /\ resets \in Nat /\ resets <= MaxResets
    /\ heap \in Nat /\ heap <= 2 * jobs
    /\ library \in {"receiving", "close"} => heap + 2 <= 2 * jobs

\* A state is written only between two steps of the library, by one caller.
SettingPlaces ==
    /\ setting \in [state : ImageStates \cup {NULL}, step : {"none", "open", "write", "close"},
                    written : BOOLEAN]
    /\ setting.step = "none" => setting = Idle
    /\ setting.step # "none" => setting.state \in ImageStates
    /\ setting.step \in {"open", "write"} => ~setting.written
    /\ setting.step # "none" => library \in {"idle", "activate", "reset"}

\* The state file holds the last state that was set, or nothing when the
\* writing of it was cut short or failed; it is absent when none was ever set.
FileFollows ==
    /\ palState \in PalStates \cup {NULL}
    /\ hidden \in BOOLEAN
    /\ wanted \in ImageStates \cup {NULL}
    /\ wanted = NULL => stateFile = "absent"
    /\ wanted # NULL => stateFile \in {wanted, "empty"}
    /\ setting.step \in {"write", "close"} => wanted = setting.state

ClosedImage ==
    /\ unread \in BOOLEAN
    /\ ClosedIsVerified

PalInv == JobTypes /\ Counters /\ SettingPlaces /\ FileFollows /\ ClosedImage

----------------------------------------------------------------------------
(* The signature check.                                                    *)

\* Reading the certificate loses at most its memory, and only when there is
\* no certificate then.
LEMMA CertificateLoses ==
    ASSUME NEW failing
    PROVE  /\ otaPal_ReadAndAssumeCertificate(failing).cert \in BOOLEAN
           /\ otaPal_ReadAndAssumeCertificate(failing).lost \in {0, 1}
  BY DEF otaPal_ReadAndAssumeCertificate

\* The pages of the file are the ones that were signed only if every block of
\* it is undamaged.
LEMMA SignedPages ==
    ASSUME prvVerifySignature(Pages)
    PROVE  \A b \in Blocks : image[b] = "good"
<1> SUFFICES ASSUME NEW b \in Blocks PROVE image[b] = "good"
  OBVIOUS
<1>1. <<b, image[b]>> \in {<<c, "good">> : c \in Blocks}
  BY DEF prvVerifySignature, Pages
<1> QED
  BY <1>1

\* The check loses at most a context and the memory of a certificate, and
\* finds no error only if the file is undamaged or could not be rewound.
LEMMA CheckResult ==
    ASSUME NEW failing
    PROVE  LET check == otaPal_CheckFileSignature(failing)
           IN  /\ check.lost \in 0 .. 2
               /\ check.error \in Errors
               /\ check.error = "OtaPalSuccess" /\ "seek" \notin failing
                     => \A b \in Blocks : image[b] = "good"
<1> DEFINE signer == otaPal_ReadAndAssumeCertificate(failing)
           check == otaPal_CheckFileSignature(failing)
<1>1. CRYPTO_SignatureVerificationUpdate(CRYPTO_SignatureVerificationStart, Pages) = Pages
  BY DEF CRYPTO_SignatureVerificationUpdate, CRYPTO_SignatureVerificationStart
<1>2. signer.cert \in BOOLEAN /\ signer.lost \in {0, 1}
  BY CertificateLoses
<1>3. \/ check = [error |-> "OtaPalSignatureCheckFailed", lost |-> 0]
      \/ check = [error |-> "OtaPalBadSignerCert", lost |-> 1 + signer.lost]
      \/ check = [error |-> "OtaPalOutOfMemory", lost |-> 1 + signer.lost]
      \/ check = [error |-> "OtaPalSuccess", lost |-> 1 + signer.lost] /\ "seek" \in failing
      \/ check = [error |-> "OtaPalSuccess", lost |-> 0 + signer.lost] /\ prvVerifySignature(Pages)
      \/ check = [error |-> "OtaPalSignatureCheckFailed", lost |-> 0 + signer.lost]
  BY <1>1 DEF otaPal_CheckFileSignature, CRYPTO_SignatureVerificationFinal
<1> HIDE DEF signer, check
<1>4. check.lost \in 0 .. 2 /\ check.error \in Errors
  BY <1>2, <1>3 DEF Errors
<1>5. check.error = "OtaPalSuccess" /\ "seek" \notin failing => \A b \in Blocks : image[b] = "good"
  BY <1>3, SignedPages
<1> QED
  BY <1>4, <1>5 DEF check

----------------------------------------------------------------------------
(* The invariant.                                                          *)

\* The invariant holds before the library starts.
LEMMA PalInvInit == Init => PalInv
<1> SUFFICES ASSUME Init PROVE PalInv
  OBVIOUS
<1>1. JobTypes
  BY DEF Init, JobTypes, Errors
<1>5. Counters
  BY OtaPalAssumption DEF Init, Counters
<1>2. SettingPlaces
  BY DEF Init, SettingPlaces, Idle
<1>3. FileFollows
  BY DEF Init, FileFollows, Idle
<1>4. ClosedImage
  BY DEF Init, ClosedImage, ClosedIsVerified
<1> QED
  BY <1>1, <1>2, <1>3, <1>4, <1>5 DEF PalInv

\* Each action keeps the invariant.  In each proof the first step says what the
\* action changes; then one step follows for each part of the invariant.
LEMMA otaPal_GetPlatformImageStateKeeps ==
    ASSUME PalInv, otaPal_GetPlatformImageState
    PROVE  PalInv'
<1>1. /\ library = "start"
      /\ library' \in {"selfTest", "idle"}
      /\ palState' \in PalStates
      /\ hidden' \in BOOLEAN
      /\ UNCHANGED <<pFile, image, pSignature, mainErr, stateFile, setting, heap, jobs, resets,
                     unread, wanted>>
  BY DEF otaPal_GetPlatformImageState, fileVars, stateVars, PalStateOf, PalStates
<1>2. JobTypes'
  BY <1>1 DEF PalInv, JobTypes
<1>3. Counters'
  BY <1>1 DEF PalInv, Counters
<1>4. SettingPlaces'
  BY <1>1 DEF PalInv, SettingPlaces
<1>5. FileFollows'
  BY <1>1 DEF PalInv, FileFollows
<1>6. ClosedImage'
  BY <1>1 DEF PalInv, ClosedImage, ClosedIsVerified
<1> QED
  BY <1>2, <1>3, <1>4, <1>5, <1>6 DEF PalInv

LEMMA OpenStateFileKeeps ==
    ASSUME PalInv, OpenStateFile
    PROVE  PalInv'
<1>1. /\ setting.step = "open"
      /\ \/ /\ stateFile' = "empty" /\ wanted' = setting.state /\ mainErr' = mainErr
            /\ setting' = [setting EXCEPT !.step = "write"]
         \/ /\ stateFile' = stateFile /\ wanted' = wanted /\ setting' = Idle
            /\ mainErr' = "OtaPalBadImageState"
      /\ UNCHANGED <<library, pFile, image, pSignature, palState, heap, jobs, resets, hidden,
                     unread>>
  BY DEF OpenStateFile, fileVars, stateVars, histVars
<1>2. JobTypes'
  BY <1>1 DEF PalInv, JobTypes, Errors
<1>3. Counters'
  BY <1>1 DEF PalInv, Counters
<1>4. SettingPlaces'
  <2>1. CASE setting' = [setting EXCEPT !.step = "write"]
    <3>1. /\ setting'.state = setting.state /\ setting'.step = "write" /\ setting'.written = setting.written
          /\ setting' \in [state : ImageStates \cup {NULL}, step : {"none", "open", "write", "close"}, written : BOOLEAN]
      BY <2>1 DEF PalInv, SettingPlaces
    <3> QED
      BY <1>1, <3>1 DEF PalInv, SettingPlaces
  <2>2. CASE setting' = Idle
    BY <2>2 DEF SettingPlaces, Idle
  <2> QED
    BY <1>1, <2>1, <2>2
<1>5. FileFollows'
  BY <1>1, OtaPalAssumption DEF PalInv, FileFollows, SettingPlaces, Idle
<1>6. ClosedImage'
  BY <1>1 DEF PalInv, ClosedImage, ClosedIsVerified
<1> QED
  BY <1>2, <1>3, <1>4, <1>5, <1>6 DEF PalInv

LEMMA WriteStateFileKeeps ==
    ASSUME PalInv, WriteStateFile
    PROVE  PalInv'
<1>1. /\ setting.step = "write"
      /\ stateFile' \in {setting.state, "empty", stateFile}
      /\ mainErr' \in {mainErr, "OtaPalBadImageState"}
      /\ \/ setting' = [setting EXCEPT !.step = "close", !.written = TRUE]
         \/ setting' = [setting EXCEPT !.step = "close"]
      /\ UNCHANGED <<library, pFile, image, pSignature, palState, heap, jobs, resets, hidden,
                     unread, wanted>>
  BY DEF WriteStateFile, fileVars, histVars
<1>2. JobTypes'
  BY <1>1 DEF PalInv, JobTypes, Errors
<1>3. Counters'
  BY <1>1 DEF PalInv, Counters
<1>4. SettingPlaces'
  <2>1. /\ setting'.state = setting.state /\ setting'.step = "close"
        /\ setting' \in [state : ImageStates \cup {NULL}, step : {"none", "open", "write", "close"}, written : BOOLEAN]
    BY <1>1 DEF PalInv, SettingPlaces
  <2> QED
    BY <1>1 DEF PalInv, SettingPlaces
<1>5. FileFollows'
  BY <1>1, OtaPalAssumption DEF PalInv, FileFollows, SettingPlaces
<1>6. ClosedImage'
  BY <1>1 DEF PalInv, ClosedImage, ClosedIsVerified
<1> QED
  BY <1>2, <1>3, <1>4, <1>5, <1>6 DEF PalInv

LEMMA CloseStateFileKeeps ==
    ASSUME PalInv, CloseStateFile
    PROVE  PalInv'
<1>1. /\ setting.step = "close"
      /\ stateFile' \in {setting.state, stateFile}
      /\ mainErr' \in {mainErr, "OtaPalBadImageState"}
      /\ setting' = Idle
      /\ UNCHANGED <<library, pFile, image, pSignature, palState, heap, jobs, resets, hidden,
                     unread, wanted>>
  BY DEF CloseStateFile, fileVars, histVars
<1>2. JobTypes'
  BY <1>1 DEF PalInv, JobTypes, Errors
<1>3. Counters'
  BY <1>1 DEF PalInv, Counters
<1>4. SettingPlaces'
  BY <1>1 DEF SettingPlaces, Idle
<1>5. FileFollows'
  BY <1>1, OtaPalAssumption DEF PalInv, FileFollows, SettingPlaces, Idle
<1>6. ClosedImage'
  BY <1>1 DEF PalInv, ClosedImage, ClosedIsVerified
<1> QED
  BY <1>2, <1>3, <1>4, <1>5, <1>6 DEF PalInv

LEMMA otaPal_CreateFileForRxKeeps ==
    ASSUME PalInv, otaPal_CreateFileForRx
    PROVE  PalInv'
<1>1. /\ library = "idle"
      /\ jobs < MaxJobs
      /\ setting = Idle
      /\ jobs' = jobs + 1
      /\ pSignature' \in BOOLEAN
      /\ \/ pFile' = TRUE /\ library' = "receiving"
         \/ pFile' = pFile /\ library' = "failed"
      /\ image' \in [Blocks -> {"missing", "good", "damaged"}]
      /\ mainErr' \in Errors
      /\ UNCHANGED <<stateFile, setting, palState, heap, resets, hidden, unread, wanted>>
  BY DEF otaPal_CreateFileForRx, stateVars, histVars, PalInv, JobTypes, Errors
<1>2. JobTypes'
  BY <1>1 DEF PalInv, JobTypes
<1>3. Counters'
  BY <1>1, OtaPalAssumption DEF PalInv, Counters
<1>4. SettingPlaces'
  BY <1>1 DEF SettingPlaces, Idle
<1>5. FileFollows'
  BY <1>1 DEF PalInv, FileFollows
<1>6. ClosedImage'
  BY <1>1 DEF PalInv, ClosedImage, ClosedIsVerified
<1> QED
  BY <1>2, <1>3, <1>4, <1>5, <1>6 DEF PalInv

LEMMA otaPal_WriteBlockKeeps ==
    ASSUME PalInv, otaPal_WriteBlock
    PROVE  PalInv'
<1>1. /\ library = "receiving"
      /\ library' \in {"receiving", "failed"}
      /\ image' \in [Blocks -> {"missing", "good", "damaged"}]
      /\ UNCHANGED <<pFile, pSignature, mainErr, stateFile, setting, palState, heap, jobs, resets,
                     hidden, unread, wanted>>
  BY DEF otaPal_WriteBlock, stateVars, histVars, PalInv, JobTypes
<1>2. JobTypes'
  BY <1>1 DEF PalInv, JobTypes
<1>3. Counters'
  BY <1>1 DEF PalInv, Counters
<1>4. SettingPlaces'
  BY <1>1 DEF PalInv, SettingPlaces
<1>5. FileFollows'
  BY <1>1 DEF PalInv, FileFollows
<1>6. ClosedImage'
  BY <1>1 DEF PalInv, ClosedImage, ClosedIsVerified
<1> QED
  BY <1>2, <1>3, <1>4, <1>5, <1>6 DEF PalInv

LEMMA LastBlockKeeps ==
    ASSUME PalInv, LastBlock
    PROVE  PalInv'
<1>1. /\ library = "receiving"
      /\ library' = "close"
      /\ UNCHANGED <<pFile, image, pSignature, mainErr, stateFile, setting, palState, heap, jobs,
                     resets, hidden, unread, wanted>>
  BY DEF LastBlock, fileVars, stateVars, histVars
<1>2. JobTypes'
  BY <1>1 DEF PalInv, JobTypes
<1>3. Counters'
  BY <1>1 DEF PalInv, Counters
<1>4. SettingPlaces'
  BY <1>1 DEF PalInv, SettingPlaces
<1>5. FileFollows'
  BY <1>1 DEF PalInv, FileFollows
<1>6. ClosedImage'
  BY <1>1 DEF PalInv, ClosedImage, ClosedIsVerified
<1> QED
  BY <1>2, <1>3, <1>4, <1>5, <1>6 DEF PalInv

LEMMA otaPal_AbortKeeps ==
    ASSUME PalInv, otaPal_Abort
    PROVE  PalInv'
<1>1. /\ library \in {"receiving", "failed"}
      /\ setting = Idle
      /\ pFile' = FALSE
      /\ mainErr' \in Errors
      /\ setting' = [state |-> "aborted", step |-> "open", written |-> FALSE]
      /\ library' = "idle"
      /\ UNCHANGED <<image, pSignature, stateFile, palState, heap, jobs, resets, hidden, unread,
                     wanted>>
  BY DEF otaPal_Abort, stateVars, histVars, otaPal_SetPlatformImageState, Errors
<1>2. JobTypes'
  BY <1>1 DEF PalInv, JobTypes
<1>3. Counters'
  BY <1>1 DEF PalInv, Counters
<1>4. SettingPlaces'
  BY <1>1 DEF SettingPlaces, ImageStates
<1>5. FileFollows'
  BY <1>1 DEF PalInv, FileFollows
<1>6. ClosedImage'
  BY <1>1 DEF PalInv, ClosedImage, ClosedIsVerified
<1> QED
  BY <1>2, <1>3, <1>4, <1>5, <1>6 DEF PalInv

\* Closing the file frees its handle whatever the check of the signature finds,
\* and may lose what CheckResult allows.
LEMMA otaPal_CloseFileKeeps ==
    ASSUME PalInv, otaPal_CloseFile
    PROVE  PalInv'
<1> DEFINE Check(failing) == IF pSignature THEN otaPal_CheckFileSignature(failing)
                             ELSE [error |-> "OtaPalSignatureCheckFailed", lost |-> 0]
<1>a. PICK failing : /\ mainErr' = IF "close" \in failing THEN "OtaPalFileClose" ELSE Check(failing).error
                     /\ heap' = heap + Check(failing).lost
                     /\ unread' = (pSignature /\ "seek" \in failing)
  BY DEF otaPal_CloseFile
<1>b. Check(failing).lost \in 0 .. 2 /\ mainErr' \in Errors
  BY <1>a, CheckResult DEF Errors
<1>c. unread' \in BOOLEAN
  BY <1>a
<1>d. mainErr' = "OtaPalSuccess" /\ ~unread' => pSignature /\ \A b \in Blocks : image[b] = "good"
  <2>1. mainErr' = "OtaPalSuccess" => pSignature /\ otaPal_CheckFileSignature(failing).error = "OtaPalSuccess"
    BY <1>a
  <2>2. ~unread' => ~(pSignature /\ "seek" \in failing)
    BY <1>a
  <2> QED
    BY <2>1, <2>2, CheckResult
<1>e. heap' \in Nat /\ heap' <= heap + 2
  BY <1>a, <1>b DEF PalInv, Counters
<1> HIDE DEF Check
<1>1. /\ library = "close"
      /\ setting = Idle
      /\ pFile' = FALSE
      /\ mainErr' \in Errors
      /\ heap' \in Nat /\ heap' <= heap + 2
      /\ unread' \in BOOLEAN
      /\ \/ library' = "closed" /\ setting' = setting
         \/ library' = "idle" /\ setting' = [state |-> "aborted", step |-> "open", written |-> FALSE]
      /\ library' = "closed" /\ ~unread' => pSignature /\ \A b \in Blocks : image[b] = "good"
      /\ UNCHANGED <<image, pSignature, stateFile, palState, jobs, resets, hidden, wanted>>
  BY <1>b, <1>d, <1>e DEF otaPal_CloseFile, stateVars, otaPal_SetPlatformImageState
<1>g. /\ library = "close" /\ library' \in {"closed", "idle"}
      /\ heap' \in Nat /\ heap' <= heap + 2 /\ jobs' = jobs /\ resets' = resets
  BY <1>1
<1>h. 2 * jobs \in Nat /\ heap + 2 <= 2 * jobs
  BY <1>g DEF PalInv, Counters
<1>2. JobTypes'
  BY <1>1 DEF PalInv, JobTypes
<1>3. Counters'
  <2>1. heap' <= 2 * jobs'
    BY <1>g DEF PalInv, Counters
  <2>2. jobs' \in Nat /\ jobs' <= MaxJobs /\ resets' \in Nat /\ resets' <= MaxResets
    BY <1>g DEF PalInv, Counters
  <2>3. library' \notin {"receiving", "close"} /\ heap' \in Nat
    BY <1>g
  <2> QED
    BY <2>1, <2>2, <2>3 DEF Counters
<1>4. SettingPlaces'
  <2>1. CASE setting' = setting
    BY <1>1, <2>1 DEF SettingPlaces, Idle
  <2>2. CASE setting' = [state |-> "aborted", step |-> "open", written |-> FALSE]
    BY <1>1, <2>2 DEF SettingPlaces, Idle, ImageStates
  <2> QED
    BY <1>1, <2>1, <2>2
<1>5. FileFollows'
  BY <1>1 DEF PalInv, FileFollows
<1>6. ClosedImage'
  BY <1>1 DEF ClosedImage, ClosedIsVerified
<1> QED
  BY <1>2, <1>3, <1>4, <1>5, <1>6 DEF PalInv

LEMMA TestNewImageKeeps ==
    ASSUME PalInv, TestNewImage
    PROVE  PalInv'
<1>1. /\ library = "closed"
      /\ setting' = [state |-> "testing", step |-> "open", written |-> FALSE]
      /\ library' = "activate"
      /\ UNCHANGED <<pFile, image, pSignature, mainErr, stateFile, palState, heap, jobs, resets,
                     hidden, unread, wanted>>
  BY DEF TestNewImage, fileVars, stateVars, histVars, otaPal_SetPlatformImageState
<1>2. JobTypes'
  BY <1>1 DEF PalInv, JobTypes
<1>3. Counters'
  BY <1>1 DEF PalInv, Counters
<1>4. SettingPlaces'
  BY <1>1 DEF SettingPlaces, ImageStates
<1>5. FileFollows'
  BY <1>1 DEF PalInv, FileFollows
<1>6. ClosedImage'
  BY <1>1 DEF PalInv, ClosedImage, ClosedIsVerified
<1> QED
  BY <1>2, <1>3, <1>4, <1>5, <1>6 DEF PalInv

LEMMA otaPal_ActivateNewImageKeeps ==
    ASSUME PalInv, otaPal_ActivateNewImage
    PROVE  PalInv'
<1>1. /\ library = "activate"
      /\ setting = Idle
      /\ mainErr' = "OtaPalSuccess"
      /\ library' = "idle"
      /\ UNCHANGED <<pFile, image, pSignature, stateFile, setting, palState, heap, jobs, resets,
                     hidden, unread, wanted>>
  BY DEF otaPal_ActivateNewImage, fileVars, stateVars, histVars
<1>2. JobTypes'
  BY <1>1 DEF PalInv, JobTypes, Errors
<1>3. Counters'
  BY <1>1 DEF PalInv, Counters
<1>4. SettingPlaces'
  BY <1>1 DEF SettingPlaces, Idle
<1>5. FileFollows'
  BY <1>1 DEF PalInv, FileFollows
<1>6. ClosedImage'
  BY <1>1 DEF PalInv, ClosedImage, ClosedIsVerified
<1> QED
  BY <1>2, <1>3, <1>4, <1>5, <1>6 DEF PalInv

LEMMA SelfTestKeeps ==
    ASSUME PalInv, SelfTest
    PROVE  PalInv'
<1>1. /\ library = "selfTest"
      /\ \/ library' = "idle" /\ setting' = [state |-> "accepted", step |-> "open", written |-> FALSE]
         \/ library' = "reset" /\ setting' = [state |-> "rejected", step |-> "open", written |-> FALSE]
      /\ UNCHANGED <<pFile, image, pSignature, mainErr, stateFile, palState, heap, jobs, resets,
                     hidden, unread, wanted>>
  BY DEF SelfTest, fileVars, stateVars, histVars, otaPal_SetPlatformImageState
<1>2. JobTypes'
  BY <1>1 DEF PalInv, JobTypes
<1>3. Counters'
  BY <1>1 DEF PalInv, Counters
<1>4. SettingPlaces'
  <2>1. CASE library' = "idle" /\ setting' = [state |-> "accepted", step |-> "open", written |-> FALSE]
    BY <2>1 DEF SettingPlaces, ImageStates
  <2>2. CASE library' = "reset" /\ setting' = [state |-> "rejected", step |-> "open", written |-> FALSE]
    BY <2>2 DEF SettingPlaces, ImageStates
  <2> QED
    BY <1>1, <2>1, <2>2
<1>5. FileFollows'
  BY <1>1 DEF PalInv, FileFollows
<1>6. ClosedImage'
  BY <1>1 DEF PalInv, ClosedImage, ClosedIsVerified
<1> QED
  BY <1>2, <1>3, <1>4, <1>5, <1>6 DEF PalInv

LEMMA otaPal_ResetDeviceKeeps ==
    ASSUME PalInv, otaPal_ResetDevice
    PROVE  PalInv'
<1>1. /\ library = "reset"
      /\ setting = Idle
      /\ mainErr' = "OtaPalSuccess"
      /\ library' = "idle"
      /\ UNCHANGED <<pFile, image, pSignature, stateFile, setting, palState, heap, jobs, resets,
                     hidden, unread, wanted>>
  BY DEF otaPal_ResetDevice, fileVars, stateVars, histVars
<1>2. JobTypes'
  BY <1>1 DEF PalInv, JobTypes, Errors
<1>3. Counters'
  BY <1>1 DEF PalInv, Counters
<1>4. SettingPlaces'
  BY <1>1 DEF SettingPlaces, Idle
<1>5. FileFollows'
  BY <1>1 DEF PalInv, FileFollows
<1>6. ClosedImage'
  BY <1>1 DEF PalInv, ClosedImage, ClosedIsVerified
<1> QED
  BY <1>2, <1>3, <1>4, <1>5, <1>6 DEF PalInv

LEMMA RestartKeeps ==
    ASSUME PalInv, Restart
    PROVE  PalInv'
<1>1. /\ resets < MaxResets
      /\ resets' = resets + 1
      /\ library' = "start"
      /\ pFile' = FALSE
      /\ mainErr' = "OtaPalUninitialized"
      /\ setting' = Idle
      /\ palState' = NULL
      /\ heap' = 0
      /\ hidden' = FALSE
      /\ unread' = FALSE
      /\ UNCHANGED <<image, pSignature, stateFile, jobs, wanted>>
  BY DEF Restart, stateVars
<1>2. JobTypes'
  BY <1>1 DEF PalInv, JobTypes, Errors
<1>3. Counters'
  BY <1>1, OtaPalAssumption DEF PalInv, Counters
<1>4. SettingPlaces'
  BY <1>1 DEF SettingPlaces, Idle
<1>5. FileFollows'
  BY <1>1 DEF PalInv, FileFollows, Idle
<1>6. ClosedImage'
  BY <1>1 DEF ClosedImage, ClosedIsVerified
<1> QED
  BY <1>2, <1>3, <1>4, <1>5, <1>6 DEF PalInv

\* Every step keeps the invariant.
LEMMA PalInvNext == PalInv /\ [Next]_vars => PalInv'
<1> SUFFICES ASSUME PalInv, [Next]_vars PROVE PalInv'
  OBVIOUS
<1>1. CASE UNCHANGED vars
  BY <1>1 DEF vars, fileVars, stateVars, histVars, PalInv, JobTypes, Counters, SettingPlaces,
     FileFollows,
     ClosedImage, ClosedIsVerified, Idle
<1>2. CASE Next
  BY <1>2, otaPal_GetPlatformImageStateKeeps, OpenStateFileKeeps, WriteStateFileKeeps,
     CloseStateFileKeeps, otaPal_CreateFileForRxKeeps, otaPal_WriteBlockKeeps, LastBlockKeeps,
     otaPal_AbortKeeps, otaPal_CloseFileKeeps, TestNewImageKeeps, otaPal_ActivateNewImageKeeps,
     SelfTestKeeps, otaPal_ResetDeviceKeeps, RestartKeeps DEF Next
<1> QED
  BY <1>1, <1>2

\* The inductive invariant of the file operations.
LEMMA PalInvAlways == Spec => []PalInv
  BY PalInvInit, PalInvNext, PTL DEF Spec

----------------------------------------------------------------------------

\* Type correctness, with two bounds that no single operation shows: the file
\* is open only while its job is received, and the memory that CheckFileSignature
\* and ReadAndAssumeCertificate never free is at most two allocations for each
\* file that was created.
THEOREM PalTypesTheorem == Spec => []TypeOK
<1>1. PalInv => TypeOK
  <2> SUFFICES ASSUME PalInv PROVE TypeOK
    OBVIOUS
  <2> USE DEF PalInv
  <2>1. stateFile \in ImageStates \cup {"absent", "empty"}
    BY DEF FileFollows
  <2>2. jobs \in 0 .. MaxJobs /\ resets \in 0 .. MaxResets /\ heap \in 0 .. 2 * MaxJobs
    BY OtaPalAssumption DEF Counters
  <2>3. {pFile, pSignature, hidden, unread} \subseteq BOOLEAN
    BY DEF JobTypes, FileFollows, ClosedImage
  <2> QED
    BY <2>1, <2>2, <2>3 DEF TypeOK, JobTypes, SettingPlaces, FileFollows
<1> QED
  BY <1>1, PalInvAlways, PTL

\* An image that otaPal_CloseFile() closed without an error is signed and has
\* all its blocks undamaged, whichever calls fail, unless the file could not
\* be rewound: no failure of another call skips the check of the signature.
THEOREM ClosedIsVerifiedTheorem == Spec => []ClosedIsVerified
<1>1. PalInv => ClosedIsVerified
  BY DEF PalInv, ClosedImage
<1> QED
  BY <1>1, PalInvAlways, PTL

\* The state otaPal_GetPlatformImageState() finds after a reset is one that
\* was set, wherever the reset cut the writing of the state file short and
\* whichever of its calls failed.
THEOREM StateIsKeptTheorem == Spec => StateIsKept
<1> DEFINE Kept == palState = NULL /\ ~hidden' =>
                      /\ palState' = "valid" => wanted \in {NULL, "accepted"}
                      /\ palState' = "pendingCommit" => wanted = "testing"
<1>1. ASSUME PalInv, otaPal_GetPlatformImageState PROVE Kept
  <2>1. ~hidden' => palState' \in {PalStateOf(stateFile), "invalid"}
    BY <1>1 DEF otaPal_GetPlatformImageState
  <2>2. PalStateOf(stateFile) = "valid" => stateFile \in {"absent", "accepted"}
    BY DEF PalStateOf
  <2>3. PalStateOf(stateFile) = "pendingCommit" => stateFile = "testing"
    BY DEF PalStateOf
  <2>4. stateFile \in {"absent", "accepted"} => wanted \in {NULL, "accepted"}
    BY <1>1, OtaPalAssumption DEF PalInv, FileFollows, ImageStates
  <2>5. stateFile = "testing" => wanted = "testing"
    BY <1>1, OtaPalAssumption DEF PalInv, FileFollows, ImageStates
  <2> QED
    BY <2>1, <2>2, <2>3, <2>4, <2>5
<1>2. ASSUME Next, ~otaPal_GetPlatformImageState PROVE palState' = palState \/ palState' = NULL
  BY <1>2 DEF Next, OpenStateFile, WriteStateFile, CloseStateFile, otaPal_CreateFileForRx,
     otaPal_WriteBlock, LastBlock, otaPal_Abort, otaPal_CloseFile, TestNewImage,
     otaPal_ActivateNewImage, SelfTest, otaPal_ResetDevice, Restart
<1>3. PalInv /\ [Next]_vars => [Kept]_vars
  <2>1. NULL # "valid" /\ NULL # "pendingCommit"
    BY OtaPalAssumption DEF PalStates
  <2> QED
    BY <1>1, <1>2, <2>1
<1>4. Spec => [][Kept]_vars
  BY <1>3, PalInvAlways, PTL DEF Spec
<1> QED
  BY <1>4 DEF StateIsKept

----------------------------------------------------------------------------
(* The logging: the invariant.                                             *)

\* Where a task has the mutex.
InMutex == {"flushMetadata", "flushMessage", "flushTcp", "give", "giveTcp"}

\* The texts of the model.
Texts == [log : Nat, part : {"metadata", "message", "tcp"}, length : 0 .. 2]

\* What is printed already and what is about to be, in the order it was put.
AllTexts == output \o stream

\* The types of the variables the logging reads and writes.
LogTypes ==
    /\ target \in {"windows", "qemu"}
    /\ pc \in [Tasks -> {"init", "idle", "metadata", "message", "tcp", "end", "halted"}
                        \cup InMutex]
    /\ number \in [Tasks -> Nat] /\ logs \in Nat
    /\ stream \in Seq(Texts) /\ output \in Seq(Texts)
    /\ ~Windows => stream = <<>>

\* The mutex is held exactly between its take and its give; a task that comes
\* to its message may hold it or not.
MutexPlaces ==
    /\ \A t \in Tasks : pc[t] \in InMutex => holder = t
    /\ \A t \in Tasks : holder = t => pc[t] \in InMutex \cup {"message"}

\* Every log has a number of its own.
LogNumbers ==
    /\ \A t \in Tasks : number[t] <= logs
    /\ \A t \in Tasks : pc[t] \in {"metadata", "flushMetadata", "message", "tcp"} => number[t] > 0
    /\ \A t, u \in Tasks : number[t] = number[u] /\ number[t] > 0 => t = u
    /\ \A i \in DOMAIN AllTexts : AllTexts[i].log <= logs

\* A log has no text before its first; its metadata is the last text until
\* its message is put.
LastIsMetadata ==
    \A t \in Tasks, i \in DOMAIN AllTexts :
      AllTexts[i].log = number[t] =>
        /\ pc[t] \notin {"metadata", "tcp"}
        /\ holder = t /\ pc[t] \in {"flushMetadata", "message"}
             => AllTexts[i].part = "metadata" /\ i = Len(AllTexts)

\* A message comes right behind the metadata of its log.
Adjacent(texts) ==
    \A i, j \in DOMAIN texts :
      (/\ texts[i].log = texts[j].log
       /\ texts[i].part = "metadata"
       /\ texts[j].part = "message") => j = i + 1

\* The printed texts and those in the stream buffer are one sequence, so that
\* nothing depends on who prints, or when.
LogInv == LogTypes /\ MutexPlaces /\ LogNumbers /\ LastIsMetadata /\ Adjacent(AllTexts)

----------------------------------------------------------------------------
(* Sequences of texts.                                                     *)

\* A text put at the end of the stream buffer, or printed when the stream
\* buffer is empty, comes after all the others.
LEMMA TextPutLast ==
    ASSUME NEW o \in Seq(Texts), NEW s \in Seq(Texts), NEW x \in Texts
    PROVE  /\ o \o s \in Seq(Texts)
           /\ Append(s, x) \in Seq(Texts) /\ o \o Append(s, x) = Append(o \o s, x)
           /\ Append(o, x) \in Seq(Texts)
           /\ s = <<>> => Append(o, x) \o s = Append(o \o s, x)
<1>1. /\ o \o s \in Seq(Texts) /\ Append(s, x) \in Seq(Texts) /\ Append(o, x) \in Seq(Texts)
      /\ o \o Append(s, x) \in Seq(Texts) /\ Append(o \o s, x) \in Seq(Texts)
  OBVIOUS
<1>2. o \o Append(s, x) = Append(o \o s, x)
  OBVIOUS
<1>3. s = <<>> => Append(o, x) \o s = Append(o \o s, x)
  OBVIOUS
<1>4. QED
  BY <1>1, <1>2, <1>3

\* Printing the first text of the stream buffer leaves the order alone.
LEMMA FirstMoves ==
    ASSUME NEW o \in Seq(Texts), NEW s \in Seq(Texts), s # <<>>
    PROVE  /\ Append(o, s[1]) \in Seq(Texts) /\ Tail(s) \in Seq(Texts)
           /\ Append(o, s[1]) \o Tail(s) = o \o s
<1>1. s[1] \in Texts /\ Tail(s) \in Seq(Texts) /\ Len(s) \in Nat /\ Len(s) > 0
  OBVIOUS
<1>2. Append(o, s[1]) \in Seq(Texts)
  BY <1>1
<1>3. Append(o, s[1]) \o Tail(s) = o \o s
  BY <1>1, <1>2
<1>4. QED
  BY <1>1, <1>2, <1>3

\* The texts with one more.
LEMMA OneMore ==
    ASSUME NEW s \in Seq(Texts), NEW x \in Texts
    PROVE  /\ Len(s) \in Nat /\ DOMAIN s = 1 .. Len(s)
           /\ Len(Append(s, x)) = Len(s) + 1 /\ DOMAIN Append(s, x) = 1 .. Len(s) + 1
           /\ \A i \in DOMAIN s : Append(s, x)[i] = s[i]
           /\ Append(s, x)[Len(s) + 1] = x
           /\ \A i \in DOMAIN Append(s, x) : i \in DOMAIN s \/ i = Len(s) + 1
  OBVIOUS

\* There is something to print only in a stream buffer that holds a text.
LEMMA NothingToPrint ==
    stream = <<>> => ~MoreToPrint
<1>1. SUFFICES ASSUME stream = <<>> PROVE Used = 0
  BY DEF MoreToPrint, LengthUnits
<1>2. DOMAIN stream = {}
  BY <1>1
<1>3. SUBSET {} = {{}}
  OBVIOUS
<1>4. QED
  BY <1>2, <1>3 DEF Used, FoldLeft, MapThenFoldSet

----------------------------------------------------------------------------
(* The steps that put no text.                                             *)

\* Where a step may take a task that logs, when no log begins and none is put.
QuietPlaces ==
    \A t \in Tasks :
      /\ pc'[t] \in InMutex => pc[t] \in InMutex /\ holder' = holder
      /\ holder' = t => holder = t /\ pc'[t] \in InMutex \cup {"message"}
      /\ pc'[t] \in {"metadata", "tcp"} => pc'[t] = pc[t]
      /\ pc'[t] = "flushMetadata" => pc[t] = "flushMetadata"
      /\ pc'[t] = "message" => \/ pc[t] \in {"message", "flushMetadata"}
                               \/ pc[t] = "metadata" /\ holder # t

\* A step of that kind keeps the invariant if it keeps the types.
LEMMA QuietStepKeeps ==
    ASSUME LogInv, LogTypes', QuietPlaces, AllTexts' = AllTexts, UNCHANGED <<number, logs>>
    PROVE  LogInv'
<1>0. LogTypes /\ MutexPlaces /\ LogNumbers /\ LastIsMetadata /\ Adjacent(AllTexts)
  BY DEF LogInv
<1>1. MutexPlaces'
  BY <1>0 DEF MutexPlaces, QuietPlaces
<1>2. LogNumbers'
  BY <1>0 DEF LogNumbers, QuietPlaces
<1>3. LastIsMetadata'
  BY <1>0 DEF LastIsMetadata, QuietPlaces, MutexPlaces, InMutex
<1>4. Adjacent(AllTexts)'
  BY <1>0 DEF Adjacent
<1>5. QED
  BY <1>1, <1>2, <1>3, <1>4 DEF LogInv

\* A log begins with a number that no text has.
LEMMA BeginLogKeeps ==
    ASSUME LogInv, NEW t \in Tasks, NEW place \in {"metadata", "tcp"}, pc[t] \in {"idle", "end"},
           BeginLog(t, place), UNCHANGED <<target, holder, stream, output>>
    PROVE  LogInv'
<1>0. LogTypes /\ MutexPlaces /\ LogNumbers /\ LastIsMetadata /\ Adjacent(AllTexts)
  BY DEF LogInv
<1>1. /\ logs' = logs + 1 /\ logs \in Nat /\ number \in [Tasks -> Nat]
      /\ number' = [number EXCEPT ![t] = logs + 1]
      /\ pc' = [pc EXCEPT ![t] = place]
      /\ AllTexts' = AllTexts
  BY <1>0 DEF BeginLog, Goto, LogTypes, AllTexts
<1>2. /\ pc'[t] = place /\ number'[t] = logs + 1
      /\ \A u \in Tasks \ {t} : pc'[u] = pc[u] /\ number'[u] = number[u]
  BY <1>0, <1>1 DEF LogTypes
<1>3. LogTypes'
  BY <1>0, <1>1 DEF LogTypes, Windows
<1>4. holder # t
  BY <1>0 DEF MutexPlaces, InMutex
<1>5. MutexPlaces'
  BY <1>0, <1>2, <1>4 DEF MutexPlaces, InMutex
<1>6. \A i \in DOMAIN AllTexts : AllTexts[i].log \in Nat
  <2>1. AllTexts \in Seq(Texts)
    BY <1>0, TextPutLast DEF LogTypes, AllTexts, Texts
  <2>2. \A i \in DOMAIN AllTexts : AllTexts[i] \in Texts
    BY <2>1
  <2>3. QED
    BY <2>2 DEF Texts
<1>7. LogNumbers'
  <2>1. \A u \in Tasks : number[u] \in Nat /\ number[u] <= logs
    BY <1>0, <1>1 DEF LogNumbers
  <2>2. \A u \in Tasks : number'[u] <= logs'
    BY <1>1, <1>2, <2>1
  <2>3. \A u \in Tasks : pc'[u] \in {"metadata", "flushMetadata", "message", "tcp"} => number'[u] > 0
    BY <1>0, <1>1, <1>2 DEF LogNumbers
  <2>4. \A u, v \in Tasks : number'[u] = number'[v] /\ number'[u] > 0 => u = v
    BY <1>0, <1>1, <1>2, <2>1 DEF LogNumbers
  <2>5. \A i \in DOMAIN AllTexts : AllTexts[i].log <= logs'
    BY <1>0, <1>1, <1>6 DEF LogNumbers
  <2>6. QED
    BY <1>1, <2>2, <2>3, <2>4, <2>5 DEF LogNumbers
<1>8. LastIsMetadata'
  <2>1. \A i \in DOMAIN AllTexts : AllTexts[i].log # logs + 1
    BY <1>0, <1>1, <1>6 DEF LogNumbers
  <2>2. QED
    BY <1>0, <1>1, <1>2, <2>1 DEF LastIsMetadata
<1>9. Adjacent(AllTexts)'
  BY <1>0, <1>1 DEF Adjacent
<1>10. QED
  BY <1>3, <1>5, <1>7, <1>8, <1>9 DEF LogInv

\* Whoever prints moves a text from the stream buffer to the output.
LEMMA PrintFirstKeeps ==
    ASSUME LogTypes, PrintFirst, UNCHANGED target
    PROVE  /\ AllTexts' = AllTexts
           /\ stream' \in Seq(Texts) /\ output' \in Seq(Texts)
           /\ ~Windows => stream' = <<>>
<1>1. stream # <<>>
  BY NothingToPrint DEF PrintFirst
<1>2. stream' = Tail(stream) /\ output' = Append(output, stream[1])
  BY DEF PrintFirst
<1>3. QED
  BY <1>1, <1>2, FirstMoves DEF AllTexts, LogTypes

\* Putting a text, or dropping it.
LEMMA OutputPuts ==
    ASSUME LogTypes, NEW t \in Tasks, NEW text \in Texts, NEW flush, NEW next,
           Output(t, text, flush, next), UNCHANGED target
    PROVE  /\ AllTexts' = AllTexts \/ AllTexts' = Append(AllTexts, text)
           /\ AllTexts \in Seq(Texts)
           /\ stream' \in Seq(Texts) /\ output' \in Seq(Texts)
           /\ (~Windows => stream = <<>>)'
           /\ pc' = [pc EXCEPT ![t] = flush] \/ pc' = [pc EXCEPT ![t] = next]
<1>1. CASE Windows
  <2>1. /\ UNCHANGED output
        /\ stream' = stream \/ stream' = Append(stream, text)
        /\ pc' = [pc EXCEPT ![t] = flush] \/ pc' = [pc EXCEPT ![t] = next]
    BY <1>1 DEF Output, PutText, Goto
  <2>2. AllTexts \in Seq(Texts) /\ stream \in Seq(Texts) /\ output \in Seq(Texts)
    BY TextPutLast DEF LogTypes, AllTexts
  <2>3. CASE stream' = stream
    BY <1>1, <2>1, <2>2, <2>3 DEF AllTexts, Windows
  <2>4. CASE stream' = Append(stream, text)
    BY <1>1, <2>1, <2>2, <2>4, TextPutLast DEF AllTexts, Windows
  <2>5. QED
    BY <2>1, <2>3, <2>4
<1>2. CASE ~Windows
  <2>1. UNCHANGED stream /\ output' = Append(output, text) /\ pc' = [pc EXCEPT ![t] = next]
    BY <1>2 DEF Output, Goto
  <2>2. QED
    BY <1>2, <2>1, TextPutLast DEF LogTypes, AllTexts, Windows
<1>3. QED
  BY <1>1, <1>2

----------------------------------------------------------------------------
(* The steps that put a text.                                              *)

\* A text that is put by the task that has the mutex then, and is either the
\* first of its log or a message right behind its metadata.
LEMMA PutKeeps ==
    ASSUME LogInv, LogTypes', NEW t \in Tasks, NEW text \in Texts,
           text.log = number[t], number[t] > 0,
           AllTexts' = AllTexts \/ AllTexts' = Append(AllTexts, text),
           AllTexts \in Seq(Texts),
           holder \in {NoTask, t}, holder' = t, UNCHANGED <<number, logs>>,
           pc'[t] \in InMutex \cup {"message"},
           \A u \in Tasks \ {t} : pc'[u] = pc[u],
           \/ pc[t] \in {"metadata", "tcp"} /\ text.part # "message"
           \/ pc[t] = "message" /\ text.part = "message" /\ holder = t,
           pc'[t] \in {"flushMetadata", "message"} => pc[t] = "metadata" /\ text.part = "metadata"
    PROVE  LogInv'
<1>0. LogTypes /\ MutexPlaces /\ LogNumbers /\ LastIsMetadata /\ Adjacent(AllTexts)
  BY DEF LogInv
<1>1. /\ Len(AllTexts) \in Nat
      /\ \A i \in DOMAIN AllTexts : i \in Nat /\ i <= Len(AllTexts)
      /\ \A i \in DOMAIN AllTexts' :
           \/ i \in DOMAIN AllTexts /\ AllTexts'[i] = AllTexts[i]
           \/ /\ i = Len(AllTexts) + 1 /\ AllTexts'[i] = text
              /\ Len(AllTexts') = Len(AllTexts) + 1
  <2>1. CASE AllTexts' = AllTexts
    BY <2>1, OneMore
  <2>2. CASE AllTexts' = Append(AllTexts, text)
    BY <2>2, OneMore
  <2>3. QED
    BY <2>1, <2>2
<1>2. t # NoTask /\ NoTask \notin Tasks
  BY ProgramAssumption DEF Tasks
<1>3. MutexPlaces'
  BY <1>0, <1>2 DEF MutexPlaces
<1>4. LogNumbers'
  <2>1. \A u \in Tasks : pc'[u] \in {"metadata", "flushMetadata", "message", "tcp"} => number[u] > 0
    BY <1>0 DEF LogNumbers
  <2>2. \A i \in DOMAIN AllTexts' : AllTexts'[i].log <= logs
    BY <1>0, <1>1 DEF LogNumbers
  <2>3. QED
    BY <1>0, <2>1, <2>2 DEF LogNumbers
<1>5. ASSUME pc[t] \in {"metadata", "tcp"}
      PROVE  \A i \in DOMAIN AllTexts : AllTexts[i].log # number[t]
  BY <1>0, <1>5 DEF LastIsMetadata
<1>6. LastIsMetadata'
  <2>1. SUFFICES ASSUME NEW u \in Tasks, NEW i \in DOMAIN AllTexts', AllTexts'[i].log = number[u]
                 PROVE  /\ pc'[u] \notin {"metadata", "tcp"}
                        /\ t = u /\ pc'[u] \in {"flushMetadata", "message"}
                             => AllTexts'[i].part = "metadata" /\ i = Len(AllTexts')
    BY DEF LastIsMetadata
  <2>2. CASE u = t
    <3>1. pc'[t] \notin {"metadata", "tcp"}
      BY DEF InMutex
    <3>2. ASSUME pc'[t] \in {"flushMetadata", "message"}
          PROVE  AllTexts'[i].part = "metadata" /\ i = Len(AllTexts')
      BY <1>1, <1>5, <2>1, <2>2, <3>2
    <3>3. QED
      BY <2>2, <3>1, <3>2
  <2>3. CASE u # t
    <3>1. number[u] # number[t]
      BY <1>0, <2>3 DEF LogNumbers
    <3>2. i \in DOMAIN AllTexts /\ AllTexts'[i] = AllTexts[i]
      BY <1>1, <2>1, <3>1
    <3>3. pc'[u] = pc[u]
      BY <2>3
    <3>4. QED
      BY <1>0, <2>1, <2>3, <3>2, <3>3 DEF LastIsMetadata
  <2>4. QED
    BY <2>2, <2>3
<1>7. Adjacent(AllTexts)'
  <2>1. SUFFICES ASSUME NEW i \in DOMAIN AllTexts', NEW j \in DOMAIN AllTexts',
                        AllTexts'[i].log = AllTexts'[j].log,
                        AllTexts'[i].part = "metadata", AllTexts'[j].part = "message"
                 PROVE  j = i + 1
    BY DEF Adjacent
  <2>2. CASE /\ i \in DOMAIN AllTexts /\ AllTexts'[i] = AllTexts[i]
             /\ j \in DOMAIN AllTexts /\ AllTexts'[j] = AllTexts[j]
    BY <1>0, <2>1, <2>2 DEF Adjacent
  <2>3. CASE /\ i \in DOMAIN AllTexts /\ AllTexts'[i] = AllTexts[i]
             /\ j = Len(AllTexts) + 1 /\ AllTexts'[j] = text
    <3>1. pc[t] = "message" /\ holder = t /\ AllTexts[i].log = number[t]
      BY <2>1, <2>3
    <3>2. i = Len(AllTexts)
      BY <1>0, <2>3, <3>1 DEF LastIsMetadata
    <3>3. QED
      BY <2>3, <3>2
  <2>4. CASE AllTexts'[i] = text
    <3>1. pc[t] \in {"metadata", "tcp"}
      BY <2>1, <2>4
    <3>2. j \notin DOMAIN AllTexts \/ AllTexts'[j] # AllTexts[j]
      BY <1>5, <2>1, <2>4, <3>1
    <3>3. AllTexts'[j] = text
      BY <1>1, <3>2
    <3>4. QED
      BY <2>1, <2>4, <3>3
  <2>5. QED
    BY <1>1, <2>2, <2>3, <2>4
<1>8. QED
  BY <1>3, <1>4, <1>6, <1>7 DEF LogInv

----------------------------------------------------------------------------
(* Each step keeps the invariant.                                          *)

\* The three functions that put a text do it with the mutex; metadata and the
\* TCP/IP stack's text are the first of their log.
LEMMA PutsKeep ==
    ASSUME LogInv, NEW t \in Tasks,
           xLoggingPrintMetadata(t) \/ vTCPLoggingPrintf(t) \/ (vLoggingPrintf(t) /\ holder = t)
    PROVE  LogInv'
<1>0. LogTypes /\ MutexPlaces /\ LogNumbers
  BY DEF LogInv
<1>1. PICK text \in Texts, flush \in InMutex, next \in {"message", "give", "giveTcp"} :
        /\ Output(t, text, flush, next)
        /\ text.log = number[t]
        /\ \/ /\ pc[t] = "metadata" /\ text.part = "metadata" /\ holder = NoTask
              /\ flush = "flushMetadata" /\ next = "message"
           \/ /\ pc[t] = "tcp" /\ text.part = "tcp" /\ holder = NoTask
              /\ flush = "flushTcp" /\ next = "giveTcp"
           \/ /\ pc[t] = "message" /\ text.part = "message" /\ holder = t
              /\ flush = "flushMessage" /\ next = "give"
  <2>1. \A part \in {"metadata", "message", "tcp"}, length \in 0 .. 2 :
          /\ Text(t, part, length) \in Texts
          /\ Text(t, part, length).log = number[t] /\ Text(t, part, length).part = part
    BY <1>0 DEF Text, Texts, LogTypes
  <2>2. CASE xLoggingPrintMetadata(t)
    <3>1. /\ Output(t, Text(t, "metadata", 1), "flushMetadata", "message")
          /\ pc[t] = "metadata" /\ holder = NoTask
      BY <2>2 DEF xLoggingPrintMetadata, At
    <3>2. QED
      BY <2>1, <3>1 DEF InMutex
  <2>3. CASE vTCPLoggingPrintf(t)
    <3>1. PICK length \in 0 .. 1 : Output(t, Text(t, "tcp", length), "flushTcp", "giveTcp")
      BY <2>3 DEF vTCPLoggingPrintf
    <3>2. pc[t] = "tcp" /\ holder = NoTask
      BY <2>3 DEF vTCPLoggingPrintf, At
    <3>3. QED
      BY <2>1, <3>1, <3>2 DEF InMutex
  <2>4. CASE vLoggingPrintf(t) /\ holder = t
    <3>1. PICK length \in 1 .. 2 : Output(t, Text(t, "message", length), "flushMessage", "give")
      BY <2>4 DEF vLoggingPrintf
    <3>2. pc[t] = "message"
      BY <2>4 DEF vLoggingPrintf, At
    <3>3. QED
      BY <2>1, <2>4, <3>1, <3>2 DEF InMutex
  <2>5. QED
    BY <2>2, <2>3, <2>4
<1>2. holder' = t /\ UNCHANGED <<target, number, logs>>
  BY DEF xLoggingPrintMetadata, vTCPLoggingPrintf, vLoggingPrintf, logVars
<1>3. /\ AllTexts' = AllTexts \/ AllTexts' = Append(AllTexts, text)
      /\ AllTexts \in Seq(Texts)
      /\ stream' \in Seq(Texts) /\ output' \in Seq(Texts)
      /\ (~Windows => stream = <<>>)'
      /\ pc' = [pc EXCEPT ![t] = flush] \/ pc' = [pc EXCEPT ![t] = next]
  BY <1>0, <1>1, <1>2, OutputPuts
<1>4. /\ pc'[t] \in {flush, next}
      /\ \A u \in Tasks \ {t} : pc'[u] = pc[u]
  BY <1>0, <1>3 DEF LogTypes
<1>5. LogTypes'
  BY <1>0, <1>1, <1>2, <1>3 DEF LogTypes, InMutex
<1>6. number[t] > 0
  BY <1>0, <1>1 DEF LogNumbers
<1>7. pc'[t] \in InMutex \cup {"message"}
  BY <1>1, <1>4 DEF InMutex
<1>8. \/ pc[t] \in {"metadata", "tcp"} /\ text.part # "message"
      \/ pc[t] = "message" /\ text.part = "message" /\ holder = t
  BY <1>1
<1>9. pc'[t] \in {"flushMetadata", "message"} => pc[t] = "metadata" /\ text.part = "metadata"
  BY <1>1, <1>4
<1>10. QED
  BY <1>1, <1>2, <1>3, <1>4, <1>5, <1>6, <1>7, <1>8, <1>9, PutKeeps

\* A log begins where its task has no mutex.
LEMMA BeginningsKeep ==
    ASSUME LogInv,
           \/ \E t \in Tasks : Log(t) \/ TcpLog(t)
           \/ vApplicationIPNetworkEventHook \/ TasksCreated
    PROVE  LogInv'
<1>1. PICK t \in Tasks, place \in {"metadata", "tcp"} :
        BeginLog(t, place) /\ pc[t] \in {"idle", "end"}
  BY DEF Log, TcpLog, vApplicationIPNetworkEventHook, TasksCreated, At, Tasks
<1>2. UNCHANGED <<target, holder, stream, output>>
  BY DEF Log, TcpLog, vApplicationIPNetworkEventHook, TasksCreated, printVars
<1>3. QED
  BY <1>1, <1>2, BeginLogKeeps

\* Whoever prints, and whether or not two print at once, the order stays and the
\* task keeps the mutex until the stream buffer is empty.
LEMMA PrintingKeeps ==
    ASSUME LogInv, (\E t \in Tasks : DirectPrint(t)) \/ prvWin32LoggingThread
    PROVE  LogInv'
<1>0. LogTypes /\ MutexPlaces
  BY DEF LogInv
<1>1. UNCHANGED <<target, number, logs, holder>>
  BY DEF DirectPrint, prvWin32LoggingThread, logVars
<1>2. /\ AllTexts' = AllTexts
      /\ stream' \in Seq(Texts) /\ output' \in Seq(Texts)
      /\ (~Windows => stream = <<>>)'
  <2>1. CASE PrintFirst
    BY <1>0, <1>1, <2>1, PrintFirstKeeps DEF Windows
  <2>2. CASE UNCHANGED <<stream, output>>
    BY <1>0, <1>1, <2>2 DEF AllTexts, LogTypes, Windows
  <2>3. QED
    BY <2>1, <2>2 DEF DirectPrint, prvWin32LoggingThread, ThreadStarts, ThreadWakes,
                      ThreadFlushes, printVars
<1>3. \/ pc' = pc
      \/ \E t \in Tasks : \/ pc[t] = "flushMetadata" /\ pc' = [pc EXCEPT ![t] = "message"]
                          \/ pc[t] = "flushMessage" /\ pc' = [pc EXCEPT ![t] = "give"]
                          \/ pc[t] = "flushTcp" /\ pc' = [pc EXCEPT ![t] = "giveTcp"]
  BY DEF DirectPrint, AfterFlush, Goto, prvWin32LoggingThread
<1>4. LogTypes'
  BY <1>0, <1>1, <1>2, <1>3 DEF LogTypes, InMutex
<1>5. QuietPlaces
  BY <1>0, <1>1, <1>3 DEF QuietPlaces, LogTypes, MutexPlaces, InMutex
<1>6. QED
  BY <1>1, <1>2, <1>4, <1>5, QuietStepKeeps

\* The other steps put nothing; a message whose log did not get the mutex is
\* left out.
LEMMA QuietStepsKeep ==
    ASSUME LogInv,
           \/ prvMiscInitialisation \/ StartScheduler \/ vStartMQTTAgentDemo
           \/ \E t \in Tasks :
                \/ MetadataTimesOut(t) \/ TcpLogTimesOut(t) \/ xSemaphoreGive(t)
                \/ EndLog(t) \/ vAssertCalled(t)
                \/ vLoggingPrintf(t) /\ holder # t
           \/ UNCHANGED programVars
    PROVE  LogInv'
<1>0. LogTypes /\ MutexPlaces
  BY DEF LogInv
<1>1. UNCHANGED <<target, number, logs, stream, output>>
  BY DEF prvMiscInitialisation, StartScheduler, vStartMQTTAgentDemo, MetadataTimesOut,
         TcpLogTimesOut, xSemaphoreGive, EndLog, vAssertCalled, vLoggingPrintf, logVars, printVars,
         programVars
<1>2. \/ pc' = pc /\ holder' = holder
      \/ \E t \in Tasks :
           \/ /\ pc[t] = "metadata" /\ holder # t /\ holder' = holder
              /\ pc' = [pc EXCEPT ![t] = "message"]
           \/ /\ pc[t] = "message" /\ holder # t /\ holder' = holder
              /\ pc' = [pc EXCEPT ![t] = "end"]
           \/ /\ pc[t] \in {"init", "end", "tcp"} /\ holder' = holder
              /\ pc' = [pc EXCEPT ![t] = "idle"]
           \/ /\ pc[t] = "end" /\ holder' = holder
              /\ pc' = [pc EXCEPT ![t] = "halted"]
           \/ /\ pc[t] \in {"give", "giveTcp"} /\ holder' = NoTask
              /\ \E next \in {"end", "idle"} : pc' = [pc EXCEPT ![t] = next]
  BY DEF prvMiscInitialisation, StartScheduler, vStartMQTTAgentDemo, MetadataTimesOut,
         TcpLogTimesOut, xSemaphoreGive, EndLog, vAssertCalled, vLoggingPrintf, Goto, At, Tasks,
         programVars
<1>3. LogTypes'
  BY <1>0, <1>1, <1>2 DEF LogTypes, Windows, InMutex
<1>4. QuietPlaces
  BY <1>0, <1>2, ProgramAssumption DEF QuietPlaces, LogTypes, MutexPlaces, InMutex, Tasks
<1>5. AllTexts' = AllTexts
  BY <1>1 DEF AllTexts
<1>6. QED
  BY <1>1, <1>3, <1>4, <1>5, QuietStepKeeps

\* The invariant holds before main() has logged.
LEMMA LogInvInitially == ProgramInit => LogInv
<1> SUFFICES ASSUME ProgramInit PROVE LogInv
  OBVIOUS
<1>1. AllTexts = <<>> /\ DOMAIN AllTexts = {}
  BY DEF ProgramInit, AllTexts
<1>2. LogTypes
  BY DEF ProgramInit, LogTypes
<1>3. MutexPlaces
  BY ProgramAssumption DEF ProgramInit, MutexPlaces, InMutex, Tasks
<1>4. LogNumbers /\ LastIsMetadata /\ Adjacent(AllTexts)
  BY <1>1 DEF ProgramInit, LogNumbers, LastIsMetadata, Adjacent
<1>5. QED
  BY <1>2, <1>3, <1>4 DEF LogInv

\* Every step keeps the invariant.
LEMMA LogInvIsInductive == LogInv /\ [ProgramNext]_programVars => LogInv'
  BY PutsKeep, BeginningsKeep, PrintingKeeps, QuietStepsKeep DEF ProgramNext

\* xLoggingPrintMetadata() keeps the mutex for vLoggingPrintf(): metadata and
\* message of a log are printed one right behind the other, although
\* vLoggingPrintf() is called after a timeout, too, texts that do not fit are
\* dropped, and the task or the Win32 thread prints.
THEOREM PrintedTogetherTheorem == ProgramSpec => []PrintedTogether
<1>1. LogInv => PrintedTogether
  <2>1. SUFFICES ASSUME LogInv, NEW i \in DOMAIN output, NEW j \in DOMAIN output,
                        output[i].log = output[j].log,
                        output[i].part = "metadata", output[j].part = "message"
                 PROVE  j = i + 1
    BY DEF PrintedTogether
  <2>2. stream \in Seq(Texts) /\ output \in Seq(Texts) /\ Adjacent(AllTexts)
    BY <2>1 DEF LogInv, LogTypes
  <2>3. \A k \in DOMAIN output : k \in DOMAIN AllTexts /\ AllTexts[k] = output[k]
    BY <2>2 DEF AllTexts
  <2>4. QED
    BY <2>1, <2>2, <2>3 DEF Adjacent
<1>2. QED
  BY <1>1, LogInvInitially, LogInvIsInductive, PTL DEF ProgramSpec
==============================================================================
