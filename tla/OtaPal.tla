------------------------------- MODULE OtaPal -------------------------------
(***************************************************************************)
(* ota_pal.c, the file operations the OTA library calls, with the          *)
(* signature check of iot_crypto.c.  The received image is one file, and   *)
(* the state of the image another, PlatformImageState.txt.  Both survive a *)
(* reset, which may come between two operations on the state file.  Any    *)
(* call of the C library may fail, and so may an allocation.               *)
(*                                                                         *)
(* The OTA library is outside the repository: it receives blocks, closes   *)
(* the file, and sets the state of the image as it goes, in the order of   *)
(* the actions here.  The C library and mbedTLS are modelled by what they  *)
(* return.                                                                 *)
(***************************************************************************)
EXTENDS Integers, FiniteSets

CONSTANTS
    Blocks,             \* of an image
    MaxFailures,        \* bounds of the model: calls that fail in one operation,
    MaxJobs,            \* images received,
    MaxResets,          \* and resets
    NULL

ImageStates == {"testing", "accepted", "rejected", "aborted"}
PalStates == {"valid", "pendingCommit", "invalid"}

\* The calls whose failure makes a difference.
SignatureCalls == {"context", "pageBuffer", "seek"}
CertificateCalls == {"certificateFile", "certificateSeek", "certificateSize",
                     "certificateMemory", "certificateRead", "certificateClose"}
CloseCalls == SignatureCalls \cup CertificateCalls \cup {"close"}
Failures(calls) == {f \in SUBSET calls : Cardinality(f) <= MaxFailures}

ASSUME OtaPalAssumption ==
    /\ IsFiniteSet(Blocks) /\ Blocks # {}
    /\ MaxFailures \in Nat /\ MaxJobs \in Nat /\ MaxResets \in Nat
    /\ NULL \notin ImageStates \cup PalStates

VARIABLES
    library,        \* what the OTA library does
    pFile,          \* the file of the context is open
    image,          \* what each block of the file holds
    pSignature,     \* the job came with a signature
    mainErr,        \* what the last operation returned
    stateFile,      \* PlatformImageState.txt
    setting,        \* the state being written to it, and how far that is
    palState,       \* what otaPal_GetPlatformImageState() returned at the start
    heap,           \* allocations that are never freed
    jobs, resets,   \* counters
    hidden,         \* history: the state file was there and could not be opened
    unread,         \* history: the file could not be rewound for the signature check
    wanted          \* history: the last state that got as far as emptying the state file

fileVars == <<pFile, image, pSignature, jobs>>
histVars == <<hidden, unread>>
stateVars == <<stateFile, wanted>>
vars == <<library, fileVars, mainErr, stateVars, setting, palState, heap, resets, histVars>>

Idle == [state |-> NULL, step |-> "none", written |-> FALSE]

Init ==
    /\ library = "start"
    /\ pFile = FALSE
    /\ image = [b \in Blocks |-> "missing"]
    /\ pSignature = FALSE
    /\ mainErr = "OtaPalUninitialized"
    /\ stateFile = "absent"
    /\ setting = Idle
    /\ palState = NULL
    /\ heap = 0
    /\ jobs = 0
    /\ resets = 0
    /\ hidden = FALSE
    /\ unread = FALSE
    /\ wanted = NULL

----------------------------------------------------------------------------
(* The state of the image.                                                 *)

\* A bug to check the properties with: a file that cannot be read counts as
\* no file.
EmptyIsFactory(file) ==
    CASE file \in {"absent", "empty", "accepted"} -> "valid"
      [] file = "testing" -> "pendingCommit"
      [] OTHER -> "invalid"

\* Without a file the image is the one of the factory.
PalStateOf(file) ==
    CASE file \in {"absent", "accepted"} -> "valid"
      [] file = "testing" -> "pendingCommit"
      [] OTHER -> "invalid"

\* At the start of the library.  A file that is there may fail to be read or
\* closed; if it cannot be opened it is taken to be absent.
otaPal_GetPlatformImageState ==
    /\ library = "start"
    /\ \/ palState' = PalStateOf(stateFile) /\ hidden' = FALSE
       \/ stateFile # "absent" /\ palState' = "invalid" /\ hidden' = FALSE
       \/ stateFile # "absent" /\ palState' = PalStateOf("absent") /\ hidden' = TRUE
    /\ library' = IF palState' = "pendingCommit" THEN "selfTest" ELSE "idle"
    /\ UNCHANGED <<fileVars, mainErr, stateVars, setting, heap, resets, unread>>

\* The library asks for a state and goes on with next when it is set.
otaPal_SetPlatformImageState(state) ==
    setting' = [state |-> state, step |-> "open", written |-> FALSE]

\* Opening the file empties it.
OpenStateFile ==
    /\ setting.step = "open"
    /\ \/ /\ stateFile' = "empty"
          /\ wanted' = setting.state
          /\ setting' = [setting EXCEPT !.step = "write"]
          /\ UNCHANGED mainErr
       \/ /\ setting' = Idle
          /\ mainErr' = "OtaPalBadImageState"
          /\ UNCHANGED stateVars
    /\ UNCHANGED <<library, fileVars, palState, heap, resets, histVars>>

\* What is written may stay in the buffer of the C library.
WriteStateFile ==
    /\ setting.step = "write"
    /\ \/ /\ stateFile' \in {setting.state, "empty"}
          /\ setting' = [setting EXCEPT !.step = "close", !.written = TRUE]
          /\ UNCHANGED mainErr
       \/ /\ mainErr' = "OtaPalBadImageState"
          /\ setting' = [setting EXCEPT !.step = "close"]
          /\ UNCHANGED stateFile
    /\ UNCHANGED <<library, fileVars, wanted, palState, heap, resets, histVars>>

\* Closing the file brings the buffer to the disk, or fails.
CloseStateFile ==
    /\ setting.step = "close"
    /\ \/ /\ stateFile' = IF setting.written THEN setting.state ELSE stateFile
          /\ UNCHANGED mainErr
       \/ /\ mainErr' = "OtaPalBadImageState"
          /\ UNCHANGED stateFile
    /\ setting' = Idle
    /\ UNCHANGED <<library, fileVars, wanted, palState, heap, resets, histVars>>

----------------------------------------------------------------------------
(* Receiving an image.                                                     *)

\* The file is created, or emptied if there is one.
otaPal_CreateFileForRx ==
    /\ library = "idle" /\ jobs < MaxJobs /\ setting = Idle
    /\ jobs' = jobs + 1
    /\ pSignature' \in BOOLEAN
    /\ \/ /\ pFile' = TRUE
          /\ image' = [b \in Blocks |-> "missing"]
          /\ mainErr' = "OtaPalSuccess"
          /\ library' = "receiving"
       \/ /\ mainErr' = "OtaPalRxFileCreateFailed"
          /\ library' = "failed"
          /\ UNCHANGED <<pFile, image>>
    /\ UNCHANGED <<stateVars, setting, palState, heap, resets, histVars>>

\* prvContextValidate(): the library always gives a context.
prvContextValidate == pFile

\* The data may be damaged.  A short write is not noticed; a failed seek
\* gives an error, and the library fails the job.
otaPal_WriteBlock ==
    /\ library = "receiving" /\ prvContextValidate
    /\ \/ /\ \E b \in Blocks, data \in {"good", "damaged", "missing"} :
                /\ image[b] = "missing"
                /\ image' = [image EXCEPT ![b] = data]
          /\ UNCHANGED library
       \/ library' = "failed" /\ UNCHANGED image
    /\ UNCHANGED <<pFile, pSignature, jobs, mainErr, stateVars, setting, palState, heap, resets, histVars>>

\* The library has the last block, as far as it knows.
LastBlock ==
    /\ library = "receiving"
    /\ library' = "close"
    /\ UNCHANGED <<fileVars, mainErr, stateVars, setting, palState, heap, resets, histVars>>

\* A bug to check the properties with: the file stays open.
AbortOnly ==
    /\ library \in {"receiving", "failed"} /\ setting = Idle
    /\ mainErr' = "OtaPalSuccess"
    /\ otaPal_SetPlatformImageState("aborted")
    /\ library' = "idle"
    /\ UNCHANGED <<fileVars, stateVars, palState, heap, resets, histVars>>

\* The library aborts a job, then marks the image as aborted.
otaPal_Abort ==
    /\ library \in {"receiving", "failed"} /\ setting = Idle
    /\ pFile' = FALSE
    /\ mainErr' \in (IF pFile THEN {"OtaPalSuccess", "OtaPalFileAbort"} ELSE {"OtaPalSuccess"})
    /\ otaPal_SetPlatformImageState("aborted")
    /\ library' = "idle"
    /\ UNCHANGED <<image, pSignature, jobs, stateVars, palState, heap, resets, histVars>>

----------------------------------------------------------------------------
(* The signature check.                                                    *)

\* The certificate comes from a file, or from the program when there is no
\* such file.  When closing the file fails, the memory is lost.
otaPal_ReadAndAssumeCertificate(failing) ==
    LET absent == "certificateFile" \in failing
        read == failing \cap {"certificateSeek", "certificateSize", "certificateMemory", "certificateRead"} = {}
    IN  IF absent
        THEN [cert |-> "certificateMemory" \notin failing, lost |-> 0]
        ELSE [cert |-> read /\ "certificateClose" \notin failing,
              lost |-> IF read /\ "certificateClose" \in failing THEN 1 ELSE 0]

\* A context holds what was hashed so far.
CRYPTO_SignatureVerificationStart == {}
CRYPTO_SignatureVerificationUpdate(context, data) == context \cup data

\* A bug to check the properties with: the result of mbedtls_pk_verify() is
\* not looked at.
NotVerified(hashed) == TRUE

\* The certificate is the signer's, and the hash is the one that was signed.
prvVerifySignature(hashed) == hashed = {<<b, "good">> : b \in Blocks}

\* The check needs a signature; it frees its context.
CRYPTO_SignatureVerificationFinal(context, cert) == cert /\ prvVerifySignature(context)

\* What is in the file, page by page.
Pages == {<<b, image[b]>> : b \in Blocks}

\* The error, and the allocations that were not freed: the context when there
\* is no certificate, no page buffer, or no way to rewind the file.  In the
\* last case the error is none.
otaPal_CheckFileSignature(failing) ==
    LET signer == otaPal_ReadAndAssumeCertificate(failing)
        context == CRYPTO_SignatureVerificationUpdate(CRYPTO_SignatureVerificationStart, Pages)
        Result(error, lost) == [error |-> error, lost |-> lost + signer.lost]
    IN  IF "context" \in failing THEN [error |-> "OtaPalSignatureCheckFailed", lost |-> 0]
        ELSE IF ~signer.cert THEN Result("OtaPalBadSignerCert", 1)
        ELSE IF "pageBuffer" \in failing THEN Result("OtaPalOutOfMemory", 1)
        ELSE IF "seek" \in failing THEN Result("OtaPalSuccess", 1)
        ELSE IF CRYPTO_SignatureVerificationFinal(context, signer.cert) THEN Result("OtaPalSuccess", 0)
        ELSE Result("OtaPalSignatureCheckFailed", 0)

\* A job without a signature fails.  Whatever fails, the image is aborted.
otaPal_CloseFile ==
    /\ library = "close" /\ prvContextValidate /\ setting = Idle
    /\ \E failing \in Failures(CloseCalls) :
          LET check == IF pSignature THEN otaPal_CheckFileSignature(failing)
                       ELSE [error |-> "OtaPalSignatureCheckFailed", lost |-> 0]
          IN  /\ mainErr' = IF "close" \in failing THEN "OtaPalFileClose" ELSE check.error
              /\ heap' = heap + check.lost
              /\ unread' = (pSignature /\ "seek" \in failing)
    /\ pFile' = FALSE
    /\ IF mainErr' = "OtaPalSuccess"
       THEN library' = "closed" /\ UNCHANGED setting
       ELSE otaPal_SetPlatformImageState("aborted") /\ library' = "idle"
    /\ UNCHANGED <<image, pSignature, jobs, stateVars, palState, resets, hidden>>

----------------------------------------------------------------------------
(* What the library does with a new image.                                 *)

\* An image that was closed is to be tested after the next start.
TestNewImage ==
    /\ library = "closed"
    /\ otaPal_SetPlatformImageState("testing")
    /\ library' = "activate"
    /\ UNCHANGED <<fileVars, mainErr, stateVars, palState, heap, resets, histVars>>

\* Nothing happens on Windows: the user starts the image.
otaPal_ActivateNewImage ==
    /\ library = "activate" /\ setting = Idle
    /\ mainErr' = "OtaPalSuccess"
    /\ library' = "idle"
    /\ UNCHANGED <<fileVars, stateVars, setting, palState, heap, resets, histVars>>

\* The self test of an image whose commit is pending.
SelfTest ==
    /\ library = "selfTest"
    /\ \/ otaPal_SetPlatformImageState("accepted") /\ library' = "idle"
       \/ otaPal_SetPlatformImageState("rejected") /\ library' = "reset"
    /\ UNCHANGED <<fileVars, mainErr, stateVars, palState, heap, resets, histVars>>

\* Nothing happens on Windows.
otaPal_ResetDevice ==
    /\ library = "reset" /\ setting = Idle
    /\ mainErr' = "OtaPalSuccess"
    /\ library' = "idle"
    /\ UNCHANGED <<fileVars, stateVars, setting, palState, heap, resets, histVars>>

\* The program ends at any point; files stay.
Restart ==
    /\ resets < MaxResets
    /\ resets' = resets + 1
    /\ library' = "start"
    /\ pFile' = FALSE
    /\ mainErr' = "OtaPalUninitialized"
    /\ setting' = Idle
    /\ palState' = NULL
    /\ heap' = 0
    /\ hidden' = FALSE
    /\ unread' = FALSE
    /\ UNCHANGED <<image, pSignature, jobs, stateVars>>

----------------------------------------------------------------------------

Next ==
    \/ otaPal_GetPlatformImageState \/ OpenStateFile \/ WriteStateFile \/ CloseStateFile
    \/ otaPal_CreateFileForRx \/ otaPal_WriteBlock \/ LastBlock \/ otaPal_Abort
    \/ otaPal_CloseFile
    \/ TestNewImage \/ otaPal_ActivateNewImage \/ SelfTest \/ otaPal_ResetDevice
    \/ Restart

Spec == Init /\ [][Next]_vars

----------------------------------------------------------------------------

Errors == {"OtaPalUninitialized", "OtaPalSuccess", "OtaPalRxFileCreateFailed", "OtaPalFileAbort",
           "OtaPalFileClose", "OtaPalSignatureCheckFailed", "OtaPalBadSignerCert",
           "OtaPalOutOfMemory", "OtaPalBadImageState"}

\* Every variable has its type; a file that is open belongs to a job that is
\* being received, so no file is left open by the library's calls.
TypeOK ==
    /\ library \in {"start", "selfTest", "idle", "receiving", "failed", "close", "closed", "activate", "reset"}
    /\ {pFile, pSignature, hidden, unread} \subseteq BOOLEAN
    /\ pFile => library \in {"receiving", "failed", "close"}
    /\ image \in [Blocks -> {"missing", "good", "damaged"}]
    /\ mainErr \in Errors
    /\ stateFile \in ImageStates \cup {"absent", "empty"}
    /\ setting \in [state : ImageStates \cup {NULL}, step : {"none", "open", "write", "close"}, written : BOOLEAN]
    /\ palState \in PalStates \cup {NULL}
    /\ wanted \in ImageStates \cup {NULL}
    /\ jobs \in 0 .. MaxJobs /\ resets \in 0 .. MaxResets /\ heap \in 0 .. 2 * MaxJobs

\* Unless the state file is there and cannot be opened, the image is held to
\* be valid at the start only when no state was ever
\* written, or when it was accepted: neither a reset between emptying and
\* writing the state file nor a failed write makes an image valid that was
\* received, tested, rejected or aborted, and the commit of an image is
\* pending only when it was to be tested (otaPal_SetPlatformImageState and
\* otaPal_GetPlatformImageState).
StateIsKept ==
    [][palState = NULL /\ ~hidden' =>
        /\ palState' = "valid" => wanted \in {NULL, "accepted"}
        /\ palState' = "pendingCommit" => wanted = "testing"]_vars

\* An image that is closed without an error, or on its way to be tested, has
\* all blocks undamaged and is signed, unless the file could not be rewound.
ClosedIsVerified ==
    library = "closed" /\ ~unread => pSignature /\ \A b \in Blocks : image[b] = "good"

\* The comment of otaPal_CloseFile() promises it without the exception.
ClosedIsAuthenticated ==
    library = "closed" => pSignature /\ \A b \in Blocks : image[b] = "good"
=============================================================================
