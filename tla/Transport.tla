----------------------------- MODULE Transport -----------------------------
(***************************************************************************)
(* The network transport under the MQTT agent task: the TCP socket of the  *)
(* NetworkContext_t (sockets_wrapper.c), the TLS context on top of it      *)
(* (using_mbedtls.c, or using_mbedtls_pkcs11.c where the private key stays *)
(* in a PKCS #11 module), and the plain variant (using_plaintext.c), as    *)
(* prvSocketConnect() and prvSocketDisconnect() of mqtt-agent-task.c use   *)
(* them.  A connection is made, used, lost, torn down and made again; each *)
(* step of making one may fail.  The network context is static: what one   *)
(* attempt leaves in it is what the next one starts from.                  *)
(*                                                                         *)
(* FreeRTOS+TCP, mbedTLS and the PKCS #11 module are outside the           *)
(* repository: they are modelled by the results the code distinguishes.    *)
(***************************************************************************)
EXTENDS Naturals, Sequences

CONSTANTS
    Variants,           \* the transports a build may contain
    MaxSockets,         \* bound of the model: sockets created
    RetryMaxAttempts,   \* RETRY_MAX_ATTEMPTS
    ShutdownLoops       \* FREERTOS_SOCKETS_WRAPPER_SHUTDOWN_LOOPS

ASSUME TransportAssumption ==
    /\ Variants \subseteq {"plaintext", "mbedtls", "pkcs11"}
    /\ MaxSockets \in Nat /\ RetryMaxAttempts \in Nat
    /\ ShutdownLoops \in Nat \ {0}

VARIABLES
    variant,            \* the transport of this build
    mutual,             \* a client certificate is configured
    at,                 \* where the MQTT agent task is
    retries,            \* attempts recorded by the backoff algorithm
    shutdownLoops,      \* waitForShutdownLoopCount
    sockets,            \* the sockets created so far, as the TCP stack sees them
    tcp,                \* the local socket of Sockets_Connect()
    tcpSocket,          \* NetworkContext_t.tcpSocket
    ssl,                \* the parts of NetworkContext_t.sslContext
    bio,                \* the socket that the TLS context reads and writes
    sessions,           \* sessions open in the PKCS #11 module
    altMutex,           \* mbedTLS has the mutex functions of the port
    fault               \* an assertion, or a socket closed that is not open

buildVars == <<variant, mutual>>
socketVars == <<sockets, tcp, tcpSocket>>
tlsVars == <<ssl, bio, sessions, altMutex>>
vars == <<buildVars, at, retries, shutdownLoops, socketVars, tlsVars, fault>>

\* The context is static and starts as zeros: handle 0 is NULL, which
\* FreeRTOS_closesocket() ignores, and not FREERTOS_INVALID_SOCKET.
NoSocket == 0
Zeroed == [config |-> "zero", rootCa |-> "zero", clientCert |-> "zero", privKey |-> "zero",
           context |-> "zero", entropy |-> "zero", drbg |-> "zero", session |-> "zero"]
NewSocket == [state |-> "open", wakeup |-> FALSE, link |-> "good"]
Secured == variant # "plaintext"

Init ==
    /\ variant \in Variants
    /\ mutual \in BOOLEAN
    /\ at = "connect"
    /\ retries = 0
    /\ shutdownLoops = 0
    /\ sockets = <<>>
    /\ tcp = NoSocket
    /\ tcpSocket = NoSocket
    /\ ssl = Zeroed
    /\ bio = NoSocket
    /\ sessions = 0
    /\ altMutex = FALSE
    /\ fault = "none"

Running == fault = "none"
Goto(from, to) == Running /\ at = from /\ at' = to

\* The steps of connecting in their order, and those of disconnecting; a
\* connection that is torn down is always followed by an attempt to make one.
PlaintextConnect == [tcp |-> "made"]
MbedtlsConnect == [tcp |-> "init", init |-> "setup", setup |-> "handshake", handshake |-> "made"]
Pkcs11Connect == [tcp |-> "init", init |-> "setup", setup |-> "made"]
PlaintextDisconnect == [failed |-> "shutdown", shutdown |-> "connect"]
MbedtlsDisconnect == [failed |-> "shutdown", shutdown |-> "free", free |-> "clear", clear |-> "connect"]
Pkcs11Disconnect == [failed |-> "shutdown", shutdown |-> "free", free |-> "clear", clear |-> "connect"]

Continue(from) ==
    LET connect == CASE variant = "plaintext" -> PlaintextConnect
                     [] variant = "mbedtls" -> MbedtlsConnect
                     [] variant = "pkcs11" -> Pkcs11Connect
        disconnect == CASE variant = "plaintext" -> PlaintextDisconnect
                        [] variant = "mbedtls" -> MbedtlsDisconnect
                        [] variant = "pkcs11" -> Pkcs11Disconnect
    IN  Goto(from, IF from \in DOMAIN connect THEN connect[from] ELSE disconnect[from])

----------------------------------------------------------------------------
(* Operations on a TLS context.  One that may fail returns the set of its  *)
(* outcomes, and Then continues with those that succeeded.                 *)

Outcome(ok, s) == [ok |-> ok, ssl |-> s]
Load(part, s) == {Outcome(TRUE, [s EXCEPT ![part] = "set"]), Outcome(FALSE, s)}
Then(outcomes, Op(_)) == UNION {IF o.ok THEN Op(o.ssl) ELSE {o} : o \in outcomes}

\* A bug to check the properties with: the entropy source keeps its mutex.
MbedtlsFreeKeepsEntropy(s) == [Zeroed EXCEPT !.entropy = s.entropy, !.drbg = s.drbg]

\* using_mbedtls.c
MbedtlsContextInit(s) ==
    [p \in DOMAIN s |-> IF p \in {"config", "rootCa", "clientCert", "privKey", "context"}
                        THEN "init" ELSE s[p]]
MbedtlsContextFree(s) == Zeroed

setRootCa(s) == Load("rootCa", s)
setClientCertificate(s) == Load("clientCert", s)
setPrivateKey(s) == Load("privKey", s)
ConfOwnCert(s) == {Outcome(TRUE, s), Outcome(FALSE, s)}

\* A bug to check the properties with: the result of parsing the root CA is
\* overwritten by that of the client certificate.
SetCredentialsForgetsRootCa(s) ==
    IF mutual
    THEN UNION {Then(Then(setClientCertificate(o.ssl), setPrivateKey), ConfOwnCert) : o \in setRootCa(s)}
    ELSE setRootCa(s)

setCredentials(s) ==
    IF mutual THEN Then(Then(Then(setRootCa(s), setClientCertificate), setPrivateKey), ConfOwnCert)
    ELSE setRootCa(s)

\* ALPN, server name and fragment length: a failure is only logged.
setOptionalConfigurations(s) == {Outcome(TRUE, s)}

MbedtlsSetup(s) ==
    Then(Then(Load("config", MbedtlsContextInit(s)), setCredentials), setOptionalConfigurations)

\* mbedtls_ssl_setup() with its input and output, then mbedtls_ssl_handshake().
Handshake(s) == {Outcome(TRUE, [s EXCEPT !.context = "up"]),
                 Outcome(FALSE, [s EXCEPT !.context = "set"]), Outcome(FALSE, s)}

\* using_mbedtls_pkcs11.c.  A session that could not be opened is noticed
\* when it is used.
Pkcs11ContextInit(s) ==
    LET t == [p \in DOMAIN s |-> IF p \in {"config", "rootCa", "clientCert", "context"}
                                 THEN "init" ELSE s[p]]
    IN  {[t EXCEPT !.session = "set"], t}
Pkcs11ContextFree(s) == [Zeroed EXCEPT !.privKey = s.privKey]

\* Slots, login, and the private key's handle and type.
initializeClientKeys(s) ==
    IF s.session = "set" THEN Load("privKey", s) ELSE {Outcome(FALSE, s)}
readCertificateIntoContext(s) ==
    IF s.session = "set" THEN Load("clientCert", s) ELSE {Outcome(FALSE, s)}

\* Here the protocols and the server name must be accepted.
Pkcs11Options(s) == {Outcome(TRUE, s), Outcome(FALSE, s)}

\* The private key's operation: the callback reports 0 also when the module
\* could not sign, and the server refuses what it gets instead.
privateKeySigningCallback == [signed : BOOLEAN, result : {0}]
\* The random numbers of the handshake come from the module, too.
generateRandomBytes(s) == {Outcome(TRUE, s), Outcome(FALSE, s)}
SignedHandshake(s) ==
    UNION {IF r.result = 0 /\ r.signed THEN Handshake(s) ELSE {o \in Handshake(s) : ~o.ok} :
                r \in privateKeySigningCallback}
Pkcs11Handshake(s) == Then(generateRandomBytes(s), SignedHandshake)

Pkcs11Setup(s) ==
    Then(Then(Then(Load("config", s), setRootCa), initializeClientKeys), readCertificateIntoContext)
Pkcs11Connection(s) == Then(Then(Pkcs11Setup(s), Pkcs11Options), Pkcs11Handshake)

----------------------------------------------------------------------------
(* Sockets_Connect() and Sockets_Disconnect().                             *)

\* FreeRTOS_closesocket(): the handle of a socket that was closed before
\* refers to freed memory.
Close(h) ==
    IF h = NoSocket THEN UNCHANGED <<sockets, fault>>
    ELSE IF sockets[h].state = "open"
    THEN sockets' = [sockets EXCEPT ![h].state = "closed"] /\ UNCHANGED fault
    ELSE fault' = "closed twice" /\ UNCHANGED sockets

\* Where a failed attempt continues: only the TLS variants clean up.
Failed == IF Secured THEN "cleanup" ELSE "refused"

NoNewSocket ==
    /\ Goto("connect", Failed)
    /\ UNCHANGED <<buildVars, retries, shutdownLoops, socketVars, tlsVars, fault>>

CreateSocket ==
    /\ Len(sockets) < MaxSockets
    /\ Goto("connect", "tcp")
    /\ sockets' = Append(sockets, NewSocket)
    /\ tcp' = Len(sockets')
    /\ UNCHANGED <<buildVars, retries, shutdownLoops, tcpSocket, tlsVars, fault>>

\* A bug to check the properties with: the socket is left open.
TcpFailsLeaks ==
    /\ Goto("tcp", Failed)
    /\ tcp' = NoSocket
    /\ UNCHANGED <<buildVars, retries, shutdownLoops, sockets, tcpSocket, tlsVars, fault>>

\* Name resolution or FreeRTOS_connect() fails: tcpSocket is left alone.
TcpFails ==
    /\ Goto("tcp", Failed)
    /\ Close(tcp)
    /\ tcp' = NoSocket
    /\ UNCHANGED <<buildVars, retries, shutdownLoops, tcpSocket, tlsVars>>

TcpConnected ==
    /\ Continue("tcp")
    /\ tcpSocket' = tcp
    /\ tcp' = NoSocket
    /\ UNCHANGED <<buildVars, retries, shutdownLoops, sockets, tlsVars, fault>>

\* A bug to check the properties with: nothing counts the loops.
ShutdownRecvForever ==
    /\ Running /\ at = "shutdown"
    /\ sockets[tcpSocket].link # "dead"
    /\ shutdownLoops' = 1 - shutdownLoops
    /\ UNCHANGED <<buildVars, at, retries, socketVars, tlsVars, fault>>

\* The loop waits for the peer to close the connection: FreeRTOS_recv() then
\* returns an error.
ShutdownRecv ==
    /\ Running /\ at = "shutdown"
    /\ sockets[tcpSocket].link # "dead"
    /\ shutdownLoops + 1 < ShutdownLoops
    /\ shutdownLoops' = shutdownLoops + 1
    /\ UNCHANGED <<buildVars, at, retries, socketVars, tlsVars, fault>>

ShutdownEnds ==
    /\ Continue("shutdown")
    /\ sockets[tcpSocket].link = "dead" \/ shutdownLoops + 1 >= ShutdownLoops
    /\ Close(tcpSocket)
    /\ retries' = 0
    /\ shutdownLoops' = 0
    /\ UNCHANGED <<buildVars, tcp, tcpSocket, tlsVars>>

----------------------------------------------------------------------------
(* TLS_FreeRTOS_Connect() after the TCP connection.                        *)

\* The entropy source and the generator are made with a mutex each.
mbedtls_platform_mutex_init(s) == [s EXCEPT !.entropy = "init", !.drbg = "init"]

\* For every random number the generator's mutex is taken and given, with
\* assertions that fail unless the generator was made.
mbedtls_platform_mutex_lock(s) == s.drbg # "zero"

\* The entropy are the program's own random numbers: rngStatus stays 0.
mbedtls_platform_entropy_poll == 0

\* initMbedtls(): the mutex functions first, since the entropy source and the
\* generator have mutexes.  The source or the seed may be refused even so.
MbedtlsInit ==
    /\ variant = "mbedtls"
    /\ \E accepted \in BOOLEAN :
       LET s == mbedtls_platform_mutex_init(ssl)
           ok == accepted /\ mbedtls_platform_entropy_poll = 0 IN
          /\ IF ok THEN Continue("init") ELSE Goto("init", "cleanup")
          /\ ssl' = IF ok THEN [s EXCEPT !.drbg = "set"] ELSE s
    /\ altMutex' = TRUE
    /\ UNCHANGED <<buildVars, retries, shutdownLoops, socketVars, bio, sessions, fault>>

Pkcs11Init ==
    /\ variant = "pkcs11"
    /\ Continue("init")
    /\ altMutex' = TRUE
    /\ UNCHANGED <<buildVars, retries, shutdownLoops, socketVars, ssl, bio, sessions, fault>>

tlsSetup ==
    /\ variant = "mbedtls"
    /\ \E o \in MbedtlsSetup(ssl) :
          /\ IF o.ok THEN Continue("setup") ELSE Goto("setup", "cleanup")
          /\ ssl' = o.ssl
    /\ UNCHANGED <<buildVars, retries, shutdownLoops, socketVars, bio, sessions, altMutex, fault>>

BioOf(s) == IF s.context \in {"set", "up"} THEN tcpSocket ELSE bio

tlsHandshake ==
    /\ variant = "mbedtls"
    /\ \E o \in Handshake(ssl) :
          /\ IF o.ok THEN Continue("handshake") ELSE Goto("handshake", "cleanup")
          /\ ssl' = o.ssl
          /\ bio' = BioOf(o.ssl)
    /\ fault' = IF mbedtls_platform_mutex_lock(ssl) THEN fault ELSE "assert"
    /\ UNCHANGED <<buildVars, retries, shutdownLoops, socketVars, sessions, altMutex>>

\* A bug to check the properties with: the context is freed, the session not
\* closed.
SessionsAfterNoClose(n, s) == n

\* Sessions after the context with this session is freed.
SessionsAfter(n, s) == IF s.session = "set" THEN n - 1 ELSE n

\* tlsSetup() of the PKCS #11 variant ends with the handshake, and frees the
\* context itself when one of its steps failed.
Pkcs11TlsSetup ==
    /\ variant = "pkcs11"
    /\ \E s \in Pkcs11ContextInit(ssl) : \E o \in Pkcs11Connection(s) :
          LET opened == IF s.session = "set" THEN sessions + 1 ELSE sessions
          IN  /\ IF o.ok THEN Continue("setup") ELSE Goto("setup", "cleanup")
              /\ bio' = BioOf(o.ssl)
              /\ ssl' = IF o.ok THEN o.ssl ELSE Pkcs11ContextFree(o.ssl)
              /\ sessions' = IF o.ok THEN opened ELSE SessionsAfter(opened, o.ssl)
    /\ UNCHANGED <<buildVars, retries, shutdownLoops, socketVars, altMutex, fault>>

\* "Clean up on failure": frees the context and closes tcpSocket, whichever
\* step failed.
MbedtlsCleanUp ==
    /\ variant = "mbedtls"
    /\ Goto("cleanup", "refused")
    /\ ssl' = MbedtlsContextFree(ssl)
    /\ Close(tcpSocket)
    /\ UNCHANGED <<buildVars, retries, shutdownLoops, tcp, tcpSocket, bio, sessions, altMutex>>

Pkcs11CleanUp ==
    /\ variant = "pkcs11"
    /\ Goto("cleanup", "refused")
    /\ Close(tcpSocket)
    /\ UNCHANGED <<buildVars, retries, shutdownLoops, tcp, tcpSocket, tlsVars>>

----------------------------------------------------------------------------
(* prvSocketConnect() and prvSocketDisconnect().                           *)

\* BackoffAlgorithm_GetNextBackoff() and the delay.
RetryConnect ==
    /\ retries < RetryMaxAttempts
    /\ Goto("refused", "connect")
    /\ retries' = retries + 1
    /\ UNCHANGED <<buildVars, shutdownLoops, socketVars, tlsVars, fault>>

\* configASSERT( xNetworkResult == pdPASS )
RetriesExhausted ==
    /\ Running /\ at = "refused"
    /\ retries >= RetryMaxAttempts
    /\ fault' = "assert"
    /\ UNCHANGED <<buildVars, at, retries, shutdownLoops, socketVars, tlsVars>>

\* The receive timeout becomes 0 here, so that ShutdownRecv does not wait.
SocketConnected ==
    /\ Goto("made", "up")
    /\ sockets' = [sockets EXCEPT ![tcpSocket].wakeup = TRUE]
    /\ UNCHANGED <<buildVars, retries, shutdownLoops, tcp, tcpSocket, tlsVars, fault>>

\* The wakeup callback is cleared; TLS_FreeRTOS_Disconnect() sends its
\* close-notify, the outcome of which is only logged.
SocketDisconnect ==
    /\ Continue("failed")
    /\ sockets' = [sockets EXCEPT ![tcpSocket].wakeup = FALSE]
    /\ UNCHANGED <<buildVars, retries, shutdownLoops, tcp, tcpSocket, tlsVars, fault>>

\* The rest of TLS_FreeRTOS_Disconnect(): the contexts, then the functions
\* their mutexes need.
MbedtlsFree ==
    /\ variant = "mbedtls"
    /\ Continue("free")
    /\ ssl' = MbedtlsContextFree(ssl)
    /\ UNCHANGED <<buildVars, retries, shutdownLoops, socketVars, bio, sessions, altMutex, fault>>

Pkcs11Free ==
    /\ variant = "pkcs11"
    /\ Continue("free")
    /\ ssl' = Pkcs11ContextFree(ssl)
    /\ sessions' = SessionsAfter(sessions, ssl)
    /\ UNCHANGED <<buildVars, retries, shutdownLoops, socketVars, bio, altMutex, fault>>

ClearMutexes ==
    /\ Continue("clear")
    /\ altMutex' = FALSE
    /\ UNCHANGED <<buildVars, retries, shutdownLoops, socketVars, ssl, bio, sessions, fault>>

----------------------------------------------------------------------------
(* Sending and receiving.  What the layer below returns, and what the      *)
(* transport interface makes of it: 0, retried by coreMQTT, is "none".     *)

\* The port's functions pass on what FreeRTOS_recv() and FreeRTOS_send()
\* return: 0 when there is nothing to read, an error when no space comes free.
mbedtls_platform_recv(link) == IF link = "dead" THEN {"error"} ELSE {"bytes", "nothing"}
mbedtls_platform_send(link) == IF link = "dead" THEN {"error"} ELSE {"bytes", "no space"}

\* mbedTLS returns 0 for 0 read, taken for the end of the file, asks for
\* another call after a record without data, and passes on the errors.
MbedtlsRead(link) ==
    UNION {IF r = "bytes" THEN {"bytes", "want read"} ELSE IF r = "nothing" THEN {"none"} ELSE {r} :
                r \in mbedtls_platform_recv(link)}
MbedtlsWrite(link) == mbedtls_platform_send(link)

Retriable == {"timeout", "want read", "want write"}
Translated(r) == CASE r \in Retriable -> "none" [] r = "no space" -> "error" [] OTHER -> r

\* Where the plain transport retries a send that found no space, TLS reports
\* an error, and the connection is torn down.
TLS_recv(r) == Translated(r)
TLS_send(r) == Translated(r)

\* The functions of the PKCS #11 variant are copies.
Pkcs11_recv(r) == TLS_recv(r)
Pkcs11_send(r) == TLS_send(r)

\* A read of one byte looks first whether there is one, and a socket that
\* failed has none.
PlaintextRecvResults(link) ==
    {"none"} \cup (IF link = "dead" THEN {"error"} ELSE {"bytes"})
Plaintext_recv(r) == r
PlaintextSendResults(link) == IF link = "dead" THEN {"error"} ELSE {"bytes", "no space"}
Plaintext_send(r) == IF r = "no space" THEN "none" ELSE r

RecvResults(link) ==
    CASE variant = "plaintext" -> {Plaintext_recv(r) : r \in PlaintextRecvResults(link)}
      [] variant = "mbedtls" -> {TLS_recv(r) : r \in MbedtlsRead(link)}
      [] variant = "pkcs11" -> {Pkcs11_recv(r) : r \in MbedtlsRead(link)}
SendResults(link) ==
    CASE variant = "plaintext" -> {Plaintext_send(r) : r \in PlaintextSendResults(link)}
      [] variant = "mbedtls" -> {TLS_send(r) : r \in MbedtlsWrite(link)}
      [] variant = "pkcs11" -> {Pkcs11_send(r) : r \in MbedtlsWrite(link)}

\* The command loop ends when the transport reports an error, and when the
\* broker has not answered for too long.
CommandLoopFails ==
    /\ Goto("up", "failed")
    /\ LET link == sockets[tcpSocket].link
       IN  link = "silent" \/ "error" \in RecvResults(link) \cup SendResults(link)
    /\ UNCHANGED <<buildVars, retries, shutdownLoops, socketVars, tlsVars, fault>>

\* At any moment the peer may fall silent, or the connection be ended.
LinkBreaks ==
    /\ Running
    /\ \E h \in DOMAIN sockets, l \in {"silent", "dead"} :
          /\ sockets[h].state = "open" /\ sockets[h].link \notin {l, "dead"}
          /\ sockets' = [sockets EXCEPT ![h].link = l]
    /\ UNCHANGED <<buildVars, at, retries, shutdownLoops, tcp, tcpSocket, tlsVars, fault>>

Stopped == ~Running /\ UNCHANGED vars

ConnectStep == NoNewSocket \/ CreateSocket \/ TcpFails \/ TcpConnected \/ RetryConnect
               \/ RetriesExhausted \/ SocketConnected
TlsStep == MbedtlsInit \/ Pkcs11Init \/ tlsSetup \/ tlsHandshake \/ Pkcs11TlsSetup
           \/ MbedtlsCleanUp \/ Pkcs11CleanUp
DisconnectStep == SocketDisconnect \/ ShutdownRecv \/ ShutdownEnds \/ MbedtlsFree \/ Pkcs11Free
                  \/ ClearMutexes
AgentStep == ConnectStep \/ TlsStep \/ DisconnectStep

Next == AgentStep \/ CommandLoopFails \/ LinkBreaks \/ Stopped

Spec == Init /\ [][Next]_vars

\* Every call has a timeout, and the agent task runs when it can.
FairSpec == Spec /\ WF_vars(AgentStep)

----------------------------------------------------------------------------
(* Properties.                                                             *)

Places == {"connect", "tcp", "init", "setup", "handshake", "cleanup", "refused", "made", "up",
           "failed", "shutdown", "free", "clear"}
Connected == at \in {"made", "up", "failed", "shutdown"}

\* Every variable has its type.
TypeOK ==
    /\ variant \in Variants /\ mutual \in BOOLEAN
    /\ at \in Places
    /\ retries \in 0 .. RetryMaxAttempts
    /\ shutdownLoops \in 0 .. ShutdownLoops - 1
    /\ sockets \in Seq([state : {"open", "closed"}, wakeup : BOOLEAN, link : {"good", "silent", "dead"}])
    /\ Len(sockets) <= MaxSockets
    /\ {tcp, tcpSocket, bio} \subseteq {NoSocket} \cup DOMAIN sockets
    /\ ssl \in [DOMAIN Zeroed -> {"zero", "init", "set", "up"}]
    /\ sessions \in Nat
    /\ altMutex \in BOOLEAN
    /\ fault \in {"none", "assert", "closed twice"}

\* No socket is lost: whichever step of an attempt fails, the only sockets
\* open are the one being connected and the one of the connection that is
\* being made, used or torn down.
CurrentSocketOnly ==
    \A h \in DOMAIN sockets : sockets[h].state = "open" =>
        \/ at = "tcp" /\ h = tcp
        \/ Connected /\ h = tcpSocket
        \/ at \in {"init", "setup", "handshake", "cleanup"} /\ h = tcpSocket

\* MQTT is only spoken through a TLS context that was set up with the root
\* CA, with the client's certificate and key where there are any, and that
\* reads and writes the socket of this connection, not of an earlier one.
SecuredBeforeUse ==
    Connected /\ Secured =>
        /\ ssl.context = "up" /\ bio = tcpSocket
        /\ ssl.config = "set" /\ ssl.rootCa = "set"
        /\ mutual \/ variant = "pkcs11" => ssl.clientCert = "set" /\ ssl.privKey = "set"

\* The TCP/IP task calls the wakeup callback, and looks at its socket, only
\* while that socket is open.
WakeupSocketIsOpen ==
    \A h \in DOMAIN sockets : sockets[h].wakeup => sockets[h].state = "open"

\* The entropy source and the random generator have mutexes of the port:
\* while they exist mbedTLS has the functions for them.
MutexesHeld == ssl.entropy # "zero" \/ ssl.drbg # "zero" => altMutex

\* A session of the PKCS #11 module is open exactly while there is a context
\* that refers to it, however often connecting fails half way.
SessionsBalanced ==
    /\ sessions = IF ssl.session = "set" THEN 1 ELSE 0
    /\ at \in {"connect", "tcp", "refused"} => sessions = 0

\* A lost connection is followed by another one or by the assertion that
\* gives up: no loop of connecting or disconnecting goes on for ever.
Recovers == (at = "failed") ~> (at = "up" \/ fault # "none")

\* No socket is closed that is not open.  Stated as what the comment "Clean
\* up on failure" in TLS_FreeRTOS_Connect() is about: what the attempt made.
ClosedOnce == fault # "closed twice"
=============================================================================
