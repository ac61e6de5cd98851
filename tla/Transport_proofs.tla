-------------------------- MODULE Transport_proofs --------------------------
(***************************************************************************)
(* For every set of transports a build may contain, every number of        *)
(* retries and every number of sockets: whichever step of making a         *)
(* connection or of tearing it down fails, no socket stays open that       *)
(* belongs to no connection, MQTT is only spoken through a TLS context     *)
(* that was set up completely on the socket of this connection, mbedTLS    *)
(* has its mutex functions as long as something has a mutex, and every     *)
(* PKCS #11 session is closed again.                                       *)
(***************************************************************************)
EXTENDS Transport, SequenceTheorems, TLAPS

SocketRecord == [state : {"open", "closed"}, wakeup : BOOLEAN, link : {"good", "silent", "dead"}]
Parts == {"config", "rootCa", "clientCert", "privKey", "context", "entropy", "drbg", "session"}
SslContext == [Parts -> {"zero", "init", "set", "up"}]

----------------------------------------------------------------------------
(* The inductive invariant: which steps a variant has, which socket a step *)
(* works on, and what the TLS context holds at each step.                  *)

VariantPlaces ==
    /\ variant = "plaintext" => at \notin {"init", "setup", "handshake", "cleanup", "free", "clear"}
    /\ variant = "pkcs11" => at # "handshake"

\* The socket of a step is open until the step that closes it.
SocketOfStep ==
    /\ at = "tcp" => tcp \in DOMAIN sockets /\ sockets[tcp].state = "open"
    /\ at \in {"init", "setup", "handshake"} \/ Connected =>
          tcpSocket \in DOMAIN sockets /\ sockets[tcpSocket].state = "open"

WakeupOfStep ==
    \A h \in DOMAIN sockets : sockets[h].wakeup => at \in {"up", "failed"} /\ h = tcpSocket

\* The handshake is made with a context that has all its parts.
ContextPrepared ==
    at = "handshake" => /\ ssl.config = "set" /\ ssl.rootCa = "set"
                        /\ mutual => ssl.clientCert = "set" /\ ssl.privKey = "set"

MutexPlaces ==
    ssl.entropy # "zero" \/ ssl.drbg # "zero" =>
        /\ altMutex /\ variant = "mbedtls"
        /\ at \in {"setup", "handshake", "cleanup", "free"} \/ Connected

SessionPlaces ==
    /\ sessions = IF ssl.session = "set" THEN 1 ELSE 0
    /\ ssl.session = "set" => variant = "pkcs11" /\ (at = "free" \/ Connected)

TransportInv ==
    /\ TypeOK /\ VariantPlaces
    /\ CurrentSocketOnly /\ SocketOfStep /\ WakeupOfStep
    /\ SecuredBeforeUse /\ ContextPrepared /\ MutexPlaces /\ SessionPlaces

----------------------------------------------------------------------------
(* The steps in their order, and the sockets.                              *)

\* The context after memset() has all its parts.
LEMMA ContextType == DOMAIN Zeroed = Parts /\ Zeroed \in SslContext
  BY DEF Zeroed, Parts, SslContext

\* The next step of each variant.
LEMMA ContinueTo ==
    ASSUME TypeOK, NEW from, Continue(from)
    PROVE  /\ Running /\ at = from
           /\ from = "tcp" => at' = IF Secured THEN "init" ELSE "made"
           /\ from = "init" /\ Secured => at' = "setup"
           /\ from = "setup" /\ variant = "mbedtls" => at' = "handshake"
           /\ from = "setup" /\ variant = "pkcs11" => at' = "made"
           /\ from = "handshake" /\ variant = "mbedtls" => at' = "made"
           /\ from = "failed" => at' = "shutdown"
           /\ from = "shutdown" => at' = IF Secured THEN "free" ELSE "connect"
           /\ from = "free" /\ Secured => at' = "clear"
           /\ from = "clear" /\ Secured => at' = "connect"
<1>1. variant \in {"plaintext", "mbedtls", "pkcs11"}
  BY TransportAssumption DEF TypeOK
<1>2. CASE variant = "plaintext"
  BY <1>2 DEF Continue, Goto, Secured, PlaintextConnect, PlaintextDisconnect
<1>3. CASE variant = "mbedtls"
  BY <1>3 DEF Continue, Goto, Secured, MbedtlsConnect, MbedtlsDisconnect
<1>4. CASE variant = "pkcs11"
  BY <1>4 DEF Continue, Goto, Secured, Pkcs11Connect, Pkcs11Disconnect
<1>5. QED
  BY <1>1, <1>2, <1>3, <1>4

\* A socket that is opened has all its fields.
LEMMA SocketsAreRecords ==
    ASSUME TypeOK
    PROVE  /\ sockets \in Seq(SocketRecord)
           /\ DOMAIN sockets = 1 .. Len(sockets) /\ Len(sockets) \in Nat
           /\ \A g \in DOMAIN sockets : g # NoSocket /\ sockets[g] \in SocketRecord
<1>1. sockets \in Seq(SocketRecord)
  BY DEF TypeOK, SocketRecord
<1>2. DOMAIN sockets = 1 .. Len(sockets) /\ Len(sockets) \in Nat
  BY <1>1, LenProperties
<1>3. \A g \in 1 .. Len(sockets) : g # NoSocket
  BY <1>2 DEF NoSocket
<1>4. QED
  BY <1>1, <1>2, <1>3, ElementOfSeq

\* A record of a socket with one field changed.
LEMMA RecordChanges ==
    ASSUME NEW r \in SocketRecord
    PROVE  /\ \A v \in {"open", "closed"} :
                 /\ [r EXCEPT !.state = v] \in SocketRecord
                 /\ [r EXCEPT !.state = v].state = v
                 /\ [r EXCEPT !.state = v].wakeup = r.wakeup
           /\ \A v \in BOOLEAN :
                 /\ [r EXCEPT !.wakeup = v] \in SocketRecord
                 /\ [r EXCEPT !.wakeup = v].wakeup = v
                 /\ [r EXCEPT !.wakeup = v].state = r.state
           /\ \A v \in {"good", "silent", "dead"} :
                 /\ [r EXCEPT !.link = v] \in SocketRecord
                 /\ [r EXCEPT !.link = v].wakeup = r.wakeup
                 /\ [r EXCEPT !.link = v].state = r.state
  BY DEF SocketRecord

\* One socket changes its state.
LEMMA SocketChanges ==
    ASSUME TypeOK, NEW h \in DOMAIN sockets, NEW v \in SocketRecord,
           sockets' = [sockets EXCEPT ![h] = v]
    PROVE  /\ sockets' \in Seq(SocketRecord)
           /\ DOMAIN sockets' = DOMAIN sockets /\ Len(sockets') = Len(sockets)
           /\ sockets'[h] = v
           /\ \A g \in DOMAIN sockets \ {h} : sockets'[g] = sockets[g]
<1>1. sockets \in Seq(SocketRecord) /\ h \in 1 .. Len(sockets)
  BY SocketsAreRecords
<1>2. sockets' \in Seq(SocketRecord) /\ Len(sockets') = Len(sockets)
  BY <1>1, ExceptSeq
<1>3. QED
  BY <1>1, <1>2

\* After FreeRTOS_closesocket() the socket is closed, whether it was open or
\* the call was a mistake; the other sockets are as they were.
LEMMA CloseCloses ==
    ASSUME TypeOK, NEW h \in {NoSocket} \cup DOMAIN sockets, Close(h)
    PROVE  /\ sockets' \in Seq(SocketRecord)
           /\ DOMAIN sockets' = DOMAIN sockets /\ Len(sockets') = Len(sockets)
           /\ \A g \in DOMAIN sockets :
                 /\ g # h => sockets'[g] = sockets[g]
                 /\ g = h => sockets'[g].state = "closed"
                 /\ sockets'[g].wakeup = sockets[g].wakeup
           /\ fault' \in {"none", "assert", "closed twice"}
<1>1. /\ sockets \in Seq(SocketRecord)
      /\ fault \in {"none", "assert", "closed twice"}
      /\ \A g \in DOMAIN sockets : g # NoSocket /\ sockets[g] \in SocketRecord
  BY SocketsAreRecords DEF TypeOK, SocketRecord
<1>2. CASE h = NoSocket \/ sockets[h].state # "open"
  BY <1>1, <1>2 DEF Close, SocketRecord
<1>3. CASE h # NoSocket /\ sockets[h].state = "open"
  <2> DEFINE v == [sockets[h] EXCEPT !.state = "closed"]
  <2>1. h \in DOMAIN sockets /\ sockets' = [sockets EXCEPT ![h] = v] /\ fault' = fault
    BY <1>3 DEF Close
  <2>2. v \in SocketRecord /\ v.state = "closed" /\ v.wakeup = sockets[h].wakeup
    BY <1>1, <2>1, RecordChanges
  <2> HIDE DEF v
  <2>3. /\ sockets' \in Seq(SocketRecord)
        /\ DOMAIN sockets' = DOMAIN sockets /\ Len(sockets') = Len(sockets)
        /\ sockets'[h] = v
        /\ \A g \in DOMAIN sockets \ {h} : sockets'[g] = sockets[g]
    BY <1>1, <2>1, <2>2, SocketChanges
  <2>4. QED
    BY <1>1, <2>1, <2>2, <2>3
<1>4. QED
  BY <1>2, <1>3

----------------------------------------------------------------------------
(* What the operations on a TLS context do to it, whether they succeed or  *)
(* not.                                                                    *)

\* The parts of a context that an operation leaves alone.
Keeps(s, t, changed) == t \in SslContext /\ \A p \in Parts \ changed : t[p] = s[p]

\* Loading one part of the credentials sets that part or fails.
LEMMA LoadSets ==
    ASSUME NEW s \in SslContext, NEW part \in Parts, NEW o \in Load(part, s)
    PROVE  /\ o.ok \in BOOLEAN
           /\ Keeps(s, o.ssl, {part})
           /\ o.ok => o.ssl[part] = "set"
<1>1. \/ o.ok = TRUE /\ o.ssl = [s EXCEPT ![part] = "set"]
      \/ o.ok = FALSE /\ o.ssl = s
  BY DEF Load, Outcome
<1>2. /\ [s EXCEPT ![part] = "set"] \in SslContext
      /\ [s EXCEPT ![part] = "set"][part] = "set"
      /\ \A p \in Parts \ {part} : [s EXCEPT ![part] = "set"][p] = s[p]
  BY DEF SslContext
<1>3. QED
  BY <1>1, <1>2 DEF Keeps

\* The outcome p of an operation that loads one part, after the outcome q of
\* the one before: skipped when that one failed, and it may refuse at once.
LoadedNext(part, q, p) ==
    /\ q.ok => p \in Load(part, q.ssl) \cup {Outcome(FALSE, q.ssl)}
    /\ ~q.ok => p = q

Outcomes == [ok : BOOLEAN, ssl : SslContext]

\* Loading a part is an outcome of the setup so far.
LEMMA LoadIsOutcome ==
    ASSUME NEW s \in SslContext, NEW part \in Parts, NEW o \in Load(part, s)
    PROVE  o \in Outcomes
<1> DEFINE t == [s EXCEPT ![part] = "set"]
<1>1. t \in SslContext
  BY DEF SslContext
<1>2. o = [ok |-> TRUE, ssl |-> t] \/ o = [ok |-> FALSE, ssl |-> s]
  BY DEF Load, Outcome
<1> HIDE DEF t
<1>3. \A u \in SslContext, b \in BOOLEAN : [ok |-> b, ssl |-> u] \in Outcomes
  BY DEF Outcomes
<1>4. QED
  BY <1>1, <1>2, <1>3

\* A part that is loaded after others leaves them as they are.
LEMMA ThenLoads ==
    ASSUME NEW part \in Parts, NEW q \in Outcomes, NEW p, LoadedNext(part, q, p)
    PROVE  /\ p \in Outcomes
           /\ \A x \in Parts \ {part} : p.ssl[x] = q.ssl[x]
           /\ p.ok => q.ok /\ p.ssl[part] = "set"
<1>0. q.ok \in BOOLEAN /\ q.ssl \in SslContext
  BY DEF Outcomes
<1>1. CASE ~q.ok
  BY <1>1 DEF LoadedNext
<1>2. CASE q.ok /\ p \in Load(part, q.ssl)
  <2>1. p \in Outcomes
    BY <1>0, <1>2, LoadIsOutcome
  <2>2. /\ p.ok \in BOOLEAN /\ Keeps(q.ssl, p.ssl, {part})
        /\ p.ok => p.ssl[part] = "set"
    BY <1>0, <1>2, LoadSets
  <2>3. QED
    BY <1>2, <2>1, <2>2 DEF Keeps
<1>3. CASE q.ok /\ p = Outcome(FALSE, q.ssl)
  <2>1. p.ok = FALSE /\ p.ssl = q.ssl /\ p \in Outcomes
    BY <1>0, <1>3 DEF Outcome, Outcomes
  <2>2. QED
    BY <2>1
<1>4. QED
  BY <1>1, <1>2, <1>3 DEF LoadedNext

\* setCredentials(): when it succeeds, every part it is to load is loaded.
LEMMA CredentialsSet ==
    ASSUME NEW s \in SslContext, NEW o \in setCredentials(s)
    PROVE  /\ o.ok \in BOOLEAN
           /\ Keeps(s, o.ssl, {"rootCa", "clientCert", "privKey"})
           /\ o.ok => /\ o.ssl.rootCa = "set"
                      /\ mutual => o.ssl.clientCert = "set" /\ o.ssl.privKey = "set"
<1>0. "rootCa" \in Parts /\ "clientCert" \in Parts /\ "privKey" \in Parts
  BY DEF Parts
<1>1. CASE ~mutual
  <2>1. o \in Load("rootCa", s)
    BY <1>1 DEF setCredentials, setRootCa
  <2>2. QED
    BY <1>0, <1>1, <2>1, LoadSets DEF Keeps
<1>2. CASE mutual
  <2>1. o \in Then(Then(Then(setRootCa(s), setClientCertificate), setPrivateKey), ConfOwnCert)
    BY <1>2 DEF setCredentials
  <2>2. PICK p \in Then(Then(setRootCa(s), setClientCertificate), setPrivateKey) :
            IF p.ok THEN o \in ConfOwnCert(p.ssl) ELSE o = p
    BY <2>1 DEF Then
  <2>3. PICK q \in Then(setRootCa(s), setClientCertificate) :
            IF q.ok THEN p \in Load("privKey", q.ssl) ELSE p = q
    BY <2>2 DEF Then, setPrivateKey
  <2>4. PICK r \in Load("rootCa", s) : IF r.ok THEN q \in Load("clientCert", r.ssl) ELSE q = r
    BY <2>3 DEF Then, setRootCa, setClientCertificate
  <2>5. /\ r \in Outcomes /\ Keeps(s, r.ssl, {"rootCa"})
        /\ r.ok => r.ssl["rootCa"] = "set"
    BY <1>0, <2>4, LoadSets, LoadIsOutcome
  <2>6. LoadedNext("clientCert", r, q) /\ LoadedNext("privKey", q, p)
    BY <2>3, <2>4 DEF LoadedNext
  <2>7. /\ q \in Outcomes
        /\ \A x \in Parts \ {"clientCert"} : q.ssl[x] = r.ssl[x]
        /\ q.ok => r.ok /\ q.ssl["clientCert"] = "set"
    BY <1>0, <2>5, <2>6, ThenLoads
  <2>8. /\ p \in Outcomes
        /\ \A x \in Parts \ {"privKey"} : p.ssl[x] = q.ssl[x]
        /\ p.ok => q.ok /\ p.ssl["privKey"] = "set"
    BY <1>0, <2>6, <2>7, ThenLoads
  <2>9. p.ok \in BOOLEAN /\ Keeps(s, p.ssl, {"rootCa", "clientCert", "privKey"})
    <3>1. p.ok \in BOOLEAN /\ p.ssl \in SslContext
      BY <2>8 DEF Outcomes
    <3>2. \A x \in Parts \ {"rootCa", "clientCert", "privKey"} : p.ssl[x] = s[x]
      BY <2>5, <2>7, <2>8 DEF Keeps
    <3>3. QED
      BY <3>1, <3>2 DEF Keeps
  <2>10. o.ok \in BOOLEAN /\ o.ssl = p.ssl /\ (o.ok => p.ok)
    <3>1. CASE p.ok
      <4>1. o = [ok |-> TRUE, ssl |-> p.ssl] \/ o = [ok |-> FALSE, ssl |-> p.ssl]
        BY <2>2, <3>1 DEF ConfOwnCert, Outcome
      <4>2. (o.ok = TRUE \/ o.ok = FALSE) /\ o.ssl = p.ssl
        BY <4>1
      <4>3. QED
        BY <3>1, <4>2
    <3>2. CASE ~p.ok
      BY <2>2, <2>9, <3>2
    <3>3. QED
      BY <3>1, <3>2
  <2>11. p.ok => p.ssl.rootCa = "set" /\ p.ssl.clientCert = "set" /\ p.ssl.privKey = "set"
    BY <1>0, <2>5, <2>7, <2>8
  <2>12. QED
    BY <2>9, <2>10, <2>11 DEF Keeps
<1>3. QED
  BY <1>1, <1>2

\* tlsSetup() of using_mbedtls.c, up to the handshake.
LEMMA MbedtlsSetupSets ==
    ASSUME NEW s \in SslContext, NEW o \in MbedtlsSetup(s)
    PROVE  /\ o.ok \in BOOLEAN
           /\ Keeps(s, o.ssl, {"config", "rootCa", "clientCert", "privKey", "context"})
           /\ o.ok => /\ o.ssl.config = "set" /\ o.ssl.rootCa = "set"
                      /\ mutual => o.ssl.clientCert = "set" /\ o.ssl.privKey = "set"
<1> DEFINE i == MbedtlsContextInit(s)
<1>0. "config" \in Parts
  BY DEF Parts
<1>1. Keeps(s, i, {"config", "rootCa", "clientCert", "privKey", "context"}) /\ i \in SslContext
  BY DEF MbedtlsContextInit, Keeps, SslContext
<1>2. PICK p \in Then(Load("config", i), setCredentials) :
          IF p.ok THEN o \in setOptionalConfigurations(p.ssl) ELSE o = p
  BY DEF MbedtlsSetup, Then
<1>3. PICK q \in Load("config", i) : IF q.ok THEN p \in setCredentials(q.ssl) ELSE p = q
  BY <1>2 DEF Then
<1> HIDE DEF i
<1>4. q.ok \in BOOLEAN /\ Keeps(i, q.ssl, {"config"}) /\ (q.ok => q.ssl["config"] = "set")
  BY <1>0, <1>1, <1>3, LoadSets
<1>5. /\ p.ok \in BOOLEAN
      /\ Keeps(i, p.ssl, {"config", "rootCa", "clientCert", "privKey"})
      /\ p.ok => /\ p.ssl.config = "set" /\ p.ssl.rootCa = "set"
                 /\ mutual => p.ssl.clientCert = "set" /\ p.ssl.privKey = "set"
  <2>1. CASE ~q.ok
    BY <1>3, <1>4, <2>1 DEF Keeps
  <2>2. CASE q.ok
    <3>1. p \in setCredentials(q.ssl) /\ q.ssl \in SslContext
      BY <1>3, <1>4, <2>2 DEF Keeps
    <3>2. /\ p.ok \in BOOLEAN
          /\ Keeps(q.ssl, p.ssl, {"rootCa", "clientCert", "privKey"})
          /\ p.ok => /\ p.ssl.rootCa = "set"
                     /\ mutual => p.ssl.clientCert = "set" /\ p.ssl.privKey = "set"
      BY <3>1, CredentialsSet
    <3>3. p.ssl.config = q.ssl.config
      BY <1>0, <3>2 DEF Keeps
    <3>4. QED
      BY <1>4, <2>2, <3>2, <3>3 DEF Keeps
  <2>3. QED
    BY <2>1, <2>2
<1>6. o.ok \in BOOLEAN /\ o.ssl = p.ssl /\ (o.ok => p.ok)
  <2>1. CASE p.ok
    <3>1. o = [ok |-> TRUE, ssl |-> p.ssl]
      BY <1>2, <2>1 DEF setOptionalConfigurations, Outcome
    <3>2. QED
      BY <2>1, <3>1
  <2>2. CASE ~p.ok
    BY <1>2, <1>5, <2>2
  <2>3. QED
    BY <2>1, <2>2
<1>7. QED
  BY <1>1, <1>5, <1>6 DEF Keeps

\* mbedtls_ssl_setup() and the handshake touch the context itself only.
LEMMA HandshakeSets ==
    ASSUME NEW s \in SslContext, NEW o \in Handshake(s)
    PROVE  /\ o.ok \in BOOLEAN
           /\ Keeps(s, o.ssl, {"context"})
           /\ o.ok => o.ssl.context = "up"
<1>1. \/ o.ok = TRUE /\ o.ssl = [s EXCEPT !.context = "up"]
      \/ o.ok = FALSE /\ o.ssl = [s EXCEPT !.context = "set"]
      \/ o.ok = FALSE /\ o.ssl = s
  BY DEF Handshake, Outcome
<1>2. \A v \in {"up", "set"} :
          /\ [s EXCEPT !.context = v] \in SslContext
          /\ [s EXCEPT !.context = v].context = v
          /\ \A p \in Parts \ {"context"} : [s EXCEPT !.context = v][p] = s[p]
  BY DEF SslContext, Parts
<1>3. QED
  BY <1>1, <1>2 DEF Keeps

\* The start of tlsSetup() of using_mbedtls_pkcs11.c.
LEMMA Pkcs11InitSets ==
    ASSUME NEW s \in SslContext, NEW t \in Pkcs11ContextInit(s)
    PROVE  /\ Keeps(s, t, {"config", "rootCa", "clientCert", "context", "session"})
           /\ t.session = "set" \/ t.session = s.session
<1> DEFINE i == [p \in DOMAIN s |-> IF p \in {"config", "rootCa", "clientCert", "context"}
                                    THEN "init" ELSE s[p]]
<1>1. /\ i \in SslContext
      /\ \A p \in Parts \ {"config", "rootCa", "clientCert", "context"} : i[p] = s[p]
  BY DEF SslContext
<1>2. t = [i EXCEPT !.session = "set"] \/ t = i
  BY DEF Pkcs11ContextInit
<1> HIDE DEF i
<1>3. "session" \in Parts
  BY DEF Parts
<1>4. /\ [i EXCEPT !.session = "set"] \in SslContext
      /\ [i EXCEPT !.session = "set"].session = "set"
      /\ \A p \in Parts \ {"session"} : [i EXCEPT !.session = "set"][p] = i[p]
  BY <1>1, <1>3 DEF SslContext
<1>5. QED
  BY <1>1, <1>2, <1>3, <1>4 DEF Keeps

\* The PKCS #11 setup that succeeds has set what the connection needs.
LEMMA Pkcs11SetupSets ==
    ASSUME NEW s \in SslContext, NEW o \in Pkcs11Setup(s)
    PROVE  /\ o.ok \in BOOLEAN
           /\ Keeps(s, o.ssl, {"config", "rootCa", "privKey", "clientCert"})
           /\ o.ok => /\ o.ssl.config = "set" /\ o.ssl.rootCa = "set"
                      /\ o.ssl.clientCert = "set" /\ o.ssl.privKey = "set"
<1>0. "config" \in Parts /\ "rootCa" \in Parts /\ "clientCert" \in Parts /\ "privKey" \in Parts
  BY DEF Parts
<1>1. PICK p \in Then(Then(Load("config", s), setRootCa), initializeClientKeys) :
          IF p.ok THEN o \in readCertificateIntoContext(p.ssl) ELSE o = p
  BY DEF Pkcs11Setup, Then
<1>2. PICK q \in Then(Load("config", s), setRootCa) :
          IF q.ok THEN p \in initializeClientKeys(q.ssl) ELSE p = q
  BY <1>1 DEF Then
<1>3. PICK r \in Load("config", s) : IF r.ok THEN q \in Load("rootCa", r.ssl) ELSE q = r
  BY <1>2 DEF Then, setRootCa
<1>4. /\ LoadedNext("rootCa", r, q) /\ LoadedNext("privKey", q, p)
      /\ LoadedNext("clientCert", p, o)
  BY <1>1, <1>2, <1>3 DEF LoadedNext, initializeClientKeys, readCertificateIntoContext
<1>5. /\ r \in Outcomes /\ Keeps(s, r.ssl, {"config"})
      /\ r.ok => r.ssl["config"] = "set"
  BY <1>0, <1>3, LoadSets, LoadIsOutcome
<1>6. /\ q \in Outcomes
      /\ \A x \in Parts \ {"rootCa"} : q.ssl[x] = r.ssl[x]
      /\ q.ok => r.ok /\ q.ssl["rootCa"] = "set"
  BY <1>0, <1>4, <1>5, ThenLoads
<1>7. /\ p \in Outcomes
      /\ \A x \in Parts \ {"privKey"} : p.ssl[x] = q.ssl[x]
      /\ p.ok => q.ok /\ p.ssl["privKey"] = "set"
  BY <1>0, <1>4, <1>6, ThenLoads
<1>8. /\ o \in Outcomes
      /\ \A x \in Parts \ {"clientCert"} : o.ssl[x] = p.ssl[x]
      /\ o.ok => p.ok /\ o.ssl["clientCert"] = "set"
  BY <1>0, <1>4, <1>7, ThenLoads
<1>9. o.ok \in BOOLEAN /\ Keeps(s, o.ssl, {"config", "rootCa", "privKey", "clientCert"})
  BY <1>5, <1>6, <1>7, <1>8 DEF Keeps, Outcomes
<1>10. o.ok => /\ o.ssl.config = "set" /\ o.ssl.rootCa = "set"
               /\ o.ssl.clientCert = "set" /\ o.ssl.privKey = "set"
  BY <1>0, <1>5, <1>6, <1>7, <1>8
<1>11. QED
  BY <1>9, <1>10

\* The handshake with the private key's operation in the module.
LEMMA Pkcs11HandshakeSets ==
    ASSUME NEW s \in SslContext, NEW o \in Pkcs11Handshake(s)
    PROVE  /\ o.ok \in BOOLEAN
           /\ Keeps(s, o.ssl, {"context"})
           /\ o.ok => o.ssl.context = "up"
<1>1. PICK p \in generateRandomBytes(s) : IF p.ok THEN o \in SignedHandshake(p.ssl) ELSE o = p
  BY DEF Pkcs11Handshake, Then
<1>2. p = Outcome(TRUE, s) \/ p = Outcome(FALSE, s)
  BY <1>1 DEF generateRandomBytes
<1>3. CASE p = Outcome(TRUE, s)
  <2>1. p.ok = TRUE /\ p.ssl = s
    BY <1>3 DEF Outcome
  <2>2. o \in SignedHandshake(s)
    BY <1>1, <2>1
  <2>3. o \in Handshake(s)
    BY <2>2 DEF SignedHandshake
  <2>4. QED
    BY <2>3, HandshakeSets
<1>4. CASE p = Outcome(FALSE, s)
  <2>1. p.ok = FALSE /\ p.ssl = s
    BY <1>4 DEF Outcome
  <2>2. o = p
    BY <1>1, <2>1
  <2>3. QED
    BY <2>1, <2>2 DEF Keeps
<1>5. QED
  BY <1>2, <1>3, <1>4

\* The rest of tlsSetup() of the PKCS #11 variant.
LEMMA Pkcs11ConnectionSets ==
    ASSUME NEW s \in SslContext, NEW o \in Pkcs11Connection(s)
    PROVE  /\ o.ok \in BOOLEAN
           /\ Keeps(s, o.ssl, {"config", "rootCa", "privKey", "clientCert", "context"})
           /\ o.ok => /\ o.ssl.config = "set" /\ o.ssl.rootCa = "set" /\ o.ssl.context = "up"
                      /\ o.ssl.clientCert = "set" /\ o.ssl.privKey = "set"
<1>0. "config" \in Parts /\ "rootCa" \in Parts /\ "clientCert" \in Parts /\ "privKey" \in Parts
  BY DEF Parts
<1>1. PICK p \in Then(Pkcs11Setup(s), Pkcs11Options) :
          IF p.ok THEN o \in Pkcs11Handshake(p.ssl) ELSE o = p
  BY DEF Pkcs11Connection, Then
<1>2. PICK q \in Pkcs11Setup(s) : IF q.ok THEN p \in Pkcs11Options(q.ssl) ELSE p = q
  BY <1>1 DEF Then
<1>3. /\ q.ok \in BOOLEAN
      /\ Keeps(s, q.ssl, {"config", "rootCa", "privKey", "clientCert"})
      /\ q.ok => /\ q.ssl.config = "set" /\ q.ssl.rootCa = "set"
                 /\ q.ssl.clientCert = "set" /\ q.ssl.privKey = "set"
  BY <1>2, Pkcs11SetupSets
<1>4. p.ok \in BOOLEAN /\ p.ssl = q.ssl /\ (p.ok => q.ok)
  <2>1. CASE q.ok
    <3>1. p = [ok |-> TRUE, ssl |-> q.ssl] \/ p = [ok |-> FALSE, ssl |-> q.ssl]
      BY <1>2, <2>1 DEF Pkcs11Options, Outcome
    <3>2. (p.ok = TRUE \/ p.ok = FALSE) /\ p.ssl = q.ssl
      BY <3>1
    <3>3. QED
      BY <2>1, <3>2
  <2>2. CASE ~q.ok
    BY <1>2, <1>3, <2>2
  <2>3. QED
    BY <2>1, <2>2
<1>5. CASE ~p.ok
  BY <1>1, <1>3, <1>4, <1>5 DEF Keeps
<1>6. CASE p.ok
  <2>1. o \in Pkcs11Handshake(p.ssl) /\ p.ssl \in SslContext
    BY <1>1, <1>3, <1>4, <1>6 DEF Keeps
  <2>2. o.ok \in BOOLEAN /\ Keeps(p.ssl, o.ssl, {"context"}) /\ (o.ok => o.ssl.context = "up")
    BY <2>1, Pkcs11HandshakeSets
  <2>3. /\ o.ssl.config = p.ssl.config /\ o.ssl.rootCa = p.ssl.rootCa
        /\ o.ssl.clientCert = p.ssl.clientCert /\ o.ssl.privKey = p.ssl.privKey
    BY <1>0, <2>2 DEF Keeps
  <2>4. QED
    BY <1>3, <1>4, <1>6, <2>2, <2>3 DEF Keeps
<1>7. QED
  BY <1>5, <1>6

\* The contexts after they are freed, and with the mutexes of initMbedtls().
LEMMA FreedContexts ==
    ASSUME NEW s \in SslContext
    PROVE  /\ MbedtlsContextFree(s) \in SslContext /\ Pkcs11ContextFree(s) \in SslContext
           /\ \A p \in Parts : MbedtlsContextFree(s)[p] = "zero"
           /\ \A p \in Parts \ {"privKey"} : Pkcs11ContextFree(s)[p] = "zero"
<1>1. "privKey" \in Parts /\ Zeroed \in SslContext /\ \A p \in Parts : Zeroed[p] = "zero"
  BY DEF Parts, Zeroed, SslContext
<1>2. QED
  BY <1>1 DEF MbedtlsContextFree, Pkcs11ContextFree, SslContext

\* Initialising the mutexes keeps the count of those in use.
LEMMA MutexInitSets ==
    ASSUME NEW s \in SslContext
    PROVE  /\ Keeps(s, mbedtls_platform_mutex_init(s), {"entropy", "drbg"})
           /\ Keeps(s, [mbedtls_platform_mutex_init(s) EXCEPT !.drbg = "set"], {"entropy", "drbg"})
<1> DEFINE t == mbedtls_platform_mutex_init(s)
<1>1. t \in SslContext /\ \A p \in Parts \ {"entropy", "drbg"} : t[p] = s[p]
  BY DEF SslContext, Parts, mbedtls_platform_mutex_init
<1> HIDE DEF t
<1>2. /\ [t EXCEPT !.drbg = "set"] \in SslContext
      /\ \A p \in Parts \ {"entropy", "drbg"} : [t EXCEPT !.drbg = "set"][p] = t[p]
  BY <1>1 DEF SslContext, Parts
<1>3. QED
  BY <1>1, <1>2 DEF Keeps, t

\* A wakeup callback set or cleared.
LEMMA WakeupChanges ==
    ASSUME TypeOK, NEW h \in DOMAIN sockets, NEW b \in BOOLEAN,
           sockets' = [sockets EXCEPT ![h].wakeup = b]
    PROVE  /\ sockets' \in Seq(SocketRecord)
           /\ DOMAIN sockets' = DOMAIN sockets /\ Len(sockets') = Len(sockets)
           /\ sockets'[h].wakeup = b
           /\ \A g \in DOMAIN sockets : /\ sockets'[g].state = sockets[g].state
                                        /\ g # h => sockets'[g].wakeup = sockets[g].wakeup
<1> DEFINE v == [sockets[h] EXCEPT !.wakeup = b]
<1>1. \A g \in DOMAIN sockets : sockets[g] \in SocketRecord
  BY SocketsAreRecords
<1>2. v \in SocketRecord /\ v.wakeup = b /\ v.state = sockets[h].state
  BY <1>1 DEF SocketRecord
<1>3. sockets' = [sockets EXCEPT ![h] = v]
  OBVIOUS
<1> HIDE DEF v
<1>4. QED
  BY <1>2, <1>3, SocketChanges

\* A connection that falls silent or ends.
LEMMA LinkChanges ==
    ASSUME TypeOK, NEW h \in DOMAIN sockets, NEW l \in {"silent", "dead"},
           sockets' = [sockets EXCEPT ![h].link = l]
    PROVE  /\ sockets' \in Seq(SocketRecord)
           /\ DOMAIN sockets' = DOMAIN sockets /\ Len(sockets') = Len(sockets)
           /\ \A g \in DOMAIN sockets : /\ sockets'[g].state = sockets[g].state
                                        /\ sockets'[g].wakeup = sockets[g].wakeup
<1> DEFINE v == [sockets[h] EXCEPT !.link = l]
<1>1. \A g \in DOMAIN sockets : sockets[g] \in SocketRecord
  BY SocketsAreRecords
<1>2. v \in SocketRecord /\ v.wakeup = sockets[h].wakeup /\ v.state = sockets[h].state
  BY <1>1 DEF SocketRecord
<1>3. sockets' = [sockets EXCEPT ![h] = v]
  OBVIOUS
<1> HIDE DEF v
<1>4. QED
  BY <1>2, <1>3, SocketChanges

\* A new socket.
LEMMA SocketAppended ==
    ASSUME TypeOK, sockets' = Append(sockets, NewSocket)
    PROVE  /\ sockets' \in Seq(SocketRecord) /\ Len(sockets') = Len(sockets) + 1
           /\ DOMAIN sockets' = 1 .. Len(sockets) + 1
           /\ Len(sockets') \in DOMAIN sockets' /\ DOMAIN sockets \subseteq DOMAIN sockets'
           /\ sockets'[Len(sockets')].state = "open" /\ ~sockets'[Len(sockets')].wakeup
           /\ \A g \in DOMAIN sockets : sockets'[g] = sockets[g] /\ g # Len(sockets')
<1>1. /\ sockets \in Seq(SocketRecord)
      /\ DOMAIN sockets = 1 .. Len(sockets) /\ Len(sockets) \in Nat
  BY SocketsAreRecords
<1>2. NewSocket \in SocketRecord /\ NewSocket.state = "open" /\ NewSocket.wakeup = FALSE
  BY DEF NewSocket, SocketRecord
<1>3. /\ sockets' \in Seq(SocketRecord) /\ Len(sockets') = Len(sockets) + 1
      /\ sockets'[Len(sockets) + 1] = NewSocket
      /\ \A g \in 1 .. Len(sockets) : sockets'[g] = sockets[g]
  BY <1>1, <1>2, AppendProperties
<1>4. DOMAIN sockets' = 1 .. Len(sockets')
  BY <1>3, LenProperties
<1>5. QED
  BY <1>1, <1>2, <1>3, <1>4

----------------------------------------------------------------------------
(* The invariant.  Every action keeps it: first its types and the steps of *)
(* the variant, then the sockets, then the TLS context.                    *)

\* An action that opens no socket leaves the older ones as they are.
LEMMA NoNewSocketKeeps ==
    ASSUME TransportInv, NoNewSocket
    PROVE  TransportInv'
<1> USE DEF NoNewSocket, Goto, Running, buildVars, socketVars, tlsVars
<1>1. variant \in {"plaintext", "mbedtls", "pkcs11"} /\ ssl \in SslContext
  BY TransportAssumption, ContextType DEF TransportInv, TypeOK, SslContext
<1>2. TypeOK'
  BY DEF TransportInv, TypeOK, Places, Failed
<1>3. VariantPlaces'
  BY DEF VariantPlaces, Failed, Secured
<1>4. CurrentSocketOnly'
  BY DEF TransportInv, CurrentSocketOnly, Connected
<1>5. SocketOfStep'
  BY DEF SocketOfStep, Connected, Failed
<1>6. WakeupOfStep'
  BY DEF TransportInv, WakeupOfStep
<1>7. SecuredBeforeUse' /\ ContextPrepared'
  BY DEF SecuredBeforeUse, ContextPrepared, Connected, Failed
<1>8. MutexPlaces'
  BY DEF TransportInv, MutexPlaces, Failed, Secured
<1>9. SessionPlaces'
  BY DEF TransportInv, SessionPlaces, Connected
<1>10. QED
  BY <1>2, <1>3, <1>4, <1>5, <1>6, <1>7, <1>8, <1>9 DEF TransportInv

\* Each action keeps the invariant.  In each proof the first step says what the
\* action changes; then one step follows for each part of the invariant.
LEMMA CreateSocketKeeps ==
    ASSUME TransportInv, CreateSocket
    PROVE  TransportInv'
<1> USE DEF CreateSocket, Goto, Running, buildVars, socketVars, tlsVars
<1>1. variant \in {"plaintext", "mbedtls", "pkcs11"} /\ ssl \in SslContext
  BY TransportAssumption, ContextType DEF TransportInv, TypeOK, SslContext
<1>2. /\ sockets' \in Seq(SocketRecord) /\ Len(sockets') = Len(sockets) + 1
      /\ DOMAIN sockets' = 1 .. Len(sockets) + 1
      /\ Len(sockets') \in DOMAIN sockets' /\ DOMAIN sockets \subseteq DOMAIN sockets'
      /\ sockets'[Len(sockets')].state = "open" /\ ~sockets'[Len(sockets')].wakeup
      /\ \A g \in DOMAIN sockets : sockets'[g] = sockets[g] /\ g # Len(sockets')
  BY SocketAppended DEF TransportInv
<1>3. TypeOK'
  BY <1>2, TransportAssumption DEF TransportInv, TypeOK, Places, SocketRecord
<1>4. VariantPlaces'
  BY DEF VariantPlaces
<1>5. CurrentSocketOnly'
  BY DEF TransportInv, CurrentSocketOnly, Connected
<1>6. SocketOfStep'
  BY <1>2 DEF SocketOfStep, Connected
<1>7. WakeupOfStep'
  BY <1>2 DEF TransportInv, WakeupOfStep
<1>8. SecuredBeforeUse' /\ ContextPrepared'
  BY DEF SecuredBeforeUse, ContextPrepared, Connected
<1>9. MutexPlaces'
  BY DEF TransportInv, MutexPlaces, Connected
<1>10. SessionPlaces'
  BY DEF TransportInv, SessionPlaces, Connected
<1>11. QED
  BY <1>3, <1>4, <1>5, <1>6, <1>7, <1>8, <1>9, <1>10 DEF TransportInv

LEMMA TcpFailsKeeps ==
    ASSUME TransportInv, TcpFails
    PROVE  TransportInv'
<1> USE DEF TcpFails, Goto, Running, buildVars, socketVars, tlsVars
<1>1. variant \in {"plaintext", "mbedtls", "pkcs11"} /\ ssl \in SslContext
  BY TransportAssumption, ContextType DEF TransportInv, TypeOK, SslContext
<1>2. /\ sockets' \in Seq(SocketRecord)
      /\ DOMAIN sockets' = DOMAIN sockets /\ Len(sockets') = Len(sockets)
      /\ \A g \in DOMAIN sockets :
            /\ g # tcp => sockets'[g] = sockets[g]
            /\ g = tcp => sockets'[g].state = "closed"
            /\ sockets'[g].wakeup = sockets[g].wakeup
      /\ fault' \in {"none", "assert", "closed twice"}
  <2>1. TypeOK /\ tcp \in {NoSocket} \cup DOMAIN sockets /\ Close(tcp)
    BY DEF TransportInv, TypeOK
  <2>2. QED
    BY <2>1, CloseCloses
<1>3. TypeOK'
  BY <1>2 DEF TransportInv, TypeOK, Places, Failed, SocketRecord
<1>4. VariantPlaces'
  BY DEF VariantPlaces, Failed, Secured
<1>5. CurrentSocketOnly'
  BY <1>2 DEF TransportInv, CurrentSocketOnly, Connected
<1>6. SocketOfStep'
  BY DEF SocketOfStep, Connected, Failed
<1>7. WakeupOfStep'
  BY <1>2 DEF TransportInv, WakeupOfStep
<1>8. SecuredBeforeUse' /\ ContextPrepared'
  BY DEF SecuredBeforeUse, ContextPrepared, Connected, Failed
<1>9. MutexPlaces'
  BY DEF TransportInv, MutexPlaces, Failed, Secured
<1>10. SessionPlaces'
  BY DEF TransportInv, SessionPlaces, Connected
<1>11. QED
  BY <1>3, <1>4, <1>5, <1>6, <1>7, <1>8, <1>9, <1>10 DEF TransportInv

LEMMA TcpConnectedKeeps ==
    ASSUME TransportInv, TcpConnected
    PROVE  TransportInv'
<1> USE DEF TcpConnected, Goto, Running, buildVars, socketVars, tlsVars
<1>1. variant \in {"plaintext", "mbedtls", "pkcs11"} /\ ssl \in SslContext
  BY TransportAssumption, ContextType DEF TransportInv, TypeOK, SslContext
<1>2. TypeOK'
  BY ContinueTo DEF TransportInv, TypeOK, Places
<1>3. VariantPlaces'
  BY ContinueTo DEF TransportInv, VariantPlaces, Secured
<1>4. CurrentSocketOnly'
  BY ContinueTo DEF TransportInv, CurrentSocketOnly, Connected
<1>5. SocketOfStep'
  BY ContinueTo DEF TransportInv, SocketOfStep
<1>6. WakeupOfStep'
  BY ContinueTo DEF TransportInv, WakeupOfStep
<1>7. SecuredBeforeUse' /\ ContextPrepared'
  BY ContinueTo DEF TransportInv, SecuredBeforeUse, ContextPrepared, Connected, Secured
<1>8. MutexPlaces'
  BY ContinueTo DEF TransportInv, MutexPlaces, Connected
<1>9. SessionPlaces'
  BY ContinueTo DEF TransportInv, SessionPlaces, Connected
<1>10. QED
  BY <1>2, <1>3, <1>4, <1>5, <1>6, <1>7, <1>8, <1>9 DEF TransportInv

LEMMA RetryConnectKeeps ==
    ASSUME TransportInv, RetryConnect
    PROVE  TransportInv'
<1> USE DEF RetryConnect, Goto, Running, buildVars, socketVars, tlsVars
<1>1. variant \in {"plaintext", "mbedtls", "pkcs11"} /\ ssl \in SslContext
  BY TransportAssumption, ContextType DEF TransportInv, TypeOK, SslContext
<1>2. TypeOK'
  BY TransportAssumption DEF TransportInv, TypeOK, Places
<1>3. VariantPlaces'
  BY DEF VariantPlaces
<1>4. CurrentSocketOnly'
  BY DEF TransportInv, CurrentSocketOnly, Connected
<1>5. SocketOfStep'
  BY DEF SocketOfStep, Connected
<1>6. WakeupOfStep'
  BY DEF TransportInv, WakeupOfStep
<1>7. SecuredBeforeUse' /\ ContextPrepared'
  BY DEF SecuredBeforeUse, ContextPrepared, Connected
<1>8. MutexPlaces'
  BY DEF TransportInv, MutexPlaces, Connected
<1>9. SessionPlaces'
  BY DEF TransportInv, SessionPlaces, Connected
<1>10. QED
  BY <1>2, <1>3, <1>4, <1>5, <1>6, <1>7, <1>8, <1>9 DEF TransportInv

LEMMA RetriesExhaustedKeeps ==
    ASSUME TransportInv, RetriesExhausted
    PROVE  TransportInv'
<1> USE DEF RetriesExhausted, Goto, Running, buildVars, socketVars, tlsVars
<1>1. variant \in {"plaintext", "mbedtls", "pkcs11"} /\ ssl \in SslContext
  BY TransportAssumption, ContextType DEF TransportInv, TypeOK, SslContext
<1>2. TypeOK'
  BY DEF TransportInv, TypeOK
<1>3. VariantPlaces'
  BY DEF VariantPlaces
<1>4. CurrentSocketOnly'
  BY DEF TransportInv, CurrentSocketOnly, Connected
<1>5. SocketOfStep'
  BY DEF SocketOfStep, Connected
<1>6. WakeupOfStep'
  BY DEF TransportInv, WakeupOfStep
<1>7. SecuredBeforeUse' /\ ContextPrepared'
  BY DEF SecuredBeforeUse, ContextPrepared, Connected
<1>8. MutexPlaces'
  BY DEF TransportInv, MutexPlaces, Connected
<1>9. SessionPlaces'
  BY DEF TransportInv, SessionPlaces, Connected
<1>10. QED
  BY <1>2, <1>3, <1>4, <1>5, <1>6, <1>7, <1>8, <1>9 DEF TransportInv

LEMMA SocketConnectedKeeps ==
    ASSUME TransportInv, SocketConnected
    PROVE  TransportInv'
<1> USE DEF SocketConnected, Goto, Running, buildVars, socketVars, tlsVars
<1>1. variant \in {"plaintext", "mbedtls", "pkcs11"} /\ ssl \in SslContext
  BY TransportAssumption, ContextType DEF TransportInv, TypeOK, SslContext
<1>2. tcpSocket \in DOMAIN sockets
  BY DEF TransportInv, SocketOfStep, Connected
<1>3. /\ sockets' \in Seq(SocketRecord)
      /\ DOMAIN sockets' = DOMAIN sockets /\ Len(sockets') = Len(sockets)
      /\ sockets'[tcpSocket].wakeup = TRUE
      /\ \A g \in DOMAIN sockets :
            /\ sockets'[g].state = sockets[g].state
            /\ g # tcpSocket => sockets'[g].wakeup = sockets[g].wakeup
  BY <1>2, WakeupChanges DEF TransportInv
<1>4. TypeOK'
  BY <1>3 DEF TransportInv, TypeOK, Places, SocketRecord
<1>5. VariantPlaces'
  BY DEF VariantPlaces
<1>6. CurrentSocketOnly'
  BY DEF TransportInv, CurrentSocketOnly, Connected
<1>7. SocketOfStep'
  BY <1>3 DEF TransportInv, SocketOfStep, Connected
<1>8. WakeupOfStep'
  BY DEF TransportInv, WakeupOfStep
<1>9. SecuredBeforeUse' /\ ContextPrepared'
  BY DEF TransportInv, SecuredBeforeUse, ContextPrepared, Connected, Secured
<1>10. MutexPlaces'
  BY DEF TransportInv, MutexPlaces, Connected
<1>11. SessionPlaces'
  BY DEF TransportInv, SessionPlaces, Connected
<1>12. QED
  BY <1>4, <1>5, <1>6, <1>7, <1>8, <1>9, <1>10, <1>11 DEF TransportInv

LEMMA MbedtlsInitKeeps ==
    ASSUME TransportInv, MbedtlsInit
    PROVE  TransportInv'
<1> USE DEF MbedtlsInit, Goto, Running, buildVars, socketVars, tlsVars
<1>1. variant \in {"plaintext", "mbedtls", "pkcs11"} /\ ssl \in SslContext
  BY ContextType DEF TransportInv, TypeOK, SslContext
<1>2. /\ "config" \in Parts /\ "rootCa" \in Parts /\ "clientCert" \in Parts
      /\ "privKey" \in Parts /\ "context" \in Parts /\ "entropy" \in Parts
      /\ "drbg" \in Parts /\ "session" \in Parts
  BY DEF Parts
<1>3. Keeps(ssl, ssl', {"entropy", "drbg"})
  BY <1>1, MutexInitSets
<1>4. Running /\ at = "init" /\ at' \in {"setup", "cleanup"}
  BY ContinueTo DEF TransportInv, Secured
<1>5. TypeOK'
  BY <1>3, ContinueTo, ContextType DEF Keeps, TransportInv, TypeOK, Places, Secured, SslContext
<1>6. VariantPlaces'
  BY DEF VariantPlaces
<1>7. CurrentSocketOnly'
  BY ContinueTo DEF TransportInv, CurrentSocketOnly, Secured
<1>8. SocketOfStep'
  BY ContinueTo DEF TransportInv, SocketOfStep, Secured
<1>9. WakeupOfStep'
  BY ContinueTo DEF TransportInv, WakeupOfStep
<1>10. SecuredBeforeUse' /\ ContextPrepared'
  BY ContinueTo DEF TransportInv, SecuredBeforeUse, ContextPrepared, Connected, Secured
<1>11. MutexPlaces'
  BY ContinueTo DEF TransportInv, MutexPlaces, Secured
<1>12. SessionPlaces'
  BY <1>2, <1>3 DEF Keeps, TransportInv, SessionPlaces
<1>13. QED
  BY <1>5, <1>6, <1>7, <1>8, <1>9, <1>10, <1>11, <1>12 DEF TransportInv

LEMMA Pkcs11InitKeeps ==
    ASSUME TransportInv, Pkcs11Init
    PROVE  TransportInv'
<1> USE DEF Pkcs11Init, Goto, Running, buildVars, socketVars, tlsVars
<1>1. variant \in {"plaintext", "mbedtls", "pkcs11"} /\ ssl \in SslContext
  BY ContextType DEF TransportInv, TypeOK, SslContext
<1>2. TypeOK'
  BY ContinueTo DEF TransportInv, TypeOK, Places, Secured
<1>3. VariantPlaces'
  BY ContinueTo DEF TransportInv, VariantPlaces, Secured
<1>4. CurrentSocketOnly'
  BY ContinueTo DEF TransportInv, CurrentSocketOnly, Secured
<1>5. SocketOfStep'
  BY ContinueTo DEF TransportInv, SocketOfStep, Secured
<1>6. WakeupOfStep'
  BY ContinueTo DEF TransportInv, WakeupOfStep
<1>7. SecuredBeforeUse' /\ ContextPrepared'
  BY ContinueTo DEF TransportInv, SecuredBeforeUse, ContextPrepared, Connected, Secured
<1>8. MutexPlaces'
  BY DEF TransportInv, MutexPlaces
<1>9. SessionPlaces'
  BY ContinueTo DEF TransportInv, SessionPlaces, Connected
<1>10. QED
  BY <1>2, <1>3, <1>4, <1>5, <1>6, <1>7, <1>8, <1>9 DEF TransportInv

LEMMA tlsSetupKeeps ==
    ASSUME TransportInv, tlsSetup
    PROVE  TransportInv'
<1> USE DEF tlsSetup, Goto, Running, buildVars, socketVars, tlsVars
<1>1. variant \in {"plaintext", "mbedtls", "pkcs11"} /\ ssl \in SslContext
  BY ContextType DEF TransportInv, TypeOK, SslContext
<1>2. /\ "config" \in Parts /\ "rootCa" \in Parts /\ "clientCert" \in Parts
      /\ "privKey" \in Parts /\ "context" \in Parts /\ "entropy" \in Parts
      /\ "drbg" \in Parts /\ "session" \in Parts
  BY DEF Parts
<1>3. PICK o \in MbedtlsSetup(ssl) :
          /\ IF o.ok THEN Continue("setup") ELSE Goto("setup", "cleanup")
          /\ ssl' = o.ssl
  OBVIOUS
<1>4. /\ o.ok \in BOOLEAN
      /\ Keeps(ssl, ssl', {"config", "rootCa", "clientCert", "privKey", "context"})
      /\ o.ok => /\ ssl'.config = "set" /\ ssl'.rootCa = "set"
                 /\ mutual => ssl'.clientCert = "set" /\ ssl'.privKey = "set"
  BY <1>1, <1>3, MbedtlsSetupSets
<1>5. Running /\ at = "setup" /\ at' = IF o.ok THEN "handshake" ELSE "cleanup"
  BY <1>3, ContinueTo DEF TransportInv
<1>6. TypeOK'
  BY <1>4, ContinueTo, ContextType DEF Keeps, TransportInv, TypeOK, Places, SslContext
<1>7. VariantPlaces'
  BY DEF VariantPlaces
<1>8. CurrentSocketOnly'
  BY ContinueTo DEF TransportInv, CurrentSocketOnly
<1>9. SocketOfStep'
  BY ContinueTo DEF TransportInv, SocketOfStep
<1>10. WakeupOfStep'
  BY ContinueTo DEF TransportInv, WakeupOfStep
<1>11. SecuredBeforeUse' /\ ContextPrepared'
  BY <1>4, <1>5 DEF SecuredBeforeUse, ContextPrepared, Connected
<1>12. MutexPlaces'
  BY <1>2, <1>4, ContinueTo DEF Keeps, TransportInv, MutexPlaces
<1>13. SessionPlaces'
  BY <1>2, <1>4 DEF Keeps, TransportInv, SessionPlaces
<1>14. QED
  BY <1>6, <1>7, <1>8, <1>9, <1>10, <1>11, <1>12, <1>13 DEF TransportInv

LEMMA tlsHandshakeKeeps ==
    ASSUME TransportInv, tlsHandshake
    PROVE  TransportInv'
<1> USE DEF tlsHandshake, Goto, Running, buildVars, socketVars, tlsVars
<1>1. variant \in {"plaintext", "mbedtls", "pkcs11"} /\ ssl \in SslContext
  BY ContextType DEF TransportInv, TypeOK, SslContext
<1>2. /\ "config" \in Parts /\ "rootCa" \in Parts /\ "clientCert" \in Parts
      /\ "privKey" \in Parts /\ "context" \in Parts /\ "entropy" \in Parts
      /\ "drbg" \in Parts /\ "session" \in Parts
  BY DEF Parts
<1>3. PICK o \in Handshake(ssl) :
          /\ IF o.ok THEN Continue("handshake") ELSE Goto("handshake", "cleanup")
          /\ ssl' = o.ssl
          /\ bio' = BioOf(o.ssl)
  OBVIOUS
<1>4. /\ o.ok \in BOOLEAN /\ Keeps(ssl, ssl', {"context"})
      /\ o.ok => ssl'.context = "up" /\ bio' = tcpSocket
  BY <1>1, <1>3, HandshakeSets DEF BioOf
<1>5. Running /\ at = "handshake" /\ at' = IF o.ok THEN "made" ELSE "cleanup"
  BY <1>3, ContinueTo DEF TransportInv
<1>6. TypeOK'
  BY <1>4, <1>5, ContextType DEF Keeps, TransportInv, TypeOK, Places, SslContext, BioOf
<1>7. VariantPlaces'
  BY DEF VariantPlaces
<1>8. CurrentSocketOnly'
  BY ContinueTo DEF TransportInv, CurrentSocketOnly, Connected
<1>9. SocketOfStep'
  BY ContinueTo DEF TransportInv, SocketOfStep
<1>10. WakeupOfStep'
  BY ContinueTo DEF TransportInv, WakeupOfStep
<1>11. SecuredBeforeUse' /\ ContextPrepared'
  BY <1>2, <1>4, <1>5 DEF Keeps, TransportInv, SecuredBeforeUse, ContextPrepared, Connected
<1>12. MutexPlaces'
  BY <1>2, <1>4, ContinueTo DEF Keeps, TransportInv, MutexPlaces, Connected
<1>13. SessionPlaces'
  BY <1>2, <1>4 DEF Keeps, TransportInv, SessionPlaces
<1>14. QED
  BY <1>6, <1>7, <1>8, <1>9, <1>10, <1>11, <1>12, <1>13 DEF TransportInv

LEMMA Pkcs11TlsSetupKeeps ==
    ASSUME TransportInv, Pkcs11TlsSetup
    PROVE  TransportInv'
<1> USE DEF Pkcs11TlsSetup, Goto, Running, buildVars, socketVars, tlsVars
<1>1. variant \in {"plaintext", "mbedtls", "pkcs11"} /\ ssl \in SslContext
  BY ContextType DEF TransportInv, TypeOK, SslContext
<1>2. /\ "config" \in Parts /\ "rootCa" \in Parts /\ "clientCert" \in Parts
      /\ "privKey" \in Parts /\ "context" \in Parts /\ "entropy" \in Parts
      /\ "drbg" \in Parts /\ "session" \in Parts
  BY DEF Parts
<1>3. PICK s \in Pkcs11ContextInit(ssl) : \E o \in Pkcs11Connection(s) :
          /\ IF o.ok THEN Continue("setup") ELSE Goto("setup", "cleanup")
          /\ bio' = BioOf(o.ssl)
          /\ ssl' = IF o.ok THEN o.ssl ELSE Pkcs11ContextFree(o.ssl)
          /\ LET opened == IF s.session = "set" THEN sessions + 1 ELSE sessions
             IN  sessions' = IF o.ok THEN opened ELSE SessionsAfter(opened, o.ssl)
  OBVIOUS
<1>4. PICK o \in Pkcs11Connection(s) :
          /\ IF o.ok THEN Continue("setup") ELSE Goto("setup", "cleanup")
          /\ bio' = BioOf(o.ssl)
          /\ ssl' = IF o.ok THEN o.ssl ELSE Pkcs11ContextFree(o.ssl)
          /\ LET opened == IF s.session = "set" THEN sessions + 1 ELSE sessions
             IN  sessions' = IF o.ok THEN opened ELSE SessionsAfter(opened, o.ssl)
  BY <1>3
<1>5. /\ Keeps(ssl, s, {"config", "rootCa", "clientCert", "context", "session"})
      /\ s \in SslContext
  BY <1>1, Pkcs11InitSets DEF Keeps
<1>6. /\ o.ok \in BOOLEAN
      /\ Keeps(s, o.ssl, {"config", "rootCa", "privKey", "clientCert", "context"})
      /\ o.ok => /\ o.ssl.config = "set" /\ o.ssl.rootCa = "set" /\ o.ssl.context = "up"
                 /\ o.ssl.clientCert = "set" /\ o.ssl.privKey = "set"
  BY <1>5, Pkcs11ConnectionSets
<1>7. Running /\ at = "setup" /\ at' = IF o.ok THEN "made" ELSE "cleanup"
  BY <1>4, ContinueTo DEF TransportInv
<1>8. /\ Pkcs11ContextFree(o.ssl) \in SslContext
      /\ \A p \in Parts \ {"privKey"} : Pkcs11ContextFree(o.ssl)[p] = "zero"
  BY <1>6, FreedContexts DEF Keeps
<1>9. /\ ssl' \in SslContext /\ sessions' = IF ssl'.session = "set" THEN 1 ELSE 0
      /\ ssl'.entropy = "zero" /\ ssl'.drbg = "zero"
  <2>1. /\ sessions = 0 /\ ssl.session # "set"
        /\ ssl.entropy = "zero" /\ ssl.drbg = "zero"
    BY <1>7 DEF TransportInv, SessionPlaces, MutexPlaces, Connected
  <2>2. s.entropy = "zero" /\ s.drbg = "zero"
    BY <1>2, <1>5, <2>1 DEF Keeps
  <2>3. o.ssl.entropy = "zero" /\ o.ssl.drbg = "zero" /\ o.ssl.session = s.session
    BY <1>2, <1>6, <2>2 DEF Keeps
  <2>4. CASE o.ok
    BY <1>4, <1>6, <2>1, <2>3, <2>4 DEF Keeps
  <2>5. CASE ~o.ok
    BY <1>2, <1>4, <1>8, <2>1, <2>3, <2>5 DEF SessionsAfter
  <2>6. QED
    BY <2>4, <2>5
<1>10. TypeOK'
  BY <1>7, <1>9, ContextType DEF TransportInv, TypeOK, Places, SslContext, BioOf
<1>11. VariantPlaces'
  BY ContinueTo DEF TransportInv, VariantPlaces
<1>12. CurrentSocketOnly'
  BY ContinueTo DEF TransportInv, CurrentSocketOnly, Connected
<1>13. SocketOfStep'
  BY ContinueTo DEF TransportInv, SocketOfStep
<1>14. WakeupOfStep'
  BY ContinueTo DEF TransportInv, WakeupOfStep
<1>15. SecuredBeforeUse' /\ ContextPrepared'
  BY <1>4, <1>6 DEF SecuredBeforeUse, ContextPrepared, Connected, BioOf
<1>16. MutexPlaces'
  BY <1>9 DEF MutexPlaces
<1>17. SessionPlaces'
  BY <1>2, <1>4, <1>8, <1>9, ContinueTo DEF TransportInv, SessionPlaces, Connected
<1>18. QED
  BY <1>10, <1>11, <1>12, <1>13, <1>14, <1>15, <1>16, <1>17 DEF TransportInv

LEMMA MbedtlsCleanUpKeeps ==
    ASSUME TransportInv, MbedtlsCleanUp
    PROVE  TransportInv'
<1> USE DEF MbedtlsCleanUp, Goto, Running, buildVars, socketVars, tlsVars
<1>1. variant \in {"plaintext", "mbedtls", "pkcs11"} /\ ssl \in SslContext
  BY ContextType DEF TransportInv, TypeOK, SslContext
<1>2. /\ sockets' \in Seq(SocketRecord)
      /\ DOMAIN sockets' = DOMAIN sockets /\ Len(sockets') = Len(sockets)
      /\ \A g \in DOMAIN sockets :
            /\ g # tcpSocket => sockets'[g] = sockets[g]
            /\ g = tcpSocket => sockets'[g].state = "closed"
            /\ sockets'[g].wakeup = sockets[g].wakeup
      /\ fault' \in {"none", "assert", "closed twice"}
  <2>1. TypeOK /\ tcpSocket \in {NoSocket} \cup DOMAIN sockets /\ Close(tcpSocket)
    BY DEF TransportInv, TypeOK
  <2>2. QED
    BY <2>1, CloseCloses
<1>3. /\ "config" \in Parts /\ "rootCa" \in Parts /\ "clientCert" \in Parts
      /\ "privKey" \in Parts /\ "context" \in Parts /\ "entropy" \in Parts
      /\ "drbg" \in Parts /\ "session" \in Parts
  BY DEF Parts
<1>4. ssl' \in SslContext /\ \A p \in Parts : ssl'[p] = "zero"
  BY <1>1, FreedContexts
<1>5. TypeOK'
  <2>1. at' \in Places /\ ssl' \in SslContext
    BY <1>4 DEF Places
  <2>2. /\ sockets' \in Seq([state : {"open", "closed"}, wakeup : BOOLEAN, link : {"good", "silent", "dead"}])
        /\ Len(sockets') <= MaxSockets
        /\ {tcp', tcpSocket', bio'} \subseteq {NoSocket} \cup DOMAIN sockets'
    BY <1>2 DEF TransportInv, TypeOK, SocketRecord
  <2>3. mutual' \in BOOLEAN /\ altMutex' \in BOOLEAN
    BY DEF TransportInv, TypeOK
  <2>4. variant' \in Variants /\ fault' \in {"none", "assert", "closed twice"}
    BY <1>2 DEF TransportInv, TypeOK
  <2>5. retries' \in 0 .. RetryMaxAttempts
    BY DEF TransportInv, TypeOK
  <2>6. shutdownLoops' \in 0 .. ShutdownLoops - 1
    BY DEF TransportInv, TypeOK
  <2>7. sessions' \in Nat
    BY DEF TransportInv, TypeOK
  <2>8. QED
    BY <2>1, <2>2, <2>3, <2>4, <2>5, <2>6, <2>7, ContextType DEF TypeOK, SslContext
<1>6. VariantPlaces'
  BY DEF VariantPlaces
<1>7. CurrentSocketOnly'
  BY <1>2 DEF TransportInv, CurrentSocketOnly
<1>8. SocketOfStep'
  BY DEF SocketOfStep, Connected
<1>9. WakeupOfStep'
  BY <1>2 DEF TransportInv, WakeupOfStep
<1>10. SecuredBeforeUse' /\ ContextPrepared'
  BY DEF SecuredBeforeUse, ContextPrepared, Connected
<1>11. MutexPlaces'
  BY <1>3, <1>4 DEF MutexPlaces
<1>12. SessionPlaces'
  BY <1>3, <1>4 DEF TransportInv, SessionPlaces
<1>13. QED
  BY <1>5, <1>6, <1>7, <1>8, <1>9, <1>10, <1>11, <1>12 DEF TransportInv

LEMMA Pkcs11CleanUpKeeps ==
    ASSUME TransportInv, Pkcs11CleanUp
    PROVE  TransportInv'
<1> USE DEF Pkcs11CleanUp, Goto, Running, buildVars, socketVars, tlsVars
<1>1. variant \in {"plaintext", "mbedtls", "pkcs11"} /\ ssl \in SslContext
  BY ContextType DEF TransportInv, TypeOK, SslContext
<1>2. /\ sockets' \in Seq(SocketRecord)
      /\ DOMAIN sockets' = DOMAIN sockets /\ Len(sockets') = Len(sockets)
      /\ \A g \in DOMAIN sockets :
            /\ g # tcpSocket => sockets'[g] = sockets[g]
            /\ g = tcpSocket => sockets'[g].state = "closed"
            /\ sockets'[g].wakeup = sockets[g].wakeup
      /\ fault' \in {"none", "assert", "closed twice"}
  <2>1. TypeOK /\ tcpSocket \in {NoSocket} \cup DOMAIN sockets /\ Close(tcpSocket)
    BY DEF TransportInv, TypeOK
  <2>2. QED
    BY <2>1, CloseCloses
<1>3. TypeOK'
  BY <1>2 DEF TransportInv, TypeOK, Places, SocketRecord
<1>4. VariantPlaces'
  BY DEF VariantPlaces
<1>5. CurrentSocketOnly'
  BY <1>2 DEF TransportInv, CurrentSocketOnly
<1>6. SocketOfStep'
  BY DEF SocketOfStep, Connected
<1>7. WakeupOfStep'
  BY <1>2 DEF TransportInv, WakeupOfStep
<1>8. SecuredBeforeUse' /\ ContextPrepared'
  BY DEF SecuredBeforeUse, ContextPrepared, Connected
<1>9. MutexPlaces'
  BY DEF TransportInv, MutexPlaces
<1>10. SessionPlaces'
  BY DEF TransportInv, SessionPlaces, Connected
<1>11. QED
  BY <1>3, <1>4, <1>5, <1>6, <1>7, <1>8, <1>9, <1>10 DEF TransportInv

LEMMA SocketDisconnectKeeps ==
    ASSUME TransportInv, SocketDisconnect
    PROVE  TransportInv'
<1> USE DEF SocketDisconnect, Goto, Running, buildVars, socketVars, tlsVars
<1>1. variant \in {"plaintext", "mbedtls", "pkcs11"} /\ ssl \in SslContext
  BY TransportAssumption, ContextType DEF TransportInv, TypeOK, SslContext
<1>2. tcpSocket \in DOMAIN sockets
  BY ContinueTo DEF TransportInv, SocketOfStep, Connected
<1>3. /\ sockets' \in Seq(SocketRecord)
      /\ DOMAIN sockets' = DOMAIN sockets /\ Len(sockets') = Len(sockets)
      /\ sockets'[tcpSocket].wakeup = FALSE
      /\ \A g \in DOMAIN sockets :
            /\ sockets'[g].state = sockets[g].state
            /\ g # tcpSocket => sockets'[g].wakeup = sockets[g].wakeup
  BY <1>2, WakeupChanges DEF TransportInv
<1>4. TypeOK'
  BY <1>3, ContinueTo DEF TransportInv, TypeOK, Places, SocketRecord
<1>5. VariantPlaces'
  BY ContinueTo DEF TransportInv, VariantPlaces
<1>6. CurrentSocketOnly'
  BY ContinueTo DEF TransportInv, CurrentSocketOnly, Connected
<1>7. SocketOfStep'
  BY ContinueTo DEF TransportInv, SocketOfStep, Connected
<1>8. WakeupOfStep'
  BY DEF TransportInv, WakeupOfStep
<1>9. SecuredBeforeUse' /\ ContextPrepared'
  BY ContinueTo DEF TransportInv, SecuredBeforeUse, ContextPrepared, Connected, Secured
<1>10. MutexPlaces'
  BY ContinueTo DEF TransportInv, MutexPlaces, Connected
<1>11. SessionPlaces'
  BY ContinueTo DEF TransportInv, SessionPlaces, Connected
<1>12. QED
  BY <1>4, <1>5, <1>6, <1>7, <1>8, <1>9, <1>10, <1>11 DEF TransportInv

LEMMA ShutdownRecvKeeps ==
    ASSUME TransportInv, ShutdownRecv
    PROVE  TransportInv'
<1> USE DEF ShutdownRecv, Goto, Running, buildVars, socketVars, tlsVars
<1>1. variant \in {"plaintext", "mbedtls", "pkcs11"} /\ ssl \in SslContext
  BY TransportAssumption, ContextType DEF TransportInv, TypeOK, SslContext
<1>2. TypeOK'
  BY TransportAssumption DEF TransportInv, TypeOK
<1>3. VariantPlaces'
  BY DEF VariantPlaces
<1>4. CurrentSocketOnly'
  BY DEF TransportInv, CurrentSocketOnly, Connected
<1>5. SocketOfStep'
  BY DEF TransportInv, SocketOfStep, Connected
<1>6. WakeupOfStep'
  BY DEF TransportInv, WakeupOfStep
<1>7. SecuredBeforeUse' /\ ContextPrepared'
  BY DEF TransportInv, SecuredBeforeUse, ContextPrepared, Connected, Secured
<1>8. MutexPlaces'
  BY DEF TransportInv, MutexPlaces, Connected
<1>9. SessionPlaces'
  BY DEF TransportInv, SessionPlaces, Connected
<1>10. QED
  BY <1>2, <1>3, <1>4, <1>5, <1>6, <1>7, <1>8, <1>9 DEF TransportInv

LEMMA ShutdownEndsKeeps ==
    ASSUME TransportInv, ShutdownEnds
    PROVE  TransportInv'
<1> USE DEF ShutdownEnds, Goto, Running, buildVars, socketVars, tlsVars
<1>1. variant \in {"plaintext", "mbedtls", "pkcs11"} /\ ssl \in SslContext
  BY TransportAssumption, ContextType DEF TransportInv, TypeOK, SslContext
<1>2. /\ sockets' \in Seq(SocketRecord)
      /\ DOMAIN sockets' = DOMAIN sockets /\ Len(sockets') = Len(sockets)
      /\ \A g \in DOMAIN sockets :
            /\ g # tcpSocket => sockets'[g] = sockets[g]
            /\ g = tcpSocket => sockets'[g].state = "closed"
            /\ sockets'[g].wakeup = sockets[g].wakeup
      /\ fault' \in {"none", "assert", "closed twice"}
  <2>1. TypeOK /\ tcpSocket \in {NoSocket} \cup DOMAIN sockets /\ Close(tcpSocket)
    BY DEF TransportInv, TypeOK
  <2>2. QED
    BY <2>1, CloseCloses
<1>3. TypeOK'
  <2>1. at' \in Places /\ ssl' \in SslContext
    BY <1>1, ContinueTo DEF TransportInv, Places
  <2>2. /\ sockets' \in Seq([state : {"open", "closed"}, wakeup : BOOLEAN, link : {"good", "silent", "dead"}])
        /\ Len(sockets') <= MaxSockets
        /\ {tcp', tcpSocket', bio'} \subseteq {NoSocket} \cup DOMAIN sockets'
    BY <1>2 DEF TransportInv, TypeOK, SocketRecord
  <2>3. mutual' \in BOOLEAN /\ altMutex' \in BOOLEAN
    BY DEF TransportInv, TypeOK
  <2>4. variant' \in Variants /\ fault' \in {"none", "assert", "closed twice"}
    BY <1>2 DEF TransportInv, TypeOK
  <2>5. retries' = 0 /\ shutdownLoops' = 0
    OBVIOUS
  <2>6. 0 \in 0 .. RetryMaxAttempts /\ 0 \in 0 .. ShutdownLoops - 1
    BY TransportAssumption
  <2>7. sessions' \in Nat
    BY DEF TransportInv, TypeOK
  <2>8. QED
    BY <2>1, <2>2, <2>3, <2>4, <2>6, <2>7, ContextType DEF TypeOK, SslContext
<1>4. VariantPlaces'
  BY ContinueTo DEF TransportInv, VariantPlaces, Secured
<1>5. CurrentSocketOnly'
  BY <1>2, ContinueTo DEF TransportInv, CurrentSocketOnly
<1>6. SocketOfStep'
  BY ContinueTo DEF TransportInv, SocketOfStep, Connected
<1>7. WakeupOfStep'
  BY <1>1, <1>2, ContinueTo DEF TransportInv, WakeupOfStep
<1>8. SecuredBeforeUse' /\ ContextPrepared'
  BY ContinueTo DEF TransportInv, SecuredBeforeUse, ContextPrepared, Connected
<1>9. MutexPlaces'
  BY ContinueTo DEF TransportInv, MutexPlaces, Secured
<1>10. SessionPlaces'
  BY ContinueTo DEF TransportInv, SessionPlaces, Secured
<1>11. QED
  BY <1>3, <1>4, <1>5, <1>6, <1>7, <1>8, <1>9, <1>10 DEF TransportInv

LEMMA MbedtlsFreeKeeps ==
    ASSUME TransportInv, MbedtlsFree
    PROVE  TransportInv'
<1> USE DEF MbedtlsFree, Goto, Running, buildVars, socketVars, tlsVars
<1>1. variant \in {"plaintext", "mbedtls", "pkcs11"} /\ ssl \in SslContext
  BY ContextType DEF TransportInv, TypeOK, SslContext
<1>2. /\ "config" \in Parts /\ "rootCa" \in Parts /\ "clientCert" \in Parts
      /\ "privKey" \in Parts /\ "context" \in Parts /\ "entropy" \in Parts
      /\ "drbg" \in Parts /\ "session" \in Parts
  BY DEF Parts
<1>3. ssl' \in SslContext /\ \A p \in Parts : ssl'[p] = "zero"
  BY <1>1, FreedContexts
<1>4. TypeOK'
  BY <1>3, ContinueTo, ContextType DEF TransportInv, TypeOK, Places, Secured, SslContext
<1>5. VariantPlaces'
  BY DEF VariantPlaces
<1>6. CurrentSocketOnly'
  BY ContinueTo DEF TransportInv, CurrentSocketOnly, Connected
<1>7. SocketOfStep'
  BY ContinueTo DEF TransportInv, SocketOfStep, Connected, Secured
<1>8. WakeupOfStep'
  BY ContinueTo DEF TransportInv, WakeupOfStep
<1>9. SecuredBeforeUse' /\ ContextPrepared'
  BY ContinueTo DEF TransportInv, SecuredBeforeUse, ContextPrepared, Connected, Secured
<1>10. MutexPlaces'
  BY <1>2, <1>3 DEF MutexPlaces
<1>11. SessionPlaces'
  BY <1>2, <1>3 DEF TransportInv, SessionPlaces
<1>12. QED
  BY <1>4, <1>5, <1>6, <1>7, <1>8, <1>9, <1>10, <1>11 DEF TransportInv

LEMMA Pkcs11FreeKeeps ==
    ASSUME TransportInv, Pkcs11Free
    PROVE  TransportInv'
<1> USE DEF Pkcs11Free, Goto, Running, buildVars, socketVars, tlsVars
<1>1. variant \in {"plaintext", "mbedtls", "pkcs11"} /\ ssl \in SslContext
  BY ContextType DEF TransportInv, TypeOK, SslContext
<1>2. /\ "config" \in Parts /\ "rootCa" \in Parts /\ "clientCert" \in Parts
      /\ "privKey" \in Parts /\ "context" \in Parts /\ "entropy" \in Parts
      /\ "drbg" \in Parts /\ "session" \in Parts
  BY DEF Parts
<1>3. ssl' \in SslContext /\ \A p \in Parts \ {"privKey"} : ssl'[p] = "zero"
  BY <1>1, FreedContexts
<1>4. sessions' = 0
  BY DEF TransportInv, SessionPlaces, SessionsAfter
<1>5. TypeOK'
  <2>1. at' \in Places /\ ssl' \in SslContext
    BY <1>3, ContinueTo DEF TransportInv, Places, Secured
  <2>2. /\ sockets' \in Seq([state : {"open", "closed"}, wakeup : BOOLEAN, link : {"good", "silent", "dead"}])
        /\ Len(sockets') <= MaxSockets
        /\ {tcp', tcpSocket', bio'} \subseteq {NoSocket} \cup DOMAIN sockets'
    BY DEF TransportInv, TypeOK
  <2>3. mutual' \in BOOLEAN /\ altMutex' \in BOOLEAN
    BY DEF TransportInv, TypeOK
  <2>4. variant' \in Variants /\ fault' \in {"none", "assert", "closed twice"}
    BY DEF TransportInv, TypeOK
  <2>5. retries' \in 0 .. RetryMaxAttempts
    BY DEF TransportInv, TypeOK
  <2>6. shutdownLoops' \in 0 .. ShutdownLoops - 1
    BY DEF TransportInv, TypeOK
  <2>7. sessions' \in Nat
    BY <1>4
  <2>8. QED
    BY <2>1, <2>2, <2>3, <2>4, <2>5, <2>6, <2>7, ContextType DEF TypeOK, SslContext
<1>6. VariantPlaces'
  BY ContinueTo DEF TransportInv, VariantPlaces, Secured
<1>7. CurrentSocketOnly'
  BY ContinueTo DEF TransportInv, CurrentSocketOnly, Connected
<1>8. SocketOfStep'
  BY ContinueTo DEF TransportInv, SocketOfStep, Connected, Secured
<1>9. WakeupOfStep'
  BY ContinueTo DEF TransportInv, WakeupOfStep
<1>10. SecuredBeforeUse' /\ ContextPrepared'
  BY ContinueTo DEF TransportInv, SecuredBeforeUse, ContextPrepared, Connected, Secured
<1>11. MutexPlaces'
  BY <1>2, <1>3 DEF MutexPlaces
<1>12. SessionPlaces'
  BY <1>2, <1>3, <1>4 DEF SessionPlaces
<1>13. QED
  BY <1>5, <1>6, <1>7, <1>8, <1>9, <1>10, <1>11, <1>12 DEF TransportInv

LEMMA ClearMutexesKeeps ==
    ASSUME TransportInv, ClearMutexes
    PROVE  TransportInv'
<1> USE DEF ClearMutexes, Goto, Running, buildVars, socketVars, tlsVars
<1>1. variant \in {"plaintext", "mbedtls", "pkcs11"} /\ ssl \in SslContext
  BY TransportAssumption, ContextType DEF TransportInv, TypeOK, SslContext
<1>2. TypeOK'
  BY ContinueTo DEF TransportInv, VariantPlaces, TypeOK, Places, Secured
<1>3. VariantPlaces'
  BY ContinueTo DEF TransportInv, VariantPlaces, Secured
<1>4. CurrentSocketOnly'
  BY ContinueTo DEF TransportInv, CurrentSocketOnly, Connected
<1>5. SocketOfStep'
  BY ContinueTo DEF TransportInv, VariantPlaces, SocketOfStep, Connected, Secured
<1>6. WakeupOfStep'
  BY ContinueTo DEF TransportInv, WakeupOfStep
<1>7. SecuredBeforeUse' /\ ContextPrepared'
  BY ContinueTo DEF TransportInv, VariantPlaces, SecuredBeforeUse, ContextPrepared, Connected,
     Secured
<1>8. MutexPlaces'
  BY ContinueTo DEF TransportInv, MutexPlaces, Connected
<1>9. SessionPlaces'
  BY ContinueTo DEF TransportInv, SessionPlaces, Connected
<1>10. QED
  BY <1>2, <1>3, <1>4, <1>5, <1>6, <1>7, <1>8, <1>9 DEF TransportInv

LEMMA CommandLoopFailsKeeps ==
    ASSUME TransportInv, CommandLoopFails
    PROVE  TransportInv'
<1> USE DEF CommandLoopFails, Goto, Running, buildVars, socketVars, tlsVars
<1>1. variant \in {"plaintext", "mbedtls", "pkcs11"} /\ ssl \in SslContext
  BY TransportAssumption, ContextType DEF TransportInv, TypeOK, SslContext
<1>2. TypeOK'
  BY DEF TransportInv, TypeOK, Places
<1>3. VariantPlaces'
  BY DEF VariantPlaces
<1>4. CurrentSocketOnly'
  BY DEF TransportInv, CurrentSocketOnly, Connected
<1>5. SocketOfStep'
  BY DEF TransportInv, SocketOfStep, Connected
<1>6. WakeupOfStep'
  BY DEF TransportInv, WakeupOfStep
<1>7. SecuredBeforeUse' /\ ContextPrepared'
  BY DEF TransportInv, SecuredBeforeUse, ContextPrepared, Connected, Secured
<1>8. MutexPlaces'
  BY DEF TransportInv, MutexPlaces, Connected
<1>9. SessionPlaces'
  BY DEF TransportInv, SessionPlaces, Connected
<1>10. QED
  BY <1>2, <1>3, <1>4, <1>5, <1>6, <1>7, <1>8, <1>9 DEF TransportInv

LEMMA LinkBreaksKeeps ==
    ASSUME TransportInv, LinkBreaks
    PROVE  TransportInv'
<1> USE DEF LinkBreaks, Goto, Running, buildVars, socketVars, tlsVars
<1>1. variant \in {"plaintext", "mbedtls", "pkcs11"} /\ ssl \in SslContext
  BY TransportAssumption, ContextType DEF TransportInv, TypeOK, SslContext
<1>2. /\ sockets' \in Seq(SocketRecord)
      /\ DOMAIN sockets' = DOMAIN sockets /\ Len(sockets') = Len(sockets)
      /\ \A g \in DOMAIN sockets : /\ sockets'[g].state = sockets[g].state
                                   /\ sockets'[g].wakeup = sockets[g].wakeup
  BY LinkChanges DEF TransportInv
<1>3. TypeOK'
  BY <1>2 DEF TransportInv, TypeOK, SocketRecord
<1>4. VariantPlaces'
  BY DEF TransportInv, VariantPlaces
<1>5. CurrentSocketOnly'
  BY DEF TransportInv, CurrentSocketOnly, Connected
<1>6. SocketOfStep'
  BY DEF TransportInv, SocketOfStep, Connected
<1>7. WakeupOfStep'
  BY DEF TransportInv, WakeupOfStep
<1>8. SecuredBeforeUse' /\ ContextPrepared'
  BY DEF TransportInv, SecuredBeforeUse, ContextPrepared, Connected, Secured
<1>9. MutexPlaces'
  BY DEF TransportInv, MutexPlaces, Connected
<1>10. SessionPlaces'
  BY DEF TransportInv, SessionPlaces, Connected
<1>11. QED
  BY <1>3, <1>4, <1>5, <1>6, <1>7, <1>8, <1>9, <1>10 DEF TransportInv

\* The invariant holds before the first connection.
LEMMA TransportInitially == Init => TransportInv
<1> SUFFICES ASSUME Init PROVE TransportInv
  OBVIOUS
<1> USE DEF Init
<1>1. /\ ssl \in SslContext /\ ssl.entropy = "zero" /\ ssl.drbg = "zero"
      /\ ssl.session = "zero"
  BY ContextType DEF Zeroed
<1>2. TypeOK
  <2>1. /\ sockets \in Seq([state : {"open", "closed"}, wakeup : BOOLEAN, link : {"good", "silent", "dead"}])
        /\ Len(sockets) = 0
    OBVIOUS
  <2>2. 0 \in 0 .. RetryMaxAttempts /\ 0 \in 0 .. ShutdownLoops - 1 /\ 0 <= MaxSockets
    BY TransportAssumption
  <2>3. at \in Places /\ ssl \in [DOMAIN Zeroed -> {"zero", "init", "set", "up"}]
    BY ContextType DEF Places, SslContext
  <2>4. QED
    BY <2>1, <2>2, <2>3 DEF TypeOK
<1>3. /\ VariantPlaces /\ CurrentSocketOnly /\ SocketOfStep /\ WakeupOfStep
      /\ SecuredBeforeUse /\ ContextPrepared /\ MutexPlaces /\ SessionPlaces
  BY <1>1 DEF VariantPlaces, CurrentSocketOnly, SocketOfStep, WakeupOfStep, SecuredBeforeUse,
     ContextPrepared, MutexPlaces, SessionPlaces, Connected
<1>4. QED
  BY <1>2, <1>3 DEF TransportInv

\* Every step keeps the invariant.
LEMMA TransportIsInductive == TransportInv /\ [Next]_vars => TransportInv'
<1> SUFFICES ASSUME TransportInv, [Next]_vars PROVE TransportInv'
  OBVIOUS
<1>1. CASE UNCHANGED vars
  BY <1>1 DEF vars, buildVars, socketVars, tlsVars, TransportInv, TypeOK, VariantPlaces,
              CurrentSocketOnly, SocketOfStep, WakeupOfStep, SecuredBeforeUse, ContextPrepared,
              MutexPlaces, SessionPlaces, Connected, Secured
<1>2. CASE ConnectStep
  BY <1>2, NoNewSocketKeeps, CreateSocketKeeps, TcpFailsKeeps, TcpConnectedKeeps,
     RetryConnectKeeps, RetriesExhaustedKeeps, SocketConnectedKeeps DEF ConnectStep
<1>3. CASE TlsStep
  BY <1>3, MbedtlsInitKeeps, Pkcs11InitKeeps, tlsSetupKeeps, tlsHandshakeKeeps,
     Pkcs11TlsSetupKeeps, MbedtlsCleanUpKeeps, Pkcs11CleanUpKeeps DEF TlsStep
<1>4. CASE DisconnectStep
  BY <1>4, SocketDisconnectKeeps, ShutdownRecvKeeps, ShutdownEndsKeeps, MbedtlsFreeKeeps,
     Pkcs11FreeKeeps, ClearMutexesKeeps DEF DisconnectStep
<1>5. CASE CommandLoopFails \/ LinkBreaks
  BY <1>5, CommandLoopFailsKeeps, LinkBreaksKeeps
<1>6. CASE Stopped
  BY <1>1, <1>6 DEF Stopped
<1>7. QED
  BY <1>1, <1>2, <1>3, <1>4, <1>5, <1>6 DEF Next, AgentStep

\* The inductive invariant of the transport.
LEMMA TransportAlways == Spec => []TransportInv
  BY TransportInitially, TransportIsInductive, PTL DEF Spec

----------------------------------------------------------------------------
(* The theorems.                                                           *)

\* Every variable of the transport keeps its type: the retries stay within
\* RETRY_MAX_ATTEMPTS and the waiting of Sockets_Disconnect() within its
\* loops, and every handle kept is that of a socket that was created.
THEOREM TypesTheorem == Spec => []TypeOK
<1>1. TransportInv => TypeOK
  BY DEF TransportInv
<1>2. QED
  BY <1>1, TransportAlways, PTL

\* Whichever step of making a connection or of tearing it down fails, and
\* however often: no socket stays open but the one being connected or used.
THEOREM CurrentSocketTheorem == Spec => []CurrentSocketOnly
<1>1. TransportInv => CurrentSocketOnly
  BY DEF TransportInv
<1>2. QED
  BY <1>1, TransportAlways, PTL

\* MQTT is spoken through a TLS context that has its root CA, its
\* certificate and key, and the socket of this connection.
THEOREM SecuredTheorem == Spec => []SecuredBeforeUse
<1>1. TransportInv => SecuredBeforeUse
  BY DEF TransportInv
<1>2. QED
  BY <1>1, TransportAlways, PTL

\* The wakeup callback of a socket is called only while the socket is open.
THEOREM WakeupTheorem == Spec => []WakeupSocketIsOpen
<1>1. TransportInv => WakeupSocketIsOpen
  <2> SUFFICES ASSUME TransportInv, NEW h \in DOMAIN sockets, sockets[h].wakeup
               PROVE  sockets[h].state = "open"
    BY DEF WakeupSocketIsOpen
  <2>1. at \in {"up", "failed"} /\ h = tcpSocket
    BY DEF TransportInv, WakeupOfStep
  <2>2. QED
    BY <2>1 DEF TransportInv, SocketOfStep, Connected
<1>2. QED
  BY <1>1, TransportAlways, PTL

\* While the entropy source or the random generator has a mutex, mbedTLS has
\* the functions of the port for it.
THEOREM MutexesTheorem == Spec => []MutexesHeld
<1>1. TransportInv => MutexesHeld
  BY DEF TransportInv, MutexPlaces, MutexesHeld
<1>2. QED
  BY <1>1, TransportAlways, PTL

\* Every PKCS #11 session that connecting opens is closed again, by the
\* connection that failed half way or by the disconnection.
THEOREM SessionsTheorem == Spec => []SessionsBalanced
<1>1. TransportInv => SessionsBalanced
  BY DEF TransportInv, SessionPlaces, SessionsBalanced, Connected
<1>2. QED
  BY <1>1, TransportAlways, PTL
=============================================================================
