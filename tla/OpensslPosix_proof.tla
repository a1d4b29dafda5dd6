------------------------- MODULE OpensslPosix_proof -------------------------
(***************************************************************************)
(* Proofs about the TLS transport, for any descriptors and any number of   *)
(* address records.                                                        *)
(***************************************************************************)
EXTENDS OpensslPosix, TLAPS

(* How far a connect has come: before a socket is connected, before the    *)
(* session is made, and in the handshake.                                  *)
NoSocketSteps  == {"Closed", "Resolve", "Attempt"}
SocketSteps    == {"ConnectTcp", "SendTimeout", "RecvTimeout", "Context",
                   "RootCa", "Certificate", "PrivateKey", "Session"}
HandshakeSteps == {"SetHost", "SetFd", "Handshake", "Verify"}
EndSteps       == {"FreeContext", "CleanUp", "Returned"}

(* What has been done to the session when the handshake is at a step.      *)
DoneAt == [SetHost   |-> {},
           SetFd     |-> {"host"},
           Handshake |-> {"host", "socket"},
           Verify    |-> {"host", "socket", "handshake"}]

SocketInv ==
    /\ at \in NoSocketSteps => openSockets = {}
    /\ at \in SocketSteps \cup HandshakeSteps => openSockets = {socketDescriptor}
    /\ at \in EndSteps => /\ openSockets \subseteq {socketDescriptor}
                          /\ Succeeded => openSockets = {socketDescriptor}

SessionInv ==
    /\ at \in NoSocketSteps \cup SocketSteps => ssl = NoSsl
    /\ at \in (NoSocketSteps \ {"Closed"}) \cup SocketSteps => ~sslObjectCreated
    /\ at \in HandshakeSteps => /\ sslObjectCreated
                                /\ ssl.allocated
                                /\ ssl.done = DoneAt[at]
                                /\ at \in {"Handshake", "Verify"} => ssl.fd = socketDescriptor
    /\ at \in {"FreeContext", "CleanUp"} /\ ~sslObjectCreated => ssl = NoSsl
    /\ at \in EndSteps /\ Succeeded => IsVerified(ssl) /\ ssl.fd = socketDescriptor
    /\ at = "Returned" /\ ~Succeeded => ssl = NoSsl

StatusInv ==
    /\ at \in (NoSocketSteps \ {"Closed"}) \cup SocketSteps \cup HandshakeSteps => Succeeded
    /\ at \in {"Closed", "Returned", "CleanUp"} => ~sslContext

TlsInv == TlsTypeOK /\ SocketInv /\ SessionInv /\ StatusInv

-----------------------------------------------------------------------------
USE DescriptorsAssumption, MaxAddressesAssumption

(* The steps of a connect, by name.                                        *)
LEMMA Steps ==
    /\ DOMAIN After = {"ConnectTcp", "SendTimeout", "RecvTimeout", "RootCa",
                       "Certificate", "PrivateKey"}
    /\ DOMAIN TlsFailure = HandshakeSteps
    /\ After["ConnectTcp"] = "SendTimeout" /\ After["SendTimeout"] = "RecvTimeout"
    /\ After["RecvTimeout"] = "Context" /\ After["RootCa"] = "Certificate"
    /\ After["Certificate"] = "PrivateKey" /\ After["PrivateKey"] = "Session"
    /\ DoneAt["SetHost"] = {} /\ DoneAt["SetFd"] = {"host"}
    /\ DoneAt["Handshake"] = {"host", "socket"}
    /\ DoneAt["Verify"] = {"host", "socket", "handshake"}
  BY DEF After, TlsFailure, HandshakeSteps, DoneAt

(* What a failed step reports is never a success.                          *)
LEMMA Failures ==
    /\ \A s \in HandshakeSteps :
          TlsFailure[s] \in {"OPENSSL_API_ERROR", "OPENSSL_HANDSHAKE_FAILED"}
    /\ \A s \in SetsockoptErrors : ConvertToOpensslStatus(s) = "OPENSSL_INVALID_PARAMETER"
    /\ ConvertToOpensslStatus("SOCKETS_DNS_FAILURE") = "OPENSSL_DNS_FAILURE"
    /\ ConvertToOpensslStatus("SOCKETS_INVALID_PARAMETER") = "OPENSSL_INVALID_PARAMETER"
    /\ ConvertToOpensslStatus("SOCKETS_CONNECT_FAILURE") = "OPENSSL_CONNECT_FAILURE"
  BY DEF TlsFailure, HandshakeSteps, SetsockoptErrors, ConvertToOpensslStatus

(* The values a session starts from.                                       *)
SslStates == [allocated : BOOLEAN, done : SUBSET SslFields,
              fd : Descriptors \cup {NoSocket, 0}]

LEMMA SslValues ==
    /\ NoSsl \in SslStates /\ NewSsl \in SslStates
    /\ ~NoSsl.allocated /\ NewSsl.allocated /\ NewSsl.done = {}
  BY DEF SslStates, NoSsl, NewSsl

USE DEF NoSocketSteps, SocketSteps, EndSteps, HandshakeSteps,
        NoSocket, Succeeded

LEMMA TlsInitInv == TlsInit => TlsInv
<1> SUFFICES ASSUME TlsInit PROVE TlsInv
  OBVIOUS
<1> USE Steps, SslValues DEF SslStates, TlsInit, SocketsInit
<1>1. TlsTypeOK
  <2>1. ssl \in SslStates /\ at = "Closed"
    BY DEF TlsInit
  <2>2. /\ socketDescriptor \in Descriptors \cup {NoSocket, 0}
        /\ openSockets \subseteq Descriptors
        /\ addresses \in 0 .. MaxAddresses
    BY DEF TlsInit
  <2>3. sslContext \in BOOLEAN /\ sslObjectCreated \in BOOLEAN
    BY DEF TlsInit
  <2> QED BY <2>1, <2>2, <2>3 DEF TlsTypeOK
<1>2. SocketInv
  BY DEF SocketInv
<1>3. SessionInv
  BY DEF SessionInv
<1>4. StatusInv
  BY DEF StatusInv
<1> QED BY <1>1, <1>2, <1>3, <1>4 DEF TlsInv

(* Every step of a connect, and the two calls, keep the invariant.         *)
LEMMA TlsNextInv == TlsInv /\ [TlsNext]_tlsVars => TlsInv'
<1> SUFFICES ASSUME TlsInv, [TlsNext]_tlsVars PROVE TlsInv'
  OBVIOUS
<1> USE Steps, Failures, SslValues DEF SslStates, TlsInv, TlsTypeOK, SocketInv, SessionInv, StatusInv
<1>1. CASE CallConnect
  BY <1>1 DEF CallConnect
<1>2. CASE ResolveFails
  BY <1>2 DEF ResolveFails, Skip
<1>3. CASE ResolveHostName
  BY <1>3 DEF ResolveHostName
<1>4. CASE AttemptConnection
  <2>1. CASE SocketFails /\ UNCHANGED at
    BY <1>4, <2>1 DEF AttemptConnection, SocketFails
  <2>2. CASE /\ \E fd \in Descriptors : OpenSocket(fd)
             /\ at' = "ConnectTcp"
    <3>1. PICK fd \in Descriptors : OpenSocket(fd)
      BY <2>2
    <3>2. openSockets' = {socketDescriptor'} /\ socketDescriptor' \in Descriptors
      BY <1>4, <3>1 DEF AttemptConnection, OpenSocket
    <3>3. addresses' \in 0 .. MaxAddresses
      BY <1>4 DEF AttemptConnection
    <3> QED BY <1>4, <2>2, <3>2, <3>3 DEF AttemptConnection
  <2> QED BY <1>4, <2>1, <2>2 DEF AttemptConnection
<1>5. CASE ConnectFails
  BY <1>5 DEF ConnectFails, CloseUnconnected
<1>6. CASE NoMoreAddresses
  BY <1>6 DEF NoMoreAddresses, Skip
<1>7. CASE TimeoutFails
  BY <1>7 DEF TimeoutFails, Skip
<1>8. CASE StepSucceeds
  BY <1>8 DEF StepSucceeds
<1>9. CASE CreateContext
  BY <1>9 DEF CreateContext, Skip
<1>10. CASE CredentialsFail
  BY <1>10 DEF CredentialsFail, Skip
<1>11. CASE CreateSession
  <2>1. CASE ssl' = NewSsl /\ sslObjectCreated' = TRUE /\ at' = "SetHost" /\ UNCHANGED returnStatus
    BY <1>11, <2>1 DEF CreateSession
  <2>2. CASE ssl' = NoSsl /\ Skip("OPENSSL_API_ERROR") /\ UNCHANGED sslObjectCreated
    BY <1>11, <2>2 DEF CreateSession, Skip
  <2> QED BY <1>11, <2>1, <2>2 DEF CreateSession
<1>12. CASE SetHost
  BY <1>12 DEF SetHost, TlsStep, SslFields
<1>13. CASE SetFd
  <2>1. ssl' = [ssl EXCEPT !.done = {"host", "socket"}, !.fd = socketDescriptor]
    <3>1. ssl.done = {"host"}
      BY <1>13 DEF SetFd
    <3>2. ssl.done \cup {"socket"} = {"host", "socket"}
      BY <3>1
    <3> QED BY <1>13, <3>2 DEF SetFd
  <2>2. ssl' = [allocated |-> TRUE, done |-> {"host", "socket"}, fd |-> socketDescriptor]
    BY <1>13, <2>1 DEF SetFd
  <2>3. /\ ssl' \in SslStates /\ ssl'.allocated
        /\ ssl'.done = DoneAt["Handshake"] /\ ssl'.fd = socketDescriptor
    BY <2>2 DEF SslFields
  <2> QED BY <1>13, <2>3 DEF SetFd
<1>14. CASE Handshake
  BY <1>14 DEF Handshake, TlsStep, SslFields
<1>15. CASE VerifyPeer
  BY <1>15 DEF VerifyPeer, TlsStep, SslFields, IsVerified
<1>16. CASE TlsStepFails
  BY <1>16 DEF TlsStepFails, Skip
<1>17. CASE FreeContext
  BY <1>17 DEF FreeContext
<1>18. CASE CleanUp
  BY <1>18 DEF CleanUp, IsVerified
<1>19. CASE OpensslDisconnect
  BY <1>19 DEF OpensslDisconnect, SocketsDisconnect, IsDisconnectable
<1>20. CASE UNCHANGED tlsVars
  BY <1>20 DEF tlsVars, IsVerified
<1> QED
  BY <1>1, <1>2, <1>3, <1>4, <1>5, <1>6, <1>7, <1>8, <1>9, <1>10, <1>11, <1>12, <1>13, <1>14, <1>15, <1>16, <1>17, <1>18, <1>19, <1>20 DEF TlsNext, ConnectStep

THEOREM TlsInvariance == TlsSpec => []TlsInv
<1>1. TlsInit => TlsInv
  BY TlsInitInv
<1>2. TlsInv /\ [TlsNext]_tlsVars => TlsInv'
  BY TlsNextInv
<1> QED BY <1>1, <1>2, PTL DEF TlsSpec
-----------------------------------------------------------------------------
(* The variables of the transport keep their types.                        *)
THEOREM TlsTypeCorrect == TlsSpec => []TlsTypeOK
<1>1. TlsInv => TlsTypeOK
  BY DEF TlsInv
<1> QED BY <1>1, TlsInvariance, PTL

(* No socket is open but the one a disconnect would close, however many of *)
(* the attempts of attemptConnection failed.                               *)
THEOREM NoSocketIsLost == TlsSpec => []NoSocketOutOfReach
<1>1. TlsInv => NoSocketOutOfReach
  BY Steps DEF TlsInv, TlsTypeOK, SocketInv, NoSocketOutOfReach
<1> QED BY <1>1, TlsInvariance, PTL

(* The session that Openssl_Send and Openssl_Recv use is on the open       *)
(* socket they poll.                                                       *)
THEOREM SessionKeepsItsSocket == TlsSpec => []SessionIsOnTheSocket
<1>1. TlsInv => SessionIsOnTheSocket
  BY SslValues DEF TlsInv, SocketInv, SessionInv, SessionIsOnTheSocket, AtRest
<1> QED BY <1>1, TlsInvariance, PTL

(* A disconnect leaves no socket, context or session.                      *)
THEOREM DisconnectReleases == TlsSpec => []DisconnectReleasesAll
<1>1. TlsInv => DisconnectReleasesAll
  BY SslValues DEF TlsInv, SocketInv, SessionInv, StatusInv, DisconnectReleasesAll
<1> QED BY <1>1, TlsInvariance, PTL
-----------------------------------------------------------------------------
(* At rest the session and what the caller was told agree.                 *)
LEMMA Agreement ==
    ASSUME TlsInv, AtRest
    PROVE  IF at = "Returned" /\ Succeeded THEN ssl.allocated /\ IsVerified(ssl)
                                           ELSE ~ssl.allocated
  BY SslValues DEF TlsInv, SessionInv, AtRest, IsVerified

(* Openssl_Connect and Openssl_Disconnect implement TlsChannel: a connect  *)
(* returns true with a verified session or false with none.                *)
THEOREM TransportImplementsChannel == TlsSpec => ImplementsChannel
<1> DEFINE session == IF ~AtRest \/ ~ssl.allocated THEN "none"
                      ELSE IF IsVerified(ssl) THEN "verified" ELSE "unverified"
           told == IF at # "Returned" THEN "nothing"
                   ELSE IF Succeeded THEN "connected" ELSE "failed"
<1>1. TlsInit => Channel!Init
  BY SslValues DEF TlsInit, Channel!Init, AtRest
<1>2. ASSUME TlsInv, TlsInv', [TlsNext]_tlsVars
      PROVE  [Channel!Next]_Channel!channelVars
  <2>1. /\ AtRest => session = IF at = "Returned" /\ Succeeded THEN "verified" ELSE "none"
        /\ ~AtRest => session = "none" /\ told = "nothing"
    BY <1>2, Agreement DEF AtRest
  <2>2. /\ AtRest' => session' = IF at' = "Returned" /\ Succeeded' THEN "verified" ELSE "none"
        /\ ~AtRest' => session' = "none" /\ told' = "nothing"
    <3>1. TlsInv' /\ AtRest' => IF at' = "Returned" /\ Succeeded'
                                THEN ssl'.allocated /\ IsVerified(ssl')
                                ELSE ~ssl'.allocated
      BY SslValues DEF TlsInv, SessionInv, AtRest, IsVerified
    <3> QED BY <1>2, <3>1 DEF AtRest
  <2>3. CASE CallConnect
    BY <2>1, <2>2, <2>3 DEF CallConnect, AtRest, Channel!Next, Channel!channelVars
  <2>4. CASE OpensslDisconnect
    BY <2>1, <2>2, <2>4 DEF OpensslDisconnect, AtRest, Channel!Next,
       Channel!Disconnected, Channel!channelVars
  <2>5. CASE CleanUp
    BY <2>1, <2>2, <2>5 DEF CleanUp, AtRest, Channel!Next, Channel!Connected,
       Channel!Refused, Channel!channelVars
  <2>6. CASE ConnectStep /\ ~CleanUp
    <3>1. ~AtRest /\ ~AtRest'
      BY <2>6, Steps DEF ConnectStep, AtRest, ResolveFails, ResolveHostName,
         AttemptConnection, ConnectFails, NoMoreAddresses, TimeoutFails, StepSucceeds,
         CreateContext, CredentialsFail, CreateSession, SetHost, SetFd, Handshake,
         VerifyPeer, TlsStepFails, FreeContext, Skip, TlsStep
    <3> QED BY <2>1, <2>2, <3>1 DEF Channel!channelVars
  <2>7. CASE UNCHANGED tlsVars
    <3>1. AtRest' = AtRest /\ session' = session /\ told' = told
      BY <2>7 DEF tlsVars, AtRest, IsVerified
    <3> QED BY <3>1 DEF Channel!channelVars
  <2> QED BY <1>2, <2>3, <2>4, <2>5, <2>6, <2>7 DEF TlsNext
<1> QED BY <1>1, <1>2, TlsInvariance, PTL DEF TlsSpec, ImplementsChannel, Channel!Spec
=============================================================================
