---------------------------- MODULE OpensslPosix ----------------------------
(***************************************************************************)
(* demo/transport/openssl_posix.c under transport_wrapper.c: how a TLS     *)
(* connection is made, step by step, and torn down.  Any step may fail;    *)
(* the steps after it are then skipped, up to the cleaning up.             *)
(*                                                                         *)
(* Openssl_Connect and Openssl_Disconnect run with the signals masked, so  *)
(* no other task sees their steps.  The caller is assumed to disconnect    *)
(* before it connects again.  The demos connect once, stop when that       *)
(* fails, and never disconnect.                                            *)
(***************************************************************************)
EXTENDS SocketsPosix

CONSTANT MaxAddresses            \* bound: address records of the endpoint

ASSUME MaxAddressesAssumption == MaxAddresses \in Nat \ {0}

VARIABLES
    at,                \* where the caller is: a connect's next step, "Closed"
                       \* or, after a connect, "Returned"
    addresses,         \* records attemptConnection has not tried yet
    sslContext,        \* Openssl_Connect's SSL_CTX is allocated
    ssl,               \* opensslParams->ssl: NoSsl or the session's state
    sslObjectCreated,
    returnStatus

tlsVars == <<socketDescriptor, openSockets, at, addresses, sslContext, ssl,
             sslObjectCreated, returnStatus>>

(* What a session has been given, and what it has checked.                 *)
SslFields == {"host", "socket", "handshake", "verified"}
NoSsl == [allocated |-> FALSE, done |-> {}, fd |-> 0]
NewSsl == [allocated |-> TRUE, done |-> {}, fd |-> 0]

Succeeded == returnStatus = "OPENSSL_SUCCESS"

(* convertToOpensslStatus: two statuses of the socket have no counterpart. *)
ConvertToOpensslStatus(socketStatus) ==
    CASE socketStatus = "SOCKETS_SUCCESS"         -> "OPENSSL_SUCCESS"
      [] socketStatus = "SOCKETS_DNS_FAILURE"     -> "OPENSSL_DNS_FAILURE"
      [] socketStatus = "SOCKETS_CONNECT_FAILURE" -> "OPENSSL_CONNECT_FAILURE"
      [] OTHER                                    -> "OPENSSL_INVALID_PARAMETER"

TlsInit ==
    /\ SocketsInit
    /\ at = "Closed"
    /\ addresses = 0
    /\ sslContext = FALSE
    /\ ssl = NoSsl
    /\ sslObjectCreated = FALSE
    /\ returnStatus = "OPENSSL_SUCCESS"
-----------------------------------------------------------------------------
(* transport_tlsConnect calls Openssl_Connect once it has read the three   *)
(* files; a file it cannot open stops the program before that.             *)
CallConnect ==
    /\ at = "Closed"
    /\ at' = "Resolve"
    /\ sslObjectCreated' = FALSE
    /\ returnStatus' = "OPENSSL_SUCCESS"
    /\ UNCHANGED <<socketDescriptor, openSockets, addresses, sslContext, ssl>>

(* The step fails: the rest of the connect is skipped.                     *)
Skip(status) ==
    /\ returnStatus' = status
    /\ at' = "FreeContext"

(* An endpoint of no characters, or one that getaddrinfo does not resolve. *)
ResolveFails ==
    /\ at = "Resolve"
    /\ \E status \in {"SOCKETS_INVALID_PARAMETER", "SOCKETS_DNS_FAILURE"} :
          Skip(ConvertToOpensslStatus(status))
    /\ UNCHANGED <<socketDescriptor, openSockets, addresses, sslContext, ssl,
                   sslObjectCreated>>

ResolveHostName ==
    /\ at = "Resolve"
    /\ addresses' \in 1 .. MaxAddresses
    /\ at' = "Attempt"
    /\ UNCHANGED <<socketDescriptor, openSockets, sslContext, ssl,
                   sslObjectCreated, returnStatus>>

(* Mutant: the loop does not stop at the end of the list.                  *)
AttemptPastTheList ==
    /\ at = "Attempt"
    /\ addresses' = addresses - 1
    /\ \/ SocketFails /\ UNCHANGED at
       \/ /\ \E fd \in Descriptors : OpenSocket(fd)
          /\ at' = "ConnectTcp"
    /\ UNCHANGED <<sslContext, ssl, sslObjectCreated, returnStatus>>

(* attemptConnection: the next record, when there is one.                  *)
AttemptConnection ==
    /\ at = "Attempt" /\ addresses > 0
    /\ addresses' = addresses - 1
    /\ \/ SocketFails /\ UNCHANGED at
       \/ /\ \E fd \in Descriptors : OpenSocket(fd)
          /\ at' = "ConnectTcp"
    /\ UNCHANGED <<sslContext, ssl, sslObjectCreated, returnStatus>>

(* Mutant: the record whose connect() failed is tried again, for ever.      *)
ConnectFailsSameAddress ==
    /\ at = "ConnectTcp"
    /\ CloseUnconnected
    /\ at' = "Attempt"
    /\ addresses' = addresses + 1
    /\ UNCHANGED <<sslContext, ssl, sslObjectCreated, returnStatus>>

ConnectFails ==
    /\ at = "ConnectTcp"
    /\ CloseUnconnected
    /\ at' = "Attempt"
    /\ UNCHANGED <<addresses, sslContext, ssl, sslObjectCreated, returnStatus>>

NoMoreAddresses ==
    /\ at = "Attempt" /\ addresses = 0
    /\ Skip(ConvertToOpensslStatus("SOCKETS_CONNECT_FAILURE"))
    /\ UNCHANGED <<socketDescriptor, openSockets, addresses, sslContext, ssl,
                   sslObjectCreated>>

(* The two setsockopt of Sockets_Connect.  A failure leaves the socket as  *)
(* it is: connected, in *tcpSocket, and open.                              *)
TimeoutFails ==
    /\ at \in {"SendTimeout", "RecvTimeout"}
    /\ \E status \in SetsockoptErrors : Skip(ConvertToOpensslStatus(status))
    /\ UNCHANGED <<socketDescriptor, openSockets, addresses, sslContext, ssl,
                   sslObjectCreated>>

(* What comes after a step that succeeds and gives the session nothing.    *)
After == [ConnectTcp  |-> "SendTimeout", SendTimeout |-> "RecvTimeout",
          RecvTimeout |-> "Context",     RootCa      |-> "Certificate",
          Certificate |-> "PrivateKey",  PrivateKey  |-> "Session"]

StepSucceeds ==
    /\ at \in DOMAIN After
    /\ at' = After[at]
    /\ UNCHANGED <<socketDescriptor, openSockets, addresses, sslContext, ssl,
                   sslObjectCreated, returnStatus>>

CreateContext ==
    /\ at = "Context"
    /\ \/ sslContext' = TRUE /\ at' = "RootCa" /\ UNCHANGED returnStatus
       \/ Skip("OPENSSL_API_ERROR") /\ UNCHANGED sslContext
    /\ UNCHANGED <<socketDescriptor, openSockets, addresses, ssl, sslObjectCreated>>

(* setCredentials stops at the first of the three that is not accepted.    *)
CredentialsFail ==
    /\ at \in {"RootCa", "Certificate", "PrivateKey"}
    /\ Skip("OPENSSL_INVALID_CREDENTIALS")
    /\ UNCHANGED <<socketDescriptor, openSockets, addresses, sslContext, ssl,
                   sslObjectCreated>>

CreateSession ==
    /\ at = "Session"
    /\ \/ /\ ssl' = NewSsl
          /\ sslObjectCreated' = TRUE
          /\ at' = "SetHost"
          /\ UNCHANGED returnStatus
       \/ /\ ssl' = NoSsl
          /\ Skip("OPENSSL_API_ERROR")
          /\ UNCHANGED sslObjectCreated
    /\ UNCHANGED <<socketDescriptor, openSockets, addresses, sslContext>>
-----------------------------------------------------------------------------
(* tlsHandshake.                                                           *)
TlsStep(from, done, to) ==
    /\ at = from
    /\ ssl' = [ssl EXCEPT !.done = @ \cup {done}]
    /\ at' = to
    /\ UNCHANGED <<socketDescriptor, openSockets, addresses, sslContext,
                   sslObjectCreated, returnStatus>>

SetHost   == TlsStep("SetHost", "host", "SetFd")
Handshake == TlsStep("Handshake", "handshake", "Verify")

SetFd ==
    /\ at = "SetFd"
    /\ ssl' = [ssl EXCEPT !.done = @ \cup {"socket"}, !.fd = socketDescriptor]
    /\ at' = "Handshake"
    /\ UNCHANGED <<socketDescriptor, openSockets, addresses, sslContext,
                   sslObjectCreated, returnStatus>>

TlsFailure == [SetHost   |-> "OPENSSL_API_ERROR",
               SetFd     |-> "OPENSSL_API_ERROR",
               Handshake |-> "OPENSSL_HANDSHAKE_FAILED",
               Verify    |-> "OPENSSL_HANDSHAKE_FAILED"]

(* Mutant: the result of the verification is not looked at.                *)
TlsStepFailsUnlessVerify ==
    /\ at \in DOMAIN TlsFailure
    /\ IF at = "Verify" THEN at' = "FreeContext" /\ UNCHANGED returnStatus
                        ELSE Skip(TlsFailure[at])
    /\ UNCHANGED <<socketDescriptor, openSockets, addresses, sslContext, ssl,
                   sslObjectCreated>>

TlsStepFails ==
    /\ at \in DOMAIN TlsFailure
    /\ Skip(TlsFailure[at])
    /\ UNCHANGED <<socketDescriptor, openSockets, addresses, sslContext, ssl,
                   sslObjectCreated>>

(* The certificate is of the host that was set, and its chain is trusted.  *)
VerifyPeer == TlsStep("Verify", "verified", "FreeContext")
-----------------------------------------------------------------------------
FreeContext ==
    /\ at = "FreeContext"
    /\ sslContext' = FALSE
    /\ at' = "CleanUp"
    /\ UNCHANGED <<socketDescriptor, openSockets, addresses, ssl,
                   sslObjectCreated, returnStatus>>

(* "Clean up on error", and the return.                                    *)
CleanUp ==
    /\ at = "CleanUp"
    /\ ssl' = IF ~Succeeded /\ sslObjectCreated THEN NoSsl ELSE ssl
    /\ at' = "Returned"
    /\ UNCHANGED <<socketDescriptor, openSockets, addresses, sslContext,
                   sslObjectCreated, returnStatus>>

(* Mutant: the session stays when its socket is closed.                    *)
DisconnectSocketOnly ==
    /\ at \in {"Closed", "Returned"}
    /\ SocketsDisconnect
    /\ at' = "Closed"
    /\ UNCHANGED <<addresses, sslContext, ssl, sslObjectCreated, returnStatus>>

(* Mutant: without a session there is nothing to disconnect.               *)
DisconnectSessionOnly ==
    /\ at \in {"Closed", "Returned"}
    /\ ssl' = NoSsl
    /\ IF ssl.allocated THEN SocketsDisconnect
                        ELSE UNCHANGED <<socketDescriptor, openSockets>>
    /\ at' = "Closed"
    /\ UNCHANGED <<addresses, sslContext, sslObjectCreated, returnStatus>>

(* Openssl_Disconnect, under transport_tlsDisconnect.                      *)
OpensslDisconnect ==
    /\ at \in {"Closed", "Returned"}
    /\ ssl' = NoSsl
    /\ SocketsDisconnect
    /\ at' = "Closed"
    /\ UNCHANGED <<addresses, sslContext, sslObjectCreated, returnStatus>>
-----------------------------------------------------------------------------
ConnectStep ==
    \/ ResolveFails \/ ResolveHostName
    \/ AttemptConnection \/ ConnectFails \/ NoMoreAddresses
    \/ TimeoutFails \/ StepSucceeds
    \/ CreateContext \/ CredentialsFail \/ CreateSession
    \/ SetHost \/ SetFd \/ Handshake \/ VerifyPeer \/ TlsStepFails
    \/ FreeContext \/ CleanUp

TlsNext == CallConnect \/ ConnectStep \/ OpensslDisconnect

TlsSpec == TlsInit /\ [][TlsNext]_tlsVars

(* The calls a connect makes all return: getaddrinfo, connect and          *)
(* SSL_connect have timeouts of their own.                                 *)
TlsFairSpec == TlsSpec /\ WF_tlsVars(ConnectStep)
-----------------------------------------------------------------------------
AtRest == at \in {"Closed", "Returned"}

IsVerified(s) == s.allocated /\ s.done = SslFields

TlsTypeOK ==
    /\ socketDescriptor \in Descriptors \cup {NoSocket, 0}
    /\ openSockets \subseteq Descriptors
    /\ at \in DOMAIN After \cup DOMAIN TlsFailure
              \cup {"Closed", "Resolve", "Attempt", "Context", "Session",
                    "FreeContext", "CleanUp", "Returned"}
    /\ addresses \in 0 .. MaxAddresses
    /\ sslContext \in BOOLEAN
    /\ ssl \in [allocated : BOOLEAN, done : SUBSET SslFields,
                fd : Descriptors \cup {NoSocket, 0}]
    /\ sslObjectCreated \in BOOLEAN
    /\ returnStatus \in {"OPENSSL_SUCCESS", "OPENSSL_INVALID_PARAMETER",
                         "OPENSSL_DNS_FAILURE", "OPENSSL_CONNECT_FAILURE",
                         "OPENSSL_API_ERROR", "OPENSSL_INVALID_CREDENTIALS",
                         "OPENSSL_HANDSHAKE_FAILED"}

(* Whatever attempts were made, every socket that is still open is the one *)
(* in socketDescriptor: none is out of reach of a disconnect, although the *)
(* descriptor is overwritten at each attempt (attemptConnection).          *)
NoSocketOutOfReach == openSockets \subseteq {socketDescriptor}

(* A session that outlives a connect works on the socket that is still     *)
(* open, which later sends and receives poll through socketDescriptor      *)
(* (Openssl_Send, Openssl_Recv).                                           *)
SessionIsOnTheSocket ==
    AtRest /\ ssl.allocated => /\ ssl.fd = socketDescriptor
                               /\ ssl.fd \in openSockets

(* After a disconnect nothing of the connection is left, also when it      *)
(* follows a connect that failed half way (Openssl_Disconnect).            *)
DisconnectReleasesAll ==
    at = "Closed" => openSockets = {} /\ ~sslContext /\ ~ssl.allocated

(* A connect that begins returns, however many records fail.               *)
ConnectReturns == at = "Resolve" ~> at = "Returned"

(* The transport implements TlsChannel: what a connect returns agrees with *)
(* the session it leaves.                                                  *)
Channel == INSTANCE TlsChannel WITH
    session <- IF ~AtRest \/ ~ssl.allocated THEN "none"
               ELSE IF IsVerified(ssl) THEN "verified" ELSE "unverified",
    told <- IF at # "Returned" THEN "nothing"
            ELSE IF Succeeded THEN "connected" ELSE "failed"

ImplementsChannel == Channel!Spec
=============================================================================
