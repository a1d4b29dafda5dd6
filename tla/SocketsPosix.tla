---------------------------- MODULE SocketsPosix ----------------------------
(***************************************************************************)
(* demo/transport/sockets_posix.c: the TCP socket under the TLS session.   *)
(* Sockets_Connect keeps its socket in *tcpSocket, which a next attempt    *)
(* overwrites; what is open is known to the system only.                   *)
(***************************************************************************)
EXTENDS Integers

CONSTANT Descriptors             \* the file descriptors socket() may return

(* 0, 1 and 2 are the process's standard streams, which it never closes.   *)
ASSUME DescriptorsAssumption == Descriptors \subseteq Nat \ {0}

VARIABLES socketDescriptor,      \* of opensslParams, static and so 0 at first
          openSockets            \* external: the sockets the system has open

NoSocket == -1

SocketsInit == socketDescriptor = 0 /\ openSockets = {}

(* One record's socket() in attemptConnection's loop.                      *)
SocketFails == socketDescriptor' = NoSocket /\ UNCHANGED openSockets

OpenSocket(fd) ==
    /\ fd \in Descriptors \ openSockets
    /\ socketDescriptor' = fd
    /\ openSockets' = openSockets \cup {fd}

(* Mutant: the socket that did not connect is left open.                   *)
LeaveUnconnected == UNCHANGED <<socketDescriptor, openSockets>>

(* connectToAddress when connect() fails: the socket is closed and its     *)
(* number stays in *tcpSocket.                                             *)
CloseUnconnected ==
    /\ openSockets' = openSockets \ {socketDescriptor}
    /\ UNCHANGED socketDescriptor

(* retrieveError: what a setsockopt that fails is reported as.             *)
SetsockoptErrors ==
    {"SOCKETS_INSUFFICIENT_MEMORY", "SOCKETS_INVALID_PARAMETER", "SOCKETS_API_ERROR"}

IsDisconnectable == socketDescriptor > 0

SocketsDisconnect ==
    /\ openSockets' = IF IsDisconnectable THEN openSockets \ {socketDescriptor}
                                          ELSE openSockets
    /\ UNCHANGED socketDescriptor
=============================================================================
