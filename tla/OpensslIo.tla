------------------------------ MODULE OpensslIo ------------------------------
(***************************************************************************)
(* Openssl_Send and Openssl_Recv of openssl_posix.c: what they return, for *)
(* what poll and OpenSSL told them.  To coreMQTT a positive number is what *)
(* was moved, 0 asks for another try and -1 ends the connection.           *)
(***************************************************************************)
EXTENDS Integers

(* poll is the result of poll() with no timeout; written of SSL_write.     *)
OpensslSend(sslIsNull, poll, written) ==
    CASE sslIsNull                             -> -1
      [] ~sslIsNull /\ poll > 0 /\ written > 0 -> written
      [] ~sslIsNull /\ poll > 0 /\ written < 1 -> -1
      [] ~sslIsNull /\ poll < 0                -> -1
      [] ~sslIsNull /\ poll = 0                -> 0

(* More than one byte is read at once, blocking for at most the socket's   *)
(* timeout; a single byte only when some is there.                         *)
ShouldRead(bytesToRecv, poll) == bytesToRecv > 1 \/ poll > 0

(* read is the number of bytes of SSL_read or, negative, its error.        *)
WANT_READ == -2
READ_ERROR == -1

(* Mutant: nothing read yet is an error.                                   *)
OpensslRecvNoRetry(sslIsNull, bytesToRecv, poll, read) ==
    CASE sslIsNull                                                -> -1
      [] ~sslIsNull /\ ShouldRead(bytesToRecv, poll) /\ read > 0  -> read
      [] ~sslIsNull /\ ShouldRead(bytesToRecv, poll) /\ read <= 0 -> -1
      [] ~sslIsNull /\ ~ShouldRead(bytesToRecv, poll)             -> poll

(* Mutant: an error of SSL_read is nothing read yet.                       *)
OpensslRecvAlwaysRetries(sslIsNull, bytesToRecv, poll, read) ==
    CASE sslIsNull                                                -> -1
      [] ~sslIsNull /\ ShouldRead(bytesToRecv, poll) /\ read > 0  -> read
      [] ~sslIsNull /\ ShouldRead(bytesToRecv, poll) /\ read <= 0 -> 0
      [] ~sslIsNull /\ ~ShouldRead(bytesToRecv, poll)             -> poll

OpensslRecv(sslIsNull, bytesToRecv, poll, read) ==
    CASE sslIsNull                                                    -> -1
      [] ~sslIsNull /\ ShouldRead(bytesToRecv, poll) /\ read > 0      -> read
      [] ~sslIsNull /\ ShouldRead(bytesToRecv, poll) /\ read = WANT_READ -> 0
      [] ~sslIsNull /\ ShouldRead(bytesToRecv, poll) /\ read \in {READ_ERROR, 0} -> -1
      [] ~sslIsNull /\ ~ShouldRead(bytesToRecv, poll)                 -> poll
=============================================================================
