------------------------ MODULE MqttConnection_proof ------------------------
(***************************************************************************)
(* Proofs about the two tasks over one TLS session, for packets of any     *)
(* size and number and for a 32-bit clock of any range.                    *)
(***************************************************************************)
EXTENDS MqttConnection, TLAPS

USE ClockAssumption

-----------------------------------------------------------------------------
(* The clock: its reading is the time in milliseconds, and the difference  *)
(* of two readings is the time between them also when the 32 bits have     *)
(* wrapped.                                                                *)

(* Division with remainder.                                                *)
LEMMA DivMod ==
    ASSUME NEW a \in Int, NEW n \in Nat \ {0}
    PROVE  /\ a \div n \in Int /\ a % n \in 0 .. n - 1
           /\ a = n * (a \div n) + (a % n)
  OBVIOUS

(* Quotient and remainder are the only such numbers.                       *)
LEMMA DivModUnique ==
    ASSUME NEW n \in Nat \ {0}, NEW q \in Int, NEW r \in 0 .. n - 1
    PROVE  (n * q + r) \div n = q /\ (n * q + r) % n = r
  OBVIOUS

(* The reading is the time in milliseconds, without its upper bits and     *)
(* without the nanoseconds that do not make a millisecond.                 *)
THEOREM ReadingIsTheTime ==
    ASSUME NEW ms \in Nat, NEW ns \in 0 .. NANOSECONDS_PER_MILLISECOND - 1
    PROVE  ClockGetTimeMs(TimeSpec(ms, ns)) = ms % UINT32_RANGE
<1> DEFINE S == MILLISECONDS_PER_SECOND
           N == NANOSECONDS_PER_MILLISECOND
           sec == ms \div S
           rest == ms % S
<1>1. sec \in Int /\ rest \in Int /\ ms = S * sec + rest
  BY DivMod
<1>2. (N * rest + ns) \div N = rest
  BY <1>1, DivModUnique
<1>3. rest * N + ns = N * rest + ns /\ sec * S = S * sec
  BY <1>1
<1>4. sec * S + ((rest * N + ns) \div N) = ms
  BY <1>1, <1>2, <1>3
<1> QED BY <1>4 DEF ClockGetTimeMs, TimeSpec

(* The difference of two numbers whose upper bits are cut off.             *)
LEMMA DifferenceAcrossTheWrap ==
    ASSUME NEW start \in Nat, NEW d \in 0 .. UINT32_RANGE - 1
    PROVE  CalculateElapsedTime((start + d) % UINT32_RANGE, start % UINT32_RANGE) = d
<1> DEFINE R == UINT32_RANGE
           q == start \div R
           r == start % R
           p == (start + d) \div R
           s == (start + d) % R
<1>1. q \in Int /\ r \in 0 .. R - 1 /\ start = R * q + r
  BY DivMod
<1>2. p \in Int /\ s \in 0 .. R - 1 /\ start + d = R * p + s
  <2>1. start + d \in Int /\ R \in Nat \ {0}
    OBVIOUS
  <2> QED BY <2>1, DivMod
<1>3. s - r = R * (q - p) + d
  BY <1>1, <1>2
<1>4. (R * (q - p) + d) % R = d
  <2>1. q - p \in Int /\ R \in Nat \ {0}
    BY <1>1, <1>2
  <2> QED BY <2>1, DivModUnique
<1> QED BY <1>3, <1>4 DEF CalculateElapsedTime

(* Two readings of Clock_GetTimeMs, at times less than 2^32 ms apart:      *)
(* their difference in 32-bit arithmetic is the time between them, also    *)
(* across the wrap that the comment there leaves to the libraries.         *)
THEOREM ElapsedAcrossTheWrap ==
    ASSUME NEW start \in Nat, NEW d \in 0 .. UINT32_RANGE - 1,
           NEW ns1 \in 0 .. NANOSECONDS_PER_MILLISECOND - 1,
           NEW ns2 \in 0 .. NANOSECONDS_PER_MILLISECOND - 1
    PROVE  CalculateElapsedTime(ClockGetTimeMs(TimeSpec(start + d, ns2)),
                                ClockGetTimeMs(TimeSpec(start, ns1))) = d
<1>1. start + d \in Nat
  OBVIOUS
<1>2. /\ ClockGetTimeMs(TimeSpec(start + d, ns2)) = (start + d) % UINT32_RANGE
      /\ ClockGetTimeMs(TimeSpec(start, ns1)) = start % UINT32_RANGE
  BY <1>1, ReadingIsTheTime
<1> QED BY <1>2, DifferenceAcrossTheWrap

-----------------------------------------------------------------------------

(* The lock is held by the task that sends.                                *)
LockInv == \A t \in Tasks : Sending(t) <=> MQTTAgentLock = t

(* A task is inside OpenSSL while it masks the signals, and only one does. *)
MaskInv ==
    /\ \A t \in Tasks : InSsl(t) <=> t \in masked
    /\ \A t, u \in masked : t = u

(* The holder of the lock sends the newest packet, and what is on the wire *)
(* of that packet is at the wire's end.                                    *)
WireInv ==
    /\ \A i \in 1 .. Len(wire) : wire[i] \in 1 .. packets
    /\ PacketsContiguous
    /\ MQTTAgentLock \in Tasks =>
          /\ packet[MQTTAgentLock] = packets /\ packets > 0
          /\ \A i \in 1 .. Len(wire) : wire[i] = packets => i = Len(wire)

(* Nothing is sent or received before there is a session.                  *)
ChannelInv ==
    /\ channel = "null" => /\ connectStatus = "MQTTNotConnected"
                           /\ pc["T_OTA"] = "connect" /\ pc["T_MQTT"] = "idle"
    /\ ExitsOnlyWhenLost

(* The history variable is the time the clock shows to have passed.        *)
TimeInv ==
    MQTTAgentLock # NoTask =>
        CalculateElapsedTime(timeMs % UINT32_RANGE, startTime) = waited

ConnectionInv == /\ ConnectionTypeOK /\ LockInv /\ MaskInv /\ WireInv
                 /\ ChannelInv /\ TimeInv

USE ConnectionAssumption, MayLoseAssumption
USE DEF Tasks, NoTask, Steps, ConnectStates
-----------------------------------------------------------------------------
(* The clock's reading is the lower part of the time.                      *)
LEMMA Reading ==
    ASSUME timeMs \in Nat
    PROVE  /\ ClockReading = timeMs % UINT32_RANGE
           /\ ClockReading \in 0 .. UINT32_RANGE - 1
<1>1. 0 \in 0 .. NANOSECONDS_PER_MILLISECOND - 1
  OBVIOUS
<1>2. ClockReading = timeMs % UINT32_RANGE
  BY <1>1, ReadingIsTheTime DEF ClockReading
<1>3. timeMs \in Int
  OBVIOUS
<1> QED BY <1>2, <1>3, DivMod

(* Openssl_Send never reports more than it was given.                      *)
LEMMA SendReturns ==
    ASSUME NEW t \in Tasks, left[t] \in Nat, NEW sent \in SendResults(t)
    PROVE  /\ sent \in Int /\ sent <= left[t]
           /\ channel = "open" => sent >= 0
<1>1. CASE channel = "open"
  <2>1. PICK poll \in {0, 1}, written \in 1 .. left[t] :
           sent = OpensslSend(SslIsNull, poll, written)
    BY <1>1 DEF SendResults
  <2>2. sent = IF poll = 1 THEN written ELSE 0
    BY <1>1, <2>1 DEF OpensslSend, SslIsNull
  <2> QED BY <2>1, <2>2
<1>2. CASE channel # "open"
  <2>1. PICK poll \in {-1, 0, 1}, written \in {-1, 0} :
           sent = OpensslSend(SslIsNull, poll, written)
    BY <1>2 DEF SendResults
  <2>2. sent \in {-1, 0}
    <3>1. CASE SslIsNull
      BY <2>1, <3>1 DEF OpensslSend
    <3>2. CASE ~SslIsNull /\ poll = 1
      BY <2>1, <3>2 DEF OpensslSend
    <3>3. CASE ~SslIsNull /\ poll = 0
      BY <2>1, <3>3 DEF OpensslSend
    <3>4. CASE ~SslIsNull /\ poll = -1
      BY <2>1, <3>4 DEF OpensslSend
    <3> QED BY <3>1, <3>2, <3>3, <3>4
  <2> QED BY <1>2, <2>2
<1> QED BY <1>1, <1>2

(* While the connection is there, Openssl_Recv does not fail.              *)
LEMMA RecvReturns ==
    ASSUME NEW t \in Tasks, channel = "open", NEW received \in RecvResults(t)
    PROVE  received \in {0, 1}
<1> DEFINE bytes == IF t = "T_OTA" THEN 1 ELSE 2
<1>1. PICK poll \in {0, 1}, read \in {1, WANT_READ} :
         received = OpensslRecv(SslIsNull, bytes, poll, read)
  BY DEF RecvResults
<1>2. ~SslIsNull /\ bytes \in {1, 2}
  BY DEF SslIsNull
<1>3. CASE ~ShouldRead(bytes, poll)
  BY <1>1, <1>2, <1>3 DEF OpensslRecv, ShouldRead
<1>4. CASE ShouldRead(bytes, poll) /\ read = 1
  BY <1>1, <1>2, <1>4 DEF OpensslRecv, WANT_READ, READ_ERROR
<1>5. CASE ShouldRead(bytes, poll) /\ read = WANT_READ
  BY <1>1, <1>2, <1>5 DEF OpensslRecv, WANT_READ, READ_ERROR
<1> QED BY <1>1, <1>3, <1>4, <1>5
-----------------------------------------------------------------------------
LEMMA TypeKept ==
    ASSUME ConnectionTypeOK, LockInv, WireInv, [ConnectionNext]_connectionVars
    PROVE  ConnectionTypeOK'
<1> USE DEF ConnectionTypeOK, Runs, Go
<1>1. ASSUME NEW t \in Tasks, TaskStep(t) \/ Publish(t)
      PROVE  ConnectionTypeOK'
  <2>1. CASE StartSend(t)
    <3>1. startTime' \in 0 .. UINT32_RANGE - 1
      BY <2>1, Reading DEF StartSend
    <3>2. packets' \in 1 .. MaxPackets /\ packets' = packets + 1
      BY <2>1 DEF StartSend
    <3> QED BY <2>1, <3>1, <3>2 DEF StartSend, PreSendHook
  <2>2. CASE SendNothing(t)
    BY <2>2 DEF SendNothing
  <2>3. CASE EnterSend(t)
    BY <2>3 DEF EnterSend, MaskSignals
  <2>4. CASE LeaveSend(t)
    <3>1. PICK sent \in SendResults(t) :
             \/ /\ sent >= 0
                /\ left' = [left EXCEPT ![t] = @ - sent]
                /\ wire' = IF sent = 0 THEN wire ELSE Extended(wire, packet[t])
                /\ UNCHANGED connectStatus
             \/ /\ connectStatus' \in {connectStatus, "MQTTDisconnectPending"}
                /\ UNCHANGED <<left, wire>>
      BY <2>4 DEF LeaveSend
    <3>2. sent \in Int /\ sent <= left[t]
      BY SendReturns
    <3>3. left' \in [Tasks -> 0 .. PacketBytes]
      BY <3>1, <3>2
    <3>4. packet[t] \in 1 .. MaxPackets
      BY <2>4 DEF LeaveSend, LockInv, Sending, WireInv
    <3>5. wire' \in Seq(1 .. MaxPackets)
      <4>1. Extended(wire, packet[t]) \in {wire, Append(wire, packet[t])}
        BY DEF Extended
      <4>2. Append(wire, packet[t]) \in Seq(1 .. MaxPackets)
        BY <3>4
      <4>3. wire' \in {wire, Append(wire, packet[t])}
        BY <3>1, <4>1
      <4> QED BY <4>2, <4>3
    <3>6. pc' \in [Tasks -> Steps]
      BY <2>4 DEF LeaveSend
    <3> QED BY <2>4, <3>1, <3>3, <3>5, <3>6 DEF LeaveSend, RestoreSignals
  <2>5. CASE EndSend(t)
    BY <2>5 DEF EndSend, PostSendHook, IsConnecting
  <2>6. CASE EnterRecv(t)
    BY <2>6 DEF EnterRecv, MaskSignals
  <2>7. CASE Publish(t)
    BY <2>7 DEF Publish
  <2>8. CASE LeaveProcessLoop
    BY <2>8 DEF LeaveProcessLoop, RestoreSignals
  <2>9. CASE TlsConnect
    BY <2>9 DEF TlsConnect
  <2>10. CASE TlsConnectFails
    BY <2>10 DEF TlsConnectFails
  <2>11. CASE ReceiveConnack
    BY <2>11 DEF ReceiveConnack, RestoreSignals, MqttConnect
  <2> QED BY <1>1, <2>1, <2>2, <2>3, <2>4, <2>5, <2>6, <2>7, <2>8, <2>9, <2>10, <2>11 DEF TaskStep
<1>2. CASE Break
  BY <1>2 DEF Break
<1>3. CASE Tick
  BY <1>3 DEF Tick
<1>4. CASE UNCHANGED connectionVars
  BY <1>4 DEF connectionVars
<1> QED BY <1>1, <1>2, <1>3, <1>4 DEF ConnectionNext

LEMMA LockKept ==
    ASSUME ConnectionTypeOK, LockInv, [ConnectionNext]_connectionVars
    PROVE  LockInv'
<1> USE DEF ConnectionTypeOK, LockInv, Runs, Go, Sending
<1>1. ASSUME NEW t \in Tasks, TaskStep(t) \/ Publish(t)
      PROVE  LockInv'
  <2>1. CASE StartSend(t)
    BY <2>1 DEF StartSend, PreSendHook
  <2>2. CASE SendNothing(t)
    BY <2>2 DEF SendNothing
  <2>3. CASE EnterSend(t)
    BY <2>3 DEF EnterSend, MaskSignals
  <2>4. CASE LeaveSend(t)
    BY <2>4 DEF LeaveSend, RestoreSignals
  <2>5. CASE EndSend(t)
    BY <2>5 DEF EndSend, PostSendHook, IsConnecting
  <2>6. CASE EnterRecv(t)
    BY <2>6 DEF EnterRecv, MaskSignals
  <2>7. CASE Publish(t)
    BY <2>7 DEF Publish
  <2>8. CASE LeaveProcessLoop
    BY <2>8 DEF LeaveProcessLoop, RestoreSignals
  <2>9. CASE TlsConnect
    BY <2>9 DEF TlsConnect
  <2>10. CASE TlsConnectFails
    BY <2>10 DEF TlsConnectFails
  <2>11. CASE ReceiveConnack
    BY <2>11 DEF ReceiveConnack, RestoreSignals, MqttConnect
  <2> QED BY <1>1, <2>1, <2>2, <2>3, <2>4, <2>5, <2>6, <2>7, <2>8, <2>9, <2>10, <2>11 DEF TaskStep
<1>2. CASE Break
  BY <1>2 DEF Break
<1>3. CASE Tick
  BY <1>3 DEF Tick
<1>4. CASE UNCHANGED connectionVars
  BY <1>4 DEF connectionVars
<1> QED BY <1>1, <1>2, <1>3, <1>4 DEF ConnectionNext

LEMMA MaskKept ==
    ASSUME ConnectionTypeOK, MaskInv, [ConnectionNext]_connectionVars
    PROVE  MaskInv'
<1> USE DEF ConnectionTypeOK, MaskInv, Runs, Go, InSsl
<1>1. ASSUME NEW t \in Tasks, TaskStep(t) \/ Publish(t)
      PROVE  MaskInv'
  <2>1. CASE StartSend(t)
    BY <2>1 DEF StartSend, PreSendHook
  <2>2. CASE SendNothing(t)
    BY <2>2 DEF SendNothing
  <2>3. CASE EnterSend(t)
    BY <2>3 DEF EnterSend, MaskSignals
  <2>4. CASE LeaveSend(t)
    BY <2>4 DEF LeaveSend, RestoreSignals
  <2>5. CASE EndSend(t)
    BY <2>5 DEF EndSend, PostSendHook, IsConnecting
  <2>6. CASE EnterRecv(t)
    BY <2>6 DEF EnterRecv, MaskSignals
  <2>7. CASE Publish(t)
    BY <2>7 DEF Publish
  <2>8. CASE LeaveProcessLoop
    BY <2>8 DEF LeaveProcessLoop, RestoreSignals
  <2>9. CASE TlsConnect
    BY <2>9 DEF TlsConnect
  <2>10. CASE TlsConnectFails
    BY <2>10 DEF TlsConnectFails
  <2>11. CASE ReceiveConnack
    BY <2>11 DEF ReceiveConnack, RestoreSignals, MqttConnect
  <2> QED BY <1>1, <2>1, <2>2, <2>3, <2>4, <2>5, <2>6, <2>7, <2>8, <2>9, <2>10, <2>11 DEF TaskStep
<1>2. CASE Break
  BY <1>2 DEF Break
<1>3. CASE Tick
  BY <1>3 DEF Tick
<1>4. CASE UNCHANGED connectionVars
  BY <1>4 DEF connectionVars
<1> QED BY <1>1, <1>2, <1>3, <1>4 DEF ConnectionNext

LEMMA ChannelKept ==
    ASSUME ConnectionTypeOK, ChannelInv, [ConnectionNext]_connectionVars
    PROVE  ChannelInv'
<1> USE DEF ConnectionTypeOK, ChannelInv, Runs, Go, ExitsOnlyWhenLost, IsConnected
<1>1. ASSUME NEW t \in Tasks, TaskStep(t) \/ Publish(t)
      PROVE  ChannelInv'
  <2>1. CASE StartSend(t)
    BY <2>1 DEF StartSend, PreSendHook
  <2>2. CASE SendNothing(t)
    BY <2>2 DEF SendNothing
  <2>3. CASE EnterSend(t)
    BY <2>3 DEF EnterSend, MaskSignals
  <2>4. CASE LeaveSend(t)
    BY <2>4 DEF LeaveSend, RestoreSignals
  <2>5. CASE EndSend(t)
    BY <2>5 DEF EndSend, PostSendHook, IsConnecting
  <2>6. CASE EnterRecv(t)
    BY <2>6 DEF EnterRecv, MaskSignals
  <2>7. CASE Publish(t)
    BY <2>7 DEF Publish
  <2>8. CASE LeaveProcessLoop
    <3>1. PICK received \in RecvResults("T_MQTT") :
             IF received < 0 THEN process' = "exited" ELSE UNCHANGED process
      BY <2>8 DEF LeaveProcessLoop
    <3>2. channel = "open" => received \in {0, 1}
      BY RecvReturns
    <3> QED BY <2>8, <3>1, <3>2 DEF LeaveProcessLoop
  <2>9. CASE TlsConnect
    BY <2>9 DEF TlsConnect
  <2>10. CASE TlsConnectFails
    BY <2>10 DEF TlsConnectFails
  <2>11. CASE ReceiveConnack
    BY <2>11 DEF ReceiveConnack, RestoreSignals, MqttConnect
  <2> QED BY <1>1, <2>1, <2>2, <2>3, <2>4, <2>5, <2>6, <2>7, <2>8, <2>9, <2>10, <2>11 DEF TaskStep
<1>2. CASE Break
  BY <1>2 DEF Break
<1>3. CASE Tick
  BY <1>3 DEF Tick
<1>4. CASE UNCHANGED connectionVars
  BY <1>4 DEF connectionVars
<1> QED BY <1>1, <1>2, <1>3, <1>4 DEF ConnectionNext

(* The wire w is made of whole runs of the packets up to n.                *)
RunsOnce(w, n) ==
    /\ \A i \in 1 .. Len(w) : w[i] \in 1 .. n
    /\ \A i, j \in 1 .. Len(w) : w[i] = w[j] => i = j

OnlyAtEnd(w, p) == \A i \in 1 .. Len(w) : w[i] = p => i = Len(w)

(* A run that is begun is of the newest packet, which is at the end of the *)
(* wire or not on it yet.                                                  *)
LEMMA ExtendKeepsRuns ==
    ASSUME NEW n \in Nat \ {0}, NEW w \in Seq(Nat), RunsOnce(w, n), OnlyAtEnd(w, n)
    PROVE  RunsOnce(Extended(w, n), n) /\ OnlyAtEnd(Extended(w, n), n)
<1> USE DEF RunsOnce, OnlyAtEnd
<1> DEFINE p == n
           x == Extended(w, n)
<1> HIDE DEF x
<1>1. CASE w # <<>> /\ w[Len(w)] = p
  BY <1>1 DEF Extended, x
<1>2. CASE ~(w # <<>> /\ w[Len(w)] = p)
  <2>1. x = Append(w, p)
    BY <1>2 DEF Extended, x
  <2>2. /\ Len(x) = Len(w) + 1 /\ x[Len(w) + 1] = p /\ Len(w) \in Nat
        /\ \A i \in 1 .. Len(w) : x[i] = w[i]
    BY <2>1
  <2>3. \A i \in 1 .. Len(w) : w[i] # p
    BY <1>2
  <2>4. \A i \in 1 .. Len(x) : i \in 1 .. Len(w) \/ i = Len(w) + 1
    BY <2>2
  <2>5. \A i \in 1 .. Len(w) : w[i] \in 1 .. n
    OBVIOUS
  <2>6. \A i \in 1 .. Len(x) : x[i] \in 1 .. n
    BY <2>2, <2>4, <2>5
  <2>7. \A i \in 1 .. Len(x) : x[i] = p => i = Len(x)
    BY <2>2, <2>3, <2>4
  <2>8. \A i, j \in 1 .. Len(x) : x[i] = x[j] => i = j
    <3> SUFFICES ASSUME NEW i \in 1 .. Len(x), NEW j \in 1 .. Len(x), x[i] = x[j]
                 PROVE  i = j
      OBVIOUS
    <3>1. CASE x[i] = p
      BY <2>7, <3>1
    <3>2. CASE x[i] # p
      BY <2>2, <2>4, <3>2
    <3> QED BY <3>1, <3>2
  <2> QED BY <2>6, <2>7, <2>8 DEF x
<1> QED BY <1>1, <1>2

LEMMA WireKept ==
    ASSUME ConnectionTypeOK, LockInv, WireInv, [ConnectionNext]_connectionVars
    PROVE  WireInv'
<1> USE DEF ConnectionTypeOK, Runs
<1>1. ASSUME NEW t \in Tasks, StartSend(t)
      PROVE  WireInv'
  <2>1. /\ MQTTAgentLock' = t /\ packets' = packets + 1 /\ packet'[t] = packets + 1
        /\ wire' = wire
    BY <1>1 DEF StartSend, PreSendHook
  <2>2. \A i \in 1 .. Len(wire) : wire[i] \in 1 .. packets + 1 /\ wire[i] # packets + 1
    BY DEF WireInv
  <2> QED BY <2>1, <2>2 DEF WireInv, PacketsContiguous
<1>2. ASSUME NEW t \in Tasks, LeaveSend(t)
      PROVE  WireInv'
  <2>1. /\ MQTTAgentLock' = MQTTAgentLock /\ packets' = packets /\ packet' = packet
        /\ wire' \in {wire, Extended(wire, packet[t])}
    BY <1>2 DEF LeaveSend
  <2>2. MQTTAgentLock = t /\ packet[t] = packets /\ packets > 0
    BY <1>2 DEF LeaveSend, LockInv, Sending, WireInv
  <2>3. CASE wire' = wire
    BY <2>1, <2>3 DEF WireInv, PacketsContiguous
  <2>4. CASE wire' = Extended(wire, packets)
    <3>1. packets \in Nat \ {0} /\ wire \in Seq(Nat)
      BY <2>2
    <3>2. RunsOnce(wire, packets) /\ OnlyAtEnd(wire, packets)
      BY <2>2 DEF WireInv, PacketsContiguous, RunsOnce, OnlyAtEnd
    <3>3. RunsOnce(wire', packets) /\ OnlyAtEnd(wire', packets)
      BY <2>4, <3>1, <3>2, ExtendKeepsRuns
    <3> QED
      BY <2>1, <2>2, <3>3 DEF WireInv, PacketsContiguous, RunsOnce, OnlyAtEnd
  <2> QED BY <2>1, <2>2, <2>3, <2>4
<1>3. ASSUME NEW t \in Tasks, EndSend(t)
      PROVE  WireInv'
  BY <1>3 DEF EndSend, PostSendHook, WireInv, PacketsContiguous
<1>4. ASSUME UNCHANGED <<MQTTAgentLock, packet, packets, wire>>
      PROVE  WireInv'
  BY <1>4 DEF WireInv, PacketsContiguous
<1> QED
  BY <1>1, <1>2, <1>3, <1>4 DEF ConnectionNext, TaskStep, SendNothing, EnterSend, EnterRecv,
     Publish, LeaveProcessLoop, TlsConnect, TlsConnectFails, ReceiveConnack, Break,
     Tick, connectionVars
-----------------------------------------------------------------------------
(* The time that starts over is a whole number of the clock's ranges, so   *)
(* the clock goes on by one also then.                                     *)
LEMMA NextReading ==
    ASSUME NEW m \in 0 .. TimeCycle - 1
    PROVE  ((m + 1) % TimeCycle) % UINT32_RANGE = (m + 1) % UINT32_RANGE
<1>1. CASE m + 1 < TimeCycle
  <2>1. m + 1 = TimeCycle * 0 + (m + 1) /\ m + 1 \in 0 .. TimeCycle - 1
    BY <1>1
  <2>2. (m + 1) % TimeCycle = m + 1
    BY <2>1, DivModUnique
  <2> QED BY <2>2
<1>2. CASE m + 1 = TimeCycle
  <2>1. PICK cycles \in 1 .. TimeCycle : TimeCycle = cycles * UINT32_RANGE
    OBVIOUS
  <2>2. (UINT32_RANGE * cycles + 0) % UINT32_RANGE = 0
    <3>1. cycles \in Int /\ 0 \in 0 .. UINT32_RANGE - 1
      OBVIOUS
    <3> QED BY <3>1, DivModUnique
  <2>3. (TimeCycle * 1 + 0) % TimeCycle = 0
    <3>1. 0 \in 0 .. TimeCycle - 1
      OBVIOUS
    <3> QED BY <3>1, DivModUnique
  <2>4. (UINT32_RANGE * 0 + 0) % UINT32_RANGE = 0
    <3>1. 0 \in 0 .. UINT32_RANGE - 1
      OBVIOUS
    <3> QED BY <3>1, DivModUnique
  <2> QED BY <1>2, <2>1, <2>2, <2>3, <2>4
<1> QED BY <1>1, <1>2

(* One more millisecond of the time is one more of the elapsed time.       *)
LEMMA ElapsedStep ==
    ASSUME NEW m \in Nat, NEW s \in Int, NEW w \in 0 .. UINT32_RANGE - 2,
           CalculateElapsedTime(m % UINT32_RANGE, s) = w
    PROVE  CalculateElapsedTime((m + 1) % UINT32_RANGE, s) = w + 1
<1> DEFINE R == UINT32_RANGE
           a == m \div R
           x == m % R
           b == (m + 1) \div R
           y == (m + 1) % R
           c == (x - s) \div R
<1>0. R \in Nat \ {0} /\ m \in Int /\ m + 1 \in Int
  OBVIOUS
<1>1. a \in Int /\ x \in 0 .. R - 1 /\ m = R * a + x
  BY <1>0, DivMod
<1>2. b \in Int /\ y \in 0 .. R - 1 /\ m + 1 = R * b + y
  BY <1>0, DivMod
<1>3. c \in Int /\ x - s = R * c + w
  <2>1. x - s \in Int
    BY <1>1
  <2>2. (x - s) % R = w
    BY DEF CalculateElapsedTime
  <2> QED BY <1>0, <2>1, <2>2, DivMod
<1>4. y - s = R * (a - b + c) + (w + 1)
  BY <1>1, <1>2, <1>3
<1>5. a - b + c \in Int /\ w + 1 \in 0 .. R - 1
  BY <1>1, <1>2, <1>3
<1>6. (R * (a - b + c) + (w + 1)) % R = w + 1
  BY <1>0, <1>5, DivModUnique
<1> QED BY <1>4, <1>6 DEF CalculateElapsedTime

LEMMA TimeKept ==
    ASSUME ConnectionTypeOK, LockInv, TimeInv, [ConnectionNext]_connectionVars
    PROVE  TimeInv'
<1> USE DEF ConnectionTypeOK, Runs
<1>1. ASSUME NEW t \in Tasks, StartSend(t)
      PROVE  TimeInv'
  <2>1. waited' = 0 /\ timeMs' = timeMs /\ startTime' = timeMs % UINT32_RANGE
    BY <1>1, Reading DEF StartSend
  <2>2. timeMs \in Nat /\ 0 \in 0 .. UINT32_RANGE - 1
    OBVIOUS
  <2>3. CalculateElapsedTime((timeMs + 0) % UINT32_RANGE, timeMs % UINT32_RANGE) = 0
    BY <2>2, DifferenceAcrossTheWrap
  <2> QED BY <2>1, <2>2, <2>3 DEF TimeInv
<1>2. ASSUME Tick
      PROVE  TimeInv'
  <2>1. CASE MQTTAgentLock = NoTask
    BY <1>2, <2>1 DEF Tick, TimeInv
  <2>2. CASE MQTTAgentLock # NoTask
    <3>1. /\ waited \in 0 .. UINT32_RANGE - 2 /\ waited' = waited + 1
          /\ timeMs' = (timeMs + 1) % TimeCycle /\ startTime' = startTime
          /\ timeMs \in Nat /\ startTime \in Int
      BY <1>2, <2>2 DEF Tick
    <3>2. CalculateElapsedTime((timeMs + 1) % UINT32_RANGE, startTime) = waited + 1
      <4>1. CalculateElapsedTime(timeMs % UINT32_RANGE, startTime) = waited
        BY <2>2 DEF TimeInv
      <4> QED BY <3>1, <4>1, ElapsedStep
    <3> QED BY <3>1, <3>2, NextReading DEF TimeInv
  <2> QED BY <2>1, <2>2
<1>3. ASSUME NEW t \in Tasks, EndSend(t)
      PROVE  TimeInv'
  BY <1>3 DEF EndSend, PostSendHook, TimeInv
<1>4. ASSUME UNCHANGED <<MQTTAgentLock, timeMs, startTime, waited>>
      PROVE  TimeInv'
  BY <1>4 DEF TimeInv
<1> QED
  BY <1>1, <1>2, <1>3, <1>4 DEF ConnectionNext, TaskStep, SendNothing, EnterSend, LeaveSend,
     EnterRecv, Publish, LeaveProcessLoop, TlsConnect, TlsConnectFails, ReceiveConnack,
     Break, connectionVars
-----------------------------------------------------------------------------
LEMMA ConnectionInitInv == Connection_Init => ConnectionInv
<1> SUFFICES ASSUME Connection_Init PROVE ConnectionInv
  OBVIOUS
<1> USE DEF Connection_Init, MqttInit
<1>1. ConnectionTypeOK
  BY DEF ConnectionTypeOK
<1>2. LockInv /\ MaskInv
  BY DEF LockInv, MaskInv, Sending, InSsl
<1>3. WireInv
  BY DEF WireInv, PacketsContiguous
<1>4. ChannelInv /\ TimeInv
  BY DEF ChannelInv, ExitsOnlyWhenLost, TimeInv
<1> QED BY <1>1, <1>2, <1>3, <1>4 DEF ConnectionInv

THEOREM ConnectionInvariance == ConnectionSpec => []ConnectionInv
<1>1. ConnectionInv /\ [ConnectionNext]_connectionVars => ConnectionInv'
  BY TypeKept, LockKept, MaskKept, ChannelKept, WireKept, TimeKept DEF ConnectionInv
<1> QED BY <1>1, ConnectionInitInv, PTL DEF ConnectionSpec
-----------------------------------------------------------------------------
(* The variables of the connection keep their types.                       *)
THEOREM ConnectionTypeCorrect == ConnectionSpec => []ConnectionTypeOK
<1>1. ConnectionInv => ConnectionTypeOK
  BY DEF ConnectionInv
<1> QED BY <1>1, ConnectionInvariance, PTL

(* The bytes of two packets are never mixed (MQTT_PRE_SEND_HOOK).          *)
THEOREM PacketsAreContiguous == ConnectionSpec => []PacketsContiguous
<1>1. ConnectionInv => PacketsContiguous
  BY DEF ConnectionInv, WireInv
<1> QED BY <1>1, ConnectionInvariance, PTL

(* One task at a time is inside OpenSSL (Openssl_Send, Openssl_Recv).      *)
THEOREM SslIsExclusive == ConnectionSpec => []SslExclusive
<1>1. ConnectionInv => SslExclusive
  BY DEF ConnectionInv, MaskInv, SslExclusive
<1> QED BY <1>1, ConnectionInvariance, PTL

(* The program exits only when the connection is lost                      *)
(* (mqttProcessLoopTask, Openssl_Recv).                                    *)
THEOREM ExitMeansLost == ConnectionSpec => []ExitsOnlyWhenLost
<1>1. ConnectionInv => ExitsOnlyWhenLost
  BY DEF ConnectionInv, ChannelInv
<1> QED BY <1>1, ConnectionInvariance, PTL

(* A send is given up when its time is up or the connection lost, and is   *)
(* not tried again after its time (Openssl_Send, Clock_GetTimeMs).         *)
THEOREM GivingUpIsDue == ConnectionSpec => GivesUpWhenDue
<1> DEFINE Due(t) ==
             pc[t] = "inSend" /\ left'[t] > 0 =>
               /\ pc'[t] = "send" => waited < MQTT_SEND_TIMEOUT_MS
               /\ pc'[t] = "unlock" => \/ waited >= MQTT_SEND_TIMEOUT_MS
                                       \/ channel = "broken"
<1>1. ASSUME ConnectionInv, ConnectionInv', [ConnectionNext]_connectionVars
      PROVE  [\A t \in Tasks : Due(t)]_connectionVars
  <2> SUFFICES ASSUME NEW t \in Tasks, pc[t] = "inSend", left'[t] > 0, pc'[t] # pc[t]
               PROVE  Due(t)
    OBVIOUS
  <2> USE DEF ConnectionInv, ConnectionTypeOK
  <2>1. LeaveSend(t)
    <3>1. ~(UNCHANGED pc)
      OBVIOUS
    <3>2. PICK u \in Tasks : TaskStep(u) \/ Publish(u)
      BY <1>1, <3>1 DEF ConnectionNext, Break, Tick, connectionVars
    <3>3. \E step \in Steps : Go(u, step)
      BY <3>1, <3>2 DEF TaskStep, StartSend, SendNothing, EnterSend, LeaveSend, EndSend,
         EnterRecv, Publish, LeaveProcessLoop, TlsConnect, TlsConnectFails, ReceiveConnack
    <3>4. u = t
      BY <1>1, <3>3 DEF Go
    <3> QED BY <3>2, <3>4, <3>1 DEF TaskStep, StartSend, SendNothing, EnterSend, EndSend,
         EnterRecv, Publish, LeaveProcessLoop, TlsConnect, TlsConnectFails, ReceiveConnack,
         Runs
  <2>2. SendIsDue <=> waited >= MQTT_SEND_TIMEOUT_MS
    <3>1. MQTTAgentLock # NoTask
      BY <1>1 DEF LockInv, Sending
    <3>2. ClockReading = timeMs % UINT32_RANGE
      BY <1>1, Reading
    <3> QED BY <1>1, <3>1, <3>2 DEF TimeInv, SendIsDue
  <2>3. PICK sent \in SendResults(t) :
           \/ /\ sent >= 0
              /\ left' = [left EXCEPT ![t] = @ - sent]
              /\ Go(t, IF left[t] = sent \/ SendIsDue THEN "unlock" ELSE "send")
           \/ sent < 0 /\ Go(t, "unlock")
    BY <2>1 DEF LeaveSend
  <2>4. /\ sent \in Int /\ left[t] \in Nat
        /\ channel = "open" => sent >= 0
    BY <1>1, SendReturns
  <2>5. channel # "null"
    BY <1>1 DEF ChannelInv
  <2>6. CASE sent < 0
    BY <1>1, <2>3, <2>4, <2>5, <2>6 DEF Go
  <2>7. CASE sent >= 0
    <3>1. left[t] # sent
      <4>1. left'[t] = left[t] - sent
        BY <1>1, <2>3, <2>4, <2>7
      <4> QED BY <2>4, <4>1
    <3>2. pc'[t] = IF SendIsDue THEN "unlock" ELSE "send"
      <4>1. Go(t, IF left[t] = sent \/ SendIsDue THEN "unlock" ELSE "send")
        BY <2>3, <2>4, <2>7
      <4>2. pc'[t] = IF left[t] = sent \/ SendIsDue THEN "unlock" ELSE "send"
        BY <1>1, <4>1 DEF Go
      <4> QED BY <3>1, <4>2
    <3>3. waited \in Nat /\ MQTT_SEND_TIMEOUT_MS \in Nat
      BY <1>1
    <3> QED BY <2>2, <3>2, <3>3
  <2> QED BY <2>4, <2>6, <2>7
<1> QED BY <1>1, ConnectionInvariance, PTL DEF ConnectionSpec, GivesUpWhenDue
=============================================================================
