--------------------------- MODULE MqttConnection ---------------------------
(***************************************************************************)
(* T_OTA and T_MQTT over one TLS session.  T_OTA connects and publishes;   *)
(* T_MQTT runs coreMQTT's process loop, which receives, publishes (the     *)
(* simple demo's requests) and pings.                                      *)
(*                                                                         *)
(* What keeps the two apart is the lock of MQTT_PRE_SEND_HOOK, held for    *)
(* one packet, and the signals that Openssl_Send and Openssl_Recv mask:    *)
(* the tick of the FreeRTOS POSIX port is a signal, so a task that masked  *)
(* it is not preempted.  A task may be preempted anywhere else.            *)
(*                                                                         *)
(* External, as core_mqtt_config.h and the callers use it: coreMQTT sends  *)
(* a packet by calling Openssl_Send for what is left of it, until all is   *)
(* sent, a call fails, or MQTT_SEND_TIMEOUT_MS have passed.                *)
(***************************************************************************)
EXTENDS MqttWrapper, OpensslIo, PosixClock, FiniteSets, Sequences

CONSTANTS PacketBytes,           \* bound: bytes of every packet
          MaxPackets,            \* bound: packets sent in one run
          TimeCycle,             \* bound: the monotonic time starts over
          MQTT_SEND_TIMEOUT_MS

ASSUME ConnectionAssumption ==
    /\ PacketBytes \in Nat \ {0}
    /\ MaxPackets \in Nat \ {0}
    /\ TimeCycle \in Nat
    /\ \E cycles \in 1 .. TimeCycle : TimeCycle = cycles * UINT32_RANGE
    /\ MQTT_SEND_TIMEOUT_MS \in 1 .. UINT32_RANGE - 1

VARIABLES
    process,           \* "running", "aborted" by an assert, "exited"
    channel,           \* the TLS session, and whether the peer is still there
    pc,                \* task -> where it is
    masked,            \* the tasks that have the signals masked
    MQTTAgentLock,     \* the task that holds it, or NoTask
    packet,            \* task -> the packet it sends, numbered from 1
    left,              \* task -> bytes of it that are still to be sent
    packets,           \* packets begun
    wire,              \* the runs of bytes sent, each as its packet's number
    timeMs,            \* the monotonic time
    startTime,         \* the clock's reading when the lock's holder began
    waited             \* history: the time that has passed since then

connectionVars == <<connectStatus, process, channel, pc, masked, MQTTAgentLock,
                    packet, left, packets, wire, timeMs, startTime, waited>>

Tasks == {"T_OTA", "T_MQTT"}
NoTask == "none"

Connection_Init ==
    /\ MqttInit
    /\ process = "running"
    /\ channel = "null"
    /\ pc = [t \in Tasks |-> IF t = "T_OTA" THEN "connect" ELSE "idle"]
    /\ masked = {}
    /\ MQTTAgentLock = NoTask
    /\ packet = [t \in Tasks |-> 0]
    /\ left = [t \in Tasks |-> 0]
    /\ packets = 0
    /\ wire = <<>>
    /\ timeMs = 0
    /\ startTime = 0
    /\ waited = 0

SslIsNull == channel = "null"

ClockReading == ClockGetTimeMs(TimeSpec(timeMs, 0))

(* t is at the step, and no other task keeps it from running.              *)
Runs(t, step) == process = "running" /\ pc[t] = step /\ masked \subseteq {t}

Go(t, step) == pc' = [pc EXCEPT ![t] = step]

(* Mutant: the signals are not masked.                                     *)
MaskNothing(t) == UNCHANGED masked

MaskSignals(t) == masked' = masked \cup {t}
RestoreSignals(t) == masked' = masked \ {t}
-----------------------------------------------------------------------------
(* transport_tlsConnect (see OpensslPosix), then the CONNECT packet of     *)
(* mqttWrapper_connect; a connect that fails ends in assert(result).       *)
TlsConnect ==
    /\ Runs("T_OTA", "connect")
    /\ channel' = "open"
    /\ Go("T_OTA", "lock")
    /\ UNCHANGED <<connectStatus, process, masked, MQTTAgentLock, packet, left,
                   packets, wire, timeMs, startTime, waited>>

TlsConnectFails ==
    /\ Runs("T_OTA", "connect")
    /\ process' = "aborted"
    /\ UNCHANGED <<connectStatus, channel, pc, masked, MQTTAgentLock, packet, left,
                   packets, wire, timeMs, startTime, waited>>

(* mqttWrapper_publish or mqttWrapper_subscribe, or coreMQTT's own ping:   *)
(* connectStatus is read here, before the lock.                            *)
Publish(t) ==
    /\ Runs(t, "idle")
    /\ IsConnected
    /\ packets < MaxPackets
    /\ Go(t, "lock")
    /\ UNCHANGED <<connectStatus, process, channel, masked, MQTTAgentLock, packet,
                   left, packets, wire, timeMs, startTime, waited>>

(* Mutants of the hooks: the lock is not waited for, or not given back.    *)
PreSendHookNoWait(t) == MQTTAgentLock' = t
PostSendHookKeeps(t) == UNCHANGED MQTTAgentLock

(* MQTT_PRE_SEND_HOOK, and the start of the packet.                        *)
PreSendHook(t) == MQTTAgentLock = NoTask /\ MQTTAgentLock' = t
PostSendHook(t) == MQTTAgentLock' = NoTask

StartSend(t) ==
    /\ Runs(t, "lock")
    /\ PreSendHook(t)
    /\ packets < MaxPackets
    /\ packets' = packets + 1
    /\ packet' = [packet EXCEPT ![t] = packets + 1]
    /\ left' = [left EXCEPT ![t] = PacketBytes]
    /\ startTime' = ClockReading
    /\ waited' = 0
    /\ Go(t, "send")
    /\ UNCHANGED <<connectStatus, process, channel, masked, wire, timeMs>>

(* The bound on the packets is met: this one is not sent.                  *)
SendNothing(t) ==
    /\ Runs(t, "lock")
    /\ packets = MaxPackets
    /\ Go(t, "idle")
    /\ UNCHANGED <<connectStatus, process, channel, masked, MQTTAgentLock, packet,
                   left, packets, wire, timeMs, startTime, waited>>

(* Openssl_Send up to SSL_write, which may block.                          *)
EnterSend(t) ==
    /\ Runs(t, "send")
    /\ MaskSignals(t)
    /\ Go(t, "inSend")
    /\ UNCHANGED <<connectStatus, process, channel, MQTTAgentLock, packet, left,
                   packets, wire, timeMs, startTime, waited>>

(* External: a full buffer makes poll return 0; a peer that is gone makes  *)
(* poll or SSL_write fail; SSL_write may write a part.                     *)
SendResults(t) ==
    IF channel = "open"
    THEN {OpensslSend(SslIsNull, poll, written) : poll \in {0, 1}, written \in 1 .. left[t]}
    ELSE {OpensslSend(SslIsNull, poll, written) : poll \in {-1, 0, 1}, written \in {-1, 0}}

SendIsDue == CalculateElapsedTime(ClockReading, startTime) >= MQTT_SEND_TIMEOUT_MS

Extended(runs, p) ==
    IF runs # <<>> /\ runs[Len(runs)] = p THEN runs ELSE Append(runs, p)

(* The rest of Openssl_Send, and coreMQTT's loop around it.                *)
LeaveSend(t) ==
    /\ Runs(t, "inSend")
    /\ RestoreSignals(t)
    /\ \E sent \in SendResults(t) :
          \/ /\ sent >= 0
             /\ left' = [left EXCEPT ![t] = @ - sent]
             /\ wire' = IF sent = 0 THEN wire ELSE Extended(wire, packet[t])
             /\ Go(t, IF left[t] = sent \/ SendIsDue THEN "unlock" ELSE "send")
             /\ UNCHANGED connectStatus
          \/ /\ sent < 0
             /\ connectStatus' = IF IsConnected THEN "MQTTDisconnectPending"
                                                ELSE connectStatus
             /\ Go(t, "unlock")
             /\ UNCHANGED <<left, wire>>
    /\ UNCHANGED <<process, channel, MQTTAgentLock, packet, packets, timeMs,
                   startTime, waited>>

(* MQTT_POST_SEND_HOOK.  After the CONNECT packet MQTT_Connect waits for   *)
(* the CONNACK; when the packet was not sent the assert fails.             *)
IsConnecting(t) == t = "T_OTA" /\ connectStatus = "MQTTNotConnected"

EndSend(t) ==
    /\ Runs(t, "unlock")
    /\ PostSendHook(t)
    /\ process' = IF IsConnecting(t) /\ left[t] > 0 THEN "aborted" ELSE process
    /\ Go(t, IF IsConnecting(t) THEN "connack" ELSE "idle")
    /\ UNCHANGED <<connectStatus, channel, masked, packet, left, packets, wire,
                   timeMs, startTime, waited>>
-----------------------------------------------------------------------------
(* T_MQTT's loop and, for the CONNACK, T_OTA: Openssl_Recv up to the read. *)
EnterRecv(t) ==
    /\ \/ Runs(t, "connack")
       \/ t = "T_MQTT" /\ Runs(t, "idle") /\ IsConnected
    /\ MaskSignals(t)
    /\ Go(t, "inRecv")
    /\ UNCHANGED <<connectStatus, process, channel, MQTTAgentLock, packet, left,
                   packets, wire, timeMs, startTime, waited>>

(* External: nothing has come, a packet has, or the peer is gone.  T_OTA   *)
(* reads the CONNACK's first byte, T_MQTT what fits in its buffer.  While  *)
(* the peer is there SSL_read is taken to have no error but WANT_READ; its *)
(* WANT_WRITE, for a record of its own that it cannot send, is left out.   *)
RecvResults(t) ==
    LET bytes == IF t = "T_OTA" THEN 1 ELSE 2
    IN  IF channel = "open"
        THEN {OpensslRecv(SslIsNull, bytes, poll, read) :
                 poll \in {0, 1}, read \in {1, WANT_READ}}
        ELSE {OpensslRecv(SslIsNull, bytes, poll, read) :
                 poll \in {-1, 1}, read \in {READ_ERROR, 0}}

(* mqttProcessLoopTask: only a receive that fails ends the program.        *)
LeaveProcessLoop ==
    /\ Runs("T_MQTT", "inRecv")
    /\ RestoreSignals("T_MQTT")
    /\ \E received \in RecvResults("T_MQTT") :
          IF received < 0 THEN process' = "exited" ELSE UNCHANGED process
    /\ Go("T_MQTT", "idle")
    /\ UNCHANGED <<connectStatus, channel, MQTTAgentLock, packet, left, packets,
                   wire, timeMs, startTime, waited>>

(* MQTT_Connect: the CONNACK accepts or refuses, has not come yet, or will *)
(* not come any more.                                                      *)
ReceiveConnack ==
    /\ Runs("T_OTA", "inRecv")
    /\ RestoreSignals("T_OTA")
    /\ \E received \in RecvResults("T_OTA") :
          \/ received > 0 /\ MqttConnect /\ Go("T_OTA", "idle") /\ UNCHANGED process
          \/ received = 0 /\ Go("T_OTA", "connack") /\ UNCHANGED <<connectStatus, process>>
          \/ process' = "aborted" /\ Go("T_OTA", "connack") /\ UNCHANGED connectStatus
    /\ UNCHANGED <<channel, MQTTAgentLock, packet, left, packets, wire, timeMs,
                   startTime, waited>>
-----------------------------------------------------------------------------
(* External: the peer closes or resets the connection.  A network that     *)
(* silently carries nothing is an open channel on which nothing comes.     *)
Break ==
    /\ MayLose /\ process = "running" /\ channel = "open"
    /\ channel' = "broken"
    /\ UNCHANGED <<connectStatus, process, pc, masked, MQTTAgentLock, packet, left,
                   packets, wire, timeMs, startTime, waited>>

(* A millisecond passes.  A task that sends is assumed to read the clock   *)
(* at least once in each of the clock's cycles, of 49 days.                *)
Tick ==
    /\ process = "running"
    /\ MQTTAgentLock = NoTask \/ waited < UINT32_RANGE - 1
    /\ timeMs' = (timeMs + 1) % TimeCycle
    /\ waited' = IF MQTTAgentLock = NoTask THEN waited ELSE waited + 1
    /\ UNCHANGED <<connectStatus, process, channel, pc, masked, MQTTAgentLock,
                   packet, left, packets, wire, startTime>>

TaskStep(t) == \/ StartSend(t) \/ SendNothing(t) \/ EnterSend(t) \/ LeaveSend(t)
               \/ EndSend(t) \/ EnterRecv(t)
               \/ t = "T_MQTT" /\ LeaveProcessLoop
               \/ t = "T_OTA" /\ (TlsConnect \/ TlsConnectFails \/ ReceiveConnack)

ConnectionNext == (\E t \in Tasks : TaskStep(t) \/ Publish(t)) \/ Break \/ Tick

ConnectionSpec == Connection_Init /\ [][ConnectionNext]_connectionVars

(* T_MQTT sleeps for 10 ticks in each round of its loop, so T_OTA gets to  *)
(* run again and again, and FreeRTOS gives a mutex to the task that waits  *)
(* for it.                                                                 *)
ConnectionFairSpec == /\ ConnectionSpec
                      /\ WF_connectionVars(Tick)
                      /\ \A t \in Tasks : SF_connectionVars(TaskStep(t))
-----------------------------------------------------------------------------
Steps == {"connect", "idle", "lock", "send", "inSend", "unlock", "connack", "inRecv"}

InSsl(t) == pc[t] \in {"inSend", "inRecv"}
Sending(t) == pc[t] \in {"send", "inSend", "unlock"}

ConnectionTypeOK ==
    /\ connectStatus \in ConnectStates
    /\ process \in {"running", "aborted", "exited"}
    /\ channel \in {"null", "open", "broken"}
    /\ pc \in [Tasks -> Steps]
    /\ masked \subseteq Tasks
    /\ MQTTAgentLock \in Tasks \cup {NoTask}
    /\ packet \in [Tasks -> 0 .. MaxPackets]
    /\ left \in [Tasks -> 0 .. PacketBytes]
    /\ packets \in 0 .. MaxPackets
    /\ wire \in Seq(1 .. MaxPackets)
    /\ timeMs \in 0 .. TimeCycle - 1
    /\ startTime \in 0 .. UINT32_RANGE - 1
    /\ waited \in 0 .. UINT32_RANGE - 1

(* The bytes of a packet that is written in parts reach the peer with no   *)
(* byte of another packet among them, whichever tasks send                 *)
(* (MQTT_PRE_SEND_HOOK of core_mqtt_config.h).                             *)
PacketsContiguous ==
    \A i, j \in 1 .. Len(wire) : wire[i] = wire[j] => i = j

(* Two tasks are never inside OpenSSL with the one SSL object, although a  *)
(* receive takes no lock (the masks of Openssl_Send and Openssl_Recv).     *)
SslExclusive ==
    \A t, u \in Tasks : InSsl(t) /\ InSsl(u) => t = u

(* A packet is given up half sent only when its time is up or the          *)
(* connection is lost, and tried again only while there is time, across    *)
(* the wrap of the 32-bit clock (Clock_GetTimeMs, Openssl_Send's 0).       *)
GivesUpWhenDue ==
    [][\A t \in Tasks :
          pc[t] = "inSend" /\ left'[t] > 0 =>
             /\ pc'[t] = "send" => waited < MQTT_SEND_TIMEOUT_MS
             /\ pc'[t] = "unlock" => \/ waited >= MQTT_SEND_TIMEOUT_MS
                                     \/ channel = "broken"
      ]_connectionVars

(* Every send ends: neither a full buffer, nor the lock, nor the other     *)
(* task keeps a task from it for ever (MQTT_PRE_SEND_HOOK, Openssl_Send).  *)
SendsEnd ==
    \A t \in Tasks :
        pc[t] = "lock" ~> pc[t] \in {"idle", "connack"} \/ process # "running"

(* The program exits for a receive that failed only when the connection is *)
(* lost, not when nothing has come (SSL_ERROR_WANT_READ of Openssl_Recv).  *)
ExitsOnlyWhenLost == process = "exited" => channel = "broken"

(* A connection that the peer closed or reset does not go unseen: a        *)
(* receive or the connect ends the program, or after a failed send         *)
(* coreMQTT gives the connection up (mqttProcessLoopTask, Openssl_Recv,    *)
(* Openssl_Send).  What follows giving it up is not part of this.          *)
LossIsNoticed ==
    channel = "broken" ~>
        process # "running" \/ connectStatus = "MQTTDisconnectPending"
=============================================================================
