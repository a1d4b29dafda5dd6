---------------------------- MODULE OtaEventQueue ----------------------------
(***************************************************************************)
(* demo/os/ota_os_freertos.c: the FreeRTOS queue between the tasks and the *)
(* OTA agent.  A send does not wait (xTicksToWait is 0) and its status is  *)
(* ignored by every caller, so a send to a full queue loses the event.     *)
(***************************************************************************)
EXTENDS Naturals, Sequences

CONSTANT MaxMessages             \* MAX_MESSAGES

ASSUME MaxMessagesAssumption == MaxMessages \in Nat \ {0}

VARIABLE otaEventQueue

OtaInitEvent == otaEventQueue = <<>>

(* Mutant: one event too many is accepted.                                 *)
OtaSendEventPastLimit(event) ==
    otaEventQueue' = IF Len(otaEventQueue) <= MaxMessages
                     THEN Append(otaEventQueue, event)
                     ELSE otaEventQueue

OtaSendEvent(event) ==
    otaEventQueue' = IF Len(otaEventQueue) < MaxMessages
                     THEN Append(otaEventQueue, event)
                     ELSE otaEventQueue

(* A receive that times out leaves recvEvent zeroed: event Start, which    *)
(* the agent ignores.  That is a stuttering step and is not written here.  *)
OtaReceiveEvent(event) ==
    /\ otaEventQueue # <<>>
    /\ event = Head(otaEventQueue)
    /\ otaEventQueue' = Tail(otaEventQueue)
=============================================================================
