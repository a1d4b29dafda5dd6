---------------------------- MODULE OtaDataBuffers ---------------------------
(***************************************************************************)
(* The pool of data buffers of demo/ota-Agent-Orchestrator/ota_demo.c.     *)
(* Both operations run under bufferSemaphore, so each is one step.  The    *)
(* bytes of an unused buffer are never read: Free stands for bufferUsed =  *)
(* false, and a used buffer holds the message copied into it.              *)
(***************************************************************************)
EXTENDS Naturals

CONSTANTS MaxBuffers,            \* MAX_NUM_OF_OTA_DATA_BUFFERS
          Free                   \* bufferUsed = false

ASSUME MaxBuffersAssumption == MaxBuffers \in Nat \ {0}

VARIABLE dataBuffers

BufferIndices == 1..MaxBuffers

DataBuffersInit == dataBuffers = [i \in BufferIndices |-> Free]

HasFreeBuffer == \E i \in BufferIndices : dataBuffers[i] = Free

(* Mutant: the first buffer is taken whether it is used or not.            *)
GetFirstBuffer(i, message) ==
    /\ i = 1
    /\ dataBuffers' = [dataBuffers EXCEPT ![i] = message]

(* getOtaDataEventBuffer takes the first unused buffer; the caller then    *)
(* copies the message into it.                                             *)
GetOtaDataEventBuffer(i, message) ==
    /\ dataBuffers[i] = Free
    /\ \A k \in 1..(i - 1) : dataBuffers[k] # Free
    /\ dataBuffers' = [dataBuffers EXCEPT ![i] = message]

FreeOtaDataEventBuffer(i) ==
    dataBuffers' = [dataBuffers EXCEPT ![i] = Free]
=============================================================================
