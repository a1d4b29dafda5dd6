-------------------------- MODULE OtaAgentJobs_proof --------------------------
(***************************************************************************)
(* Proofs about OtaAgent with any queue of jobs, which may replace one     *)
(* another at any moment, replies of earlier ones arriving late: what      *)
(* holds when T_MQTT sleeps until T_OTA has emptied its queue.  The sizes  *)
(* of the queue, the pool, the files and the blocks, the number of replies *)
(* in transit, and the steps of T_SUSPEND are arbitrary.                   *)
(***************************************************************************)
EXTENDS OtaAgent_proof

USE DEF OtaSendEvent, OtaReceiveEvent, GetOtaDataEventBuffer, FreeOtaDataEventBuffer,
        At, Handles, Handling, EndOfEvent, Event, DataEvent, OtherEvents, OtaEvents, Start,
        NoBuffer, BufferIndices, JobDocs, Jobs, NoJob

(* T_MQTT only wakes when T_OTA waits for an event.                        *)
MqttIsPaced == "T_MQTT" \in PacedTasks

-----------------------------------------------------------------------------
(* The events: one message is worked on at a time.                         *)

(* The events that come from a message T_MQTT received, or follow from one.*)
MessageEvents == {"ReceivedJobDocument", "ReceivedFileBlock", "RequestFileBlock", "CloseFile"}

(* T_OTA is working on one of them, and has not sent what follows from it. *)
InHand == pc \in {"handle", "parse", "send"} /\ recvEvent.eventId \in MessageEvents

NoneQueued ==
    \A k \in 1..Len(otaEventQueue) : otaEventQueue[k].eventId \notin MessageEvents

PendingAlone ==
    /\ \A k, l \in 1..Len(otaEventQueue) :
          /\ otaEventQueue[k].eventId \in MessageEvents
          /\ otaEventQueue[l].eventId \in MessageEvents
          => k = l
    /\ InHand => NoneQueued

(* BuffersAreReferenced, event by event.                                   *)
EventReferences ==
    \A i \in BufferIndices : dataBuffers[i] # Free =>
        \/ Handling("ReceivedFileBlock") /\ recvEvent.dataEvent = i
        \/ \E k \in 1..Len(otaEventQueue) : otaEventQueue[k].dataEvent = i

(* The document that is parsed is the one that was identified.             *)
ParsesAJob == pc = "parse" => jobDocBuffer # NoJob

EInv == PendingAlone /\ EventReferences /\ ParsesAJob

(* The two statements about references say the same.                       *)
LEMMA References == IInv => (BuffersAreReferenced <=> EventReferences)
<1> SUFFICES ASSUME IInv PROVE BuffersAreReferenced <=> EventReferences
  OBVIOUS
<1>1. DOMAIN otaEventQueue = 1..Len(otaEventQueue)
  BY DEF IInv, TypeOK, QueueTypeOK
<1>2. NoBuffer \notin BufferIndices
  OBVIOUS
<1> HIDE DEF Handling, BufferIndices, NoBuffer
<1> QED BY <1>1, <1>2
        DEF BuffersAreReferenced, QueuedBuffers, HeldBuffers, EventReferences

(* Only data events point to a buffer.                                     *)
LEMMA QueuedDataEvent ==
    ASSUME IInv, NEW k \in 1..Len(otaEventQueue), otaEventQueue[k].dataEvent # NoBuffer
    PROVE  otaEventQueue[k].eventId = "ReceivedFileBlock"
<1>1. otaEventQueue[k] \in OtaEvents
  BY ElementOfSeq DEF IInv, TypeOK, QueueTypeOK
<1> QED BY <1>1

(* The pool is empty as long as no data event is queued or at hand.        *)
LEMMA PoolIsFree ==
    ASSUME IInv, EInv, NoneQueued, ~Handling("ReceivedFileBlock")
    PROVE  \A i \in BufferIndices : dataBuffers[i] = Free
<1> SUFFICES ASSUME NEW i \in BufferIndices, dataBuffers[i] # Free PROVE FALSE
  OBVIOUS
<1>1. PICK k \in 1..Len(otaEventQueue) : otaEventQueue[k].dataEvent = i
  BY DEF EInv, EventReferences
<1>2. otaEventQueue[k].dataEvent # NoBuffer
  BY <1>1
<1> QED BY <1>2, QueuedDataEvent DEF NoneQueued, MessageEvents

(* A paced T_MQTT wakes with nothing at hand and all buffers free.         *)
LEMMA WakesToNothing ==
    ASSUME MqttIsPaced, IInv, EInv, Wakes("T_MQTT")
    PROVE  /\ otaEventQueue = <<>> /\ pc = "receive" /\ ~InHand
           /\ \A i \in BufferIndices : dataBuffers[i] = Free
<1>1. otaEventQueue = <<>> /\ pc = "receive"
  BY DEF MqttIsPaced, Wakes, OtaTaskWaits
<1>2. NoneQueued
  BY <1>1 DEF NoneQueued
<1> QED BY <1>1, <1>2, PoolIsFree DEF InHand

(* At first only a request for a job is queued.                            *)
LEMMA InitEInv == Init => EInv
<1> SUFFICES ASSUME Init PROVE EInv
  OBVIOUS
<1>1. otaEventQueue = <<Event("RequestJobDocument")>> /\ pc = "receive"
  BY DEF Init
<1>2. PendingAlone
  BY <1>1 DEF PendingAlone, InHand, MessageEvents
<1>3. EventReferences /\ ParsesAJob
  BY DEF Init, DataBuffersInit, EventReferences, ParsesAJob
<1> QED BY <1>2, <1>3 DEF EInv

(* A step that leaves the queue and the pool alone and takes up nothing.   *)
LEMMA QuietEInv ==
    ASSUME EInv, UNCHANGED <<otaEventQueue, dataBuffers>>,
           InHand' => InHand,
           Handling("ReceivedFileBlock") => UNCHANGED <<pc, recvEvent>>,
           ParsesAJob'
    PROVE  EInv'
<1>1. PendingAlone'
  BY DEF EInv, PendingAlone, NoneQueued
<1>2. EventReferences'
  BY DEF EInv, EventReferences
<1> QED BY <1>1, <1>2 DEF EInv

(* The handlers of T_OTA that send nothing and free no buffer.             *)
LEMMA QuietOtaEInv ==
    ASSUME IInv, EInv,
           \/ RequestJobDocument \/ DropJobDocument \/ IdentifyJob \/ ParseJobDocument
           \/ RequestFileBlock \/ RequestFileBlockWithoutBitmap \/ AssertFileBlockFits
           \/ CloseFile \/ Suspend \/ Resume \/ SetAgentState
    PROVE  EInv'
<1> USE DEF RequestJobDocument, DropJobDocument, IdentifyJob, ParseJobDocument,
            RequestFileBlock, RequestFileBlockWithoutBitmap, AssertFileBlockFits,
            CloseFile, Suspend, Resume, SetAgentState
<1>1. UNCHANGED <<otaEventQueue, dataBuffers, jobDocBuffer>>
  OBVIOUS
<1>2. InHand' => InHand
  BY DEF InHand, MessageEvents, IInv, ControlOK
<1>3. Handling("ReceivedFileBlock") => UNCHANGED <<pc, recvEvent>>
  OBVIOUS
<1>4. ParsesAJob'
  BY DEF EInv, ParsesAJob, GetJobId
<1> QED BY <1>1, <1>2, <1>3, <1>4, QuietEInv

(* An event that is received is at hand and no longer queued.              *)
LEMMA ReceiveEventEInv == IInv /\ EInv /\ ReceiveEvent => EInv'
<1> SUFFICES ASSUME IInv, EInv, ReceiveEvent PROVE EInv'
  OBVIOUS
<1>0. OtaReceiveEvent(recvEvent')
  BY DEF ReceiveEvent
<1>1. /\ Len(otaEventQueue') = Len(otaEventQueue) - 1
      /\ \A k \in 1..Len(otaEventQueue') : otaEventQueue'[k] = otaEventQueue[k + 1]
      /\ Len(otaEventQueue) > 0 /\ recvEvent' = otaEventQueue[1]
      /\ recvEvent' \in OtaEvents
  BY <1>0, QueueReceive DEF IInv
<1>2. Len(otaEventQueue) \in Nat /\ Len(otaEventQueue') \in Nat
  BY <1>1 DEF IInv, TypeOK, QueueTypeOK
<1>3. /\ pc = "receive" /\ pc' = "handle" /\ UNCHANGED <<dataBuffers, jobDocBuffer>>
  BY DEF ReceiveEvent
<1> HIDE DEF OtaReceiveEvent, OtaEvents
<1>4. \A k \in 1..Len(otaEventQueue') : k + 1 \in 1..Len(otaEventQueue) /\ k + 1 # 1
  BY <1>1, <1>2
<1>5. PendingAlone'
  <2>1. \A k, l \in 1..Len(otaEventQueue') :
          /\ otaEventQueue'[k].eventId \in MessageEvents
          /\ otaEventQueue'[l].eventId \in MessageEvents
          => k = l
    <3>1. \A k, l \in 1..Len(otaEventQueue') : k + 1 = l + 1 => k = l
      BY <1>2
    <3> QED BY <1>1, <1>4, <3>1 DEF EInv, PendingAlone
  <2>2. InHand' => NoneQueued'
    <3>1. 1 \in 1..Len(otaEventQueue)
      BY <1>1, <1>2
    <3> QED BY <1>1, <1>4, <3>1 DEF EInv, PendingAlone, InHand, NoneQueued
  <2> QED BY <2>1, <2>2 DEF PendingAlone
<1>6. EventReferences'
  <2> SUFFICES ASSUME NEW i \in BufferIndices, dataBuffers'[i] # Free
               PROVE  \/ Handling("ReceivedFileBlock")' /\ recvEvent'.dataEvent = i
                      \/ \E k \in 1..Len(otaEventQueue') : otaEventQueue'[k].dataEvent = i
    BY DEF EventReferences
  <2>1. PICK k \in 1..Len(otaEventQueue) : otaEventQueue[k].dataEvent = i
    BY <1>3 DEF EInv, EventReferences
  <2>2. CASE k = 1
    <3>1. otaEventQueue[k].eventId = "ReceivedFileBlock"
      BY <2>1, QueuedDataEvent
    <3> QED BY <1>1, <1>3, <2>1, <2>2, <3>1
  <2>3. CASE k # 1
    <3>1. k - 1 \in 1..Len(otaEventQueue') /\ (k - 1) + 1 = k
      BY <1>1, <1>2, <2>3
    <3> QED BY <1>1, <2>1, <3>1
  <2> QED BY <2>2, <2>3
<1> QED BY <1>3, <1>5, <1>6 DEF EInv, ParsesAJob

(* T_OTA is done with a data block when it frees the buffer.               *)
LEMMA FreeEInv == IInv /\ EInv /\ (DropFileBlock \/ HandleFileBlock) => EInv'
<1> SUFFICES ASSUME IInv, EInv, DropFileBlock \/ HandleFileBlock PROVE EInv'
  OBVIOUS
<1> USE DEF DropFileBlock, HandleFileBlock, HandleFileBlockAs
<1>1. /\ Handling("ReceivedFileBlock") /\ pc' \in {"receive", "send"}
      /\ UNCHANGED otaEventQueue
      /\ dataBuffers' = [dataBuffers EXCEPT ![recvEvent.dataEvent] = Free]
  OBVIOUS
<1>2. PendingAlone'
  BY <1>1 DEF EInv, PendingAlone, NoneQueued, InHand, MessageEvents
<1>3. EventReferences'
  BY <1>1 DEF EInv, EventReferences, IInv, TypeOK, QueueTypeOK
<1> QED BY <1>1, <1>2, <1>3 DEF EInv, ParsesAJob

(* An event that comes from no message is sent.                            *)
LEMMA SendOtherEInv ==
    ASSUME IInv, EInv, NEW e \in OtaEvents, e.eventId \notin MessageEvents,
           OtaSendEvent(e) \/ UNCHANGED otaEventQueue,
           UNCHANGED <<dataBuffers, jobDocBuffer>>,
           \/ UNCHANGED <<pc, recvEvent>>
           \/ ~InHand' /\ ~Handling("ReceivedFileBlock") /\ pc' # "parse"
    PROVE  EInv'
<1>1. \/ otaEventQueue' = otaEventQueue
      \/ /\ Len(otaEventQueue') = Len(otaEventQueue) + 1
         /\ \A k \in 1..Len(otaEventQueue) : otaEventQueue'[k] = otaEventQueue[k]
         /\ otaEventQueue'[Len(otaEventQueue) + 1] = e
  BY QueueSend DEF IInv
<1>2. Len(otaEventQueue) \in Nat
  BY DEF IInv, TypeOK, QueueTypeOK
<1> HIDE DEF OtaEvents, OtaSendEvent
<1>3. /\ \A k \in 1..Len(otaEventQueue) : k \in 1..Len(otaEventQueue')
                                            /\ otaEventQueue'[k] = otaEventQueue[k]
      /\ \A k \in 1..Len(otaEventQueue') :
            otaEventQueue'[k].eventId \in MessageEvents => k \in 1..Len(otaEventQueue)
  BY <1>1, <1>2
<1>4. PendingAlone'
  BY <1>3 DEF EInv, PendingAlone, NoneQueued, InHand
<1>5. EventReferences'
  BY <1>3 DEF EInv, EventReferences
<1> QED BY <1>4, <1>5 DEF EInv, ParsesAJob

(* What a handler sends when it is done takes the place of its event.      *)
LEMMA SendNextEventEInv == IInv /\ EInv /\ SendNextEvent => EInv'
<1> SUFFICES ASSUME IInv, EInv, SendNextEvent PROVE EInv'
  OBVIOUS
<1> DEFINE e == Event(NextEventId)
<1>1. /\ OtaSendEvent(e) /\ e \in OtaEvents /\ pc = "send" /\ pc' \in {"setState", "receive"}
      /\ UNCHANGED <<dataBuffers, jobDocBuffer>>
  BY DEF SendNextEvent, NextEventId, IInv, ControlOK
<1>2. CASE e.eventId \notin MessageEvents
  BY <1>1, <1>2, SendOtherEInv DEF InHand
<1>3. CASE e.eventId \in MessageEvents
  <2>1. recvEvent.eventId \in {"ReceivedJobDocument", "ReceivedFileBlock"}
    BY <1>3 DEF NextEventId, MessageEvents, SendNextEvent, IInv, ControlOK
  <2>2. NoneQueued
    BY <1>1, <2>1 DEF EInv, PendingAlone, InHand, MessageEvents
  <2>3. \/ otaEventQueue' = otaEventQueue
        \/ /\ Len(otaEventQueue') = Len(otaEventQueue) + 1
           /\ \A k \in 1..Len(otaEventQueue) : otaEventQueue'[k] = otaEventQueue[k]
    BY <1>1, QueueSend DEF IInv
  <2>4. Len(otaEventQueue) \in Nat
    BY DEF IInv, TypeOK, QueueTypeOK
  <2>5. /\ \A k \in 1..Len(otaEventQueue) : k \in 1..Len(otaEventQueue')
                                              /\ otaEventQueue'[k] = otaEventQueue[k]
        /\ \A k \in 1..Len(otaEventQueue') :
              otaEventQueue'[k].eventId \in MessageEvents => k = Len(otaEventQueue) + 1
    BY <2>2, <2>3, <2>4 DEF NoneQueued
  <2>6. PendingAlone'
    BY <1>1, <2>5 DEF PendingAlone, InHand
  <2>7. EventReferences'
    BY <1>1, <2>5 DEF EInv, EventReferences
  <2> QED BY <1>1, <2>6, <2>7 DEF EInv, ParsesAJob
<1> QED BY <1>2, <1>3

(* T_MQTT sends its event to an empty queue, which takes it.               *)
LEMMA MqttSends ==
    ASSUME MqttIsPaced, IInv, EInv, Wakes("T_MQTT"), NEW e \in OtaEvents, OtaSendEvent(e)
    PROVE  otaEventQueue' = <<e>>
<1>1. otaEventQueue = <<>>
  BY WakesToNothing
<1> QED BY <1>1, MaxMessagesAssumption

(* A job document is the one message T_OTA has to work on.                 *)
LEMMA HandleJobDocumentEInv == MqttIsPaced /\ IInv /\ EInv /\ ReceiveJobReply => EInv'
<1> SUFFICES ASSUME MqttIsPaced, IInv, EInv, NEW doc, HandleJobDocument(doc) PROVE EInv'
  BY DEF ReceiveJobReply
<1>1. /\ Wakes("T_MQTT") /\ OtaSendEvent(Event("ReceivedJobDocument"))
      /\ UNCHANGED <<dataBuffers, pc, recvEvent>>
  BY DEF HandleJobDocument
<1>2. otaEventQueue' = <<Event("ReceivedJobDocument")>>
  <2>1. Event("ReceivedJobDocument") \in OtaEvents
    OBVIOUS
  <2> QED BY <1>1, <2>1, MqttSends
<1>3. pc = "receive" /\ \A i \in BufferIndices : dataBuffers[i] = Free
  BY <1>1, WakesToNothing
<1> QED BY <1>1, <1>2, <1>3 DEF EInv, PendingAlone, EventReferences, ParsesAJob, InHand

(* A data block is the one message, and has the one buffer in use.         *)
LEMMA HandleDataBlockEInv ==
    ASSUME MqttIsPaced, IInv, EInv, NEW m, HandleDataBlock(m)
    PROVE  EInv'
<1>1. PICK i \in BufferIndices : GetOtaDataEventBuffer(i, m) /\ OtaSendEvent(DataEvent(i))
  BY DEF HandleDataBlock
<1>2. Wakes("T_MQTT") /\ UNCHANGED <<pc, recvEvent>>
  BY DEF HandleDataBlock, TakeBlockReply
<1>3. otaEventQueue' = <<DataEvent(i)>>
  <2>1. DataEvent(i) \in OtaEvents
    BY <1>1
  <2> QED BY <1>1, <1>2, <2>1, MqttSends
<1>4. pc = "receive" /\ \A k \in BufferIndices : dataBuffers[k] = Free
  BY <1>2, WakesToNothing
<1>5. \A k \in BufferIndices : dataBuffers'[k] # Free => k = i
  BY <1>1, <1>4 DEF IInv, TypeOK, QueueTypeOK
<1>6. EventReferences'
  BY <1>3, <1>5 DEF EventReferences
<1> QED BY <1>2, <1>3, <1>4, <1>6 DEF EInv, PendingAlone, ParsesAJob, InHand

(* The steps of T_MQTT, of T_SUSPEND and of the service.                   *)
LEMMA OthersEInv ==
    ASSUME MqttIsPaced, IInv, EInv, MqttTask \/ SuspendTask \/ ServerNextJob \/ LoseReply
    PROVE  EInv'
<1>1. CASE ReceiveJobReply
  BY <1>1, HandleJobDocumentEInv
<1>2. CASE \E m : HandleDataBlock(m)
  BY <1>2, HandleDataBlockEInv
<1>3. CASE \/ \E m : HandleDataBlockWithoutBuffer(m) \/ IgnoreDataBlock(m)
           \/ ServerNextJob \/ LoseReply
  <2>1. UNCHANGED <<otaEventQueue, dataBuffers, pc, recvEvent, jobDocBuffer>>
    BY <1>3 DEF HandleDataBlockWithoutBuffer, IgnoreDataBlock, ServerNextJob, LoseReply,
       AgentVars
  <2> QED BY <2>1, QuietEInv DEF EInv, ParsesAJob, InHand
<1>4. CASE SuspendTask
  <2>1. /\ Event("Suspend") \in OtaEvents /\ Event("Resume") \in OtaEvents
        /\ Event("Suspend").eventId \notin MessageEvents
        /\ Event("Resume").eventId \notin MessageEvents
    BY DEF MessageEvents
  <2>2. /\ \/ OtaSendEvent(Event("Suspend")) \/ OtaSendEvent(Event("Resume"))
           \/ UNCHANGED otaEventQueue
        /\ UNCHANGED <<dataBuffers, pc, recvEvent, jobDocBuffer>>
    BY <1>4 DEF SuspendTask, CheckSuspend, CheckResume, SuspendTaskVars
  <2> HIDE DEF OtaEvents, OtaSendEvent, Event
  <2> QED BY <2>1, <2>2, SendOtherEInv
<1> QED BY <1>1, <1>2, <1>3, <1>4 DEF MqttTask, ReceiveBlockReply

(* Every step of the system preserves it.                                  *)
LEMMA NextEInv == MqttIsPaced /\ IInv /\ EInv /\ [Next]_vars => EInv'
<1> SUFFICES ASSUME MqttIsPaced, IInv, EInv, [Next]_vars PROVE EInv'
  OBVIOUS
<1>1. CASE OtaTask
  BY <1>1, QuietOtaEInv, ReceiveEventEInv, FreeEInv, SendNextEventEInv DEF OtaTask
<1>2. CASE UNCHANGED vars
  BY <1>2, QuietEInv DEF vars, EInv, ParsesAJob, InHand
<1> QED BY <1>1, <1>2, OthersEInv DEF Next

(* So it holds throughout.                                                 *)
LEMMA SpecEInv == MqttIsPaced /\ Spec => []EInv
<1> SUFFICES ASSUME MqttIsPaced PROVE Spec => []EInv
  OBVIOUS
<1>1. IInv /\ EInv /\ [Next]_vars => EInv'
  BY NextEInv
<1> QED BY <1>1, InitEInv, SpecIInv, PTL DEF Spec

(* No buffer of the pool is lost: although the status of a send is         *)
(* ignored, a send that fails would leave its buffer used for ever, and    *)
(* the pacing of T_MQTT is what keeps its sends from failing.              *)
THEOREM NoBufferIsLost == MqttIsPaced /\ Spec => []BuffersAreReferenced
<1> SUFFICES ASSUME MqttIsPaced PROVE Spec => []BuffersAreReferenced
  OBVIOUS
<1>1. IInv /\ EInv => BuffersAreReferenced
  BY References DEF EInv
<1> QED BY <1>1, SpecIInv, SpecEInv, PTL

(* And T_MQTT always finds a free buffer, whatever the size of the pool.   *)
THEOREM BufferForEveryBlock == MqttIsPaced /\ Spec => []NeverOutOfBuffers
<1> SUFFICES ASSUME MqttIsPaced PROVE Spec => []NeverOutOfBuffers
  OBVIOUS
<1>1. Init => NeverOutOfBuffers
  BY DEF Init, NeverOutOfBuffers
<1>2. IInv /\ EInv /\ NeverOutOfBuffers /\ [Next]_vars => NeverOutOfBuffers'
  <2> SUFFICES ASSUME IInv, EInv, NeverOutOfBuffers, [Next]_vars PROVE NeverOutOfBuffers'
    OBVIOUS
  <2>1. ASSUME NEW m, HandleDataBlockWithoutBuffer(m) PROVE FALSE
    <3>1. Wakes("T_MQTT") /\ ~HasFreeBuffer
      BY <2>1 DEF HandleDataBlockWithoutBuffer, TakeBlockReply
    <3>2. dataBuffers[1] = Free /\ 1 \in BufferIndices
      BY <3>1, WakesToNothing, MaxBuffersAssumption
    <3> QED BY <3>1, <3>2 DEF HasFreeBuffer
  <2>2. CASE UNCHANGED halted
    BY <2>2 DEF NeverOutOfBuffers
  <2>3. CASE halted' \in {"null bitmap", "assert"}
    BY <2>3 DEF NeverOutOfBuffers
  <2> QED BY <2>1, <2>2, <2>3
          DEF Next, OtaTask, ReceiveEvent, RequestJobDocument, DropJobDocument, IdentifyJob,
              ParseJobDocument, RequestFileBlock, RequestFileBlockWithoutBitmap,
              DropFileBlock, HandleFileBlock, HandleFileBlockAs, AssertFileBlockFits,
              CloseFile, Suspend, Resume, SendNextEvent, SetAgentState, MqttTask,
              ReceiveJobReply, ReceiveBlockReply, HandleJobDocument, HandleDataBlock,
              IgnoreDataBlock, SuspendTask, CheckSuspend, CheckResume, SuspendTaskVars,
              ServerNextJob, LoseReply, AgentVars, vars
<1> QED BY <1>1, <1>2, SpecIInv, SpecEInv, PTL DEF Spec

-----------------------------------------------------------------------------
(* The file: what is in the bitmap, in transit and in the pool is of the   *)
(* file that is being downloaded, whichever jobs came before it.           *)

(* The parser leaves the last file of a job in jobFields.                  *)
LastFile(j) == Len(JobQueue[j].files)

fileVars == <<currentFileId, totalBlocks, numOfBlocksRemaining, blockBitmap, undecoded,
              downloadedData, stream>>

FileOfStream ==
    blockBitmap # NoBitmap =>
        /\ stream \in Jobs /\ JobQueue[stream].files # <<>>
        /\ currentFileId = LastFile(stream) - 1
        /\ totalBlocks = NumBlocks(JobQueue[stream].files[LastFile(stream)])

BlocksOfTheStream ==
    /\ \A m \in DOMAIN blockReplies : m.file = LastFile(m.job) - 1
    /\ \A i \in BufferIndices : dataBuffers[i] # Free =>
          dataBuffers[i].job = stream /\ dataBuffers[i].file = currentFileId

NoneMissing == blockBitmap # NoBitmap /\ numOfBlocksRemaining = 0

(* The file is only closed when no block is missing.                       *)
ClosesComplete ==
    /\ \A k \in 1..Len(otaEventQueue) :
          otaEventQueue[k].eventId = "CloseFile" => NoneMissing
    /\ Handling("CloseFile") => NoneMissing
    /\ pc = "send" /\ recvEvent.eventId = "ReceivedFileBlock" => blockBitmap # NoBitmap

FInv == /\ FileOfStream /\ BlocksOfTheStream
        /\ RemainingCountsMissing /\ MarkedBlocksAreOfTheFile
        /\ ClosesComplete

(* At first there is no file.                                              *)
LEMMA InitFInv == Init => FInv
<1> SUFFICES ASSUME Init PROVE FInv
  OBVIOUS
<1> USE DEF Init, DataBuffersInit
<1>1. FileOfStream /\ RemainingCountsMissing /\ MarkedBlocksAreOfTheFile
  BY DEF FileOfStream, RemainingCountsMissing, MarkedBlocksAreOfTheFile
<1>2. BlocksOfTheStream
  BY EmptyBagDomain DEF BlocksOfTheStream
<1>3. ClosesComplete
  BY DEF ClosesComplete
<1> QED BY <1>1, <1>2, <1>3 DEF FInv

(* A step that leaves the file alone, puts no block in transit or in the   *)
(* pool, and has CloseFile only where it may be.                           *)
LEMMA QuietFInv ==
    ASSUME FInv, UNCHANGED fileVars,
           DOMAIN blockReplies' \subseteq DOMAIN blockReplies,
           \A i \in BufferIndices : dataBuffers'[i] # Free => dataBuffers'[i] = dataBuffers[i],
           \A k \in 1..Len(otaEventQueue') :
              otaEventQueue'[k].eventId = "CloseFile" => NoneMissing,
           pc' = "handle" /\ recvEvent'.eventId = "CloseFile" => NoneMissing,
           pc' = "send" /\ recvEvent'.eventId = "ReceivedFileBlock" => blockBitmap # NoBitmap
    PROVE  FInv'
<1> USE DEF fileVars
<1>1. FileOfStream' /\ RemainingCountsMissing' /\ MarkedBlocksAreOfTheFile'
  BY DEF FInv, FileOfStream, RemainingCountsMissing, MarkedBlocksAreOfTheFile
<1>2. BlocksOfTheStream'
  BY DEF FInv, BlocksOfTheStream
<1>3. NoneMissing' <=> NoneMissing
  BY DEF NoneMissing
<1>4. ClosesComplete'
  BY <1>3 DEF ClosesComplete
<1> QED BY <1>1, <1>2, <1>4 DEF FInv

(* Receiving an event hands over what is known of it in the queue.         *)
LEMMA ReceiveEventFInv == IInv /\ FInv /\ ReceiveEvent => FInv'
<1> SUFFICES ASSUME IInv, FInv, ReceiveEvent PROVE FInv'
  OBVIOUS
<1>0. OtaReceiveEvent(recvEvent')
  BY DEF ReceiveEvent
<1>1. /\ Len(otaEventQueue') = Len(otaEventQueue) - 1
      /\ \A k \in 1..Len(otaEventQueue') : otaEventQueue'[k] = otaEventQueue[k + 1]
      /\ Len(otaEventQueue) > 0 /\ recvEvent' = otaEventQueue[1]
  BY <1>0, QueueReceive DEF IInv
<1>2. otaEventQueue \in Seq(OtaEvents)
  BY DEF IInv, TypeOK, QueueTypeOK
<1>3. pc' = "handle" /\ UNCHANGED fileVars /\ UNCHANGED <<blockReplies, dataBuffers>>
  BY DEF ReceiveEvent, fileVars, jobVars, progressVars, netVars
<1> HIDE DEF OtaReceiveEvent
<1>4. /\ recvEvent'.eventId = "CloseFile" => NoneMissing
      /\ \A k \in 1..Len(otaEventQueue') :
            otaEventQueue'[k].eventId = "CloseFile" => NoneMissing
  BY <1>1, <1>2 DEF FInv, ClosesComplete
<1> QED BY <1>3, <1>4, QuietFInv

(* The steps of T_OTA that leave the file alone and send nothing.          *)
LEMMA QuietOtaFInv ==
    ASSUME IInv, FInv,
           \/ RequestJobDocument \/ DropJobDocument \/ IdentifyJob
           \/ RequestFileBlockWithoutBitmap \/ DropFileBlock \/ AssertFileBlockFits
           \/ CloseFile \/ Suspend \/ Resume \/ SetAgentState
    PROVE  FInv'
<1>1. CASE \/ RequestJobDocument \/ DropJobDocument \/ IdentifyJob
           \/ AssertFileBlockFits \/ CloseFile \/ Suspend \/ Resume \/ SetAgentState
  <2> USE <1>1 DEF RequestJobDocument, DropJobDocument, IdentifyJob, AssertFileBlockFits,
          CloseFile, Suspend, Resume, SetAgentState
  <2>1. UNCHANGED fileVars /\ UNCHANGED <<otaEventQueue, blockReplies, dataBuffers>>
    BY DEF fileVars, jobVars, progressVars, netVars
  <2>2. /\ pc' = "handle" /\ recvEvent'.eventId = "CloseFile" => NoneMissing
        /\ pc' = "send" => recvEvent'.eventId # "ReceivedFileBlock"
    BY DEF FInv, ClosesComplete
  <2> QED BY <2>1, <2>2, QuietFInv DEF FInv, ClosesComplete
<1>2. CASE DropFileBlock
  <2> USE <1>2 DEF DropFileBlock
  <2>1. UNCHANGED fileVars /\ UNCHANGED <<otaEventQueue, blockReplies>> /\ pc' = "receive"
    BY DEF fileVars, jobVars, progressVars, netVars
  <2>2. \A i \in BufferIndices : dataBuffers'[i] # Free => dataBuffers'[i] = dataBuffers[i]
    BY DEF IInv, TypeOK, QueueTypeOK
  <2> QED BY <2>1, <2>2, QuietFInv DEF FInv, ClosesComplete
<1>3. CASE RequestFileBlockWithoutBitmap
  <2>1. UNCHANGED fileVars
        /\ UNCHANGED <<otaEventQueue, blockReplies, dataBuffers, pc, recvEvent>>
    BY <1>3, Zenon DEF RequestFileBlockWithoutBitmap, fileVars, jobVars, progressVars, netVars
  <2> QED BY <2>1, QuietFInv DEF FInv, ClosesComplete
<1> QED BY <1>1, <1>2, <1>3

(* The blocks that are requested are of the stream and its file.           *)
LEMMA RequestFileBlockFInv == IInv /\ FInv /\ RequestFileBlock => FInv'
<1> SUFFICES ASSUME IInv, FInv, RequestFileBlock PROVE FInv'
  OBVIOUS
<1> USE DEF RequestFileBlock
<1>1. UNCHANGED fileVars /\ UNCHANGED <<otaEventQueue, dataBuffers>> /\ pc' = "receive"
  BY DEF fileVars, jobVars, progressVars
<1>2. currentFileId = LastFile(stream) - 1
  BY DEF FInv, FileOfStream
<1>3. PICK first, count : PublishGetStream(first, count)
  OBVIOUS
<1>4. DOMAIN blockReplies' \subseteq DOMAIN blockReplies \cup RequestedBlocks(first, count)
  BY <1>3, BagAddDomain DEF PublishGetStream
<1>5. \A m \in RequestedBlocks(first, count) : m.file = LastFile(m.job) - 1
  BY <1>2 DEF RequestedBlocks
<1> HIDE DEF RequestFileBlock
<1>6. BlocksOfTheStream'
  BY <1>1, <1>4, <1>5 DEF FInv, BlocksOfTheStream, fileVars
<1>7. FileOfStream' /\ RemainingCountsMissing' /\ MarkedBlocksAreOfTheFile'
  BY <1>1 DEF FInv, FileOfStream, RemainingCountsMissing, MarkedBlocksAreOfTheFile, fileVars
<1>8. ClosesComplete'
  BY <1>1 DEF FInv, ClosesComplete, NoneMissing, fileVars
<1> QED BY <1>6, <1>7, <1>8 DEF FInv

(* A parsed document starts its file with no block marked, and no buffer   *)
(* holds a block of the file before it.                                    *)
LEMMA ParseJobDocumentFInv == IInv /\ EInv /\ FInv /\ ParseJobDocument => FInv'
<1> SUFFICES ASSUME IInv, EInv, FInv, ParseJobDocument PROVE FInv'
  OBVIOUS
<1> DEFINE fields == ParsedFields(jobDocBuffer)
<1>1. /\ pc = "parse" /\ recvEvent.eventId = "ReceivedJobDocument"
      /\ pc' \in {"send", "setState"}
      /\ UNCHANGED <<otaEventQueue, dataBuffers, recvEvent, downloadedData, blockReplies>>
  BY DEF ParseJobDocument, IInv, ControlOK, netVars
<1>2. CASE ~fields.handled
  <2>1. UNCHANGED fileVars
    BY <1>2 DEF ParseJobDocument, fileVars, progressVars
  <2> QED BY <1>1, <2>1, QuietFInv DEF FInv, ClosesComplete
<1>3. CASE fields.handled
  <2>1. jobDocBuffer \in Jobs /\ jobDocBuffer # NoStream
    BY <1>1 DEF EInv, ParsesAJob, IInv, TypeOK, JobTypeOK, NoStream
  <2>2. JobQueue[jobDocBuffer].files # <<>>
    BY <1>3, <2>1 DEF ParsedFields, NoStream
  <2>3. /\ fields.imageRef = jobDocBuffer /\ fields.fileId = LastFile(jobDocBuffer) - 1
        /\ fields.fileSize = JobQueue[jobDocBuffer].files[LastFile(jobDocBuffer)]
    BY <2>1, <2>2 DEF ParsedFields, LastFile, NoStream
  <2>4. NumBlocks(fields.fileSize) \in Nat
    BY ParsedFieldsType, UintAssumption DEF IInv, TypeOK, JobTypeOK
  <2> HIDE DEF fields
  <2>5. InitMqttDownloader(fields)
    BY <1>3 DEF ParseJobDocument, fields
  <2>6. FileOfStream' /\ MarkedBlocksAreOfTheFile' /\ blockBitmap' = {}
    BY <2>1, <2>2, <2>3, <2>5
       DEF InitMqttDownloader, FileOfStream, MarkedBlocksAreOfTheFile, LastFile
  <2>7. RemainingCountsMissing'
    <3>1. Cardinality({}) = 0
      BY FS_EmptySet
    <3> QED BY <2>4, <2>5, <3>1 DEF InitMqttDownloader, RemainingCountsMissing
  <2>8. NoneQueued
    BY <1>1 DEF EInv, PendingAlone, InHand, MessageEvents
  <2>9. BlocksOfTheStream'
    <3>1. \A i \in BufferIndices : dataBuffers[i] = Free
      BY <1>1, <2>8, PoolIsFree
    <3> QED BY <1>1, <3>1 DEF FInv, BlocksOfTheStream
  <2>10. ClosesComplete'
    BY <1>1, <2>8 DEF ClosesComplete, NoneQueued, MessageEvents
  <2> QED BY <2>6, <2>7, <2>9, <2>10 DEF FInv
<1> QED BY <1>2, <1>3

(* The block at hand is one of the file that is being downloaded.          *)
LEMMA BlockOfTheFile ==
    ASSUME IInv, FInv, Handling("ReceivedFileBlock")
    PROVE  LET m == dataBuffers[recvEvent.dataEvent] IN
           /\ m = [job |-> stream, file |-> currentFileId, block |-> m.block]
           /\ m.block \in 0..(totalBlocks - 1)
<1> DEFINE m == dataBuffers[recvEvent.dataEvent]
<1>1. /\ recvEvent.dataEvent \in BufferIndices /\ m \in Blocks /\ IsServed(m)
      /\ blockBitmap # NoBitmap
  BY BlockAtHand
<1>2. m.job = stream /\ m.file = currentFileId
  BY <1>1, AgentAssumption DEF FInv, BlocksOfTheStream
<1>3. m = [job |-> m.job, file |-> m.file, block |-> m.block] /\ m.block \in Nat
  BY <1>1 DEF Blocks
<1>4. totalBlocks = NumBlocks(FileSize(m))
  <2>1. currentFileId + 1 = LastFile(stream)
    <3>1. JobQueue[stream].files \in Seq(0..(UINT32_RANGE - 1))
      BY <1>1, <1>2, JobType DEF IsServed
    <3> QED BY <1>1, <3>1 DEF FInv, FileOfStream, LastFile
  <2> HIDE DEF m
  <2> QED BY <1>1, <1>2, <2>1 DEF FInv, FileOfStream, FileSize
<1>5. m.block < totalBlocks
  BY <1>1, <1>4 DEF IsServed
<1>6. totalBlocks \in Nat
  BY DEF IInv, TypeOK, JobTypeOK
<1> HIDE DEF m
<1>7. m.block \in 0..(totalBlocks - 1)
  BY <1>3, <1>5, <1>6
<1> QED BY <1>2, <1>3, <1>7 DEF m

(* While a block is missing, the counter is not zero.                      *)
LEMMA OneIsMissing ==
    ASSUME IInv, RemainingCountsMissing, blockBitmap # NoBitmap,
           NEW b \in 0..(totalBlocks - 1), b \notin blockBitmap
    PROVE  /\ numOfBlocksRemaining \in Nat /\ numOfBlocksRemaining > 0
           /\ numOfBlocksRemaining <= totalBlocks
<1> DEFINE T == 0..(totalBlocks - 1)
           S == blockBitmap \cup {b}
<1>1. /\ totalBlocks \in Nat /\ blockBitmap \subseteq T
      /\ numOfBlocksRemaining = totalBlocks - Cardinality(blockBitmap)
  BY UintAssumption DEF IInv, TypeOK, JobTypeOK, RemainingCountsMissing
<1>2. IsFiniteSet(T) /\ Cardinality(T) = totalBlocks
  <2>1. \A n \in Nat : IsFiniteSet(0..(n - 1)) /\ Cardinality(0..(n - 1)) = n
    BY FS_Interval
  <2> QED BY <1>1, <2>1
<1>3. S \subseteq T
  BY <1>1
<1> HIDE DEF T
<1>4. /\ IsFiniteSet(blockBitmap) /\ Cardinality(blockBitmap) \in Nat
      /\ Cardinality(S) = Cardinality(blockBitmap) + 1
  BY <1>1, <1>2, FS_Subset, FS_AddElement, FS_CardinalityType
<1> HIDE DEF S
<1>5. Cardinality(S) <= totalBlocks
  BY <1>2, <1>3, FS_Subset
<1> QED BY <1>1, <1>4, <1>5

(* A missing block that is marked is one fewer that is missing, and the    *)
(* counter does not wrap.                                                  *)
LEMMA MarkMissingBlock ==
    ASSUME IInv, RemainingCountsMissing, blockBitmap # NoBitmap,
           NEW b \in 0..(totalBlocks - 1), b \notin blockBitmap,
           blockBitmap' = blockBitmap \cup {b}, UNCHANGED totalBlocks,
           numOfBlocksRemaining' = (numOfBlocksRemaining - 1) % UINT32_RANGE
    PROVE  RemainingCountsMissing'
<1>1. /\ totalBlocks \in Nat /\ totalBlocks < UINT32_RANGE /\ UINT32_RANGE \in Nat
      /\ blockBitmap \subseteq 0..(totalBlocks - 1)
      /\ numOfBlocksRemaining = totalBlocks - Cardinality(blockBitmap)
  BY UintAssumption DEF IInv, TypeOK, JobTypeOK, RemainingCountsMissing
<1>2. IsFiniteSet(0..(totalBlocks - 1)) /\ Cardinality(0..(totalBlocks - 1)) = totalBlocks
  <2>1. \A n \in Nat : IsFiniteSet(0..(n - 1)) /\ Cardinality(0..(n - 1)) = n
    BY FS_Interval
  <2> QED BY <1>1, <2>1
<1>3. /\ IsFiniteSet(blockBitmap) /\ Cardinality(blockBitmap) \in Nat
      /\ Cardinality(blockBitmap') = Cardinality(blockBitmap) + 1
  BY <1>1, <1>2, FS_Subset, FS_AddElement, FS_CardinalityType
<1>4. blockBitmap' \subseteq 0..(totalBlocks - 1)
  BY <1>1
<1>5. Cardinality(blockBitmap') <= totalBlocks
  <2> DEFINE T == 0..(totalBlocks - 1)
  <2>1. IsFiniteSet(T) /\ Cardinality(T) = totalBlocks /\ blockBitmap' \subseteq T
    BY <1>2, <1>4
  <2> HIDE DEF T
  <2> QED BY <2>1, FS_Subset
<1>6. /\ numOfBlocksRemaining - 1 \in 0..(UINT32_RANGE - 1)
      /\ numOfBlocksRemaining - 1 = totalBlocks - Cardinality(blockBitmap')
  BY <1>1, <1>3, <1>5
<1>7. numOfBlocksRemaining' = totalBlocks - Cardinality(blockBitmap')
  BY <1>1, <1>6
<1> QED BY <1>4, <1>7 DEF RemainingCountsMissing

(* A block that is handled is marked if it is missing, and stored at its   *)
(* place if its message decoded.                                           *)
LEMMA StoreOneBlock ==
    ASSUME IInv, FInv, HandleFileBlock
    PROVE  \/ UNCHANGED fileVars
           \/ /\ UNCHANGED <<currentFileId, totalBlocks, stream>>
              /\ \E b \in 0..(totalBlocks - 1) :
                    /\ b \notin blockBitmap /\ blockBitmap' = blockBitmap \cup {b}
                    /\ numOfBlocksRemaining' = (numOfBlocksRemaining - 1) % UINT32_RANGE
                    /\ \/ /\ downloadedData' = [k \in DOMAIN downloadedData \cup {b} |->
                               IF k = b
                               THEN [job |-> stream, file |-> currentFileId, block |-> b]
                               ELSE downloadedData[k]]
                          /\ UNCHANGED undecoded
                       \/ undecoded' = undecoded \cup {b} /\ UNCHANGED downloadedData
<1> DEFINE m == dataBuffers[recvEvent.dataEvent]
<1>1. Handling("ReceivedFileBlock") /\ UNCHANGED <<currentFileId, totalBlocks, stream>>
  BY DEF HandleFileBlock, HandleFileBlockAs, jobVars
<1>2. PICK received \in ProcessReceivedDataBlock(m), stray \in BOOLEAN :
        IF IsBlockNeeded(received.blockId, stray)
        THEN StoreBlock(m, received)
        ELSE UNCHANGED <<progressVars, downloadedData>>
  BY DEF HandleFileBlock, HandleFileBlockAs
<1>3. CASE UNCHANGED <<progressVars, downloadedData>>
  BY <1>1, <1>3 DEF progressVars, fileVars
<1>4. CASE IsBlockNeeded(received.blockId, stray) /\ StoreBlock(m, received)
  <2> DEFINE b == received.blockId
  <2>1. /\ m = [job |-> stream, file |-> currentFileId, block |-> m.block]
        /\ m.block \in 0..(totalBlocks - 1) /\ totalBlocks \in Nat
    BY <1>1, BlockOfTheFile DEF IInv, TypeOK, JobTypeOK
  <2>2. b \in {0, m.block} /\ (received.decoded => b = m.block)
    BY DEF ProcessReceivedDataBlock
  <2>3. b \in 0..(totalBlocks - 1)
    BY <2>1, <2>2
  <2>4. b < BitmapBits
    BY <2>1, <2>3, BitOfBlock
  <2>5. b \notin blockBitmap
    BY <1>4, <2>4 DEF IsBlockNeeded
  <2> HIDE DEF m, b
  <2>6. /\ blockBitmap' = blockBitmap \cup {b}
        /\ numOfBlocksRemaining' = (numOfBlocksRemaining - 1) % UINT32_RANGE
    BY <1>4, <2>4 DEF StoreBlock, MarkBlockDownloaded, b
  <2>7. \/ /\ downloadedData' = [k \in DOMAIN downloadedData \cup {b} |->
                IF k = b
                THEN [job |-> stream, file |-> currentFileId, block |-> b]
                ELSE downloadedData[k]]
           /\ UNCHANGED undecoded
        \/ undecoded' = undecoded \cup {b} /\ UNCHANGED downloadedData
    <3>1. CASE received.decoded
      <4>1. b = m.block
        BY <2>2, <3>1
      <4>2. m = [job |-> stream, file |-> currentFileId, block |-> b]
        BY <2>1, <4>1
      <4>3. /\ UNCHANGED undecoded
            /\ downloadedData' = [k \in DOMAIN downloadedData \cup {b} |->
                                    IF k = b THEN m ELSE downloadedData[k]]
        BY <1>4, <3>1, <4>1 DEF StoreBlock
      <4> QED BY <4>2, <4>3
    <3>2. CASE ~received.decoded
      BY <1>4, <3>2 DEF StoreBlock, b
    <3> QED BY <3>1, <3>2
  <2> QED BY <1>1, <2>3, <2>5, <2>6, <2>7
<1> QED BY <1>2, <1>3, <1>4

(* So what is known of the file stays true.                                *)
LEMMA HandleFileBlockFInv == IInv /\ EInv /\ FInv /\ HandleFileBlock => FInv'
<1> SUFFICES ASSUME IInv, EInv, FInv, HandleFileBlock PROVE FInv'
  OBVIOUS
<1>1. /\ Handling("ReceivedFileBlock") /\ pc' = "send"
      /\ UNCHANGED <<otaEventQueue, recvEvent, blockReplies>>
      /\ dataBuffers' = [dataBuffers EXCEPT ![recvEvent.dataEvent] = Free]
  BY DEF HandleFileBlock, HandleFileBlockAs, netVars
<1>2. blockBitmap # NoBitmap
  BY <1>1, BlockAtHand
<1>3. \A i \in BufferIndices : dataBuffers'[i] # Free => dataBuffers'[i] = dataBuffers[i]
  BY <1>1 DEF IInv, TypeOK, QueueTypeOK
<1>4. NoneQueued
  BY <1>1 DEF EInv, PendingAlone, InHand, MessageEvents
<1>5. \A k \in 1..Len(otaEventQueue) : otaEventQueue[k].eventId # "CloseFile"
  BY <1>4 DEF NoneQueued, MessageEvents
<1>6. CASE UNCHANGED fileVars
  BY <1>1, <1>2, <1>3, <1>5, <1>6, QuietFInv
<1>7. ASSUME UNCHANGED <<currentFileId, totalBlocks, stream>>,
             NEW b \in 0..(totalBlocks - 1),
             b \notin blockBitmap, blockBitmap' = blockBitmap \cup {b},
             numOfBlocksRemaining' = (numOfBlocksRemaining - 1) % UINT32_RANGE,
             \/ /\ downloadedData' = [k \in DOMAIN downloadedData \cup {b} |->
                        IF k = b
                        THEN [job |-> stream, file |-> currentFileId, block |-> b]
                        ELSE downloadedData[k]]
                /\ UNCHANGED undecoded
             \/ undecoded' = undecoded \cup {b} /\ UNCHANGED downloadedData
      PROVE  FInv'
  <2>1. RemainingCountsMissing'
    BY <1>2, <1>7, MarkMissingBlock DEF FInv
  <2>2. MarkedBlocksAreOfTheFile'
    <3>1. \A k \in blockBitmap \ undecoded :
             /\ k \in DOMAIN downloadedData
             /\ downloadedData[k] = [job |-> stream, file |-> currentFileId, block |-> k]
      BY <1>2 DEF FInv, MarkedBlocksAreOfTheFile
    <3> QED BY <1>7, <3>1 DEF MarkedBlocksAreOfTheFile
  <2>3. blockBitmap' # NoBitmap
    <3>1. b \in blockBitmap' /\ b # -1
      BY <1>7 DEF IInv, TypeOK, JobTypeOK
    <3> QED BY <3>1 DEF NoBitmap
  <2>4. FileOfStream'
    BY <1>2, <1>7 DEF FInv, FileOfStream
  <2>5. BlocksOfTheStream'
    BY <1>1, <1>3, <1>7 DEF FInv, BlocksOfTheStream
  <2>6. ClosesComplete'
    BY <1>1, <1>5, <2>3 DEF ClosesComplete
  <2> QED BY <2>1, <2>2, <2>4, <2>5, <2>6 DEF FInv
<1> QED BY <1>6, <1>7, StoreOneBlock

(* CloseFile is only sent when the counter is zero.                        *)
LEMMA SendNextEventFInv == IInv /\ FInv /\ SendNextEvent => FInv'
<1> SUFFICES ASSUME IInv, FInv, SendNextEvent PROVE FInv'
  OBVIOUS
<1> DEFINE e == Event(NextEventId)
<1>1. /\ OtaSendEvent(e) /\ pc = "send" /\ pc' \in {"receive", "setState"}
      /\ UNCHANGED fileVars /\ UNCHANGED <<dataBuffers, blockReplies>>
  BY DEF SendNextEvent, fileVars, jobVars, progressVars, netVars
<1>2. e \in OtaEvents
  BY <1>1 DEF IInv, ControlOK, NextEventId
<1>3. e.eventId = "CloseFile" => NoneMissing
  BY <1>1 DEF IInv, ControlOK, NextEventId, FInv, ClosesComplete, NoneMissing
<1>4. \A k \in 1..Len(otaEventQueue') :
         otaEventQueue'[k].eventId = "CloseFile" => NoneMissing
  <2>1. otaEventQueue \in Seq(OtaEvents)
    BY DEF IInv, TypeOK, QueueTypeOK
  <2>2. \/ otaEventQueue' = otaEventQueue
        \/ /\ Len(otaEventQueue') = Len(otaEventQueue) + 1
           /\ \A k \in 1..Len(otaEventQueue) : otaEventQueue'[k] = otaEventQueue[k]
           /\ otaEventQueue'[Len(otaEventQueue) + 1] = e
    BY <1>1, <1>2, QueueSend DEF IInv
  <2> HIDE DEF e
  <2> QED BY <1>3, <2>1, <2>2 DEF FInv, ClosesComplete
<1> QED BY <1>1, <1>4, QuietFInv

(* A message is copied to the pool if it is of the stream, and then it is  *)
(* of the file, too.                                                       *)
LEMMA HandleDataBlockFInv ==
    ASSUME MqttIsPaced, IInv, EInv, FInv, NEW m \in BagToSet(blockReplies), HandleDataBlock(m)
    PROVE  FInv'
<1>1. PICK i \in BufferIndices : GetOtaDataEventBuffer(i, m) /\ OtaSendEvent(DataEvent(i))
  BY DEF HandleDataBlock
<1>2. /\ Wakes("T_MQTT") /\ m.job = stream /\ UNCHANGED fileVars /\ UNCHANGED <<pc, recvEvent>>
      /\ DOMAIN blockReplies' \subseteq DOMAIN blockReplies
  BY BagSubDomain DEF HandleDataBlock, TakeBlockReply, fileVars, jobVars, progressVars
<1>3. otaEventQueue' = <<DataEvent(i)>> /\ pc = "receive"
  <2>1. DataEvent(i) \in OtaEvents
    BY <1>1
  <2> QED BY <1>1, <1>2, <2>1, MqttSends, WakesToNothing
<1>4. m.file = currentFileId
  <2>1. m \in DOMAIN blockReplies /\ m.file = LastFile(m.job) - 1
    BY DEF FInv, BlocksOfTheStream, BagToSet
  <2>2. stream # NoStream
    BY <1>2, <2>1, JobQueueAssumption DEF IInv, RepliesServed, IsServed, NoStream
  <2> QED BY <1>2, <2>1, <2>2 DEF IInv, StreamHasBitmap, FInv, FileOfStream
<1>5. \A k \in BufferIndices :
         dataBuffers'[k] = dataBuffers[k] \/ dataBuffers'[k] = m
  BY <1>1 DEF IInv, TypeOK, QueueTypeOK
<1>6. BlocksOfTheStream'
  BY <1>2, <1>4, <1>5 DEF FInv, BlocksOfTheStream, fileVars
<1>7. FileOfStream' /\ RemainingCountsMissing' /\ MarkedBlocksAreOfTheFile'
  BY <1>2 DEF FInv, FileOfStream, RemainingCountsMissing, MarkedBlocksAreOfTheFile, fileVars
<1>8. ClosesComplete'
  BY <1>2, <1>3 DEF ClosesComplete
<1> QED BY <1>6, <1>7, <1>8 DEF FInv

(* T_MQTT, T_SUSPEND and the service send no CloseFile.                    *)
LEMMA OthersFInv ==
    ASSUME MqttIsPaced, IInv, EInv, FInv,
           MqttTask \/ SuspendTask \/ ServerNextJob \/ LoseReply
    PROVE  FInv'
<1>1. CASE \E m \in BagToSet(blockReplies) : HandleDataBlock(m)
  BY <1>1, HandleDataBlockFInv
<1>2. CASE \E m : HandleDataBlockWithoutBuffer(m) \/ IgnoreDataBlock(m)
  <2>1. UNCHANGED fileVars /\ UNCHANGED <<otaEventQueue, dataBuffers, pc, recvEvent>>
        /\ \E m : TakeBlockReply(m)
    BY <1>2, Zenon
       DEF HandleDataBlockWithoutBuffer, IgnoreDataBlock, fileVars, jobVars, progressVars
  <2>2. DOMAIN blockReplies' \subseteq DOMAIN blockReplies
    BY <2>1, BagSubDomain DEF TakeBlockReply
  <2> QED BY <2>1, <2>2, QuietFInv DEF FInv, ClosesComplete
<1>3. CASE ReceiveJobReply \/ SuspendTask \/ ServerNextJob \/ LoseReply
  <2>1. UNCHANGED fileVars /\ UNCHANGED <<dataBuffers, pc, recvEvent>>
    BY <1>3 DEF ReceiveJobReply, HandleJobDocument, SuspendTask, CheckSuspend, CheckResume,
       SuspendTaskVars, ServerNextJob, LoseReply, AgentVars, fileVars, jobVars, progressVars
  <2>2. DOMAIN blockReplies' \subseteq DOMAIN blockReplies
    BY <1>3, BagSubDomain
       DEF ReceiveJobReply, HandleJobDocument, TakeBlockReply, SuspendTask, CheckSuspend,
           CheckResume, SuspendTaskVars, ServerNextJob, LoseReply, netVars
  <2>3. \/ UNCHANGED otaEventQueue
        \/ \E e \in OtaEvents : OtaSendEvent(e) /\ e.eventId # "CloseFile"
    <3> DEFINE ids == {"ReceivedJobDocument", "Suspend", "Resume"}
    <3>1. \A id \in ids : Event(id) \in OtaEvents /\ Event(id).eventId # "CloseFile"
      OBVIOUS
    <3>2. UNCHANGED otaEventQueue \/ \E id \in ids : OtaSendEvent(Event(id))
      <4> HIDE DEF OtaSendEvent, OtaEvents, Event
      <4> QED BY <1>3 DEF ReceiveJobReply, HandleJobDocument, SuspendTask, CheckSuspend,
                          CheckResume, ServerNextJob, LoseReply, AgentVars
    <3> HIDE DEF OtaSendEvent, OtaEvents, Event, ids
    <3> QED BY <3>1, <3>2
  <2>4. \A k \in 1..Len(otaEventQueue') :
           otaEventQueue'[k].eventId = "CloseFile" => NoneMissing
    <3>1. \A k \in 1..Len(otaEventQueue) :
             otaEventQueue[k].eventId = "CloseFile" => NoneMissing
      BY DEF FInv, ClosesComplete
    <3>2. CASE UNCHANGED otaEventQueue
      BY <3>1, <3>2
    <3>3. ASSUME NEW e \in OtaEvents, OtaSendEvent(e), e.eventId # "CloseFile"
          PROVE  \A k \in 1..Len(otaEventQueue') :
                    otaEventQueue'[k].eventId = "CloseFile" => NoneMissing
      <4>1. Len(otaEventQueue) \in Nat
        BY DEF IInv, TypeOK, QueueTypeOK
      <4>2. \/ otaEventQueue' = otaEventQueue
            \/ /\ Len(otaEventQueue') = Len(otaEventQueue) + 1
               /\ \A k \in 1..Len(otaEventQueue) : otaEventQueue'[k] = otaEventQueue[k]
               /\ otaEventQueue'[Len(otaEventQueue) + 1] = e
        BY <3>3, QueueSend DEF IInv
      <4> HIDE DEF OtaEvents, OtaSendEvent
      <4> QED BY <3>1, <3>3, <4>1, <4>2
    <3> QED BY <2>3, <3>2, <3>3
  <2> QED BY <2>1, <2>2, <2>4, QuietFInv DEF FInv, ClosesComplete
<1> QED BY <1>1, <1>2, <1>3 DEF MqttTask, ReceiveBlockReply

(* Every step of the system preserves what is known of the file.           *)
LEMMA NextFInv == MqttIsPaced /\ IInv /\ EInv /\ FInv /\ [Next]_vars => FInv'
<1> SUFFICES ASSUME MqttIsPaced, IInv, EInv, FInv, [Next]_vars PROVE FInv'
  OBVIOUS
<1>1. CASE OtaTask
  BY <1>1, QuietOtaFInv, ReceiveEventFInv, ParseJobDocumentFInv, RequestFileBlockFInv,
     HandleFileBlockFInv, SendNextEventFInv DEF OtaTask
<1>2. CASE UNCHANGED vars
  <2>1. UNCHANGED fileVars
        /\ UNCHANGED <<otaEventQueue, dataBuffers, pc, recvEvent, blockReplies>>
    BY <1>2 DEF vars, fileVars, jobVars, progressVars, netVars
  <2> QED BY <2>1, QuietFInv DEF FInv, ClosesComplete
<1> QED BY <1>1, <1>2, OthersFInv DEF Next

(* So it holds throughout.                                                 *)
LEMMA SpecFInv == MqttIsPaced /\ Spec => []FInv
<1> SUFFICES ASSUME MqttIsPaced PROVE Spec => []FInv
  OBVIOUS
<1>1. IInv /\ EInv /\ FInv /\ [Next]_vars => FInv'
  BY NextFInv
<1> QED BY <1>1, InitFInv, SpecIInv, SpecEInv, PTL DEF Spec

(* Jobs may replace one another at any moment and their replies come late: *)
(* the counter of initMqttDownloader is still the number of blocks that    *)
(* the bitmap of the same file has not marked.                             *)
THEOREM CountsMissingAcrossJobs == MqttIsPaced /\ Spec => []RemainingCountsMissing
<1> SUFFICES ASSUME MqttIsPaced PROVE Spec => []RemainingCountsMissing
  OBVIOUS
<1>1. FInv => RemainingCountsMissing
  BY DEF FInv
<1> QED BY <1>1, SpecFInv, PTL

(* No block of an earlier job's file is ever counted for the job that      *)
(* replaced it, though handleMqttStreamsBlockArrived does not look at what *)
(* a block is from: what is marked and decoded is the file's own block, at *)
(* its place in downloadedData.                                            *)
THEOREM MarkedAcrossJobs == MqttIsPaced /\ Spec => []MarkedBlocksAreOfTheFile
<1> SUFFICES ASSUME MqttIsPaced PROVE Spec => []MarkedBlocksAreOfTheFile
  OBVIOUS
<1>1. FInv => MarkedBlocksAreOfTheFile
  BY DEF FInv
<1> QED BY <1>1, SpecFInv, PTL

-----------------------------------------------------------------------------
(* The assertion of handleMqttStreamsBlockArrived, and the bytes counted   *)
(* before it: each block that is marked counts for at most BLOCK_SIZE.     *)

BytesOfMarked ==
    blockBitmap # NoBitmap =>
        totalBytesReceived + numOfBlocksRemaining * BLOCK_SIZE <= totalBlocks * BLOCK_SIZE

BInv == BytesOfMarked /\ AssertsOnlyNearTheLimit

bytesVars == <<blockBitmap, totalBytesReceived, numOfBlocksRemaining, totalBlocks>>

(* A message counts for at most a block.                                   *)
LEMMA LengthOfBlock ==
    ASSUME NEW m \in Blocks, IsServed(m), NEW received \in ProcessReceivedDataBlock(m)
    PROVE  received.length \in 0..BLOCK_SIZE
<1>1. BlockLength(FileSize(m), m.block) \in Nat
  BY ServedLength
<1>2. m.block \in Nat /\ FileSize(m) \in Nat
  <2> DEFINE files == JobQueue[m.job].files
  <2>1. files \in Seq(0..(UINT32_RANGE - 1)) /\ m.file + 1 \in 1..Len(files)
    BY JobType DEF IsServed
  <2> HIDE DEF files
  <2>2. files[m.file + 1] \in 0..(UINT32_RANGE - 1)
    BY <2>1, ElementOfSeq
  <2> QED BY <2>2, UintAssumption DEF FileSize, Blocks, files
<1>3. BlockLength(FileSize(m), m.block) <= BLOCK_SIZE
  <2> DEFINE size == FileSize(m)
             b    == m.block
  <2>1. (b + 1) * BLOCK_SIZE = b * BLOCK_SIZE + BLOCK_SIZE /\ b * BLOCK_SIZE \in Nat
    BY <1>2, BlockSizeAssumption
  <2> HIDE DEF size, b
  <2>2. BlockLength(size, b) <= BLOCK_SIZE
    BY <1>2, <2>1, BlockSizeAssumption DEF BlockLength, size
  <2> QED BY <2>2 DEF size, b
<1>4. received.length \in {BlockLength(FileSize(m), m.block), 0}
  BY DEF ProcessReceivedDataBlock
<1> QED BY <1>1, <1>3, <1>4, BlockSizeAssumption

(* A step that counts nothing and does not fail the assertion.             *)
LEMMA QuietBInv ==
    ASSUME BInv, UNCHANGED bytesVars, halted' = "assert" => halted = "assert"
    PROVE  BInv'
BY DEF BInv, BytesOfMarked, AssertsOnlyNearTheLimit, bytesVars

(* What is counted never exceeds the blocks of the file.                   *)
LEMMA BytesOfTheFile ==
    ASSUME IInv, BInv, blockBitmap # NoBitmap
    PROVE  /\ totalBytesReceived \in Nat /\ totalBlocks \in Nat
           /\ totalBytesReceived <= totalBlocks * BLOCK_SIZE
<1>1. totalBytesReceived \in Nat /\ totalBlocks \in Nat /\ numOfBlocksRemaining \in Nat
  BY UintAssumption DEF IInv, TypeOK, JobTypeOK
<1>2. numOfBlocksRemaining * BLOCK_SIZE \in Nat /\ totalBlocks * BLOCK_SIZE \in Nat
  BY <1>1, BlockSizeAssumption
<1> QED BY <1>1, <1>2 DEF BInv, BytesOfMarked

(* A parsed document starts the count over.                                *)
LEMMA ParseJobDocumentBInv == IInv /\ BInv /\ ParseJobDocument => BInv'
<1> SUFFICES ASSUME IInv, BInv, ParseJobDocument PROVE BInv'
  OBVIOUS
<1> DEFINE fields == ParsedFields(jobDocBuffer)
<1>1. UNCHANGED halted /\ halted = "no"
  BY DEF ParseJobDocument
<1>2. CASE ~fields.handled
  BY <1>1, <1>2, QuietBInv DEF ParseJobDocument, bytesVars, progressVars
<1>3. CASE fields.handled
  <2>1. InitMqttDownloader(fields)
    BY <1>3 DEF ParseJobDocument
  <2>2. NumBlocks(fields.fileSize) \in Nat
    BY ParsedFieldsType, UintAssumption DEF IInv, TypeOK, JobTypeOK
  <2> HIDE DEF fields
  <2>3. /\ totalBytesReceived' = 0 /\ totalBlocks' \in Nat
        /\ numOfBlocksRemaining' = totalBlocks'
    BY <2>1, <2>2 DEF InitMqttDownloader
  <2>4. totalBlocks' * BLOCK_SIZE \in Nat
    <3>1. \A n \in Nat : n * BLOCK_SIZE \in Nat
      BY BlockSizeAssumption
    <3> QED BY <2>3, <3>1
  <2>5. totalBytesReceived' + numOfBlocksRemaining' * BLOCK_SIZE <= totalBlocks' * BLOCK_SIZE
    BY <2>3, <2>4
  <2> QED BY <1>1, <2>5 DEF BInv, BytesOfMarked, AssertsOnlyNearTheLimit
<1> QED BY <1>2, <1>3

(* A block that is counted is one less that remains.                       *)
LEMMA HandleFileBlockBInv == IInv /\ FInv /\ BInv /\ HandleFileBlock => BInv'
<1> SUFFICES ASSUME IInv, FInv, BInv, HandleFileBlock PROVE BInv'
  OBVIOUS
<1> DEFINE m == dataBuffers[recvEvent.dataEvent]
<1>1. Handling("ReceivedFileBlock") /\ UNCHANGED <<totalBlocks, halted>>
  BY DEF HandleFileBlock, HandleFileBlockAs, jobVars
<1>2. m \in Blocks /\ IsServed(m) /\ blockBitmap # NoBitmap
  BY <1>1, BlockAtHand
<1>3. PICK received \in ProcessReceivedDataBlock(m), stray \in BOOLEAN :
        IF IsBlockNeeded(received.blockId, stray)
        THEN StoreBlock(m, received)
        ELSE UNCHANGED <<progressVars, downloadedData>>
  BY DEF HandleFileBlock, HandleFileBlockAs
<1>4. CASE UNCHANGED <<progressVars, downloadedData>>
  BY <1>1, <1>4, QuietBInv DEF progressVars, bytesVars
<1>5. CASE IsBlockNeeded(received.blockId, stray) /\ StoreBlock(m, received)
  <2> DEFINE b == received.blockId
             length == received.length
  <2>1. length \in 0..BLOCK_SIZE
    BY <1>2, LengthOfBlock
  <2>2. b \in 0..(totalBlocks - 1) /\ totalBlocks \in Nat /\ totalBlocks < UINT32_RANGE
    <3>1. m.block \in 0..(totalBlocks - 1)
      BY <1>1, BlockOfTheFile
    <3>2. b \in {0, m.block}
      BY DEF ProcessReceivedDataBlock
    <3> HIDE DEF m, b
    <3> QED BY <3>1, <3>2, UintAssumption DEF IInv, TypeOK, JobTypeOK
  <2>3. b \notin blockBitmap
    <3>1. b < BitmapBits
      BY <2>2, BitOfBlock
    <3> QED BY <1>5, <3>1 DEF IsBlockNeeded
  <2> HIDE DEF m, b, length
  <2>4. numOfBlocksRemaining \in Nat /\ numOfBlocksRemaining > 0
        /\ numOfBlocksRemaining <= totalBlocks
    BY <1>2, <2>2, <2>3, OneIsMissing DEF FInv
  <2>5. numOfBlocksRemaining' = numOfBlocksRemaining - 1
    <3>1. numOfBlocksRemaining' = (numOfBlocksRemaining - 1) % UINT32_RANGE
      BY <1>5 DEF StoreBlock
    <3> QED BY <2>2, <2>4, <3>1, UintAssumption
  <2>6. totalBytesReceived' = totalBytesReceived + length /\ totalBytesReceived \in Nat
    BY <1>5 DEF StoreBlock, length, IInv, TypeOK, JobTypeOK
  <2>7. numOfBlocksRemaining * BLOCK_SIZE = (numOfBlocksRemaining - 1) * BLOCK_SIZE + BLOCK_SIZE
        /\ (numOfBlocksRemaining - 1) * BLOCK_SIZE \in Nat /\ totalBlocks * BLOCK_SIZE \in Nat
    BY <2>2, <2>4, BlockSizeAssumption
  <2>8. totalBytesReceived + numOfBlocksRemaining * BLOCK_SIZE <= totalBlocks * BLOCK_SIZE
    BY <1>2 DEF BInv, BytesOfMarked
  <2>9. totalBytesReceived' + numOfBlocksRemaining' * BLOCK_SIZE <= totalBlocks * BLOCK_SIZE
    <3> DEFINE rest == (numOfBlocksRemaining - 1) * BLOCK_SIZE
               whole == totalBlocks * BLOCK_SIZE
    <3>1. numOfBlocksRemaining' * BLOCK_SIZE = rest
      BY <2>5
    <3>2. totalBytesReceived + (rest + BLOCK_SIZE) <= whole /\ rest \in Nat /\ whole \in Nat
      BY <2>7, <2>8
    <3> HIDE DEF rest, whole
    <3>3. totalBytesReceived' + rest <= whole
      BY <2>1, <2>6, <3>2, BlockSizeAssumption
    <3> QED BY <3>1, <3>3 DEF whole
  <2> QED BY <1>1, <2>9 DEF BInv, BytesOfMarked, AssertsOnlyNearTheLimit
<1> QED BY <1>3, <1>4, <1>5

(* When the assertion fails the file comes within a block of the limit.    *)
LEMMA AssertFileBlockFitsBInv == IInv /\ BInv /\ AssertFileBlockFits => BInv'
<1> SUFFICES ASSUME IInv, BInv, AssertFileBlockFits PROVE BInv'
  OBVIOUS
<1> DEFINE m == dataBuffers[recvEvent.dataEvent]
<1>1. Handling("ReceivedFileBlock") /\ UNCHANGED bytesVars
  BY DEF AssertFileBlockFits, bytesVars, jobVars, progressVars
<1>2. m \in Blocks /\ IsServed(m) /\ blockBitmap # NoBitmap
  BY <1>1, BlockAtHand
<1>3. PICK received \in ProcessReceivedDataBlock(m) : ~Fits(received.length)
  BY DEF AssertFileBlockFits
<1>4. received.length \in 0..BLOCK_SIZE
  BY <1>2, <1>3, LengthOfBlock
<1>5. /\ totalBytesReceived \in Nat /\ totalBlocks \in Nat
      /\ totalBytesReceived <= totalBlocks * BLOCK_SIZE
  BY <1>2, BytesOfTheFile
<1>6. (totalBlocks + 1) * BLOCK_SIZE = totalBlocks * BLOCK_SIZE + BLOCK_SIZE
      /\ totalBlocks * BLOCK_SIZE \in Nat
  BY <1>5, BlockSizeAssumption
<1>7. totalBytesReceived + received.length >= CONFIG_MAX_FILE_SIZE
  BY <1>3, <1>4, <1>5, MaxFileSizeAssumption, BlockSizeAssumption DEF Fits
<1>8. (totalBlocks + 1) * BLOCK_SIZE >= CONFIG_MAX_FILE_SIZE
  <2> DEFINE whole == totalBlocks * BLOCK_SIZE
             more  == (totalBlocks + 1) * BLOCK_SIZE
  <2>1. more = whole + BLOCK_SIZE /\ whole \in Nat /\ totalBytesReceived <= whole
    BY <1>5, <1>6
  <2> HIDE DEF whole, more
  <2>2. more >= CONFIG_MAX_FILE_SIZE
    BY <1>4, <1>5, <1>7, <2>1, MaxFileSizeAssumption, BlockSizeAssumption
  <2> QED BY <2>2 DEF more
<1> QED BY <1>1, <1>8 DEF BInv, BytesOfMarked, AssertsOnlyNearTheLimit, bytesVars

(* The other steps count nothing.                                          *)
LEMMA OthersBInv ==
    ASSUME BInv, [Next]_vars, ~ParseJobDocument, ~HandleFileBlock, ~AssertFileBlockFits
    PROVE  BInv'
<1> USE DEF bytesVars, jobVars, progressVars
<1>1. CASE UNCHANGED vars
  BY <1>1, QuietBInv DEF vars
<1>2. CASE RequestFileBlockWithoutBitmap
  <2>1. UNCHANGED bytesVars /\ halted' # "assert"
    BY <1>2, Zenon DEF RequestFileBlockWithoutBitmap
  <2> QED BY <2>1, QuietBInv
<1>3. CASE OtaTask /\ ~RequestFileBlockWithoutBitmap
  <2>1. UNCHANGED bytesVars /\ UNCHANGED halted
    BY <1>3 DEF OtaTask, ReceiveEvent, RequestJobDocument, DropJobDocument, IdentifyJob,
       RequestFileBlock, DropFileBlock, CloseFile, Suspend, Resume, SendNextEvent, SetAgentState
  <2> QED BY <2>1, QuietBInv
<1>4. CASE \E m : HandleDataBlockWithoutBuffer(m)
  <2>1. UNCHANGED bytesVars /\ halted' # "assert"
    BY <1>4, Zenon DEF HandleDataBlockWithoutBuffer
  <2> QED BY <2>1, QuietBInv
<1>5. CASE \/ ReceiveJobReply \/ \E m : HandleDataBlock(m) \/ IgnoreDataBlock(m)
           \/ SuspendTask \/ ServerNextJob \/ LoseReply
  <2>1. UNCHANGED bytesVars /\ UNCHANGED halted
    BY <1>5 DEF ReceiveJobReply, HandleJobDocument, HandleDataBlock, IgnoreDataBlock, SuspendTask,
       CheckSuspend, CheckResume, SuspendTaskVars, ServerNextJob, LoseReply, AgentVars, netVars
  <2> QED BY <2>1, QuietBInv
<1> QED BY <1>1, <1>2, <1>3, <1>4, <1>5 DEF Next, MqttTask, ReceiveBlockReply

(* For any jobs and sizes, the assertion stops the agent only for a file   *)
(* that comes within a block of CONFIG_MAX_FILE_SIZE: duplicates, blocks   *)
(* of earlier jobs, losses and blocks that do not decode count for no more *)
(* than that.                                                              *)
THEOREM StopsOnlyNearTheLimit == MqttIsPaced /\ Spec => []AssertsOnlyNearTheLimit
<1> SUFFICES ASSUME MqttIsPaced PROVE Spec => []AssertsOnlyNearTheLimit
  OBVIOUS
<1>1. Init => BInv
  BY DEF Init, BInv, BytesOfMarked, AssertsOnlyNearTheLimit
<1>2. IInv /\ FInv /\ BInv /\ [Next]_vars => BInv'
  BY ParseJobDocumentBInv, HandleFileBlockBInv, AssertFileBlockFitsBInv, OthersBInv
<1>3. BInv => AssertsOnlyNearTheLimit
  BY DEF BInv
<1> QED BY <1>1, <1>2, <1>3, SpecIInv, SpecFInv, PTL DEF Spec

-----------------------------------------------------------------------------
(* The job: the identifier that is reported is that of the file, when all  *)
(* jobs are OTA jobs and the identifier of each replaces that of another.  *)

(* Every job lists a file.                                                 *)
OtaJobsOnly == \A j \in Jobs : JobQueue[j].files # <<>>

(* No identifier is shorter than one it does not begin: the copy to        *)
(* globalJobId, without a NUL, leaves nothing of the one before it.        *)
IdsReplace ==
    \A i, j \in Jobs : \/ SameJobId(JobQueue[i].id, JobQueue[j].id)
                       \/ CopyJobId(JobQueue[i].id, JobQueue[j].id) = JobQueue[j].id

(* Identifiers of one length do: strncpy then copies over all of the one   *)
(* before, and its missing NUL does no harm.                               *)
THEOREM EqualLengthsReplace ==
    ASSUME \A i, j \in Jobs : Len(JobQueue[i].id) = Len(JobQueue[j].id)
    PROVE  IdsReplace
<1> SUFFICES ASSUME NEW i \in Jobs, NEW j \in Jobs
             PROVE  CopyJobId(JobQueue[i].id, JobQueue[j].id) = JobQueue[j].id
  BY DEF IdsReplace
<1> DEFINE g == JobQueue[i].id
           id == JobQueue[j].id
<1>1. g \in Seq(Nat) /\ id \in Seq(Nat) /\ Len(g) = Len(id)
  BY JobType
<1> HIDE DEF g, id
<1>2. SubSeq(g, Len(id) + 1, Len(g)) = <<>>
  BY <1>1, SubSeqEmpty
<1>3. CopyJobId(g, id) = id
  BY <1>1, <1>2, ConcatEmptySeq DEF CopyJobId
<1> QED BY <1>3 DEF g, id

(* The identifier is that of the file, or of the document being parsed.    *)
JobKnown ==
    otaAgentState # "Stopped" =>
        /\ pc = "parse" => globalJobId = GetJobId(jobDocBuffer)
        /\ pc # "parse" =>
              globalJobId = IF blockBitmap = NoBitmap THEN <<>> ELSE JobQueue[stream].id

ReportIsOfTheFile ==
    /\ otaAgentState = "Stopped" => /\ pc = "receive" /\ NoneMissing
                                    /\ jobUpdate = JobQueue[stream].id
    /\ otaAgentState # "Stopped" => jobUpdate = NoUpdate

(* A document is parsed for another job than the one that is downloaded.   *)
ParsesAnother == pc = "parse" /\ blockBitmap # NoBitmap => stream # jobDocBuffer

(* A block is only asked for once there is a bitmap.                       *)
RequestsHaveBitmap ==
    /\ \A k \in 1..Len(otaEventQueue) :
          otaEventQueue[k].eventId = "RequestFileBlock" => blockBitmap # NoBitmap
    /\ Handling("RequestFileBlock") => blockBitmap # NoBitmap
    /\ pc = "send" /\ recvEvent.eventId = "ReceivedJobDocument" => blockBitmap # NoBitmap

CInv == JobKnown /\ ParsesAnother /\ ReportIsOfTheFile /\ RequestsHaveBitmap

jobKnownVars == <<globalJobId, numOfBlocksRemaining, blockBitmap, stream, jobUpdate>>

(* At first there is no job.                                               *)
LEMMA InitCInv == Init => CInv
BY DEF Init, CInv, JobKnown, ParsesAnother, ReportIsOfTheFile, RequestsHaveBitmap

(* A step that leaves the job alone, neither stops the agent nor parses,   *)
(* and has RequestFileBlock only where it may be.                          *)
LEMMA QuietCInv ==
    ASSUME CInv, UNCHANGED jobKnownVars,
           otaAgentState' = "Stopped" <=> otaAgentState = "Stopped",
           otaAgentState = "Stopped" => pc' = "receive",
           \/ pc # "parse" /\ pc' # "parse"
           \/ UNCHANGED <<pc, jobDocBuffer>>,
           \A k \in 1..Len(otaEventQueue') :
              otaEventQueue'[k].eventId = "RequestFileBlock" => blockBitmap # NoBitmap,
           pc' = "handle" /\ recvEvent'.eventId = "RequestFileBlock"
              => blockBitmap # NoBitmap,
           pc' = "send" /\ recvEvent'.eventId = "ReceivedJobDocument"
              => blockBitmap # NoBitmap
    PROVE  CInv'
<1> USE DEF jobKnownVars
<1>1. JobKnown' /\ ParsesAnother'
  BY DEF CInv, JobKnown, ParsesAnother
<1>2. ReportIsOfTheFile'
  BY DEF CInv, ReportIsOfTheFile, NoneMissing
<1>3. RequestsHaveBitmap'
  BY DEF RequestsHaveBitmap
<1> QED BY <1>1, <1>2, <1>3 DEF CInv

(* Receiving an event hands over what is known of it in the queue.         *)
LEMMA ReceiveEventCInv == IInv /\ CInv /\ ReceiveEvent => CInv'
<1> SUFFICES ASSUME IInv, CInv, ReceiveEvent PROVE CInv'
  OBVIOUS
<1>0. OtaReceiveEvent(recvEvent')
  BY DEF ReceiveEvent
<1>1. /\ Len(otaEventQueue') = Len(otaEventQueue) - 1
      /\ \A k \in 1..Len(otaEventQueue') : otaEventQueue'[k] = otaEventQueue[k + 1]
      /\ Len(otaEventQueue) > 0 /\ recvEvent' = otaEventQueue[1]
  BY <1>0, QueueReceive DEF IInv
<1>2. otaEventQueue \in Seq(OtaEvents)
  BY DEF IInv, TypeOK, QueueTypeOK
<1>3. /\ UNCHANGED jobKnownVars /\ UNCHANGED <<otaAgentState, jobDocBuffer>>
      /\ otaAgentState # "Stopped" /\ pc = "receive" /\ pc' = "handle"
  BY DEF ReceiveEvent, jobKnownVars, jobVars, progressVars, netVars
<1> HIDE DEF OtaReceiveEvent
<1>4. /\ recvEvent'.eventId = "RequestFileBlock" => blockBitmap # NoBitmap
      /\ \A k \in 1..Len(otaEventQueue') :
            otaEventQueue'[k].eventId = "RequestFileBlock" => blockBitmap # NoBitmap
  BY <1>1, <1>2 DEF CInv, RequestsHaveBitmap
<1> QED BY <1>3, <1>4, QuietCInv

(* The steps of T_OTA that leave the job alone and send nothing.           *)
LEMMA QuietOtaCInv ==
    ASSUME CInv,
           \/ RequestJobDocument \/ DropJobDocument \/ RequestFileBlock
           \/ RequestFileBlockWithoutBitmap \/ DropFileBlock \/ AssertFileBlockFits
           \/ Suspend \/ Resume \/ SetAgentState
    PROVE  CInv'
<1>1. CASE RequestFileBlockWithoutBitmap
  <2>1. /\ UNCHANGED jobKnownVars /\ UNCHANGED <<otaEventQueue, pc, recvEvent, jobDocBuffer>>
        /\ otaAgentState' = "RequestingFileBlock" /\ pc = "handle"
    BY <1>1, Zenon
       DEF RequestFileBlockWithoutBitmap, jobKnownVars, jobVars, progressVars, netVars
  <2> QED BY <2>1, QuietCInv DEF CInv, RequestsHaveBitmap, ReportIsOfTheFile
<1>2. CASE \/ RequestJobDocument \/ DropJobDocument \/ RequestFileBlock
           \/ DropFileBlock \/ AssertFileBlockFits \/ Suspend \/ Resume \/ SetAgentState
  <2> USE <1>2 DEF RequestJobDocument, DropJobDocument, RequestFileBlock, DropFileBlock,
          AssertFileBlockFits, Suspend, Resume, SetAgentState
  <2>1. UNCHANGED jobKnownVars /\ UNCHANGED <<otaEventQueue, jobDocBuffer>>
    BY DEF jobKnownVars, jobVars, progressVars, netVars
  <2>2. otaAgentState # "Stopped" /\ otaAgentState' # "Stopped"
    BY DEF CInv, ReportIsOfTheFile
  <2>3. /\ pc # "parse" /\ pc' # "parse"
        /\ pc' = "handle" /\ recvEvent'.eventId = "RequestFileBlock"
              => blockBitmap # NoBitmap
        /\ pc' = "send" => recvEvent'.eventId # "ReceivedJobDocument"
    BY DEF CInv, RequestsHaveBitmap
  <2> QED BY <2>1, <2>2, <2>3, QuietCInv DEF CInv, RequestsHaveBitmap
<1> QED BY <1>1, <1>2

(* The identifier becomes that of the document, with nothing of the one    *)
(* before it, or is that of the job at hand.                               *)
LEMMA IdentifyJobCInv == IdsReplace /\ IInv /\ FInv /\ CInv /\ IdentifyJob => CInv'
<1> SUFFICES ASSUME IdsReplace, IInv, FInv, CInv, IdentifyJob PROVE CInv'
  OBVIOUS
<1> DEFINE jobId == GetJobId(jobDocBuffer)
<1>1. /\ otaAgentState # "Stopped" /\ pc = "handle"
      /\ recvEvent.eventId = "ReceivedJobDocument"
      /\ UNCHANGED <<numOfBlocksRemaining, blockBitmap, stream, jobUpdate>>
      /\ UNCHANGED <<otaAgentState, otaEventQueue, recvEvent, jobDocBuffer>>
  BY DEF IdentifyJob, CInv, ReportIsOfTheFile, progressVars, netVars
<1>2. globalJobId = IF blockBitmap = NoBitmap THEN <<>> ELSE JobQueue[stream].id
  BY <1>1 DEF CInv, JobKnown
<1>3. CASE UNCHANGED globalJobId /\ jobId = <<>> /\ pc' = "setState"
  BY <1>1, <1>3, QuietCInv DEF CInv, RequestsHaveBitmap, jobKnownVars
<1>4. CASE /\ UNCHANGED globalJobId /\ jobId # <<>> /\ pc' = "send"
           /\ SameJobId(globalJobId, jobId)
  <2>1. jobId \in Seq(Nat)
    BY JobIdType DEF IInv, TypeOK, JobTypeOK, Ids
  <2>2. Len(jobId) > 0
    BY <1>4, <2>1
  <2>3. globalJobId # <<>>
    BY <1>4, <2>2 DEF SameJobId
  <2> QED BY <1>1, <1>2, <1>4, <2>3, QuietCInv DEF CInv, RequestsHaveBitmap, jobKnownVars
<1>5. CASE /\ jobId # <<>> /\ ~SameJobId(globalJobId, jobId) /\ pc' = "parse"
           /\ globalJobId' = CopyJobId(globalJobId, jobId)
  <2>1. jobDocBuffer \in Jobs /\ jobId = JobQueue[jobDocBuffer].id /\ jobId \in Seq(Nat)
    BY <1>5, JobType DEF IInv, TypeOK, JobTypeOK, GetJobId
  <2>2. globalJobId' = jobId
    <3>1. CASE blockBitmap = NoBitmap
      <4> HIDE DEF jobId
      <4>1. SubSeq(<<>>, Len(jobId) + 1, 0) = <<>>
        BY <2>1, SubSeqEmpty
      <4> QED BY <1>2, <1>5, <2>1, <3>1, <4>1, ConcatEmptySeq DEF CopyJobId
    <3>2. CASE blockBitmap # NoBitmap
      <4>1. stream \in Jobs
        BY <3>2 DEF FInv, FileOfStream
      <4> HIDE DEF Jobs
      <4> QED BY <1>2, <1>5, <2>1, <3>2, <4>1 DEF IdsReplace
    <3> QED BY <3>1, <3>2
  <2>3. JobKnown'
    BY <1>1, <1>5, <2>2 DEF JobKnown
  <2>4. ParsesAnother'
    <3>1. SameJobId(jobId, jobId)
      BY <2>1 DEF SameJobId
    <3> QED BY <1>1, <1>2, <1>5, <2>1, <3>1 DEF ParsesAnother
  <2>5. ReportIsOfTheFile' /\ RequestsHaveBitmap'
    BY <1>1, <1>5 DEF CInv, ReportIsOfTheFile, RequestsHaveBitmap
  <2> QED BY <2>3, <2>4, <2>5 DEF CInv
<1> QED BY <1>3, <1>4, <1>5 DEF IdentifyJob

(* The file that is parsed is that of the identified job.                  *)
LEMMA ParseJobDocumentCInv ==
    OtaJobsOnly /\ IInv /\ EInv /\ CInv /\ ParseJobDocument => CInv'
<1> SUFFICES ASSUME OtaJobsOnly, IInv, EInv, CInv, ParseJobDocument PROVE CInv'
  OBVIOUS
<1> DEFINE fields == ParsedFields(jobDocBuffer)
<1>1. /\ pc = "parse" /\ otaAgentState # "Stopped"
      /\ UNCHANGED <<otaAgentState, otaEventQueue, globalJobId, recvEvent, jobUpdate>>
      /\ recvEvent.eventId = "ReceivedJobDocument"
  BY DEF ParseJobDocument, CInv, ReportIsOfTheFile, IInv, ControlOK, netVars
<1>2. jobDocBuffer \in Jobs /\ jobDocBuffer # NoStream
  BY <1>1 DEF EInv, ParsesAJob, IInv, TypeOK, JobTypeOK, NoStream
<1>3. fields.handled /\ fields.imageRef = jobDocBuffer
  BY <1>2 DEF ParsedFields, OtaJobsOnly, NoStream
<1>4. globalJobId = JobQueue[jobDocBuffer].id
  BY <1>1, <1>2 DEF CInv, JobKnown, GetJobId, NoStream
<1> HIDE DEF fields
<1>5. stream' = jobDocBuffer /\ blockBitmap' = {} /\ pc' = "send"
  BY <1>2, <1>3 DEF ParseJobDocument, InitMqttDownloader, fields
<1>6. blockBitmap' # NoBitmap
  BY <1>5 DEF NoBitmap
<1>7. JobKnown' /\ ParsesAnother'
  BY <1>1, <1>4, <1>5, <1>6 DEF JobKnown, ParsesAnother
<1>8. ReportIsOfTheFile' /\ RequestsHaveBitmap'
  BY <1>1, <1>5, <1>6 DEF CInv, ReportIsOfTheFile, RequestsHaveBitmap
<1> QED BY <1>7, <1>8 DEF CInv

(* A block that is handled changes the bitmap at most.                     *)
LEMMA HandleFileBlockCInv == FInv' /\ IInv /\ CInv /\ HandleFileBlock => CInv'
<1> SUFFICES ASSUME FInv', IInv, CInv, HandleFileBlock PROVE CInv'
  OBVIOUS
<1>1. /\ otaAgentState # "Stopped" /\ pc = "handle" /\ pc' = "send"
      /\ recvEvent.eventId = "ReceivedFileBlock"
      /\ UNCHANGED <<otaAgentState, otaEventQueue, globalJobId, recvEvent, jobUpdate, stream>>
  BY DEF HandleFileBlock, HandleFileBlockAs, CInv, ReportIsOfTheFile, jobVars, netVars
<1>2. blockBitmap # NoBitmap
  BY <1>1, BlockAtHand
<1>3. blockBitmap' # NoBitmap
  BY <1>1 DEF FInv, ClosesComplete
<1>4. JobKnown' /\ ParsesAnother' /\ ReportIsOfTheFile' /\ RequestsHaveBitmap'
  BY <1>1, <1>2, <1>3
     DEF CInv, JobKnown, ParsesAnother, ReportIsOfTheFile, RequestsHaveBitmap
<1> QED BY <1>4 DEF CInv

(* The job that is reported is that of the complete file.                  *)
LEMMA CloseFileCInv == FInv /\ CInv /\ CloseFile => CInv'
<1> SUFFICES ASSUME FInv, CInv, CloseFile PROVE CInv'
  OBVIOUS
<1>1. NoneMissing /\ otaAgentState # "Stopped" /\ pc = "handle"
  BY DEF CloseFile, FInv, ClosesComplete, CInv, ReportIsOfTheFile
<1>2. /\ otaAgentState' = "Stopped" /\ pc' = "receive" /\ jobUpdate' = globalJobId
      /\ UNCHANGED <<numOfBlocksRemaining, blockBitmap, stream, otaEventQueue>>
  BY DEF CloseFile, PublishJobUpdate, progressVars
<1>3. globalJobId = JobQueue[stream].id
  BY <1>1 DEF CInv, JobKnown, NoneMissing
<1>4. JobKnown' /\ ParsesAnother' /\ ReportIsOfTheFile' /\ RequestsHaveBitmap'
  BY <1>1, <1>2, <1>3
     DEF CInv, JobKnown, ParsesAnother, ReportIsOfTheFile, RequestsHaveBitmap, NoneMissing
<1> QED BY <1>4 DEF CInv

(* An event is sent; a request for a block only with a bitmap.             *)
LEMMA SendCInv ==
    ASSUME IInv, CInv, NEW e \in OtaEvents, OtaSendEvent(e),
           e.eventId = "RequestFileBlock" => blockBitmap # NoBitmap
    PROVE  \A k \in 1..Len(otaEventQueue') :
              otaEventQueue'[k].eventId = "RequestFileBlock" => blockBitmap # NoBitmap
<1>1. Len(otaEventQueue) \in Nat
  BY DEF IInv, TypeOK, QueueTypeOK
<1>2. \/ otaEventQueue' = otaEventQueue
      \/ /\ Len(otaEventQueue') = Len(otaEventQueue) + 1
         /\ \A k \in 1..Len(otaEventQueue) : otaEventQueue'[k] = otaEventQueue[k]
         /\ otaEventQueue'[Len(otaEventQueue) + 1] = e
  BY QueueSend DEF IInv
<1> HIDE DEF OtaEvents, OtaSendEvent
<1> QED BY <1>1, <1>2 DEF CInv, RequestsHaveBitmap

(* The next block is asked for once the file is known.                     *)
LEMMA SendNextEventCInv == IInv /\ FInv /\ CInv /\ SendNextEvent => CInv'
<1> SUFFICES ASSUME IInv, FInv, CInv, SendNextEvent PROVE CInv'
  OBVIOUS
<1> DEFINE e == Event(NextEventId)
<1>1. /\ OtaSendEvent(e) /\ pc = "send" /\ pc' \in {"receive", "setState"}
      /\ UNCHANGED jobKnownVars /\ UNCHANGED otaAgentState
  BY DEF SendNextEvent, jobKnownVars, jobVars, progressVars, netVars
<1>2. e \in OtaEvents
  BY <1>1 DEF IInv, ControlOK, NextEventId
<1>3. e.eventId = "RequestFileBlock" => blockBitmap # NoBitmap
  BY <1>1 DEF IInv, ControlOK, NextEventId, FInv, ClosesComplete, CInv, RequestsHaveBitmap
<1>4. otaAgentState # "Stopped"
  BY <1>1 DEF CInv, ReportIsOfTheFile
<1> HIDE DEF e, OtaSendEvent
<1>5. \A k \in 1..Len(otaEventQueue') :
         otaEventQueue'[k].eventId = "RequestFileBlock" => blockBitmap # NoBitmap
  BY <1>1, <1>2, <1>3, SendCInv
<1> QED BY <1>1, <1>4, <1>5, QuietCInv

(* T_MQTT, T_SUSPEND and the service leave the job alone.                  *)
LEMMA OthersCInv ==
    ASSUME MqttIsPaced, IInv, EInv, CInv,
           MqttTask \/ SuspendTask \/ ServerNextJob \/ LoseReply
    PROVE  CInv'
<1>1. /\ UNCHANGED jobKnownVars /\ UNCHANGED <<otaAgentState, pc, recvEvent>>
      /\ pc = "receive" \/ UNCHANGED jobDocBuffer
  <2>1. CASE \E m : HandleDataBlockWithoutBuffer(m)
    BY <2>1, Zenon
       DEF HandleDataBlockWithoutBuffer, jobKnownVars, jobVars, progressVars
  <2>2. CASE \E m : HandleDataBlock(m) \/ IgnoreDataBlock(m)
    BY <2>2 DEF HandleDataBlock, IgnoreDataBlock, jobKnownVars, jobVars, progressVars
  <2>3. CASE ReceiveJobReply
    BY <2>3, WakesToNothing
       DEF ReceiveJobReply, HandleJobDocument, jobKnownVars, jobVars, progressVars
  <2>4. CASE SuspendTask \/ ServerNextJob \/ LoseReply
    BY <2>4 DEF SuspendTask, CheckSuspend, CheckResume, SuspendTaskVars, ServerNextJob,
       LoseReply, AgentVars, jobKnownVars, jobVars, progressVars, netVars
  <2> QED BY <2>1, <2>2, <2>3, <2>4 DEF MqttTask, ReceiveBlockReply
<1>2. \/ UNCHANGED otaEventQueue
      \/ \E e \in OtaEvents : OtaSendEvent(e) /\ e.eventId # "RequestFileBlock"
  <2> DEFINE ids == {"ReceivedJobDocument", "Suspend", "Resume"}
  <2>1. /\ \A id \in ids : Event(id) \in OtaEvents /\ Event(id).eventId # "RequestFileBlock"
        /\ \A i \in BufferIndices : /\ DataEvent(i) \in OtaEvents
                                    /\ DataEvent(i).eventId # "RequestFileBlock"
    OBVIOUS
  <2> HIDE DEF OtaSendEvent, OtaEvents, Event, DataEvent, BufferIndices
  <2>2. CASE ReceiveJobReply \/ SuspendTask \/ ServerNextJob \/ LoseReply
    BY <2>1, <2>2 DEF ReceiveJobReply, HandleJobDocument, SuspendTask, CheckSuspend,
                      CheckResume, ServerNextJob, LoseReply, AgentVars
  <2>3. CASE ReceiveBlockReply
    <3>1. UNCHANGED otaEventQueue \/ \E i \in BufferIndices : OtaSendEvent(DataEvent(i))
      BY <2>3, Zenon DEF ReceiveBlockReply, HandleDataBlock, HandleDataBlockWithoutBuffer,
                         IgnoreDataBlock
    <3> QED BY <2>1, <3>1
  <2> QED BY <2>2, <2>3 DEF MqttTask
<1>3. \A k \in 1..Len(otaEventQueue') :
         otaEventQueue'[k].eventId = "RequestFileBlock" => blockBitmap # NoBitmap
  <2> HIDE DEF OtaSendEvent, OtaEvents
  <2>1. CASE UNCHANGED otaEventQueue
    BY <2>1 DEF CInv, RequestsHaveBitmap
  <2> QED BY <1>2, <2>1, SendCInv
<1> QED BY <1>1, <1>3, QuietCInv DEF CInv, ReportIsOfTheFile, RequestsHaveBitmap

(* Every step of the system preserves what is known of the job.            *)
LEMMA NextCInv ==
    ASSUME MqttIsPaced, OtaJobsOnly, IdsReplace, IInv, EInv, FInv, FInv', CInv, [Next]_vars
    PROVE  CInv'
<1>1. CASE OtaTask
  BY <1>1, QuietOtaCInv, ReceiveEventCInv, IdentifyJobCInv, ParseJobDocumentCInv,
     HandleFileBlockCInv, CloseFileCInv, SendNextEventCInv DEF OtaTask
<1>2. CASE UNCHANGED vars
  <2>1. /\ UNCHANGED jobKnownVars
        /\ UNCHANGED <<otaEventQueue, otaAgentState, pc, recvEvent, jobDocBuffer>>
    BY <1>2 DEF vars, jobKnownVars, jobVars, progressVars, netVars
  <2> QED BY <2>1, QuietCInv DEF CInv, ReportIsOfTheFile, RequestsHaveBitmap
<1> QED BY <1>1, <1>2, OthersCInv DEF Next

(* So it holds throughout.                                                 *)
LEMMA SpecCInv == MqttIsPaced /\ OtaJobsOnly /\ IdsReplace /\ Spec => []CInv
<1> SUFFICES ASSUME MqttIsPaced, OtaJobsOnly, IdsReplace PROVE Spec => []CInv
  OBVIOUS
<1>1. IInv /\ EInv /\ FInv /\ FInv' /\ CInv /\ [Next]_vars => CInv'
  BY NextCInv
<1> QED BY <1>1, InitCInv, SpecIInv, SpecEInv, SpecFInv, PTL DEF Spec

(* With no block missing, every block of the file is marked.               *)
LEMMA AllMarked ==
    ASSUME IInv, RemainingCountsMissing, NoneMissing
    PROVE  blockBitmap = 0..(totalBlocks - 1)
<1>1. /\ totalBlocks \in Nat /\ blockBitmap \subseteq 0..(totalBlocks - 1)
      /\ totalBlocks - Cardinality(blockBitmap) = 0
  BY DEF IInv, TypeOK, JobTypeOK, RemainingCountsMissing, NoneMissing
<1> DEFINE T == 0..(totalBlocks - 1)
<1>2. IsFiniteSet(T) /\ Cardinality(T) = totalBlocks
  <2>1. \A n \in Nat : IsFiniteSet(0..(n - 1)) /\ Cardinality(0..(n - 1)) = n
    BY FS_Interval
  <2> QED BY <1>1, <2>1
<1>3. blockBitmap \subseteq T
  BY <1>1
<1> HIDE DEF T
<1>4. Cardinality(blockBitmap) \in Nat
  BY <1>2, <1>3, FS_Subset, FS_CardinalityType
<1>5. Cardinality(blockBitmap) = Cardinality(T)
  BY <1>1, <1>2, <1>4
<1> QED BY <1>2, <1>3, <1>5, FS_Subset DEF T

(* Whichever OTA jobs replace one another, whenever they do and whatever   *)
(* replies of theirs are still to come, finishDownload reports success     *)
(* only for the job whose last file has every decoded block in place.      *)
THEOREM SuccessAcrossJobs ==
    MqttIsPaced /\ OtaJobsOnly /\ IdsReplace /\ Spec => []SuccessMeansComplete
<1> SUFFICES ASSUME MqttIsPaced, OtaJobsOnly, IdsReplace PROVE Spec => []SuccessMeansComplete
  OBVIOUS
<1>1. IInv /\ FInv /\ CInv => SuccessMeansComplete
  <2> SUFFICES ASSUME IInv, FInv, CInv, jobUpdate # NoUpdate
               PROVE  /\ stream \in Jobs /\ JobQueue[stream].id = jobUpdate
                      /\ IsImageOf(stream)
    BY DEF SuccessMeansComplete
  <2>1. NoneMissing /\ jobUpdate = JobQueue[stream].id
    BY DEF CInv, ReportIsOfTheFile
  <2>2. /\ stream \in Jobs /\ JobQueue[stream].files # <<>>
        /\ currentFileId = LastFile(stream) - 1
        /\ totalBlocks = NumBlocks(JobQueue[stream].files[LastFile(stream)])
    BY <2>1 DEF FInv, FileOfStream, NoneMissing
  <2>3. LastFile(stream) \in Nat \ {0}
    <3>1. JobQueue[stream].files \in Seq(0..(UINT32_RANGE - 1))
      BY <2>2, JobType
    <3> QED BY <2>2, <3>1 DEF LastFile
  <2>4. \A b \in 0..(totalBlocks - 1) \ undecoded :
           /\ b \in DOMAIN downloadedData
           /\ downloadedData[b] = [job |-> stream, file |-> currentFileId, block |-> b]
    BY <2>1, AllMarked DEF FInv, MarkedBlocksAreOfTheFile, NoneMissing
  <2>5. LastFile(stream) - 1 >= 0 /\ (LastFile(stream) - 1) + 1 = LastFile(stream)
    BY <2>3
  <2> HIDE DEF Jobs
  <2>6. IsImageOf(stream)
    BY <2>2, <2>4, <2>5 DEF IsImageOf, LastFile
  <2> QED BY <2>1, <2>2, <2>6
<1>2. Spec => []CInv
  BY SpecCInv
<1>3. Spec => []IInv /\ []FInv
  BY SpecIInv, SpecFInv, PTL
<1> QED BY <1>1, <1>2, <1>3, PTL

(* And no bit is read through the null pointer: a request for a block      *)
(* follows a job document that was parsed, or a block of its file.         *)
THEOREM BitmapBeforeRequests ==
    MqttIsPaced /\ OtaJobsOnly /\ IdsReplace /\ Spec => []BlocksAreFoundInTheBitmap
<1> SUFFICES ASSUME MqttIsPaced, OtaJobsOnly, IdsReplace
             PROVE  Spec => []BlocksAreFoundInTheBitmap
  OBVIOUS
<1>1. CInv => BlocksAreFoundInTheBitmap
  BY DEF CInv, RequestsHaveBitmap, BlocksAreFoundInTheBitmap
<1>2. Spec => []CInv
  BY SpecCInv
<1> QED BY <1>1, <1>2, PTL

-----------------------------------------------------------------------------
(* The agent implements OtaDownloads.                                      *)

Received == {b \in blockBitmap \ NoBitmap : IsStored(b) \/ b \in undecoded}

CurrentJob == IF blockBitmap = NoBitmap THEN NoJob ELSE stream

(* What is marked is in place.                                             *)
LEMMA MarkedIsReceived ==
    IInv /\ FInv => Received = IF blockBitmap = NoBitmap THEN {} ELSE blockBitmap
<1> SUFFICES ASSUME IInv, FInv
             PROVE  Received = IF blockBitmap = NoBitmap THEN {} ELSE blockBitmap
  OBVIOUS
<1>1. CASE blockBitmap = NoBitmap
  BY <1>1 DEF Received
<1>2. CASE blockBitmap # NoBitmap
  <2>1. blockBitmap \in SUBSET Nat
    BY <1>2 DEF IInv, TypeOK, JobTypeOK
  <2>2. -1 \notin blockBitmap
    BY <2>1
  <2>3. \A b \in blockBitmap : IsStored(b) \/ b \in undecoded
    BY <1>2 DEF FInv, MarkedBlocksAreOfTheFile, IsStored
  <2> QED BY <1>2, <2>2, <2>3 DEF Received, NoBitmap
<1> QED BY <1>1, <1>2

(* The same of the next state.                                             *)
LEMMA MarkedIsReceivedNext ==
    IInv' /\ FInv' => Received' = (IF blockBitmap = NoBitmap THEN {} ELSE blockBitmap)'
<1>1. (IInv /\ FInv => Received = IF blockBitmap = NoBitmap THEN {} ELSE blockBitmap)'
  BY MarkedIsReceived, PTL
<1> QED BY <1>1

(* The blocks of the file that is being downloaded.                        *)
LEMMA BlocksOfTheFile ==
    ASSUME FInv, blockBitmap # NoBitmap
    PROVE  stream \in Jobs /\ FileBlocksOf(stream) = 0..(totalBlocks - 1)
BY DEF FInv, FileOfStream, FileBlocksOf, LastFile

(* A job's file, its identifier and what is in place are those of the      *)
(* abstract download.                                                      *)
LEMMA InitRefines == Init => Downloads!Init
BY DEF Init, Downloads!Init

(* A step that leaves the bitmap, the image, the file and the report alone *)
(* is a stuttering step of the downloads.                                  *)
LEMMA QuietDownloads ==
    ASSUME UNCHANGED fileVars, UNCHANGED jobUpdate
    PROVE  UNCHANGED Downloads!downloadsVars
BY DEF fileVars, Downloads!downloadsVars, IsStored

(* Parsing a document starts the download of another job.                  *)
LEMMA ParseRefines ==
    ASSUME OtaJobsOnly, IInv, EInv, FInv, CInv, ParseJobDocument
    PROVE  Downloads!Next
<1> DEFINE fields == ParsedFields(jobDocBuffer)
<1>1. pc = "parse" /\ jobUpdate = NoUpdate /\ UNCHANGED jobUpdate
  BY DEF ParseJobDocument, CInv, ReportIsOfTheFile, netVars
<1>2. jobDocBuffer \in Jobs /\ jobDocBuffer # NoJob
  BY <1>1 DEF EInv, ParsesAJob, IInv, TypeOK, JobTypeOK
<1>3. fields.handled /\ fields.imageRef = jobDocBuffer /\ jobDocBuffer # NoStream
  BY <1>2 DEF ParsedFields, OtaJobsOnly, NoStream
<1> HIDE DEF fields
<1>4. stream' = jobDocBuffer /\ blockBitmap' = {}
  BY <1>3 DEF ParseJobDocument, InitMqttDownloader, fields
<1>5. CurrentJob' = jobDocBuffer /\ Received' = {}
  BY <1>4 DEF CurrentJob, Received, NoBitmap
<1>6. jobDocBuffer # CurrentJob
  BY <1>1, <1>2 DEF CurrentJob, CInv, ParsesAnother
<1>7. jobUpdate = NoUpdate /\ UNCHANGED jobUpdate
  BY <1>1
<1> QED
  BY <1>2, <1>5, <1>6, <1>7
  DEF Downloads!Next, Downloads!StartDownload, CurrentJob, Received

(* Handling a block puts a missing one in place, or stutters.              *)
LEMMA StoreRefines ==
    ASSUME IInv, FInv, CInv, IInv', FInv', HandleFileBlock
    PROVE  Downloads!Next \/ UNCHANGED Downloads!downloadsVars
<1>1. jobUpdate = NoUpdate /\ UNCHANGED jobUpdate
  BY DEF HandleFileBlock, HandleFileBlockAs, CInv, ReportIsOfTheFile, netVars
<1>2. blockBitmap # NoBitmap /\ blockBitmap' # NoBitmap
  <2>1. Handling("ReceivedFileBlock")
    BY DEF HandleFileBlock, HandleFileBlockAs
  <2>2. pc' = "send" /\ recvEvent'.eventId = "ReceivedFileBlock"
    BY DEF HandleFileBlock, HandleFileBlockAs
  <2> QED BY <2>1, <2>2, BlockAtHand DEF FInv, ClosesComplete
<1>3. CASE UNCHANGED fileVars
  BY <1>1, <1>3, QuietDownloads
<1>4. ASSUME UNCHANGED stream, NEW b \in 0..(totalBlocks - 1),
             b \notin blockBitmap, blockBitmap' = blockBitmap \cup {b}
      PROVE  Downloads!Next
  <2>1. CurrentJob = stream /\ UNCHANGED CurrentJob
    BY <1>2, <1>4 DEF CurrentJob
  <2>2. Received = blockBitmap /\ Received' = Received \cup {b}
    BY <1>2, <1>4, MarkedIsReceived, MarkedIsReceivedNext
  <2>3. stream \in Jobs /\ b \in FileBlocksOf(stream) /\ stream # NoJob
    BY <1>2, <1>4, BlocksOfTheFile, JobQueueAssumption
  <2> HIDE DEF Jobs, NoJob
  <2>4. b \in [j \in Jobs |-> FileBlocksOf(j)][CurrentJob] \ Received
    BY <1>4, <2>1, <2>2, <2>3
  <2>5. Downloads!ReceiveBlock
    BY <1>1, <2>1, <2>2, <2>3, <2>4 DEF Downloads!ReceiveBlock, CurrentJob, Received
  <2> QED BY <2>5 DEF Downloads!Next
<1> QED BY <1>3, <1>4, StoreOneBlock

(* Closing the file reports the job, with every block in place.            *)
LEMMA CloseRefines ==
    ASSUME IInv, FInv, CInv, CloseFile
    PROVE  Downloads!FinishDownload
<1>1. NoneMissing /\ otaAgentState # "Stopped" /\ pc = "handle"
  BY DEF CloseFile, FInv, ClosesComplete, CInv, ReportIsOfTheFile
<1>2. jobUpdate = NoUpdate /\ jobUpdate' = globalJobId /\ UNCHANGED fileVars
  <2>1. jobUpdate = NoUpdate
    BY <1>1 DEF CInv, ReportIsOfTheFile
  <2> QED BY <1>1, <2>1 DEF CloseFile, PublishJobUpdate, progressVars, fileVars
<1>3. blockBitmap # NoBitmap /\ globalJobId = JobQueue[stream].id
  BY <1>1 DEF CInv, JobKnown, NoneMissing
<1>4. CurrentJob = stream /\ UNCHANGED <<CurrentJob, Received>>
  BY <1>2, <1>3 DEF CurrentJob, Received, IsStored, fileVars
<1>5. stream \in Jobs /\ stream # NoJob /\ Received = FileBlocksOf(stream)
  BY <1>1, <1>3, AllMarked, MarkedIsReceived, BlocksOfTheFile, JobQueueAssumption DEF FInv
<1> HIDE DEF Jobs, NoJob
<1>6. /\ [j \in Jobs |-> FileBlocksOf(j)][CurrentJob] = Received
      /\ [j \in Jobs |-> JobQueue[j].id][CurrentJob] = jobUpdate'
  BY <1>2, <1>3, <1>4, <1>5
<1> QED BY <1>2, <1>4, <1>5, <1>6 DEF Downloads!FinishDownload, CurrentJob, Received

(* Every other step of the system is a stuttering step of the downloads.   *)
LEMMA OthersQuiet ==
    ASSUME [Next]_vars, ~ParseJobDocument, ~HandleFileBlock, ~CloseFile
    PROVE  UNCHANGED fileVars /\ UNCHANGED jobUpdate
<1> USE DEF fileVars, jobVars, progressVars, netVars
<1>1. CASE UNCHANGED vars
  BY <1>1 DEF vars
<1>2. CASE RequestFileBlockWithoutBitmap
  BY <1>2, Zenon DEF RequestFileBlockWithoutBitmap
<1>3. CASE OtaTask /\ ~RequestFileBlockWithoutBitmap
  BY <1>3 DEF OtaTask, ReceiveEvent, RequestJobDocument, DropJobDocument, IdentifyJob,
     RequestFileBlock, DropFileBlock, AssertFileBlockFits, Suspend, Resume, SendNextEvent,
     SetAgentState
<1>4. CASE \E m : HandleDataBlockWithoutBuffer(m)
  BY <1>4, Zenon DEF HandleDataBlockWithoutBuffer
<1>5. CASE \/ ReceiveJobReply \/ \E m : HandleDataBlock(m) \/ IgnoreDataBlock(m)
           \/ SuspendTask \/ ServerNextJob \/ LoseReply
  BY <1>5 DEF ReceiveJobReply, HandleJobDocument, HandleDataBlock, IgnoreDataBlock, SuspendTask,
     CheckSuspend, CheckResume, SuspendTaskVars, ServerNextJob, LoseReply, AgentVars
<1> QED BY <1>1, <1>2, <1>3, <1>4, <1>5 DEF Next, MqttTask, ReceiveBlockReply

(* Every step of the agent is a step of the downloads or stutters.         *)
LEMMA StepRefines ==
    ASSUME OtaJobsOnly, IInv, EInv, FInv, CInv, IInv', FInv', [Next]_vars
    PROVE  [Downloads!Next]_(Downloads!downloadsVars)
<1>1. CASE ParseJobDocument
  BY <1>1, ParseRefines
<1>2. CASE HandleFileBlock
  BY <1>2, StoreRefines
<1>3. CASE CloseFile
  BY <1>3, CloseRefines DEF Downloads!Next
<1>4. CASE ~ParseJobDocument /\ ~HandleFileBlock /\ ~CloseFile
  BY <1>4, OthersQuiet, QuietDownloads
<1> QED BY <1>1, <1>2, <1>3, <1>4

(* OTA jobs that replace one another are downloaded as OtaDownloads says:  *)
(* a job that is polled again is not started over, no block is put in      *)
(* place twice, and one job is reported, once, with its file complete.     *)
THEOREM AgentImplementsDownloads ==
    MqttIsPaced /\ OtaJobsOnly /\ IdsReplace /\ Spec => ImplementsDownloads
<1> SUFFICES ASSUME MqttIsPaced, OtaJobsOnly, IdsReplace PROVE Spec => ImplementsDownloads
  OBVIOUS
<1>1. Init => Downloads!Init
  BY InitRefines
<1>2. IInv /\ EInv /\ FInv /\ CInv /\ IInv' /\ FInv' /\ [Next]_vars
         => [Downloads!Next]_(Downloads!downloadsVars)
  BY StepRefines
<1>3. Spec => []CInv
  BY SpecCInv
<1>4. Spec => []IInv /\ []EInv /\ []FInv
  BY SpecIInv, SpecEInv, SpecFInv, PTL
<1> QED BY <1>1, <1>2, <1>3, <1>4, PTL DEF Spec, ImplementsDownloads, Downloads!Spec
=============================================================================
