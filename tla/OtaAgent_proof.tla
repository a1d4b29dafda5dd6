---------------------------- MODULE OtaAgent_proof ----------------------------
(***************************************************************************)
(* Proofs about OtaAgent: for every queue of jobs, every size of the       *)
(* queue, the pool and the blocks, and every interleaving.                 *)
(***************************************************************************)
EXTENDS OtaAgent, OtaJobs_proof, FiniteSetTheorems

USE DEF OtaSendEvent, OtaReceiveEvent, GetOtaDataEventBuffer, FreeOtaDataEventBuffer,
        At, Handles, Handling, EndOfEvent, Event, DataEvent, OtherEvents, OtaEvents, Start,
        NoBuffer, BufferIndices, JobDocs, Jobs, NoJob

-----------------------------------------------------------------------------
(* Bags: the domain of a bag is the set of what it holds.                  *)

(* Publishing adds the requested replies to those in transit.              *)
LEMMA BagAddDomain ==
    ASSUME NEW B, NEW S PROVE DOMAIN (B (+) SetToBag(S)) = DOMAIN B \cup S
BY DEF (+), SetToBag

(* Receiving or losing a reply adds none.                                  *)
LEMMA BagSubDomain ==
    ASSUME NEW B, NEW S PROVE DOMAIN (B (-) SetToBag(S)) \subseteq DOMAIN B
BY DEF (-), SetToBag

(* Nothing is in transit at first.                                         *)
LEMMA EmptyBagDomain == DOMAIN EmptyBag = {}
BY DEF EmptyBag, SetToBag

-----------------------------------------------------------------------------
(* The queue: what a send and a receive leave in it.                       *)

(* A send appends the event or, to a full queue, loses it.                 *)
LEMMA QueueSend ==
    ASSUME TypeOK, NEW e \in OtaEvents, OtaSendEvent(e)
    PROVE  /\ otaEventQueue' \in Seq(OtaEvents)
           /\ Len(otaEventQueue') <= MaxMessages
           /\ \/ otaEventQueue' = otaEventQueue
              \/ /\ Len(otaEventQueue') = Len(otaEventQueue) + 1
                 /\ \A k \in 1..Len(otaEventQueue) : otaEventQueue'[k] = otaEventQueue[k]
                 /\ otaEventQueue'[Len(otaEventQueue) + 1] = e
<1> HIDE DEF OtaEvents
<1>1. otaEventQueue \in Seq(OtaEvents) /\ Len(otaEventQueue) <= MaxMessages
  BY DEF TypeOK, QueueTypeOK
<1>2. CASE Len(otaEventQueue) < MaxMessages
  BY <1>1, <1>2, AppendProperties, MaxMessagesAssumption
<1>3. CASE ~(Len(otaEventQueue) < MaxMessages)
  BY <1>1, <1>3
<1> QED BY <1>2, <1>3

(* A receive takes the first event and moves the others up.                *)
LEMMA QueueReceive ==
    ASSUME TypeOK, NEW e, OtaReceiveEvent(e)
    PROVE  /\ otaEventQueue' \in Seq(OtaEvents)
           /\ Len(otaEventQueue') = Len(otaEventQueue) - 1
           /\ \A k \in 1..Len(otaEventQueue') : otaEventQueue'[k] = otaEventQueue[k + 1]
           /\ Len(otaEventQueue) > 0 /\ e = otaEventQueue[1]
           /\ e \in OtaEvents
<1> HIDE DEF OtaEvents
<1>1. otaEventQueue \in Seq(OtaEvents) /\ otaEventQueue # <<>>
  BY DEF TypeOK, QueueTypeOK
<1> QED BY <1>1, HeadTailProperties, ElementOfSeq

-----------------------------------------------------------------------------
(* The inductive invariant of the queue, the pool and the replies.         *)

(* T_OTA sends an event only at the end of the three handlers that do.     *)
ControlOK ==
    /\ pc = "send" => recvEvent.eventId \in {"ReceivedJobDocument", "Resume", "ReceivedFileBlock"}
    /\ pc = "parse" => recvEvent.eventId = "ReceivedJobDocument"
    /\ pc = "handle" => recvEvent \in OtaEvents

(* The blocks in transit and in the pool are blocks of a file of some job. *)
RepliesServed ==
    /\ \A m \in DOMAIN blockReplies : IsServed(m)
    /\ \A i \in BufferIndices : dataBuffers[i] # Free => IsServed(dataBuffers[i])

(* A block is only accepted for a stream, which comes with a bitmap.       *)
StreamHasBitmap ==
    /\ stream # NoStream => blockBitmap # NoBitmap
    /\ \A i \in BufferIndices : dataBuffers[i] # Free => stream # NoStream

IInv == TypeOK /\ ControlOK /\ RepliesServed /\ StreamHasBitmap /\ BufferOwnership

(* BufferOwnership, event by event.                                        *)
EventOwnership ==
    /\ \A k \in 1..Len(otaEventQueue) :
          otaEventQueue[k].dataEvent # NoBuffer =>
             dataBuffers[otaEventQueue[k].dataEvent] # Free
    /\ \A k, l \in 1..Len(otaEventQueue) :
          /\ otaEventQueue[k].dataEvent = otaEventQueue[l].dataEvent
          /\ otaEventQueue[k].dataEvent # NoBuffer
          => k = l
    /\ Handling("ReceivedFileBlock") =>
          /\ dataBuffers[recvEvent.dataEvent] # Free
          /\ \A k \in 1..Len(otaEventQueue) :
               otaEventQueue[k].dataEvent # recvEvent.dataEvent

(* The two statements of buffer ownership say the same.                    *)
LEMMA Ownership == QueueTypeOK => (BufferOwnership <=> EventOwnership)
<1> SUFFICES ASSUME QueueTypeOK PROVE BufferOwnership <=> EventOwnership
  OBVIOUS
<1>1. DOMAIN otaEventQueue = 1..Len(otaEventQueue)
  BY DEF QueueTypeOK
<1>2. Handling("ReceivedFileBlock") => recvEvent.dataEvent # NoBuffer
  BY MaxBuffersAssumption DEF QueueTypeOK
<1> HIDE DEF Handling
<1> QED BY <1>1, <1>2 DEF BufferOwnership, QueuedBuffers, HeldBuffers, EventOwnership

(* They do so in the next state, too.                                      *)
LEMMA OwnershipNext == (QueueTypeOK => (BufferOwnership <=> EventOwnership))'
BY Ownership, PTL

(* The invariant holds in the state otaDemo_start leaves before its loop.  *)
LEMMA InitIInv == Init => IInv
<1> SUFFICES ASSUME Init PROVE IInv
  OBVIOUS
<1> USE DEF Init, OtaInitEvent, DataBuffersInit
<1>1. QueueTypeOK
  <2>1. otaEventQueue \in Seq(OtaEvents) /\ Len(otaEventQueue) = 1
    OBVIOUS
  <2> QED BY <2>1, MaxMessagesAssumption DEF QueueTypeOK
<1>2. TaskTypeOK
  BY DEF TaskTypeOK, OtaStates
<1>3. JobTypeOK
  <2>1. DOMAIN downloadedData = {} /\ globalJobId \in Ids
    BY DEF Ids
  <2>2. /\ numOfBlocksRemaining \in 0..(UINT32_RANGE - 1)
        /\ totalBlocks \in 0..(UINT32_RANGE - 1)
    BY UintAssumption
  <2>3. stream \in Streams /\ jobDocBuffer \in JobDocs
    BY DEF Streams, NoStream
  <2>4. \A b \in DOMAIN downloadedData : downloadedData[b] \in Blocks
    BY <2>1
  <2> QED BY <2>1, <2>2, <2>3, <2>4 DEF JobTypeOK
<1>4. NetTypeOK
  <2>1. serverJob \in JobDocs
    BY JobQueueAssumption
  <2> QED BY <2>1, EmptyBagDomain DEF NetTypeOK, Ids, NoUpdate
<1>5. ControlOK /\ RepliesServed /\ StreamHasBitmap
  BY EmptyBagDomain DEF ControlOK, RepliesServed, StreamHasBitmap
<1>6. BufferOwnership
  BY DEF BufferOwnership, QueuedBuffers, HeldBuffers
<1> QED BY <1>1, <1>2, <1>3, <1>4, <1>5, <1>6 DEF IInv, TypeOK

(* Receiving hands the buffer of a queued data event over to T_OTA.        *)
LEMMA ReceiveEventIInv == IInv /\ ReceiveEvent => IInv'
<1> SUFFICES ASSUME IInv, ReceiveEvent PROVE IInv'
  OBVIOUS
<1>0. OtaReceiveEvent(recvEvent')
  BY DEF ReceiveEvent
<1>q. /\ otaEventQueue' \in Seq(OtaEvents)
      /\ Len(otaEventQueue') = Len(otaEventQueue) - 1
      /\ \A k \in 1..Len(otaEventQueue') : otaEventQueue'[k] = otaEventQueue[k + 1]
      /\ Len(otaEventQueue) > 0 /\ recvEvent' = otaEventQueue[1]
      /\ recvEvent' \in OtaEvents
  BY <1>0, QueueReceive DEF IInv
<1> HIDE DEF OtaEvents, OtaReceiveEvent
<1>1. QueueTypeOK'
  BY <1>q, MaxMessagesAssumption DEF IInv, TypeOK, QueueTypeOK, ReceiveEvent
<1>2. TaskTypeOK' /\ JobTypeOK' /\ NetTypeOK'
  BY DEF IInv, TypeOK, TaskTypeOK, JobTypeOK, NetTypeOK, ReceiveEvent, jobVars, progressVars,
         netVars
<1>3. ControlOK' /\ RepliesServed' /\ StreamHasBitmap'
  BY <1>q DEF IInv, ControlOK, RepliesServed, StreamHasBitmap, ReceiveEvent, progressVars, netVars
<1>4. BufferOwnership'
  <2>0. QueueTypeOK /\ EventOwnership /\ otaEventQueue \in Seq(OtaEvents)
    BY Ownership DEF IInv, TypeOK, QueueTypeOK
  <2>1. \A k \in 1..Len(otaEventQueue') : k + 1 \in 1..Len(otaEventQueue) /\ k + 1 # 1
    BY <1>q, <2>0
  <2>2. 1 \in 1..Len(otaEventQueue) /\ UNCHANGED dataBuffers
    BY <1>q, <2>0 DEF ReceiveEvent
  <2>3. recvEvent'.eventId = "ReceivedFileBlock" => recvEvent'.dataEvent # NoBuffer
    BY <1>q, MaxBuffersAssumption DEF OtaEvents
  <2>4. \A k, l \in 1..Len(otaEventQueue') : k + 1 = l + 1 => k = l
    BY <1>q, <2>0
  <2>5. \A k \in 1..Len(otaEventQueue)' :
          otaEventQueue'[k].dataEvent # NoBuffer =>
             dataBuffers'[otaEventQueue'[k].dataEvent] # Free
    BY <1>q, <2>0, <2>1, <2>2 DEF EventOwnership
  <2>6. \A k, l \in 1..Len(otaEventQueue)' :
          /\ otaEventQueue'[k].dataEvent = otaEventQueue'[l].dataEvent
          /\ otaEventQueue'[k].dataEvent # NoBuffer
          => k = l
    BY <1>q, <2>0, <2>1, <2>4 DEF EventOwnership
  <2>7. recvEvent'.eventId = "ReceivedFileBlock" =>
          /\ dataBuffers'[recvEvent'.dataEvent] # Free
          /\ \A k \in 1..Len(otaEventQueue)' :
               otaEventQueue'[k].dataEvent # recvEvent'.dataEvent
    BY <1>q, <2>0, <2>1, <2>2, <2>3 DEF EventOwnership
  <2>8. EventOwnership'
    BY <2>5, <2>6, <2>7 DEF EventOwnership
  <2> QED BY <2>8, <1>1, OwnershipNext
<1> QED BY <1>1, <1>2, <1>3, <1>4 DEF IInv, TypeOK

(* The pool and the queue are left alone, and the event at hand is given   *)
(* up or kept.                                                             *)
LEMMA QuietOwnership ==
    ASSUME IInv, QueueTypeOK', UNCHANGED <<otaEventQueue, dataBuffers>>,
           pc' # "handle" \/ UNCHANGED <<pc, recvEvent>>
    PROVE  BufferOwnership'
<1>1. EventOwnership
  BY Ownership DEF IInv, TypeOK
<1>2. EventOwnership'
  BY <1>1 DEF EventOwnership
<1> QED BY <1>2, OwnershipNext

(* An event without a buffer is sent.                                      *)
LEMMA SendOwnership ==
    ASSUME IInv, NEW e \in OtaEvents, e.dataEvent = NoBuffer, OtaSendEvent(e),
           UNCHANGED dataBuffers,
           \/ pc' # "handle" /\ recvEvent' \in OtaEvents \cup {Start}
           \/ UNCHANGED <<pc, recvEvent>>
    PROVE  QueueTypeOK' /\ BufferOwnership'
<1>1. EventOwnership /\ QueueTypeOK
  BY Ownership DEF IInv, TypeOK
<1>q. /\ otaEventQueue' \in Seq(OtaEvents)
      /\ Len(otaEventQueue') <= MaxMessages
      /\ \/ otaEventQueue' = otaEventQueue
         \/ /\ Len(otaEventQueue') = Len(otaEventQueue) + 1
            /\ \A k \in 1..Len(otaEventQueue) : otaEventQueue'[k] = otaEventQueue[k]
            /\ otaEventQueue'[Len(otaEventQueue) + 1] = e
  BY QueueSend DEF IInv
<1> HIDE DEF OtaEvents, OtaSendEvent
<1>2. QueueTypeOK'
  BY <1>1, <1>q DEF QueueTypeOK
<1>3. CASE otaEventQueue' = otaEventQueue
  BY <1>3, <1>2, QuietOwnership
<1>4. CASE otaEventQueue' # otaEventQueue
  <2>1. \A k \in 1..Len(otaEventQueue') :
           \/ k \in 1..Len(otaEventQueue) /\ otaEventQueue'[k] = otaEventQueue[k]
           \/ otaEventQueue'[k].dataEvent = NoBuffer
    BY <1>1, <1>q, <1>4 DEF QueueTypeOK
  <2>2. Handling("ReceivedFileBlock")' => /\ Handling("ReceivedFileBlock")
                                         /\ recvEvent.dataEvent # NoBuffer
                                         /\ UNCHANGED recvEvent
    BY <1>1, MaxBuffersAssumption DEF QueueTypeOK, OtaEvents
  <2> HIDE DEF Handling
  <2>3. EventOwnership'
    BY <1>1, <2>1, <2>2 DEF EventOwnership
  <2> QED BY <2>3, <1>2, OwnershipNext
<1> QED BY <1>2, <1>3, <1>4

(* The buffer of the event at hand is freed, and the event is given up.    *)
LEMMA FreeOwnership ==
    ASSUME IInv, Handling("ReceivedFileBlock"), QueueTypeOK', UNCHANGED otaEventQueue,
           FreeOtaDataEventBuffer(recvEvent.dataEvent), pc' # "handle"
    PROVE  BufferOwnership'
<1>1. EventOwnership /\ QueueTypeOK
  BY Ownership DEF IInv, TypeOK
<1>2. EventOwnership'
  BY <1>1 DEF EventOwnership, QueueTypeOK
<1> QED BY <1>2, OwnershipNext

(* Publishing StartNext only adds a document in transit.                   *)
LEMMA RequestJobDocumentIInv == IInv /\ RequestJobDocument => IInv'
<1> SUFFICES ASSUME IInv, RequestJobDocument PROVE IInv'
  OBVIOUS
<1> USE DEF RequestJobDocument
<1>1. QueueTypeOK' /\ TaskTypeOK'
  BY DEF IInv, TypeOK, QueueTypeOK, TaskTypeOK, OtaStates, SuspendableStates
<1>2. JobTypeOK'
  BY DEF IInv, TypeOK, JobTypeOK, jobVars, progressVars
<1>3. NetTypeOK' /\ RepliesServed'
  <2>1. DOMAIN jobReplies' \subseteq DOMAIN jobReplies \cup {serverJob}
    BY BagAddDomain DEF PublishStartNext
  <2> QED BY <2>1 DEF IInv, TypeOK, NetTypeOK, RepliesServed
<1>4. ControlOK' /\ StreamHasBitmap'
  BY DEF IInv, ControlOK, StreamHasBitmap, progressVars
<1>5. BufferOwnership'
  BY <1>1, QuietOwnership
<1> QED BY <1>1, <1>2, <1>3, <1>4, <1>5 DEF IInv, TypeOK

(* A suspended agent drops the event and changes nothing else.             *)
LEMMA DropJobDocumentIInv == IInv /\ DropJobDocument => IInv'
<1> SUFFICES ASSUME IInv, DropJobDocument PROVE IInv'
  OBVIOUS
<1> USE DEF DropJobDocument
<1>1. QueueTypeOK' /\ TaskTypeOK'
  BY DEF IInv, TypeOK, QueueTypeOK, TaskTypeOK, OtaStates, SuspendableStates
<1>2. JobTypeOK'
  BY DEF IInv, TypeOK, JobTypeOK, jobVars, progressVars
<1>3. NetTypeOK' /\ RepliesServed'
  BY DEF IInv, TypeOK, NetTypeOK, RepliesServed, netVars
<1>4. ControlOK' /\ StreamHasBitmap'
  BY DEF IInv, ControlOK, StreamHasBitmap, progressVars
<1>5. BufferOwnership'
  BY <1>1, QuietOwnership
<1> QED BY <1>1, <1>2, <1>3, <1>4, <1>5 DEF IInv, TypeOK

(* Identifying a job changes the identifier at most.                       *)
LEMMA IdentifyJobIInv == IInv /\ IdentifyJob => IInv'
<1> SUFFICES ASSUME IInv, IdentifyJob PROVE IInv'
  OBVIOUS
<1> USE DEF IdentifyJob
<1>1. QueueTypeOK' /\ TaskTypeOK'
  BY DEF IInv, TypeOK, QueueTypeOK, TaskTypeOK, OtaStates, SuspendableStates
<1>2. JobTypeOK'
  BY JobIdType, CopyJobIdType
     DEF IInv, TypeOK, JobTypeOK, jobVars, progressVars
<1>3. NetTypeOK' /\ RepliesServed'
  BY DEF IInv, TypeOK, NetTypeOK, RepliesServed, netVars
<1>4. ControlOK' /\ StreamHasBitmap'
  BY DEF IInv, ControlOK, StreamHasBitmap, progressVars
<1>5. BufferOwnership'
  BY <1>1, QuietOwnership
<1> QED BY <1>1, <1>2, <1>3, <1>4, <1>5 DEF IInv, TypeOK

(* A parsed document brings a stream and a bitmap together.                *)
LEMMA ParseJobDocumentIInv == IInv /\ ParseJobDocument => IInv'
<1> SUFFICES ASSUME IInv, ParseJobDocument PROVE IInv'
  OBVIOUS
<1> USE DEF ParseJobDocument, InitMqttDownloader
<1>1. QueueTypeOK' /\ TaskTypeOK'
  BY DEF IInv, TypeOK, QueueTypeOK, TaskTypeOK, OtaStates, SuspendableStates
<1>2. JobTypeOK'
  <2>1. ParsedFields(jobDocBuffer).fileId \in Nat
    BY ParsedFieldsType DEF IInv, TypeOK, JobTypeOK
  <2>2. /\ NumBlocks(ParsedFields(jobDocBuffer).fileSize) \in 0..(UINT32_RANGE - 1)
        /\ ParsedFields(jobDocBuffer).imageRef \in Streams
    BY ParsedFieldsType DEF IInv, TypeOK, JobTypeOK
  <2>3. CASE ParsedFields(jobDocBuffer).handled
    <3>1. InitMqttDownloader(ParsedFields(jobDocBuffer))
      BY <2>3
    <3>2. UNCHANGED <<jobDocBuffer, globalJobId, downloadedData>>
      OBVIOUS
    <3>3. JobTypeOK
      BY DEF IInv, TypeOK
    <3> HIDE DEF ParseJobDocument
    <3> QED BY <2>1, <2>2, <3>1, <3>2, <3>3 DEF JobTypeOK
  <2>4. CASE ~ParsedFields(jobDocBuffer).handled
    BY <2>4 DEF IInv, TypeOK, JobTypeOK, progressVars
  <2> QED BY <2>3, <2>4
<1>3. NetTypeOK' /\ RepliesServed'
  BY DEF IInv, TypeOK, NetTypeOK, RepliesServed, netVars
<1>4. ControlOK' /\ StreamHasBitmap'
  BY DEF IInv, ControlOK, StreamHasBitmap, NoBitmap, progressVars
<1>5. BufferOwnership'
  BY <1>1, QuietOwnership
<1> QED BY <1>1, <1>2, <1>3, <1>4, <1>5 DEF IInv, TypeOK

(* Only served blocks of the current stream are put in transit.            *)
LEMMA RequestFileBlockIInv == IInv /\ RequestFileBlock => IInv'
<1> SUFFICES ASSUME IInv, RequestFileBlock PROVE IInv'
  OBVIOUS
<1> USE DEF RequestFileBlock
<1>1. QueueTypeOK' /\ TaskTypeOK'
  BY DEF IInv, TypeOK, QueueTypeOK, TaskTypeOK, OtaStates, SuspendableStates
<1>2. JobTypeOK'
  BY DEF IInv, TypeOK, JobTypeOK, jobVars, progressVars
<1>3. NetTypeOK' /\ RepliesServed'
  <2>1. \A m \in DOMAIN blockReplies' :
           m \in DOMAIN blockReplies \/ (m \in Blocks /\ IsServed(m))
    <3>1. PICK b \in Nat, c \in Nat : PublishGetStream(b, c)
      <4>1. totalBlocks \in Nat /\ NUM_OF_BLOCKS_REQUESTED \in Nat
        BY AgentAssumption DEF IInv, TypeOK, JobTypeOK
      <4> QED BY <4>1
    <3>2. DOMAIN blockReplies' \subseteq DOMAIN blockReplies \cup RequestedBlocks(b, c)
      BY <3>1, BagAddDomain DEF PublishGetStream
    <3>3. currentFileId \in Nat
      BY DEF IInv, TypeOK, JobTypeOK
    <3>4. \A m \in RequestedBlocks(b, c) : m \in Blocks /\ IsServed(m)
      BY <3>3 DEF RequestedBlocks, Blocks, IsServed
    <3> QED BY <3>2, <3>4
  <2>2. UNCHANGED <<serverJob, jobReplies, jobUpdate, dataBuffers>>
    OBVIOUS
  <2> QED BY <2>1, <2>2 DEF IInv, TypeOK, NetTypeOK, RepliesServed
<1>4. ControlOK' /\ StreamHasBitmap'
  BY DEF IInv, ControlOK, StreamHasBitmap, progressVars
<1>5. BufferOwnership'
  BY <1>1, QuietOwnership
<1> QED BY <1>1, <1>2, <1>3, <1>4, <1>5 DEF IInv, TypeOK

(* Reading the missing bitmap ends the process.                            *)
LEMMA RequestFileBlockWithoutBitmapIInv == IInv /\ RequestFileBlockWithoutBitmap => IInv'
<1> SUFFICES ASSUME IInv, RequestFileBlockWithoutBitmap PROVE IInv'
  OBVIOUS
<1> USE DEF RequestFileBlockWithoutBitmap
<1>1. QueueTypeOK' /\ TaskTypeOK'
  BY DEF IInv, TypeOK, QueueTypeOK, TaskTypeOK, OtaStates, SuspendableStates
<1>2. JobTypeOK'
  BY DEF IInv, TypeOK, JobTypeOK, jobVars, progressVars
<1>3. NetTypeOK' /\ RepliesServed'
  BY DEF IInv, TypeOK, NetTypeOK, RepliesServed, netVars
<1>4. ControlOK' /\ StreamHasBitmap'
  BY DEF IInv, ControlOK, StreamHasBitmap, progressVars
<1>5. BufferOwnership'
  BY <1>1, QuietOwnership
<1> QED BY <1>1, <1>2, <1>3, <1>4, <1>5 DEF IInv, TypeOK

(* A failing assertion ends the process.                                   *)
LEMMA AssertFileBlockFitsIInv == IInv /\ AssertFileBlockFits => IInv'
<1> SUFFICES ASSUME IInv, AssertFileBlockFits PROVE IInv'
  OBVIOUS
<1> USE DEF AssertFileBlockFits
<1>1. QueueTypeOK' /\ TaskTypeOK'
  BY DEF IInv, TypeOK, QueueTypeOK, TaskTypeOK, OtaStates, SuspendableStates
<1>2. JobTypeOK'
  BY DEF IInv, TypeOK, JobTypeOK, jobVars, progressVars
<1>3. NetTypeOK' /\ RepliesServed'
  BY DEF IInv, TypeOK, NetTypeOK, RepliesServed, netVars
<1>4. ControlOK' /\ StreamHasBitmap'
  BY DEF IInv, ControlOK, StreamHasBitmap, progressVars
<1>5. BufferOwnership'
  BY <1>1, QuietOwnership
<1> QED BY <1>1, <1>2, <1>3, <1>4, <1>5 DEF IInv, TypeOK

(* Closing the file reports the identifier and clears it.                  *)
LEMMA CloseFileIInv == IInv /\ CloseFile => IInv'
<1> SUFFICES ASSUME IInv, CloseFile PROVE IInv'
  OBVIOUS
<1> USE DEF CloseFile
<1>1. QueueTypeOK' /\ TaskTypeOK'
  BY DEF IInv, TypeOK, QueueTypeOK, TaskTypeOK, OtaStates, SuspendableStates
<1>2. JobTypeOK'
  BY DEF IInv, TypeOK, JobTypeOK, jobVars, progressVars, Ids
<1>3. NetTypeOK' /\ RepliesServed'
  BY DEF IInv, TypeOK, JobTypeOK, NetTypeOK, RepliesServed, PublishJobUpdate
<1>4. ControlOK' /\ StreamHasBitmap'
  BY DEF IInv, ControlOK, StreamHasBitmap, progressVars
<1>5. BufferOwnership'
  BY <1>1, QuietOwnership
<1> QED BY <1>1, <1>2, <1>3, <1>4, <1>5 DEF IInv, TypeOK

(* Suspending changes the state the other tasks see, only.                 *)
LEMMA SuspendIInv == IInv /\ Suspend => IInv'
<1> SUFFICES ASSUME IInv, Suspend PROVE IInv'
  OBVIOUS
<1> USE DEF Suspend
<1>1. QueueTypeOK' /\ TaskTypeOK'
  BY DEF IInv, TypeOK, QueueTypeOK, TaskTypeOK, OtaStates, SuspendableStates
<1>2. JobTypeOK'
  BY DEF IInv, TypeOK, JobTypeOK, jobVars, progressVars
<1>3. NetTypeOK' /\ RepliesServed'
  BY DEF IInv, TypeOK, NetTypeOK, RepliesServed, netVars
<1>4. ControlOK' /\ StreamHasBitmap'
  BY DEF IInv, ControlOK, StreamHasBitmap, progressVars
<1>5. BufferOwnership'
  BY <1>1, QuietOwnership
<1> QED BY <1>1, <1>2, <1>3, <1>4, <1>5 DEF IInv, TypeOK

(* So does resuming; its event is sent in a step of its own.               *)
LEMMA ResumeIInv == IInv /\ Resume => IInv'
<1> SUFFICES ASSUME IInv, Resume PROVE IInv'
  OBVIOUS
<1> USE DEF Resume
<1>1. QueueTypeOK' /\ TaskTypeOK'
  BY DEF IInv, TypeOK, QueueTypeOK, TaskTypeOK, OtaStates, SuspendableStates
<1>2. JobTypeOK'
  BY DEF IInv, TypeOK, JobTypeOK, jobVars, progressVars
<1>3. NetTypeOK' /\ RepliesServed'
  BY DEF IInv, TypeOK, NetTypeOK, RepliesServed, netVars
<1>4. ControlOK' /\ StreamHasBitmap'
  BY DEF IInv, ControlOK, StreamHasBitmap, progressVars
<1>5. BufferOwnership'
  BY <1>1, QuietOwnership
<1> QED BY <1>1, <1>2, <1>3, <1>4, <1>5 DEF IInv, TypeOK

(* The assignment that ends the job document cases.                        *)
LEMMA SetAgentStateIInv == IInv /\ SetAgentState => IInv'
<1> SUFFICES ASSUME IInv, SetAgentState PROVE IInv'
  OBVIOUS
<1> USE DEF SetAgentState
<1>1. QueueTypeOK' /\ TaskTypeOK'
  BY DEF IInv, TypeOK, QueueTypeOK, TaskTypeOK, OtaStates, SuspendableStates
<1>2. JobTypeOK'
  BY DEF IInv, TypeOK, JobTypeOK, jobVars, progressVars
<1>3. NetTypeOK' /\ RepliesServed'
  BY DEF IInv, TypeOK, NetTypeOK, RepliesServed, netVars
<1>4. ControlOK' /\ StreamHasBitmap'
  BY DEF IInv, ControlOK, StreamHasBitmap, progressVars
<1>5. BufferOwnership'
  BY <1>1, QuietOwnership
<1> QED BY <1>1, <1>2, <1>3, <1>4, <1>5 DEF IInv, TypeOK

(* The next event of a handler has no data buffer.                         *)
LEMMA SendNextEventIInv == IInv /\ SendNextEvent => IInv'
<1> SUFFICES ASSUME IInv, SendNextEvent PROVE IInv'
  OBVIOUS
<1> USE DEF SendNextEvent
<1>1. Event(NextEventId) \in OtaEvents /\ Event(NextEventId).dataEvent = NoBuffer
  BY DEF IInv, ControlOK, NextEventId
<1>2. recvEvent' \in OtaEvents \cup {Start} /\ pc' # "handle"
  BY DEF IInv, TypeOK, QueueTypeOK
<1>3. QueueTypeOK' /\ BufferOwnership'
  BY <1>1, <1>2, SendOwnership
<1>4. TaskTypeOK' /\ JobTypeOK' /\ NetTypeOK'
  BY DEF IInv, TypeOK, TaskTypeOK, JobTypeOK, NetTypeOK, jobVars, progressVars, netVars
<1>5. ControlOK' /\ RepliesServed' /\ StreamHasBitmap'
  BY DEF IInv, ControlOK, RepliesServed, StreamHasBitmap, progressVars, netVars
<1> QED BY <1>3, <1>4, <1>5 DEF IInv, TypeOK

(* A dropped block gives its buffer back.                                  *)
LEMMA DropFileBlockIInv == IInv /\ DropFileBlock => IInv'
<1> SUFFICES ASSUME IInv, DropFileBlock PROVE IInv'
  OBVIOUS
<1> USE DEF DropFileBlock
<1>1. QueueTypeOK' /\ TaskTypeOK'
  BY DEF IInv, TypeOK, QueueTypeOK, TaskTypeOK
<1>2. JobTypeOK' /\ NetTypeOK' /\ ControlOK'
  BY DEF IInv, TypeOK, JobTypeOK, NetTypeOK, ControlOK, jobVars, progressVars, netVars
<1>3. RepliesServed' /\ StreamHasBitmap'
  BY DEF IInv, TypeOK, QueueTypeOK, RepliesServed, StreamHasBitmap, progressVars, netVars
<1>4. BufferOwnership'
  BY <1>1, FreeOwnership
<1> QED BY <1>1, <1>2, <1>3, <1>4 DEF IInv, TypeOK

(* The event at hand owns a buffer with a served block in it.              *)
LEMMA BlockAtHand ==
    ASSUME IInv, Handling("ReceivedFileBlock")
    PROVE  /\ recvEvent.dataEvent \in BufferIndices
           /\ dataBuffers[recvEvent.dataEvent] \in Blocks
           /\ IsServed(dataBuffers[recvEvent.dataEvent])
           /\ blockBitmap # NoBitmap
<1>1. recvEvent \in OtaEvents /\ recvEvent.eventId = "ReceivedFileBlock"
  BY DEF IInv, ControlOK
<1>2. recvEvent.dataEvent \in BufferIndices
  BY <1>1
<1>3. dataBuffers[recvEvent.dataEvent] # Free
  BY Ownership DEF IInv, TypeOK, EventOwnership
<1> QED
  BY <1>2, <1>3 DEF IInv, TypeOK, QueueTypeOK, RepliesServed, StreamHasBitmap

(* The bitmap has a bit for every block.                                   *)
LEMMA BitOfBlock ==
    ASSUME totalBlocks \in Nat, NEW b \in 0..(totalBlocks - 1)
    PROVE  b < BitmapBits
<1>1. ASSUME NEW n \in Nat, NEW k \in Nat \ {0}
      PROVE  ((n + k - 1) \div k) * k >= n /\ ((n + k - 1) \div k) * k \in Nat
  OBVIOUS
<1>2. BitmapBits >= totalBlocks /\ BitmapBits \in Nat
  BY <1>1, AgentAssumption DEF BitmapBits
<1> QED BY <1>2

(* What a message is taken for: a block number and a length.               *)
LEMMA ReceivedType ==
    ASSUME NEW m \in Blocks, IsServed(m), NEW received \in ProcessReceivedDataBlock(m)
    PROVE  received.blockId \in Nat /\ received.length \in Nat
<1>1. m.block \in Nat /\ BlockLength(FileSize(m), m.block) \in Nat
  BY ServedLength DEF Blocks
<1>2. CASE received = [blockId |-> m.block, length |-> BlockLength(FileSize(m), m.block),
                       decoded |-> TRUE]
  BY <1>1, <1>2
<1>3. CASE \E b \in {0, m.block} : received = [blockId |-> b, length |-> 0, decoded |-> FALSE]
  BY <1>1, <1>3
<1> QED BY <1>2, <1>3 DEF ProcessReceivedDataBlock

(* A handled block gives its buffer back, and is stored at most once.      *)
LEMMA HandleFileBlockIInv == IInv /\ HandleFileBlock => IInv'
<1> SUFFICES ASSUME IInv, HandleFileBlock PROVE IInv'
  OBVIOUS
<1> USE DEF HandleFileBlock, HandleFileBlockAs
<1> DEFINE m == dataBuffers[recvEvent.dataEvent]
<1>1. QueueTypeOK' /\ TaskTypeOK'
  BY DEF IInv, TypeOK, QueueTypeOK, TaskTypeOK
<1>2. JobTypeOK'
  <2>1. m \in Blocks /\ IsServed(m) /\ blockBitmap \in SUBSET Nat
    BY BlockAtHand DEF IInv, TypeOK, JobTypeOK
  <2>2. UNCHANGED <<jobDocBuffer, globalJobId, currentFileId, totalBlocks, stream>>
    BY DEF jobVars
  <2>3. CASE UNCHANGED <<progressVars, downloadedData>>
    BY <2>2, <2>3 DEF IInv, TypeOK, JobTypeOK, progressVars
  <2>4. ASSUME NEW received \in ProcessReceivedDataBlock(m), StoreBlock(m, received)
        PROVE  JobTypeOK'
    <3>0. received.blockId \in Nat /\ received.length \in Nat
      BY <2>1, ReceivedType
    <3>1. numOfBlocksRemaining' \in 0..(UINT32_RANGE - 1) /\ totalBytesReceived' \in Nat
      BY <3>0, <2>4, UintAssumption DEF StoreBlock, IInv, TypeOK, JobTypeOK
    <3>2. blockBitmap' \in SUBSET Nat /\ undecoded' \in SUBSET Nat
      BY <2>1, <3>0, <2>4 DEF StoreBlock, MarkBlockDownloaded, IInv, TypeOK, JobTypeOK
    <3>3. /\ DOMAIN downloadedData' \subseteq Nat
          /\ \A b \in DOMAIN downloadedData' : downloadedData'[b] \in Blocks
      BY <2>1, <2>4 DEF StoreBlock, IInv, TypeOK, JobTypeOK, Blocks
    <3> QED BY <2>2, <3>1, <3>2, <3>3 DEF IInv, TypeOK, JobTypeOK
  <2> QED BY <2>3, <2>4
<1>3. NetTypeOK' /\ RepliesServed'
  BY DEF IInv, TypeOK, QueueTypeOK, NetTypeOK, RepliesServed, netVars
<1>4. ControlOK' /\ StreamHasBitmap'
  <2>1. blockBitmap' # NoBitmap
    <3>1. CASE UNCHANGED blockBitmap
      BY <3>1, BlockAtHand
    <3>2. ASSUME NEW received \in ProcessReceivedDataBlock(m), StoreBlock(m, received)
          PROVE  blockBitmap' # NoBitmap
      <4>1. received.blockId \in Nat /\ blockBitmap \in SUBSET Nat
        BY BlockAtHand, ReceivedType DEF IInv, TypeOK, JobTypeOK
      <4> QED BY <3>2, <4>1 DEF StoreBlock, MarkBlockDownloaded, NoBitmap
    <3> QED BY <3>1, <3>2 DEF progressVars
  <2> QED BY <2>1 DEF IInv, TypeOK, QueueTypeOK, ControlOK, StreamHasBitmap
<1>5. BufferOwnership'
  BY <1>1, FreeOwnership
<1> QED BY <1>1, <1>2, <1>3, <1>4, <1>5 DEF IInv, TypeOK

(* T_MQTT queues a job document.                                           *)
LEMMA HandleJobDocumentIInv == IInv /\ ReceiveJobReply => IInv'
<1> SUFFICES ASSUME IInv, NEW doc \in BagToSet(jobReplies), HandleJobDocument(doc) 
                PROVE  IInv'
  BY DEF ReceiveJobReply
<1> USE DEF HandleJobDocument
<1>1. QueueTypeOK' /\ BufferOwnership'
  BY SendOwnership, QuietOwnership DEF IInv, TypeOK, QueueTypeOK
<1>2. TaskTypeOK' /\ JobTypeOK' /\ NetTypeOK'
  BY BagSubDomain
     DEF IInv, TypeOK, TaskTypeOK, JobTypeOK, NetTypeOK, jobVars, progressVars, BagToSet
<1>3. ControlOK' /\ RepliesServed' /\ StreamHasBitmap'
  BY DEF IInv, ControlOK, RepliesServed, StreamHasBitmap, progressVars, netVars
<1> QED BY <1>1, <1>2, <1>3 DEF IInv, TypeOK

(* T_SUSPEND queues a Suspend event at most.                               *)
LEMMA CheckSuspendIInv == IInv /\ CheckSuspend => IInv'
<1> SUFFICES ASSUME IInv, CheckSuspend PROVE IInv'
  OBVIOUS
<1> USE DEF CheckSuspend, SuspendTaskVars
<1>1. QueueTypeOK' /\ BufferOwnership'
  BY SendOwnership, QuietOwnership DEF IInv, TypeOK, QueueTypeOK
<1>2. TaskTypeOK' /\ JobTypeOK' /\ NetTypeOK'
  BY DEF IInv, TypeOK, TaskTypeOK, JobTypeOK, NetTypeOK, jobVars, progressVars, netVars
<1>3. ControlOK' /\ RepliesServed' /\ StreamHasBitmap'
  BY DEF IInv, ControlOK, RepliesServed, StreamHasBitmap, progressVars, netVars
<1> QED BY <1>1, <1>2, <1>3 DEF IInv, TypeOK

(* T_SUSPEND queues a Resume event at most.                                *)
LEMMA CheckResumeIInv == IInv /\ CheckResume => IInv'
<1> SUFFICES ASSUME IInv, CheckResume PROVE IInv'
  OBVIOUS
<1> USE DEF CheckResume, SuspendTaskVars
<1>1. QueueTypeOK' /\ BufferOwnership'
  BY SendOwnership, QuietOwnership DEF IInv, TypeOK, QueueTypeOK
<1>2. TaskTypeOK' /\ JobTypeOK' /\ NetTypeOK'
  BY DEF IInv, TypeOK, TaskTypeOK, JobTypeOK, NetTypeOK, jobVars, progressVars, netVars
<1>3. ControlOK' /\ RepliesServed' /\ StreamHasBitmap'
  BY DEF IInv, ControlOK, RepliesServed, StreamHasBitmap, progressVars, netVars
<1> QED BY <1>1, <1>2, <1>3 DEF IInv, TypeOK

(* A block of the stream is put into a free buffer.                        *)
LEMMA HandleDataBlockIInv ==
    ASSUME IInv, NEW m \in BagToSet(blockReplies), HandleDataBlock(m)
    PROVE  IInv'
<1> USE DEF HandleDataBlock, TakeBlockReply
<1>0. m \in Blocks /\ IsServed(m) /\ m # Free /\ stream # NoStream
  BY AgentAssumption, JobQueueAssumption
     DEF IInv, TypeOK, NetTypeOK, RepliesServed, BagToSet, Blocks, NoStream
<1>1. PICK i \in BufferIndices : GetOtaDataEventBuffer(i, m) /\ OtaSendEvent(DataEvent(i))
  OBVIOUS
<1>2. EventOwnership /\ QueueTypeOK
  BY Ownership DEF IInv, TypeOK
<1>q. /\ otaEventQueue' \in Seq(OtaEvents)
      /\ Len(otaEventQueue') <= MaxMessages
      /\ \/ otaEventQueue' = otaEventQueue
         \/ /\ Len(otaEventQueue') = Len(otaEventQueue) + 1
            /\ \A k \in 1..Len(otaEventQueue) : otaEventQueue'[k] = otaEventQueue[k]
            /\ otaEventQueue'[Len(otaEventQueue) + 1] = DataEvent(i)
  BY <1>1, QueueSend DEF IInv
<1>3. QueueTypeOK'
  BY <1>0, <1>1, <1>2, <1>q DEF QueueTypeOK
<1>4. TaskTypeOK' /\ JobTypeOK' /\ NetTypeOK'
  BY BagSubDomain
     DEF IInv, TypeOK, TaskTypeOK, JobTypeOK, NetTypeOK, jobVars, progressVars
<1>5. ControlOK' /\ RepliesServed' /\ StreamHasBitmap'
  BY <1>0, <1>1, <1>2, BagSubDomain
     DEF IInv, ControlOK, RepliesServed, StreamHasBitmap, QueueTypeOK, progressVars
<1>6. EventOwnership'
  <2>1. dataBuffers[i] = Free /\ dataBuffers' = [dataBuffers EXCEPT ![i] = m]
    BY <1>1
  <2>0. i # NoBuffer
    BY MaxBuffersAssumption
  <2>2. \A k \in 1..Len(otaEventQueue) : otaEventQueue[k].dataEvent # i
    BY <1>2, <2>0, <2>1 DEF EventOwnership
  <2>3. Handling("ReceivedFileBlock") => recvEvent.dataEvent # i
    BY <1>2, <2>1 DEF EventOwnership
  <2>4. \A k \in 1..Len(otaEventQueue') :
           \/ k \in 1..Len(otaEventQueue) /\ otaEventQueue'[k] = otaEventQueue[k]
           \/ k = Len(otaEventQueue) + 1 /\ otaEventQueue'[k].dataEvent = i
    BY <1>q, <1>2 DEF QueueTypeOK
  <2>5. \A k \in BufferIndices : dataBuffers'[k] # Free <=> (k = i \/ dataBuffers[k] # Free)
    BY <1>0, <1>2, <2>1 DEF QueueTypeOK
  <2>6. \A k \in 1..Len(otaEventQueue') :
           otaEventQueue'[k].dataEvent \in BufferIndices \cup {NoBuffer}
    BY <1>3 DEF QueueTypeOK
  <2>7. UNCHANGED <<pc, recvEvent>>
    OBVIOUS
  <2>8. Handling("ReceivedFileBlock") => recvEvent.dataEvent \in BufferIndices
    BY <1>2 DEF QueueTypeOK
  <2> HIDE DEF BufferIndices
  <2>9. \A k \in 1..Len(otaEventQueue') :
          otaEventQueue'[k].dataEvent # NoBuffer =>
             dataBuffers'[otaEventQueue'[k].dataEvent] # Free
    BY <1>2, <2>4, <2>5, <2>6 DEF EventOwnership
  <2>10. \A k, l \in 1..Len(otaEventQueue') :
          /\ otaEventQueue'[k].dataEvent = otaEventQueue'[l].dataEvent
          /\ otaEventQueue'[k].dataEvent # NoBuffer
          => k = l
    BY <1>2, <2>0, <2>2, <2>4 DEF EventOwnership
  <2>11. Handling("ReceivedFileBlock") =>
          /\ dataBuffers'[recvEvent.dataEvent] # Free
          /\ \A k \in 1..Len(otaEventQueue') :
               otaEventQueue'[k].dataEvent # recvEvent.dataEvent
    BY <1>2, <2>3, <2>4, <2>5, <2>8 DEF EventOwnership
  <2> QED BY <2>7, <2>9, <2>10, <2>11 DEF EventOwnership
<1>7. BufferOwnership'
  BY <1>3, <1>6, OwnershipNext
<1> QED BY <1>3, <1>4, <1>5, <1>7 DEF IInv, TypeOK

(* Losing or ignoring a reply only takes it out of transit.                *)
LEMMA ReplyGoneIInv ==
    ASSUME IInv,
           UNCHANGED <<otaEventQueue, dataBuffers, otaAgentState, pc, recvEvent, jobDocBuffer,
                       jobVars, progressVars, downloadedData, stream, suspendPc, jobUpdate>>,
           halted' \in {halted, "null buffer"},
           serverJob' \in JobDocs,
           DOMAIN jobReplies' \subseteq DOMAIN jobReplies,
           DOMAIN blockReplies' \subseteq DOMAIN blockReplies
    PROVE  IInv'
<1>1. QueueTypeOK' /\ TaskTypeOK'
  BY DEF IInv, TypeOK, QueueTypeOK, TaskTypeOK
<1>2. JobTypeOK' /\ NetTypeOK'
  BY DEF IInv, TypeOK, JobTypeOK, NetTypeOK, jobVars, progressVars
<1>3. ControlOK' /\ RepliesServed' /\ StreamHasBitmap'
  BY DEF IInv, ControlOK, RepliesServed, StreamHasBitmap, progressVars
<1>4. BufferOwnership'
  BY <1>1, QuietOwnership
<1> QED BY <1>1, <1>2, <1>3, <1>4 DEF IInv, TypeOK

(* Every step of T_OTA preserves the invariant.                            *)
LEMMA OtaTaskIInv == IInv /\ OtaTask => IInv'
BY ReceiveEventIInv, RequestJobDocumentIInv, DropJobDocumentIInv, IdentifyJobIInv,
   ParseJobDocumentIInv, RequestFileBlockIInv, RequestFileBlockWithoutBitmapIInv,
   DropFileBlockIInv, HandleFileBlockIInv, AssertFileBlockFitsIInv, CloseFileIInv,
   SuspendIInv, ResumeIInv, SendNextEventIInv, SetAgentStateIInv
   DEF OtaTask

(* Every step of T_MQTT preserves the invariant.                           *)
LEMMA MqttTaskIInv == IInv /\ MqttTask => IInv'
<1> SUFFICES ASSUME IInv, MqttTask PROVE IInv'
  OBVIOUS
<1>1. CASE ReceiveJobReply
  BY <1>1, HandleJobDocumentIInv
<1>2. CASE ReceiveBlockReply
  <2> PICK m \in BagToSet(blockReplies) : \/ HandleDataBlock(m)
                                          \/ HandleDataBlockWithoutBuffer(m)
                                          \/ IgnoreDataBlock(m)
    BY <1>2 DEF ReceiveBlockReply
  <2>1. CASE HandleDataBlock(m)
    BY <2>1, HandleDataBlockIInv
  <2>2. CASE HandleDataBlockWithoutBuffer(m) \/ IgnoreDataBlock(m)
    <3>1. DOMAIN blockReplies' \subseteq DOMAIN blockReplies
      BY <2>2, BagSubDomain DEF HandleDataBlockWithoutBuffer, IgnoreDataBlock, TakeBlockReply
    <3>2. serverJob' \in JobDocs
      BY <2>2 DEF IInv, TypeOK, NetTypeOK, HandleDataBlockWithoutBuffer, IgnoreDataBlock
    <3> QED
      BY <2>2, <3>1, <3>2, ReplyGoneIInv DEF HandleDataBlockWithoutBuffer, IgnoreDataBlock
  <2> QED BY <2>1, <2>2
<1> QED BY <1>1, <1>2 DEF MqttTask

(* A step of the service or a lost reply preserves the invariant.          *)
LEMMA ServerIInv == IInv /\ (ServerNextJob \/ LoseReply) => IInv'
<1> SUFFICES ASSUME IInv, ServerNextJob \/ LoseReply PROVE IInv'
  OBVIOUS
<1>1. serverJob' \in JobDocs
  BY DEF ServerNextJob, LoseReply, IInv, TypeOK, NetTypeOK
<1>2. /\ DOMAIN jobReplies' \subseteq DOMAIN jobReplies
      /\ DOMAIN blockReplies' \subseteq DOMAIN blockReplies
  BY BagSubDomain DEF ServerNextJob, LoseReply, TakeBlockReply
<1> QED BY <1>1, <1>2, ReplyGoneIInv DEF ServerNextJob, LoseReply, AgentVars

(* Every step of the system preserves the invariant.                       *)
LEMMA NextIInv == IInv /\ [Next]_vars => IInv'
<1> SUFFICES ASSUME IInv, [Next]_vars PROVE IInv'
  OBVIOUS
<1>1. CASE OtaTask
  BY <1>1, OtaTaskIInv
<1>2. CASE MqttTask
  BY <1>2, MqttTaskIInv
<1>3. CASE SuspendTask
  BY <1>3, CheckSuspendIInv, CheckResumeIInv DEF SuspendTask
<1>4. CASE ServerNextJob \/ LoseReply
  BY <1>4, ServerIInv
<1>5. CASE UNCHANGED vars
  <2>1. serverJob' \in JobDocs
    BY <1>5 DEF IInv, TypeOK, NetTypeOK, vars, netVars
  <2> QED BY <1>5, <2>1, ReplyGoneIInv DEF vars, netVars
<1> QED BY <1>1, <1>2, <1>3, <1>4, <1>5 DEF Next

(* So the invariant holds throughout.                                      *)
LEMMA SpecIInv == Spec => []IInv
BY InitIInv, NextIInv, PTL DEF Spec

(* The agent's state, its queue, its pool and the messages in transit      *)
(* always have their types: a block that is handled is a block of a file,  *)
(* and no event is handled that no handler is for.                         *)
THEOREM TypeCorrect == Spec => []TypeOK
<1>1. IInv => TypeOK
  BY DEF IInv
<1> QED BY <1>1, SpecIInv, PTL

(* A data buffer is used by one event at most, from the moment T_MQTT      *)
(* takes it to the moment T_OTA frees it.                                  *)
THEOREM BuffersOwned == Spec => []BufferOwnership
<1>1. IInv => BufferOwnership
  BY DEF IInv
<1> QED BY <1>1, SpecIInv, PTL
=============================================================================
