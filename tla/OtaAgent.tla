------------------------------- MODULE OtaAgent -------------------------------
(***************************************************************************)
(* The OTA agent of demo/ota-Agent-Orchestrator and the three tasks that   *)
(* share it:                                                               *)
(*                                                                         *)
(*   T_OTA      priority 1, the loop of otaDemo_start over                 *)
(*              processOTAEvents (ota_demo.c);                             *)
(*   T_MQTT     priority 2, MQTT_ProcessLoop calling                       *)
(*              otaDemo_handleIncomingMQTTMessage for each message;        *)
(*   T_SUSPEND  priority 2, suspendResumeLoopTask (main.c).                *)
(*                                                                         *)
(* T_OTA can be preempted between any two of its steps; a handler of the   *)
(* two other tasks runs to its end before T_OTA moves again, so it is one  *)
(* action.  A T_OTA handler is cut where another task can see or change    *)
(* what it works on: at a send to the queue, at an assignment to           *)
(* otaAgentState that T_SUSPEND reads, and between the two readings of     *)
(* jobDocBuffer, which T_MQTT overwrites.                                  *)
(*                                                                         *)
(* T_MQTT and T_SUSPEND sleep for 10 ticks or more before each step.       *)
(* PacedTasks names those that are assumed to sleep until T_OTA has        *)
(* emptied its queue; nothing in the code makes them.                      *)
(*                                                                         *)
(* The MQTT connection, AWS IoT Jobs and the file-streams service are      *)
(* external: a request that is published puts its reply in transit, in     *)
(* any order with the others, and a reply may be lost (QoS 0).             *)
(***************************************************************************)
EXTENDS OtaJobs, OtaEventQueue, OtaDataBuffers, Bags, FiniteSets

CONSTANTS NUM_OF_BLOCKS_REQUESTED,
          BitsPerByte,           \* 8: blockBitmap is an array of bytes
          MaxInFlight,           \* bound: replies in transit, of either kind
          MayLose,               \* a reply may be lost in transit
          MayCancel,             \* the service may give up its current job
          MayCorrupt,            \* a data block may not decode
          PacedTasks             \* tasks that only wake when T_OTA waits

ASSUME AgentAssumption ==
    /\ NUM_OF_BLOCKS_REQUESTED \in Nat \ {0}
    /\ BitsPerByte \in Nat \ {0}
    /\ MaxInFlight \in Nat \ {0}
    /\ MayLose \in BOOLEAN
    /\ MayCancel \in BOOLEAN
    /\ MayCorrupt \in BOOLEAN
    /\ PacedTasks \subseteq {"T_MQTT", "T_SUSPEND"}
    /\ Free \notin Blocks

VARIABLES
    otaAgentState,         \* the state T_SUSPEND reads
    pc,                    \* where T_OTA is in processOTAEvents
    recvEvent,             \* the event T_OTA is processing
    jobDocBuffer,          \* the last start-next reply T_MQTT received
    globalJobId,
    currentFileId,
    numOfBlocksRemaining,
    totalBlocks,
    totalBytesReceived,
    blockBitmap,           \* the marked bits, or NoBitmap before the calloc
    downloadedData,        \* block position -> the block last written there
    undecoded,             \* history: blocks marked with nothing written
    stream,                \* mqttFileDownloaderContext: the stream's topics
    suspendPc,             \* where T_SUSPEND is in its loop
    serverJob,             \* external: the job the service would start next
    jobReplies,            \* external: start-next replies in transit
    blockReplies,          \* external: data blocks in transit
    jobUpdate,             \* external: the job id reported as Succeeded
    halted                 \* "no", or how the process was aborted

jobVars      == <<globalJobId, currentFileId, totalBlocks>>
progressVars == <<numOfBlocksRemaining, totalBytesReceived, blockBitmap, undecoded>>
netVars      == <<serverJob, jobReplies, blockReplies, jobUpdate>>

vars == <<otaEventQueue, dataBuffers, otaAgentState, pc, recvEvent, jobDocBuffer,
          jobVars, progressVars, downloadedData, stream, suspendPc, netVars, halted>>

NoBuffer == 0
NoUpdate == <<>>
NoBitmap == {-1}

OtherEvents == {"RequestJobDocument", "ReceivedJobDocument", "RequestFileBlock",
                "CloseFile", "Suspend", "Resume"}

Event(id)     == [eventId |-> id, dataEvent |-> NoBuffer]
DataEvent(i)  == [eventId |-> "ReceivedFileBlock", dataEvent |-> i]
OtaEvents     == {Event(id) : id \in OtherEvents} \cup {DataEvent(i) : i \in BufferIndices}
Start         == Event("Start")

(* The test of suspendResumeLoopTask: RequestingJob <= state < Suspended.  *)
SuspendableStates == {"RequestingJob", "CreatingFile", "RequestingFileBlock"}
OtaStates == SuspendableStates \cup {"Init", "Suspended", "Stopped"}

-----------------------------------------------------------------------------
(* The initial state is the one otaDemo_start leaves before its loop.      *)
Init ==
    /\ otaEventQueue = <<Event("RequestJobDocument")>>
    /\ DataBuffersInit
    /\ otaAgentState = "Init"
    /\ pc = "receive"
    /\ recvEvent = Start
    /\ jobDocBuffer = NoJob
    /\ globalJobId = <<>>
    /\ currentFileId = 0
    /\ numOfBlocksRemaining = 0
    /\ totalBlocks = 0
    /\ totalBytesReceived = 0
    /\ blockBitmap = NoBitmap
    /\ downloadedData = [b \in {} |-> NoJob]
    /\ undecoded = {}
    /\ stream = NoStream
    /\ suspendPc = "check"
    /\ serverJob = IF JobQueue = <<>> THEN NoJob ELSE 1
    /\ jobReplies = EmptyBag
    /\ blockReplies = EmptyBag
    /\ jobUpdate = NoUpdate
    /\ halted = "no"

-----------------------------------------------------------------------------
(* External: what mqttWrapper_publish sends out.  The bound MaxInFlight    *)
(* loses what would exceed it.                                             *)

(* Jobs_StartNext: the service answers with its next job.                  *)
PublishStartNext ==
    jobReplies' = IF BagCardinality(jobReplies) < MaxInFlight
                  THEN jobReplies (+) SetToBag({serverJob})
                  ELSE jobReplies

(* mqttDownloader_createGetDataBlockRequest for the blocks from first on:  *)
(* the service sends one message for each block it has.                    *)
RequestedBlocks(first, count) ==
    {m \in {[job |-> stream, file |-> currentFileId, block |-> b] :
               b \in first..(first + count - 1)} : IsServed(m)}

PublishGetStream(first, count) ==
    LET requested == RequestedBlocks(first, count) IN
    blockReplies' = IF BagCardinality(blockReplies) + count <= MaxInFlight
                    THEN blockReplies (+) SetToBag(requested)
                    ELSE blockReplies

(* Jobs_UpdateMsg( Succeeded ) on the topic of globalJobId.                *)
PublishJobUpdate == jobUpdate' = globalJobId

-----------------------------------------------------------------------------
(* The block bitmap.  It has a whole number of bytes; the value of a bit   *)
(* beyond them is whatever the memory holds (stray).                       *)

BitmapBits == ((totalBlocks + BitsPerByte - 1) \div BitsPerByte) * BitsPerByte

IsBlockNeeded(b, stray) == IF b < BitmapBits THEN b \notin blockBitmap ELSE stray

(* Mutant: the mark is not set.                                            *)
MarkNoBlock(b) == UNCHANGED blockBitmap

(* A mark beyond the bitmap changes memory that no bit stands for.         *)
MarkBlockDownloaded(b) ==
    blockBitmap' = IF b < BitmapBits THEN blockBitmap \cup {b} ELSE blockBitmap

(* Mutant: the search starts at block 1.                                   *)
IsNextBlockFromOne(b, stray) ==
    /\ b >= 1
    /\ \A k \in 1..(b - 1) : ~IsBlockNeeded(k, stray)
    /\ b <= totalBlocks => IsBlockNeeded(b, stray)

(* findNextBlockToRequest returns b: the loop runs to totalBlocks itself.  *)
IsNextBlockToRequest(b, stray) ==
    /\ \A k \in 0..(b - 1) : ~IsBlockNeeded(k, stray)
    /\ b <= totalBlocks => IsBlockNeeded(b, stray)

(* findSuccessiveBlocksToRequest(first) returns count.                     *)
CanRequest(b, stray) == b <= totalBlocks /\ IsBlockNeeded(b, stray)

AreSuccessiveBlocks(first, count, stray) ==
    /\ \A b \in first..(first + count - 1) : CanRequest(b, stray)
    /\ count < NUM_OF_BLOCKS_REQUESTED => ~CanRequest(first + count, stray)

-----------------------------------------------------------------------------
(* T_OTA: the loop of otaDemo_start and processOTAEvents.                  *)

Handling(id) == pc = "handle" /\ recvEvent.eventId = id

(* No task takes a step after an abort, which ends the process.            *)
At(label)   == halted = "no" /\ pc = label
Handles(id) == halted = "no" /\ Handling(id)

EndOfEvent == pc' = "receive" /\ recvEvent' = Start

ReceiveEvent ==
    /\ At("receive") /\ otaAgentState # "Stopped"
    /\ OtaReceiveEvent(recvEvent')
    /\ pc' = "handle"
    /\ UNCHANGED <<dataBuffers, otaAgentState, jobDocBuffer, jobVars, progressVars,
                   downloadedData, stream, suspendPc, netVars, halted>>

(* case OtaAgentEventRequestJobDocument, up to the assignment to the state *)
RequestJobDocument ==
    /\ Handles("RequestJobDocument")
    /\ PublishStartNext
    /\ pc' = "setState"
    /\ UNCHANGED <<otaEventQueue, dataBuffers, otaAgentState, recvEvent, jobDocBuffer,
                   jobVars, progressVars, downloadedData, stream, suspendPc,
                   serverJob, blockReplies, jobUpdate, halted>>

(* case OtaAgentEventReceivedJobDocument                                   *)
DropJobDocument ==
    /\ Handles("ReceivedJobDocument")
    /\ otaAgentState = "Suspended"
    /\ EndOfEvent
    /\ UNCHANGED <<otaEventQueue, dataBuffers, otaAgentState, jobDocBuffer, jobVars,
                   progressVars, downloadedData, stream, suspendPc, netVars, halted>>

(* receivedJobDocumentHandler up to its call of jobDocumentParser: a       *)
(* document of the job that is already known counts as handled.  Finding,  *)
(* comparing and copying the id are one step, as if the buffer were not    *)
(* overwritten among them; that needs T_MQTT to wake while T_OTA is busy.  *)
IdentifyJob ==
    /\ Handles("ReceivedJobDocument")
    /\ otaAgentState # "Suspended"
    /\ LET jobId == GetJobId(jobDocBuffer) IN
       \/ /\ jobId = <<>>
          /\ pc' = "setState"
          /\ UNCHANGED globalJobId
       \/ /\ jobId # <<>> /\ SameJobId(globalJobId, jobId)
          /\ pc' = "send"
          /\ UNCHANGED globalJobId
       \/ /\ jobId # <<>> /\ ~SameJobId(globalJobId, jobId)
          /\ globalJobId' = CopyJobId(globalJobId, jobId)
          /\ pc' = "parse"
    /\ UNCHANGED <<otaEventQueue, dataBuffers, otaAgentState, recvEvent, jobDocBuffer,
                   currentFileId, totalBlocks, progressVars, downloadedData, stream,
                   suspendPc, netVars, halted>>

(* Mutant: the bitmap of the job before stays in use.                      *)
InitMqttDownloaderKeepsBitmap(fields) ==
    /\ numOfBlocksRemaining' = NumBlocks(fields.fileSize)
    /\ totalBlocks' = NumBlocks(fields.fileSize)
    /\ currentFileId' = fields.fileId
    /\ totalBytesReceived' = 0
    /\ blockBitmap' = IF blockBitmap = NoBitmap THEN {} ELSE blockBitmap
    /\ undecoded' = {}
    /\ stream' = IF fields.imageRef = NoStream THEN stream ELSE fields.imageRef

(* Mutant: the bytes of the job before stay in the sum.                    *)
InitMqttDownloaderKeepsBytes(fields) ==
    /\ numOfBlocksRemaining' = NumBlocks(fields.fileSize)
    /\ totalBlocks' = NumBlocks(fields.fileSize)
    /\ currentFileId' = fields.fileId
    /\ blockBitmap' = {}
    /\ undecoded' = {}
    /\ stream' = IF fields.imageRef = NoStream THEN stream ELSE fields.imageRef
    /\ UNCHANGED totalBytesReceived

(* initMqttDownloader.  mqttDownloader_init refuses an empty stream name.  *)
InitMqttDownloader(fields) ==
    /\ numOfBlocksRemaining' = NumBlocks(fields.fileSize)
    /\ totalBlocks' = NumBlocks(fields.fileSize)
    /\ currentFileId' = fields.fileId
    /\ totalBytesReceived' = 0
    /\ blockBitmap' = {}
    /\ undecoded' = {}
    /\ stream' = IF fields.imageRef = NoStream THEN stream ELSE fields.imageRef

(* The parser reads jobDocBuffer again, with the bytes it holds by now.    *)
ParseJobDocument ==
    /\ At("parse")
    /\ LET fields == ParsedFields(jobDocBuffer) IN
       \/ /\ fields.handled
          /\ InitMqttDownloader(fields)
          /\ pc' = "send"
       \/ /\ ~fields.handled
          /\ pc' = "setState"
          /\ UNCHANGED <<currentFileId, totalBlocks, progressVars, stream>>
    /\ UNCHANGED <<otaEventQueue, dataBuffers, otaAgentState, recvEvent, jobDocBuffer,
                   globalJobId, downloadedData, suspendPc, netVars, halted>>

(* case OtaAgentEventRequestFileBlock.  With no bitmap the first bit is    *)
(* read through a null pointer.                                            *)
RequestFileBlock ==
    /\ Handles("RequestFileBlock")
    /\ blockBitmap # NoBitmap
    /\ otaAgentState' = "RequestingFileBlock"
    /\ \E stray \in BOOLEAN, startingBlock \in 0..(totalBlocks + 1),
          count \in 0..NUM_OF_BLOCKS_REQUESTED :
          /\ IsNextBlockToRequest(startingBlock, stray)
          /\ AreSuccessiveBlocks(startingBlock, count, stray)
          /\ PublishGetStream(startingBlock, count)
    /\ EndOfEvent
    /\ UNCHANGED <<otaEventQueue, dataBuffers, jobDocBuffer, jobVars, progressVars,
                   downloadedData, stream, suspendPc, serverJob, jobReplies, jobUpdate,
                   halted>>

RequestFileBlockWithoutBitmap ==
    /\ Handles("RequestFileBlock")
    /\ blockBitmap = NoBitmap
    /\ otaAgentState' = "RequestingFileBlock"
    /\ halted' = "null bitmap"
    /\ UNCHANGED <<otaEventQueue, dataBuffers, pc, recvEvent, jobDocBuffer, jobVars,
                   progressVars, downloadedData, stream, suspendPc, netVars>>

(* Mutant: the buffer of a dropped block is not freed.                     *)
DropFileBlockOnly ==
    /\ Handles("ReceivedFileBlock")
    /\ otaAgentState = "Suspended"
    /\ EndOfEvent
    /\ UNCHANGED <<otaEventQueue, dataBuffers, otaAgentState, jobDocBuffer, jobVars,
                   progressVars, downloadedData, stream, suspendPc, netVars, halted>>

(* case OtaAgentEventReceivedFileBlock, of a suspended agent               *)
DropFileBlock ==
    /\ Handles("ReceivedFileBlock")
    /\ otaAgentState = "Suspended"
    /\ FreeOtaDataEventBuffer(recvEvent.dataEvent)
    /\ EndOfEvent
    /\ UNCHANGED <<otaEventQueue, otaAgentState, jobDocBuffer, jobVars, progressVars,
                   downloadedData, stream, suspendPc, netVars, halted>>

(* External: what mqttDownloader_processReceivedDataBlock makes of a       *)
(* message.  Of one that does not decode it leaves no bytes, for block 0   *)
(* or for the block it names; its status is ignored.                       *)
ProcessReceivedDataBlock(m) ==
    {[blockId |-> m.block, length |-> BlockLength(FileSize(m), m.block), decoded |-> TRUE]}
    \cup {[blockId |-> b, length |-> 0, decoded |-> FALSE] :
             b \in IF MayCorrupt THEN {0, m.block} ELSE {}}

(* handleMqttStreamsBlockArrived: which file and stream the block is from  *)
(* is not looked at, and no bytes are stored like any others.              *)
StoreBlock(m, received) ==
    /\ \/ /\ received.decoded
          /\ downloadedData' = [b \in DOMAIN downloadedData \cup {m.block} |->
                                  IF b = m.block THEN m ELSE downloadedData[b]]
          /\ UNCHANGED undecoded
       \/ /\ ~received.decoded
          /\ undecoded' = undecoded \cup {received.blockId}
          /\ UNCHANGED downloadedData
    /\ totalBytesReceived' = totalBytesReceived + received.length
    /\ MarkBlockDownloaded(received.blockId)
    /\ numOfBlocksRemaining' = (numOfBlocksRemaining - 1) % UINT32_RANGE

(* Mutant: the block at hand is left out of the sum.                       *)
FitsBefore(length) == totalBytesReceived < CONFIG_MAX_FILE_SIZE

Fits(length) == totalBytesReceived + length < CONFIG_MAX_FILE_SIZE

HandleFileBlockAs(results) ==
    /\ Handles("ReceivedFileBlock")
    /\ otaAgentState # "Suspended"
    /\ \E received \in results, stray \in BOOLEAN :
          /\ Fits(received.length)
          /\ IF IsBlockNeeded(received.blockId, stray)
             THEN StoreBlock(dataBuffers[recvEvent.dataEvent], received)
             ELSE UNCHANGED <<progressVars, downloadedData>>
    /\ FreeOtaDataEventBuffer(recvEvent.dataEvent)
    /\ pc' = "send"
    /\ UNCHANGED <<otaEventQueue, otaAgentState, recvEvent, jobDocBuffer, jobVars, stream,
                   suspendPc, netVars, halted>>

HandleFileBlock ==
    HandleFileBlockAs(ProcessReceivedDataBlock(dataBuffers[recvEvent.dataEvent]))

HandleDecodedFileBlock ==
    HandleFileBlockAs({r \in ProcessReceivedDataBlock(dataBuffers[recvEvent.dataEvent]) :
                          r.decoded})

(* The assertion of handleMqttStreamsBlockArrived fails.                   *)
AssertFileBlockFits ==
    /\ Handles("ReceivedFileBlock")
    /\ otaAgentState # "Suspended"
    /\ \E received \in ProcessReceivedDataBlock(dataBuffers[recvEvent.dataEvent]) :
          ~Fits(received.length)
    /\ halted' = "assert"
    /\ UNCHANGED <<otaEventQueue, dataBuffers, otaAgentState, pc, recvEvent, jobDocBuffer,
                   jobVars, progressVars, downloadedData, stream, suspendPc, netVars>>

(* case OtaAgentEventCloseFile: finishDownload reports the job and clears  *)
(* the identifier; the loop of otaDemo_start ends.                         *)
CloseFile ==
    /\ Handles("CloseFile")
    /\ PublishJobUpdate
    /\ globalJobId' = <<>>
    /\ otaAgentState' = "Stopped"
    /\ EndOfEvent
    /\ UNCHANGED <<otaEventQueue, dataBuffers, jobDocBuffer, currentFileId, totalBlocks,
                   progressVars, downloadedData, stream, suspendPc, serverJob, jobReplies,
                   blockReplies, halted>>

(* case OtaAgentEventSuspend                                               *)
Suspend ==
    /\ Handles("Suspend")
    /\ otaAgentState' = "Suspended"
    /\ EndOfEvent
    /\ UNCHANGED <<otaEventQueue, dataBuffers, jobDocBuffer, jobVars, progressVars,
                   downloadedData, stream, suspendPc, netVars, halted>>

(* Mutant: a resumed agent asks for nothing.                               *)
ResumeOnly ==
    /\ Handles("Resume")
    /\ otaAgentState' = "RequestingJob"
    /\ EndOfEvent
    /\ UNCHANGED <<otaEventQueue, dataBuffers, jobDocBuffer, jobVars, progressVars,
                   downloadedData, stream, suspendPc, netVars, halted>>

(* case OtaAgentEventResume, up to its send                                *)
Resume ==
    /\ Handles("Resume")
    /\ otaAgentState' = "RequestingJob"
    /\ pc' = "send"
    /\ UNCHANGED <<otaEventQueue, dataBuffers, recvEvent, jobDocBuffer, jobVars,
                   progressVars, downloadedData, stream, suspendPc, netVars, halted>>

(* Mutant: the file is closed one block early.                             *)
NextEventIdClosesEarly ==
    CASE recvEvent.eventId = "ReceivedJobDocument" -> "RequestFileBlock"
      [] recvEvent.eventId = "Resume"              -> "RequestJobDocument"
      [] recvEvent.eventId = "ReceivedFileBlock"   ->
            IF numOfBlocksRemaining <= 1 THEN "CloseFile" ELSE "RequestFileBlock"

(* Mutant: a resumed agent goes on with the blocks at once.                *)
NextEventIdAsksForBlock ==
    CASE recvEvent.eventId \in {"ReceivedJobDocument", "Resume"} -> "RequestFileBlock"
      [] recvEvent.eventId = "ReceivedFileBlock" ->
            IF numOfBlocksRemaining = 0 THEN "CloseFile" ELSE "RequestFileBlock"

(* The event a handler sends when it is done: nextEvent.                   *)
NextEventId ==
    CASE recvEvent.eventId = "ReceivedJobDocument" -> "RequestFileBlock"
      [] recvEvent.eventId = "Resume"              -> "RequestJobDocument"
      [] recvEvent.eventId = "ReceivedFileBlock"   ->
            IF numOfBlocksRemaining = 0 THEN "CloseFile" ELSE "RequestFileBlock"

SendNextEvent ==
    /\ At("send")
    /\ OtaSendEvent(Event(NextEventId))
    /\ IF recvEvent.eventId = "ReceivedJobDocument"
       THEN pc' = "setState" /\ UNCHANGED recvEvent
       ELSE EndOfEvent
    /\ UNCHANGED <<dataBuffers, otaAgentState, jobDocBuffer, jobVars, progressVars,
                   downloadedData, stream, suspendPc, netVars, halted>>

(* The assignment to otaAgentState that ends the two job document cases.   *)
SetAgentState ==
    /\ At("setState")
    /\ otaAgentState' = IF recvEvent.eventId = "RequestJobDocument"
                        THEN "RequestingJob" ELSE "CreatingFile"
    /\ EndOfEvent
    /\ UNCHANGED <<otaEventQueue, dataBuffers, jobDocBuffer, jobVars, progressVars,
                   downloadedData, stream, suspendPc, netVars, halted>>

OtaTask ==
    \/ ReceiveEvent
    \/ RequestJobDocument
    \/ DropJobDocument \/ IdentifyJob \/ ParseJobDocument
    \/ RequestFileBlock \/ RequestFileBlockWithoutBitmap
    \/ DropFileBlock \/ HandleFileBlock \/ AssertFileBlockFits
    \/ CloseFile
    \/ Suspend \/ Resume
    \/ SendNextEvent \/ SetAgentState

-----------------------------------------------------------------------------
OtaTaskWaits == otaEventQueue = <<>> /\ pc = "receive"

Wakes(task) == /\ halted = "no"
               /\ task \in PacedTasks => OtaTaskWaits

-----------------------------------------------------------------------------
(* T_MQTT: otaDemo_handleIncomingMQTTMessage.                              *)

(* A start-next reply overwrites the one job document buffer.              *)
HandleJobDocument(doc) ==
    /\ Wakes("T_MQTT")
    /\ BagIn(doc, jobReplies)
    /\ jobReplies' = jobReplies (-) SetToBag({doc})
    /\ jobDocBuffer' = doc
    /\ OtaSendEvent(Event("ReceivedJobDocument"))
    /\ UNCHANGED <<dataBuffers, otaAgentState, pc, recvEvent, jobVars, progressVars,
                   downloadedData, stream, suspendPc, serverJob, blockReplies, jobUpdate,
                   halted>>

TakeBlockReply(m) ==
    /\ Wakes("T_MQTT")
    /\ BagIn(m, blockReplies)
    /\ blockReplies' = blockReplies (-) SetToBag({m})

(* mqttDownloader_isDataBlockReceived: the topic is that of the stream.    *)
HandleDataBlock(m) ==
    /\ TakeBlockReply(m)
    /\ m.job = stream
    /\ \E i \in BufferIndices : /\ GetOtaDataEventBuffer(i, m)
                                /\ OtaSendEvent(DataEvent(i))
    /\ UNCHANGED <<otaAgentState, pc, recvEvent, jobDocBuffer, jobVars, progressVars,
                   downloadedData, stream, suspendPc, serverJob, jobReplies, jobUpdate,
                   halted>>

(* No buffer is free: the message is copied through a null pointer.        *)
HandleDataBlockWithoutBuffer(m) ==
    /\ TakeBlockReply(m)
    /\ m.job = stream
    /\ ~HasFreeBuffer
    /\ halted' = "null buffer"
    /\ UNCHANGED <<otaEventQueue, dataBuffers, otaAgentState, pc, recvEvent, jobDocBuffer,
                   jobVars, progressVars, downloadedData, stream, suspendPc, serverJob,
                   jobReplies, jobUpdate>>

(* A block of another stream is not handled.                               *)
IgnoreDataBlock(m) ==
    /\ TakeBlockReply(m)
    /\ m.job # stream
    /\ UNCHANGED <<otaEventQueue, dataBuffers, otaAgentState, pc, recvEvent, jobDocBuffer,
                   jobVars, progressVars, downloadedData, stream, suspendPc, serverJob,
                   jobReplies, jobUpdate, halted>>

ReceiveJobReply == \E doc \in BagToSet(jobReplies) : HandleJobDocument(doc)

ReceiveBlockReply == \E m \in BagToSet(blockReplies) : \/ HandleDataBlock(m)
                                                      \/ HandleDataBlockWithoutBuffer(m)
                                                      \/ IgnoreDataBlock(m)

MqttTask == ReceiveJobReply \/ ReceiveBlockReply

-----------------------------------------------------------------------------
(* T_SUSPEND: suspendResumeLoopTask.                                       *)

SuspendTaskVars == <<dataBuffers, otaAgentState, pc, recvEvent, jobDocBuffer, jobVars,
                     progressVars, downloadedData, stream, netVars, halted>>

CheckSuspend ==
    /\ Wakes("T_SUSPEND")
    /\ suspendPc = "check"
    /\ suspendPc' = "resume"
    /\ IF otaAgentState \in SuspendableStates
       THEN OtaSendEvent(Event("Suspend"))
       ELSE UNCHANGED otaEventQueue
    /\ UNCHANGED SuspendTaskVars

CheckResume ==
    /\ Wakes("T_SUSPEND")
    /\ suspendPc = "resume"
    /\ suspendPc' = "check"
    /\ IF otaAgentState = "Suspended"
       THEN OtaSendEvent(Event("Resume"))
       ELSE UNCHANGED otaEventQueue
    /\ UNCHANGED SuspendTaskVars

SuspendTask == CheckSuspend \/ CheckResume

-----------------------------------------------------------------------------
(* External: the service's next job changes (the job at hand is cancelled  *)
(* or times out), and a reply is lost instead of being received.           *)

AgentVars == <<otaEventQueue, dataBuffers, otaAgentState, pc, recvEvent, jobDocBuffer,
               jobVars, progressVars, downloadedData, stream, suspendPc, jobUpdate, halted>>

ServerNextJob ==
    /\ MayCancel /\ halted = "no"
    /\ serverJob # NoJob
    /\ serverJob' = IF serverJob + 1 \in Jobs THEN serverJob + 1 ELSE NoJob
    /\ UNCHANGED <<AgentVars, jobReplies, blockReplies>>

LoseReply ==
    /\ MayLose /\ Wakes("T_MQTT")
    /\ \/ /\ \E doc \in BagToSet(jobReplies) : jobReplies' = jobReplies (-) SetToBag({doc})
          /\ UNCHANGED blockReplies
       \/ /\ \E m \in BagToSet(blockReplies) : TakeBlockReply(m)
          /\ UNCHANGED jobReplies
    /\ UNCHANGED <<AgentVars, serverJob>>

-----------------------------------------------------------------------------
Next == OtaTask \/ MqttTask \/ SuspendTask \/ ServerNextJob \/ LoseReply

Spec == Init /\ [][Next]_vars

(* Every task is scheduled again and again.  Replies, when they keep being *)
(* sent, now and then reach the agent while it is neither suspended nor    *)
(* about to be, and now and then one of a block decodes.                   *)
SuspendPending == \/ otaAgentState = "Suspended" \/ recvEvent.eventId = "Suspend"
                  \/ \E k \in DOMAIN otaEventQueue : otaEventQueue[k].eventId = "Suspend"

Fairness == /\ WF_vars(OtaTask)
            /\ WF_vars(MqttTask)
            /\ WF_vars(SuspendTask)
            /\ SF_vars(~SuspendPending /\ ReceiveJobReply)
            /\ SF_vars(~SuspendPending /\ ReceiveBlockReply)
            /\ SF_vars(HandleDecodedFileBlock)

FairSpec == Spec /\ Fairness

-----------------------------------------------------------------------------
(* Properties.                                                             *)

QueueTypeOK ==
    /\ otaEventQueue \in Seq(OtaEvents)
    /\ Len(otaEventQueue) <= MaxMessages
    /\ recvEvent \in OtaEvents \cup {Start}
    /\ dataBuffers \in [BufferIndices -> Blocks \cup {Free}]

TaskTypeOK ==
    /\ otaAgentState \in OtaStates
    /\ pc \in {"receive", "handle", "parse", "send", "setState"}
    /\ suspendPc \in {"check", "resume"}
    /\ halted \in {"no", "null bitmap", "null buffer", "assert"}

JobTypeOK ==
    /\ jobDocBuffer \in JobDocs
    /\ globalJobId \in Ids
    /\ currentFileId \in Nat
    /\ numOfBlocksRemaining \in 0..(UINT32_RANGE - 1)
    /\ totalBlocks \in 0..(UINT32_RANGE - 1)
    /\ totalBytesReceived \in Nat
    /\ blockBitmap \in (SUBSET Nat) \cup {NoBitmap}
    /\ DOMAIN downloadedData \subseteq Nat
    /\ \A b \in DOMAIN downloadedData : downloadedData[b] \in Blocks
    /\ undecoded \in SUBSET Nat
    /\ stream \in Streams

NetTypeOK ==
    /\ serverJob \in JobDocs
    /\ DOMAIN jobReplies \subseteq JobDocs
    /\ DOMAIN blockReplies \subseteq Blocks
    /\ jobUpdate \in Ids

(* Type invariant of the agent's state, the queue, the pool and the        *)
(* messages in transit.                                                    *)
TypeOK == QueueTypeOK /\ TaskTypeOK /\ JobTypeOK /\ NetTypeOK

(* The buffers the agent still has a reference to: one for each queued     *)
(* data event, and the one of the event that is being handled.             *)
QueuedBuffers == {otaEventQueue[k].dataEvent : k \in DOMAIN otaEventQueue} \ {NoBuffer}

HeldBuffers == IF Handling("ReceivedFileBlock") THEN {recvEvent.dataEvent} ELSE {}

(* A buffer that a queued or a handled event points to is in use, and by   *)
(* that event alone: T_MQTT never copies a message over one that T_OTA has *)
(* yet to read, and T_OTA never frees a buffer another event points to.    *)
BufferOwnership ==
    /\ \A i \in QueuedBuffers \cup HeldBuffers : dataBuffers[i] # Free
    /\ QueuedBuffers \cap HeldBuffers = {}
    /\ \A k, l \in DOMAIN otaEventQueue :
          /\ otaEventQueue[k].dataEvent = otaEventQueue[l].dataEvent
          /\ otaEventQueue[k].dataEvent # NoBuffer
          => k = l

(* A used buffer is one that an event yet to be handled points to: with    *)
(* T_MQTT paced no buffer is lost with an event that the queue refused.    *)
BuffersAreReferenced ==
    \A i \in BufferIndices : dataBuffers[i] # Free => i \in QueuedBuffers \cup HeldBuffers

(* So T_MQTT finds a free buffer for every data block: none is copied      *)
(* through the null pointer that getOtaDataEventBuffer returns otherwise.  *)
NeverOutOfBuffers == halted # "null buffer"

(* The service has one OTA job, of one file.                               *)
SingleOtaJob == Len(JobQueue) = 1 /\ Len(JobQueue[1].files) = 1

(* The blocks of the current file still to be marked in the bitmap are as  *)
(* many as numOfBlocksRemaining says, however often a block is requested,  *)
(* delivered twice, dropped while suspended, or lost.                      *)
RemainingCountsMissing ==
    blockBitmap # NoBitmap =>
        /\ blockBitmap \subseteq 0..(totalBlocks - 1)
        /\ numOfBlocksRemaining = totalBlocks - Cardinality(blockBitmap)

IsImageOf(j) ==
    LET file == Len(JobQueue[j].files) - 1 IN
    /\ file >= 0
    /\ \A b \in 0..(NumBlocks(JobQueue[j].files[file + 1]) - 1) \ undecoded :
          /\ b \in DOMAIN downloadedData
          /\ downloadedData[b] = [job |-> j, file |-> file, block |-> b]

(* The agent reports success for a job only if every block of the job's    *)
(* file is in downloadedData, at its place; but for those whose message    *)
(* did not decode, of which the code, ignoring the status, has no record.  *)
SuccessMeansComplete ==
    jobUpdate # NoUpdate => \E j \in Jobs : JobQueue[j].id = jobUpdate /\ IsImageOf(j)

(* What the bitmap says is downloaded is in downloadedData, and is of the  *)
(* file that is being downloaded, if its message decoded: a block of an    *)
(* earlier job's stream never counts for the job that replaced it.         *)
MarkedBlocksAreOfTheFile ==
    blockBitmap # NoBitmap =>
        \A b \in blockBitmap \ undecoded :
            /\ b \in DOMAIN downloadedData
            /\ downloadedData[b] = [job |-> stream, file |-> currentFileId, block |-> b]

(* No block is copied past the end of downloadedData, whatever size the    *)
(* job document announces.                                                 *)
WriteInBounds ==
    \A b \in DOMAIN downloadedData :
        b * BLOCK_SIZE + BlockLength(FileSize(downloadedData[b]), b) <= CONFIG_MAX_FILE_SIZE

(* The download as the job's owner sees it: the blocks in place are those  *)
(* of the first job's file, and only ever grow; the job is closed once,    *)
(* when they are all there.  A block that did not decode counts as one     *)
(* that is in place: it is not asked for again.                            *)
Phase == CASE otaAgentState = "Stopped" -> "done"
           [] otaAgentState # "Stopped" /\ blockBitmap = NoBitmap -> "waiting"
           [] otaAgentState # "Stopped" /\ blockBitmap # NoBitmap -> "downloading"

BlocksInPlace == {b \in DOMAIN downloadedData :
                    downloadedData[b] = [job |-> 1, file |-> 0, block |-> b]}

Download == INSTANCE OtaDownload WITH
                FileBlocks <- 0..(NumBlocks(JobQueue[1].files[1]) - 1),
                phase      <- Phase,
                received   <- BlocksInPlace \cup undecoded

ImplementsDownload == Download!Spec

(* The downloads of jobs that replace one another.  The file of a job is   *)
(* the last one it lists, and a block is in place if it is marked and is   *)
(* stored there, or did not decode.  A job that is known already is not    *)
(* started over, however often its document is received.                   *)
FileBlocksOf(j) == LET files == JobQueue[j].files IN
                   IF files = <<>> THEN {} ELSE 0..(NumBlocks(files[Len(files)]) - 1)

IsStored(b) == /\ b \in DOMAIN downloadedData
               /\ downloadedData[b] = [job |-> stream, file |-> currentFileId, block |-> b]

Downloads == INSTANCE OtaDownloads WITH
                 Jobs        <- Jobs,
                 NoJob       <- NoJob,
                 FileBlocks  <- [j \in Jobs |-> FileBlocksOf(j)],
                 JobIds      <- [j \in Jobs |-> JobQueue[j].id],
                 NotReported <- NoUpdate,
                 job         <- IF blockBitmap = NoBitmap THEN NoJob ELSE stream,
                 received    <- {b \in blockBitmap \ NoBitmap : IsStored(b) \/ b \in undecoded},
                 reported    <- jobUpdate

ImplementsDownloads == Downloads!Spec

(* The block to request is found in the bitmap: no block is requested      *)
(* before a job document has been parsed and the bitmap allocated.         *)
BlocksAreFoundInTheBitmap == Handling("RequestFileBlock") => blockBitmap # NoBitmap

(* The assertion of handleMqttStreamsBlockArrived holds: a file that the   *)
(* image has room for is downloaded without running into it.               *)
AssertionHolds == halted # "assert"

(* It fails only for a file that comes within a block of the limit: what   *)
(* arrives twice is counted once more at most, and what arrived of earlier *)
(* jobs is not counted at all.                                             *)
AssertsOnlyNearTheLimit ==
    halted = "assert" => (totalBlocks + 1) * BLOCK_SIZE >= CONFIG_MAX_FILE_SIZE

(* A suspended agent leaves that state for the event Resume alone.         *)
ResumedOnlyByResume ==
    [][otaAgentState = "Suspended" =>
         otaAgentState' \in {"Suspended", "Stopped"} \/ Handling("Resume")]_vars

(* A job that the service does not give up is downloaded and closed,       *)
(* however many replies are lost or dropped on the way.                    *)
DownloadCompletes == <>(otaAgentState = "Stopped" \/ serverJob = NoJob)

(* Until it stops, the agent asks for a job again and again: a lost reply, *)
(* an empty reply or a dropped document never leaves it idle for good.     *)
KeepsPolling == []<>(otaAgentState = "Stopped" \/ Handling("RequestJobDocument"))

(* A buffer that T_MQTT took is free again some time later, also when its  *)
(* block is dropped or not needed: the pool does not run dry.              *)
BuffersAreFreed ==
    \A i \in BufferIndices :
        dataBuffers[i] # Free ~> (dataBuffers[i] = Free \/ otaAgentState = "Stopped")
=============================================================================
