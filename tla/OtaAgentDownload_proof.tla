------------------------ MODULE OtaAgentDownload_proof ------------------------
(***************************************************************************)
(* Proofs about OtaAgent with one OTA job of one file: the count of the    *)
(* missing blocks is right, success is only reported for a complete image, *)
(* and the agent implements OtaDownload.  The size of the file, of the     *)
(* queue and of the pool, and the interleaving, are arbitrary; replies may *)
(* be lost and the job may be cancelled.                                   *)
(***************************************************************************)
EXTENDS OtaAgent_proof

USE DEF OtaSendEvent, OtaReceiveEvent, GetOtaDataEventBuffer, FreeOtaDataEventBuffer,
        At, Handles, Handling, EndOfEvent, Event, DataEvent, OtherEvents, OtaEvents, Start,
        NoBuffer, BufferIndices, JobDocs, Jobs, NoJob

Id == JobQueue[1].id
Size == JobQueue[1].files[1]
N == NumBlocks(Size)
BlockAt(b) == [job |-> 1, file |-> 0, block |-> b]

(* The blocks that count as in place: stored, or marked without a byte.    *)
Counted == DOMAIN downloadedData \cup undecoded

(* The identifier is known as soon as the job is, until it is closed.      *)
JobKnown ==
    /\ otaAgentState # "Stopped" => globalJobId \in {<<>>, Id}
    /\ otaAgentState # "Stopped" /\ globalJobId = <<>> => blockBitmap = NoBitmap
    /\ pc = "parse" => blockBitmap = NoBitmap /\ globalJobId = Id
    /\ otaAgentState = "Stopped" => pc = "receive"

(* Until the job is known nothing is stored; a document without a job that *)
(* replaced the job's own before it was parsed leaves a file of no blocks. *)
FileKnown ==
    /\ blockBitmap = NoBitmap => stream = NoStream /\ Counted = {}
    /\ blockBitmap # NoBitmap /\ stream = NoStream => totalBlocks = 0
    /\ stream # NoStream => totalBlocks = N

(* The marked blocks are those that count as in place, each stored block   *)
(* is the one that belongs there, and the count is that of the others.     *)
StoredMarked ==
    /\ blockBitmap # NoBitmap =>
         /\ blockBitmap = Counted
         /\ blockBitmap \subseteq 0..(totalBlocks - 1)
         /\ numOfBlocksRemaining = totalBlocks - Cardinality(blockBitmap)
    /\ \A b \in DOMAIN downloadedData : downloadedData[b] = BlockAt(b)

Complete == stream # NoStream /\ blockBitmap # NoBitmap /\ numOfBlocksRemaining = 0

(* The file is only closed when no block is missing.                       *)
ClosesComplete ==
    /\ \A k \in 1..Len(otaEventQueue) : otaEventQueue[k].eventId = "CloseFile" => Complete
    /\ recvEvent.eventId = "CloseFile" => Complete
    /\ pc = "send" /\ recvEvent.eventId = "ReceivedFileBlock" => stream # NoStream
    /\ otaAgentState = "Stopped" => Complete
    /\ jobUpdate # NoUpdate => jobUpdate = Id /\ Complete

DInv == JobKnown /\ FileKnown /\ StoredMarked /\ ClosesComplete

-----------------------------------------------------------------------------
(* Facts about the one job.                                                *)

(* The constants of the one job have their types, and its file is not too  *)
(* large for a 32-bit number of blocks.                                    *)
LEMMA OneJob ==
    ASSUME SingleOtaJob
    PROVE  /\ Jobs = {1} /\ JobDocs = {0, 1} /\ Streams = {0, 1}
           /\ Id \in Seq(Nat) /\ Id # <<>>
           /\ Size \in Nat /\ N \in 0..(UINT32_RANGE - 1)
<1>1. Jobs = {1}
  BY JobQueueAssumption DEF SingleOtaJob
<1>2. /\ Id \in Seq(Nat)
      /\ JobQueue[1].files \in Seq(0..(UINT32_RANGE - 1))
  BY <1>1, JobType DEF Id
<1>3. Id # <<>>
  BY <1>1, JobQueueAssumption DEF Id
<1>4. Size \in 0..(UINT32_RANGE - 1)
  <2>1. 1 \in 1..Len(JobQueue[1].files)
    BY DEF SingleOtaJob
  <2> QED BY <1>2, <2>1, ElementOfSeq DEF Size
<1>5. N \in 0..(UINT32_RANGE - 1)
  BY <1>4, NumBlocksType, UintAssumption DEF N
<1> QED BY <1>1, <1>2, <1>3, <1>4, <1>5, UintAssumption DEF Streams, NoStream

(* Every block in transit or in the pool is a block of the one file.       *)
LEMMA OneFile ==
    ASSUME SingleOtaJob, NEW m \in Blocks, IsServed(m)
    PROVE  m = BlockAt(m.block) /\ m.block \in 0..(N - 1) /\ FileSize(m) = Size
<1>1. m.job = 1 /\ m.file \in Nat /\ m.block \in Nat
  BY OneJob DEF Blocks
<1>2. JobQueue[1].files \in Seq(0..(UINT32_RANGE - 1))
  BY OneJob, JobType
<1>3. m.file = 0
  BY <1>1, <1>2 DEF IsServed, SingleOtaJob
<1>4. FileSize(m) = Size
  BY <1>1, <1>3 DEF FileSize, Size
<1>5. m.block \in 0..(N - 1)
  BY <1>1, <1>4, OneJob DEF IsServed, N
<1>6. m = BlockAt(m.block)
  BY <1>1, <1>3 DEF Blocks, BlockAt
<1> QED BY <1>4, <1>5, <1>6

(* The identifier is copied whole into the empty buffer.                   *)
LEMMA FirstCopy ==
    ASSUME SingleOtaJob
    PROVE  /\ CopyJobId(<<>>, Id) = Id
           /\ ~SameJobId(<<>>, Id)
           /\ SameJobId(Id, Id)
<1>1. Id \in Seq(Nat) /\ Len(Id) > 0
  BY OneJob
<1>2. SubSeq(<<>>, Len(Id) + 1, 0) = <<>>
  BY <1>1, SubSeqEmpty
<1>3. Id \o <<>> = Id
  BY <1>1, ConcatEmptySeq
<1> QED BY <1>1, <1>2, <1>3 DEF CopyJobId, SameJobId

-----------------------------------------------------------------------------

(* At first the agent knows neither job nor file.                          *)
LEMMA InitDInv == SingleOtaJob /\ Init => DInv
BY DEF Init, OtaInitEvent, DInv, JobKnown, FileKnown, StoredMarked, ClosesComplete, NoUpdate,
       Counted

(* A step that leaves the download alone, neither stops the agent nor      *)
(* starts to parse, and sends or takes CloseFile only when it may.         *)
LEMMA QuietDInv ==
    ASSUME DInv,
           UNCHANGED <<globalJobId, totalBlocks, numOfBlocksRemaining, blockBitmap,
                       downloadedData, undecoded, stream, jobUpdate>>,
           otaAgentState' = "Stopped" <=> otaAgentState = "Stopped",
           otaAgentState = "Stopped" => pc' = "receive",
           pc' # "parse" \/ UNCHANGED pc,
           recvEvent'.eventId = "CloseFile" => Complete,
           \A k \in 1..Len(otaEventQueue') :
               otaEventQueue'[k].eventId = "CloseFile" => Complete,
           pc' = "send" /\ recvEvent'.eventId = "ReceivedFileBlock" => stream # NoStream
    PROVE  DInv'
<1>1. JobKnown' /\ FileKnown' /\ StoredMarked'
  BY DEF DInv, JobKnown, FileKnown, StoredMarked, Counted
<1>2. Complete' <=> Complete
  BY DEF Complete
<1>3. ClosesComplete'
  BY <1>2 DEF DInv, ClosesComplete
<1> QED BY <1>1, <1>3 DEF DInv

(* Sending another event than CloseFile adds none of them.                 *)
LEMMA SendOther ==
    ASSUME IInv, DInv, NEW e \in OtaEvents, OtaSendEvent(e),
           e.eventId = "CloseFile" => Complete
    PROVE  \A k \in 1..Len(otaEventQueue') :
               otaEventQueue'[k].eventId = "CloseFile" => Complete
<1>1. \A k \in 1..Len(otaEventQueue) : otaEventQueue[k].eventId = "CloseFile" => Complete
  BY DEF DInv, ClosesComplete
<1>2. otaEventQueue \in Seq(OtaEvents)
  BY DEF IInv, TypeOK, QueueTypeOK
<1>3. \/ otaEventQueue' = otaEventQueue
      \/ /\ Len(otaEventQueue') = Len(otaEventQueue) + 1
         /\ \A k \in 1..Len(otaEventQueue) : otaEventQueue'[k] = otaEventQueue[k]
         /\ otaEventQueue'[Len(otaEventQueue) + 1] = e
  BY QueueSend DEF IInv
<1> HIDE DEF OtaSendEvent
<1> QED BY <1>1, <1>2, <1>3

(* Receiving an event hands over what is known of it in the queue.         *)
LEMMA ReceiveEventDInv == IInv /\ DInv /\ ReceiveEvent => DInv'
<1> SUFFICES ASSUME IInv, DInv, ReceiveEvent PROVE DInv'
  OBVIOUS
<1>0. OtaReceiveEvent(recvEvent')
  BY DEF ReceiveEvent
<1>1. /\ Len(otaEventQueue') = Len(otaEventQueue) - 1
      /\ \A k \in 1..Len(otaEventQueue') : otaEventQueue'[k] = otaEventQueue[k + 1]
      /\ Len(otaEventQueue) > 0 /\ recvEvent' = otaEventQueue[1]
  BY <1>0, QueueReceive DEF IInv
<1>2. otaEventQueue \in Seq(OtaEvents)
  BY DEF IInv, TypeOK, QueueTypeOK
<1> HIDE DEF OtaReceiveEvent
<1>3. /\ recvEvent'.eventId = "CloseFile" => Complete
      /\ \A k \in 1..Len(otaEventQueue') : otaEventQueue'[k].eventId = "CloseFile" => Complete
  BY <1>1, <1>2 DEF DInv, ClosesComplete
<1> QED BY <1>3, QuietDInv DEF ReceiveEvent, jobVars, progressVars, netVars

(* The steps of T_OTA that store nothing and close nothing.                *)
LEMMA QuietOtaDInv ==
    ASSUME IInv, DInv,
           \/ RequestJobDocument \/ DropJobDocument \/ RequestFileBlock
           \/ RequestFileBlockWithoutBitmap \/ DropFileBlock \/ AssertFileBlockFits
           \/ Suspend \/ Resume \/ SetAgentState
    PROVE  DInv'
<1> USE DEF RequestJobDocument, DropJobDocument, RequestFileBlock,
            RequestFileBlockWithoutBitmap, DropFileBlock, AssertFileBlockFits,
            Suspend, Resume, SetAgentState
<1>1. UNCHANGED <<globalJobId, totalBlocks, numOfBlocksRemaining, blockBitmap,
                  downloadedData, undecoded, stream, jobUpdate, otaEventQueue>>
  BY DEF jobVars, progressVars, netVars
<1>2. otaAgentState # "Stopped" /\ otaAgentState' # "Stopped"
  BY DEF DInv, JobKnown
<1>3. recvEvent'.eventId = "CloseFile" => Complete
  <2>1. recvEvent' = recvEvent \/ recvEvent' = Start
    <3> HIDE DEF Start
    <3> QED OBVIOUS
  <2> HIDE DEF RequestJobDocument, DropJobDocument, RequestFileBlock,
               RequestFileBlockWithoutBitmap, DropFileBlock, AssertFileBlockFits,
               Suspend, Resume, SetAgentState
  <2> QED BY <2>1 DEF DInv, ClosesComplete
<1>4. \A k \in 1..Len(otaEventQueue') : otaEventQueue'[k].eventId = "CloseFile" => Complete
  BY <1>1 DEF DInv, ClosesComplete
<1>5. /\ pc' # "parse"
      /\ pc' = "send" => recvEvent'.eventId = "Resume"
  OBVIOUS
<1> QED BY <1>1, <1>2, <1>3, <1>4, <1>5, QuietDInv

(* The identifier is copied once, before the bitmap is allocated.          *)
LEMMA IdentifyJobDInv == SingleOtaJob /\ IInv /\ DInv /\ IdentifyJob => DInv'
<1> SUFFICES ASSUME SingleOtaJob, IInv, DInv, IdentifyJob PROVE DInv'
  OBVIOUS
<1> USE DEF IdentifyJob
<1>1. otaAgentState # "Stopped" /\ UNCHANGED otaAgentState
  BY DEF DInv, JobKnown
<1>2. UNCHANGED <<totalBlocks, numOfBlocksRemaining, blockBitmap, downloadedData, undecoded,
                  stream, jobUpdate, otaEventQueue, recvEvent>>
  BY DEF progressVars, netVars
<1>3. recvEvent.eventId = "ReceivedJobDocument"
  OBVIOUS
<1>4. CASE UNCHANGED globalJobId /\ pc' # "parse"
  BY <1>1, <1>2, <1>3, <1>4, QuietDInv DEF DInv, ClosesComplete
<1>5. CASE /\ GetJobId(jobDocBuffer) # <<>>
           /\ ~SameJobId(globalJobId, GetJobId(jobDocBuffer))
           /\ globalJobId' = CopyJobId(globalJobId, GetJobId(jobDocBuffer))
           /\ pc' = "parse"
  <2>1. GetJobId(jobDocBuffer) = Id
    BY <1>5, OneJob DEF IInv, TypeOK, JobTypeOK, GetJobId, Id
  <2>2. globalJobId = <<>> /\ globalJobId' = Id
    BY <1>1, <1>5, <2>1, FirstCopy DEF DInv, JobKnown
  <2>3. JobKnown'
    BY <1>1, <1>2, <1>5, <2>2, OneJob DEF DInv, JobKnown
  <2>4. FileKnown' /\ StoredMarked'
    BY <1>2 DEF DInv, FileKnown, StoredMarked, Counted
  <2>5. ClosesComplete'
    BY <1>1, <1>2, <1>5 DEF DInv, ClosesComplete, Complete
  <2> QED BY <2>3, <2>4, <2>5 DEF DInv
<1> QED BY <1>4, <1>5

(* The file becomes known, or the file of no blocks of an empty document.  *)
LEMMA ParseJobDocumentDInv == SingleOtaJob /\ IInv /\ DInv /\ ParseJobDocument => DInv'
<1> SUFFICES ASSUME SingleOtaJob, IInv, DInv, ParseJobDocument PROVE DInv'
  OBVIOUS
<1> DEFINE fields == ParsedFields(jobDocBuffer)
<1>1. /\ otaAgentState # "Stopped" /\ globalJobId = Id /\ blockBitmap = NoBitmap
      /\ stream = NoStream /\ Counted = {} /\ jobUpdate = NoUpdate
  BY DEF ParseJobDocument, DInv, JobKnown, FileKnown, ClosesComplete, Complete
<1>2. /\ fields.handled
      /\ \/ fields.imageRef = NoStream /\ fields.fileSize = 0
         \/ fields.imageRef = 1 /\ fields.fileSize = Size
  BY OneJob DEF IInv, TypeOK, JobTypeOK, ParsedFields, NoStream, Size, SingleOtaJob
<1>3. /\ totalBlocks' = NumBlocks(fields.fileSize) /\ UNCHANGED downloadedData
      /\ numOfBlocksRemaining' = totalBlocks' /\ blockBitmap' = {} /\ undecoded' = {}
      /\ stream' = IF fields.imageRef = NoStream THEN stream ELSE fields.imageRef
      /\ pc' = "send" /\ UNCHANGED <<otaEventQueue, recvEvent, otaAgentState, globalJobId,
                                     jobUpdate>>
  BY <1>2 DEF ParseJobDocument, InitMqttDownloader, netVars
<1>4. NumBlocks(0) = 0
  BY BlockSizeAssumption DEF NumBlocks
<1>5. recvEvent.eventId = "ReceivedJobDocument"
  BY DEF ParseJobDocument, IInv, ControlOK
<1> HIDE DEF fields
<1>6. JobKnown'
  BY <1>1, <1>3, OneJob DEF JobKnown
<1>7. Counted' = {} /\ DOMAIN downloadedData' = {}
  BY <1>1, <1>3 DEF Counted
<1>8. blockBitmap' # NoBitmap /\ FileKnown'
  BY <1>1, <1>2, <1>3, <1>4 DEF FileKnown, N, NoStream, NoBitmap
<1>9. StoredMarked'
  <2>1. totalBlocks' \in Nat
    BY <1>2, <1>3, <1>4, OneJob DEF N
  <2>2. Cardinality({}) = 0
    BY FS_EmptySet
  <2> QED BY <1>3, <1>7, <2>1, <2>2 DEF StoredMarked
<1>10. ClosesComplete'
  BY <1>1, <1>3, <1>5 DEF DInv, ClosesComplete, Complete
<1> QED BY <1>6, <1>8, <1>9, <1>10 DEF DInv

-----------------------------------------------------------------------------
(* A block that is handled is stored at its place if it is missing.        *)
LEMMA StoreOneBlock ==
    ASSUME SingleOtaJob, IInv, DInv, HandleFileBlock
    PROVE  \E b \in 0..(N - 1) :
              /\ stream # NoStream /\ blockBitmap # NoBitmap /\ totalBlocks = N
              /\ \/ /\ b \in blockBitmap
                    /\ UNCHANGED <<blockBitmap, downloadedData, undecoded,
                                  numOfBlocksRemaining>>
                 \/ /\ b \notin blockBitmap
                    /\ blockBitmap' = blockBitmap \cup {b}
                    /\ Counted' = Counted \cup {b}
                    /\ \A k \in DOMAIN downloadedData' : downloadedData'[k] = BlockAt(k)
                    /\ numOfBlocksRemaining' = (numOfBlocksRemaining - 1) % UINT32_RANGE
<1> DEFINE m == dataBuffers[recvEvent.dataEvent]
<1>1. /\ m \in Blocks /\ IsServed(m) /\ blockBitmap # NoBitmap /\ stream # NoStream
  <2>1. recvEvent.dataEvent \in BufferIndices /\ m \in Blocks /\ IsServed(m)
        /\ blockBitmap # NoBitmap
    BY BlockAtHand DEF HandleFileBlock, HandleFileBlockAs
  <2> QED BY <2>1, AgentAssumption DEF IInv, StreamHasBitmap
<1>2. m = BlockAt(m.block) /\ m.block \in 0..(N - 1)
  BY <1>1, OneFile
<1>3. totalBlocks = N
  BY <1>1 DEF DInv, FileKnown
<1>4. PICK received \in ProcessReceivedDataBlock(m), stray \in BOOLEAN :
        IF IsBlockNeeded(received.blockId, stray)
        THEN StoreBlock(m, received)
        ELSE UNCHANGED <<progressVars, downloadedData>>
  BY DEF HandleFileBlock, HandleFileBlockAs
<1> DEFINE b == received.blockId
<1>5. b \in 0..(N - 1) /\ (received.decoded => b = m.block)
  <2>1. b \in {0, m.block} /\ (received.decoded => b = m.block)
    BY DEF ProcessReceivedDataBlock
  <2> QED BY <1>2, <2>1, OneJob
<1>6. b < BitmapBits
  BY <1>3, <1>5, OneJob, BitOfBlock
<1>7. \A k \in DOMAIN downloadedData : downloadedData[k] = BlockAt(k)
  BY DEF DInv, StoredMarked
<1> HIDE DEF m, b
<1>8. CASE b \in blockBitmap
  BY <1>1, <1>3, <1>4, <1>5, <1>6, <1>8 DEF IsBlockNeeded, progressVars, b
<1>9. CASE b \notin blockBitmap
  <2>1. StoreBlock(m, received)
    BY <1>4, <1>6, <1>9 DEF IsBlockNeeded, b
  <2>2. /\ blockBitmap' = blockBitmap \cup {b}
        /\ numOfBlocksRemaining' = (numOfBlocksRemaining - 1) % UINT32_RANGE
    BY <1>6, <2>1 DEF StoreBlock, MarkBlockDownloaded, b
  <2>3. /\ Counted' = Counted \cup {b}
        /\ \A k \in DOMAIN downloadedData' : downloadedData'[k] = BlockAt(k)
    BY <1>2, <1>5, <1>7, <2>1 DEF StoreBlock, Counted, b
  <2> QED BY <1>1, <1>3, <1>5, <1>9, <2>2, <2>3
<1> QED BY <1>8, <1>9

(* Storing a block takes exactly one from the missing ones, so the counter *)
(* does not wrap, and no event closes the file while one is missing.       *)
LEMMA HandleFileBlockDInv == SingleOtaJob /\ IInv /\ DInv /\ HandleFileBlock => DInv'
<1> SUFFICES ASSUME SingleOtaJob, IInv, DInv, HandleFileBlock PROVE DInv'
  OBVIOUS
<1>1. PICK b \in 0..(N - 1) :
         /\ stream # NoStream /\ blockBitmap # NoBitmap /\ totalBlocks = N
         /\ \/ /\ b \in blockBitmap
               /\ UNCHANGED <<blockBitmap, downloadedData, undecoded,
                                  numOfBlocksRemaining>>
            \/ /\ b \notin blockBitmap
               /\ blockBitmap' = blockBitmap \cup {b}
               /\ Counted' = Counted \cup {b}
               /\ \A k \in DOMAIN downloadedData' : downloadedData'[k] = BlockAt(k)
               /\ numOfBlocksRemaining' = (numOfBlocksRemaining - 1) % UINT32_RANGE
  BY StoreOneBlock
<1>2. /\ otaAgentState # "Stopped" /\ pc' = "send" /\ recvEvent.eventId = "ReceivedFileBlock"
      /\ UNCHANGED <<otaEventQueue, otaAgentState, recvEvent, globalJobId, totalBlocks, stream,
                     jobUpdate>>
  BY DEF HandleFileBlock, HandleFileBlockAs, DInv, JobKnown, jobVars, netVars
<1>3. CASE UNCHANGED <<blockBitmap, downloadedData, undecoded, numOfBlocksRemaining>>
  BY <1>1, <1>2, <1>3, QuietDInv DEF DInv, ClosesComplete
<1>4. CASE b \notin blockBitmap
  <2>1. /\ blockBitmap = Counted /\ blockBitmap \subseteq 0..(N - 1)
        /\ numOfBlocksRemaining = N - Cardinality(blockBitmap)
    BY <1>1 DEF DInv, StoredMarked
  <2>2. /\ IsFiniteSet(0..(N - 1)) /\ Cardinality(0..(N - 1)) = N
    BY OneJob, FS_Interval
  <2>3. /\ IsFiniteSet(blockBitmap) /\ Cardinality(blockBitmap) \in Nat
        /\ Cardinality(blockBitmap') = Cardinality(blockBitmap) + 1
    BY <1>1, <1>4, <2>1, <2>2, FS_Subset, FS_AddElement, FS_CardinalityType
  <2>4. blockBitmap' \subseteq 0..(N - 1)
    BY <1>1, <1>4, <2>1
  <2>5. Cardinality(blockBitmap') <= N
    BY <2>2, <2>4, FS_Subset
  <2>6. numOfBlocksRemaining' = N - Cardinality(blockBitmap')
    <3>1. /\ numOfBlocksRemaining - 1 \in 0..(UINT32_RANGE - 1)
          /\ numOfBlocksRemaining - 1 = N - Cardinality(blockBitmap')
      BY <2>1, <2>3, <2>5, OneJob, UintAssumption
    <3> QED BY <1>1, <1>4, <3>1, UintAssumption
  <2>7. StoredMarked'
    BY <1>1, <1>2, <1>4, <2>1, <2>4, <2>6 DEF DInv, StoredMarked
  <2>8. ~Complete
    BY <1>4, <2>1, <2>2, <2>3, <2>5, OneJob DEF Complete
  <2>9. ClosesComplete'
    BY <1>1, <1>2, <2>8 DEF DInv, ClosesComplete
  <2>10. blockBitmap' # NoBitmap
    BY <2>4, OneJob DEF NoBitmap
  <2>11. JobKnown' /\ FileKnown'
    BY <1>1, <1>2, <2>10 DEF DInv, JobKnown, FileKnown
  <2> QED BY <2>7, <2>9, <2>11 DEF DInv
<1> QED BY <1>1, <1>3, <1>4

(* The file is closed when it is complete, under the identifier of its     *)
(* job.                                                                    *)
LEMMA CloseFileDInv == SingleOtaJob /\ IInv /\ DInv /\ CloseFile => DInv'
<1> SUFFICES ASSUME SingleOtaJob, IInv, DInv, CloseFile PROVE DInv'
  OBVIOUS
<1>1. Complete /\ otaAgentState # "Stopped" /\ globalJobId = Id
  BY DEF CloseFile, DInv, JobKnown, ClosesComplete, Complete
<1>2. /\ UNCHANGED <<totalBlocks, numOfBlocksRemaining, blockBitmap, downloadedData, undecoded,
                     stream, otaEventQueue>>
      /\ otaAgentState' = "Stopped" /\ pc' = "receive" /\ recvEvent' = Start
      /\ jobUpdate' = Id
  BY <1>1 DEF CloseFile, PublishJobUpdate, progressVars
<1>3. JobKnown' /\ FileKnown' /\ StoredMarked'
  BY <1>2 DEF DInv, JobKnown, FileKnown, StoredMarked, Counted
<1>4. ClosesComplete'
  BY <1>1, <1>2 DEF DInv, ClosesComplete, Complete
<1> QED BY <1>3, <1>4 DEF DInv

(* CloseFile is only sent when the counter of a known file is zero.        *)
LEMMA SendNextEventDInv == IInv /\ DInv /\ SendNextEvent => DInv'
<1> SUFFICES ASSUME IInv, DInv, SendNextEvent PROVE DInv'
  OBVIOUS
<1> USE DEF SendNextEvent
<1>1. Event(NextEventId) \in OtaEvents
  BY DEF IInv, ControlOK, NextEventId
<1>2. NextEventId = "CloseFile" => Complete
  BY DEF IInv, ControlOK, StreamHasBitmap, NextEventId, DInv, ClosesComplete, Complete
<1>3. \A k \in 1..Len(otaEventQueue') : otaEventQueue'[k].eventId = "CloseFile" => Complete
  BY <1>1, <1>2, SendOther
<1>4. UNCHANGED <<globalJobId, totalBlocks, numOfBlocksRemaining, blockBitmap, downloadedData,
                  undecoded, stream, jobUpdate, otaAgentState>>
  BY DEF jobVars, progressVars, netVars
<1>5. /\ otaAgentState # "Stopped" /\ pc' \in {"receive", "setState"}
      /\ recvEvent'.eventId = "CloseFile" => Complete
  BY DEF DInv, JobKnown, ClosesComplete
<1> QED BY <1>3, <1>4, <1>5, QuietDInv

(* Every step of T_OTA preserves the invariant of the download.            *)
LEMMA OtaTaskDInv == SingleOtaJob /\ IInv /\ DInv /\ OtaTask => DInv'
BY ReceiveEventDInv, QuietOtaDInv, IdentifyJobDInv, ParseJobDocumentDInv,
   HandleFileBlockDInv, CloseFileDInv, SendNextEventDInv
   DEF OtaTask

(* T_MQTT, T_SUSPEND and the service leave the download alone.             *)
LEMMA OthersDInv ==
    ASSUME IInv, DInv, MqttTask \/ SuspendTask \/ ServerNextJob \/ LoseReply
    PROVE  DInv'
<1>1. UNCHANGED <<globalJobId, totalBlocks, numOfBlocksRemaining, blockBitmap, downloadedData,
                  undecoded, stream, jobUpdate, otaAgentState, pc, recvEvent>>
  BY DEF MqttTask, ReceiveJobReply, ReceiveBlockReply, HandleJobDocument, HandleDataBlock,
         HandleDataBlockWithoutBuffer, IgnoreDataBlock, SuspendTask, CheckSuspend, CheckResume,
         SuspendTaskVars, ServerNextJob, LoseReply, AgentVars, jobVars, progressVars, netVars
<1>2. \/ UNCHANGED otaEventQueue
      \/ \E e \in OtaEvents : OtaSendEvent(e) /\ e.eventId # "CloseFile"
  <2>1. CASE ReceiveJobReply
    BY <2>1 DEF ReceiveJobReply, HandleJobDocument
  <2>2. CASE ReceiveBlockReply
    <3>1. UNCHANGED otaEventQueue \/ \E i \in BufferIndices : OtaSendEvent(DataEvent(i))
      BY <2>2 DEF ReceiveBlockReply, HandleDataBlock, HandleDataBlockWithoutBuffer,
                  IgnoreDataBlock
    <3>2. \A i \in BufferIndices : /\ DataEvent(i) \in OtaEvents
                                   /\ DataEvent(i).eventId # "CloseFile"
      OBVIOUS
    <3> QED BY <3>1, <3>2
  <2>3. CASE SuspendTask
    BY <2>3 DEF SuspendTask, CheckSuspend, CheckResume
  <2>4. CASE ServerNextJob \/ LoseReply
    BY <2>4 DEF ServerNextJob, LoseReply, AgentVars
  <2> QED BY <2>1, <2>2, <2>3, <2>4 DEF MqttTask
<1>3. \A k \in 1..Len(otaEventQueue') : otaEventQueue'[k].eventId = "CloseFile" => Complete
  <2> HIDE DEF OtaSendEvent, OtaEvents
  <2>1. CASE UNCHANGED otaEventQueue
    BY <2>1 DEF DInv, ClosesComplete
  <2> QED BY <1>2, <2>1, SendOther
<1> QED BY <1>1, <1>3, QuietDInv DEF DInv, JobKnown, ClosesComplete

(* So does every step of the system.                                       *)
LEMMA NextDInv == SingleOtaJob /\ IInv /\ DInv /\ [Next]_vars => DInv'
<1> SUFFICES ASSUME SingleOtaJob, IInv, DInv, [Next]_vars PROVE DInv'
  OBVIOUS
<1>1. CASE UNCHANGED vars
  BY <1>1, QuietDInv
     DEF vars, jobVars, progressVars, netVars, DInv, JobKnown, ClosesComplete
<1> QED BY <1>1, OtaTaskDInv, OthersDInv DEF Next

(* The invariant of the download holds throughout.                         *)
LEMMA SpecDInv == SingleOtaJob /\ Spec => []DInv
<1> SUFFICES ASSUME SingleOtaJob PROVE Spec => []DInv
  OBVIOUS
<1>1. Init => DInv
  BY InitDInv
<1>2. IInv /\ DInv /\ [Next]_vars => DInv'
  BY NextDInv
<1> QED BY <1>1, <1>2, SpecIInv, PTL DEF Spec

-----------------------------------------------------------------------------
(* No block missing means that every block of the file counts as in place. *)
LEMMA CompleteImage ==
    ASSUME SingleOtaJob, DInv, Complete
    PROVE  Counted = 0..(N - 1)
<1>1. /\ blockBitmap = Counted /\ blockBitmap \subseteq 0..(N - 1)
      /\ N - Cardinality(blockBitmap) = 0
  BY DEF DInv, FileKnown, StoredMarked, Complete
<1>2. IsFiniteSet(0..(N - 1)) /\ Cardinality(0..(N - 1)) = N
  <2>1. N \in Nat
    BY OneJob
  <2> QED BY <2>1, FS_Interval
<1>3. Cardinality(blockBitmap) = N
  <2>1. Cardinality(blockBitmap) \in Nat
    BY <1>1, <1>2, FS_Subset, FS_CardinalityType
  <2> QED BY <1>1, <2>1, OneJob
<1> QED BY <1>1, <1>2, <1>3, FS_Subset

(* The count of missing blocks neither drifts nor wraps: however often a   *)
(* block is requested again, delivered twice, dropped while the agent is   *)
(* suspended or lost, isBlockNeeded and numOfBlocksRemaining agree.        *)
THEOREM CountsMissingBlocks == SingleOtaJob /\ Spec => []RemainingCountsMissing
<1>1. DInv => RemainingCountsMissing
  BY DEF DInv, StoredMarked, RemainingCountsMissing
<1> QED BY <1>1, SpecDInv, PTL

(* With one OTA job, finishDownload reports success only when every block  *)
(* of the job's file whose message decoded has been stored at its place,   *)
(* and for that job.                                                       *)
THEOREM SuccessIsComplete == SingleOtaJob /\ Spec => []SuccessMeansComplete
<1> SUFFICES ASSUME SingleOtaJob PROVE Spec => []SuccessMeansComplete
  OBVIOUS
<1>1. DInv => SuccessMeansComplete
  <2> SUFFICES ASSUME DInv, jobUpdate # NoUpdate
               PROVE  1 \in Jobs /\ JobQueue[1].id = jobUpdate /\ IsImageOf(1)
    BY DEF SuccessMeansComplete
  <2>1. jobUpdate = Id /\ Complete
    BY DEF DInv, ClosesComplete
  <2>2. \A b \in 0..(N - 1) \ undecoded : b \in DOMAIN downloadedData
    BY <2>1, CompleteImage DEF Counted
  <2>3. \A b \in DOMAIN downloadedData :
           downloadedData[b] = [job |-> 1, file |-> 0, block |-> b]
    BY DEF DInv, StoredMarked, BlockAt
  <2>4. IsImageOf(1)
    BY <2>2, <2>3 DEF IsImageOf, SingleOtaJob, N, Size
  <2> QED BY <2>1, <2>4, OneJob DEF Id
<1>2. Spec => []DInv
  BY SpecDInv
<1> QED BY <1>1, <1>2, PTL

-----------------------------------------------------------------------------
(* The agent implements OtaDownload.                                       *)

(* What is stored is in place.                                             *)
LEMMA InPlace == DInv => BlocksInPlace \cup undecoded = Counted
BY DEF DInv, StoredMarked, BlocksInPlace, BlockAt, Counted

(* The same of the next state.                                             *)
LEMMA InPlaceNext == DInv' => (BlocksInPlace \cup undecoded)' = Counted'
<1>1. (DInv => BlocksInPlace \cup undecoded = Counted)'
  BY InPlace, PTL
<1> QED BY <1>1

(* A step that leaves the bitmap and the image alone and neither stops nor *)
(* restarts the agent is a stuttering step of the download.                *)
LEMMA QuietDownload ==
    ASSUME UNCHANGED <<blockBitmap, downloadedData, undecoded>>,
           otaAgentState' = "Stopped" <=> otaAgentState = "Stopped"
    PROVE  UNCHANGED Download!downloadVars
BY DEF Download!downloadVars, Phase, BlocksInPlace

(* The initial state is one of the download that waits for its job.        *)
LEMMA InitRefines == Init => Download!Init
BY DEF Init, Download!Init, Phase, BlocksInPlace

(* Parsing the job document starts the download.                           *)
LEMMA ParseRefines ==
    ASSUME SingleOtaJob, IInv, DInv, ParseJobDocument
    PROVE  Download!StartDownload
<1>1. otaAgentState # "Stopped" /\ blockBitmap = NoBitmap
  BY DEF ParseJobDocument, DInv, JobKnown
<1>2. ParsedFields(jobDocBuffer).handled
  <2>1. jobDocBuffer \in {0, 1}
    BY OneJob DEF IInv, TypeOK, JobTypeOK
  <2>2. JobQueue[1].files # <<>>
    BY DEF SingleOtaJob
  <2> QED BY <2>1, <2>2 DEF ParsedFields
<1>3. /\ blockBitmap' = {} /\ undecoded' = {} /\ undecoded = {}
      /\ UNCHANGED <<otaAgentState, downloadedData>>
  BY <1>1, <1>2 DEF ParseJobDocument, InitMqttDownloader, DInv, FileKnown, Counted
<1> QED BY <1>1, <1>3 DEF Download!StartDownload, Phase, BlocksInPlace, NoBitmap

(* Handling a block puts a missing one in place, or stutters.              *)
LEMMA StoreRefines ==
    ASSUME SingleOtaJob, IInv, DInv, DInv', HandleFileBlock
    PROVE  Download!Next \/ UNCHANGED Download!downloadVars
<1>1. otaAgentState # "Stopped" /\ UNCHANGED otaAgentState
  BY DEF HandleFileBlock, HandleFileBlockAs, DInv, JobKnown
<1>2. PICK b \in 0..(N - 1) :
         /\ stream # NoStream /\ blockBitmap # NoBitmap /\ totalBlocks = N
         /\ \/ /\ b \in blockBitmap
               /\ UNCHANGED <<blockBitmap, downloadedData, undecoded,
                                  numOfBlocksRemaining>>
            \/ /\ b \notin blockBitmap
               /\ blockBitmap' = blockBitmap \cup {b}
               /\ Counted' = Counted \cup {b}
               /\ \A k \in DOMAIN downloadedData' : downloadedData'[k] = BlockAt(k)
               /\ numOfBlocksRemaining' = (numOfBlocksRemaining - 1) % UINT32_RANGE
  BY StoreOneBlock
<1>3. CASE UNCHANGED <<blockBitmap, downloadedData, undecoded>>
  BY <1>1, <1>3, QuietDownload
<1>4. CASE /\ b \notin blockBitmap /\ blockBitmap' = blockBitmap \cup {b}
           /\ Counted' = Counted \cup {b}
  <2>1. blockBitmap' # NoBitmap /\ blockBitmap = Counted
    BY <1>2, <1>4, OneJob DEF NoBitmap, DInv, StoredMarked
  <2>2. /\ (BlocksInPlace \cup undecoded)' = (BlocksInPlace \cup undecoded) \cup {b}
        /\ b \notin BlocksInPlace \cup undecoded
    BY <1>4, <2>1, InPlace, InPlaceNext
  <2>3. Phase = "downloading" /\ Phase' = "downloading"
    BY <1>1, <1>2, <2>1 DEF Phase
  <2>4. b \in 0..(NumBlocks(JobQueue[1].files[1]) - 1)
    BY DEF N, Size
  <2> QED BY <2>2, <2>3, <2>4 DEF Download!Next, Download!ReceiveBlock
<1> QED BY <1>2, <1>3, <1>4

(* Closing the file finishes the download.                                 *)
LEMMA CloseRefines ==
    ASSUME SingleOtaJob, DInv, CloseFile
    PROVE  Download!FinishDownload
<1>1. Complete /\ otaAgentState # "Stopped" /\ blockBitmap # NoBitmap
  BY DEF CloseFile, DInv, JobKnown, ClosesComplete, Complete
<1>2. otaAgentState' = "Stopped" /\ UNCHANGED <<blockBitmap, downloadedData, undecoded>>
  BY DEF CloseFile, progressVars
<1>3. BlocksInPlace \cup undecoded = 0..(NumBlocks(JobQueue[1].files[1]) - 1)
  BY <1>1, CompleteImage, InPlace DEF N, Size
<1>4. UNCHANGED (BlocksInPlace \cup undecoded)
  BY <1>2 DEF BlocksInPlace
<1>5. Phase = "downloading" /\ Phase' = "done"
  BY <1>1, <1>2 DEF Phase
<1> QED BY <1>3, <1>4, <1>5 DEF Download!FinishDownload

(* Every other step of the system is a stuttering step of the download.    *)
LEMMA OthersQuiet ==
    ASSUME DInv, [Next]_vars, ~ParseJobDocument, ~HandleFileBlock, ~CloseFile
    PROVE  /\ UNCHANGED <<blockBitmap, downloadedData, undecoded>>
           /\ otaAgentState' = "Stopped" <=> otaAgentState = "Stopped"
<1>1. CASE UNCHANGED vars
  BY <1>1 DEF vars, progressVars
<1>2. CASE OtaTask
  <2>1. UNCHANGED <<blockBitmap, downloadedData, undecoded>>
    BY <1>2 DEF OtaTask, ReceiveEvent, RequestJobDocument, DropJobDocument, IdentifyJob,
       RequestFileBlock, RequestFileBlockWithoutBitmap, DropFileBlock, AssertFileBlockFits,
       Suspend, Resume, SendNextEvent, SetAgentState, progressVars
  <2>2. UNCHANGED otaAgentState \/ otaAgentState' # "Stopped"
    BY <1>2 DEF OtaTask, ReceiveEvent, RequestJobDocument, DropJobDocument, IdentifyJob,
       RequestFileBlock, RequestFileBlockWithoutBitmap, DropFileBlock, AssertFileBlockFits,
       Suspend, Resume, SendNextEvent, SetAgentState
  <2>3. otaAgentState # "Stopped"
    BY <1>2 DEF OtaTask, ReceiveEvent, RequestJobDocument, DropJobDocument, IdentifyJob,
       RequestFileBlock, RequestFileBlockWithoutBitmap, DropFileBlock, AssertFileBlockFits,
       Suspend, Resume, SendNextEvent, SetAgentState, DInv, JobKnown
  <2> QED BY <2>1, <2>2, <2>3
<1>3. CASE MqttTask \/ SuspendTask \/ ServerNextJob \/ LoseReply
  BY <1>3 DEF MqttTask, ReceiveJobReply, ReceiveBlockReply, HandleJobDocument, HandleDataBlock,
     HandleDataBlockWithoutBuffer, IgnoreDataBlock, SuspendTask, CheckSuspend, CheckResume,
     SuspendTaskVars, ServerNextJob, LoseReply, AgentVars, progressVars
<1> QED BY <1>1, <1>2, <1>3 DEF Next

(* Every step of the agent is a step of the download or stutters.          *)
LEMMA StepRefines ==
    ASSUME SingleOtaJob, IInv, DInv, DInv', [Next]_vars
    PROVE  [Download!Next]_(Download!downloadVars)
<1>1. CASE ParseJobDocument
  BY <1>1, ParseRefines DEF Download!Next
<1>2. CASE HandleFileBlock
  BY <1>2, StoreRefines
<1>3. CASE CloseFile
  BY <1>3, CloseRefines DEF Download!Next
<1>4. CASE ~ParseJobDocument /\ ~HandleFileBlock /\ ~CloseFile
  BY <1>4, OthersQuiet, QuietDownload
<1> QED BY <1>1, <1>2, <1>3, <1>4

(* With one OTA job of one file the agent implements OtaDownload: blocks   *)
(* are put in place one by one, none twice, and the job is closed once,    *)
(* when all are there.                                                     *)
THEOREM AgentImplementsDownload == SingleOtaJob /\ Spec => ImplementsDownload
<1> SUFFICES ASSUME SingleOtaJob PROVE Spec => ImplementsDownload
  OBVIOUS
<1>1. Init => Download!Init
  BY InitRefines
<1>2. IInv /\ DInv /\ DInv' /\ [Next]_vars => [Download!Next]_(Download!downloadVars)
  BY StepRefines
<1> QED BY <1>1, <1>2, SpecIInv, SpecDInv, PTL DEF Spec, ImplementsDownload, Download!Spec
=============================================================================
