------------------------- MODULE OtaAgentBounds_proof -------------------------
(***************************************************************************)
(* Proofs about what OtaAgent stores.  With one OTA job of one file, of    *)
(* any size: which file the marked blocks belong to and, when blocks are   *)
(* asked for one at a time and every message of a block decodes, that no   *)
(* write passes the end of downloadedData.  With any jobs: the same of     *)
(* files that are no larger than downloadedData.                           *)
(***************************************************************************)
EXTENDS OtaAgentDownload_proof

USE DEF OtaSendEvent, OtaReceiveEvent, GetOtaDataEventBuffer, FreeOtaDataEventBuffer,
        At, Handles, Handling, EndOfEvent, Event, DataEvent, OtherEvents, OtaEvents, Start,
        NoBuffer, BufferIndices, JobDocs, Jobs, NoJob

-----------------------------------------------------------------------------
(* The marked blocks are of the file that is being downloaded.             *)

FirstFile == currentFileId = 0

(* The parser numbers the files of a job from 0.                           *)
LEMMA ParsedFirstFile ==
    ASSUME SingleOtaJob, NEW doc \in JobDocs
    PROVE  ParsedFields(doc).fileId = 0
BY OneJob DEF ParsedFields, SingleOtaJob

(* Nothing but a parsed job document changes the file.                     *)
LEMMA NextFirstFile == SingleOtaJob /\ IInv /\ FirstFile /\ [Next]_vars => FirstFile'
<1> SUFFICES ASSUME SingleOtaJob, IInv, FirstFile, [Next]_vars PROVE FirstFile'
  OBVIOUS
<1>1. CASE ParseJobDocument
  <2>1. ParsedFields(jobDocBuffer).fileId = 0
    BY ParsedFirstFile DEF IInv, TypeOK, JobTypeOK
  <2> QED BY <1>1, <2>1 DEF ParseJobDocument, InitMqttDownloader, FirstFile
<1>2. CASE OtaTask /\ ~ParseJobDocument
  BY <1>2 DEF OtaTask, ReceiveEvent, RequestJobDocument, DropJobDocument, IdentifyJob,
     RequestFileBlock, RequestFileBlockWithoutBitmap, DropFileBlock, HandleFileBlock,
     HandleFileBlockAs, AssertFileBlockFits, CloseFile, Suspend, Resume, SendNextEvent,
     SetAgentState, FirstFile, jobVars
<1>3. CASE MqttTask \/ SuspendTask \/ ServerNextJob \/ LoseReply
  BY <1>3 DEF MqttTask, ReceiveJobReply, ReceiveBlockReply, HandleJobDocument, HandleDataBlock,
     HandleDataBlockWithoutBuffer, IgnoreDataBlock, SuspendTask, CheckSuspend, CheckResume,
     SuspendTaskVars, ServerNextJob, LoseReply, AgentVars, FirstFile, jobVars
<1>4. CASE UNCHANGED vars
  BY <1>4 DEF vars, jobVars, FirstFile
<1> QED BY <1>1, <1>2, <1>3, <1>4 DEF Next

(* With one OTA job, a marked block whose message decoded is stored, and   *)
(* is the one of that number of the file isBlockNeeded speaks of.          *)
THEOREM MarkedAreOfTheFile == SingleOtaJob /\ Spec => []MarkedBlocksAreOfTheFile
<1> SUFFICES ASSUME SingleOtaJob PROVE Spec => []MarkedBlocksAreOfTheFile
  OBVIOUS
<1>1. IInv /\ DInv /\ FirstFile => MarkedBlocksAreOfTheFile
  <2> SUFFICES ASSUME IInv, DInv, FirstFile, blockBitmap # NoBitmap,
                      NEW b \in blockBitmap \ undecoded
               PROVE  /\ b \in DOMAIN downloadedData
                      /\ downloadedData[b] =
                           [job |-> stream, file |-> currentFileId, block |-> b]
    BY DEF MarkedBlocksAreOfTheFile
  <2>1. b \in DOMAIN downloadedData /\ b \in 0..(totalBlocks - 1)
    BY DEF DInv, StoredMarked, Counted
  <2>2. stream # NoStream
    BY <2>1 DEF DInv, FileKnown
  <2>3. stream = 1
    BY <2>2, OneJob DEF IInv, TypeOK, JobTypeOK, NoStream
  <2>4. downloadedData[b] = BlockAt(b)
    BY <2>1 DEF DInv, StoredMarked
  <2> QED BY <2>1, <2>3, <2>4 DEF BlockAt, FirstFile
<1>2. Init => FirstFile
  BY DEF Init, FirstFile
<1>3. IInv /\ FirstFile /\ [Next]_vars => FirstFile'
  BY NextFirstFile
<1> QED BY <1>1, <1>2, <1>3, SpecIInv, SpecDInv, PTL DEF Spec

-----------------------------------------------------------------------------
(* Writes stay inside downloadedData when blocks arrive in order.          *)

OneByOne == SingleOtaJob /\ NUM_OF_BLOCKS_REQUESTED = 1 /\ ~MayCorrupt

(* A block is only on its way, or in the pool, once all before it are      *)
(* marked.                                                                 *)
Ready(m) == blockBitmap # NoBitmap /\ 0..(m.block - 1) \subseteq blockBitmap

RepliesInOrder ==
    /\ \A m \in DOMAIN blockReplies : Ready(m)
    /\ \A i \in BufferIndices : dataBuffers[i] # Free => Ready(dataBuffers[i])

(* So the marked blocks are the first ones, all full but for the last, and *)
(* totalBytesReceived is where the next block is written.                  *)
BytesOfPrefix ==
    blockBitmap # NoBitmap =>
        \E c \in Nat : /\ blockBitmap = 0..(c - 1)
                       /\ c < totalBlocks => totalBytesReceived = c * BLOCK_SIZE

WInv == RepliesInOrder /\ BytesOfPrefix /\ WriteInBounds

(* At first nothing is on its way and nothing is written.                  *)
LEMMA InitWInv == Init => WInv
BY EmptyBagDomain DEF Init, DataBuffersInit, WInv, RepliesInOrder, BytesOfPrefix, WriteInBounds

(* A step that marks and writes nothing, and asks for nothing: a message   *)
(* in the pool was there before or was on its way.                         *)
LEMMA QuietWInv ==
    ASSUME WInv,
           UNCHANGED <<blockBitmap, totalBlocks, totalBytesReceived, downloadedData>>,
           DOMAIN blockReplies' \subseteq DOMAIN blockReplies,
           \A i \in BufferIndices :
               dataBuffers'[i] # Free =>
                  \/ dataBuffers[i] # Free /\ dataBuffers'[i] = dataBuffers[i]
                  \/ dataBuffers'[i] \in DOMAIN blockReplies
    PROVE  WInv'
<1>1. RepliesInOrder'
  BY DEF WInv, RepliesInOrder, Ready
<1>2. BytesOfPrefix' /\ WriteInBounds'
  BY DEF WInv, BytesOfPrefix, WriteInBounds
<1> QED BY <1>1, <1>2 DEF WInv

(* The steps of T_OTA but those that parse, ask for a block or store one.  *)
LEMMA QuietOtaWInv ==
    ASSUME IInv, WInv, OtaTask,
           ~ParseJobDocument, ~RequestFileBlock, ~HandleFileBlock
    PROVE  WInv'
<1>1. UNCHANGED <<blockBitmap, totalBlocks, totalBytesReceived, downloadedData, blockReplies>>
  BY DEF OtaTask, ReceiveEvent, RequestJobDocument, DropJobDocument, IdentifyJob,
     RequestFileBlockWithoutBitmap, DropFileBlock, AssertFileBlockFits, CloseFile, Suspend,
     Resume, SendNextEvent, SetAgentState, jobVars, progressVars, netVars
<1>2. \/ UNCHANGED dataBuffers
      \/ dataBuffers' = [dataBuffers EXCEPT ![recvEvent.dataEvent] = Free]
  BY DEF OtaTask, ReceiveEvent, RequestJobDocument, DropJobDocument, IdentifyJob,
     RequestFileBlockWithoutBitmap, DropFileBlock, AssertFileBlockFits, CloseFile, Suspend,
     Resume, SendNextEvent, SetAgentState
<1>3. dataBuffers \in [BufferIndices -> Blocks \cup {Free}]
  BY DEF IInv, TypeOK, QueueTypeOK
<1> QED BY <1>1, <1>2, <1>3, QuietWInv

(* Parsing starts over, with nothing on its way.                           *)
LEMMA ParseWInv == SingleOtaJob /\ IInv /\ DInv /\ WInv /\ ParseJobDocument => WInv'
<1> SUFFICES ASSUME SingleOtaJob, IInv, DInv, WInv, ParseJobDocument PROVE WInv'
  OBVIOUS
<1>1. blockBitmap = NoBitmap
  BY DEF ParseJobDocument, DInv, JobKnown
<1>2. UNCHANGED <<blockReplies, dataBuffers, downloadedData>>
  BY DEF ParseJobDocument, netVars
<1>3. RepliesInOrder' /\ WriteInBounds'
  BY <1>1, <1>2 DEF WInv, RepliesInOrder, Ready, WriteInBounds
<1>4. \/ blockBitmap' = {} /\ totalBytesReceived' = 0
      \/ UNCHANGED <<blockBitmap, totalBytesReceived, totalBlocks>>
  BY DEF ParseJobDocument, InitMqttDownloader, progressVars
<1>5. BytesOfPrefix'
  <2>1. CASE blockBitmap' = {} /\ totalBytesReceived' = 0
    <3>1. blockBitmap' = 0..(0 - 1) /\ totalBytesReceived' = 0 * BLOCK_SIZE
      BY <2>1, BlockSizeAssumption
    <3> QED BY <3>1 DEF BytesOfPrefix
  <2> QED BY <1>1, <1>4, <2>1 DEF BytesOfPrefix
<1> QED BY <1>3, <1>5 DEF WInv

(* The one block that is asked for is the first that is not marked.        *)
LEMMA RequestWInv ==
    ASSUME OneByOne, IInv, DInv, WInv, RequestFileBlock
    PROVE  WInv'
<1>1. PICK stray \in BOOLEAN, first \in 0..(totalBlocks + 1), count \in 0..1 :
         IsNextBlockToRequest(first, stray) /\ PublishGetStream(first, count)
  BY DEF RequestFileBlock, OneByOne
<1>2. /\ blockBitmap # NoBitmap
      /\ UNCHANGED <<blockBitmap, totalBlocks, totalBytesReceived, downloadedData, dataBuffers>>
  BY DEF RequestFileBlock, jobVars, progressVars
<1>3. ASSUME NEW m \in RequestedBlocks(first, count)
      PROVE  Ready(m)
  <2>1. m.block = first /\ m.job = stream /\ m.file = currentFileId /\ IsServed(m)
    BY <1>1 DEF RequestedBlocks
  <2>2. m \in Blocks
    BY <1>1, <1>3, <2>1 DEF RequestedBlocks, Blocks, IsServed, IInv, TypeOK, JobTypeOK
  <2>3. first < totalBlocks
    <3>1. stream # NoStream
      BY <2>1, OneJob DEF IsServed, NoStream, OneByOne
    <3>2. first \in 0..(N - 1)
      BY <2>1, <2>2, OneFile DEF OneByOne
    <3> QED BY <3>1, <3>2, OneJob DEF DInv, FileKnown, OneByOne
  <2>4. ASSUME NEW k \in 0..(first - 1) PROVE k \in blockBitmap
    <3>1. totalBlocks \in Nat
      BY UintAssumption DEF IInv, TypeOK, JobTypeOK
    <3>2. k < BitmapBits
      BY <1>1, <2>3, <3>1, BitOfBlock
    <3> QED BY <1>1, <3>2 DEF IsNextBlockToRequest, IsBlockNeeded
  <2> QED BY <1>2, <2>1, <2>4 DEF Ready
<1>4. DOMAIN blockReplies' \subseteq DOMAIN blockReplies \cup RequestedBlocks(first, count)
  BY <1>1, BagAddDomain DEF PublishGetStream
<1>5. RepliesInOrder'
  BY <1>2, <1>3, <1>4 DEF WInv, RepliesInOrder, Ready
<1>6. BytesOfPrefix' /\ WriteInBounds'
  BY <1>2 DEF WInv, BytesOfPrefix, WriteInBounds
<1> QED BY <1>5, <1>6 DEF WInv

(* A missing block is the next one, and the size that is asserted counts   *)
(* every byte before it.                                                   *)
LEMMA HandleWInv ==
    ASSUME OneByOne, IInv, DInv, WInv, HandleFileBlock
    PROVE  WInv'
<1> DEFINE m == dataBuffers[recvEvent.dataEvent]
           c == m.block
           length == BlockLength(Size, c)
<1>1. /\ recvEvent.dataEvent \in BufferIndices /\ m \in Blocks /\ IsServed(m)
      /\ blockBitmap # NoBitmap /\ stream # NoStream
  <2>1. recvEvent.dataEvent \in BufferIndices /\ m \in Blocks /\ IsServed(m)
        /\ blockBitmap # NoBitmap
    BY BlockAtHand DEF HandleFileBlock, HandleFileBlockAs
  <2> QED BY <2>1, AgentAssumption DEF IInv, StreamHasBitmap
<1>2. c \in 0..(N - 1) /\ FileSize(m) = Size /\ totalBlocks = N /\ N \in Nat /\ Size \in Nat
  BY <1>1, OneFile, OneJob DEF OneByOne, DInv, FileKnown
<1>3. dataBuffers' = [dataBuffers EXCEPT ![recvEvent.dataEvent] = Free]
      /\ UNCHANGED <<totalBlocks, blockReplies>>
  BY DEF HandleFileBlock, HandleFileBlockAs, jobVars, netVars
<1>4. ProcessReceivedDataBlock(m) =
        {[blockId |-> c, length |-> length, decoded |-> TRUE]}
  BY <1>2 DEF ProcessReceivedDataBlock, OneByOne
<1>5. PICK stray \in BOOLEAN :
         /\ Fits(length)
         /\ IF IsBlockNeeded(c, stray)
            THEN StoreBlock(m, [blockId |-> c, length |-> length, decoded |-> TRUE])
            ELSE UNCHANGED <<progressVars, downloadedData>>
  <2>1. PICK received \in ProcessReceivedDataBlock(m), stray \in BOOLEAN :
           /\ Fits(received.length)
           /\ IF IsBlockNeeded(received.blockId, stray)
              THEN StoreBlock(m, received)
              ELSE UNCHANGED <<progressVars, downloadedData>>
    BY DEF HandleFileBlock, HandleFileBlockAs
  <2>2. received = [blockId |-> c, length |-> length, decoded |-> TRUE]
    BY <1>4, <2>1
  <2> HIDE DEF m, c, length
  <2> QED BY <2>1, <2>2
<1>6. Ready(m)
  BY <1>1, AgentAssumption DEF WInv, RepliesInOrder
<1>7. dataBuffers \in [BufferIndices -> Blocks \cup {Free}]
  BY DEF IInv, TypeOK, QueueTypeOK
<1>8. CASE UNCHANGED <<progressVars, downloadedData>>
  BY <1>3, <1>7, <1>8, QuietWInv DEF progressVars
<1>9. CASE IsBlockNeeded(c, stray)
  <2>1. c < BitmapBits
    BY <1>2, BitOfBlock
  <2>2. c \notin blockBitmap
    BY <1>9, <2>1 DEF IsBlockNeeded
  <2>3. /\ blockBitmap' = blockBitmap \cup {c}
        /\ totalBytesReceived' = totalBytesReceived + length
        /\ downloadedData' = [b \in DOMAIN downloadedData \cup {c} |->
                                IF b = c THEN m ELSE downloadedData[b]]
    BY <1>5, <1>9, <2>1 DEF StoreBlock, MarkBlockDownloaded
  <2>4. blockBitmap = 0..(c - 1) /\ totalBytesReceived = c * BLOCK_SIZE
    <3>1. PICK n \in Nat : /\ blockBitmap = 0..(n - 1)
                           /\ n < totalBlocks => totalBytesReceived = n * BLOCK_SIZE
      BY <1>1 DEF WInv, BytesOfPrefix
    <3>2. n = c
      <4>1. n <= c
        BY <1>2, <2>2, <3>1
      <4>2. CASE c > n
        <5>1. n \in 0..(c - 1)
          BY <1>2, <4>2
        <5> QED BY <1>6, <3>1, <5>1 DEF Ready
      <4> QED BY <1>2, <4>1, <4>2
    <3> QED BY <1>2, <3>1, <3>2
  <2>5. /\ length \in Nat
        /\ c * BLOCK_SIZE + length = IF c + 1 = N THEN Size ELSE (c + 1) * BLOCK_SIZE
    BY <1>2, BlockEnd, BlockLengthType DEF N
  <2>6. blockBitmap' = 0..c /\ blockBitmap' # NoBitmap
    BY <1>2, <2>3, <2>4 DEF NoBitmap
  <2>7. RepliesInOrder'
    <3>1. \A x : Ready(x) => 0..(x.block - 1) \subseteq blockBitmap'
      BY <2>3 DEF Ready
    <3>2. \A x : Ready(x) => Ready(x)'
      BY <2>6, <3>1 DEF Ready
    <3> QED BY <1>3, <1>7, <3>2 DEF WInv, RepliesInOrder
  <2>8. BytesOfPrefix'
    <3>1. blockBitmap' = 0..((c + 1) - 1) /\ c + 1 \in Nat
      BY <1>2, <2>6
    <3>2. c + 1 < totalBlocks' => totalBytesReceived' = (c + 1) * BLOCK_SIZE
      BY <1>2, <1>3, <2>3, <2>4, <2>5
    <3> QED BY <3>1, <3>2 DEF BytesOfPrefix
  <2>9. WriteInBounds'
    <3>1. c * BLOCK_SIZE + length <= CONFIG_MAX_FILE_SIZE
      BY <1>2, <1>5, <2>4, <2>5, BlockSizeAssumption, MaxFileSizeAssumption DEF Fits
    <3> HIDE DEF length, c, m
    <3> QED BY <1>2, <2>3, <3>1 DEF WInv, WriteInBounds, length
  <2> QED BY <2>7, <2>8, <2>9 DEF WInv
<1> QED BY <1>5, <1>8, <1>9

(* T_MQTT moves a block from the network to the pool, the others nothing.  *)
LEMMA OthersWInv ==
    ASSUME IInv, WInv, MqttTask \/ SuspendTask \/ ServerNextJob \/ LoseReply
    PROVE  WInv'
<1> USE DEF HandleJobDocument, HandleDataBlock, HandleDataBlockWithoutBuffer, IgnoreDataBlock,
            TakeBlockReply
<1>1. UNCHANGED <<blockBitmap, totalBlocks, totalBytesReceived, downloadedData>>
  BY DEF MqttTask, ReceiveJobReply, ReceiveBlockReply, SuspendTask, CheckSuspend, CheckResume,
     SuspendTaskVars, ServerNextJob, LoseReply, AgentVars, jobVars, progressVars
<1>2. DOMAIN blockReplies' \subseteq DOMAIN blockReplies
  BY BagSubDomain DEF MqttTask, ReceiveJobReply, ReceiveBlockReply, SuspendTask, CheckSuspend,
     CheckResume, SuspendTaskVars, ServerNextJob, LoseReply, netVars
<1>3. dataBuffers \in [BufferIndices -> Blocks \cup {Free}]
  BY DEF IInv, TypeOK, QueueTypeOK
<1>4. \/ UNCHANGED dataBuffers
      \/ \E m \in DOMAIN blockReplies, i \in BufferIndices :
            dataBuffers' = [dataBuffers EXCEPT ![i] = m]
  BY DEF MqttTask, ReceiveJobReply, ReceiveBlockReply, SuspendTask, CheckSuspend, CheckResume,
     SuspendTaskVars, ServerNextJob, LoseReply, AgentVars, BagToSet
<1> QED BY <1>1, <1>2, <1>3, <1>4, QuietWInv

(* Every step of the system preserves it.                                  *)
LEMMA NextWInv == OneByOne /\ IInv /\ DInv /\ WInv /\ [Next]_vars => WInv'
<1> SUFFICES ASSUME OneByOne, IInv, DInv, WInv, [Next]_vars PROVE WInv'
  OBVIOUS
<1>1. CASE UNCHANGED vars
  <2>1. UNCHANGED <<blockBitmap, totalBlocks, totalBytesReceived, downloadedData, blockReplies,
                    dataBuffers>>
    BY <1>1 DEF vars, jobVars, progressVars, netVars
  <2> QED BY <2>1, QuietWInv
<1>2. CASE OtaTask
  BY <1>2, QuietOtaWInv, ParseWInv, RequestWInv, HandleWInv DEF OneByOne
<1>3. CASE MqttTask \/ SuspendTask \/ ServerNextJob \/ LoseReply
  BY <1>3, OthersWInv
<1> QED BY <1>1, <1>2, <1>3 DEF Next

(* With one OTA job, NUM_OF_BLOCKS_REQUESTED as the code has it and blocks *)
(* that decode, handleMqttStreamsBlockArrived writes no byte beyond        *)
(* downloadedData, however large the file the job document announces.      *)
THEOREM WritesAreInBounds ==
    SingleOtaJob /\ NUM_OF_BLOCKS_REQUESTED = 1 /\ ~MayCorrupt /\ Spec => []WriteInBounds
<1> SUFFICES ASSUME SingleOtaJob, NUM_OF_BLOCKS_REQUESTED = 1, ~MayCorrupt
             PROVE  Spec => []WriteInBounds
  OBVIOUS
<1>1. OneByOne
  BY DEF OneByOne
<1>2. Init => WInv
  BY InitWInv
<1>3. IInv /\ DInv /\ WInv /\ [Next]_vars => WInv'
  BY <1>1, NextWInv
<1>4. WInv => WriteInBounds
  BY DEF WInv
<1> QED BY <1>2, <1>3, <1>4, SpecIInv, SpecDInv, PTL DEF Spec

-----------------------------------------------------------------------------
(* Writes stay inside downloadedData when the files do, whichever job's    *)
(* blocks are in place.                                                    *)

FilesFit ==
    \A j \in Jobs : \A f \in DOMAIN JobQueue[j].files :
        JobQueue[j].files[f] <= CONFIG_MAX_FILE_SIZE

(* A stored block is one the service has, at its own place.                *)
StoredAreServed ==
    \A b \in DOMAIN downloadedData :
        /\ downloadedData[b] \in Blocks
        /\ IsServed(downloadedData[b])
        /\ downloadedData[b].block = b

(* A block a service has ends within the file it is of.                    *)
LEMMA ServedFits ==
    ASSUME FilesFit, NEW m \in Blocks, IsServed(m)
    PROVE  m.block * BLOCK_SIZE + BlockLength(FileSize(m), m.block) <= CONFIG_MAX_FILE_SIZE
<1> DEFINE size == FileSize(m)
           b == m.block
<1>1. m.job \in Jobs /\ m.file + 1 \in DOMAIN JobQueue[m.job].files
      /\ b \in Nat /\ b < NumBlocks(size)
  BY DEF IsServed, Blocks
<1>2. size \in Nat /\ size <= CONFIG_MAX_FILE_SIZE
  <2> DEFINE files == JobQueue[m.job].files
  <2>1. files \in Seq(0..(UINT32_RANGE - 1)) /\ m.file + 1 \in 1..Len(files)
    BY <1>1, JobType
  <2> HIDE DEF files
  <2>2. files[m.file + 1] \in 0..(UINT32_RANGE - 1)
    BY <2>1, ElementOfSeq
  <2>3. size = files[m.file + 1]
    BY DEF FileSize, files
  <2> QED BY <1>1, <2>2, <2>3, UintAssumption DEF FilesFit, files
<1> HIDE DEF size, b
<1>3. b * BLOCK_SIZE + BlockLength(size, b)
        = IF b + 1 = NumBlocks(size) THEN size ELSE (b + 1) * BLOCK_SIZE
  BY <1>1, <1>2, BlockEnd
<1>4. b + 1 # NumBlocks(size) => (b + 1) * BLOCK_SIZE <= size
  <2> SUFFICES ASSUME b + 1 # NumBlocks(size) PROVE (b + 1) * BLOCK_SIZE <= size
    OBVIOUS
  <2>1. NumBlocks(size) \in Nat
    BY <1>2, NumBlocksType
  <2>2. b + 1 < NumBlocks(size)
    BY <1>1, <2>1
  <2>3. (b + 1) * BLOCK_SIZE < size
    BY <1>1, <1>2, <2>2, BlockStart
  <2> QED BY <1>1, <1>2, <2>3, BlockSizeAssumption
<1>5. CASE b + 1 = NumBlocks(size)
  BY <1>2, <1>3, <1>5 DEF size, b
<1>6. CASE b + 1 # NumBlocks(size)
  <2>1. (b + 1) * BLOCK_SIZE \in Nat
    BY <1>1, BlockSizeAssumption
  <2> QED BY <1>2, <1>3, <1>4, <1>6, <2>1, MaxFileSizeAssumption DEF size, b
<1> QED BY <1>5, <1>6

(* Handling a block stores the one that is in the buffer, if any.          *)
LEMMA HandleStoresServed == IInv /\ StoredAreServed /\ HandleFileBlock => StoredAreServed'
<1> SUFFICES ASSUME IInv, StoredAreServed, HandleFileBlock PROVE StoredAreServed'
  OBVIOUS
<1> DEFINE m == dataBuffers[recvEvent.dataEvent]
<1>1. m \in Blocks /\ IsServed(m)
  BY BlockAtHand DEF HandleFileBlock, HandleFileBlockAs
<1>2. \/ UNCHANGED downloadedData
      \/ downloadedData' = [b \in DOMAIN downloadedData \cup {m.block} |->
                               IF b = m.block THEN m ELSE downloadedData[b]]
  BY DEF HandleFileBlock, HandleFileBlockAs, StoreBlock
<1> HIDE DEF m
<1> QED BY <1>1, <1>2 DEF StoredAreServed

(* No other step stores anything; parsing a document may clear the image.  *)
LEMMA OthersStoreNothing ==
    ASSUME [Next]_vars, ~HandleFileBlock
    PROVE  downloadedData' = downloadedData \/ DOMAIN downloadedData' = {}
<1>1. CASE ParseJobDocument
  BY <1>1 DEF ParseJobDocument, InitMqttDownloader
<1>2. CASE RequestFileBlockWithoutBitmap
  BY <1>2, Zenon DEF RequestFileBlockWithoutBitmap, progressVars, jobVars
<1>3. CASE OtaTask /\ ~ParseJobDocument /\ ~RequestFileBlockWithoutBitmap
  BY <1>3 DEF OtaTask, ReceiveEvent, RequestJobDocument, DropJobDocument, IdentifyJob,
     RequestFileBlock, DropFileBlock, AssertFileBlockFits, CloseFile, Suspend, Resume,
     SendNextEvent, SetAgentState
<1>4. CASE MqttTask \/ SuspendTask \/ ServerNextJob \/ LoseReply
  BY <1>4 DEF MqttTask, ReceiveJobReply, ReceiveBlockReply, HandleJobDocument, HandleDataBlock,
     HandleDataBlockWithoutBuffer, IgnoreDataBlock, SuspendTask, CheckSuspend, CheckResume,
     SuspendTaskVars, ServerNextJob, LoseReply, AgentVars
<1>5. CASE UNCHANGED vars
  BY <1>5 DEF vars
<1> QED BY <1>1, <1>2, <1>3, <1>4, <1>5 DEF Next

(* When no file is larger than downloadedData, no byte is written beyond   *)
(* it: for any jobs, however their messages are interleaved, however many  *)
(* blocks are asked for at a time and whether they decode or not, for the  *)
(* place of a block depends on its number alone.                           *)
THEOREM WritesFit == FilesFit /\ Spec => []WriteInBounds
<1> SUFFICES ASSUME FilesFit PROVE Spec => []WriteInBounds
  OBVIOUS
<1>1. Init => StoredAreServed
  BY DEF Init, StoredAreServed
<1>2. IInv /\ StoredAreServed /\ [Next]_vars => StoredAreServed'
  <2> SUFFICES ASSUME IInv, StoredAreServed, [Next]_vars PROVE StoredAreServed'
    OBVIOUS
  <2>1. CASE HandleFileBlock
    BY <2>1, HandleStoresServed
  <2>2. CASE ~HandleFileBlock
    <3>1. downloadedData' = downloadedData \/ DOMAIN downloadedData' = {}
      BY <2>2, OthersStoreNothing
    <3> QED BY <3>1 DEF StoredAreServed
  <2> QED BY <2>1, <2>2
<1>3. StoredAreServed => WriteInBounds
  <2> SUFFICES ASSUME StoredAreServed, NEW b \in DOMAIN downloadedData
               PROVE  b * BLOCK_SIZE + BlockLength(FileSize(downloadedData[b]), b)
                        <= CONFIG_MAX_FILE_SIZE
    BY DEF WriteInBounds
  <2>1. downloadedData[b] \in Blocks /\ IsServed(downloadedData[b])
        /\ downloadedData[b].block = b
    BY DEF StoredAreServed
  <2> QED BY <2>1, ServedFits
<1> QED BY <1>1, <1>2, <1>3, SpecIInv, PTL DEF Spec
=============================================================================
