--------------------------- MODULE SimpleOta_proof ---------------------------
(***************************************************************************)
(* Proofs about SimpleOta when every OTA job has one file: what is stored  *)
(* is a prefix of the file, and success is reported for the whole of it.   *)
(* The jobs, the sizes, and what is lost are arbitrary.                    *)
(***************************************************************************)
EXTENDS SimpleOta, OtaJobs_proof

USE DEF JobDocs, Jobs, NoJob

OneFilePerJob == \A j \in Jobs : Len(JobQueue[j].files) <= 1

Total == NumBlocks(CurrentSize)

(* The number of blocks handled.                                           *)
Handled == Total - numOfBlocksRemaining

NextBlock == [job |-> stream, file |-> 0, block |-> currentBlockOffset]

(* The job is asked for once, and the answer is handled once.              *)
AskedOnce ==
    /\ stream \in Streams /\ serverJob \in JobDocs
    /\ jobReplies \subseteq {serverJob}
    /\ otaTask \in {"connect", "start", "idle"}
    /\ otaTask # "idle" => jobReplies = {} /\ stream = NoStream /\ globalJobId = <<>>
    /\ jobReplies # {} => stream = NoStream /\ globalJobId = <<>>
    /\ stream = NoStream => blockReplies = {} /\ jobUpdate = NoUpdate /\ updateReplies = {}

(* The numbers are those of the job's only file.                           *)
FileOfTheJob ==
    stream # NoStream =>
        /\ stream \in Jobs /\ currentFileId = 0 /\ Len(JobQueue[stream].files) = 1
        /\ numOfBlocksRemaining \in 0..Total
        /\ numOfBlocksRemaining > 0 => globalJobId = JobQueue[stream].id
        /\ jobUpdate # NoUpdate => jobUpdate = JobQueue[stream].id
        /\ updateReplies # {} \/ jobUpdate # NoUpdate => numOfBlocksRemaining = 0

(* The one block in transit is the one that is stored next.                *)
OneBlockInTransit ==
    /\ blockReplies \subseteq {NextBlock}
    /\ stream # NoStream /\ blockReplies # {} =>
         currentBlockOffset = Handled /\ numOfBlocksRemaining > 0

Prefix ==
    stream # NoStream /\ ~undecoded =>
        /\ downloadedData = FirstBlocks(Handled)
        /\ totalBytesReceived = IF Handled = Total THEN CurrentSize ELSE Handled * BLOCK_SIZE

SInv == AskedOnce /\ FileOfTheJob /\ OneBlockInTransit /\ Prefix

-----------------------------------------------------------------------------
(* The file of the started job: a 32-bit size and number of blocks.        *)
LEMMA TheFile ==
    ASSUME SInv, stream # NoStream
    PROVE  /\ CurrentSize \in 0..(UINT32_RANGE - 1)
           /\ Total \in 0..(UINT32_RANGE - 1)
           /\ JobQueue[stream].id \in Seq(Nat) /\ JobQueue[stream].id # <<>>
<1>1. stream \in Jobs /\ currentFileId = 0 /\ Len(JobQueue[stream].files) = 1
  BY DEF SInv, FileOfTheJob
<1>2. JobQueue[stream].files \in Seq(0..(UINT32_RANGE - 1)) /\ JobQueue[stream].id \in Seq(Nat)
  BY <1>1, JobType
<1>3. CurrentSize \in 0..(UINT32_RANGE - 1)
  <2>1. 1 \in 1..Len(JobQueue[stream].files)
    BY <1>1
  <2>2. CurrentSize = JobQueue[stream].files[1]
    BY <1>1 DEF CurrentSize
  <2> QED BY <1>2, <2>1, <2>2, ElementOfSeq
<1>4. Total \in 0..(UINT32_RANGE - 1)
  BY <1>3, NumBlocksType, UintAssumption DEF Total
<1> QED BY <1>1, <1>2, <1>3, <1>4, JobQueueAssumption

(* The same of the next state.                                             *)
LEMMA TheFileNext ==
    SInv' /\ stream' # NoStream =>
        CurrentSize' \in 0..(UINT32_RANGE - 1) /\ Total' \in 0..(UINT32_RANGE - 1)
<1>1. SInv /\ stream # NoStream =>
         CurrentSize \in 0..(UINT32_RANGE - 1) /\ Total \in 0..(UINT32_RANGE - 1)
  BY TheFile
<1>2. (SInv /\ stream # NoStream =>
         CurrentSize \in 0..(UINT32_RANGE - 1) /\ Total \in 0..(UINT32_RANGE - 1))'
  BY <1>1, PTL
<1> QED BY <1>2

(* The first blocks of a file and the next one are the first blocks.       *)
LEMMA OneMoreBlock ==
    ASSUME NEW n \in Nat, NEW m,
           m = [job |-> stream, file |-> currentFileId, block |-> n]
    PROVE  Append(FirstBlocks(n), m) = FirstBlocks(n + 1)
<1> DEFINE B == {[job |-> stream, file |-> currentFileId, block |-> k] : k \in Nat}
<1>1. FirstBlocks(n) \in Seq(B) /\ Len(FirstBlocks(n)) = n
  <2>1. \A k \in 1..n : FirstBlocks(n)[k] \in B
    BY DEF FirstBlocks
  <2>2. FirstBlocks(n) \in [1..n -> B]
    BY <2>1 DEF FirstBlocks
  <2> HIDE DEF B
  <2> QED BY <2>2
<1>2. m \in B
  OBVIOUS
<1> HIDE DEF B
<1>3. /\ Append(FirstBlocks(n), m) \in [1..(n + 1) -> B]
      /\ \A k \in 1..n : Append(FirstBlocks(n), m)[k] = FirstBlocks(n)[k]
      /\ Append(FirstBlocks(n), m)[n + 1] = m
  <2> DEFINE s == FirstBlocks(n)
  <2>1. s \in Seq(B) /\ Len(s) = n
    BY <1>1
  <2> HIDE DEF s
  <2>2. Append(s, m) \in Seq(B) /\ Len(Append(s, m)) = n + 1
    BY <1>2, <2>1, AppendProperties
  <2>3. Append(s, m) \in [1..(n + 1) -> B]
    BY <2>2, LenProperties
  <2>4. (\A k \in 1..n : Append(s, m)[k] = s[k]) /\ Append(s, m)[n + 1] = m
    BY <1>2, <2>1, AppendProperties
  <2> USE DEF s
  <2> QED BY <2>3, <2>4
<1>4. \A k \in 1..(n + 1) : Append(FirstBlocks(n), m)[k] = FirstBlocks(n + 1)[k]
  BY <1>3 DEF FirstBlocks
<1> QED BY <1>3, <1>4 DEF FirstBlocks

(* The block that is stored is the one the count says comes next.          *)
LEMMA StoreNext ==
    ASSUME SInv, NEW m, StoreBlock(m)
    PROVE  /\ stream # NoStream /\ m = NextBlock
           /\ currentBlockOffset = Handled /\ Handled \in Nat /\ Handled < Total
           /\ numOfBlocksRemaining' = numOfBlocksRemaining - 1
           /\ RemainingAfter = numOfBlocksRemaining - 1
           /\ Total' = Total /\ Handled' = Handled + 1 /\ CurrentSize' = CurrentSize
           /\ blockReplies \ {m} = {}
           /\ Prefix'
<1>1. stream # NoStream /\ m = NextBlock /\ blockReplies \ {m} = {}
  BY DEF StoreBlock, SInv, AskedOnce, OneBlockInTransit
<1>2. currentBlockOffset = Handled /\ numOfBlocksRemaining > 0 /\ numOfBlocksRemaining \in 0..Total
  BY <1>1 DEF StoreBlock, SInv, OneBlockInTransit, FileOfTheJob
<1>3. CurrentSize \in Nat /\ Total \in 0..(UINT32_RANGE - 1)
  BY <1>1, TheFile, UintAssumption
<1>4. Handled \in Nat /\ Handled < Total
  BY <1>2, <1>3 DEF Handled
<1>5. RemainingAfter = numOfBlocksRemaining - 1 /\ numOfBlocksRemaining' = numOfBlocksRemaining - 1
  <2>1. numOfBlocksRemaining - 1 \in 0..(UINT32_RANGE - 1)
    BY <1>2, <1>3, UintAssumption
  <2>2. \A x \in 0..(UINT32_RANGE - 1) : x % UINT32_RANGE = x
    BY UintAssumption
  <2> QED BY <2>1, <2>2 DEF RemainingAfter, StoreBlock
<1>6. /\ Total' = Total /\ CurrentSize' = CurrentSize
      /\ stream' = stream /\ currentFileId' = currentFileId
  BY DEF StoreBlock, Total, CurrentSize
<1>7. Handled' = Handled + 1
  BY <1>2, <1>3, <1>5, <1>6 DEF Handled
<1>8. ASSUME ~undecoded' PROVE Prefix'
  <2> DEFINE length == BlockLength(FileSize(m), m.block)
  <2>1. currentFileId = 0 /\ m = [job |-> stream, file |-> currentFileId, block |-> Handled]
    BY <1>1, <1>2 DEF NextBlock, SInv, FileOfTheJob
  <2>2. FileSize(m) = CurrentSize /\ m.block = Handled
    BY <2>1 DEF FileSize, CurrentSize
  <2>3. /\ length > 0
        /\ Handled * BLOCK_SIZE + length
             = IF Handled + 1 = Total THEN CurrentSize ELSE (Handled + 1) * BLOCK_SIZE
    BY <2>2, <1>3, <1>4, BlockEnd DEF Total
  <2>4. /\ ~undecoded
        /\ downloadedData' = Append(downloadedData, m)
        /\ totalBytesReceived' = totalBytesReceived + length
    BY <1>8 DEF StoreBlock, Lengths
  <2>5. /\ downloadedData = FirstBlocks(Handled)
        /\ totalBytesReceived = Handled * BLOCK_SIZE
    BY <1>1, <1>4, <2>4 DEF SInv, Prefix
  <2>6. downloadedData' = FirstBlocks(Handled + 1)
    BY <1>4, <2>1, <2>4, <2>5, OneMoreBlock
  <2>7. downloadedData' = [k \in 1..Handled' |->
                              [job |-> stream', file |-> currentFileId', block |-> k - 1]]
    BY <1>6, <1>7, <2>6 DEF FirstBlocks
  <2>8. totalBytesReceived' = IF Handled' = Total' THEN CurrentSize' ELSE Handled' * BLOCK_SIZE
    <3> HIDE DEF length
    <3> QED BY <1>6, <1>7, <2>3, <2>4, <2>5
  <2> QED BY <2>7, <2>8 DEF Prefix, FirstBlocks
<1>9. Prefix'
  BY <1>8 DEF Prefix
<1> QED BY <1>1, <1>2, <1>4, <1>5, <1>6, <1>7, <1>9

-----------------------------------------------------------------------------
(* Nothing is asked, stored or reported at first.                          *)
LEMMA InitSInv == Init => SInv
BY DEF Init, SInv, AskedOnce, FileOfTheJob, OneBlockInTransit, Prefix, NoUpdate, Streams, NoStream

(* Steps that leave the file alone and at most take replies away.          *)
LEMMA QuietSInv ==
    ASSUME SInv, UNCHANGED <<fileVars, serverJob, otaTask, undecoded>>,
           UNCHANGED globalJobId \/ (globalJobId' = <<>> /\ updateReplies # {}),
           jobReplies' \subseteq jobReplies, blockReplies' \subseteq blockReplies,
           updateReplies' \subseteq updateReplies, UNCHANGED jobUpdate
    PROVE  SInv'
<1>1. /\ Total' = Total /\ CurrentSize' = CurrentSize /\ Handled' = Handled
      /\ NextBlock' = NextBlock /\ \A n : FirstBlocks(n)' = FirstBlocks(n)
  BY DEF fileVars, Total, CurrentSize, Handled, NextBlock, FirstBlocks
<1>2. AskedOnce'
  BY DEF SInv, AskedOnce, fileVars
<1>3. FileOfTheJob'
  <2>1. SUFFICES ASSUME stream # NoStream PROVE FileOfTheJob'
    BY DEF FileOfTheJob, fileVars
  <2>2. numOfBlocksRemaining > 0 => UNCHANGED globalJobId
    BY <2>1 DEF SInv, FileOfTheJob
  <2> QED BY <1>1, <2>1, <2>2 DEF SInv, FileOfTheJob, fileVars
<1>4. OneBlockInTransit'
  BY <1>1 DEF SInv, OneBlockInTransit, fileVars
<1>5. Prefix'
  BY <1>1 DEF SInv, Prefix, fileVars, FirstBlocks
<1> QED BY <1>2, <1>3, <1>4, <1>5 DEF SInv

(* T_OTA asks once.                                                        *)
LEMMA OtaTaskSInv == SInv /\ OtaTask => SInv'
<1> SUFFICES ASSUME SInv, OtaTask PROVE SInv'
  OBVIOUS
<1>1. /\ UNCHANGED <<globalJobId, fileVars, serverJob, blockReplies, updateVars, undecoded>>
      /\ otaTask # "idle" /\ otaTask' \in {"start", "idle"}
      /\ jobReplies' \subseteq {serverJob} /\ (otaTask' # "idle" => jobReplies' = {})
  <2>1. ASSUME NEW sent \in Published({serverJob}) PROVE sent \subseteq {serverJob}
    BY DEF Published
  <2>2. CASE Connect
    BY <2>2 DEF Connect, SInv, AskedOnce
  <2>3. CASE OtaDemoStart
    BY <2>1, <2>3 DEF OtaDemoStart
  <2> QED BY <2>2, <2>3 DEF OtaTask
<1>2. stream = NoStream /\ stream' = NoStream /\ globalJobId = <<>>
  BY <1>1 DEF SInv, AskedOnce, fileVars
<1> QED BY <1>1, <1>2 DEF SInv, AskedOnce, FileOfTheJob, OneBlockInTransit, Prefix, fileVars,
                          updateVars

(* A refused document leaves an identifier and no file.                    *)
LEMMA RefuseSInv == ASSUME SInv, NEW doc, RefuseJobDocument(doc) PROVE SInv'
<1>1. stream = NoStream /\ stream' = NoStream /\ jobReplies' = {} /\ otaTask = "idle"
  BY DEF RefuseJobDocument, SInv, AskedOnce, fileVars
<1> QED BY <1>1 DEF RefuseJobDocument, SInv, AskedOnce, FileOfTheJob, OneBlockInTransit, Prefix,
                    fileVars, updateVars

(* The requested blocks that can come back are among those requested.      *)
LEMMA RequestedReplies ==
    ASSUME NEW others, NEW requests, RequestDataBlocks(others, requests)
    PROVE  blockReplies' \subseteq others \cup {m \in requests : IsServed(m)}
<1>1. ASSUME NEW sent \in Published(requests) PROVE sent \subseteq requests
  BY DEF Published
<1> QED BY <1>1 DEF RequestDataBlocks

(* The download starts with nothing stored and the first block requested.  *)
LEMMA ProcessSInv == ASSUME OneFilePerJob, SInv, NEW doc, ProcessJobFiles(doc) PROVE SInv'
<1> DEFINE files == JobQueue[doc].files
<1>1. /\ doc \in JobDocs /\ doc # NoJob /\ stream = NoStream /\ globalJobId = <<>>
      /\ jobReplies' = {} /\ otaTask = "idle" /\ serverJob = doc
  BY DEF ProcessJobFiles, FilesOf, SInv, AskedOnce
<1>2. doc \in Jobs /\ files # <<>> /\ files \in Seq(0..(UINT32_RANGE - 1))
  BY <1>1, JobType DEF ProcessJobFiles, FilesOf
<1>3. Len(files) = 1 /\ DOMAIN files = {1}
  <2>1. Len(files) \in Nat \ {0} /\ Len(files) <= 1 /\ DOMAIN files = 1..Len(files)
    BY <1>2 DEF OneFilePerJob
  <2> HIDE DEF files
  <2> QED BY <2>1
<1>4. /\ stream' = doc /\ currentFileId' = 0 /\ currentBlockOffset' = 0
      /\ numOfBlocksRemaining' = NumBlocks(files[1]) /\ downloadedData' = <<>>
      /\ totalBytesReceived' = 0 /\ globalJobId' = JobQueue[doc].id
      /\ UNCHANGED <<otaTask, serverJob, updateVars>>
  BY <1>1, <1>3 DEF ProcessJobFiles, FilesOf, KeepJobId, GetJobId
<1>5. CurrentSize' = files[1] /\ Total' = NumBlocks(files[1])
  BY <1>4 DEF CurrentSize, Total
<1>6. files[1] \in 0..(UINT32_RANGE - 1) /\ Total' \in Nat
  <2>1. 1 \in 1..Len(files)
    BY <1>3
  <2>2. files[1] \in 0..(UINT32_RANGE - 1)
    <3> HIDE DEF files
    <3> QED BY <1>2, <2>1, ElementOfSeq
  <2> QED BY <1>5, <2>2, NumBlocksType, UintAssumption
<1>7. Handled' = 0 /\ numOfBlocksRemaining' = Total'
  BY <1>4, <1>5, <1>6 DEF Handled
<1>8. blockReplies' \subseteq {m \in {NextBlock'} : IsServed(m)}
  <2>1. {[job |-> doc, file |-> f - 1, block |-> 0] : f \in DOMAIN files} = {NextBlock'}
    BY <1>3, <1>4 DEF NextBlock
  <2>2. RequestDataBlocks(blockReplies, {NextBlock'}) /\ blockReplies = {}
    BY <1>1, <2>1 DEF ProcessJobFiles, FilesOf, SInv, AskedOnce
  <2> QED BY <2>2, RequestedReplies
<1>9. blockReplies' # {} => Total' > 0
  <2>1. FileSize(NextBlock') = files[1]
    BY <1>4 DEF NextBlock, FileSize
  <2> QED BY <1>4, <1>5, <1>8, <2>1 DEF IsServed, NextBlock
<1>10. AskedOnce'
  <2>1. stream' # NoStream /\ stream' \in Streams
    BY <1>1, <1>2, <1>4 DEF Streams, NoStream
  <2>2. serverJob' \in JobDocs /\ jobReplies' = {} /\ otaTask' = "idle"
    BY <1>1, <1>4
  <2> QED BY <2>1, <2>2 DEF AskedOnce
<1>11. FileOfTheJob'
  BY <1>1, <1>2, <1>3, <1>4, <1>6, <1>7 DEF FileOfTheJob, SInv, AskedOnce, updateVars
<1>12. OneBlockInTransit'
  BY <1>4, <1>6, <1>7, <1>8, <1>9 DEF OneBlockInTransit
<1>13. Prefix'
  <2>1. FirstBlocks(0)' = <<>>
    BY DEF FirstBlocks
  <2>2. totalBytesReceived' = IF Handled' = Total' THEN CurrentSize' ELSE Handled' * BLOCK_SIZE
    <3>1. Total' = 0 => files[1] = 0
      <4>1. files[1] \in Nat
        BY <1>6, UintAssumption
      <4> HIDE DEF files
      <4> QED BY <1>5, <4>1, EmptyFile
    <3> HIDE DEF files
    <3> QED BY <1>4, <1>5, <1>7, <3>1, BlockSizeAssumption
  <2> QED BY <1>4, <1>7, <2>1, <2>2 DEF Prefix, FirstBlocks
<1> QED BY <1>10, <1>11, <1>12, <1>13 DEF SInv

(* A block is stored and the next one is requested.                        *)
LEMMA HandleBlockSInv == ASSUME SInv, NEW m, HandleBlock(m) PROVE SInv'
<1>1. StoreBlock(m)
  BY DEF HandleBlock
<1>2. /\ stream # NoStream /\ stream' = stream /\ currentFileId' = currentFileId
      /\ numOfBlocksRemaining - 1 # 0 /\ numOfBlocksRemaining' = numOfBlocksRemaining - 1
      /\ UNCHANGED <<otaTask, serverJob, jobReplies, globalJobId, updateVars>>
  BY <1>1, StoreNext DEF HandleBlock, StoreBlock, IsLastBlock
<1>3. Prefix' /\ Total' = Total /\ Handled' = Handled + 1 /\ currentBlockOffset' = Handled'
  BY <1>1, StoreNext DEF HandleBlock, NextBlockOffset
<1>4. blockReplies' \subseteq {NextBlock'}
  <2>1. currentFileId = 0
    BY <1>2 DEF SInv, FileOfTheJob
  <2>2. NextBlock' = [job |-> stream, file |-> currentFileId, block |-> NextBlockOffset]
    BY <1>2, <2>1 DEF NextBlock, HandleBlock
  <2>3. RequestDataBlocks({}, {NextBlock'})
    BY <1>1, <2>2, StoreNext DEF HandleBlock
  <2> QED BY <2>3, RequestedReplies
<1>5. numOfBlocksRemaining' > 0 /\ numOfBlocksRemaining' \in 0..Total
  <2>1. numOfBlocksRemaining \in 0..Total /\ Total \in Nat /\ numOfBlocksRemaining > 0
    BY <1>1, <1>2, TheFile, StoreNext, UintAssumption
       DEF SInv, FileOfTheJob, OneBlockInTransit, StoreBlock
  <2> QED BY <1>2, <2>1
<1>6. AskedOnce'
  BY <1>2 DEF SInv, AskedOnce, updateVars
<1>7. FileOfTheJob'
  BY <1>2, <1>3, <1>5 DEF SInv, FileOfTheJob, updateVars
<1>8. OneBlockInTransit'
  BY <1>3, <1>4, <1>5 DEF OneBlockInTransit
<1> QED BY <1>3, <1>6, <1>7, <1>8 DEF SInv

(* The last block is stored and success is reported.                       *)
LEMMA HandleLastBlockSInv == ASSUME SInv, NEW m, HandleLastBlock(m) PROVE SInv'
<1>1. StoreBlock(m)
  BY DEF HandleLastBlock
<1>2. /\ stream # NoStream /\ stream' = stream /\ currentFileId' = currentFileId
      /\ numOfBlocksRemaining > 0 /\ numOfBlocksRemaining' = 0
      /\ blockReplies' = {}
      /\ UNCHANGED <<otaTask, serverJob, jobReplies, globalJobId>>
  BY <1>1, StoreNext DEF HandleLastBlock, StoreBlock, IsLastBlock, SInv, OneBlockInTransit
<1>3. Prefix' /\ Total' = Total
  BY <1>1, StoreNext
<1>4. globalJobId = JobQueue[stream].id /\ Total \in Nat
  BY <1>2, TheFile, UintAssumption DEF SInv, FileOfTheJob
<1>5. jobUpdate' \in {jobUpdate, globalJobId}
  BY DEF HandleLastBlock, updateVars
<1>6. AskedOnce'
  BY <1>2 DEF SInv, AskedOnce
<1>7. FileOfTheJob'
  BY <1>2, <1>3, <1>4, <1>5 DEF SInv, FileOfTheJob
<1>8. OneBlockInTransit'
  BY <1>2 DEF OneBlockInTransit
<1> QED BY <1>3, <1>6, <1>7, <1>8 DEF SInv

(* The other steps take replies away and no more.                          *)
LEMMA OthersSInv ==
    ASSUME SInv,
           \/ \E m \in blockReplies : AssertBlockFits(m)
           \/ ClearJobId \/ ReceiveFails \/ LoseConnection \/ LoseReply
           \/ UNCHANGED vars
    PROVE  SInv'
<1>1. CASE \E m \in blockReplies : AssertBlockFits(m)
  BY <1>1, QuietSInv DEF AssertBlockFits, fileVars, updateVars
<1>2. CASE ClearJobId
  BY <1>2, QuietSInv DEF ClearJobId, fileVars
<1>3. CASE ReceiveFails
  BY <1>3, QuietSInv DEF ReceiveFails, updateVars
<1>4. CASE LoseConnection
  BY <1>4, QuietSInv DEF LoseConnection, updateVars
<1>5. CASE LoseReply
  BY <1>5, QuietSInv DEF LoseReply
<1>6. CASE UNCHANGED vars
  BY <1>6, QuietSInv DEF vars, updateVars
<1> QED BY <1>1, <1>2, <1>3, <1>4, <1>5, <1>6

(* Every step preserves the invariant.                                     *)
LEMMA NextSInv == OneFilePerJob /\ SInv /\ [Next]_vars => SInv'
<1> SUFFICES ASSUME OneFilePerJob, SInv, [Next]_vars PROVE SInv'
  OBVIOUS
<1>1. CASE OtaTask
  BY <1>1, OtaTaskSInv
<1>2. ASSUME NEW doc \in jobReplies, RefuseJobDocument(doc) \/ ProcessJobFiles(doc)
      PROVE  SInv'
  BY <1>2, RefuseSInv, ProcessSInv
<1>3. ASSUME NEW m \in blockReplies, HandleBlock(m) \/ HandleLastBlock(m)
      PROVE  SInv'
  BY <1>3, HandleBlockSInv, HandleLastBlockSInv
<1> QED BY <1>1, <1>2, <1>3, OthersSInv DEF Next, HandleMessage

(* The invariant holds in every reachable state.                           *)
LEMMA SpecSInv == OneFilePerJob /\ Spec => []SInv
<1> SUFFICES ASSUME OneFilePerJob PROVE Spec => []SInv
  OBVIOUS
<1>1. Init => SInv
  BY InitSInv
<1>2. SInv /\ [Next]_vars => SInv'
  BY NextSInv
<1> QED BY <1>1, <1>2, PTL DEF Spec

-----------------------------------------------------------------------------
(* What is stored is always the beginning of the file, at its offset, and  *)
(* the count says what is left.                                            *)
THEOREM StoresPrefix == OneFilePerJob /\ Spec => []StoredIsPrefix
<1>1. SInv => StoredIsPrefix
  <2> SUFFICES ASSUME SInv, stream # NoStream, ~undecoded PROVE StoredIsPrefix
    BY DEF StoredIsPrefix
  <2>1. downloadedData = FirstBlocks(Handled) /\ Handled \in Nat /\ Total \in Nat
        /\ Handled + numOfBlocksRemaining = Total
    BY TheFile, UintAssumption DEF SInv, Prefix, FileOfTheJob, Handled
  <2>2. Len(downloadedData) = Handled
    BY <2>1 DEF FirstBlocks
  <2> QED BY <2>1, <2>2 DEF SInv, Prefix, StoredIsPrefix, Total
<1> QED BY <1>1, SpecSInv, PTL

(* Success is reported for the started job, with its whole file stored.    *)
THEOREM ReportIsComplete == OneFilePerJob /\ Spec => []ReportsWholeFile
<1>1. SInv => ReportsWholeFile
  <2> SUFFICES ASSUME SInv, jobUpdate # NoUpdate, ~undecoded PROVE ReportsWholeFile
    BY DEF ReportsWholeFile
  <2>1. stream # NoStream /\ numOfBlocksRemaining = 0 /\ stream \in Jobs
        /\ jobUpdate = JobQueue[stream].id
    BY DEF SInv, AskedOnce, FileOfTheJob
  <2>2. Handled = Total
    BY <2>1, TheFile, UintAssumption DEF Handled
  <2> QED BY <2>1, <2>2 DEF SInv, Prefix, ReportsWholeFile, Total
<1> QED BY <1>1, SpecSInv, PTL

-----------------------------------------------------------------------------
(* The bytes counted are at most those of the blocks handled, since a      *)
(* block that does not decode counts for none.                             *)
BytesHandled ==
    stream # NoStream =>
        /\ totalBytesReceived \in Nat
        /\ totalBytesReceived <= IF Handled = Total THEN CurrentSize ELSE Handled * BLOCK_SIZE

BInv == BytesHandled /\ AssertsOnlyTooLarge

(* A block counts for at most what the file has left at its place.         *)
LEMMA CountedLength ==
    ASSUME SInv, BytesHandled, stream # NoStream,
           currentBlockOffset = Handled, numOfBlocksRemaining > 0,
           NEW length \in Lengths(NextBlock)
    PROVE  /\ length \in Nat
           /\ totalBytesReceived + length
                <= IF Handled + 1 = Total THEN CurrentSize ELSE (Handled + 1) * BLOCK_SIZE
           /\ totalBytesReceived + length <= CurrentSize
<1> DEFINE full == BlockLength(CurrentSize, Handled)
           end  == IF Handled + 1 = Total THEN CurrentSize ELSE (Handled + 1) * BLOCK_SIZE
<1>1. /\ CurrentSize \in Nat /\ Total \in Nat
      /\ Handled \in Nat /\ Handled < Total
  BY TheFile, UintAssumption DEF Handled, SInv, FileOfTheJob
<1>2. full > 0 /\ full \in Nat /\ Handled * BLOCK_SIZE + full = end
  BY <1>1, BlockEnd, BlockLengthType DEF Total
<1>3. length \in {full, 0}
  <2>1. FileSize(NextBlock) = CurrentSize /\ NextBlock.block = Handled
    BY DEF NextBlock, FileSize, CurrentSize, SInv, FileOfTheJob
  <2> QED BY <2>1 DEF Lengths
<1>4. totalBytesReceived \in Nat /\ totalBytesReceived <= Handled * BLOCK_SIZE
  BY <1>1 DEF BytesHandled
<1>5. end <= CurrentSize
  <2>1. CASE Handled + 1 = Total
    BY <1>1, <2>1
  <2>2. CASE Handled + 1 # Total
    <3>1. Handled + 1 < NumBlocks(CurrentSize)
      BY <1>1, <2>2 DEF Total
    <3>2. (Handled + 1) * BLOCK_SIZE < CurrentSize
      BY <1>1, <3>1, BlockStart
    <3> QED BY <1>1, <2>2, <3>2, BlockSizeAssumption
  <2> QED BY <2>1, <2>2
<1>6. end \in Nat /\ Handled * BLOCK_SIZE \in Nat
  BY <1>1, BlockSizeAssumption
<1>7. length \in Nat /\ totalBytesReceived + length <= end
  <2> HIDE DEF full, end
  <2> QED BY <1>2, <1>3, <1>4, <1>6
<1>8. totalBytesReceived + length <= CurrentSize
  <2> HIDE DEF full, end
  <2> QED BY <1>1, <1>4, <1>5, <1>6, <1>7
<1> QED BY <1>7, <1>8 DEF end

(* Storing a block adds what it counts for.                                *)
LEMMA StoreBInv == ASSUME SInv, BInv, NEW m, StoreBlock(m) PROVE BInv'
<1>1. /\ stream # NoStream /\ m = NextBlock /\ currentBlockOffset = Handled
      /\ Total' = Total /\ Handled' = Handled + 1 /\ CurrentSize' = CurrentSize
  BY StoreNext
<1>2. numOfBlocksRemaining > 0
  BY <1>1 DEF SInv, OneBlockInTransit, StoreBlock
<1>3. PICK length \in Lengths(NextBlock) : totalBytesReceived' = totalBytesReceived + length
  BY <1>1 DEF StoreBlock
<1>4. /\ length \in Nat
      /\ totalBytesReceived'
           <= IF Handled' = Total' THEN CurrentSize' ELSE Handled' * BLOCK_SIZE
  BY <1>1, <1>2, <1>3, CountedLength DEF BInv
<1>5. BytesHandled'
  BY <1>1, <1>3, <1>4 DEF BInv, BytesHandled
<1>6. AssertsOnlyTooLarge'
  BY DEF StoreBlock, Wakes, AssertsOnlyTooLarge
<1> QED BY <1>5, <1>6 DEF BInv

(* The assertion fails when the file itself is too large.                  *)
LEMMA AssertBInv ==
    ASSUME SInv, BInv, NEW m \in blockReplies, AssertBlockFits(m) PROVE BInv'
<1>1. stream # NoStream /\ m = NextBlock
  BY DEF SInv, AskedOnce, OneBlockInTransit
<1>2. currentBlockOffset = Handled /\ numOfBlocksRemaining > 0
  BY <1>1 DEF SInv, OneBlockInTransit
<1>3. PICK length \in Lengths(NextBlock) : ~(totalBytesReceived + length < CONFIG_MAX_FILE_SIZE)
  BY <1>1 DEF AssertBlockFits, Fits
<1>4. totalBytesReceived + length <= CurrentSize /\ length \in Nat
  BY <1>1, <1>2, CountedLength DEF BInv
<1>5. CurrentSize \in Nat /\ totalBytesReceived \in Nat
  BY <1>1, TheFile, UintAssumption DEF BInv, BytesHandled
<1>6. CurrentSize >= CONFIG_MAX_FILE_SIZE
  BY <1>3, <1>4, <1>5, MaxFileSizeAssumption
<1>7. UNCHANGED <<fileVars, otaTask>>
  BY DEF AssertBlockFits
<1> QED BY <1>6, <1>7 DEF BInv, BytesHandled, AssertsOnlyTooLarge, Handled, Total, CurrentSize,
                          fileVars

(* The download starts with no byte counted.                               *)
LEMMA ProcessBInv ==
    ASSUME SInv', NEW doc, ProcessJobFiles(doc) PROVE BInv'
<1>1. AssertsOnlyTooLarge'
  BY DEF ProcessJobFiles, Wakes, AssertsOnlyTooLarge
<1>2. totalBytesReceived' = 0
  BY DEF ProcessJobFiles
<1>3. ASSUME stream' # NoStream
      PROVE  0 <= IF Handled' = Total' THEN CurrentSize' ELSE Handled' * BLOCK_SIZE
  <2>1. CurrentSize' \in Nat /\ Total' \in Nat /\ numOfBlocksRemaining' \in 0..Total'
    BY <1>3, TheFileNext, UintAssumption DEF SInv, FileOfTheJob
  <2>2. ASSUME NEW t \in Nat, NEW n \in 0..t PROVE t - n \in Nat /\ (t - n) * BLOCK_SIZE \in Nat
    BY BlockSizeAssumption
  <2>3. Handled' * BLOCK_SIZE \in Nat
    BY <2>1, <2>2 DEF Handled
  <2> QED BY <2>1, <2>3
<1>4. BytesHandled'
  BY <1>2, <1>3 DEF BytesHandled
<1> QED BY <1>1, <1>4 DEF BInv

(* The other steps leave the file and the count alone.                     *)
LEMMA OthersBInv ==
    ASSUME SInv, BInv,
           \/ OtaTask \/ \E doc \in jobReplies : RefuseJobDocument(doc)
           \/ ClearJobId \/ ReceiveFails \/ LoseConnection \/ LoseReply
           \/ UNCHANGED vars
    PROVE  BInv'
<1>1. UNCHANGED fileVars
  BY DEF OtaTask, Connect, OtaDemoStart, RefuseJobDocument, ClearJobId, ReceiveFails,
     LoseConnection, LoseReply, vars
<1>2. BytesHandled'
  BY <1>1 DEF BInv, BytesHandled, Handled, Total, CurrentSize, fileVars
<1>3. halted' = "assert" /\ otaTask' = "idle" => halted = "assert" /\ otaTask = "idle"
  BY DEF OtaTask, Connect, OtaDemoStart, RefuseJobDocument, ClearJobId, ReceiveFails,
     LoseConnection, LoseReply, vars, Wakes
<1>4. AssertsOnlyTooLarge'
  BY <1>1, <1>3 DEF BInv, AssertsOnlyTooLarge, CurrentSize, fileVars
<1> QED BY <1>2, <1>4 DEF BInv

(* When a job has one file, the simple demo's assertion stops it for a     *)
(* file that is too large and for no other, whatever does not arrive or    *)
(* does not decode: the bytes counted never run ahead of the file's.       *)
THEOREM StopsOnlyForTooLarge == OneFilePerJob /\ Spec => []AssertsOnlyTooLarge
<1> SUFFICES ASSUME OneFilePerJob PROVE Spec => []AssertsOnlyTooLarge
  OBVIOUS
<1>1. Init => BInv
  BY DEF Init, BInv, BytesHandled, AssertsOnlyTooLarge
<1>2. SInv /\ SInv' /\ BInv /\ [Next]_vars => BInv'
  <2> SUFFICES ASSUME SInv, SInv', BInv, [Next]_vars PROVE BInv'
    OBVIOUS
  <2>1. ASSUME NEW doc \in jobReplies, ProcessJobFiles(doc) PROVE BInv'
    BY <2>1, ProcessBInv
  <2>2. ASSUME NEW m \in blockReplies, HandleBlock(m) \/ HandleLastBlock(m) PROVE BInv'
    BY <2>2, StoreBInv DEF HandleBlock, HandleLastBlock
  <2>3. ASSUME NEW m \in blockReplies, AssertBlockFits(m) PROVE BInv'
    BY <2>3, AssertBInv
  <2> QED BY <2>1, <2>2, <2>3, OthersBInv DEF Next, HandleMessage
<1>3. BInv => AssertsOnlyTooLarge
  BY DEF BInv
<1> QED BY <1>1, <1>2, <1>3, SpecSInv, PTL DEF Spec
=============================================================================
