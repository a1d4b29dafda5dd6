------------------------------ MODULE SimpleOta ------------------------------
(***************************************************************************)
(* The demo of demo/simple-Ota-Orchestrator.  T_OTA connects and publishes *)
(* one start-next request; from then on everything happens in the MQTT     *)
(* callback of T_MQTT: each message is handled to its end, and its last    *)
(* act is to publish the request whose reply is the next message.  No      *)
(* request is ever repeated.                                               *)
(***************************************************************************)
EXTENDS OtaJobs, MqttWrapper

VARIABLES
    otaTask,               \* where T_OTA is: otaTask() of main.c
    globalJobId,
    currentFileId,
    currentBlockOffset,
    numOfBlocksRemaining,
    totalBytesReceived,
    downloadedData,        \* the blocks below totalBytesReceived, in order
    stream,                \* mqttFileDownloaderContext: the stream's topics
    serverJob,             \* external: the job the service starts next
    jobReplies,            \* external: the start-next reply, in transit
    blockReplies,          \* external: data blocks in transit
    updateReplies,         \* external: the answer to the update, in transit
    jobUpdate,             \* external: the job id reported as Succeeded
    lost,                  \* history: something did not get through
    undecoded,             \* history: a block did not decode
    halted                 \* "no", or how the process ended

fileVars   == <<currentFileId, currentBlockOffset, numOfBlocksRemaining,
                totalBytesReceived, downloadedData, stream>>
updateVars == <<updateReplies, jobUpdate>>

vars == <<connectStatus, otaTask, globalJobId, fileVars, serverJob, jobReplies,
          blockReplies, updateVars, lost, undecoded, halted>>

NoUpdate == <<>>

Init ==
    /\ MqttInit
    /\ otaTask = "connect"
    /\ globalJobId = <<>>
    /\ currentFileId = 0
    /\ currentBlockOffset = 0
    /\ numOfBlocksRemaining = 0
    /\ totalBytesReceived = 0
    /\ downloadedData = <<>>
    /\ stream = NoStream
    /\ serverJob \in JobDocs
    /\ jobReplies = {}
    /\ blockReplies = {}
    /\ updateReplies = {}
    /\ jobUpdate = NoUpdate
    /\ lost = FALSE
    /\ undecoded = FALSE
    /\ halted = "no"

-----------------------------------------------------------------------------
(* T_OTA: otaTask() and otaDemo_start.                                     *)

Connect ==
    /\ halted = "no" /\ otaTask = "connect"
    /\ otaTask' = "start"
    /\ \/ MqttConnect /\ UNCHANGED <<lost, halted>>
       \/ /\ MayLose                         \* the assertion on the result
          /\ halted' = "assert" /\ lost' = TRUE
          /\ UNCHANGED connectStatus
    /\ UNCHANGED <<globalJobId, fileVars, serverJob, jobReplies, blockReplies, updateVars,
                   undecoded>>

OtaDemoStart ==
    /\ halted = "no" /\ otaTask = "start"
    /\ otaTask' = "idle"
    /\ \E sent \in Published({serverJob}) :
          /\ jobReplies' = sent
          /\ lost' = (lost \/ sent = {})
    /\ UNCHANGED <<connectStatus, globalJobId, fileVars, serverJob, blockReplies,
                   updateVars, undecoded, halted>>

OtaTask == Connect \/ OtaDemoStart

-----------------------------------------------------------------------------
(* T_MQTT: otaDemo_handleIncomingMQTTMessage.                              *)

Wakes == halted = "no" /\ IsConnected

(* jobHandlerChain copies the id if none is known.                         *)
KeepJobId(doc) == IF globalJobId = <<>> THEN GetJobId(doc) ELSE globalJobId

FilesOf(doc) == IF doc = NoJob THEN <<>> ELSE JobQueue[doc].files

(* requestDataBlock, and the block the service sends back.                 *)
RequestDataBlocks(others, requests) ==
    \E sent \in Published(requests) :
        /\ blockReplies' = others \cup {m \in sent : IsServed(m)}
        /\ lost' = (lost \/ sent # requests)

(* No job, or one whose document the parser refuses.                       *)
RefuseJobDocument(doc) ==
    /\ Wakes
    /\ doc \in jobReplies
    /\ FilesOf(doc) = <<>>
    /\ jobReplies' = jobReplies \ {doc}
    /\ globalJobId' = KeepJobId(doc)
    /\ UNCHANGED <<connectStatus, otaTask, fileVars, serverJob, blockReplies, updateVars,
                   lost, undecoded, halted>>

(* processJobFile runs for each file the document lists: the last file's   *)
(* numbers stay, and the first block of every file is requested.           *)
ProcessJobFiles(doc) ==
    /\ Wakes
    /\ doc \in jobReplies
    /\ FilesOf(doc) # <<>>
    /\ jobReplies' = jobReplies \ {doc}
    /\ globalJobId' = KeepJobId(doc)
    /\ LET files == FilesOf(doc) IN
       /\ numOfBlocksRemaining' = NumBlocks(files[Len(files)])
       /\ currentFileId' = Len(files) - 1
       /\ RequestDataBlocks(blockReplies, {[job |-> doc, file |-> f - 1, block |-> 0] :
                                             f \in DOMAIN files})
    /\ currentBlockOffset' = 0
    /\ totalBytesReceived' = 0
    /\ downloadedData' = <<>>
    /\ stream' = doc
    /\ UNCHANGED <<connectStatus, otaTask, serverJob, updateVars, undecoded, halted>>

(* The decoded length; a block that does not decode has none, and is       *)
(* handled like the others all the same.                                   *)
Lengths(m) == {BlockLength(FileSize(m), m.block)} \cup (IF MayLose THEN {0} ELSE {})

(* Mutant: a short block is counted as a whole one.                        *)
FitsWholeBlock(length) == totalBytesReceived + BLOCK_SIZE < CONFIG_MAX_FILE_SIZE

Fits(length) == totalBytesReceived + length < CONFIG_MAX_FILE_SIZE

RemainingAfter == (numOfBlocksRemaining - 1) % UINT32_RANGE

(* Mutant: the file is finished one block early.                           *)
IsOneOfTheLast == RemainingAfter <= 1

IsLastBlock == RemainingAfter = 0

(* handleMqttStreamsBlockArrived up to its test for the last block: the    *)
(* block goes to the end of the data, whichever block it is.               *)
StoreBlock(m) ==
    /\ Wakes
    /\ m \in blockReplies /\ m.job = stream
    /\ \E length \in Lengths(m) :
          /\ Fits(length)
          /\ downloadedData' = IF length = 0 THEN downloadedData ELSE Append(downloadedData, m)
          /\ totalBytesReceived' = totalBytesReceived + length
          /\ undecoded' = (undecoded \/ length = 0)
    /\ numOfBlocksRemaining' = RemainingAfter
    /\ UNCHANGED <<connectStatus, otaTask, currentFileId, stream, serverJob, jobReplies, halted>>

(* Mutant: the same block is requested again.                              *)
SameBlockOffset == currentBlockOffset

NextBlockOffset == currentBlockOffset + 1

(* Mutant: the next block is not requested.                                *)
HandleBlockOnly(m) ==
    /\ StoreBlock(m)
    /\ ~IsLastBlock
    /\ currentBlockOffset' = NextBlockOffset
    /\ blockReplies' = blockReplies \ {m}
    /\ UNCHANGED <<globalJobId, updateVars, lost>>

HandleBlock(m) ==
    /\ StoreBlock(m)
    /\ ~IsLastBlock
    /\ currentBlockOffset' = NextBlockOffset
    /\ RequestDataBlocks(blockReplies \ {m},
                         {[job |-> stream, file |-> currentFileId, block |-> NextBlockOffset]})
    /\ UNCHANGED <<globalJobId, updateVars>>

(* finishDownload; the service accepts or rejects the update.              *)
HandleLastBlock(m) ==
    /\ StoreBlock(m)
    /\ IsLastBlock
    /\ blockReplies' = blockReplies \ {m}
    /\ \E sent \in Published({globalJobId}) :
          IF sent = {}
          THEN lost' = TRUE /\ UNCHANGED updateVars
          ELSE /\ jobUpdate' = globalJobId
               /\ updateReplies' \in {{"accepted"}, {"rejected"}}
               /\ UNCHANGED lost
    /\ UNCHANGED <<globalJobId, currentBlockOffset>>

(* The assertion of handleMqttStreamsBlockArrived fails.                   *)
AssertBlockFits(m) ==
    /\ Wakes
    /\ m \in blockReplies /\ m.job = stream
    /\ \E length \in Lengths(m) : ~Fits(length)
    /\ halted' = "assert"
    /\ UNCHANGED <<connectStatus, otaTask, globalJobId, fileVars, serverJob, jobReplies,
                   blockReplies, updateVars, lost, undecoded>>

(* jobMetadataHandlerChain: either answer clears the id.                   *)
ClearJobId ==
    /\ Wakes
    /\ globalJobId # <<>>
    /\ updateReplies # {}
    /\ updateReplies' = {}
    /\ globalJobId' = <<>>
    /\ UNCHANGED <<connectStatus, otaTask, fileVars, serverJob, jobReplies, blockReplies,
                   jobUpdate, lost, undecoded, halted>>

HandleMessage ==
    \/ \E doc \in jobReplies : RefuseJobDocument(doc) \/ ProcessJobFiles(doc)
    \/ \E m \in blockReplies : HandleBlock(m) \/ HandleLastBlock(m) \/ AssertBlockFits(m)
    \/ ClearJobId

(* mqttProcessLoopTask ends the process when a receive fails.              *)
ReceiveFails ==
    /\ MayLose /\ Wakes
    /\ halted' = "exit"
    /\ lost' = TRUE
    /\ UNCHANGED <<connectStatus, otaTask, globalJobId, fileVars, serverJob, jobReplies,
                   blockReplies, updateVars, undecoded>>

(* External: a send of coreMQTT's own, a ping for instance, fails.         *)
LoseConnection ==
    /\ halted = "no"
    /\ SendFails
    /\ lost' = TRUE
    /\ UNCHANGED <<otaTask, globalJobId, fileVars, serverJob, jobReplies, blockReplies,
                   updateVars, undecoded, halted>>

(* External: what is in transit does not arrive (QoS 0).                   *)
LoseReply ==
    /\ MayLose /\ Wakes
    /\ \/ /\ \E doc \in jobReplies : jobReplies' = jobReplies \ {doc}
          /\ UNCHANGED <<blockReplies, updateReplies>>
       \/ /\ \E m \in blockReplies : blockReplies' = blockReplies \ {m}
          /\ UNCHANGED <<jobReplies, updateReplies>>
       \/ /\ updateReplies # {} /\ updateReplies' = {}
          /\ UNCHANGED <<jobReplies, blockReplies>>
    /\ lost' = TRUE
    /\ UNCHANGED <<connectStatus, otaTask, globalJobId, fileVars, serverJob, jobUpdate,
                   undecoded, halted>>

Next == OtaTask \/ HandleMessage \/ ReceiveFails \/ LoseConnection \/ LoseReply

Spec == Init /\ [][Next]_vars

(* Both tasks are scheduled, and what is in transit and not lost arrives.  *)
FairSpec == Spec /\ WF_vars(OtaTask) /\ WF_vars(HandleMessage)

-----------------------------------------------------------------------------
(* Properties.                                                             *)

CurrentSize == JobQueue[stream].files[currentFileId + 1]

FirstBlocks(n) == [k \in 1..n |-> [job |-> stream, file |-> currentFileId, block |-> k - 1]]

(* What has been stored is the beginning of the file: its blocks in order, *)
(* none missing, none twice, each at its offset; the count says how many   *)
(* are left.  The code looks at no block number: it relies on one request  *)
(* being answered before the next is sent, and on every block decoding.    *)
StoredIsPrefix ==
    stream # NoStream /\ ~undecoded =>
        LET n     == Len(downloadedData)
            total == NumBlocks(CurrentSize)
        IN  /\ downloadedData = FirstBlocks(n)
            /\ n + numOfBlocksRemaining = total
            /\ totalBytesReceived = IF n = total THEN CurrentSize ELSE n * BLOCK_SIZE

(* The demo reports success for the job that was started, and only when    *)
(* the data is that of the (last) file its document lists.                 *)
ReportsWholeFile ==
    jobUpdate # NoUpdate /\ ~undecoded =>
        /\ stream \in Jobs /\ jobUpdate = JobQueue[stream].id
        /\ downloadedData = FirstBlocks(NumBlocks(CurrentSize))

(* Once connected, the demo's own assertion ends the process only for a    *)
(* file there is no room for; one there is room for never runs into it,    *)
(* whatever is lost and whether its blocks decode or not.                  *)
AssertsOnlyTooLarge ==
    halted = "assert" /\ otaTask = "idle" => CurrentSize >= CONFIG_MAX_FILE_SIZE

(* A job whose file there is room for is downloaded and reported, unless   *)
(* something is lost on the way: the demo itself never gets stuck.         *)
CanComplete == /\ FilesOf(serverJob) # <<>>
               /\ LET files == FilesOf(serverJob)
                  IN  files[Len(files)] < CONFIG_MAX_FILE_SIZE

CompletesUnlessLost == <>(jobUpdate # NoUpdate \/ lost \/ ~CanComplete)
=============================================================================
