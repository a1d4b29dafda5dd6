# A TLA+ model of the OTA demos

This directory models the over-the-air update demos of this repository in
TLA+, checks the models with TLC and proves theorems about them with TLAPS. The
source is the reference: every definition that stands for code is listed under
`map` in `PROJECT.json` with the lines it translates. Paths below are relative
to the repository; "the agent" is `demo/ota-Agent-Orchestrator`, "the simple
demo" is `demo/simple-Ota-Orchestrator`, and a bare line number is one of the
agent's `ota_demo.c`.

## 1. The system

A FreeRTOS program (POSIX port) connects to AWS IoT Core over TLS, asks AWS IoT
Jobs for a job, fetches the file the job's document names, block by block, from
the MQTT file-streams service, and reports the job as succeeded. There are two
variants.

| component | state it keeps | operations | interacts through |
|---|---|---|---|
| **OTA agent** `T_OTA`, priority 1 (agent `ota_demo.c`) | `otaAgentState`, `globalJobId`, `numOfBlocksRemaining`, `totalBlocks`, `totalBytesReceived`, `blockBitmap`, `downloadedData`, `currentFileId`, the stream's topics | `otaDemo_start`, the seven events of `processOTAEvents` | takes events from the queue, sends events to itself, publishes |
| **Incoming messages** `T_MQTT`, priority 2 (agent `ota_demo.c`, `main.c`) | `jobDocBuffer` | `otaDemo_handleIncomingMQTTMessage` | reads the stream's topics, writes `jobDocBuffer`, takes buffers, sends events |
| **Suspend task** `T_SUSPEND`, priority 2 (`main.c`) | its place in the loop | `suspendResumeLoopTask` | reads `otaAgentState`, sends Suspend and Resume |
| **Event queue** (`demo/os/ota_os_freertos.c`) | at most `MAX_MESSAGES` events | init, send (no wait), receive (1 s) | FreeRTOS queue |
| **Buffer pool** (agent `ota_demo.c`) | five buffers, each used or not | get, free, under `bufferSemaphore` | shared by `T_MQTT` and `T_OTA` |
| **Simple orchestrator** (`demo/simple-Ota-Orchestrator`) | job id, current block, blocks left, bytes received | everything in the MQTT callback | publishes one request per block |
| **MQTT wrapper** (`lib/mqtt_wrapper`) | a pointer to the coreMQTT context, the thing name | connect, isConnected, publish, subscribe | coreMQTT |
| **coreMQTT's lock hooks** (`cfg/coreMQTT/core_mqtt_config.h`) | two mutexes | lock and unlock around sends and state updates | the two sending tasks |
| **Transport** (`demo/transport`) | socket, SSL objects | resolve, connect, handshake, send, receive, disconnect | OpenSSL, POSIX sockets |
| **Clock, hooks, configuration** | none | time in ms, sleep | coreMQTT, FreeRTOS |
| *External*: FreeRTOS kernel, coreMQTT, Jobs library, OTA job parser, MQTT file-streams library, AWS IoT | | | git submodules and services, not in the repository |

How the agent's parts meet: `T_OTA` publishes a start-next request; `T_MQTT`
puts the reply into the one `jobDocBuffer` and sends `ReceivedJobDocument`;
`T_OTA` compares the job's id with `globalJobId`, parses the document, renews
its bitmap and counters, and sends itself `RequestFileBlock`; that publishes a
request for the first block missing in the bitmap; `T_MQTT` copies the data
block into a pool buffer and sends `ReceivedFileBlock`; `T_OTA` stores the block
and sends itself `RequestFileBlock` or `CloseFile`. Meanwhile `T_SUSPEND`
suspends and resumes the agent again and again, and each resume begins with a
new start-next request. A request is never repeated for any other reason.

The simple demo has no queue and no state machine: `T_OTA` connects and publishes
one start-next request, and the MQTT callback does the rest. It parses the job
document, requests the first block of the file, appends each block it receives
to the data, and requests the next one until none is left. No block number is
looked at and nothing is repeated.

Hard parts, and the properties they call for:

* three tasks of two priorities sharing variables, a pool and a queue: a buffer
  has one owner; the count, the bitmap and the stored data agree;
* sends that fail silently, messages at QoS 0 that are lost, reordered, or
  duplicated by a repeated request: the download still completes, and success
  is reported for a complete file only;
* jobs replacing one another while messages of the old one are under way: no
  block of one job ends up in the file of another;
* the simple demo trusts that each request has one reply and that it comes before
  the next request: the data is a prefix of the file as long as that is so;
* a suspended agent drops what it receives: it does nothing else until resumed,
  and nothing it dropped is missed for good;
* two tasks send over one TLS session, and one of them receives without a lock:
  packets stay whole, and OpenSSL is not entered twice;
* making a connection has some fifteen steps that may fail, over several
  addresses: no socket is lost, and a caller is never told of a session that is
  not verified;
* a send that meets a full buffer is tried again until its time is up, by a clock
  that wraps.

`PROJECT.json` lists each hazard at its line, with the properties that cover it
or the reason why none does yet.

## 2. The modules

| module | models |
|---|---|
| `OtaJobs` | job documents, ids compared and copied as `strncmp`/`strncpy` do, number and length of blocks, the outcome of `jobDocumentParser`, what the stream service serves |
| `OtaEventQueue` | `ota_os_freertos.c` |
| `OtaDataBuffers` | the pool (67-105) |
| `OtaAgent` | the three tasks, `processOTAEvents`, the message handler, and the messages in transit; extends the three above; states all properties |
| `OtaDownload` | the abstract specification of one job: blocks put in place one by one, none twice, the job closed when all are there and not before |
| `OtaDownloads` | the abstract specification of jobs that replace one another: a download starts for another job only, goes on as above, and one job is reported, once, complete |
| `MqttWrapper` | `lib/mqtt_wrapper`: connecting, and publishing while connected |
| `SimpleOta` | the simple demo; extends `OtaJobs` and `MqttWrapper` |
| `SocketsPosix` | `sockets_posix.c`: the one descriptor, and the sockets the system has open |
| `OpensslPosix` | `openssl_posix.c` under `transport_wrapper.c`: connecting and disconnecting; extends `SocketsPosix` |
| `TlsChannel` | the abstract specification of the transport: verified if true is returned, nothing if false |
| `OpensslIo` | the results of `Openssl_Send` and `Openssl_Recv` |
| `PosixClock` | `Clock_GetTimeMs`, and the difference of two readings |
| `MqttConnection` | two tasks over one session: `MQTTAgentLock`, the masked signals, packets sent in parts, receives, the send timeout, loss; extends `MqttWrapper`, `OpensslIo`, `PosixClock` |
| `MCOtaAgent`, `MCSimpleOta` | the job queues of the TLC runs |
| `OtaJobs_proof` | lemmas about jobs, sizes and blocks that the next five use |
| `OtaAgent_proof` | type correctness and buffer ownership, for every value of the constants |
| `OtaAgentDownload_proof` | the count, complete success and the refinement of `OtaDownload`, for every single OTA job |
| `OtaAgentBounds_proof` | which file a marked block is of, and that no write passes the end of the image |
| `OtaAgentJobs_proof` | any jobs, replacing one another, with `T_MQTT` paced: buffers, count, marked blocks, assertion, success, and the refinement of `OtaDownloads` |
| `SimpleOta_proof` | the data is a prefix of the file and a report means all of it, for jobs of one file |
| `OpensslPosix_proof` | the transport's invariant, and the refinement of `TlsChannel` |
| `MqttConnection_proof` | the difference of two readings of the clock, across its wrap; packets, SSL object, exit and send timeout, for packets of any length and a clock of any width |

**Steps.** `T_OTA` has the lowest priority and can be preempted anywhere. Its
handlers are cut where another task can see or change what they work on: at a
send to the queue, at an assignment to `otaAgentState` (`T_SUSPEND` reads it),
and between reading the id in `jobDocBuffer` (219-226) and parsing it (236). `pc` says where it
is: `receive`, `handle` (an event was taken), `parse` (the id is copied, the
document is not parsed), `send` (about to send `nextEvent`), `setState` (about
to assign the state that ends the job document cases). The handlers of `T_MQTT`
and `T_SUSPEND` outrank `T_OTA` and are one action each; the parts of them that
equal-priority time slicing could interleave touch different data, apart from
the queue, whose send is atomic.

| action | code |
|---|---|
| `ReceiveEvent` | `OtaReceiveEvent_FreeRTOS` (287); a receive that times out yields the zeroed event `Start`, which no case handles, and is a stuttering step |
| `RequestJobDocument`, then `SetAgentState` | 293-298 |
| `DropJobDocument`; or `IdentifyJob`, `ParseJobDocument`, `SendNextEvent`, `SetAgentState` | 300-322 with 207-245 and 176-205 |
| `RequestFileBlock`, `RequestFileBlockWithoutBitmap` | 324-339 with 590-614; the second reads through the null `blockBitmap` |
| `DropFileBlock`; or `HandleFileBlock`, `SendNextEvent`; or `AssertFileBlockFits` | 341-382 with 508-530 |
| `CloseFile` | 384-390 with 532-573 |
| `Suspend`; `Resume`, `SendNextEvent` | 392-403 |
| `HandleJobDocument`, `HandleDataBlock`, `HandleDataBlockWithoutBuffer`, `IgnoreDataBlock` | 411-470 |
| `CheckSuspend`, `CheckResume` | `main.c` 95-122 |
| `ServerNextJob`, `LoseReply` | external: the service drops its current job; a reply does not arrive |

Freeing the buffer in `HandleFileBlock` is part of the step that stores the
block: `T_MQTT` taking another buffer between the two reaches the same states as
taking it before. `halted` records that the process ended in an abort: a null
bitmap, a null buffer, a failed assertion. After that no task moves.

What `mqttDownloader_processReceivedDataBlock` makes of a message is the set
`ProcessReceivedDataBlock`. With `MayCorrupt` a message may not decode; 359 ignores
that, so the block number is the one the decoder left or the zero of 284, the length
is 0, the bit is marked and nothing is copied. The history variable `undecoded` holds
the blocks marked this way, which the code has no record of; only properties read it.

**The simple demo's steps.** `T_MQTT` outranks `T_OTA`, which sleeps once it has
sent its request, so each message is handled to its end in one action, with the
request or update it publishes. Line numbers here are the simple demo's.

| action | code |
|---|---|
| `Connect`, `OtaDemoStart` | `main.c` 187-195, `ota_demo.c` 44-81 |
| `RefuseJobDocument`, `ProcessJobFiles` | 207-260; the second with 288-325 for every file of the document |
| `HandleBlock`, `HandleLastBlock`, `AssertBlockFits` | 115-143 with 328-349 and 352-394 |
| `ClearJobId` | 160-205; an accepted answer clears the id, and so does a rejected one |
| `ReceiveFails` | `main.c` 99-105: the process exits |
| `LoseConnection`, `LoseReply` | external: coreMQTT gives the connection up; a reply does not arrive |

`MayLose` switches on everything that can go wrong: a connect that fails (and the
assertion on it), a publish or the subscribe before it that fails, a lost reply, a
failed receive, and a block that does not decode. The last is handled like any
other block, with length 0 (142). Two variables remember what the code does not:
`lost`, that something did not get through, and `undecoded`, that a block did not
decode; only properties read them.

**The transport's steps.** `at` is the next step of `Openssl_Connect`; one that fails
goes to `FreeContext`, as the code's chain of `if( returnStatus == OPENSSL_SUCCESS )`
does. Bare line numbers are of `openssl_posix.c`, S of `sockets_posix.c`.

| action | code |
|---|---|
| `CallConnect` | `transport_wrapper.c` 50-107 |
| `ResolveFails`, `ResolveHostName` | S 311-342, 100-136 |
| `AttemptConnection`, `ConnectFails`, `NoMoreAddresses` | S 214-274, 139-211: each record overwrites the descriptor |
| `TimeoutFails`; `StepSucceeds` | S 353-397; the steps that give the session nothing |
| `CreateContext`, `CredentialsFail`, `CreateSession` | 531-580 with 244-476 |
| `SetHost`, `SetFd`, `Handshake`, `VerifyPeer`, `TlsStepFails` | 165-242 |
| `FreeContext`, `CleanUp` | 590-616 |
| `OpensslDisconnect` | 619-664, S 403-419; called before the next connect |

**The connection's steps.** Signals are masked from the start of `Openssl_Send` and
`Openssl_Recv` to their end, and the tick of the FreeRTOS POSIX port is a signal: a
task inside is not preempted (`Runs`). Each call is two steps, so that a task without
the mask could get between them; without it `SslExclusive` fails (a mutant).

| action | code |
|---|---|
| `TlsConnect`, `TlsConnectFails` | agent `main.c` 220-227 |
| `Publish` | `mqtt_wrapper.c` 80-131: the status is read before the lock |
| `StartSend`, `EndSend` | `core_mqtt_config.h` 27-36 around one packet |
| `EnterSend`, `LeaveSend` | 803-906, called by coreMQTT for what is left of the packet |
| `EnterRecv`, `LeaveProcessLoop`, `ReceiveConnack` | 670-797; `main.c` 124-142; `mqtt_wrapper.c` 48-70 |
| `Break`, `Tick` | external: the peer closes or resets the connection; a millisecond passes |

**Data.** A data block is its job, file and block number, and stands for its
bytes. `blockBitmap` is the set of marked bits; it has `BitsPerByte` bits to the
byte, and a bit beyond its last byte is whatever memory holds: the search for a
block runs to `totalBlocks` itself (594), so such a bit is read when the number
of blocks is a multiple of eight, and it is then a nondeterministic choice
(`stray`). Counters that can wrap are taken modulo `UINT32_RANGE`.

**Messages.** A published request puts its reply into a bag at once; replies are
received in any order, and lost when `MayLose`. A block the stream does not
have brings no reply. `MaxInFlight` bounds each bag; a request beyond it gets no
reply, which is a loss, and so not a new behaviour where replies may be lost.

## 3. The runs

The first eight runs are of `MCOtaAgent`, the next two of `MCSimpleOta`, the last
two of `OpensslPosix` and `MqttConnection` themselves. Instances have small numbers for the code's
constants: a block of 3 bytes for 256, a file limit of 8 or 12, a queue of
2 or 3 for 20 (20 itself in `duplicate`), a pool of 2 for 5, bytes of 2 bits so that one file of two blocks
ends at a byte boundary (the case where a bit beyond the bitmap is read). Files
have two blocks (three in `duplicate`), the last one short, which is enough for "first", "last",
"missing in the middle of a resume" and "past the end"; the theorems cover safety for the
other sizes. The simple demo is run with files of one to four blocks, with and
without a short last one, at the size limit and one and two bytes off it.
The transport has up to three address records and two descriptors, so that one is
reused while another attempt has failed; a connect is repeated without end. The
connection has three packets of three bytes, so that a packet can be cut twice and
each task can send between two of the other's; a clock of 4 values that wraps within
a send, and a timeout of 2. `CHECK_DEADLOCK FALSE` is stated everywhere but for the
transport: the agent stops when the file is closed, the simple demo when its one job
is reported or something is lost, and the process ends when it aborts or exits.

`PacedTasks` names tasks assumed to wake only when `T_OTA` has emptied its queue
and waits. In the code they sleep 10 ticks (`main.c` 111, 119, 140) before each
step, which is far longer than `T_OTA` takes for its events, but nothing makes
it so. What needs the assumption is told apart this way:

| run | what it asks | pace | result |
|---|---|---|---|
| `one_job` | `TypeOK`, `BufferOwnership`, `RemainingCountsMissing`, `ImplementsDownload`: one OTA job, losses, blocks that do not decode, queue and pool both of two so that both overflow | none assumed | holds |
| `ota_jobs` | `RemainingCountsMissing`, `MarkedBlocksAreOfTheFile`, `SuccessMeansComplete`, `BlocksAreFoundInTheBitmap`, `ImplementsDownloads`, and under `FairSpec` `DownloadCompletes`, `KeepsPolling`, `BuffersAreFreed`: two OTA jobs, each given up at any moment, two replies of each kind in transit, losses, blocks that do not decode | `T_MQTT`, `T_SUSPEND` | holds |
| `jobs_in_turn` | `SuccessMeansComplete`, `MarkedBlocksAreOfTheFile`, `WriteInBounds`, `BuffersAreReferenced`, `NeverOutOfBuffers`, `AssertsOnlyNearTheLimit`: a job that is not an OTA job, then one of two files, one of one block and one too large, the id of each beginning with the one before, each given up at any moment, losses | `T_MQTT` | holds |
| `stale_block` | `MarkedBlocksAreOfTheFile` | `T_SUSPEND` only | violated |
| `other_job_second` | `SuccessMeansComplete` | both | violated |
| `other_job_first` | `BlocksAreFoundInTheBitmap` | both | violated |
| `duplicate` | `AssertionHolds`: one OTA job, a byte short of the limit, nothing lost, the code's queue of 20 | both | violated |
| `suspend` | `ResumedOnlyByResume` | `T_MQTT` | violated |
| `simple` | `StoredIsPrefix`, `ReportsWholeFile`, `AssertsOnlyTooLarge`, `CompletesUnlessLost`: one file, everything may fail | none needed | holds |
| `simple_two_files` | `ReportsWholeFile`: two files, nothing fails | none needed | violated |
| `transport` | `TlsTypeOK`, `NoSocketOutOfReach`, `SessionIsOnTheSocket`, `DisconnectReleasesAll`, `ImplementsChannel`, `ConnectReturns`: any step may fail | - | holds |
| `connection` | `ConnectionTypeOK`, `PacketsContiguous`, `SslExclusive`, `ExitsOnlyWhenLost`, `GivesUpWhenDue`, `SendsEnd`, `LossIsNoticed`: the connection breaks at any moment | - | holds |

What they show:

* With one job the agent is right whatever the interleaving, the losses and the
  overflows: a lost event or reply delays it and no more. A block that does not
  decode keeps the count right and the download going, but it counts as in place:
  success is then reported without it. `SuccessMeansComplete` and
  `ImplementsDownload` are stated for the blocks that decoded, since no document of
  the repository says more.
* `WriteInBounds` holds because blocks are asked for one at a time, so that the sum in
  the size test is where the next block goes. A block that did not decode adds
  nothing to that sum, and the property is not claimed with `MayCorrupt`.
* Of a job of several files only the last is downloaded (`ParsedFields`); that the
  agent reports it as a success is modelled and not claimed to be right.
* Across changes of job it is right as long as `T_MQTT` sleeps while `T_OTA` has
  events to process, and jobs are OTA jobs. Without the sleep a block of the
  old job that is in the pool is stored in the new job's file (`stale_block`).
* Then no buffer is lost or missing either (`jobs_in_turn`): a data event is sent to a queue
  that is empty, so that it cannot fail, and a block finds the pool unused. Both fail
  at other paces: `one_job` reaches the copy through the null buffer.
* `ota_jobs` has two replies of each kind in transit, so that the start-next reply
  and the blocks of a cancelled job arrive after its successor's. With OTA jobs only this
  does no harm: a late reply sends the agent back to the old job, whose file is then
  downloaded and reported as `OtaDownloads` says, with no block of the other.
* `jobs_in_turn` has one message of each kind in transit (`MaxInFlight = 1`).
  With two, a late start-next reply that still names the first, non-OTA job
  overwrites `globalJobId` during the download: the same error as in
  `other_job_second`, reached from another side.
* A job that is not an OTA job is harmful in two ways: its id is kept although
  its document is refused, so the download under way is reported under it
  (`other_job_second`), and when it is seen again it counts as known and blocks
  are requested with no bitmap (`other_job_first`, which needs neither loss nor
  cancellation nor any unusual timing).
* The assertion at 512 counts a block before asking whether it is needed; a
  block received twice can fail it for a file that fits (`duplicate`: a suspend and resume
  before the first start-next reply makes two requests of the job and so of block 0, and the
  second copy comes when the room is nearly used up). It does so only
  for a file within a block of the limit (`AssertsOnlyNearTheLimit`), whatever arrived
  of earlier jobs, for the sum starts anew with each.
* An event queued before a Suspend takes the agent out of the suspended state
  (`suspend`).
* The simple demo stores a prefix of the file at any moment, reports only a whole
  file, and gets stuck only when something was lost: then nothing is repeated and
  it waits for ever. Both safety properties exclude a run in which a block did not
  decode, since such a block is counted as one that arrived. Its size assertion, which
  counts each block once, fails for files that are too large and no others.
* With two files the simple demo requests the first block of each at once, counts
  both against the second, and reports success with neither complete
  (`simple_two_files`; nothing is lost in it).
* The transport keeps every open socket within reach of a disconnect and tells the
  truth about the session. A connect that fails after the TCP connection was made
  leaves the socket open until a disconnect, which the demos do not call: they end.
* Packets are whole because of the lock; the SSL object has one user because of the
  masked signals, for a receive takes no lock. A packet can be left half sent when its
  time is up, and the next one then follows it: `PacketsContiguous` speaks of packets
  not being mixed, and not of what the peer makes of a cut one.
* `Openssl_Send` does return 0, when there is no room, although the comment at 866 and the
  header (`openssl_posix.h` 193-194) say it does not; its callers are coreMQTT's loops, which try again.
* A connection that the peer closes or resets is noticed, by a receive, which ends the
  program, or by a send, after which the process loop is skipped (`main.c` 130) and
  nothing connects again: `LossIsNoticed` ends there and does not say that the demo
  recovers. A network that silently carries nothing is an open channel on which nothing
  comes, and nothing is claimed of it.

**Fairness** (`FairSpec`, run `ota_jobs`). Weak fairness of each task: FreeRTOS
runs every ready task whose superiors sleep, and the two priority-2 tasks sleep
in every round. Strong fairness of receiving a reply of each kind while the agent
is neither suspended nor about to be: the agent is suspended for about 10 ticks
out of 110 (`main.c` 111 and 119), so replies that keep being sent do not
all fall into that window, and do not all get lost; nor do all messages of a block
fail to decode (`HandleDecodedFileBlock`). Each further loss is allowed. `ServerNextJob` and `LoseReply` have no fairness.

The simple demo's `FairSpec` (run `simple`) has weak fairness of its two tasks, for
the same reason; what is in transit and is not lost arrives. The failures have
none.

`TlsFairSpec` (run `transport`) has weak fairness of the steps of a connect:
`getaddrinfo`, `connect` and `SSL_connect` return, by timeouts of their own. Nothing
makes the caller connect or disconnect. `ConnectionFairSpec` (run `connection`) has
strong fairness of each task, for `T_MQTT` sleeps 10 ticks in each round of its loop
(`main.c` 140), so `T_OTA` runs again and again between its masks, and FreeRTOS gives
a mutex to the task that waits for it; and weak fairness of the clock. `Publish` and
`Break` have none. `Tick` assumes that a task that sends reads the clock at least once
in each of its cycles, of 49 days: no 32-bit clock can show more.

Each property has a mutant, an operator named in the modules next to the
definition it replaces, that breaks the property: a mark not set, a search from
block 1, a bitmap or a sum kept over a change of job, a job taken for another one when
it is polled again, blocks asked for without a job, a buffer not freed, a size test
without the block at hand, a resume without a request, a file closed a block
early, a queue or pool that does not look at what is used, a socket left open, a
verification not looked at, a lock not waited for or not given back, signals not
masked, a clock not cut to 32 bits, an error taken for "nothing yet" and the reverse.

## 4. The proofs

Assumptions are the named `ASSUME`s of the modules: the constants are natural
numbers (positive where the code divides by them or indexes with them), job ids
are not empty, file sizes are 32-bit, and the value for an unused buffer is not a
block. TLC evaluates them in every run.

* `OtaAgent_proof`: `Spec => []TypeOK` and `Spec => []BufferOwnership` for every
  job queue and every value of the constants. The invariant is inductive only
  with more: `IInv` adds where `pc` can be for which event (`ControlOK`), that a
  data block in transit or in a buffer is one its stream really has
  (`RepliesServed`), and that a stream is known only with a bitmap
  (`StreamHasBitmap`). Ownership rests on the pool giving out only free buffers
  and on an event being in one place, the queue or `recvEvent`, at a time.
* `OtaAgentDownload_proof`: for a service with one OTA job of one file
  (`SingleOtaJob`), of any id and size, lost or cancelled or not:
  `[]RemainingCountsMissing`, `[]SuccessMeansComplete`, and `ImplementsDownload`.
  The invariant `DInv` on top of `IInv` says that the id and the stream are those
  of the job (`JobKnown`), that the counters are those of its file (`FileKnown`),
  that a marked block is stored at its place, or did not decode, and nothing else is
  marked (`StoredMarked`),
  and that a `CloseFile` in the queue, or about to be sent, has nothing left to
  fetch (`ClosesComplete`). The refinement maps the blocks that count as in place to `received`
  and `Stopped` to `done`; each action is shown to be one abstract step or none.
* `OtaAgentBounds_proof`: under `SingleOtaJob`, `[]MarkedBlocksAreOfTheFile`, from `DInv`
  and the number of the one file; and `[]WriteInBounds` when besides
  `NUM_OF_BLOCKS_REQUESTED = 1`, as in the code (24), and every block decodes. Its
  invariant `WInv` says that a block on its way or in the pool has all blocks before it
  marked (`RepliesInOrder`), so that the bitmap is a prefix of the file and
  `totalBytesReceived` is where the next block goes (`BytesOfPrefix`). The file may be
  larger than the image; the assertion of the code then stops the program in time.
  `WritesFit` is the complement: when every file fits, `[]WriteInBounds` for any jobs, at any
  pace, for any number of blocks per request and also when blocks do not decode, because a
  stored block is one its service has, at its own place (`StoredAreServed`).
* `OtaAgentJobs_proof`: any queue of jobs, of any number of files, replacing one another at
  any moment; queue, pool, replies in transit and the steps of `T_SUSPEND` are arbitrary.
  Its hypothesis is `MqttIsPaced`, that `T_MQTT` wakes only when `T_OTA` waits at an empty
  queue. `EInv` says that no message is at hand when `T_MQTT` sends one (`PendingAlone`),
  that an event points to every buffer in use (`EventReferences`), and that a document
  that is parsed is a job's (`ParsesAJob`); it gives `[]BuffersAreReferenced` and
  `[]NeverOutOfBuffers`. `FInv` adds that bitmap, counters and stream are those of one file
  (`FileOfStream`) and that the pool holds blocks of it only (`BlocksOfTheStream`); it
  gives `[]RemainingCountsMissing` and `[]MarkedBlocksAreOfTheFile`. With it, a marked
  block counts for at most `BLOCK_SIZE` bytes (`BytesOfMarked`), which bounds the sum
  without adding up blocks and gives `[]AssertsOnlyNearTheLimit`.
  Success needs two hypotheses more. `OtaJobsOnly`, that every job lists a file: without
  it `other_job_second` and `other_job_first` are counterexamples. `IdsReplace`, that an id
  overwrites the one before it whole or counts as the same: without it a tail of a longer
  id stays in `globalJobId`. Ids of one length satisfy it (`EqualLengthsReplace`). `CInv`
  then ties the id to the file (`JobKnown`), a parsed job to being another one
  (`ParsesAnother`), the report to its file (`ReportIsOfTheFile`) and a request to a bitmap
  (`RequestsHaveBitmap`), and gives `[]SuccessMeansComplete`,
  `[]BlocksAreFoundInTheBitmap` and `ImplementsDownloads`. The refinement maps the job to
  the stream the bitmap is for, `received` to the blocks that are in place or did not decode,
  and `reported` to the update that was published; a parsed document is a `StartDownload`, a
  block that is marked a `ReceiveBlock`, `CloseFile` a `FinishDownload`, and every other
  step stutters.
* `SimpleOta_proof`: when every job has at most one file (`OneFilePerJob`; the jobs
  are otherwise any), `[]StoredIsPrefix`, `[]ReportsWholeFile` and `[]AssertsOnlyTooLarge`,
  whatever is lost.
  Neither is inductive, for the code appends any block that comes. The invariant
  `SInv` adds why the right one comes: the job is asked for once (`AskedOnce`),
  the counters are those of its file and the id is the job's until it is reported
  (`FileOfTheJob`), and at most one block is in transit, which is the one after
  those handled (`OneBlockInTransit`). The number of bytes then follows from the
  lemma that the blocks of a file, one after the other, are the file (`BlockEnd`). For
  the assertion, also when blocks do not decode, the bytes counted are at most those of
  the blocks handled (`BytesHandled`).
* `OpensslPosix_proof`: for any number of addresses and descriptors, `[]TlsTypeOK`,
  `[]NoSocketOutOfReach`, `[]SessionIsOnTheSocket`, `[]DisconnectReleasesAll` and
  `ImplementsChannel`. `TlsInv` says at which steps a socket is open and that it is the
  one in `socketDescriptor` (`SocketInv`), what the session has been given by then, on
  which socket (`SessionInv`), and that the status is a success until a step fails, and
  the context freed at the end (`StatusInv`). That `CleanUp` frees the session exactly when the caller is
  told of a failure follows from the three together.
* `MqttConnection_proof`: a reading is the time modulo 2^32, and `ElapsedAcrossTheWrap`,
  that the unsigned difference of what `Clock_GetTimeMs` makes of two times less than 2^32 ms
  apart is the time between, whatever the nanoseconds. Then `[]ConnectionTypeOK`, `[]PacketsContiguous`, `[]SslExclusive`,
  `[]ExitsOnlyWhenLost` and the action property `GivesUpWhenDue`, for packets of any
  length and number and a clock of any width. `ConnectionInv` says that a task sends
  exactly while it holds the lock (`LockInv`), that a task inside OpenSSL has masked
  the signals and no other has (`MaskInv`), that the bytes sent are those of packets
  begun, the last the lock holder's if it has sent any (`WireInv`), that the session
  is there once a task uses it (`ChannelInv`), and that the clock has moved by
  `waited` since the lock was taken (`TimeInv`), with which the clock theorem gives
  the last property.

Only model-checked: the liveness properties (`DownloadCompletes`, `KeepsPolling`,
`BuffersAreFreed`, `CompletesUnlessLost`, `ConnectReturns`, `SendsEnd`,
`LossIsNoticed`), which are out of the prover's reach: they rest on fairness and
`ENABLED`. And `[]WriteInBounds` for files larger than the image when several jobs replace
one another: with two start-next replies in transit a job can be parsed a second time while a
block of its first time is under way, which is then not the next one in order, so the
sum no longer says where it goes. It holds in `jobs_in_turn`, with one reply in
transit. That no theorem covers the agent with jobs that are not OTA jobs, or `T_MQTT` at any
pace, beyond type, ownership and `WritesFit`, is as it should be: there the findings of
section 3 are counterexamples.

## 5. Not modelled

* An overwrite of `jobDocBuffer` while `receivedJobDocumentHandler` finds, compares and copies
  the id (219, 223, 226), which would take bytes of two replies for an id: `IdentifyJob` is one
  step. It needs `T_MQTT` to wake while `T_OTA` is busy, so the paced runs and theorems exclude
  it, and `one_job`, whose replies are all the same, has nothing to overwrite with. The theorems for one
  job at any pace are subject to it when the service also sends empty replies (`MayCancel`).
  The overwrite before the parse (236) is modelled, and so is a document that is queued ahead
  of a `CloseFile`; both need the same, and at any pace `SuccessMeansComplete` fails.
* `mqttDownloader_init` rewriting the topics while `T_MQTT` compares with them;
  the memory of the bitmaps, which is not freed.
* An id shorter than the stored one: `SameJobId` and `CopyJobId` model it, and it does go
  wrong (the tail of the longer one stays); the runs' ids only grow.
* The agent's connection, in `OtaAgent`: `otaDemo_start` returns at once when it is not
  connected, and the model starts after the connect. Sending and receiving are in
  `MqttConnection`, where a packet has no contents.
* `MQTTStateUpdateLock`: what it guards is inside coreMQTT. `Clock_SleepMs` and the event
  queue's deinit are called by nothing.
* In the transport: NULL arguments, the optional ALPN, SNI and fragment length, whose
  failures are logged only, and the contents of files and certificates. Neither demo
  calls the disconnect; that its caller does so before connecting again is assumed.
  The number of a socket that was closed stays in the descriptor and a disconnect
  closes it again, which matters only to other files of the process. A signal or error
  of `poll` itself is a loss of the connection. `SSL_read` of an open connection has no other error
  than `WANT_READ`: 779-791 would end the program for `WANT_WRITE` too, which needs OpenSSL to
  send a record of its own that finds no room.
* What coreMQTT does after a send that timed out is taken to be what its callers rely on:
  the packet is abandoned and the status stays as it is.
* In the simple demo, connecting is one step, though `T_MQTT` may run before it ends;
  it does nothing while `mqttWrapper_isConnected` is false. The subscribe and the
  publish after it succeed or fail as one.
* Hooks and configuration headers have no behaviour of their own.

## 6. Plan

1. *Done*: the agent with its queue and pool, `OtaDownload`, type, ownership,
   count, success and refinement theorems.
2. *Done*: `SimpleOta` with `MqttWrapper`, its prefix and completeness theorems.
3. *Done*: the transport (`SocketsPosix`, `OpensslPosix`, `TlsChannel`) and the two tasks
   over it (`OpensslIo`, `PosixClock`, `MqttConnection`), with their theorems.
4. *Done*: blocks that do not decode, growing ids and a job of two files in the agent;
   the theorems about writes and marked blocks.
5. *Done*: jobs that replace one another, for any queue of them: `OtaDownloads`, the theorems
   of `OtaAgentJobs_proof`, the assertions of both demos and writes of files that fit.
6. Left: `BlockBitmap`, bits and bytes against the set `OtaAgent` uses;
   `mqttDownloader_init` in two steps; ids that shrink; `MqttConnection` under `OtaAgent`,
   of which a run needs smaller parts of both. To prove: that the connection implements a
   channel of whole packets; writes across jobs with one reply in transit.
