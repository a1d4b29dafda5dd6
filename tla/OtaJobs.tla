------------------------------- MODULE OtaJobs -------------------------------
(***************************************************************************)
(* Job documents, job identifiers and file blocks: the data the two demos  *)
(* exchange with AWS IoT Jobs and with the MQTT file-streams service.      *)
(*                                                                         *)
(* The service's queue of jobs is the constant JobQueue.  A job has an     *)
(* identifier (a non-empty sequence of characters, here numbers) and the   *)
(* sizes of the files its OTA document lists; a job that is not an OTA job *)
(* lists none.  The stream of a job is identified with the job itself.     *)
(***************************************************************************)
EXTENDS Integers, Sequences

CONSTANTS JobQueue,              \* Seq([id : Seq(Nat), files : Seq(Nat)])
          BLOCK_SIZE,            \* mqttFileDownloader_CONFIG_BLOCK_SIZE
          CONFIG_MAX_FILE_SIZE,  \* size of downloadedData
          UINT32_RANGE           \* 2^32: the width of every counter

ASSUME UintAssumption == UINT32_RANGE \in Nat \ {0}

(* File sizes are 32-bit numbers, identifiers are not empty.               *)
ASSUME JobQueueAssumption ==
    /\ JobQueue \in Seq([id : Seq(Nat), files : Seq(0..(UINT32_RANGE - 1))])
    /\ \A j \in DOMAIN JobQueue : JobQueue[j].id # <<>>

ASSUME BlockSizeAssumption == BLOCK_SIZE \in Nat \ {0}

ASSUME MaxFileSizeAssumption == CONFIG_MAX_FILE_SIZE \in Nat

Jobs  == DOMAIN JobQueue
NoJob == 0

(* What a start-next reply carries: a job, or no execution at all.         *)
JobDocs == Jobs \cup {NoJob}

NoStream == 0
Streams  == Jobs \cup {NoStream}

(* Jobs_GetJobId: of length zero when the reply has no execution.          *)
GetJobId(doc) == IF doc = NoJob THEN <<>> ELSE JobQueue[doc].id

(* globalJobId is read up to its first NUL.                                *)
Ids == Seq(Nat)

(* Mutant: no job counts as the one that is known already.                 *)
NeverSameJobId(global, id) == FALSE

(* strncmp(globalJobId, id, Len(id)) = 0 .                                 *)
SameJobId(global, id) == /\ Len(id) <= Len(global)
                         /\ \A i \in 1..Len(id) : global[i] = id[i]

(* strncpy(globalJobId, id, Len(id)): no NUL is written after the copy.    *)
CopyJobId(global, id) == id \o SubSeq(global, Len(id) + 1, Len(global))

-----------------------------------------------------------------------------
NumBlocks(size) == size \div BLOCK_SIZE
                   + (IF size % BLOCK_SIZE > 0 THEN 1 ELSE 0)

(* The length of block b of a file: the last block is what is left.        *)
BlockLength(size, b) == IF (b + 1) * BLOCK_SIZE <= size
                        THEN BLOCK_SIZE
                        ELSE size - b * BLOCK_SIZE

(* jobDocumentParser: every file is parsed into the same jobFields, so the *)
(* last one stays.  A reply without a job document leaves fileIndex at 0   *)
(* and jobFields zeroed, and counts as parsed.                             *)
ParsedFields(doc) ==
    IF doc = NoJob
    THEN [handled |-> TRUE, fileSize |-> 0, fileId |-> 0, imageRef |-> NoStream]
    ELSE LET files == JobQueue[doc].files IN
         IF files = <<>>
         THEN [handled |-> FALSE, fileSize |-> 0, fileId |-> 0, imageRef |-> NoStream]
         ELSE [handled  |-> TRUE,
               fileSize |-> files[Len(files)],
               fileId   |-> Len(files) - 1,
               imageRef |-> doc]

(* A data block names the job its stream belongs to, the file and the      *)
(* block; it also stands for the bytes of that block.                      *)
Blocks == [job : Jobs, file : Nat, block : Nat]

FileSize(m) == JobQueue[m.job].files[m.file + 1]

(* The blocks the streams service has; it rejects a request for any other. *)
IsServed(m) == /\ m.job \in Jobs
               /\ m.file + 1 \in DOMAIN JobQueue[m.job].files
               /\ m.block < NumBlocks(FileSize(m))
=============================================================================
