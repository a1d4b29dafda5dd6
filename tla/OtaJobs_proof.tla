----------------------------- MODULE OtaJobs_proof ----------------------------
(***************************************************************************)
(* Lemmas about OtaJobs: what its operators return, for every job and      *)
(* every size of file and block.                                           *)
(***************************************************************************)
EXTENDS OtaJobs, SequenceTheorems, TLAPS

USE DEF JobDocs, Jobs, NoJob

(* Arithmetic of files and blocks.                                         *)

(* A file has no more blocks than bytes.                                   *)
LEMMA NumBlocksType ==
    ASSUME NEW size \in Nat
    PROVE  NumBlocks(size) \in Nat /\ NumBlocks(size) <= size
BY BlockSizeAssumption DEF NumBlocks

(* Only an empty file has no block.                                        *)
LEMMA EmptyFile ==
    ASSUME NEW size \in Nat, NumBlocks(size) = 0
    PROVE  size = 0
BY BlockSizeAssumption DEF NumBlocks

(* A block of a file starts inside the file.                               *)
LEMMA BlockStart ==
    ASSUME NEW size \in Nat, NEW b \in Nat, b < NumBlocks(size)
    PROVE  b * BLOCK_SIZE < size
BY BlockSizeAssumption DEF NumBlocks

(* So its length is a number of bytes.                                     *)
LEMMA BlockLengthType ==
    ASSUME NEW size \in Nat, NEW b \in Nat, b < NumBlocks(size)
    PROVE  BlockLength(size, b) \in Nat
BY BlockStart, BlockSizeAssumption DEF BlockLength

(* The blocks one after the other give the file: the end of a block is the *)
(* start of the next one or, for the last block, the end of the file.      *)
LEMMA BlockEnd ==
    ASSUME NEW size \in Nat, NEW b \in Nat, b < NumBlocks(size)
    PROVE  /\ BlockLength(size, b) > 0
           /\ b * BLOCK_SIZE + BlockLength(size, b)
                = IF b + 1 = NumBlocks(size) THEN size ELSE (b + 1) * BLOCK_SIZE
<1> DEFINE q == size \div BLOCK_SIZE
           r == size % BLOCK_SIZE
<1>1. /\ q \in Nat /\ r \in 0..(BLOCK_SIZE - 1) /\ BLOCK_SIZE \in Nat \ {0}
      /\ size = q * BLOCK_SIZE + r
  BY BlockSizeAssumption
<1>2. (b + 1) * BLOCK_SIZE = b * BLOCK_SIZE + BLOCK_SIZE /\ b * BLOCK_SIZE \in Nat
  BY <1>1
<1>3. CASE b < q
  <2>1. (b + 1) * BLOCK_SIZE <= q * BLOCK_SIZE
    BY <1>1, <1>3
  <2>2. b + 1 = NumBlocks(size) => b + 1 = q /\ r = 0
    BY <1>1, <1>3 DEF NumBlocks
  <2>3. BlockLength(size, b) = BLOCK_SIZE
    BY <1>1, <2>1 DEF BlockLength
  <2> QED BY <1>1, <1>2, <2>2, <2>3
<1>4. CASE b = q
  <2>1. r > 0 /\ b + 1 = NumBlocks(size)
    BY <1>1, <1>4 DEF NumBlocks
  <2>2. BlockLength(size, b) = r
    BY <1>1, <1>2, <1>4 DEF BlockLength
  <2> QED BY <1>1, <1>4, <2>1, <2>2
<1>5. b <= q
  BY <1>1 DEF NumBlocks
<1> QED BY <1>1, <1>3, <1>4, <1>5

(* A job is a record of an identifier and of 32-bit file sizes.            *)
LEMMA JobType ==
    ASSUME NEW j \in Jobs
    PROVE  /\ JobQueue[j].id \in Seq(Nat)
           /\ JobQueue[j].files \in Seq(0..(UINT32_RANGE - 1))
<1>1. JobQueue[j] \in [id : Seq(Nat), files : Seq(0..(UINT32_RANGE - 1))]
  <2>1. j \in 1..Len(JobQueue)
    BY JobQueueAssumption
  <2> QED BY <2>1, JobQueueAssumption, ElementOfSeq
<1> QED BY <1>1

(* A job document gives 32-bit numbers of blocks.                          *)
LEMMA ParsedFieldsType ==
    ASSUME NEW doc \in JobDocs
    PROVE  LET f == ParsedFields(doc) IN
           /\ NumBlocks(f.fileSize) \in 0..(UINT32_RANGE - 1)
           /\ f.fileId \in Nat
           /\ f.imageRef \in Streams
<1>1. CASE doc = NoJob
  BY <1>1, UintAssumption, NumBlocksType DEF ParsedFields, Streams, NoStream
<1>2. CASE doc # NoJob
  <2> DEFINE files == JobQueue[doc].files
  <2>1. files \in Seq(0..(UINT32_RANGE - 1))
    BY <1>2, JobType
  <2>2. CASE files = <<>>
    BY <2>2, <1>2, UintAssumption, NumBlocksType DEF ParsedFields, Streams, NoStream
  <2>3. CASE files # <<>>
    <3>1. Len(files) \in Nat \ {0}
      BY <2>1, <2>3
    <3>2. files[Len(files)] \in 0..(UINT32_RANGE - 1)
      <4>1. Len(files) \in 1..Len(files)
        BY <3>1
      <4> HIDE DEF files
      <4> QED BY <2>1, <4>1, ElementOfSeq
    <3>3. NumBlocks(files[Len(files)]) \in 0..(UINT32_RANGE - 1)
      <4> HIDE DEF files
      <4> QED BY <3>2, NumBlocksType, UintAssumption
    <3> QED BY <2>3, <1>2, <3>1, <3>3 DEF ParsedFields, Streams
  <2> QED BY <2>2, <2>3
<1> QED BY <1>1, <1>2

(* The file of a served block has a size.                                  *)
LEMMA ServedLength ==
    ASSUME NEW m \in Blocks, IsServed(m)
    PROVE  BlockLength(FileSize(m), m.block) \in Nat
<1>1. FileSize(m) \in 0..(UINT32_RANGE - 1)
  <2>1. JobQueue[m.job].files \in Seq(0..(UINT32_RANGE - 1))
    BY JobType DEF IsServed
  <2>2. m.file + 1 \in 1..Len(JobQueue[m.job].files)
    BY <2>1 DEF IsServed
  <2> QED BY <2>1, <2>2, ElementOfSeq DEF FileSize
<1> QED BY <1>1, UintAssumption, BlockLengthType DEF IsServed, Blocks

(* Job identifiers stay sequences of characters.                           *)
LEMMA JobIdType ==
    ASSUME NEW doc \in JobDocs
    PROVE  GetJobId(doc) \in Ids
BY JobType DEF GetJobId, Ids

(* The copied identifier is a sequence of characters too.                  *)
LEMMA CopyJobIdType ==
    ASSUME NEW g \in Ids, NEW id \in Ids
    PROVE  CopyJobId(g, id) \in Ids
BY DEF CopyJobId, Ids
=============================================================================
