----------------------------- MODULE OtaDownloads ----------------------------
(***************************************************************************)
(* What the agent promises of jobs that replace one another: a download    *)
(* starts when another job becomes known, never over again for the same    *)
(* one; the blocks of its file are put in place one by one, none twice and *)
(* in any order; and when all of one file are there, and not before, its   *)
(* job is reported, the first and only one.                                *)
(***************************************************************************)
CONSTANTS Jobs,
          NoJob,                 \* before a job is known
          FileBlocks,            \* [Jobs -> the blocks of the job's file]
          JobIds,                \* [Jobs -> the job's identifier]
          NotReported

VARIABLES job, received, reported

downloadsVars == <<job, received, reported>>

Init == job = NoJob /\ received = {} /\ reported = NotReported

StartDownload(j) ==
    /\ reported = NotReported
    /\ j # job
    /\ job' = j
    /\ received' = {}
    /\ UNCHANGED reported

ReceiveBlock ==
    /\ reported = NotReported
    /\ job # NoJob
    /\ \E b \in FileBlocks[job] \ received : received' = received \cup {b}
    /\ UNCHANGED <<job, reported>>

FinishDownload ==
    /\ reported = NotReported
    /\ job # NoJob
    /\ received = FileBlocks[job]
    /\ reported' = JobIds[job]
    /\ UNCHANGED <<job, received>>

Next == ReceiveBlock \/ FinishDownload \/ \E j \in Jobs : StartDownload(j)

Spec == Init /\ [][Next]_downloadsVars
=============================================================================
