------------------------------ MODULE MCOtaAgent ------------------------------
(* Instances of OtaAgent for TLC: the service's queues of jobs.            *)
EXTENDS OtaAgent

(* One OTA job, of a file of two blocks; the last one is a short one.      *)
OneOtaJob == <<[id |-> <<1>>, files |-> <<5>>]>>

(* One OTA job, of a file of three blocks that is a byte short of the      *)
(* instance's CONFIG_MAX_FILE_SIZE, and so fits.                           *)
FileNearTheLimit == <<[id |-> <<1>>, files |-> <<7>>]>>

(* A job that is not an OTA job, an OTA job of two files, of which only    *)
(* the second is parsed, one of one block, and one whose file is a byte    *)
(* larger than the instance's CONFIG_MAX_FILE_SIZE.  Each id begins with   *)
(* the one before it.                                                      *)
JobsInTurn == <<[id |-> <<1>>, files |-> <<>>],
                [id |-> <<1, 2>>, files |-> <<2, 5>>],
                [id |-> <<1, 2, 3>>, files |-> <<3>>],
                [id |-> <<1, 2, 3, 4>>, files |-> <<9>>]>>

(* Two OTA jobs; the second one's file is of one block.                    *)
TwoOtaJobs == <<[id |-> <<1>>, files |-> <<5>>], [id |-> <<2>>, files |-> <<3>>]>>

(* A job that is not an OTA job comes after, or before, an OTA job.        *)
OtherJobSecond == <<[id |-> <<1>>, files |-> <<5>>], [id |-> <<2>>, files |-> <<>>]>>
OtherJobFirst  == <<[id |-> <<1>>, files |-> <<>>], [id |-> <<2>>, files |-> <<5>>]>>
=============================================================================
