----------------------------- MODULE MCSimpleOta -----------------------------
(* Instances of SimpleOta for TLC: the jobs the service may start.         *)
EXTENDS SimpleOta

(* A job that is not an OTA job, files of one block, of whole blocks, with *)
(* a short last block, the largest that fits an instance with room for 12, *)
(* and two that do not fit.                                                *)
OneFileJobs == <<[id |-> <<1>>, files |-> <<>>],
                 [id |-> <<2>>, files |-> <<1>>],
                 [id |-> <<3>>, files |-> <<6>>],
                 [id |-> <<4>>, files |-> <<7>>],
                 [id |-> <<5>>, files |-> <<11>>],
                 [id |-> <<6>>, files |-> <<12>>],
                 [id |-> <<7>>, files |-> <<13>>]>>

(* A job of two files.                                                     *)
TwoFileJob == <<[id |-> <<1>>, files |-> <<5, 4>>]>>
=============================================================================
