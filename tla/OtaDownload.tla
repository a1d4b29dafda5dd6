----------------------------- MODULE OtaDownload -----------------------------
(***************************************************************************)
(* What an OTA download promises: after the job is known, the blocks of    *)
(* its file are put in place one by one, none twice and in any order; when *)
(* all are there, and not before, the download is done.                    *)
(***************************************************************************)
CONSTANT FileBlocks

VARIABLES phase, received

downloadVars == <<phase, received>>

Init == phase = "waiting" /\ received = {}

StartDownload ==
    /\ phase = "waiting"
    /\ phase' = "downloading"
    /\ UNCHANGED received

ReceiveBlock(b) ==
    /\ phase = "downloading"
    /\ b \notin received
    /\ received' = received \cup {b}
    /\ UNCHANGED phase

FinishDownload ==
    /\ phase = "downloading"
    /\ received = FileBlocks
    /\ phase' = "done"
    /\ UNCHANGED received

Next == StartDownload \/ FinishDownload \/ \E b \in FileBlocks : ReceiveBlock(b)

Spec == Init /\ [][Next]_downloadVars
=============================================================================
