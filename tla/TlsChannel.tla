----------------------------- MODULE TlsChannel -----------------------------
(***************************************************************************)
(* What the TLS transport promises the task that calls it: a connect that  *)
(* returns true leaves a session verified to be with the host asked for,   *)
(* and one that returns false leaves no session at all.                    *)
(***************************************************************************)
VARIABLES session, told

channelVars == <<session, told>>

Init == session = "none" /\ told = "nothing"

Connected ==
    /\ told = "nothing"
    /\ session' = "verified"
    /\ told' = "connected"

Refused ==
    /\ told = "nothing"
    /\ told' = "failed"
    /\ UNCHANGED session

Disconnected ==
    /\ session' = "none"
    /\ told' = "nothing"

Next == Connected \/ Refused \/ Disconnected

Spec == Init /\ [][Next]_channelVars
=============================================================================
