------------------------------- MODULE Fetch -------------------------------
(***************************************************************************)
(* What install_image promises its caller, whatever its threads do: Ok     *)
(* means that the whole image of this call was unpacked, and an archive    *)
(* that an earlier call left behind is never unpacked.                     *)
(***************************************************************************)
VARIABLES
    outcome,     \* "idle", "busy", "ok", "failed"
    unpacked     \* by this call: "nothing", "part", "whole"

vars == <<outcome, unpacked>>

Init == outcome = "idle" /\ unpacked = "nothing"

Begin ==
    /\ outcome # "busy"
    /\ outcome' = "busy" /\ unpacked' = "nothing"

Succeed ==
    /\ outcome = "busy"
    /\ outcome' = "ok" /\ unpacked' = "whole"

Fail ==
    /\ outcome = "busy"
    /\ outcome' = "failed" /\ unpacked' \in {"nothing", "part"}

Next == Begin \/ Succeed \/ Fail

Safety == Init /\ [][Next]_vars
=============================================================================
