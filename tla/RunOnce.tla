------------------------------ MODULE RunOnce ------------------------------
(***************************************************************************)
(* What the sysconfig service promises: a system is worked on, in any way  *)
(* and for as long as it takes, until the configuration is applied; then   *)
(* it is marked as done, and from then on left alone.                      *)
(***************************************************************************)
VARIABLES
    system,     \* what the system holds
    applied,    \* it is as the configuration says
    done        \* the mark

Init == applied \in BOOLEAN /\ done = FALSE

(* A step of the work may change the system in any way.                     *)
Work ==
    /\ ~done
    /\ applied' \in BOOLEAN
    /\ UNCHANGED done

Finish ==
    /\ applied /\ ~done
    /\ done' = TRUE
    /\ UNCHANGED <<system, applied>>

Next == Work \/ Finish

Safety == Init /\ [][Next]_<<system, applied, done>>
=============================================================================
