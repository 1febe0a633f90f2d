---------------------------- MODULE Provisioning ----------------------------
(***************************************************************************)
(* What the board promises about the growth of its root filesystem         *)
(* (meta-ark/recipes-core/ark-grow-rootfs/README.md): growth only moves    *)
(* forward, the success that is recorded on the disk is the success of a   *)
(* completed growth and is never taken back, and no boot claims readiness  *)
(* before it is recorded.                                                  *)
(***************************************************************************)

VARIABLES stage, \* how far provisioning is, as a power loss would leave it
          ready  \* has this boot claimed a readiness milestone?

vars == <<stage, ready>>

Init == stage = "small" /\ ready = FALSE

Grow ==
    /\ stage \in {"small", "partial"}
    /\ stage' \in {"partial", "grown"}
    /\ UNCHANGED ready

Record ==
    /\ stage = "grown" /\ stage' = "recorded"
    /\ UNCHANGED ready

Claim ==
    /\ stage = "recorded" /\ ready' = TRUE
    /\ UNCHANGED stage

\* The board is switched off.
Forget == ready' = FALSE /\ UNCHANGED stage

Next == Grow \/ Record \/ Claim \/ Forget

Spec == Init /\ [][Next]_vars
=============================================================================
