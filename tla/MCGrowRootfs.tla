---------------------------- MODULE MCGrowRootfs ----------------------------
(***************************************************************************)
(* The instance of GrowRootfs for TLC.                                     *)
(***************************************************************************)
EXTENDS GrowRootfs

\* Three faults: a boot that fails, a power loss during its retry, and one more
\* during the boot after that.
ThreeFaults == 3
=============================================================================
