---------------------------- MODULE MCBenchTarget ----------------------------
(***************************************************************************)
(* An instance of BenchTarget for TLC: one output directory, so that a     *)
(* second session could only reuse it, and a target that reboots once and  *)
(* whose units the operator may run again in each boot.                    *)
(***************************************************************************)
EXTENDS BenchTarget

CONSTANT D

OneDirectory == {D}
=============================================================================
