--------------------------- MODULE MCMeasuredBoot ---------------------------
(***************************************************************************)
(* Instances of MeasuredBoot for TLC.                                      *)
(***************************************************************************)
EXTENDS MeasuredBoot

\* The carrier observer and an SSH banner, for an explicit power cycle.
LinkAndSsh == {"carrier", "net"}

\* The UART, with a marker, and an SSH banner.
ConsoleAndSsh == {"serial", "net"}
=============================================================================
