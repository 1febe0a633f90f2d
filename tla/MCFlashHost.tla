---------------------------- MODULE MCFlashHost -----------------------------
(***************************************************************************)
(* An instance of FlashHost for TLC: two wrappers on one host.             *)
(***************************************************************************)
EXTENDS FlashHost, TLC

CONSTANTS A, B

TwoRuns == {A, B}

\* Each flashes everything, or asks for that without acknowledging that QSPI
\* is part of it, or only checks.
CommandLines ==
    {[check |-> FALSE, nvme |-> TRUE, full |-> TRUE, qspi |-> TRUE],
     [check |-> FALSE, nvme |-> TRUE, full |-> TRUE, qspi |-> FALSE],
     [check |-> TRUE, nvme |-> FALSE, full |-> FALSE, qspi |-> FALSE]}

Symmetry == Permutations(TwoRuns)
=============================================================================
