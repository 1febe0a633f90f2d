--------------------------- MODULE CaptureRecord ---------------------------
(***************************************************************************)
(* What a capture of scripts/measure-boot.py promises to whoever reads its *)
(* metadata, without threads, locks or a supply: one reference, set once;  *)
(* for every kind of readiness at most one time, backed by an observation  *)
(* that began at or after the reference; then one verdict, after which     *)
(* nothing changes, and which is "ready" only if everything that was       *)
(* wanted was seen.                                                        *)
(***************************************************************************)
EXTENDS Integers

CONSTANTS Kinds,    \* the kinds of readiness there are
          Wanted,   \* those that the capture waits for
          Verdicts  \* the values of metadata['status']

VARIABLES reference, ready, evidence, verdict

vars == <<reference, ready, evidence, verdict>>

NoTime == -1

Init ==
    /\ reference = NoTime
    /\ ready = [k \in Kinds |-> NoTime]
    /\ evidence = [k \in Kinds |-> NoTime]
    /\ verdict = "none"

Reference ==
    /\ verdict = "none"
    /\ reference = NoTime
    /\ reference' >= 0
    /\ UNCHANGED <<ready, evidence, verdict>>

\* Kind k becomes ready, on evidence gathered since the reference.
Observe(k) ==
    /\ verdict = "none"
    /\ reference # NoTime
    /\ ready[k] = NoTime
    /\ ready' = [ready EXCEPT ![k] = ready'[k]]
    /\ evidence' = [evidence EXCEPT ![k] = evidence'[k]]
    /\ reference <= evidence'[k]
    /\ evidence'[k] <= ready'[k]
    /\ UNCHANGED <<reference, verdict>>

Conclude ==
    /\ verdict = "none"
    /\ verdict' \in Verdicts
    /\ verdict' = "ready" =>
          reference # NoTime /\ \A k \in Wanted : ready[k] # NoTime
    /\ UNCHANGED <<reference, ready, evidence>>

Next == Reference \/ (\E k \in Kinds : Observe(k)) \/ Conclude

Spec == Init /\ [][Next]_vars
=============================================================================
