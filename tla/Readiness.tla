------------------------------ MODULE Readiness ------------------------------
(***************************************************************************)
(* The two milestone observers of a booted target: the systemd units       *)
(* ark-os-ready and ark-cuda-ready and the script ark-readiness they run.  *)
(* Each publishes a record under /run/ark-bench and then prints a marker.  *)
(* The script runs under set -e beside systemd's start timeout, whose      *)
(* SIGTERM the cuda script traps without exiting; /run is lost at every    *)
(* boot.  /run never fills up here, and the UART copy of a marker, whose   *)
(* failure the script ignores, is one step with its journal line.          *)
(***************************************************************************)
EXTENDS Naturals, Sequences

CONSTANTS
  MaxBoots,      \* boots of the target that are explored
  MaxRestarts,   \* manual `systemctl restart`s that are explored
  Restarted      \* the units the operator restarts

ASSUME BoundsAssumption ==
  MaxBoots \in Nat \ {0} /\ MaxRestarts \in Nat /\ Restarted \subseteq {"os", "cuda"}

VARIABLES
  boot,          \* /proc/sys/kernel/random/boot_id: a new one for each boot
  provided,      \* has the unit every service it Requires=?
  job,           \* systemd's start job of each unit
  unit,          \* systemd's state of each unit
  pc,            \* where each script is
  termed,        \* has the start timeout sent SIGTERM?
  passed,        \* the exit status of `ark-cuda-bench --smoke` is 0
  temporary,     \* the running cuda script still has its mktemp file
  ready,         \* os-ready.json and cuda-ready.json
  smoke,         \* cuda-smoke.json
  activation,    \* how often the cuda script has withdrawn cuda-ready.json
  journal,       \* the markers printed in this boot
  restarts       \* manual restarts so far

scriptVars == <<pc, termed, passed, temporary, ready, smoke, activation, journal>>
vars == <<boot, provided, job, unit, restarts, scriptVars>>

Units == {"os", "cuda"}

(***************************************************************************)
(* Both units require ark-grow-rootfs; only cuda requires nvpmodel.        *)
(***************************************************************************)
Provisions == {p \in [Units -> BOOLEAN] : p["cuda"] => p["os"]}

NoSmoke == [run |-> 0, passed |-> FALSE]

Init ==
  /\ boot = 1
  /\ provided \in Provisions
  /\ job = [u \in Units |-> "waiting"]
  /\ unit = [u \in Units |-> "inactive"]
  /\ pc = [u \in Units |-> "off"]
  /\ termed = [u \in Units |-> FALSE]
  /\ passed = FALSE
  /\ temporary = FALSE
  /\ ready = [u \in Units |-> "absent"]
  /\ smoke = NoSmoke
  /\ activation = 0
  /\ journal = << >>
  /\ restarts = 0

-----------------------------------------------------------------------------
(* systemd *)

FirstStep(u) == IF u = "os" THEN "uptime" ELSE "clear"

\* Mutant of Start: cuda is not After=ark-os-ready.
StartUnordered(u) ==
  /\ job[u] = "waiting"
  /\ provided[u]
  /\ job' = [job EXCEPT ![u] = "running"]
  /\ unit' = [unit EXCEPT ![u] = "activating"]
  /\ pc' = [pc EXCEPT ![u] = FirstStep(u)]
  /\ UNCHANGED <<boot, provided, restarts, termed, passed, temporary, ready,
                 smoke, activation, journal>>

(***************************************************************************)
(* cuda is After=ark-os-ready: it waits for a start job of os to end, well *)
(* or badly, since it only Wants= it.                                      *)
(***************************************************************************)
Start(u) ==
  /\ job[u] = "waiting"
  /\ provided[u]
  /\ u = "cuda" => job["os"] = "done"
  /\ job' = [job EXCEPT ![u] = "running"]
  /\ unit' = [unit EXCEPT ![u] = "activating"]
  /\ pc' = [pc EXCEPT ![u] = FirstStep(u)]
  /\ UNCHANGED <<boot, provided, restarts, termed, passed, temporary, ready,
                 smoke, activation, journal>>

DependencyFailed(u) ==
  /\ job[u] = "waiting"
  /\ ~provided[u]
  /\ job' = [job EXCEPT ![u] = "done"]
  /\ UNCHANGED <<boot, provided, restarts, unit, scriptVars>>

(***************************************************************************)
(* A oneshot that the timeout has hit has failed whatever its exit status. *)
(* The EXIT trap removes the temporary file; one that a kill leaves behind *)
(* has a name of its own and is never read again.                          *)
(***************************************************************************)
Ended(u, ok) ==
  /\ job' = [job EXCEPT ![u] = "done"]
  /\ unit' = [unit EXCEPT ![u] = IF ok /\ ~termed[u] THEN "active" ELSE "failed"]
  /\ pc' = [pc EXCEPT ![u] = "off"]
  /\ termed' = [termed EXCEPT ![u] = FALSE]
  /\ passed' = (passed /\ u # "cuda")
  /\ temporary' = (temporary /\ u # "cuda")

Trapping(u) == u = "cuda" /\ pc[u] \notin {"clear", "mktemp", "trap"}

(***************************************************************************)
(* The start timeout signals the whole control group.  Without a trap the  *)
(* shell dies where it is; with it, the handler removes the temporary file *)
(* and the script goes on, the probe having been killed under it.          *)
(***************************************************************************)
TimeoutWithoutTrap(u) ==
  /\ job[u] = "running" /\ ~termed[u] /\ ~Trapping(u)
  /\ Ended(u, FALSE)
  /\ UNCHANGED <<boot, provided, restarts, ready, smoke, activation, journal>>

\* Mutant of TimeoutWithTrap: no TimeoutStartSec, which a oneshot defaults to.
TimeoutNever(u) == FALSE /\ u \in Units /\ UNCHANGED vars

TimeoutWithTrap(u) ==
  /\ job[u] = "running" /\ ~termed[u] /\ Trapping(u)
  /\ termed' = [termed EXCEPT ![u] = TRUE]
  /\ temporary' = FALSE
  /\ passed' = (passed /\ pc[u] # "probing")
  /\ pc' = [pc EXCEPT ![u] = IF @ = "probing" THEN "publish" ELSE @]
  /\ UNCHANGED <<boot, provided, restarts, job, unit, ready, smoke, activation,
                 journal>>

(* TimeoutStopSec: SIGKILL to whatever outlives SIGTERM. *)
Kill(u) ==
  /\ job[u] = "running" /\ termed[u]
  /\ Ended(u, FALSE)
  /\ UNCHANGED <<boot, provided, restarts, ready, smoke, activation, journal>>

-----------------------------------------------------------------------------
(* The script *)

At(u, label) == job[u] = "running" /\ pc[u] = label

ReadUptime(u) ==
  /\ At(u, "uptime")
  /\ pc' = [pc EXCEPT ![u] = IF u = "cuda" /\ ~passed THEN "mark" ELSE "open"]
  /\ UNCHANGED <<boot, provided, restarts, job, unit, termed, passed, temporary,
                 ready, smoke, activation, journal>>

\* Mutant of UptimeInvalid: `exit` for `exit 1`.
UptimeInvalidUnnoticed(u) ==
  /\ At(u, "uptime")
  /\ Ended(u, TRUE)
  /\ UNCHANGED <<boot, provided, restarts, ready, smoke, activation, journal>>

UptimeInvalid(u) ==
  /\ At(u, "uptime")
  /\ Ended(u, FALSE)
  /\ UNCHANGED <<boot, provided, restarts, ready, smoke, activation, journal>>

(* The redirection truncates the record before printf fills it. *)
OpenRecord(u) ==
  /\ At(u, "open")
  /\ ready' = [ready EXCEPT ![u] = "empty"]
  /\ pc' = [pc EXCEPT ![u] = "fill"]
  /\ UNCHANGED <<boot, provided, restarts, job, unit, termed, passed, temporary,
                 smoke, activation, journal>>

FillRecord(u) ==
  /\ At(u, "fill")
  /\ ready' = [ready EXCEPT ![u] = "whole"]
  /\ pc' = [pc EXCEPT ![u] = "mark"]
  /\ UNCHANGED <<boot, provided, restarts, job, unit, termed, passed, temporary,
                 smoke, activation, journal>>

Succeeded(u) == u = "os" \/ passed

EmitMarker(u) ==
  /\ At(u, "mark")
  /\ journal' = Append(journal, [unit |-> u, ready |-> Succeeded(u)])
  /\ Ended(u, Succeeded(u))
  /\ UNCHANGED <<boot, provided, restarts, ready, smoke, activation>>

\* Mutant of ClearReady: no rm of the last activation's record.
ClearReadyKeepsIt ==
  /\ At("cuda", "clear")
  /\ activation' = activation + 1
  /\ pc' = [pc EXCEPT !["cuda"] = "mktemp"]
  /\ UNCHANGED <<boot, provided, restarts, job, unit, termed, passed, temporary,
                 ready, smoke, journal>>

ClearReady ==
  /\ At("cuda", "clear")
  /\ ready' = [ready EXCEPT !["cuda"] = "absent"]
  /\ activation' = activation + 1
  /\ pc' = [pc EXCEPT !["cuda"] = "mktemp"]
  /\ UNCHANGED <<boot, provided, restarts, job, unit, termed, passed, temporary,
                 smoke, journal>>

MakeTemporary ==
  /\ At("cuda", "mktemp")
  /\ temporary' = TRUE
  /\ pc' = [pc EXCEPT !["cuda"] = "trap"]
  /\ UNCHANGED <<boot, provided, restarts, job, unit, termed, passed, ready,
                 smoke, activation, journal>>

SetTrap ==
  /\ At("cuda", "trap")
  /\ pc' = [pc EXCEPT !["cuda"] = "probing"]
  /\ UNCHANGED <<boot, provided, restarts, job, unit, termed, passed, temporary,
                 ready, smoke, activation, journal>>

ProbeEnds(ok) ==
  /\ At("cuda", "probing")
  /\ passed' = ok
  /\ pc' = [pc EXCEPT !["cuda"] = "publish"]
  /\ UNCHANGED <<boot, provided, restarts, job, unit, termed, temporary, ready,
                 smoke, activation, journal>>

Publish ==
  /\ At("cuda", "publish")
  /\ temporary
  /\ smoke' = [run |-> activation, passed |-> passed]
  /\ temporary' = FALSE
  /\ pc' = [pc EXCEPT !["cuda"] = "uptime"]
  /\ UNCHANGED <<boot, provided, restarts, job, unit, termed, passed, ready,
                 activation, journal>>

(* The trap has removed the temporary file: mv fails and set -e exits. *)
PublishFails ==
  /\ At("cuda", "publish")
  /\ ~temporary
  /\ Ended("cuda", FALSE)
  /\ UNCHANGED <<boot, provided, restarts, ready, smoke, activation, journal>>

-----------------------------------------------------------------------------
(* The operator and the target's power *)

(***************************************************************************)
(* RemainAfterExit and RuntimeDirectoryPreserve keep the records; cuda     *)
(* Wants= os, which starts again with it unless it is active.              *)
(***************************************************************************)
Restart(u) ==
  /\ restarts < MaxRestarts
  /\ \A v \in Units : job[v] = "done"
  /\ restarts' = restarts + 1
  /\ job' = [v \in Units |->
               IF v = u \/ (u = "cuda" /\ unit[v] # "active") THEN "waiting" ELSE job[v]]
  /\ unit' = [v \in Units |-> IF job'[v] = "waiting" THEN "inactive" ELSE unit[v]]
  /\ UNCHANGED <<boot, provided, scriptVars>>

Reboot ==
  /\ boot < MaxBoots
  /\ boot' = boot + 1
  /\ provided' \in Provisions
  /\ job' = [u \in Units |-> "waiting"]
  /\ unit' = [u \in Units |-> "inactive"]
  /\ pc' = [u \in Units |-> "off"]
  /\ termed' = [u \in Units |-> FALSE]
  /\ passed' = FALSE
  /\ temporary' = FALSE
  /\ ready' = [u \in Units |-> "absent"]
  /\ smoke' = NoSmoke
  /\ activation' = 0
  /\ journal' = << >>
  /\ UNCHANGED restarts

-----------------------------------------------------------------------------
UnitStep(u) ==
  \/ Start(u) \/ DependencyFailed(u)
  \/ ReadUptime(u) \/ UptimeInvalid(u) \/ OpenRecord(u) \/ FillRecord(u)
  \/ EmitMarker(u)
  \/ TimeoutWithoutTrap(u) \/ TimeoutWithTrap(u) \/ Kill(u)

CudaStep ==
  \/ ClearReady \/ MakeTemporary \/ SetTrap
  \/ \E ok \in BOOLEAN : ProbeEnds(ok)
  \/ Publish \/ PublishFails

Next ==
  \/ \E u \in Units : UnitStep(u)
  \/ \E u \in Restarted : Restart(u)
  \/ CudaStep
  \/ Reboot

Spec == Init /\ [][Next]_vars

(***************************************************************************)
(* systemd runs the jobs it has queued, and its two timers expire. Nothing *)
(* makes the probe, the UART or the shell get anywhere.                    *)
(***************************************************************************)
SystemdFairness ==
  \A u \in Units :
    /\ WF_vars(Start(u)) /\ WF_vars(DependencyFailed(u))
    /\ WF_vars(TimeoutWithoutTrap(u)) /\ WF_vars(TimeoutWithTrap(u))
    /\ WF_vars(Kill(u))

FairSpec == Spec /\ SystemdFairness

-----------------------------------------------------------------------------
(* Properties *)

Labels == {"off", "clear", "mktemp", "trap", "probing", "publish", "uptime",
           "open", "fill", "mark"}

(* Type invariant of the units, the scripts and the files they share. *)
ReadinessTypeOK ==
  /\ boot \in Nat
  /\ provided \in Provisions
  /\ job \in [Units -> {"waiting", "running", "done"}]
  /\ unit \in [Units -> {"inactive", "activating", "active", "failed"}]
  /\ pc \in [Units -> Labels]
  /\ termed \in [Units -> BOOLEAN]
  /\ passed \in BOOLEAN
  /\ temporary \in BOOLEAN
  /\ ready \in [Units -> {"absent", "empty", "whole"}]
  /\ smoke \in [run : Nat, passed : BOOLEAN]
  /\ activation \in Nat
  /\ journal \in Seq([unit : Units, ready : BOOLEAN])
  /\ restarts \in Nat

(***************************************************************************)
(* Whatever the timeout, a kill or a restart does to the script, a         *)
(* cuda-ready.json stands beside the cuda-smoke.json of the same           *)
(* activation, and that smoke passed.                                      *)
(***************************************************************************)
ReadyMeansSmokePassed ==
  ready["cuda"] # "absent" => smoke = [run |-> activation, passed |-> TRUE]

(***************************************************************************)
(* A unit that systemd shows as active has its whole record on /run and    *)
(* its READY marker as the last thing it printed in this boot.             *)
(***************************************************************************)
ActiveMeansPublished ==
  \A u \in Units : unit[u] = "active" =>
    /\ ready[u] = "whole"
    /\ \E i \in DOMAIN journal :
         /\ journal[i] = [unit |-> u, ready |-> TRUE]
         /\ \A j \in i+1 .. Len(journal) : journal[j].unit # u

(***************************************************************************)
(* Until the operator restarts a unit, no boot's console shows a CUDA      *)
(* marker before the OS marker, although os may fail and cuda only wants   *)
(* it: the order measure-boot and summarize-boot read the markers in.      *)
(***************************************************************************)
OsMarkerComesFirst ==
  restarts = 0 =>
    \A i, j \in DOMAIN journal :
      journal[i].unit = "cuda" /\ journal[j].unit = "os" => j < i

(***************************************************************************)
(* A start job always ends, even if the probe hangs or ttyTCU0 blocks:     *)
(* TimeoutStartSec bounds units that are oneshot, hence without a default. *)
(***************************************************************************)
StartJobsEnd == \A u \in Units : job[u] = "running" ~> job[u] # "running"
=============================================================================
