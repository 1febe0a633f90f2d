----------------------------- MODULE GrowRootfs -----------------------------
(***************************************************************************)
(* meta-ark/recipes-core/ark-grow-rootfs: the service that grows the root  *)
(* filesystem on the first boot after flashing, over any number of boots.  *)
(* systemd starts the helper unless the marker completed exists (unit);    *)
(* the helper identifies the device, runs resize2fs and records success    *)
(* with a temporary file, a rename and two fsyncs (pc); both readiness     *)
(* services require the unit (milestone).  Any step may fail, the unit's   *)
(* start timeout may kill the helper, and the power may go at any moment:  *)
(* what then survives is disk, which follows file at the filesystem's      *)
(* journal commits, or when the code asks for it.                          *)
(***************************************************************************)
EXTENDS Integers

CONSTANT MaxFaults  \* Bound: failures, kills and power losses in a behaviour

ASSUME FaultsAssumption == MaxFaults \in Nat

VARIABLES
    fs,         \* the ext4 filesystem against its partition
    file,       \* what each name of the state directory holds
    disk,       \* ... and what it would hold after a power loss
    unit,       \* ark-grow-rootfs.service; "down": the board is off
    pc,         \* where the helper is
    raised,     \* the exception on its way through the helper
    milestone,  \* what the readiness services have done in this boot
    faults

vars == <<fs, file, disk, unit, pc, raised, milestone, faults>>

Names == {"tmp", "marker"}  \* .completed.tmp and completed
Durables == {"absent", "empty", "text"}
Contents == Durables \cup {"dirty"}  \* "dirty": text that is not on the disk
Milestones == {"os", "cuda"}
Persisting == {"open", "write", "sync", "replace", "open_dir", "sync_dir"}
Points == {"none", "exists", "identify", "resize", "unlink", "exit"} \cup Persisting

Waiting == [m \in Milestones |-> "waiting"]

Init ==
    /\ fs = "small"
    /\ file = [n \in Names |-> "absent"]
    /\ disk = file
    /\ unit = "down"
    /\ pc = "none"
    /\ raised = "none"
    /\ milestone = Waiting
    /\ faults = 0

Fault == faults < MaxFaults /\ faults' = faults + 1

(***************************************************************************)
(* The filesystem.  A commit of its journal makes the directory durable,   *)
(* and with it those data that were written back.                          *)
(***************************************************************************)
Images == {d \in [Names -> Durables] :
              \A n \in Names : \/ d[n] = file[n]
                               \/ file[n] = "dirty" /\ d[n] # "absent"}

Commit ==
    /\ unit # "down"
    /\ disk' \in Images \ {disk}
    /\ UNCHANGED <<fs, file, unit, pc, raised, milestone, faults>>

(***************************************************************************)
(* systemd: booting, and starting the unit.                                *)
(***************************************************************************)
PowerUp ==
    /\ unit = "down" /\ unit' = "inactive"
    /\ UNCHANGED <<fs, file, disk, pc, raised, milestone, faults>>

Recorded == file["marker"] # "absent"

\* ConditionPathExists=!/var/lib/ark-grow-rootfs/completed
StartUnit ==
    /\ unit = "inactive"
    /\ \/ Recorded /\ unit' = "skipped" /\ UNCHANGED pc
       \/ ~Recorded /\ unit' = "running" /\ pc' = "exists"
    /\ UNCHANGED <<fs, file, disk, raised, milestone, faults>>

(***************************************************************************)
(* The helper.                                                             *)
(***************************************************************************)
Advance(from, to) ==
    /\ pc = from /\ pc' = to
    /\ UNCHANGED <<unit, raised, milestone, faults>>

\* An exception: persist_success's finally, or straight to main's handler.
Raise(from) ==
    /\ pc = from /\ Fault
    /\ pc' = IF from \in Persisting THEN "unlink" ELSE "exit"
    /\ raised' = "error"
    /\ UNCHANGED <<unit, milestone>>

MarkerExists ==
    /\ Advance("exists", IF Recorded THEN "exit" ELSE "identify")
    /\ UNCHANGED <<fs, file, disk>>

\* mounted_app
Identify ==
    /\ Advance("identify", "resize") \/ Raise("identify")
    /\ UNCHANGED <<fs, file, disk>>

\* resize2fs grows a mounted filesystem group by group, each one journalled.
Progress ==
    /\ fs = "small" /\ fs' = "partial"
    /\ Advance("resize", "resize")
    /\ UNCHANGED <<file, disk>>

Resized ==
    /\ fs' = "grown" /\ Advance("resize", "open")
    /\ UNCHANGED <<file, disk>>

ResizeFailsUnnoticed ==  \* Mutant: run without check=True
    /\ pc = "resize" /\ Fault
    /\ pc' = "open"
    /\ UNCHANGED <<fs, file, disk, unit, raised, milestone>>

ResizeFails == Raise("resize") /\ UNCHANGED <<fs, file, disk>>

\* persist_success
Open ==
    /\ \/ Advance("open", "write") /\ file' = [file EXCEPT !["tmp"] = "empty"]
       \/ Raise("open") /\ UNCHANGED file
    /\ UNCHANGED <<fs, disk>>

Write ==
    /\ \/ Advance("write", "sync") /\ file' = [file EXCEPT !["tmp"] = "dirty"]
       \/ Raise("write") /\ UNCHANGED file
    /\ UNCHANGED <<fs, disk>>

SyncSkipped ==  \* Mutant: no fsync of the temporary file
    /\ Advance("sync", "replace")
    /\ UNCHANGED <<fs, file, disk>>

Sync ==
    /\ \/ /\ Advance("sync", "replace")
          /\ file' = [file EXCEPT !["tmp"] = "text"]
          /\ disk' = file'
       \/ Raise("sync") /\ UNCHANGED <<file, disk>>
    /\ UNCHANGED fs

Replace ==
    /\ \/ /\ Advance("replace", "open_dir")
          /\ file' = [tmp |-> "absent", marker |-> file["tmp"]]
       \/ Raise("replace") /\ UNCHANGED file
    /\ UNCHANGED <<fs, disk>>

OpenDir ==
    /\ Advance("open_dir", "sync_dir") \/ Raise("open_dir")
    /\ UNCHANGED <<fs, file, disk>>

SyncDirSkipped ==  \* Mutant: no fsync of the directory
    /\ Advance("sync_dir", "unlink")
    /\ UNCHANGED <<fs, file, disk>>

SyncDir ==
    /\ \/ Advance("sync_dir", "unlink") /\ disk' \in Images
       \/ Raise("sync_dir") /\ UNCHANGED disk
    /\ UNCHANGED <<fs, file>>

Unlink ==
    /\ \/ Advance("unlink", "exit") /\ file' = [file EXCEPT !["tmp"] = "absent"]
       \/ Raise("unlink") /\ UNCHANGED file
    /\ UNCHANGED <<fs, disk>>

\* main's exit status is the unit's result.
Exit ==
    /\ pc = "exit" /\ pc' = "none"
    /\ unit' = IF raised = "none" THEN "succeeded" ELSE "failed"
    /\ raised' = "none"
    /\ UNCHANGED <<fs, file, disk, milestone, faults>>

\* TimeoutStartSec: systemd kills the helper and resize2fs, which may first
\* get further in the kernel.
Timeout ==
    /\ unit = "running" /\ Fault
    /\ fs' \in IF pc = "resize" THEN {fs, "partial", "grown"} ELSE {fs}
    /\ fs = "grown" => fs' = fs
    /\ unit' = "failed"
    /\ pc' = "none" /\ raised' = "none"
    /\ UNCHANGED <<file, disk, milestone>>

(***************************************************************************)
(* The readiness services, with the drop-in 20-grow-rootfs.conf.  A unit   *)
(* that its condition skips satisfies Requires; a failed one does not.     *)
(***************************************************************************)
\* Mutants of Reach: ordered after the unit but not requiring it, and requiring
\* a unit that has run (an assertion in place of the unit's condition).
ReachRegardless(m) ==
    /\ milestone[m] = "waiting"
    /\ unit \in {"succeeded", "skipped", "failed"}
    /\ m = "cuda" => milestone["os"] # "waiting"
    /\ \/ milestone' = [milestone EXCEPT ![m] = "ready"] /\ UNCHANGED faults
       \/ milestone' = [milestone EXCEPT ![m] = "failed"] /\ Fault
    /\ UNCHANGED <<fs, file, disk, unit, pc, raised>>

ReachIfRun(m) ==
    /\ milestone[m] = "waiting"
    /\ unit = "succeeded"
    /\ m = "cuda" => milestone["os"] # "waiting"
    /\ \/ milestone' = [milestone EXCEPT ![m] = "ready"] /\ UNCHANGED faults
       \/ milestone' = [milestone EXCEPT ![m] = "failed"] /\ Fault
    /\ UNCHANGED <<fs, file, disk, unit, pc, raised>>

Reach(m) ==
    /\ milestone[m] = "waiting"
    /\ unit \in {"succeeded", "skipped"}
    /\ m = "cuda" => milestone["os"] # "waiting"
    /\ \/ milestone' = [milestone EXCEPT ![m] = "ready"] /\ UNCHANGED faults
       \/ milestone' = [milestone EXCEPT ![m] = "failed"] /\ Fault
    /\ UNCHANGED <<fs, file, disk, unit, pc, raised>>

Suppress(m) ==
    /\ milestone[m] = "waiting"
    /\ unit = "failed"
    /\ milestone' = [milestone EXCEPT ![m] = "failed"]
    /\ UNCHANGED <<fs, file, disk, unit, pc, raised, faults>>

(***************************************************************************)
(* The end of a boot.                                                      *)
(***************************************************************************)
Settled == \A m \in Milestones : milestone[m] # "waiting"

SwitchedOff ==
    /\ unit' = "down"
    /\ pc' = "none" /\ raised' = "none"
    /\ milestone' = Waiting

\* An orderly shutdown unmounts the filesystem, which writes everything; one
\* before the boot has settled counts as a fault, for it may end the helper.
Shutdown ==
    /\ unit # "down" /\ SwitchedOff
    /\ file' = [n \in Names |-> IF file[n] = "dirty" THEN "text" ELSE file[n]]
    /\ disk' = file'
    /\ IF Settled THEN UNCHANGED faults ELSE Fault
    /\ UNCHANGED fs

PowerLoss ==
    /\ unit # "down" /\ Fault /\ SwitchedOff
    /\ file' = disk
    /\ UNCHANGED <<fs, disk>>

Persist == Open \/ Write \/ Sync \/ Replace \/ OpenDir \/ SyncDir \/ Unlink
Helper == MarkerExists \/ Identify \/ Progress \/ Resized \/ ResizeFails \/ Persist \/ Exit

Next ==
    \/ PowerUp \/ StartUnit
    \/ Helper
    \/ Timeout \/ Commit
    \/ \E m \in Milestones : Reach(m) \/ Suppress(m)
    \/ Shutdown \/ PowerLoss

\* The processor runs what can run, and a board that has settled is sooner or
\* later booted again.
Fairness ==
    /\ WF_vars(PowerUp) /\ WF_vars(StartUnit) /\ WF_vars(Helper)
    /\ \A m \in Milestones : WF_vars(Reach(m)) /\ WF_vars(Suppress(m))
    /\ WF_vars(Shutdown)

Spec == Init /\ [][Next]_vars
FairSpec == Spec /\ Fairness

-----------------------------------------------------------------------------
TypeOK ==
    /\ fs \in {"small", "partial", "grown"}
    /\ file \in [Names -> Contents] /\ file["marker"] \in Durables
    /\ disk \in [Names -> Durables]
    /\ unit \in {"down", "inactive", "running", "succeeded", "skipped", "failed"}
    /\ pc \in Points
    /\ raised \in {"none", "error"}
    /\ milestone \in [Milestones -> {"waiting", "ready", "failed"}]
    /\ faults \in Nat

\* The inductive content of the properties below, by where the helper is.
PhaseInv ==
    /\ pc # "none" <=> unit = "running"
    /\ pc \in Persisting => fs = "grown"
    /\ pc \in {"exists", "identify", "resize", "open", "write", "sync", "replace"} =>
           file["marker"] = "absent"
    /\ pc = "replace" => file["tmp"] = "text"
    /\ pc \in {"open_dir", "sync_dir"} => file["marker"] = "text"
    /\ pc \in {"unlink", "exit"} /\ raised = "none" => disk["marker"] = "text"
    /\ raised = "error" => pc \in {"unlink", "exit"}
    /\ unit \in {"down", "inactive", "skipped"} => file = disk
    /\ unit \in {"succeeded", "skipped"} => disk["marker"] = "text"
    /\ disk["marker"] # "absent" => file["marker"] = "text"
    /\ file["marker"] \in {"absent", "text"}
    /\ \A m \in Milestones : milestone[m] = "ready" => unit \in {"succeeded", "skipped"}

\* A success marker, the one the code sees or the one a power loss would
\* leave, stands for a completed growth ("records completed only after
\* resize2fs returns success").
MarkerMeansGrown ==
    file["marker"] # "absent" \/ disk["marker"] # "absent" => fs = "grown"

\* A power loss never leaves a marker without its text: the reason for the
\* first fsync.
MarkerIsWhole == disk["marker"] \in {"absent", "text"}

\* Success that was reported is not forgotten, whatever happens afterwards,
\* and no later boot resizes again: the reason for the second fsync.
SuccessStep ==
    unit = "succeeded" \/ disk["marker"] = "text" =>
        disk'["marker"] = "text" /\ (pc' = "resize" => pc = "resize")
SuccessIsFinal == [][SuccessStep]_vars

\* No boot claims a milestone before growth is recorded on the disk, and
\* growth is never undone ("both ARK readiness services require successful
\* growth").
Stage == IF disk["marker"] = "absent" THEN fs ELSE "recorded"
Claimed == \E m \in Milestones : milestone[m] = "ready"
P == INSTANCE Provisioning WITH stage <- Stage, ready <- Claimed
ImplementsProvisioning == P!Spec

\* After the last fault, a boot reaches both milestones, again and again: the
\* growth is retried until it succeeds, and a skipped unit does not hold back
\* the services that require it.
AllReady == \A m \in Milestones : milestone[m] = "ready"
EventuallyReady == []<>AllReady

\* "A failure leaves no success marker and is retried on the next boot."
FailureLeavesNoMarker == unit = "failed" => ~Recorded
=============================================================================
