---------------------------- MODULE BpmpDebugfs -----------------------------
(***************************************************************************)
(* The kernel patch 0001-tegra-bpmp-optional-async-debugfs: the BPMP       *)
(* driver's diagnostic debugfs tree, created at probe or, when the kernel  *)
(* is told to, by a delayed work on a freezable queue of its own.  Three   *)
(* actors: the probe, which may fall back to the synchronous path; the     *)
(* worker; and what the kernel does to the driver meanwhile, which is to   *)
(* suspend the machine and to release the device's resources.  devres runs *)
(* the release actions in the reverse order of their registration, so this *)
(* one runs first; the freezer freezes user tasks, the one that unbinds a  *)
(* device among them, before it freezes and drains the queues.             *)
(***************************************************************************)

VARIABLES
    async,      \* debugfs_async
    numa,       \* does the device belong to a NUMA node?
    supported,  \* does the firmware offer debugfs?
    probe,      \* where tegra_bpmp_debugfs_start is
    action,     \* is tegra_bpmp_debugfs_cancel registered with devres?
    queue,      \* state->queue: does the workqueue exist?
    work,       \* state->work
    tree,       \* the directories below /sys/kernel/debug/bpmp
    root,       \* state->root: does the worker's reference exist?
    announced,  \* was "debugfs initialized asynchronously" logged?
    transport,  \* the BPMP channels
    pm,         \* system suspend
    release     \* where the release of the device's resources is

fixed       == <<async, numa, supported>>
startVars   == <<fixed, probe, action>>
workerVars  == <<work, tree, root, announced>>
systemVars  == <<transport, pm, release>>
vars == <<startVars, queue, workerVars, systemVars>>

Releasing == {"cancel", "destroy", "remove", "dput", "devres"}

Init ==
    /\ async \in BOOLEAN /\ numa \in BOOLEAN /\ supported \in BOOLEAN
    /\ probe = "start"
    /\ action = FALSE /\ queue = FALSE
    /\ work = "idle" /\ tree = "absent"
    /\ root = FALSE /\ announced = FALSE
    /\ transport = "up" /\ pm = "running" /\ release = "none"

(***************************************************************************)
(* tegra_bpmp_debugfs_start                                                *)
(***************************************************************************)
Probe(from, to) == probe = from /\ probe' = to

Start ==
    /\ Probe("start", IF async /\ ~numa THEN "allocate" ELSE "sync")
    /\ UNCHANGED <<fixed, action, queue, workerVars, systemVars>>

\* devm_kzalloc
Allocate ==
    /\ Probe("allocate", "alloc_queue") \/ Probe("allocate", "sync")
    /\ UNCHANGED <<fixed, action, queue, workerVars, systemVars>>

AllocateQueue ==
    /\ \/ Probe("alloc_queue", "add_action") /\ queue' = TRUE
       \/ Probe("alloc_queue", "sync") /\ UNCHANGED queue
    /\ UNCHANGED <<fixed, action, workerVars, systemVars>>

AddActionNoReset ==  \* Mutant: devm_add_action, which does not run the action
    /\ \/ Probe("add_action", "queue_work") /\ action' = TRUE
       \/ Probe("add_action", "sync") /\ UNCHANGED action
    /\ UNCHANGED <<fixed, queue, workerVars, systemVars>>

\* devm_add_action_or_reset: on failure it runs the cancellation itself.
AddAction ==
    /\ \/ Probe("add_action", "queue_work") /\ action' = TRUE /\ UNCHANGED queue
       \/ Probe("add_action", "sync") /\ queue' = FALSE /\ UNCHANGED action
    /\ UNCHANGED <<fixed, workerVars, systemVars>>

QueueWork ==
    /\ Probe("queue_work", "done")
    /\ work' = "delayed"
    /\ UNCHANGED <<fixed, action, queue, tree, root, announced, systemVars>>

\* tegra_bpmp_init_debugfs in the probe itself; a failure takes back what it
\* made.
InitNow ==
    /\ Probe("sync", "done")
    /\ tree' \in {"absent"} \cup (IF supported THEN {"whole"} ELSE {})
    /\ UNCHANGED <<fixed, action, queue, work, root, announced, systemVars>>

(***************************************************************************)
(* The delayed work and tegra_bpmp_debugfs_worker.                         *)
(***************************************************************************)
Work(from, to) == work = from /\ work' = to

WorkUnchanged == UNCHANGED <<startVars, queue, systemVars>>

DelayEnds ==
    /\ Work("delayed", "pending")
    /\ UNCHANGED <<tree, root, announced>> /\ WorkUnchanged

\* A frozen queue starts nothing.
WorkerStarts ==
    /\ Work("pending", "init") /\ pm = "running"
    /\ UNCHANGED <<tree, root, announced>> /\ WorkUnchanged

\* One of the requests to the firmware that tegra_bpmp_init_debugfs makes.
Request ==
    /\ work = "init" /\ supported /\ tree' = "partial"
    /\ UNCHANGED <<work, root, announced>> /\ WorkUnchanged

InitEndsUnchecked ==  \* Mutant: err is not looked at
    /\ \/ Work("init", "publish") /\ tree = "partial" /\ tree' \in {"whole", "absent"}
       \/ Work("init", "publish") /\ ~supported /\ UNCHANGED tree
    /\ UNCHANGED <<root, announced>> /\ WorkUnchanged

InitEnds ==
    /\ \/ Work("init", "publish") /\ tree = "partial" /\ tree' = "whole"
       \/ Work("init", "publish") /\ ~supported /\ UNCHANGED tree
       \/ Work("init", "idle") /\ tree' = "absent"
    /\ UNCHANGED <<root, announced>> /\ WorkUnchanged

\* dget_parent and the message that tools wait for; nothing is there if the
\* firmware does not support debugfs.
Publish ==
    /\ Work("publish", "idle")
    /\ root' = supported /\ announced' = supported
    /\ UNCHANGED tree /\ WorkUnchanged

(***************************************************************************)
(* System suspend.                                                         *)
(***************************************************************************)
SuspendUnchanged == UNCHANGED <<startVars, queue, workerVars, release>>

Freeze ==
    /\ pm = "running" /\ probe = "done" /\ release = "none"
    /\ pm' = "freezing"
    /\ UNCHANGED transport /\ SuspendUnchanged

\* The work under way has ended before the transport is quiesced.
Quiesce ==
    /\ pm = "freezing" /\ work \notin {"init", "publish"}
    /\ pm' = "suspended" /\ transport' = "quiet"
    /\ SuspendUnchanged

\* The freezer gives up, or the machine resumes.
Thaw ==
    /\ pm \in {"freezing", "suspended"}
    /\ pm' = "running" /\ transport' = "up"
    /\ SuspendUnchanged

(***************************************************************************)
(* devres_release_all and tegra_bpmp_debugfs_cancel.                       *)
(***************************************************************************)
Release(from, to) == release = from /\ release' = to

ReleaseUnchanged == UNCHANGED <<startVars, announced, pm>>

Unbind ==
    /\ probe = "done" /\ pm = "running"
    /\ Release("none", IF action THEN "cancel" ELSE "devres")
    /\ UNCHANGED <<queue, work, tree, root, transport>> /\ ReleaseUnchanged

CancelNoSync ==  \* Mutant: cancel_delayed_work, which does not wait
    /\ Release("cancel", "destroy")
    /\ work' = IF work \in {"delayed", "pending"} THEN "idle" ELSE work
    /\ UNCHANGED <<queue, tree, root, transport>> /\ ReleaseUnchanged

CancelAwaitsTree ==  \* Mutant: it waits for the worker to announce the tree
    /\ Release("cancel", "destroy")
    /\ announced /\ work' = "idle"
    /\ UNCHANGED <<queue, tree, root, transport>> /\ ReleaseUnchanged

\* cancel_delayed_work_sync: what has not begun is dropped, what has is joined.
Cancel ==
    /\ Release("cancel", "destroy")
    /\ work \notin {"init", "publish"} /\ work' = "idle"
    /\ UNCHANGED <<queue, tree, root, transport>> /\ ReleaseUnchanged

DestroyQueue ==
    /\ Release("destroy", IF root THEN "remove" ELSE "devres")
    /\ queue' = FALSE
    /\ UNCHANGED <<work, tree, root, transport>> /\ ReleaseUnchanged

RemoveTree ==
    /\ Release("remove", "dput")
    /\ tree' = "absent"
    /\ UNCHANGED <<queue, work, root, transport>> /\ ReleaseUnchanged

DropReference ==
    /\ Release("dput", "devres")
    /\ root' = FALSE
    /\ UNCHANGED <<queue, work, tree, transport>> /\ ReleaseUnchanged

\* The driver's own resources, which were registered earlier.
ReleaseTransport ==
    /\ Release("devres", "done")
    /\ transport' = "released"
    /\ UNCHANGED <<queue, work, tree, root>> /\ ReleaseUnchanged

Terminated == release = "done" /\ UNCHANGED vars

Starting == Start \/ Allocate \/ AllocateQueue \/ AddAction \/ QueueWork \/ InitNow
Worker   == WorkerStarts \/ InitEnds \/ Publish
Removal  == Cancel \/ DestroyQueue \/ RemoveTree \/ DropReference \/ ReleaseTransport

Next ==
    \/ Starting \/ DelayEnds \/ Worker \/ Request
    \/ Freeze \/ Quiesce \/ Thaw
    \/ Unbind \/ Removal
    \/ Terminated

\* The probe and the release run to their ends, a timer fires, the machine
\* resumes, a worker that can start again and again does, and the firmware
\* ends every sequence of requests.
Fairness ==
    /\ WF_vars(Starting) /\ WF_vars(DelayEnds) /\ SF_vars(WorkerStarts)
    /\ WF_vars(InitEnds \/ Publish) /\ WF_vars(Thaw) /\ WF_vars(Removal)

Spec == Init /\ [][Next]_vars
FairSpec == Spec /\ Fairness

-----------------------------------------------------------------------------
TypeOK ==
    /\ async \in BOOLEAN /\ numa \in BOOLEAN /\ supported \in BOOLEAN
    /\ probe \in {"start", "allocate", "alloc_queue", "add_action", "queue_work",
                  "sync", "done"}
    /\ action \in BOOLEAN /\ queue \in BOOLEAN
    /\ work \in {"idle", "delayed", "pending", "init", "publish"}
    /\ tree \in {"absent", "partial", "whole"}
    /\ root \in BOOLEAN /\ announced \in BOOLEAN
    /\ transport \in {"up", "quiet", "released"}
    /\ pm \in {"running", "freezing", "suspended"}
    /\ release \in {"none", "done"} \cup Releasing

\* "Join before devres releases any BPMP transport or device storage" and
\* "Freeze/drain this work before suspend can quiesce the transport" (patch
\* lines 98 and 133): the worker talks to the firmware only over a transport
\* that is up, and a work that is still to run has its queue and its state.
TransportWhileUsed ==
    /\ work = "init" => transport = "up"
    /\ work # "idle" => queue /\ action /\ release \in {"none", "cancel"}

\* Whatever failed at probe and wherever the worker was, a device released of
\* its resources leaves no queue, no reference and, if its tree was the
\* worker's, no directory; nor does a fallback leave a queue that nobody uses.
NothingLeftBehind ==
    /\ probe = "done" /\ ~action => ~queue
    /\ release = "done" => ~queue /\ ~root /\ work = "idle"
    /\ release = "done" /\ action => tree = "absent"

\* "Tools needing /sys/kernel/debug/bpmp/debug ... must wait for the message"
\* (docs/fastboot.md:41-43): until the device is released, a tree that was
\* announced is whole.
AnnouncedTreeIsWhole ==
    announced /\ release \in {"none", "cancel", "destroy", "remove"} => tree = "whole"

\* A release that was begun ends, whatever the worker was doing: the join of
\* line 99 never waits for ever.
ReleaseEnds == release = "cancel" ~> release = "done"
=============================================================================
