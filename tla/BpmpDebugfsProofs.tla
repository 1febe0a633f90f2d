------------------------- MODULE BpmpDebugfsProofs --------------------------
(***************************************************************************)
(* The safety of BpmpDebugfs.  The invariant has four parts: what the      *)
(* probe has built where it is, what a registered action owns, how far the *)
(* worker can have come beside a suspend or a release, and what the tree   *)
(* and its reference are to each other.                                    *)
(***************************************************************************)
EXTENDS BpmpDebugfs, TLAPS

ProbeInv ==
    /\ probe \in {"start", "allocate", "alloc_queue", "sync"} => ~queue /\ ~action
    /\ probe = "add_action" => queue /\ ~action
    /\ probe = "queue_work" => queue /\ action
    /\ probe # "done" => /\ work = "idle" /\ release = "none" /\ tree = "absent"
                         /\ ~root /\ ~announced /\ pm = "running"

ActionInv ==
    /\ probe = "done" /\ ~action =>
           /\ ~queue /\ work = "idle" /\ ~root /\ ~announced
           /\ release \in {"none", "devres", "done"}
    /\ probe = "done" /\ action /\ release \in {"none", "cancel", "destroy"} => queue
    /\ release \in {"remove", "dput", "devres", "done"} => ~queue

SystemInv ==
    /\ release \notin {"none", "cancel"} => work = "idle"
    /\ pm # "running" => release = "none"
    /\ pm = "suspended" => work \notin {"init", "publish"}
    /\ transport = "quiet" <=> pm = "suspended"
    /\ transport = "released" <=> release = "done"

TreeInv ==
    /\ ~supported => tree = "absent"
    /\ work = "publish" => tree = "whole" \/ ~supported
    /\ announced => supported /\ work = "idle"
    /\ root => announced
    /\ announced /\ release \in {"none", "cancel", "destroy", "remove"} =>
           root /\ tree = "whole"
    /\ action /\ work \in {"idle", "delayed", "pending"} /\ ~announced => tree = "absent"
    /\ release \in {"dput", "devres", "done"} /\ action => tree = "absent"
    /\ release \in {"devres", "done"} => ~root
    /\ release \in {"remove", "dput"} => announced

IInv == TypeOK /\ ProbeInv /\ ActionInv /\ SystemInv /\ TreeInv

\* The invariant holds at first.
LEMMA InitInv == Init => IInv
BY DEF Init, IInv, TypeOK, ProbeInv, ActionInv, SystemInv, TreeInv

\* Every step of the probe keeps it.
LEMMA StartingInv == IInv /\ Starting => IInv'
<1> SUFFICES ASSUME IInv, Starting PROVE IInv'
    OBVIOUS
<1> USE DEF IInv, TypeOK, ProbeInv, ActionInv, SystemInv, TreeInv, Probe, fixed,
            workerVars, systemVars, Releasing
<1>1. CASE Start BY <1>1 DEF Start
<1>2. CASE Allocate BY <1>2 DEF Allocate
<1>3. CASE AllocateQueue
  <2>1. CASE Probe("alloc_queue", "add_action") /\ queue' = TRUE
      BY <1>3, <2>1 DEF AllocateQueue
  <2>2. CASE Probe("alloc_queue", "sync") /\ queue' = queue
      BY <1>3, <2>2 DEF AllocateQueue
  <2> QED BY <1>3, <2>1, <2>2 DEF AllocateQueue
<1>4. CASE AddAction
  <2>1. CASE Probe("add_action", "queue_work") /\ action' = TRUE /\ queue' = queue
      BY <1>4, <2>1 DEF AddAction
  <2>2. CASE Probe("add_action", "sync") /\ queue' = FALSE /\ action' = action
      BY <1>4, <2>2 DEF AddAction
  <2> QED BY <1>4, <2>1, <2>2 DEF AddAction
<1>5. CASE QueueWork BY <1>5 DEF QueueWork
<1>6. CASE InitNow BY <1>6 DEF InitNow
<1> QED BY <1>1, <1>2, <1>3, <1>4, <1>5, <1>6 DEF Starting

\* Every step of the delayed work keeps it.
LEMMA WorkerInv == IInv /\ (DelayEnds \/ Worker \/ Request) => IInv'
<1> SUFFICES ASSUME IInv, DelayEnds \/ Worker \/ Request PROVE IInv'
    OBVIOUS
<1> USE DEF IInv, TypeOK, ProbeInv, ActionInv, SystemInv, TreeInv, Work, WorkUnchanged,
            startVars, fixed, systemVars, Releasing
<1>1. CASE DelayEnds BY <1>1 DEF DelayEnds
<1>2. CASE WorkerStarts BY <1>2 DEF WorkerStarts
<1>3. CASE Request BY <1>3 DEF Request
<1>4. CASE InitEnds BY <1>4 DEF InitEnds
<1>5. CASE Publish BY <1>5 DEF Publish
<1> QED BY <1>1, <1>2, <1>3, <1>4, <1>5 DEF Worker

\* Suspending and resuming keeps it.
LEMMA SuspendInv == IInv /\ (Freeze \/ Quiesce \/ Thaw) => IInv'
<1> SUFFICES ASSUME IInv, Freeze \/ Quiesce \/ Thaw PROVE IInv'
    OBVIOUS
<1> USE DEF IInv, TypeOK, ProbeInv, ActionInv, SystemInv, TreeInv, SuspendUnchanged,
            startVars, fixed, workerVars, Releasing
<1>1. CASE Freeze BY <1>1 DEF Freeze
<1>2. CASE Quiesce BY <1>2 DEF Quiesce
<1>3. CASE Thaw BY <1>3 DEF Thaw
<1> QED BY <1>1, <1>2, <1>3

\* Every step of the release keeps it.
LEMMA ReleaseInv == IInv /\ (Unbind \/ Removal) => IInv'
<1> SUFFICES ASSUME IInv, Unbind \/ Removal PROVE IInv'
    OBVIOUS
<1> USE DEF IInv, TypeOK, ProbeInv, ActionInv, SystemInv, TreeInv, Release,
            ReleaseUnchanged, startVars, fixed, Releasing
<1>1. CASE Unbind BY <1>1 DEF Unbind
<1>2. CASE Cancel BY <1>2 DEF Cancel
<1>3. CASE DestroyQueue BY <1>3 DEF DestroyQueue
<1>4. CASE RemoveTree BY <1>4 DEF RemoveTree
<1>5. CASE DropReference BY <1>5 DEF DropReference
<1>6. CASE ReleaseTransport BY <1>6 DEF ReleaseTransport
<1> QED BY <1>1, <1>2, <1>3, <1>4, <1>5, <1>6 DEF Removal

\* The inductive invariant, of which the properties are consequences.
THEOREM Invariance == Spec => []IInv
<1>1. IInv /\ [Next]_vars => IInv'
  <2> SUFFICES ASSUME IInv, [Next]_vars PROVE IInv'
      OBVIOUS
  <2>1. CASE UNCHANGED vars
      BY <2>1 DEF vars, startVars, fixed, workerVars, systemVars, IInv, TypeOK,
                  ProbeInv, ActionInv, SystemInv, TreeInv
  <2>2. CASE Next
      BY <2>1, <2>2, StartingInv, WorkerInv, SuspendInv, ReleaseInv DEF Next, Terminated
  <2> QED BY <2>1, <2>2
<1> QED BY InitInv, <1>1, PTL DEF Spec

\* The worker uses the transport only while it is up, and a work that is still
\* to run has its queue and its state, whatever suspends or releases meet it.
THEOREM TransportSound == Spec => []TransportWhileUsed
<1>1. IInv => TransportWhileUsed
    BY DEF IInv, TypeOK, ProbeInv, ActionInv, SystemInv, TransportWhileUsed
<1> QED BY Invariance, <1>1, PTL

\* A released device leaves nothing of the worker's, and a fallback no queue.
THEOREM NothingLeft == Spec => []NothingLeftBehind
<1>1. IInv => NothingLeftBehind
    BY DEF IInv, TypeOK, ProbeInv, ActionInv, SystemInv, TreeInv, NothingLeftBehind
<1> QED BY Invariance, <1>1, PTL

\* The tree that tools were told of is whole until the device is released.
THEOREM AnnouncedSound == Spec => []AnnouncedTreeIsWhole
<1>1. IInv => AnnouncedTreeIsWhole
    BY DEF IInv, TreeInv, AnnouncedTreeIsWhole
<1> QED BY Invariance, <1>1, PTL
=============================================================================
