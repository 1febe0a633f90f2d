-------------------------- MODULE GrowRootfsProofs --------------------------
(***************************************************************************)
(* Proofs about GrowRootfs, for every number of faults.                    *)
(***************************************************************************)
EXTENDS GrowRootfs, TLAPS

IInv == TypeOK /\ PhaseInv /\ MarkerMeansGrown /\ MarkerIsWhole

LEMMA InitInv == Init => IInv
BY DEF Init, IInv, TypeOK, PhaseInv, MarkerMeansGrown, MarkerIsWhole, Names, Contents,
       Durables, Points, Persisting, Milestones, Waiting

\* A commit leaves a name as the running system sees it, unless its data are
\* still to be written.
LEMMA ImagesFollow ==
  ASSUME TypeOK, disk' \in Images
  PROVE  /\ disk' \in [Names -> Durables]
         /\ file["marker"] \in {"absent", "text"} => disk'["marker"] = file["marker"]
BY DEF Images, TypeOK, Names

LEMMA BootStep ==
  ASSUME IInv, PowerUp \/ StartUnit \/ Timeout
  PROVE  IInv'
<1> USE DEF IInv, TypeOK, PhaseInv, MarkerMeansGrown, MarkerIsWhole, Recorded, Names,
            Durables, Contents, Points, Persisting, Milestones
<1>1. CASE PowerUp BY <1>1 DEF PowerUp
<1>2. CASE StartUnit BY <1>2 DEF StartUnit
<1>3. CASE Timeout
  <2>1. fs' \in {"small", "partial", "grown"} /\ faults' \in Nat
    BY <1>3 DEF Timeout, Fault
  <2> QED BY <1>3, <2>1 DEF Timeout
<1> QED BY <1>1, <1>2, <1>3

LEMMA CommitStep ==
  ASSUME IInv, Commit
  PROVE  IInv'
<1>1. disk' \in [Names -> Durables] /\ disk'["marker"] = file["marker"]
  BY ImagesFollow DEF Commit, IInv, PhaseInv
<1>2. file # disk
  <2> SUFFICES ASSUME file = disk PROVE FALSE
    OBVIOUS
  <2>1. \A n \in Names : disk'[n] = disk[n]
    BY DEF Commit, Images, IInv, TypeOK, Durables
  <2>2. disk' = disk
    BY <1>1, <2>1 DEF IInv, TypeOK
  <2> QED BY <2>2 DEF Commit
<1>3. TypeOK' BY <1>1 DEF Commit, IInv, TypeOK
<1> QED BY <1>1, <1>2, <1>3 DEF Commit, IInv, TypeOK, PhaseInv, MarkerMeansGrown,
                                MarkerIsWhole, Durables, Names

\* The steps of the helper before it persists its success.
LEMMA GrowStep ==
  ASSUME IInv, MarkerExists \/ Identify \/ Progress \/ Resized \/ ResizeFails
  PROVE  IInv'
<1> USE DEF IInv, TypeOK, PhaseInv, MarkerMeansGrown, MarkerIsWhole, Recorded, Names,
            Durables, Contents, Points, Persisting, Milestones, Advance, Raise, Fault
<1>1. CASE MarkerExists BY <1>1 DEF MarkerExists
<1>2. CASE Identify BY <1>2 DEF Identify
<1>3. CASE Progress BY <1>3 DEF Progress
<1>4. CASE Resized BY <1>4 DEF Resized
<1>5. CASE ResizeFails BY <1>5 DEF ResizeFails
<1> QED BY <1>1, <1>2, <1>3, <1>4, <1>5

LEMMA PersistStep ==
  ASSUME IInv, Persist \/ Exit
  PROVE  IInv'
<1> USE DEF IInv, TypeOK, PhaseInv, MarkerMeansGrown, MarkerIsWhole, Names, Durables,
            Contents, Points, Persisting, Milestones, Advance, Raise, Fault
<1>1. CASE Open BY <1>1 DEF Open
<1>2. CASE Write BY <1>2 DEF Write
<1>3. CASE Sync BY <1>3 DEF Sync
<1>4. CASE Replace BY <1>4 DEF Replace
<1>5. CASE OpenDir BY <1>5 DEF OpenDir
<1>6. CASE SyncDir BY <1>6, ImagesFollow DEF SyncDir
<1>7. CASE Unlink BY <1>7 DEF Unlink
<1>8. CASE Exit BY <1>8 DEF Exit
<1> QED BY <1>1, <1>2, <1>3, <1>4, <1>5, <1>6, <1>7, <1>8 DEF Persist

LEMMA MilestoneStep ==
  ASSUME IInv, NEW m \in Milestones, Reach(m) \/ Suppress(m)
  PROVE  IInv'
BY DEF IInv, TypeOK, PhaseInv, MarkerMeansGrown, MarkerIsWhole, Reach, Suppress, Fault

LEMMA EndStep ==
  ASSUME IInv, Shutdown \/ PowerLoss
  PROVE  IInv'
<1> USE DEF IInv, TypeOK, PhaseInv, MarkerMeansGrown, MarkerIsWhole, Names, Durables,
            Contents, Points, Persisting, Milestones, SwitchedOff, Waiting, Fault
<1>1. CASE Shutdown
  <2>1. faults' \in Nat BY <1>1 DEF Shutdown
  <2> QED BY <1>1, <2>1 DEF Shutdown
<1>2. CASE PowerLoss BY <1>2 DEF PowerLoss
<1> QED BY <1>1, <1>2

\* The inductive invariant: what the helper has established where it is, and
\* what that leaves on the disk.
THEOREM Invariance == Spec => []IInv
<1>1. IInv /\ [Next]_vars => IInv'
  <2> SUFFICES ASSUME IInv, [Next]_vars PROVE IInv'
    OBVIOUS
  <2>1. CASE Next
    BY <2>1, BootStep, CommitStep, GrowStep, PersistStep, MilestoneStep, EndStep
    DEF Next, Helper
  <2>2. CASE UNCHANGED vars
    BY <2>2 DEF vars, IInv, TypeOK, PhaseInv, MarkerMeansGrown, MarkerIsWhole
  <2> QED BY <2>1, <2>2
<1> QED BY <1>1, InitInv, PTL DEF Spec

\* Type correctness.
THEOREM TypeCorrect == Spec => []TypeOK
BY Invariance, PTL DEF IInv

\* What the helper has reached when it is at a step, and what a unit's state
\* says of the disk (ark-grow-rootfs, ark-grow-rootfs.service).
THEOREM PhaseSound == Spec => []PhaseInv
<1>1. IInv => PhaseInv BY DEF IInv
<1> QED BY <1>1, Invariance, PTL

\* The marker, seen or durable, stands for a completed growth in every boot.
THEOREM MarkerSound == Spec => []MarkerMeansGrown
BY Invariance, PTL DEF IInv

\* No sequence of power losses leaves a marker without its text.
THEOREM MarkerWhole == Spec => []MarkerIsWhole
BY Invariance, PTL DEF IInv

\* The durable marker stays, and the helper does not come to resize2fs again.
LEMMA MarkerStays ==
  ASSUME IInv, [Next]_vars, disk["marker"] = "text"
  PROVE  disk'["marker"] = "text" /\ (pc' = "resize" => pc = "resize")
<1>1. file["marker"] = "text"
  BY DEF IInv, PhaseInv
<1> USE <1>1 DEF IInv, TypeOK, PhaseInv, Recorded, Names, Durables, Persisting
<1>2. CASE Commit \/ SyncDir
  BY <1>2, ImagesFollow DEF Commit, SyncDir, Advance, Raise
<1>3. CASE PowerUp \/ StartUnit \/ Timeout
  BY <1>3 DEF PowerUp, StartUnit, Timeout
<1>4. CASE MarkerExists \/ Identify \/ Progress \/ Resized \/ ResizeFails
  BY <1>4 DEF MarkerExists, Identify, Progress, Resized, ResizeFails, Advance, Raise
<1>5. CASE Open \/ Write \/ Sync \/ Replace \/ OpenDir \/ Unlink \/ Exit
  BY <1>5 DEF Open, Write, Sync, Replace, OpenDir, Unlink, Exit, Advance, Raise
<1>6. ASSUME NEW m \in Milestones, Reach(m) \/ Suppress(m)
      PROVE  disk'["marker"] = "text" /\ (pc' = "resize" => pc = "resize")
  BY <1>6 DEF Reach, Suppress
<1>7. CASE Shutdown \/ PowerLoss
  BY <1>7 DEF Shutdown, PowerLoss, SwitchedOff
<1>8. CASE UNCHANGED vars
  BY <1>8 DEF vars
<1> QED BY <1>2, <1>3, <1>4, <1>5, <1>6, <1>7, <1>8 DEF Next, Helper, Persist

\* A success that a boot reported outlives every later fault, and no later
\* boot grows the filesystem again.
THEOREM SuccessFinal == Spec => SuccessIsFinal
<1>1. IInv /\ [Next]_vars => [SuccessStep]_vars
  BY MarkerStays DEF SuccessStep, IInv, PhaseInv
<1> QED BY <1>1, Invariance, PTL DEF Spec, SuccessIsFinal

(***************************************************************************)
(* The service implements the promise of Provisioning.                     *)
(***************************************************************************)
LEMMA PromiseInit == Init => P!Init
BY DEF Init, P!Init, Stage, Claimed, Waiting, Milestones, Names

\* The steps that write the disk record at most a completed growth.
LEMMA DiskSteps ==
  ASSUME IInv, IInv', Commit \/ Sync \/ SyncDir
  PROVE  /\ UNCHANGED <<fs, milestone>>
         /\ disk["marker"] # "absent" => disk'["marker"] # "absent"
<1>1. UNCHANGED <<fs, milestone>>
  BY DEF Commit, Sync, SyncDir, Advance, Raise
<1>2. ASSUME disk["marker"] # "absent" PROVE disk'["marker"] # "absent"
  <2>1. disk["marker"] = "text" /\ file["marker"] = "text"
    BY <1>2 DEF IInv, PhaseInv, MarkerIsWhole
  <2>2. CASE Commit \/ SyncDir
    BY <2>1, <2>2, ImagesFollow DEF Commit, SyncDir, Advance, Raise, IInv
  <2>3. CASE Sync
    BY <2>1, <2>3 DEF Sync, Advance, Raise, IInv, PhaseInv
  <2> QED BY <2>2, <2>3
<1> QED BY <1>1, <1>2

\* The steps that neither write the disk nor end the boot.
LEMMA OtherSteps ==
  ASSUME IInv, PowerUp \/ StartUnit \/ MarkerExists \/ Identify \/ Progress \/ Resized
               \/ ResizeFails \/ Open \/ Write \/ Replace \/ OpenDir \/ Unlink \/ Exit
               \/ Timeout
  PROVE  /\ UNCHANGED <<disk, milestone>>
         /\ \/ fs' = fs
            \/ /\ fs \in {"small", "partial"} /\ fs' \in {"partial", "grown"}
               /\ disk["marker"] = "absent"
BY DEF PowerUp, StartUnit, MarkerExists, Identify, Progress, Resized, ResizeFails, Open,
       Write, Replace, OpenDir, Unlink, Exit, Timeout, Advance, Raise, IInv, TypeOK, PhaseInv,
       MarkerMeansGrown

\* Every step is a step of the promise, or leaves it alone.
LEMMA PromiseStep ==
  ASSUME IInv, IInv', [Next]_vars
  PROVE  [P!Next]_(P!vars)
<1> USE DEF P!Next, P!Grow, P!Record, P!Claim, P!Forget, P!vars
<1>1. CASE Commit \/ Sync \/ SyncDir
  <2>1. Claimed' = Claimed
    BY <1>1, DiskSteps DEF Claimed
  <2>2. Stage' = Stage \/ (Stage = "grown" /\ Stage' = "recorded")
    BY <1>1, DiskSteps DEF Stage, IInv, MarkerMeansGrown
  <2> QED BY <2>1, <2>2
<1>2. CASE \/ PowerUp \/ StartUnit \/ MarkerExists \/ Identify \/ Progress \/ Resized
         \/ ResizeFails \/ Open \/ Write \/ Replace \/ OpenDir \/ Unlink \/ Exit \/ Timeout
  <2>1. Claimed' = Claimed
    BY <1>2, OtherSteps DEF Claimed
  <2>2. \/ Stage' = Stage
        \/ Stage \in {"small", "partial"} /\ Stage' \in {"partial", "grown"}
    BY <1>2, OtherSteps DEF Stage
  <2> QED BY <2>1, <2>2
<1>3. ASSUME NEW m \in Milestones, Reach(m) PROVE [P!Next]_(P!vars)
  <2>1. Stage = "recorded" /\ Stage' = Stage
    BY <1>3 DEF Reach, Stage, IInv, PhaseInv
  <2>2. Claimed' \in BOOLEAN /\ Claimed \in BOOLEAN
    BY DEF Claimed
  <2>3. Claimed' = TRUE \/ Claimed' = FALSE
    BY <2>2
  <2> QED BY <2>1, <2>3
<1>4. ASSUME NEW m \in Milestones, Suppress(m) PROVE [P!Next]_(P!vars)
  <2>1. Stage' = Stage
    BY <1>4 DEF Suppress, Stage
  <2>2. Claimed' = FALSE
    BY <1>4 DEF Suppress, Claimed, IInv, PhaseInv, TypeOK
  <2> QED BY <2>1, <2>2
<1>5. CASE Shutdown \/ PowerLoss
  <2>1. Claimed' = FALSE
    BY <1>5 DEF Shutdown, PowerLoss, SwitchedOff, Waiting, Claimed
  <2>2. Stage' = Stage \/ (Stage = "grown" /\ Stage' = "recorded" /\ Claimed = FALSE)
    <3>1. fs' = fs
      BY <1>5 DEF Shutdown, PowerLoss
    <3>2. ASSUME disk["marker"] # "absent" PROVE disk'["marker"] # "absent"
      <4>1. disk["marker"] = "text"
        BY <3>2 DEF IInv, MarkerIsWhole
      <4> QED BY <1>5, <4>1, MarkerStays DEF Next
    <3>3. disk["marker"] = "absent" => Claimed = FALSE
      BY DEF Claimed, IInv, PhaseInv
    <3>4. disk'["marker"] # "absent" => fs' = "grown"
      BY DEF IInv, MarkerMeansGrown
    <3> QED BY <3>1, <3>2, <3>3, <3>4 DEF Stage
  <2> QED BY <2>1, <2>2
<1>6. CASE UNCHANGED vars
  BY <1>6 DEF vars, Stage, Claimed
<1> QED BY <1>1, <1>2, <1>3, <1>4, <1>5, <1>6 DEF Next, Helper, Persist

\* The service implements its promise: growth moves forward only, is recorded
\* when it is complete, and no boot claims a milestone before that.
THEOREM PromiseKept == Spec => ImplementsProvisioning
<1>1. IInv /\ IInv' /\ [Next]_vars => [P!Next]_(P!vars)
  BY PromiseStep
<1> QED BY <1>1, PromiseInit, Invariance, PTL DEF Spec, P!Spec, ImplementsProvisioning
=============================================================================
