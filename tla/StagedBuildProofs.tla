-------------------------- MODULE StagedBuildProofs -------------------------
(***************************************************************************)
(* The safety of StagedBuild.  A directory has one creator for good, an    *)
(* invocation that is past mkdir is the creator of its directory, and what *)
(* is there is what that invocation has done so far: these facts, one per  *)
(* invocation and one per directory, are inductive.                        *)
(***************************************************************************)
EXTENDS StagedBuild, TLAPS

Working == {"copy", "verify_copy", "prepare", "build", "judge"}

\* What invocation r, of builder b in mode m, has established where it is: in
\* its directory o, at p, with exit status e.
Own(r, b, m, p, e, o) ==
    /\ m = "prepare" => b = "firmware"
    /\ p # "ended" => e = "none"
    /\ p \in {"private", "create"} \cup Working => m # "check"
    /\ p \in {"start", "audit", "private", "create"} => o.owner # r
    /\ p \in Working => o.owner = r
    /\ p \in {"copy", "verify_copy", "prepare"} => o.built = "none"
    /\ p \in {"prepare", "build", "judge"} /\ b = "driver" => o.copy = "pinned"
    /\ p \in {"build", "judge"} => m = "build"
    /\ p = "judge" /\ b = "driver" => o.built \in {"pinned", "failed"}
    /\ p \in {"copy", "verify_copy", "prepare", "build"} => o.report # "verified"
    /\ e = "ok" => Delivers(r, m, o)

RunInv(r) == Own(r, builder[r], mode[r], pc[r], exit[r], output[name[r]])

DirInv(n) ==
    /\ output[n].owner = Nobody => output[n] = Absent
    /\ output[n].report = "verified" => output[n].built = "pinned"

IInv == TypeOK /\ (\A r \in Runs : RunInv(r)) /\ (\A n \in Names : DirInv(n))

\* The invariant holds at first.
LEMMA InitInv == Init => IInv
BY NobodyAssumption DEF Init, IInv, TypeOK, RunInv, Own, Delivers, DirInv, Absent,
                        Directory, Points, Files, Working

\* Every step of an invocation keeps the types.
LEMMA TypeStep == ASSUME TypeOK, NEW r \in Runs, Invocation(r) PROVE TypeOK'
<1> USE DEF Goto, Exit, Elsewhere, options
<1>1. \/ UNCHANGED output
      \/ \E v \in Runs : output' = [output EXCEPT ![name[r]].owner = v]
      \/ \E v \in {"pinned", "edited"} : output' = [output EXCEPT ![name[r]].copy = v]
      \/ \E v \in {"none", "pinned", "edited", "failed"} :
            output' = [output EXCEPT ![name[r]].built = v]
      \/ \E v \in {"partial", "prepared", "failed", "verified"} :
            output' = [output EXCEPT ![name[r]].report = v]
  <2>1. output[name[r]].copy \in {"none", "pinned", "edited"}
      BY DEF TypeOK, Directory
  <2> QED BY <2>1 DEF Invocation, Begin, Audit, MakePrivate, Create, Copy, VerifyCopy, Prepare,
                      Build, VerifyOutput, RecordExit, Fail, Kill
<1>2. output' \in [Names -> Directory]
    BY <1>1 DEF TypeOK, Directory
<1>3. pc' \in [Runs -> Points] /\ exit' \in [Runs -> {"none", "ok", "error", "killed"}]
    BY DEF Invocation, Begin, Audit, AfterAudit, MakePrivate, Create, Copy, VerifyCopy, Prepare,
           Build, VerifyOutput, RecordExit, Fail, Kill, TypeOK, Points
<1>4. private' \in {"absent", "directory", "symlink"} /\ UNCHANGED <<options, edited>>
    BY DEF Invocation, Begin, Audit, MakePrivate, Create, Copy, VerifyCopy, Prepare,
           Build, VerifyOutput, RecordExit, Fail, Kill, TypeOK
<1> QED BY <1>2, <1>3, <1>4 DEF TypeOK

\* A step of invocation r that leaves the directories alone keeps the
\* invariant if it keeps r's own part.
LEMMA Aside ==
    ASSUME IInv, TypeOK', NEW r \in Runs, UNCHANGED <<output, options>>, RunInv(r)',
           \A x \in Runs \ {r} : pc'[x] = pc[x] /\ exit'[x] = exit[x]
    PROVE  IInv'
<1>1. \A x \in Runs : RunInv(x)'
  <2> SUFFICES ASSUME NEW x \in Runs PROVE RunInv(x)'
      OBVIOUS
  <2>1. CASE x = r BY <2>1
  <2>2. CASE x # r BY <2>2 DEF IInv, RunInv, options
  <2> QED BY <2>1, <2>2
<1>2. \A n \in Names : DirInv(n)'
    BY DEF IInv, DirInv
<1> QED BY <1>1, <1>2 DEF IInv

\* A step that changes no more than the directory its invocation owns from
\* then on keeps the invariant if it keeps the parts of the two.
LEMMA Inside ==
    ASSUME IInv, TypeOK', NEW r \in Runs, UNCHANGED options, RunInv(r)', DirInv(name[r])',
           output[name[r]].owner \in {Nobody, r}, output'[name[r]].owner = r,
           \A n \in Names \ {name[r]} : output'[n] = output[n],
           \A x \in Runs \ {r} : pc'[x] = pc[x] /\ exit'[x] = exit[x]
    PROVE  IInv'
<1>1. \A x \in Runs : RunInv(x)'
  <2> SUFFICES ASSUME NEW x \in Runs PROVE RunInv(x)'
      OBVIOUS
  <2>1. CASE x = r BY <2>1
  <2>2. CASE x # r /\ name[x] # name[r]
      BY <2>2 DEF IInv, TypeOK, RunInv, options
  <2>3. CASE x # r /\ name[x] = name[r]
    <3>1. /\ output[name[x]].owner # x /\ output'[name'[x]].owner # x
          /\ UNCHANGED <<builder[x], mode[x], pc[x], exit[x]>>
        BY <2>3, NobodyAssumption DEF options
    <3>2. Own(x, builder[x], mode[x], pc[x], exit[x], output[name[x]])
        BY DEF IInv, RunInv
    <3>3. Own(x, builder[x], mode[x], pc[x], exit[x], output'[name'[x]])
        BY <3>1, <3>2 DEF Own, Delivers, Working
    <3> QED BY <3>1, <3>3 DEF RunInv
  <2> QED BY <2>1, <2>2, <2>3
<1>2. \A n \in Names : DirInv(n)'
  <2> SUFFICES ASSUME NEW n \in Names PROVE DirInv(n)'
      OBVIOUS
  <2>1. CASE n = name[r] BY <2>1 DEF options
  <2>2. CASE n # name[r] BY <2>2 DEF IInv, DirInv
  <2> QED BY <2>1, <2>2
<1> QED BY <1>1, <1>2 DEF IInv

\* The steps that leave the directories alone.
LEMMA AsideSteps ==
    ASSUME IInv, NEW r \in Runs,
           Begin(r) \/ Audit(r) \/ MakePrivate(r) \/ VerifyCopy(r) \/ Fail(r)
    PROVE  IInv'
<1> USE DEF Goto, Exit, Elsewhere, options, Points
<1>1. UNCHANGED <<output, options>> /\ \A x \in Runs \ {r} : pc'[x] = pc[x] /\ exit'[x] = exit[x]
    BY DEF Begin, Audit, MakePrivate, VerifyCopy, Fail, IInv, TypeOK
<1>2. TypeOK'
    BY TypeStep DEF Invocation, IInv
<1>3. RunInv(r) /\ TypeOK
    BY DEF IInv
<1>4. RunInv(r)'
  <2> USE <1>3 DEF RunInv, Own, Delivers, Working, TypeOK
  <2>1. CASE Begin(r) BY <2>1 DEF Begin
  <2>2. CASE Audit(r) BY <2>2 DEF Audit, AfterAudit
  <2>3. CASE MakePrivate(r) BY <2>3 DEF MakePrivate
  <2>4. CASE VerifyCopy(r) BY <2>4 DEF VerifyCopy
  <2>5. CASE Fail(r) BY <2>5 DEF Fail
  <2> QED BY <2>1, <2>2, <2>3, <2>4, <2>5
<1> QED BY <1>1, <1>2, <1>4, Aside

\* A step in a directory is in that of the invocation that takes it, which is
\* its creator or becomes it.
LEMMA Touched ==
    ASSUME IInv, NEW r \in Runs,
           \/ Create(r) \/ Copy(r) \/ Prepare(r) \/ Build(r) \/ VerifyOutput(r) \/ RecordExit(r)
           \/ Kill(r) /\ output' # output
    PROVE  /\ mode[r] # "check"
           /\ output[name[r]].owner \in {Nobody, r}
           /\ output'[name[r]].owner = r
           /\ \A m \in Names \ {name[r]} : output'[m] = output[m]
<1> USE DEF Goto, Exit, Elsewhere, options
<1> DEFINE n == name[r]
<1>1. TypeOK /\ RunInv(r) /\ n \in Names /\ DirInv(n)
    BY DEF IInv, TypeOK
<1>2. CASE Create(r)
  <2>1. output' = [output EXCEPT ![n].owner = r] /\ pc[r] = "create" /\ output[n] = Absent
      BY <1>2 DEF Create, Exists
  <2>2. output[n].owner = Nobody /\ output[n] \in Directory
      BY <1>1, <2>1 DEF Absent, TypeOK
  <2>3. output'[n].owner = r /\ \A m \in Names \ {n} : output'[m] = output[m]
      BY <1>1, <2>1, <2>2 DEF TypeOK, Directory
  <2> QED BY <1>1, <2>1, <2>2, <2>3 DEF RunInv, Own
<1>3. CASE ~Create(r)
  <2> USE DEF Copy, Prepare, Build, VerifyOutput, RecordExit, Kill
  <2>1. pc[r] \in Working
      BY <1>3 DEF Working
  <2>2. \A m \in Names \ {n} : output'[m] = output[m]
      BY <1>1, <1>3 DEF TypeOK
  <2>3. output'[n].owner = output[n].owner
      BY <1>1, <1>3 DEF TypeOK, Directory
  <2> QED BY <1>1, <2>1, <2>2, <2>3 DEF RunInv, Own
<1> QED BY <1>2, <1>3

\* The steps of an invocation in its directory.
LEMMA InsideSteps ==
    ASSUME IInv, NEW r \in Runs,
           Create(r) \/ Copy(r) \/ Prepare(r) \/ Build(r) \/ VerifyOutput(r) \/ RecordExit(r)
    PROVE  IInv'
<1> USE DEF Goto, Exit, Elsewhere, options, Points
<1> DEFINE n == name[r]
<1>1. TypeOK /\ RunInv(r) /\ n \in Names /\ DirInv(n)
    BY DEF IInv, TypeOK
<1>2. /\ UNCHANGED options
      /\ \A x \in Runs \ {r} : pc'[x] = pc[x] /\ exit'[x] = exit[x]
    BY <1>1 DEF Create, Copy, Prepare, Build, VerifyOutput, RecordExit, TypeOK
<1>3. TypeOK'
    BY TypeStep DEF Invocation, IInv
<1>4. RunInv(r)' /\ DirInv(n)'
  <2> USE <1>1, NobodyAssumption DEF RunInv, Own, Delivers, DirInv, Working, TypeOK, Directory
  <2>1. CASE Create(r) BY <2>1 DEF Create, Exists, Absent
  <2>2. CASE Copy(r) BY <2>2 DEF Copy
  <2>3. CASE Prepare(r)
    <3>1. /\ output'[n] = [output[n] EXCEPT !.report = "prepared"]
          /\ pc[r] = "prepare" /\ UNCHANGED options
        BY <2>3 DEF Prepare
    <3>2. DirInv(n)' BY <3>1
    <3>3. RunInv(r)' BY <2>3, <3>1 DEF Prepare
    <3> QED BY <3>2, <3>3
  <2>4. CASE Build(r) BY <2>4 DEF Build
  <2>5. CASE VerifyOutput(r) BY <2>5 DEF VerifyOutput
  <2>6. CASE RecordExit(r) BY <2>6 DEF RecordExit
  <2> QED BY <2>1, <2>2, <2>3, <2>4, <2>5, <2>6
<1> QED BY <1>2, <1>3, <1>4, Touched, Inside

\* A kill leaves the report as it is, or cut short.
LEMMA KillInv == ASSUME IInv, NEW r \in Runs, Kill(r) PROVE IInv'
<1> USE DEF Kill, Exit, Elsewhere, options, Points
<1> DEFINE n == name[r]
<1>1. TypeOK /\ RunInv(r) /\ n \in Names /\ DirInv(n)
    BY DEF IInv, TypeOK
<1>2. /\ UNCHANGED options
      /\ \A x \in Runs \ {r} : pc'[x] = pc[x] /\ exit'[x] = exit[x]
    BY <1>1 DEF TypeOK
<1> TypeOK'
    BY <1>1, TypeStep DEF Invocation
<1>3. CASE UNCHANGED output
  <2>1. RunInv(r)' BY <1>1, <1>3 DEF RunInv, Own, Delivers, TypeOK, Working
  <2> QED BY <1>2, <1>3, <2>1, Aside
<1>4. CASE pc[r] \in {"prepare", "judge"} /\ output' = [output EXCEPT ![n].report = "partial"]
  <2>1. output'[n] = [output[n] EXCEPT !.report = "partial"]
      BY <1>1, <1>4 DEF TypeOK
  <2>2. DirInv(n)'
      BY <1>1, <1>4, <2>1, NobodyAssumption DEF DirInv, TypeOK, Directory, RunInv, Own, Working
  <2>3. RunInv(r)'
      BY <1>1, <1>2, <1>4, <2>1 DEF RunInv, Own, Delivers, TypeOK, Directory, Working
  <2> QED BY <1>2, <1>3, <2>2, <2>3, Touched, Inside
<1> QED BY <1>3, <1>4

\* The inductive invariant.
THEOREM Invariance == Spec => []IInv
<1>1. IInv /\ [Next]_vars => IInv'
  <2> SUFFICES ASSUME IInv, [Next]_vars PROVE IInv'
      OBVIOUS
  <2>1. CASE UNCHANGED vars
      BY <2>1 DEF vars, options, IInv, TypeOK, RunInv, DirInv
  <2>2. ASSUME NEW r \in Runs, Invocation(r) PROVE IInv'
      BY <2>2, AsideSteps, InsideSteps, KillInv DEF Invocation
  <2>3. CASE Edit
      BY <2>3 DEF Edit, options, IInv, TypeOK, RunInv, DirInv
  <2> QED BY <2>1, <2>2, <2>3 DEF Next, Terminated
<1> QED BY InitInv, <1>1, PTL DEF Spec

\* A verified report is about pinned inputs, for any number of invocations.
THEOREM VerifiedSound == Spec => []VerifiedIsPinned
<1>1. IInv => VerifiedIsPinned BY DEF IInv, DirInv, VerifiedIsPinned
<1> QED BY Invariance, <1>1, PTL

\* Exit status 0 means that the invocation's own directory holds what it was
\* asked for.
THEOREM SuccessSound == Spec => []SuccessIsDelivered
<1>1. IInv => SuccessIsDelivered BY DEF IInv, RunInv, Own, SuccessIsDelivered
<1> QED BY Invariance, <1>1, PTL

\* No invocation changes a directory that another has made.
THEOREM OwnershipSound == Spec => OutputHasOneOwner
<1>1. IInv /\ [Next]_vars => [OwnStep]_vars
  <2> SUFFICES ASSUME IInv, Next PROVE OwnStep
      BY DEF OwnStep, vars
  <2>1. ASSUME NEW r \in Runs, Invocation(r) PROVE OwnStep
    <3>1. CASE output' = output BY <3>1 DEF OwnStep
    <3>2. CASE output' # output
      <4>1. ~(Begin(r) \/ Audit(r) \/ MakePrivate(r) \/ VerifyCopy(r) \/ Fail(r))
          BY <3>2 DEF Begin, Audit, MakePrivate, VerifyCopy, Fail
      <4> QED BY <2>1, <3>2, <4>1, Touched DEF Invocation, OwnStep
    <3> QED BY <3>1, <3>2
  <2>2. CASE Edit BY <2>2 DEF Edit, OwnStep
  <2> QED BY <2>1, <2>2 DEF Next, Terminated, vars, OwnStep
<1> QED BY Invariance, <1>1, PTL DEF Spec, OutputHasOneOwner
=============================================================================
