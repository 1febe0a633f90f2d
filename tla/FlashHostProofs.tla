-------------------------- MODULE FlashHostProofs ---------------------------
(***************************************************************************)
(* Proofs about FlashHost, for any set of wrappers and command lines.      *)
(***************************************************************************)
EXTENDS FlashHost, TLAPS

(***************************************************************************)
(* Type correctness, by the part of the system that moves.                 *)
(***************************************************************************)
LEMMA InitType == Init => TypeOK
<1> SUFFICES ASSUME Init PROVE TypeOK
  OBVIOUS
<1>1. rulesDir \in BOOLEAN /\ madeDir \in [Runs -> BOOLEAN]
  BY Zenon DEF Init
<1> QED BY <1>1 DEF Init, TypeOK, Points, Setup, HelperPoints, Running

\* What a step of a wrapper, of a helper's end and of a container keep typed.
LEMMA WrapperType ==
  ASSUME TypeOK, NEW r \in Runs,
         NEW p \in Points, NEW s \in {"none", "ok", "failed", "interrupted"},
         Goto(r, p), Exit(r, s) \/ UNCHANGED status
  PROVE  /\ pc' \in [Runs -> Points]
         /\ status' \in [Runs -> {"none", "ok", "failed", "interrupted"}]
BY DEF TypeOK, Goto, Exit

LEMMA SetupType ==
  ASSUME TypeOK, NEW r \in Runs,
         ParseArguments(r) \/ StageBundle(r) \/ CheckHost(r) \/ ProbeRulesDir(r)
  PROVE  TypeOK'
<1> USE DEF SetupUnchanged, fixed, targetVars, udevVars, Continue, Die, Goto, Exit,
            Points, Setup, Guarded, Cleanup
<1>1. CASE ParseArguments(r) \/ StageBundle(r) \/ CheckHost(r)
  <2>1. madeDir' = madeDir
    BY <1>1 DEF ParseArguments, StageBundle, CheckHost
  <2> QED BY <1>1, <2>1 DEF ParseArguments, StageBundle, CheckHost, TypeOK
<1>2. CASE ProbeRulesDir(r)
  <2>1. madeDir' \in [Runs -> BOOLEAN]
    BY <1>2, Zenon DEF ProbeRulesDir, TypeOK
  <2> QED BY <1>2, <2>1 DEF ProbeRulesDir, TypeOK
<1> QED BY <1>1, <1>2

\* A helper's step or end leaves the wrapper and the helper well typed.
LEMMA HelperEndsType ==
  ASSUME TypeOK, NEW r \in Runs, NEW from \in HelperPoints, NEW ok \in BOOLEAN,
         HelperEnds(r, from, ok)
  PROVE  /\ pc' \in [Runs -> Points]
         /\ status' \in [Runs -> {"none", "ok", "failed", "interrupted"}]
         /\ helper' \in [Runs -> HelperPoints]
BY DEF HelperEnds, HelperStep, HelperPoints, Continue, Die, Goto, Exit, Points, Guarded,
       Cleanup, wrapperVars, TypeOK

LEMMA HelperStepType ==
  ASSUME TypeOK, NEW r \in Runs, NEW from, NEW to \in HelperPoints, HelperStep(r, from, to)
  PROVE  helper' \in [Runs -> HelperPoints]
BY DEF TypeOK, HelperStep

HelperAction(r) == StartHelper(r) \/ HelperFails(r) \/ Create(r) \/ Remove(r)

LEMMA HelperType ==
  ASSUME TypeOK, NEW r \in Runs, HelperAction(r)
  PROVE  TypeOK'
<1>1. UNCHANGED <<options, board, madeDir, container, console, erased, reflashed>>
  BY DEF HelperAction, StartHelper, HelperFails, Create, Remove, MakeDir, OpenRule, FillRule,
         LoadRules, UndoRule, UndoDir, RemoveRule, RemoveRulesDir, UnloadRules,
         HelperUnchanged, fixed, targetVars
<1>2. \/ \E from, to \in HelperPoints : HelperStep(r, from, to) /\ UNCHANGED wrapperVars
      \/ \E from \in HelperPoints, ok \in BOOLEAN : HelperEnds(r, from, ok)
  BY DEF HelperAction, StartHelper, HelperFails, Create, Remove, MakeDir, OpenRule, FillRule,
         LoadRules, UndoRule, UndoDir, RemoveRule, RemoveRulesDir, UnloadRules,
         HelperPoints, CreatePoints, RemovePoints, TypeOK
<1>3. /\ pc' \in [Runs -> Points]
      /\ status' \in [Runs -> {"none", "ok", "failed", "interrupted"}]
      /\ helper' \in [Runs -> HelperPoints]
  BY <1>2, HelperEndsType, HelperStepType DEF TypeOK, wrapperVars
<1>4. rulesDir' \in BOOLEAN
  BY Zenon
  DEF HelperAction, StartHelper, HelperFails, Create, Remove, MakeDir, OpenRule, FillRule,
      LoadRules, UndoRule, UndoDir, RemoveRule, RemoveRulesDir, UnloadRules, RemoveDir,
      udevVars, TypeOK
<1>5. rule' \in [Runs -> {"absent", "empty", "whole"}] /\ loaded' \subseteq Runs
  BY DEF HelperAction, StartHelper, HelperFails, Create, Remove, MakeDir, OpenRule, FillRule,
         LoadRules, UndoRule, UndoDir, RemoveRule, RemoveRulesDir, UnloadRules, Installed,
         udevVars, TypeOK
<1> QED BY <1>1, <1>3, <1>4, <1>5 DEF TypeOK

ContainerAction(r) ==
    StartContainer(r) \/ CheckBoard(r) \/ WriteTarget(r) \/ ContainerEnds(r)

LEMMA ContainerType ==
  ASSUME TypeOK, NEW r \in Runs, ContainerAction(r)
  PROVE  TypeOK'
<1> USE DEF TypeOK, ContainerUnchanged, Becomes, Running, fixed, wrapperVars, targetVars,
            udevVars
<1>1. CASE StartContainer(r) BY <1>1 DEF StartContainer
<1>2. CASE CheckBoard(r) BY <1>2 DEF CheckBoard
<1>3. CASE WriteTarget(r)
  <2>1. erased' \subseteq Runs /\ reflashed' \subseteq Runs
    BY <1>3, Zenon DEF WriteTarget
  <2> QED BY <1>3, <2>1 DEF WriteTarget
<1>4. CASE ContainerEnds(r) BY <1>4 DEF ContainerEnds
<1> QED BY <1>1, <1>2, <1>3, <1>4 DEF ContainerAction

WayOut(r) ==
    ClientReturns(r) \/ ReadFinalStatus(r) \/ RemoveContainer(r) \/ Interrupt(r) \/ Kill(r)

LEMMA WayOutType ==
  ASSUME TypeOK, NEW r \in Runs, WayOut(r)
  PROVE  TypeOK'
<1> USE DEF TypeOK, WrapperUnchanged, Continue, Die, Goto, Exit, Running, fixed, targetVars,
            udevVars, Points, Setup, Guarded, Cleanup
<1>1. CASE ClientReturns(r) BY <1>1 DEF ClientReturns
<1>2. CASE ReadFinalStatus(r) BY <1>2 DEF ReadFinalStatus
<1>3. CASE RemoveContainer(r) BY <1>3 DEF RemoveContainer
<1>4. CASE Interrupt(r) BY <1>4 DEF Interrupt
<1>5. CASE Kill(r) BY <1>5 DEF Kill
<1> QED BY <1>1, <1>2, <1>3, <1>4, <1>5 DEF WayOut

\* A step is one of a wrapper's setup, its helper, its container or its way
\* out, or none.
LEMMA Steps ==
  ASSUME [Next]_vars
  PROVE  \/ \E r \in Runs :
               \/ ParseArguments(r) \/ StageBundle(r) \/ CheckHost(r) \/ ProbeRulesDir(r)
               \/ HelperAction(r) \/ ContainerAction(r) \/ WayOut(r)
         \/ UNCHANGED vars
BY DEF Next, Wrapper, Terminated, HelperAction, ContainerAction, WayOut

\* Type correctness.
THEOREM TypeCorrect == Spec => []TypeOK
<1>1. TypeOK /\ [Next]_vars => TypeOK'
  <2> SUFFICES ASSUME TypeOK, [Next]_vars PROVE TypeOK'
    OBVIOUS
  <2>1. CASE UNCHANGED vars
    BY <2>1 DEF vars, TypeOK, fixed, wrapperVars, targetVars, udevVars
  <2> QED BY <2>1, Steps, SetupType, HelperType, ContainerType, WayOutType
<1> QED BY <1>1, InitType, PTL DEF Spec

(***************************************************************************)
(* The safety invariant.  Each wrapper's part of it is disturbed by the    *)
(* wrapper's own steps, and by the directory and the reloads it shares.    *)
(***************************************************************************)
Sound(r) == Established(r) /\ AcknowledgedWrite(r) /\ Complete(r)
IInv == TypeOK /\ \A r \in Runs : Sound(r)

LEMMA InitSound == Init => \A r \in Runs : Sound(r)
BY DEF Init, Sound, Established, AcknowledgedWrite, Complete, CreatePoints, RemovePoints,
       Setup, Guarded, Cleanup, Running

Action(r) ==
    \/ ParseArguments(r) \/ StageBundle(r) \/ CheckHost(r) \/ ProbeRulesDir(r)
    \/ HelperAction(r) \/ ContainerAction(r) \/ WayOut(r)

\* What a step of x leaves of the state of r: a reload loads r's rule if it
\* is there, and the directory stays as long as it holds a rule.
Untouched(r) ==
    /\ options'[r] = options[r] /\ board'[r] = board[r]
    /\ pc'[r] = pc[r] /\ status'[r] = status[r]
    /\ helper'[r] = helper[r] /\ container'[r] = container[r]
    /\ console'[r] = console[r] /\ rule'[r] = rule[r]
    /\ r \in erased' <=> r \in erased
    /\ r \in reflashed' <=> r \in reflashed
    /\ (r \in loaded' <=> r \in loaded) \/ (r \in loaded' <=> rule[r] = "whole")
    /\ rule[r] # "absent" /\ rulesDir => rulesDir'

LEMMA OtherUntouched ==
  ASSUME TypeOK, NEW x \in Runs, Action(x), NEW r \in Runs, r # x
  PROVE  Untouched(r)
<1> USE DEF TypeOK, Untouched, fixed, wrapperVars, targetVars, udevVars, Goto, Exit, Continue,
            Die
<1>1. CASE ParseArguments(x) \/ StageBundle(x) \/ CheckHost(x) \/ ProbeRulesDir(x)
  BY <1>1 DEF ParseArguments, StageBundle, CheckHost, ProbeRulesDir, SetupUnchanged
<1>2. CASE HelperAction(x)
  BY <1>2 DEF HelperAction, StartHelper, HelperFails, Create, Remove, MakeDir, OpenRule,
     FillRule, LoadRules, UndoRule, UndoDir, RemoveRule, RemoveRulesDir, UnloadRules,
     Installed, RemoveDir, HelperEnds, HelperStep, HelperUnchanged
<1>3. CASE ContainerAction(x)
  BY <1>3 DEF ContainerAction, StartContainer, CheckBoard, WriteTarget, ContainerEnds,
     Becomes, ContainerUnchanged
<1>4. CASE WayOut(x)
  BY <1>4 DEF WayOut, ClientReturns, ReadFinalStatus, RemoveContainer, Interrupt, Kill,
     WrapperUnchanged
<1> QED BY <1>1, <1>2, <1>3, <1>4 DEF Action

LEMMA UntouchedSound ==
  ASSUME NEW r \in Runs, Sound(r), Untouched(r)
  PROVE  Sound(r)'
BY DEF Sound, Untouched, Established, AcknowledgedWrite, Complete

LEMMA SetupSound ==
  ASSUME TypeOK, NEW r \in Runs, Sound(r),
         ParseArguments(r) \/ StageBundle(r) \/ CheckHost(r) \/ ProbeRulesDir(r)
  PROVE  Sound(r)'
BY DEF Sound, Established, AcknowledgedWrite, Complete, TypeOK, ParseArguments, StageBundle,
       CheckHost, ProbeRulesDir, SetupUnchanged, fixed, targetVars, udevVars, Continue, Die,
       Goto, Exit, CreatePoints, RemovePoints, Setup, Guarded, Cleanup, Running

LEMMA HelperSound ==
  ASSUME TypeOK, NEW r \in Runs, Sound(r), HelperAction(r)
  PROVE  Sound(r)'
<1> USE DEF Sound, Established, AcknowledgedWrite, Complete, TypeOK, HelperEnds, HelperStep,
            HelperUnchanged, fixed, wrapperVars, targetVars, udevVars, Continue, Die, Goto,
            Exit, CreatePoints, RemovePoints, Setup, Guarded, Cleanup, Running
<1>1. CASE StartHelper(r) BY <1>1 DEF StartHelper
<1>2. CASE HelperFails(r) BY <1>2 DEF HelperFails
<1>3. CASE MakeDir(r) BY <1>3 DEF MakeDir
<1>4. CASE OpenRule(r) BY <1>4 DEF OpenRule
<1>5. CASE FillRule(r) BY <1>5 DEF FillRule
<1>6. CASE LoadRules(r) BY <1>6 DEF LoadRules, Installed
<1>7. CASE UndoRule(r) BY <1>7 DEF UndoRule
<1>8. CASE UndoDir(r) BY <1>8 DEF UndoDir, RemoveDir
<1>9. CASE RemoveRule(r) BY <1>9 DEF RemoveRule
<1>10. CASE RemoveRulesDir(r) BY <1>10 DEF RemoveRulesDir, RemoveDir
<1>11. CASE UnloadRules(r) BY <1>11 DEF UnloadRules, Installed
<1> QED BY <1>1, <1>2, <1>3, <1>4, <1>5, <1>6, <1>7, <1>8, <1>9, <1>10, <1>11
        DEF HelperAction, Create, Remove

LEMMA ContainerSound ==
  ASSUME TypeOK, NEW r \in Runs, Sound(r), ContainerAction(r)
  PROVE  Sound(r)'
<1> USE DEF Sound, Established, AcknowledgedWrite, Complete, TypeOK, Becomes, Acknowledged,
            ContainerUnchanged, fixed, wrapperVars, targetVars, udevVars, CreatePoints,
            RemovePoints, Setup, Guarded, Cleanup, Running
<1>1. CASE StartContainer(r) BY <1>1 DEF StartContainer
<1>2. CASE CheckBoard(r) BY <1>2 DEF CheckBoard
<1>3. CASE WriteTarget(r) BY <1>3, OptionsAssumption DEF WriteTarget
<1>4. CASE ContainerEnds(r) BY <1>4 DEF ContainerEnds
<1> QED BY <1>1, <1>2, <1>3, <1>4 DEF ContainerAction

LEMMA WayOutSound ==
  ASSUME TypeOK, NEW r \in Runs, Sound(r), WayOut(r)
  PROVE  Sound(r)'
<1> USE DEF Sound, Established, AcknowledgedWrite, Complete, TypeOK, WrapperUnchanged, fixed,
            targetVars, udevVars, Continue, Die, Goto, Exit, CreatePoints, RemovePoints,
            Setup, Guarded, Cleanup, Running
<1>1. CASE ClientReturns(r) BY <1>1 DEF ClientReturns
<1>2. CASE ReadFinalStatus(r) BY <1>2 DEF ReadFinalStatus
<1>3. CASE RemoveContainer(r) BY <1>3 DEF RemoveContainer
<1>4. CASE Interrupt(r) BY <1>4 DEF Interrupt
<1>5. CASE Kill(r) BY <1>5 DEF Kill
<1> QED BY <1>1, <1>2, <1>3, <1>4, <1>5 DEF WayOut

\* The inductive invariant.
THEOREM Invariance == Spec => []IInv
<1>1. TypeOK /\ (\A r \in Runs : Sound(r)) /\ [Next]_vars => (\A r \in Runs : Sound(r))'
  <2> SUFFICES ASSUME TypeOK, \A r \in Runs : Sound(r), [Next]_vars, NEW r \in Runs
               PROVE  Sound(r)'
    OBVIOUS
  <2>1. CASE UNCHANGED vars
    <3>1. Untouched(r)
      BY <2>1 DEF vars, fixed, wrapperVars, targetVars, udevVars, Untouched
    <3> QED BY <3>1, UntouchedSound
  <2>2. ASSUME NEW x \in Runs, Action(x) PROVE Sound(r)'
    <3>1. CASE r = x
      BY <2>2, <3>1, SetupSound, HelperSound, ContainerSound, WayOutSound DEF Action
    <3>2. CASE r # x
      BY <2>2, <3>2, OtherUntouched, UntouchedSound
    <3> QED BY <3>1, <3>2
  <2> QED BY <2>1, <2>2, Steps DEF Action
<1> QED BY <1>1, TypeCorrect, InitSound, PTL DEF Spec, IInv

\* What a wrapper has established where it is, whatever the others do.
THEOREM WrapperSound == Spec => []WrapperInv
<1>1. IInv => WrapperInv BY DEF IInv, Sound, WrapperInv
<1> QED BY <1>1, Invariance, PTL

\* No wrapper flashes without its automount rule, whatever the other wrappers
\* do to the directory and to udev.
THEOREM RuleSound == Spec => []RuleWhileFlashing
<1>1. IInv => RuleWhileFlashing
  BY DEF IInv, Sound, Established, RuleWhileFlashing
<1> QED BY <1>1, Invariance, PTL

\* Only what the options acknowledge is replaced, on a checked module.
THEOREM WritesSound == Spec => []WritesAreAcknowledged
<1>1. IInv => WritesAreAcknowledged
  BY DEF IInv, Sound, WritesAreAcknowledged
<1> QED BY <1>1, Invariance, PTL

\* Exit status 0 stands for a reported success and a clean host.
THEOREM SuccessSound == Spec => []SuccessIsComplete
<1>1. IInv => SuccessIsComplete
  BY DEF IInv, Sound, SuccessIsComplete
<1> QED BY <1>1, Invariance, PTL
=============================================================================
