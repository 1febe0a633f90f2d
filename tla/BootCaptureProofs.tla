------------------------- MODULE BootCaptureProofs -------------------------
(***************************************************************************)
(* Proofs about BootCapture, for every set of options and every duration.  *)
(***************************************************************************)
EXTENDS BootCapture, TLAPS

(***************************************************************************)
(* Type correctness.                                                       *)
(***************************************************************************)
LEMMA InitType == Init => TypeOK
<1> SUFFICES ASSUME Init PROVE TypeOK
  OBVIOUS
<1>1. /\ stop \in BOOLEAN /\ attempted \in BOOLEAN /\ verified \in BOOLEAN
      /\ dropped \in BOOLEAN /\ alarm \in BOOLEAN /\ lost \in BOOLEAN
  BY Zenon DEF Init
<1> QED BY <1>1 DEF Init, TypeOK, Times, NoTime, Workers, MainPoints, TryBlock,
                    BeforePower, WorkerPoints, Statuses

LEMMA SetupType == TypeOK /\ MainSetup => TypeOK'
<1> SUFFICES ASSUME TypeOK, MainSetup PROVE TypeOK'
  OBVIOUS
<1> USE DEF TypeOK, Goto, Raise, SetupUnchanged, recordVars, uartVars, carrierVars,
            supplyVars, MainPoints, TryBlock, BeforePower, PowerSection, Workers,
            WorkerPoints
<1>1. CASE Resolve BY <1>1 DEF Resolve
<1>2. CASE Identify
  <2>1. verified' \in BOOLEAN BY <1>2, Zenon DEF Identify
  <2> QED BY <1>2, <2>1 DEF Identify
<1>3. CASE InitialSupply BY <1>3 DEF InitialSupply
<1>4. ASSUME NEW w \in Workers, StartWorker(w) PROVE TypeOK'
  BY <1>4 DEF StartWorker
<1>5. CASE Started BY <1>5, OptionsAssumption DEF Started
<1>6. CASE PowerOff BY <1>6 DEF PowerOff
<1>7. CASE VerifyOff BY <1>7 DEF VerifyOff
<1>8. CASE Dwell BY <1>8 DEF Dwell
<1>9. CASE ColdCheck BY <1>9 DEF ColdCheck
<1>10. CASE CheckStop BY <1>10 DEF CheckStop
<1>11. CASE Requery BY <1>11 DEF Requery
<1> QED BY <1>1, <1>2, <1>3, <1>4, <1>5, <1>6, <1>7, <1>8, <1>9, <1>10, <1>11
        DEF MainSetup

LEMMA PowerType == TypeOK /\ MainPower => TypeOK'
<1> SUFFICES ASSUME TypeOK, MainPower PROVE TypeOK'
  OBVIOUS
<1> USE DEF TypeOK, Goto, Raise, SetupUnchanged, recordVars, mainVars, uartVars,
            carrierVars, supplyVars, MainPoints, TryBlock, BeforePower, PowerSection,
            AfterPower, Arm, Times
<1>1. CASE EnterPowerSection BY <1>1 DEF EnterPowerSection
<1>2. CASE TakeBaseline BY <1>2 DEF TakeBaseline
<1>3. CASE Decide
  <2>1. attempted' \in BOOLEAN BY <1>3, Zenon DEF Decide
  <2> QED BY <1>3, <2>1 DEF Decide
<1>4. CASE WriteOn BY <1>4 DEF WriteOn
<1>5. CASE PublishReference BY <1>5 DEF PublishReference
<1>6. CASE VerifyOn BY <1>6 DEF VerifyOn
<1>7. CASE ArmUnknown BY <1>7 DEF ArmUnknown
<1> QED BY <1>1, <1>2, <1>3, <1>4, <1>5, <1>6, <1>7 DEF MainPower

\* Recording a failure keeps the set of sources well typed.
LEMMA FailType ==
  ASSUME errors \subseteq Sources, NEW source \in Sources, Fail(source)
  PROVE  errors' \subseteq Sources
BY Zenon DEF Fail

LEMMA SourceNames ==
  /\ "measurement" \in Sources /\ "power_supply" \in Sources
  /\ "power_supply_monitor" \in Sources /\ "carrier_monitor" \in Sources
  /\ "uart_capture" \in Sources
BY DEF Sources

LEMMA VerdictType == TypeOK /\ MainVerdict => TypeOK'
<1> SUFFICES ASSUME TypeOK, MainVerdict PROVE TypeOK'
  OBVIOUS
<1> USE DEF TypeOK, Goto, VerdictUnchanged, recordVars, uartVars, carrierVars,
            supplyVars, MainPoints, TryBlock, AfterPower, Concluding
<1>1. CASE WaitEnds BY <1>1 DEF WaitEnds
<1>2. CASE ReadMissing
  <2>1. Wanted \subseteq Workers BY OptionsAssumption DEF Wanted
  <2>2. missing' \subseteq Workers \cup {"carrier_final_up"}
    BY <1>2, <2>1, Zenon DEF ReadMissing
  <2> QED BY <1>2, <2>2 DEF ReadMissing
<1>3. CASE ReadFinalUp BY <1>3 DEF ReadFinalUp
<1>4. CASE Verdict BY <1>4 DEF Verdict, Statuses
<1>5. CASE Handle
  <2>1. errors' \subseteq Sources
    BY <1>5, FailType, SourceNames DEF Handle
  <2> QED BY <1>5, <2>1 DEF Handle, Statuses
<1> QED BY <1>1, <1>2, <1>3, <1>4, <1>5 DEF MainVerdict

\* What recording readiness and carrier transitions leaves well typed.
LEMMA MarkReadyType ==
  ASSUME TypeOK, NEW w \in Workers, NEW t \in Times, NEW b \in Times,
         MarkReady(w, t, b)
  PROVE  ready' \in [Workers -> Times] /\ evidence' \in [Workers -> Times]
BY DEF TypeOK, MarkReady

LEMMA RecordCarrierType ==
  ASSUME TypeOK, NEW v \in {"down", "up"}, NEW b \in Times, RecordCarrier(v, b)
  PROVE  /\ ready' \in [Workers -> Times] /\ evidence' \in [Workers -> Times]
         /\ lastUp' \in Times /\ dropped' \in BOOLEAN
<1>1. now \in Times /\ "carrier" \in Workers
  BY DEF TypeOK, Times, Workers
<1>2. lastUp' \in Times
  BY <1>1 DEF RecordCarrier, TypeOK
<1>3. dropped' \in BOOLEAN
  BY Zenon DEF RecordCarrier, TypeOK
<1>4. ready' \in [Workers -> Times] /\ evidence' \in [Workers -> Times]
  <2>1. CASE MarkReady("carrier", now, b) BY <1>1, <2>1, MarkReadyType
  <2>2. CASE UNCHANGED <<ready, evidence>> BY <2>2 DEF TypeOK
  <2> QED BY <2>1, <2>2 DEF RecordCarrier
<1> QED BY <1>2, <1>3, <1>4

LEMMA FinallyType == TypeOK /\ MainFinally => TypeOK'
<1> SUFFICES ASSUME TypeOK, MainFinally PROVE TypeOK'
  OBVIOUS
<1> USE DEF TypeOK, Goto, VerdictUnchanged, recordVars, mainVars, uartVars,
            carrierVars, supplyVars, MainPoints, Concluding
<1>1. CASE Finally
  <2>1. stop' \in BOOLEAN BY <1>1, Zenon DEF Finally
  <2> QED BY <1>1, <2>1 DEF Finally
<1>2. CASE Join BY <1>2 DEF Join
<1>3. CASE FinalSample
  <2>1. now \in Times BY DEF Times
  <2> DEFINE Sampled == /\ ready' \in [Workers -> Times]
                        /\ evidence' \in [Workers -> Times]
                        /\ lastUp' \in Times /\ dropped' \in BOOLEAN
                        /\ lastState' \in {"none", "down", "up"}
  <2>2. Sampled
    <3>1. ASSUME NEW v \in {"down", "up"}, RecordCarrier(v, now), lastState' = v
          PROVE  Sampled
      BY <2>1, <3>1, RecordCarrierType
    <3>2. CASE UNCHANGED <<ready, evidence, lastState, lastUp, dropped>>
      BY <3>2
    <3>3. \/ \E v \in {"down", "up"} : RecordCarrier(v, now) /\ lastState' = v
          \/ UNCHANGED <<ready, evidence, lastState, lastUp, dropped>>
      BY <1>3, Zenon DEF FinalSample, FinalRead, FinalReadFails
    <3> QED BY <3>1, <3>2, <3>3
  <2>3. errors' \subseteq Sources
    BY <1>3, FailType, SourceNames DEF FinalSample, FinalRead, FinalReadFails
  <2>4. status' \in Statuses
    BY <1>3 DEF FinalSample, FinalRead, FinalReadFails, Statuses
  <2> QED BY <1>3, <2>2, <2>3, <2>4 DEF FinalSample, FinalRead, FinalReadFails
<1>4. CASE FinalUpCheck BY <1>4 DEF FinalUpCheck, Statuses
<1>5. CASE FinalSupply
  <2>1. errors' \subseteq Sources
    BY <1>5, FailType, SourceNames DEF FinalSupply, FinalSupplyTaken, FinalSupplyFails
  <2> QED BY <1>5, <2>1 DEF FinalSupply, FinalSupplyTaken, FinalSupplyFails, Statuses
<1>6. CASE Finish BY <1>6 DEF Finish
<1> QED BY <1>1, <1>2, <1>3, <1>4, <1>5, <1>6 DEF MainFinally

LEMMA WorkerType ==
  ASSUME TypeOK,
         Carrier \/ Serial \/ (\E w \in Network : Probe(w)) \/ CheckStopAgain
           \/ (\E w \in Workers : Leave(w))
           \/ (\E w \in Failing : RecordFailure(w) \/ SetStop(w))
  PROVE  TypeOK'
<1> USE DEF TypeOK, WorkerUnchanged, ProbeUnchanged, mainVars, uartVars, supplyVars,
            Step, Observing, Observed
<1> DEFINE Typed == /\ worker' \in [Workers -> WorkerPoints]
                    /\ begun' \in [Workers -> Times]
<1>a. /\ "carrier" \in Workers /\ "serial" \in Workers /\ "http" \in Workers
      /\ Network \subseteq Workers /\ Failing \subseteq Workers
      /\ now \in Times /\ NoTime \in Times
  BY DEF Workers, Network, Failing, Times
<1>1. CASE CarrierEnters
  <2>1. Typed BY <1>1, <1>a DEF CarrierEnters, WorkerPoints
  <2> QED BY <1>1, <2>1 DEF CarrierEnters
<1>2. CASE CarrierReads
  <2>1. PICK v \in {"down", "up"} : sample' = v /\ RecordCarrier(v, begun["carrier"])
    BY <1>2 DEF CarrierReads
  <2>2. /\ ready' \in [Workers -> Times] /\ evidence' \in [Workers -> Times]
        /\ lastUp' \in Times /\ dropped' \in BOOLEAN
    BY <1>a, <2>1, RecordCarrierType
  <2>3. Typed BY <1>2, <1>a DEF CarrierReads, WorkerPoints
  <2> QED BY <1>2, <2>1, <2>2, <2>3 DEF CarrierReads
<1>3. CASE CarrierReadFails
  <2>1. Typed BY <1>3, <1>a DEF CarrierReadFails, WorkerPoints
  <2> QED BY <1>3, <2>1 DEF CarrierReadFails
<1>4. CASE CarrierCommits
  <2>1. Typed BY <1>4, <1>a DEF CarrierCommits, WorkerPoints
  <2> QED BY <1>4, <2>1 DEF CarrierCommits
<1>5. CASE SerialReads
  <2>1. Typed BY <1>5, <1>a DEF SerialReads, WorkerPoints
  <2> QED BY <1>5, <2>1 DEF SerialReads
<1>6. CASE SerialReadFails
  <2>1. Typed BY <1>6, <1>a DEF SerialReadFails, WorkerPoints
  <2> QED BY <1>6, <2>1 DEF SerialReadFails
<1>7. CASE SerialRecords
  <2>1. Typed BY <1>7, <1>a DEF SerialRecords, WorkerPoints
  <2>2. begun["serial"] \in Times BY <1>a
  <2>3. ready' \in [Workers -> Times] /\ evidence' \in [Workers -> Times]
    BY <1>7, <1>a, <2>2, MarkReadyType DEF SerialRecords
  <2>4. buffer' \in {"clear", "head"} /\ headAt' \in Times
    BY <1>7, <1>a, <2>2 DEF SerialRecords
  <2> QED BY <1>7, <2>1, <2>3, <2>4 DEF SerialRecords
<1>8. ASSUME NEW w \in Network, Probe(w) PROVE TypeOK'
  <2>1. Typed BY <1>8, <1>a DEF Probe, ProbeBegins, ProbeEnds, ProbeMarks,
                                WorkerPoints
  <2>2. ready' \in [Workers -> Times] /\ evidence' \in [Workers -> Times]
    BY <1>8, <1>a, MarkReadyType DEF Probe, ProbeBegins, ProbeEnds, ProbeMarks
  <2> QED BY <1>8, <2>1, <2>2 DEF Probe, ProbeBegins, ProbeEnds, ProbeMarks
<1>9. CASE CheckStopAgain
  <2>1. Typed BY <1>9, <1>a DEF CheckStopAgain, WorkerPoints
  <2> QED BY <1>9, <2>1 DEF CheckStopAgain
<1>10. ASSUME NEW w \in Workers, Leave(w) PROVE TypeOK'
  <2>1. Typed BY <1>10 DEF Leave, WorkerPoints
  <2> QED BY <1>10, <2>1 DEF Leave
<1>11. ASSUME NEW w \in Failing, RecordFailure(w) PROVE TypeOK'
  <2>1. Typed BY <1>11, <1>a DEF RecordFailure, WorkerPoints
  <2>2. errors' \subseteq Sources
    BY <1>11, FailType, SourceNames DEF RecordFailure
  <2> QED BY <1>11, <2>1, <2>2 DEF RecordFailure
<1>12. ASSUME NEW w \in Failing, SetStop(w) PROVE TypeOK'
  <2>1. Typed BY <1>12, <1>a DEF SetStop, WorkerPoints
  <2>2. stop' \in BOOLEAN BY <1>12, Zenon DEF SetStop
  <2> QED BY <1>12, <2>1, <2>2 DEF SetStop
<1> QED BY <1>1, <1>2, <1>3, <1>4, <1>5, <1>6, <1>7, <1>8, <1>9, <1>10, <1>11, <1>12
        DEF Carrier, Serial

LEMMA StepType == TypeOK /\ [Next]_vars => TypeOK'
<1> SUFFICES ASSUME TypeOK, [Next]_vars PROVE TypeOK'
  OBVIOUS
<1>1. CASE Main BY <1>1, SetupType, PowerType, VerdictType, FinallyType DEF Main
<1>2. CASE Interrupt
  BY <1>2 DEF Interrupt, TypeOK, Raise, SetupUnchanged, recordVars, uartVars,
              carrierVars, supplyVars, MainPoints
<1>3. CASE Tick
  BY <1>3 DEF Tick, TypeOK, recordVars, mainVars, uartVars, carrierVars, supplyVars
<1>4. CASE OutputLost
  <2>1. alarm' \in BOOLEAN /\ lost' \in BOOLEAN
    BY <1>4, Zenon DEF OutputLost, TypeOK
  <2> QED BY <1>4, <2>1 DEF OutputLost, TypeOK, recordVars, mainVars, uartVars,
                            carrierVars
<1>5. CASE UNCHANGED vars
  BY <1>5 DEF vars, TypeOK, recordVars, mainVars, uartVars, carrierVars, supplyVars
<1> QED BY <1>1, <1>2, <1>3, <1>4, <1>5, WorkerType DEF Next, Terminated

\* Every variable keeps its type.
THEOREM TypeCorrect == Spec => []TypeOK
<1> QED BY InitType, StepType, PTL DEF Spec

(***************************************************************************)
(* The lock.                                                               *)
(***************************************************************************)
\* The parts of a step of run that the other threads' invariants depend on.
LEMMA MainFrame ==
  ASSUME TypeOK, Main \/ Interrupt
  PROVE  /\ now' = now
         /\ main' \in PowerSection => main \in PowerSection \cup {"lock"}
         /\ worker["carrier"]' # worker["carrier"] =>
               worker["carrier"] = "unborn" /\ worker["carrier"]' = "loop"
<1> USE DEF SetupUnchanged, VerdictUnchanged, Goto, Raise, PowerSection, Workers,
            recordVars, mainVars, uartVars, carrierVars, supplyVars
<1>1. CASE MainSetup
  <2>1. ASSUME NEW w \in Workers, StartWorker(w)
        PROVE  worker["carrier"]' # worker["carrier"] =>
                  worker["carrier"] = "unborn" /\ worker["carrier"]' = "loop"
    BY <2>1 DEF StartWorker, TypeOK
  <2> QED BY <1>1, <2>1, OptionsAssumption
          DEF MainSetup, Resolve, Identify, InitialSupply, StartWorker, Started,
              PowerOff, VerifyOff, Dwell, ColdCheck, CheckStop, Requery
<1>2. CASE MainPower
  BY <1>2 DEF MainPower, EnterPowerSection, TakeBaseline, Decide, WriteOn,
              PublishReference, VerifyOn, ArmUnknown
<1>3. CASE MainVerdict
  BY <1>3 DEF MainVerdict, WaitEnds, ReadMissing, ReadFinalUp, Verdict, Handle
<1>4. CASE MainFinally
  BY <1>4 DEF MainFinally, Finally, Join, FinalSample, FinalRead, FinalReadFails,
              FinalUpCheck, FinalSupply, FinalSupplyTaken, FinalSupplyFails,
              Finish
<1>5. CASE Interrupt BY <1>5 DEF Interrupt
<1> QED BY <1>1, <1>2, <1>3, <1>4, <1>5 DEF Main

LEMMA LockMain ==
  ASSUME TypeOK, LockInv, Main \/ Interrupt
  PROVE  LockInv'
<1> USE DEF LockInv, SetupUnchanged, VerdictUnchanged, Goto, Raise, PowerSection,
            BeforePower, TypeOK, recordVars, mainVars, uartVars, carrierVars,
            supplyVars
<1>1. worker["carrier"]' \in {"read", "commit"} <=> worker["carrier"] \in {"read", "commit"}
  BY MainFrame
<1>2. CASE MainSetup
  BY <1>1, <1>2, OptionsAssumption
  DEF MainSetup, Resolve, Identify, InitialSupply, StartWorker, Started,
      PowerOff, VerifyOff, Dwell, ColdCheck, CheckStop, Requery
<1>3. CASE MainPower
  BY <1>1, <1>3 DEF MainPower, EnterPowerSection, TakeBaseline, Decide, WriteOn,
                    PublishReference, VerifyOn, ArmUnknown, Free
<1>4. CASE MainVerdict
  BY <1>1, <1>4 DEF MainVerdict, WaitEnds, ReadMissing, ReadFinalUp, Verdict, Handle
<1>5. CASE MainFinally
  BY <1>1, <1>5 DEF MainFinally, Finally, Join, FinalSample, FinalRead,
                    FinalReadFails, FinalUpCheck,
                    FinalSupply, FinalSupplyTaken, FinalSupplyFails, Finish
<1>6. CASE Interrupt BY <1>1, <1>6 DEF Interrupt
<1> QED BY <1>2, <1>3, <1>4, <1>5, <1>6 DEF Main

LEMMA LockStep == TypeOK /\ LockInv /\ [Next]_vars => LockInv'
<1> SUFFICES ASSUME TypeOK, LockInv, [Next]_vars PROVE LockInv'
  OBVIOUS
<1> USE DEF LockInv, Step, WorkerUnchanged, ProbeUnchanged, PowerSection, mainVars,
            TypeOK, Network, Failing, Workers
<1>1. CASE Main \/ Interrupt BY <1>1, LockMain
<1>2. CASE Carrier
  BY <1>2 DEF Carrier, CarrierEnters, CarrierReads, CarrierReadFails, CarrierCommits,
              Free
<1>3. CASE Serial BY <1>3 DEF Serial, SerialReads, SerialReadFails, SerialRecords
<1>4. ASSUME NEW w \in Network, Probe(w) PROVE LockInv'
  BY <1>4 DEF Probe, ProbeBegins, ProbeEnds, ProbeMarks
<1>5. CASE CheckStopAgain BY <1>5 DEF CheckStopAgain
<1>6. ASSUME NEW w \in Workers, Leave(w) PROVE LockInv'
  BY <1>6 DEF Leave
<1>7. ASSUME NEW w \in Failing, RecordFailure(w) \/ SetStop(w) PROVE LockInv'
  BY <1>7 DEF RecordFailure, SetStop
<1>8. CASE Tick BY <1>8 DEF Tick
<1>9. CASE OutputLost BY <1>9 DEF OutputLost
<1>10. CASE UNCHANGED vars BY <1>10 DEF vars
<1> QED BY <1>1, <1>2, <1>3, <1>4, <1>5, <1>6, <1>7, <1>8, <1>9, <1>10
        DEF Next, Terminated

(***************************************************************************)
(* The power section.                                                      *)
(***************************************************************************)
\* The workers, the clock and the supply leave run's variables alone, and the
\* carrier's last sample while run holds the lock.
MainKept ==
    /\ main' = main /\ reference' = reference /\ verified' = verified
    /\ baseline' = baseline /\ sentAt' = sentAt /\ attempted' = attempted
    /\ now' \in Nat /\ now <= now'
    /\ main \in PowerSection => lastState' = lastState

LEMMA OthersFrame ==
  ASSUME TypeOK, LockInv, [Next]_vars, ~Main, ~Interrupt
  PROVE  MainKept
<1> USE DEF MainKept, Step, WorkerUnchanged, ProbeUnchanged, mainVars, recordVars,
            carrierVars, TypeOK
<1>1. CASE Carrier
  BY <1>1 DEF Carrier, CarrierEnters, CarrierReads, CarrierReadFails, CarrierCommits,
              LockInv
<1>2. CASE Serial BY <1>2 DEF Serial, SerialReads, SerialReadFails, SerialRecords
<1>3. ASSUME NEW w \in Network, Probe(w) PROVE MainKept
  BY <1>3 DEF Probe, ProbeBegins, ProbeEnds, ProbeMarks
<1>4. CASE CheckStopAgain BY <1>4 DEF CheckStopAgain
<1>5. ASSUME NEW w \in Workers, Leave(w) PROVE MainKept
  BY <1>5 DEF Leave
<1>6. ASSUME NEW w \in Failing, RecordFailure(w) \/ SetStop(w) PROVE MainKept
  BY <1>6 DEF RecordFailure, SetStop
<1>7. CASE Tick BY <1>7 DEF Tick
<1>8. CASE OutputLost BY <1>8 DEF OutputLost
<1>9. CASE UNCHANGED vars BY <1>9 DEF vars
<1> QED BY <1>1, <1>2, <1>3, <1>4, <1>5, <1>6, <1>7, <1>8, <1>9 DEF Next, Terminated

LEMMA PowerMain ==
  ASSUME TypeOK, LockInv, PowerInv, Main \/ Interrupt
  PROVE  PowerInv'
<1> USE DEF PowerInv, SetupUnchanged, VerdictUnchanged, Goto, Raise, PowerSection,
            BeforePower, HasSupply, TypeOK, recordVars, mainVars, uartVars,
            carrierVars, supplyVars, Times, NoTime
<1>1. CASE MainSetup
  BY <1>1, OptionsAssumption
  DEF MainSetup, Resolve, Identify, InitialSupply, StartWorker, Started,
      PowerOff, VerifyOff, Dwell, ColdCheck, CheckStop, Requery
<1>2. CASE MainPower
  <2>1. CASE EnterPowerSection BY <1>2, <2>1 DEF EnterPowerSection
  <2>2. CASE TakeBaseline BY <1>2, <2>2 DEF TakeBaseline
  <2>3. CASE Decide BY <1>2, <2>3 DEF Decide
  <2>4. CASE WriteOn BY <1>2, <2>4 DEF WriteOn
  <2>5. CASE PublishReference BY <1>2, <2>5 DEF PublishReference
  <2>6. CASE VerifyOn BY <1>2, <2>6 DEF VerifyOn
  <2>7. CASE ArmUnknown BY <1>2, <2>7 DEF ArmUnknown
  <2> QED BY <1>2, <2>1, <2>2, <2>3, <2>4, <2>5, <2>6, <2>7 DEF MainPower
<1>3. CASE MainVerdict
  BY <1>3 DEF MainVerdict, WaitEnds, ReadMissing, ReadFinalUp, Verdict, Handle
<1>4. CASE MainFinally
  BY <1>4 DEF MainFinally, Finally, Join, FinalSample, FinalRead, FinalReadFails,
              FinalUpCheck, FinalSupply, FinalSupplyTaken, FinalSupplyFails,
              Finish
<1>5. CASE Interrupt BY <1>5 DEF Interrupt
<1> QED BY <1>1, <1>2, <1>3, <1>4, <1>5 DEF Main

LEMMA PowerStep == TypeOK /\ LockInv /\ PowerInv /\ [Next]_vars => PowerInv'
<1> SUFFICES ASSUME TypeOK, LockInv, PowerInv, [Next]_vars PROVE PowerInv'
  OBVIOUS
<1>1. CASE Main \/ Interrupt BY <1>1, PowerMain
<1>2. CASE ~Main /\ ~Interrupt
  <2>1. MainKept BY <1>2, OthersFrame
  <2> QED BY <2>1 DEF MainKept, PowerInv, PowerSection, TypeOK, Times, NoTime
<1> QED BY <1>1, <1>2

(***************************************************************************)
(* The clock.                                                              *)
(***************************************************************************)
LEMMA ClockMain ==
  ASSUME TypeOK, LockInv, PowerInv, ClockInv, Main \/ Interrupt
  PROVE  ClockInv'
<1> USE DEF SetupUnchanged, VerdictUnchanged, Goto, Raise, recordVars, mainVars,
            uartVars, carrierVars, supplyVars, TypeOK, Times, NoTime
<1>1. CASE MainSetup
  <2>1. UNCHANGED <<now, sentAt, reference, begun, headAt, buffer>>
    BY <1>1 DEF MainSetup, Resolve, Identify, InitialSupply, StartWorker, Started,
                PowerOff, VerifyOff, Dwell, ColdCheck, CheckStop, Requery
  <2>2. \A w \in Workers : worker'[w] = worker[w] \/ worker'[w] = "loop"
    BY <1>1 DEF MainSetup, Resolve, Identify, InitialSupply, StartWorker, Started,
                PowerOff, VerifyOff, Dwell, ColdCheck, CheckStop, Requery
  <2> QED BY <2>1, <2>2 DEF ClockInv, Workers, Network
<1>2. ASSUME NEW t \in Times, Arm(t), t <= now, main \in {"arm", "arm_unknown"},
             lock # "carrier", UNCHANGED <<now, sentAt, worker, begun>>
      PROVE  ClockInv'
  <2>1. reference = NoTime
    BY <1>2 DEF PowerInv, PowerSection
  <2>2. \A w \in Network : worker[w] \notin {"probe", "check", "mark"}
    BY <2>1 DEF ClockInv
  <2>3. worker["carrier"] \notin {"read", "commit"}
    BY <1>2 DEF LockInv
  <2> QED BY <1>2, <2>1, <2>2, <2>3 DEF Arm, ClockInv, Workers
<1>3. CASE MainPower
  <2>1. CASE PublishReference
    BY <1>2, <2>1 DEF PublishReference, LockInv, PowerSection, ClockInv
  <2>2. CASE ArmUnknown BY <1>2, <2>2 DEF ArmUnknown, Free, ClockInv
  <2>3. CASE EnterPowerSection \/ TakeBaseline \/ Decide \/ WriteOn \/ VerifyOn
    BY <2>3 DEF EnterPowerSection, TakeBaseline, Decide, WriteOn, VerifyOn, ClockInv,
                Workers, Network
  <2> QED BY <1>3, <2>1, <2>2, <2>3 DEF MainPower
<1>4. CASE MainVerdict
  BY <1>4 DEF MainVerdict, WaitEnds, ReadMissing, ReadFinalUp, Verdict, Handle,
              ClockInv
<1>5. CASE MainFinally
  BY <1>5 DEF MainFinally, Finally, Join, FinalSample, FinalRead, FinalReadFails,
              FinalUpCheck, FinalSupply, FinalSupplyTaken, FinalSupplyFails,
              Finish, ClockInv
<1>6. CASE Interrupt BY <1>6 DEF Interrupt, ClockInv
<1> QED BY <1>1, <1>3, <1>4, <1>5, <1>6 DEF Main

LEMMA ClockStep ==
  ASSUME TypeOK, LockInv, PowerInv, ClockInv, [Next]_vars
  PROVE  ClockInv'
<1> USE DEF ClockInv, Step, Observing, Observed, WorkerUnchanged, ProbeUnchanged,
            recordVars, mainVars, uartVars, TypeOK, Times, NoTime, Network, Failing,
            Workers
<1>1. CASE Main \/ Interrupt BY <1>1, ClockMain
<1>2. CASE CarrierEnters BY <1>2 DEF CarrierEnters
<1>3. CASE CarrierReads \/ CarrierReadFails \/ CarrierCommits
  BY <1>3 DEF CarrierReads, CarrierReadFails, CarrierCommits
<1>4. CASE SerialReads BY <1>4 DEF SerialReads
<1>5. CASE SerialReadFails BY <1>5 DEF SerialReadFails
<1>6. CASE SerialRecords BY <1>6 DEF SerialRecords, Searched
<1>7. ASSUME NEW w \in Network, ProbeBegins(w) PROVE ClockInv'
  BY <1>7 DEF ProbeBegins
<1>8. ASSUME NEW w \in Network, ProbeEnds(w) \/ ProbeMarks(w) PROVE ClockInv'
  BY <1>8 DEF ProbeEnds, ProbeMarks
<1>9. CASE CheckStopAgain BY <1>9 DEF CheckStopAgain
<1>10. ASSUME NEW w \in Workers, Leave(w) PROVE ClockInv'
  BY <1>10 DEF Leave
<1>11. ASSUME NEW w \in Failing, RecordFailure(w) \/ SetStop(w) PROVE ClockInv'
  BY <1>11 DEF RecordFailure, SetStop
<1>12. CASE Tick BY <1>12 DEF Tick
<1>13. CASE OutputLost BY <1>13 DEF OutputLost
<1>14. CASE UNCHANGED vars BY <1>14 DEF vars
<1> QED BY <1>1, <1>2, <1>3, <1>4, <1>5, <1>6, <1>7, <1>8, <1>9, <1>10, <1>11,
           <1>12, <1>13, <1>14
        DEF Next, Carrier, Serial, Probe, Terminated

(***************************************************************************)
(* The record.                                                             *)
(***************************************************************************)
RecordInv == EvidenceAfterReference /\ CarrierWithinDuration

\* Marking a kind ready keeps the record sound if the observation behind it
\* began after the reference and did not begin after the time it is given.
LEMMA MarkReadySound ==
  ASSUME TypeOK, EvidenceAfterReference, reference' = reference,
         NEW w \in Workers, NEW t \in Nat, NEW b \in Times, MarkReady(w, t, b),
         reference # NoTime => reference <= b /\ b <= t
  PROVE  EvidenceAfterReference'
BY DEF MarkReady, EvidenceAfterReference, TypeOK, Times, NoTime

\* A kind is marked at the time given, or keeps its time.
LEMMA MarkReadyOnly ==
  ASSUME TypeOK, NEW w \in Workers, NEW t \in Nat, NEW b \in Times, MarkReady(w, t, b)
  PROVE  \A v \in Workers : \/ ready'[v] = ready[v]
                            \/ v = w /\ ready[v] = NoTime /\ ready'[v] = t
BY DEF MarkReady, TypeOK

LEMMA RecordCarrierSound ==
  ASSUME TypeOK, ClockInv, RecordInv, reference' = reference,
         NEW v \in {"down", "up"}, NEW b \in Nat, RecordCarrier(v, b),
         reference <= b, b <= now
  PROVE  RecordInv'
<1>1. CASE MarkReady("carrier", now, b) /\ now <= reference + Duration
  <2>1. "carrier" \in Workers /\ now \in Nat /\ b \in Times
    BY DEF Workers, TypeOK, Times
  <2>2. EvidenceAfterReference'
    BY <1>1, <2>1, MarkReadySound DEF RecordInv
  <2>3. CarrierWithinDuration'
    BY <1>1, <2>1, MarkReadyOnly DEF RecordInv, CarrierWithinDuration
  <2> QED BY <2>2, <2>3 DEF RecordInv
<1>2. CASE UNCHANGED <<ready, evidence>>
  BY <1>2 DEF RecordInv, EvidenceAfterReference, CarrierWithinDuration
<1> QED BY <1>1, <1>2 DEF RecordCarrier

\* Until there is a reference nothing is ready, so setting it changes nothing.
LEMMA RecordFrame ==
  ASSUME TypeOK, RecordInv, UNCHANGED <<ready, evidence>>,
         reference' = reference \/ reference = NoTime
  PROVE  RecordInv'
<1>1. reference = NoTime => \A w \in Workers : ready[w] = NoTime
  BY DEF RecordInv, EvidenceAfterReference
<1> QED BY <1>1 DEF RecordInv, EvidenceAfterReference, CarrierWithinDuration, Workers

LEMMA RecordMain ==
  ASSUME TypeOK, LockInv, PowerInv, ClockInv, RecordInv, Main \/ Interrupt
  PROVE  RecordInv'
<1> USE DEF SetupUnchanged, VerdictUnchanged, recordVars, mainVars
<1>1. CASE MainSetup
  BY <1>1, RecordFrame
  DEF MainSetup, Resolve, Identify, InitialSupply, StartWorker, Started,
      PowerOff, VerifyOff, Dwell, ColdCheck, CheckStop, Requery
<1>2. CASE MainPower
  <2>1. main \in {"arm", "arm_unknown"} => reference = NoTime
    BY DEF PowerInv, PowerSection
  <2> QED BY <1>2, <2>1, RecordFrame
          DEF MainPower, EnterPowerSection, TakeBaseline, Decide, WriteOn,
              PublishReference, VerifyOn, ArmUnknown
<1>3. CASE MainVerdict
  BY <1>3, RecordFrame
  DEF MainVerdict, WaitEnds, ReadMissing, ReadFinalUp, Verdict, Handle
<1>4. CASE FinalSample
  <2>1. now \in Nat /\ reference <= now /\ now <= now
    BY DEF TypeOK, ClockInv
  <2>2. reference' = reference
    BY <1>4 DEF FinalSample, FinalRead, FinalReadFails
  <2>3. ASSUME NEW v \in {"down", "up"}, RecordCarrier(v, now) PROVE RecordInv'
    BY <2>1, <2>2, <2>3, RecordCarrierSound
  <2> QED BY <1>4, <2>2, <2>3, RecordFrame DEF FinalSample, FinalRead, FinalReadFails
<1>5. CASE Finally \/ Join \/ FinalUpCheck \/ FinalSupply \/ Finish
  BY <1>5, RecordFrame DEF Finally, Join, FinalUpCheck, FinalSupply,
                           FinalSupplyTaken, FinalSupplyFails, Finish
<1>6. CASE Interrupt BY <1>6, RecordFrame DEF Interrupt
<1> QED BY <1>1, <1>2, <1>3, <1>4, <1>5, <1>6 DEF Main, MainFinally

LEMMA RecordStep ==
  ASSUME TypeOK, LockInv, PowerInv, ClockInv, RecordInv, [Next]_vars
  PROVE  RecordInv'
<1> USE DEF Step, WorkerUnchanged, ProbeUnchanged, recordVars
<1>a. \A w \in Workers : begun[w] \in Times /\ begun[w] <= now
  BY DEF TypeOK, ClockInv
<1>1. CASE Main \/ Interrupt BY <1>1, RecordMain
<1>2. CASE CarrierReads
  <2>1. PICK v \in {"down", "up"} : RecordCarrier(v, begun["carrier"])
    BY <1>2 DEF CarrierReads
  <2>2. begun["carrier"] \in Nat /\ reference <= begun["carrier"]
        /\ begun["carrier"] <= now
    BY <1>2, <1>a DEF CarrierReads, ClockInv, Workers, Times
  <2>3. reference' = reference
    BY <1>2 DEF CarrierReads
  <2> QED BY <2>1, <2>2, <2>3, RecordCarrierSound
<1>3. CASE CarrierEnters \/ CarrierReadFails \/ CarrierCommits
  BY <1>3, RecordFrame DEF CarrierEnters, CarrierReadFails, CarrierCommits
<1>4. CASE SerialReads \/ SerialReadFails
  BY <1>4, RecordFrame DEF SerialReads, SerialReadFails
<1>5. CASE SerialRecords
  <2> DEFINE stamp == begun["serial"]
             first == IF chunk = "whole" THEN stamp ELSE headAt
  <2>1. reference' = reference
    BY <1>5 DEF SerialRecords
  <2>2. CASE Searched(stamp) /\ MarkerComplete /\ MarkReady("serial", stamp, first)
    <3>1. stamp \in Nat /\ "serial" \in Workers
      BY <2>2, <1>a DEF Searched, Workers, Times, NoTime, TypeOK
    <3>2. first \in Times /\ reference <= first /\ first <= stamp
      BY <1>5, <2>2, <3>1 DEF SerialRecords, Searched, MarkerComplete, ClockInv,
                              TypeOK, Times
    <3>3. EvidenceAfterReference'
      BY <2>1, <2>2, <3>1, <3>2, MarkReadySound DEF RecordInv
    <3>4. ready'["carrier"] = ready["carrier"]
      BY <2>2, <3>1, <3>2, MarkReadyOnly DEF Workers
    <3> QED BY <2>1, <3>3, <3>4 DEF RecordInv, CarrierWithinDuration
  <2>3. CASE UNCHANGED <<ready, evidence>>
    BY <2>1, <2>3, RecordFrame
  <2> QED BY <1>5, <2>2, <2>3 DEF SerialRecords
<1>6. ASSUME NEW w \in Network, ProbeMarks(w) PROVE RecordInv'
  <2>1. w \in Workers /\ w # "carrier" /\ now \in Nat /\ begun[w] \in Times
    BY <1>a DEF Network, Workers, TypeOK
  <2>2. reference <= begun[w] /\ begun[w] <= now
    BY <1>6, <1>a, <2>1 DEF ProbeMarks, ClockInv
  <2>3. MarkReady(w, now, begun[w]) /\ reference' = reference
    BY <1>6 DEF ProbeMarks
  <2>4. EvidenceAfterReference'
    BY <2>1, <2>2, <2>3, MarkReadySound DEF RecordInv
  <2>5. ready'["carrier"] = ready["carrier"]
    BY <2>1, <2>3, MarkReadyOnly DEF Workers
  <2> QED BY <2>3, <2>4, <2>5 DEF RecordInv, CarrierWithinDuration
<1>7. ASSUME NEW w \in Network, ProbeBegins(w) \/ ProbeEnds(w) PROVE RecordInv'
  BY <1>7, RecordFrame DEF ProbeBegins, ProbeEnds
<1>8. CASE CheckStopAgain BY <1>8, RecordFrame DEF CheckStopAgain
<1>9. ASSUME NEW w \in Workers, Leave(w) PROVE RecordInv'
  BY <1>9, RecordFrame DEF Leave
<1>10. ASSUME NEW w \in Failing, RecordFailure(w) \/ SetStop(w) PROVE RecordInv'
  BY <1>10, RecordFrame DEF RecordFailure, SetStop
<1>11. CASE Tick \/ OutputLost BY <1>11, RecordFrame DEF Tick, OutputLost
<1>12. CASE UNCHANGED vars BY <1>12, RecordFrame DEF vars
<1> QED BY <1>1, <1>2, <1>3, <1>4, <1>5, <1>6, <1>7, <1>8, <1>9, <1>10, <1>11, <1>12
        DEF Next, Carrier, Serial, Probe, Terminated

(***************************************************************************)
(* The baseline.                                                           *)
(***************************************************************************)
LEMMA BaselineKept ==
  ASSUME TypeOK, LockInv, PowerInv, BaselineBeforeReference, [Next]_vars
  PROVE  BaselineBeforeReference'
<1> USE DEF SetupUnchanged, VerdictUnchanged, recordVars, mainVars, carrierVars,
            PowerInv, BeforePower, PowerSection, BaselineBeforeReference
<1>1. CASE MainSetup
  BY <1>1 DEF MainSetup, Resolve, Identify, InitialSupply, StartWorker, Started,
              PowerOff, VerifyOff, Dwell, ColdCheck, CheckStop, Requery
<1>2. CASE MainPower
  <2>1. CASE PublishReference BY <2>1 DEF PublishReference, Arm
  <2>2. CASE ArmUnknown BY <2>2, OptionsAssumption DEF ArmUnknown
  <2> QED BY <1>2, <2>1, <2>2 DEF MainPower, EnterPowerSection, TakeBaseline,
                                  Decide, WriteOn, VerifyOn
<1>3. CASE MainVerdict
  BY <1>3 DEF MainVerdict, WaitEnds, ReadMissing, ReadFinalUp, Verdict, Handle
<1>4. CASE MainFinally
  BY <1>4 DEF MainFinally, Finally, Join, FinalSample, FinalRead, FinalReadFails,
              FinalUpCheck, FinalSupply, FinalSupplyTaken, FinalSupplyFails,
              Finish
<1>5. CASE Interrupt BY <1>5 DEF Interrupt
<1>6. CASE ~Main /\ ~Interrupt BY <1>6, OthersFrame DEF MainKept
<1> QED BY <1>1, <1>2, <1>3, <1>4, <1>5, <1>6 DEF Main

(***************************************************************************)
(* The supply.                                                             *)
(***************************************************************************)
LEMMA SupplyMain ==
  ASSUME TypeOK, PowerInv, SupplyInv, Main \/ Interrupt
  PROVE  SupplyInv'
<1> USE DEF SetupUnchanged, VerdictUnchanged, Goto, Raise, HasSupply, recordVars,
            mainVars, supplyVars, SupplyInv, PowerInv, BeforePower, PowerSection,
            TypeOK
<1>1. CASE MainSetup
  BY <1>1, OptionsAssumption
  DEF MainSetup, Resolve, Identify, InitialSupply, StartWorker, Started,
      PowerOff, VerifyOff, Dwell, ColdCheck, CheckStop, Requery
<1>2. CASE MainPower
  BY <1>2 DEF MainPower, EnterPowerSection, TakeBaseline, Decide, WriteOn,
              PublishReference, VerifyOn, ArmUnknown
<1>3. CASE MainVerdict
  BY <1>3 DEF MainVerdict, WaitEnds, ReadMissing, ReadFinalUp, Verdict, Handle
<1>4. CASE MainFinally
  BY <1>4 DEF MainFinally, Finally, Join, FinalSample, FinalRead, FinalReadFails,
              FinalUpCheck, FinalSupply, FinalSupplyTaken, FinalSupplyFails,
              Finish, SupplyHealthy
<1>5. CASE Interrupt BY <1>5 DEF Interrupt, TryBlock, AfterPower
<1> QED BY <1>1, <1>2, <1>3, <1>4, <1>5 DEF Main

\* A step of a worker or of the clock.
Others ==
    \/ Carrier \/ Serial
    \/ \E w \in Network : Probe(w)
    \/ CheckStopAgain
    \/ \E w \in Workers : Leave(w)
    \/ \E w \in Failing : RecordFailure(w) \/ SetStop(w)
    \/ Tick

LEMMA SupplyFrame ==
  ASSUME Others
  PROVE  UNCHANGED <<output, alarm, lost, main, attempted, verified, status, missing>>
BY DEF Others, Carrier, CarrierEnters, CarrierReads, CarrierReadFails, CarrierCommits,
       Serial, SerialReads, SerialReadFails, SerialRecords, Probe, ProbeBegins,
       ProbeEnds, ProbeMarks, CheckStopAgain, Leave, RecordFailure, SetStop, Tick,
       WorkerUnchanged, ProbeUnchanged, mainVars, supplyVars

LEMMA SupplyStep ==
  ASSUME TypeOK, PowerInv, SupplyInv, [Next]_vars
  PROVE  SupplyInv'
<1>1. CASE Main \/ Interrupt BY <1>1, SupplyMain
<1>2. CASE Others BY <1>2, SupplyFrame DEF SupplyInv
<1>3. CASE OutputLost BY <1>3 DEF OutputLost, mainVars, SupplyInv, BeforePower
<1>4. CASE UNCHANGED vars BY <1>4 DEF vars, mainVars, supplyVars, SupplyInv
<1> QED BY <1>1, <1>2, <1>3, <1>4 DEF Next, Others, Terminated

(***************************************************************************)
(* The verdict.                                                            *)
(***************************************************************************)
LEMMA VerdictMain ==
  ASSUME TypeOK, EvidenceAfterReference, VerdictInv, Main \/ Interrupt
  PROVE  VerdictInv'
<1> USE DEF SetupUnchanged, VerdictUnchanged, Goto, Raise, recordVars, mainVars,
            VerdictInv, BeforePower, PowerSection, AfterPower, TryBlock, Concluding
<1>1. CASE MainSetup
  BY <1>1, OptionsAssumption
  DEF MainSetup, Resolve, Identify, InitialSupply, StartWorker, Started,
              PowerOff, VerifyOff, Dwell, ColdCheck, CheckStop, Requery
<1>2. CASE MainPower
  BY <1>2 DEF MainPower, EnterPowerSection, TakeBaseline, Decide, WriteOn,
              PublishReference, VerifyOn, ArmUnknown
<1>3. CASE ReadMissing BY <1>3 DEF ReadMissing
<1>4. CASE ReadFinalUp BY <1>4 DEF ReadFinalUp
<1>5. CASE Verdict BY <1>5 DEF Verdict
<1>6. CASE WaitEnds \/ Handle BY <1>6 DEF WaitEnds, Handle
<1>7. CASE FinalSample
  <2>1. \A w \in Workers : ready[w] # NoTime => ready'[w] # NoTime
    BY <1>7 DEF FinalSample, FinalRead, FinalReadFails, RecordCarrier, MarkReady,
                TypeOK
  <2>2. Wanted \subseteq Workers BY OptionsAssumption DEF Wanted
  <2> QED BY <1>7, <2>1, <2>2 DEF FinalSample, FinalRead, FinalReadFails
<1>8. CASE Finally \/ Join \/ FinalUpCheck \/ FinalSupply \/ Finish
  BY <1>8 DEF Finally, Join, FinalUpCheck, FinalSupply, FinalSupplyTaken,
              FinalSupplyFails, Finish
<1>9. CASE Interrupt BY <1>9 DEF Interrupt
<1> QED BY <1>1, <1>2, <1>3, <1>4, <1>5, <1>6, <1>7, <1>8, <1>9
        DEF Main, MainVerdict, MainFinally

\* What a worker's step does to the record: nothing, or one kind becomes
\* ready, before the verdict.
LEMMA ReadyGrows ==
  ASSUME TypeOK, Others
  PROVE  /\ reference' = reference
         /\ \/ UNCHANGED <<ready, evidence>>
            \/ \E w \in Workers :
                  /\ main # "done" /\ reference # NoTime /\ ready[w] = NoTime
                  /\ \E t \in Nat, b \in Times :
                        /\ ready' = [ready EXCEPT ![w] = t]
                        /\ evidence' = [evidence EXCEPT ![w] = b]
<1> USE DEF Step, Alive, WorkerUnchanged, ProbeUnchanged, recordVars
<1>a. /\ now \in Times /\ \A w \in Workers : begun[w] \in Times
      /\ "carrier" \in Workers /\ "serial" \in Workers /\ headAt \in Times
      /\ Network \subseteq Workers
  BY DEF TypeOK, Times, Workers, Network
<1>b. \A t \in Times : reference # NoTime /\ t >= reference => t \in Nat
  BY DEF TypeOK, Times, NoTime
<1>1. CASE CarrierReads
  BY <1>1, <1>a, <1>b DEF CarrierReads, RecordCarrier, MarkReady
<1>2. CASE SerialRecords
  <2> DEFINE stamp == begun["serial"]
             first == IF chunk = "whole" THEN stamp ELSE headAt
  <2>1. MarkReady("serial", stamp, first) \/ UNCHANGED <<ready, evidence>>
    BY <1>2 DEF SerialRecords
  <2>2. main # "done" /\ reference' = reference /\ stamp \in Times /\ first \in Times
    BY <1>2, <1>a DEF SerialRecords
  <2> QED BY <1>a, <1>b, <2>1, <2>2 DEF MarkReady
<1>3. ASSUME NEW w \in Network, ProbeMarks(w)
      PROVE  /\ reference' = reference
             /\ \/ UNCHANGED <<ready, evidence>>
                \/ /\ main # "done" /\ reference # NoTime /\ ready[w] = NoTime
                   /\ \E t \in Nat, b \in Times :
                         /\ ready' = [ready EXCEPT ![w] = t]
                         /\ evidence' = [evidence EXCEPT ![w] = b]
  BY <1>3, <1>a, <1>b DEF ProbeMarks, MarkReady
<1> QED BY <1>1, <1>2, <1>3, <1>a
        DEF Others, Carrier, CarrierEnters, CarrierReadFails, CarrierCommits, Serial,
            SerialReads, SerialReadFails, Probe, ProbeBegins, ProbeEnds,
            CheckStopAgain, Leave, RecordFailure, SetStop, Tick

LEMMA VerdictStep ==
  ASSUME TypeOK, EvidenceAfterReference, VerdictInv, [Next]_vars
  PROVE  VerdictInv'
<1>1. CASE Main \/ Interrupt BY <1>1, VerdictMain
<1>2. CASE Others
  <2>1. \A w \in Workers : ready[w] # NoTime => ready'[w] # NoTime
    BY <1>2, ReadyGrows DEF TypeOK
  <2>2. Wanted \subseteq Workers BY OptionsAssumption DEF Wanted
  <2> QED BY <1>2, <2>1, <2>2, SupplyFrame DEF VerdictInv
<1>3. CASE OutputLost BY <1>3 DEF OutputLost, mainVars, recordVars, VerdictInv
<1>4. CASE UNCHANGED vars BY <1>4 DEF vars, mainVars, recordVars, VerdictInv
<1> QED BY <1>1, <1>2, <1>3, <1>4 DEF Next, Others, Terminated

(***************************************************************************)
(* The theorems.                                                           *)
(***************************************************************************)
IInv ==
    /\ TypeOK /\ LockInv /\ PowerInv /\ ClockInv /\ SupplyInv /\ VerdictInv
    /\ RecordInv /\ BaselineBeforeReference

LEMMA InitInv == Init => IInv
<1> SUFFICES ASSUME Init PROVE IInv
  OBVIOUS
<1> USE DEF Init, NoTime, Workers, BeforePower, PowerSection
<1>1. TypeOK BY InitType
<1>2. LockInv /\ PowerInv BY DEF LockInv, PowerInv
<1>3. ClockInv BY DEF ClockInv, Network
<1>4. SupplyInv BY DEF SupplyInv
<1>5. VerdictInv BY DEF VerdictInv
<1>6. RecordInv /\ BaselineBeforeReference
  BY DEF RecordInv, EvidenceAfterReference, CarrierWithinDuration,
         BaselineBeforeReference
<1> QED BY <1>1, <1>2, <1>3, <1>4, <1>5, <1>6 DEF IInv

LEMMA StepInv == IInv /\ [Next]_vars => IInv'
BY StepType, LockStep, PowerStep, ClockStep, SupplyStep, VerdictStep, RecordStep,
   BaselineKept DEF IInv, RecordInv

THEOREM Invariance == Spec => []IInv
<1> QED BY InitInv, StepInv, PTL DEF Spec

\* No readiness rests on an observation from before the power command,
\* whatever the options, the duration and the interleaving of the threads
\* (Rigol.send, observe, uart, mark_ready).
THEOREM EvidenceSound == Spec => []EvidenceAfterReference
<1>1. IInv => EvidenceAfterReference BY DEF IInv, RecordInv
<1> QED BY <1>1, Invariance, PTL

\* Every capture with a carrier observer has its baseline before its
\* reference (run, lines 622-628): line 433 is unreachable.
THEOREM BaselineSound == Spec => []BaselineBeforeReference
<1>1. IInv => BaselineBeforeReference BY DEF IInv
<1> QED BY <1>1, Invariance, PTL

\* Carrier readiness is within the duration, however late the last read comes
\* (observe, line 434).
THEOREM DurationSound == Spec => []CarrierWithinDuration
<1>1. IInv => CarrierWithinDuration BY DEF IInv, RecordInv
<1> QED BY <1>1, Invariance, PTL

\* No capture whose powered output was lost before the final check ends as
\* ready, complete, timed out or interrupted (lines 676-695).
THEOREM SupplySound == Spec => []SupplyLossIsReported
<1>1. IInv => SupplyLossIsReported BY DEF IInv, SupplyInv, SupplyLossIsReported
<1> QED BY <1>1, Invariance, PTL

\* The output goes on only in the power section: nothing observed yet, the
\* carrier's last sample down (lines 622-628).
THEOREM PowerOnSound == Spec => PowerOnFromDown
<1>1. IInv /\ [Next]_vars => [PowerOnStep]_vars
  <2> SUFFICES ASSUME IInv, [Next]_vars, output = "off", output' = "on"
               PROVE  PowerOnStep
    BY DEF PowerOnStep
  <2> USE DEF IInv, SetupUnchanged, VerdictUnchanged, recordVars, mainVars, supplyVars
  <2>1. CASE WriteOn
    BY <2>1 DEF WriteOn, PowerInv, PowerSection, RecordInv, EvidenceAfterReference,
                PowerOnStep
  <2>2. CASE MainSetup
    BY <2>2 DEF MainSetup, Resolve, Identify, InitialSupply, StartWorker, Started,
                PowerOff, VerifyOff, Dwell, ColdCheck, CheckStop, Requery
  <2>3. CASE MainPower /\ ~WriteOn
    BY <2>3 DEF MainPower, EnterPowerSection, TakeBaseline, Decide, PublishReference,
                VerifyOn, ArmUnknown
  <2>4. CASE MainVerdict
    BY <2>4 DEF MainVerdict, WaitEnds, ReadMissing, ReadFinalUp, Verdict, Handle
  <2>5. CASE MainFinally
    BY <2>5 DEF MainFinally, Finally, Join, FinalSample, FinalRead, FinalReadFails,
                FinalUpCheck, FinalSupply, FinalSupplyTaken, FinalSupplyFails,
                Finish
  <2>6. CASE Interrupt BY <2>6 DEF Interrupt
  <2>7. CASE Others BY <2>7, SupplyFrame
  <2>8. CASE OutputLost BY <2>8 DEF OutputLost
  <2>9. CASE UNCHANGED vars BY <2>9 DEF vars
  <2> QED BY <2>1, <2>2, <2>3, <2>4, <2>5, <2>6, <2>7, <2>8, <2>9
          DEF Next, Main, Others, Terminated
<1> QED BY <1>1, Invariance, PTL DEF Spec, PowerOnFromDown

(***************************************************************************)
(* The end of a capture, and the history of the link.                      *)
(***************************************************************************)
\* From the first power query on the enabled threads run; from the final
\* sample on the carrier's is gone, and a status of "ready" has been revised.
Begun == {"off", "verify_off", "dwell", "cold", "check_stop", "requery", "lock", "arm_unknown"}
             \cup PowerSection \cup AfterPower
Last == {"final_sample", "final_up_check", "final_supply", "finish", "done"}

EndInv ==
    /\ "carrier" \in Enabled /\ (main \in Begun \/ status = "ready") =>
           worker["carrier"] # "unborn"
    /\ status = "ready" => missing = {}
    /\ main \in Last => worker["carrier"] \in {"unborn", "done"}
    /\ status = "ready" /\ worker["carrier"] # "unborn"
           /\ main \in {"final_supply", "finish", "done"} => lastState = "up"

\* The last link-up is not older than readiness, and a link that is down after
\* it has been counted as dropped; between the transition's record and the
\* assignment of last_state the sample is the newer of the two.
HistoryInv ==
    /\ lastUp <= now
    /\ ready["carrier"] # NoTime =>
           /\ ready["carrier"] <= lastUp
           /\ (IF worker["carrier"] = "commit" THEN sample ELSE lastState) = "down" => dropped

LEMMA EndMain ==
  ASSUME IInv, EndInv, Main \/ Interrupt
  PROVE  EndInv'
<1> USE DEF IInv, EndInv, Begun, Last, SetupUnchanged, VerdictUnchanged, Goto, Raise,
            recordVars, mainVars, carrierVars, VerdictInv, BeforePower, PowerSection,
            AfterPower, TryBlock, Concluding
<1>1. CASE MainSetup
  <2>1. worker["carrier"] # "unborn" => worker'["carrier"] # "unborn"
      BY <1>1, MainFrame DEF Main
  <2> QED BY <1>1, <2>1, OptionsAssumption
          DEF MainSetup, Resolve, Identify, InitialSupply, StartWorker, Started,
              PowerOff, VerifyOff, Dwell, ColdCheck, CheckStop, Requery
<1>2. CASE MainPower
  BY <1>2 DEF MainPower, EnterPowerSection, TakeBaseline, Decide, WriteOn,
              PublishReference, VerifyOn, ArmUnknown
<1>3. CASE MainVerdict
  BY <1>3 DEF MainVerdict, WaitEnds, ReadMissing, ReadFinalUp, Verdict, Handle
<1>4. CASE Finally \/ FinalSupply \/ Finish
  BY <1>4 DEF Finally, FinalSupply, FinalSupplyTaken, FinalSupplyFails, Finish
<1>5. CASE Join BY <1>5 DEF Join, Workers
<1>6. CASE FinalSample BY <1>6 DEF FinalSample, FinalRead, FinalReadFails
<1>7. CASE FinalUpCheck BY <1>7 DEF FinalUpCheck
<1>8. CASE Interrupt BY <1>8 DEF Interrupt
<1> QED BY <1>1, <1>2, <1>3, <1>4, <1>5, <1>6, <1>7, <1>8 DEF Main, MainFinally

\* What the steps of the other threads leave of it.
LEMMA EndOthers ==
  ASSUME TypeOK, Others
  PROVE  /\ worker["carrier"] = "unborn" => worker'["carrier"] = "unborn"
         /\ worker["carrier"] # "unborn" => worker'["carrier"] # "unborn"
         /\ worker["carrier"] = "done" => worker'["carrier"] = "done"
         /\ worker["carrier"] \in {"unborn", "done"} => UNCHANGED lastState
<1> USE DEF Step, WorkerUnchanged, ProbeUnchanged, TypeOK, Workers
<1>1. CASE Carrier
  BY <1>1 DEF Carrier, CarrierEnters, CarrierReads, CarrierReadFails, CarrierCommits
<1>2. CASE Serial BY <1>2 DEF Serial, SerialReads, SerialReadFails, SerialRecords
<1>3. ASSUME NEW w \in Network, Probe(w)
      PROVE  worker'["carrier"] = worker["carrier"] /\ UNCHANGED lastState
  BY <1>3 DEF Probe, ProbeBegins, ProbeEnds, ProbeMarks, Network
<1>4. CASE CheckStopAgain BY <1>4 DEF CheckStopAgain
<1>5. ASSUME NEW w \in Workers, Leave(w)
      PROVE  /\ UNCHANGED lastState /\ worker[w] = "loop"
             /\ worker' = [worker EXCEPT ![w] = "done"]
  BY <1>5 DEF Leave
<1>6. ASSUME NEW w \in Failing, RecordFailure(w) \/ SetStop(w)
      PROVE  /\ UNCHANGED lastState /\ worker[w] \in {"fail", "stopping"}
             /\ \E to \in {"stopping", "done"} : worker' = [worker EXCEPT ![w] = to]
  BY <1>6 DEF RecordFailure, SetStop
<1>7. CASE Tick BY <1>7 DEF Tick, carrierVars
<1> QED BY <1>1, <1>2, <1>3, <1>4, <1>5, <1>6, <1>7 DEF Others, Failing

LEMMA EndStep == IInv /\ EndInv /\ [Next]_vars => EndInv'
<1> SUFFICES ASSUME IInv, EndInv, [Next]_vars PROVE EndInv'
  OBVIOUS
<1>1. CASE Main \/ Interrupt BY <1>1, EndMain
<1>2. CASE Others
  BY <1>2, EndOthers, SupplyFrame DEF IInv, EndInv, Begun, Last
<1>3. CASE OutputLost BY <1>3 DEF OutputLost, mainVars, carrierVars, EndInv
<1>4. CASE UNCHANGED vars BY <1>4 DEF vars, mainVars, carrierVars, EndInv
<1> QED BY <1>1, <1>2, <1>3, <1>4 DEF Next, Others, Terminated

\* A recorded sample keeps the history, whichever way it goes.
LEMMA HistoryRecord ==
  ASSUME IInv, HistoryInv, worker["carrier"] # "commit",
         NEW v \in {"down", "up"}, NEW b \in Times, RecordCarrier(v, b)
  PROVE  /\ lastUp' <= now
         /\ ready'["carrier"] # NoTime =>
                ready'["carrier"] <= lastUp' /\ (v = "down" => dropped')
<1>1. ready["carrier"] # NoTime => reference # NoTime
  BY DEF IInv, RecordInv, EvidenceAfterReference, Workers
<1>2. ready["carrier"] \in Times /\ lastUp \in Times /\ now \in Nat /\ "carrier" \in Workers
  BY DEF IInv, TypeOK, Workers
<1>3. CASE v = "up"
  BY <1>1, <1>2, <1>3 DEF RecordCarrier, MarkReady, HistoryInv, IInv, TypeOK, Times,
                          NoTime
<1>4. CASE v = "down"
  BY <1>1, <1>2, <1>4 DEF RecordCarrier, HistoryInv, IInv, TypeOK, Times, NoTime
<1> QED BY <1>3, <1>4

LEMMA HistoryStep == IInv /\ EndInv /\ HistoryInv /\ [Next]_vars => HistoryInv'
<1> SUFFICES ASSUME IInv, EndInv, HistoryInv, [Next]_vars PROVE HistoryInv'
  OBVIOUS
<1> USE DEF HistoryInv
<1>1. CASE TakeBaseline
  <2>1. ready["carrier"] = NoTime
    BY <1>1 DEF TakeBaseline, IInv, PowerInv, PowerSection, RecordInv,
                EvidenceAfterReference, Workers
  <2> QED BY <1>1, <2>1 DEF TakeBaseline, recordVars
<1>2. CASE FinalSample
  <2>1. worker["carrier"] # "commit" /\ UNCHANGED <<worker, now, sample>> /\ now \in Times
    BY <1>2 DEF FinalSample, FinalRead, FinalReadFails, EndInv, Last, IInv, TypeOK,
                Times
  <2>2. CASE \E v \in {"down", "up"} : RecordCarrier(v, now) /\ lastState' = v
    BY <2>1, <2>2, HistoryRecord
  <2>3. CASE UNCHANGED <<ready, lastState, lastUp, dropped>>
    BY <2>1, <2>3
  <2> QED BY <1>2, <2>2, <2>3 DEF FinalSample, FinalRead, FinalReadFails
<1>3. CASE (Main \/ Interrupt) /\ ~TakeBaseline /\ ~FinalSample
  <2>1. UNCHANGED <<ready, sample, lastState, lastUp, dropped>>
    BY <1>3 DEF Main, Interrupt, MainSetup, Resolve, Identify, InitialSupply,
                StartWorker,
                Started, PowerOff, VerifyOff, Dwell, ColdCheck, CheckStop, Requery,
                MainPower, EnterPowerSection, Decide, WriteOn, PublishReference,
                VerifyOn,
                ArmUnknown, MainVerdict, WaitEnds, ReadMissing, ReadFinalUp, Verdict,
                Handle, MainFinally, Finally, Join, FinalUpCheck, FinalSupply,
                FinalSupplyTaken, FinalSupplyFails, Finish,
                SetupUnchanged, VerdictUnchanged, recordVars, carrierVars
  <2> QED BY <1>3, <2>1, MainFrame DEF IInv
<1>4. CASE CarrierReads
  <2>1. /\ worker["carrier"] = "read" /\ worker'["carrier"] = "commit"
        /\ UNCHANGED now /\ begun["carrier"] \in Times
    BY <1>4 DEF CarrierReads, Step, WorkerUnchanged, IInv, TypeOK, Workers
  <2>2. PICK v \in {"down", "up"} : sample' = v /\ RecordCarrier(v, begun["carrier"])
    BY <1>4 DEF CarrierReads
  <2> QED BY <2>1, <2>2, HistoryRecord
<1>5. CASE CarrierCommits
  BY <1>5 DEF CarrierCommits, Step, WorkerUnchanged, IInv, TypeOK, Workers
<1>6. CASE Others /\ ~CarrierReads /\ ~CarrierCommits
  <2>1. ready'["carrier"] = ready["carrier"]
    <3>a. ASSUME NEW w \in Workers \ {"carrier"}, NEW t, NEW b, MarkReady(w, t, b)
          PROVE  ready'["carrier"] = ready["carrier"]
      BY <3>a DEF MarkReady, IInv, TypeOK, Workers
    <3>1. CASE SerialRecords
      <4> DEFINE stamp == begun["serial"]
                 first == IF chunk = "whole" THEN stamp ELSE headAt
      <4>1. MarkReady("serial", stamp, first) \/ UNCHANGED ready
        BY <3>1 DEF SerialRecords
      <4> QED BY <3>a, <4>1 DEF Workers
    <3>2. ASSUME NEW w \in Network, ProbeMarks(w)
          PROVE  ready'["carrier"] = ready["carrier"]
      BY <3>2, <3>a DEF ProbeMarks, Network, Workers
    <3>3. CASE ~SerialRecords /\ ~\E w \in Network : ProbeMarks(w)
      BY <1>6, <3>3 DEF Others, Carrier, CarrierEnters, CarrierReadFails, Serial,
                        SerialReads,
                SerialReadFails, Probe, ProbeBegins, ProbeEnds, CheckStopAgain, Leave,
                RecordFailure, SetStop, Tick, recordVars
    <3> QED BY <3>1, <3>2, <3>3
  <2>4. UNCHANGED <<sample, lastState, lastUp, dropped>>
    BY <1>6 DEF Others, Carrier, CarrierEnters, CarrierReadFails, Serial, SerialReads,
                SerialReadFails, SerialRecords, Probe, ProbeBegins, ProbeEnds,
                ProbeMarks,
                CheckStopAgain, Leave, RecordFailure, SetStop, Tick, ProbeUnchanged,
                carrierVars
  <2>2. worker'["carrier"] = "commit" <=> worker["carrier"] = "commit"
    BY <1>6 DEF Others, Carrier, CarrierEnters, CarrierReadFails, Serial, SerialReads,
                SerialReadFails, SerialRecords, Probe, ProbeBegins, ProbeEnds,
                ProbeMarks,
                CheckStopAgain, Leave, RecordFailure, SetStop, Tick, Step, Network,
                Failing, Workers, IInv, TypeOK
  <2>3. now' \in Nat /\ now <= now'
    BY <1>6 DEF Others, Carrier, CarrierEnters, CarrierReadFails, Serial, SerialReads,
                SerialReadFails, SerialRecords, Probe, ProbeBegins, ProbeEnds,
                ProbeMarks,
                CheckStopAgain, Leave, RecordFailure, SetStop, Tick, WorkerUnchanged,
                ProbeUnchanged, IInv, TypeOK
  <2> QED BY <2>1, <2>2, <2>3, <2>4 DEF IInv, TypeOK, Times, NoTime
<1>7. CASE OutputLost \/ UNCHANGED vars
  BY <1>7 DEF OutputLost, vars, recordVars, carrierVars
<1> QED BY <1>1, <1>2, <1>3, <1>4, <1>5, <1>6, <1>7 DEF Next, Others, Terminated

LEMMA EndInvariance == Spec => [](IInv /\ EndInv /\ HistoryInv)
<1>1. Init => IInv /\ EndInv /\ HistoryInv
  BY InitInv DEF Init, EndInv, HistoryInv, Begun, Last, PowerSection, AfterPower,
                 Workers,
                 NoTime
<1> QED BY <1>1, StepInv, EndStep, HistoryStep, PTL DEF Spec

\* A capture that ends ready has everything it waited for, and its link was
\* still up at the final sample (lines 645-657 and 669-675).
THEOREM ReadySound == Spec => []ReadyIsComplete
<1>1. IInv /\ EndInv => ReadyIsComplete
  BY OptionsAssumption DEF IInv, VerdictInv, EndInv, ReadyIsComplete
<1> QED BY <1>1, EndInvariance, PTL

\* No reset of the link after its readiness is lost (observe, lines 425-438).
THEOREM HistorySound == Spec => []LinkHistoryIsVisible
<1>1. IInv /\ HistoryInv => LinkHistoryIsVisible
  BY DEF IInv, LockInv, HistoryInv, LinkHistoryIsVisible
<1> QED BY <1>1, EndInvariance, PTL

\* The facts about the threads that the runs check hold for all options.
THEOREM ThreadsSound == Spec => []ThreadsInv
<1>1. IInv => ThreadsInv BY DEF IInv, ThreadsInv
<1> QED BY <1>1, Invariance, PTL

(***************************************************************************)
(* The record after the final sample.                                      *)
(***************************************************************************)
Joined == {"final_sample", "final_up_check", "final_supply", "finish", "done"}

\* From the join on stop is set; behind it every worker has ended, or is
\* http_worker, which can no longer get past its second test of stop.
JoinInv ==
    /\ main \in {"join"} \cup Joined => stop
    /\ main \in Joined => \A w \in Workers :
           \/ worker[w] \in {"unborn", "done"}
           \/ w = "http" /\ worker[w] \in {"probe", "check", "loop"}

LEMMA JoinMain ==
  ASSUME TypeOK, JoinInv, Main \/ Interrupt
  PROVE  JoinInv'
<1> USE DEF JoinInv, Joined, SetupUnchanged, VerdictUnchanged, Goto, Raise,
            BeforePower, PowerSection, AfterPower, TryBlock
<1>1. CASE MainSetup
  BY <1>1, OptionsAssumption
  DEF MainSetup, Resolve, Identify, InitialSupply, StartWorker, Started, PowerOff,
      VerifyOff, Dwell, ColdCheck, CheckStop, Requery
<1>2. CASE MainPower
  BY <1>2 DEF MainPower, EnterPowerSection, TakeBaseline, Decide, WriteOn,
              PublishReference, VerifyOn, ArmUnknown
<1>3. CASE MainVerdict
  BY <1>3 DEF MainVerdict, WaitEnds, ReadMissing, ReadFinalUp, Verdict, Handle
<1>4. CASE Finally BY <1>4 DEF Finally
<1>5. CASE Join BY <1>5 DEF Join
<1>6. CASE FinalSample \/ FinalUpCheck \/ FinalSupply \/ Finish
  BY <1>6 DEF FinalSample, FinalRead, FinalReadFails, FinalUpCheck, FinalSupply,
              FinalSupplyTaken, FinalSupplyFails, Finish
<1>7. CASE Interrupt BY <1>7 DEF Interrupt
<1> QED BY <1>1, <1>2, <1>3, <1>4, <1>5, <1>6, <1>7 DEF Main, MainFinally

\* Once stop is set no worker begins anything, and http_worker leaves.
LEMMA JoinOthers ==
  ASSUME TypeOK, JoinInv, Others
  PROVE  JoinInv'
<1> USE DEF JoinInv, Joined, Step, WorkerUnchanged, ProbeUnchanged, TypeOK, Workers
<1>1. CASE Carrier
  BY <1>1 DEF Carrier, CarrierEnters, CarrierReads, CarrierReadFails, CarrierCommits
<1>2. CASE Serial BY <1>2 DEF Serial, SerialReads, SerialReadFails, SerialRecords
<1>3. ASSUME NEW w \in Network, Probe(w) PROVE JoinInv'
  BY <1>3 DEF Probe, ProbeBegins, ProbeEnds, ProbeMarks, Network
<1>4. CASE CheckStopAgain BY <1>4 DEF CheckStopAgain
<1>5. ASSUME NEW w \in Workers, Leave(w) PROVE JoinInv'
  BY <1>5 DEF Leave
<1>6. ASSUME NEW w \in Failing, RecordFailure(w) \/ SetStop(w) PROVE JoinInv'
  BY <1>6 DEF RecordFailure, SetStop, Failing
<1>7. CASE Tick BY <1>7 DEF Tick
<1> QED BY <1>1, <1>2, <1>3, <1>4, <1>5, <1>6, <1>7 DEF Others

LEMMA JoinStep == TypeOK /\ JoinInv /\ [Next]_vars => JoinInv'
<1> SUFFICES ASSUME TypeOK, JoinInv, [Next]_vars PROVE JoinInv'
  OBVIOUS
<1>1. CASE Main \/ Interrupt BY <1>1, JoinMain
<1>2. CASE Others BY <1>2, JoinOthers
<1>3. CASE OutputLost \/ UNCHANGED vars BY <1>3 DEF OutputLost, vars, JoinInv
<1> QED BY <1>1, <1>2, <1>3 DEF Next, Others, Terminated

\* Behind the join only run's final sample writes the record.
LEMMA FrozenByJoin == TypeOK /\ JoinInv /\ [Next]_vars => [FrozenStep]_vars
<1> SUFFICES ASSUME TypeOK, JoinInv, [Next]_vars,
                    main \in {"final_supply", "finish", "done"}
             PROVE  UNCHANGED <<reference, ready, evidence>>
  BY DEF FrozenStep
<1> USE DEF SetupUnchanged, VerdictUnchanged, recordVars
<1>1. CASE Main
  BY <1>1 DEF Main, MainSetup, Resolve, Identify, InitialSupply, StartWorker, Started,
              PowerOff, VerifyOff, Dwell, ColdCheck, CheckStop, Requery, MainPower,
              EnterPowerSection, TakeBaseline, Decide, WriteOn, PublishReference,
              VerifyOn, ArmUnknown, MainVerdict, WaitEnds, ReadMissing, ReadFinalUp,
              Verdict, Handle, MainFinally, Finally, Join, FinalSample, FinalRead,
              FinalReadFails, FinalUpCheck,
              FinalSupply, FinalSupplyTaken, FinalSupplyFails, Finish
<1>2. CASE Interrupt
  BY <1>2 DEF Interrupt, TryBlock, BeforePower, PowerSection, AfterPower
<1>3. CASE Others
  <2>1. /\ worker["carrier"] # "read" /\ worker["serial"] # "record"
        /\ \A w \in Network : worker[w] # "mark"
    BY DEF JoinInv, Joined, Workers, Network
  <2> QED BY <1>3, <2>1
          DEF Others, Carrier, CarrierEnters, CarrierReads, CarrierReadFails,
              CarrierCommits, Serial, SerialReads, SerialReadFails, SerialRecords,
              Probe, ProbeBegins, ProbeEnds, ProbeMarks, CheckStopAgain, Leave,
              RecordFailure, SetStop, Tick, Step, WorkerUnchanged, ProbeUnchanged
<1>4. CASE OutputLost \/ UNCHANGED vars BY <1>4 DEF OutputLost, vars
<1> QED BY <1>1, <1>2, <1>3, <1>4 DEF Next, Others, Terminated

\* From the final supply check on the recorded readiness does not change
\* (lines 660-700), although http_worker may outlast the join.
THEOREM FrozenSound == Spec => RecordFrozen
<1>1. Init => JoinInv
  BY DEF Init, JoinInv, Joined
<1>2. Spec => []TypeOK /\ []JoinInv
  BY <1>1, InitType, StepType, JoinStep, PTL DEF Spec
<1> QED BY <1>2, FrozenByJoin, PTL DEF Spec, RecordFrozen

(***************************************************************************)
(* The capture implements its record.                                      *)
(***************************************************************************)
LEMMA RecordInit == Init => Record!Init
BY DEF Init, Record!Init, NoTime, Record!NoTime

\* Steps of run other than the publication of the reference, the last sample
\* and the end leave the record as it is.
LEMMA MainKeepsRecord ==
  ASSUME IInv, Main \/ Interrupt,
         ~PublishReference, ~ArmUnknown, ~FinalSample, ~Finish
  PROVE  UNCHANGED <<reference, ready, evidence>> /\ main # "done" /\ main' # "done"
<1> USE DEF SetupUnchanged, VerdictUnchanged, Goto, Raise, recordVars
<1>1. CASE MainSetup
  BY <1>1, OptionsAssumption
  DEF MainSetup, Resolve, Identify, InitialSupply, StartWorker, Started,
      PowerOff, VerifyOff, Dwell, ColdCheck, CheckStop, Requery
<1>2. CASE MainPower
  BY <1>2 DEF MainPower, EnterPowerSection, TakeBaseline, Decide, WriteOn, VerifyOn
<1>3. CASE MainVerdict
  BY <1>3 DEF MainVerdict, WaitEnds, ReadMissing, ReadFinalUp, Verdict, Handle
<1>4. CASE MainFinally
  BY <1>4 DEF MainFinally, Finally, Join, FinalUpCheck, FinalSupply,
              FinalSupplyTaken, FinalSupplyFails
<1>5. CASE Interrupt
  BY <1>5 DEF Interrupt, TryBlock, BeforePower, PowerSection, AfterPower
<1> QED BY <1>1, <1>2, <1>3, <1>4, <1>5 DEF Main

\* A kind that becomes ready is an Observe step of the record.
LEMMA ObserveStep ==
  ASSUME IInv, IInv', reference' = reference, main # "done", main' # "done",
         NEW w \in Workers, reference # NoTime, ready[w] = NoTime,
         NEW t \in Nat, NEW b \in Times,
         ready' = [ready EXCEPT ![w] = t], evidence' = [evidence EXCEPT ![w] = b]
  PROVE  Record!Next
<1>1. ready \in [Workers -> Times] /\ evidence \in [Workers -> Times]
  BY DEF IInv, TypeOK
<1>2. ready'[w] = t /\ evidence'[w] = b
  BY <1>1
<1>3. reference <= b /\ b <= t
  BY <1>2 DEF IInv, RecordInv, EvidenceAfterReference, NoTime
<1>4. Record!Observe(w)
  BY <1>2, <1>3 DEF Record!Observe, NoTime, Record!NoTime
<1> QED BY <1>4 DEF Record!Next

\* Every step is a step of the record, or leaves it alone.
LEMMA RecordSimulation ==
  ASSUME IInv, IInv', [Next]_vars
  PROVE  [Record!Next]_(Record!vars)
<1>1. CASE PublishReference \/ ArmUnknown
  <2>1. reference = NoTime /\ reference' \in Nat /\ main # "done" /\ main' # "done"
        /\ UNCHANGED <<ready, evidence>>
    BY <1>1 DEF PublishReference, ArmUnknown, Arm, Goto, IInv, PowerInv, PowerSection,
                TypeOK, Times, NoTime
  <2> QED BY <2>1 DEF Record!Next, Record!Reference, NoTime, Record!NoTime
<1>2. CASE FinalSample
  <2>1. /\ reference' = reference /\ main # "done" /\ main' # "done"
        /\ now \in Nat /\ "carrier" \in Workers
    BY <1>2 DEF FinalSample, FinalRead, FinalReadFails, Goto, IInv, TypeOK, Workers
  <2>2. \/ UNCHANGED <<ready, evidence>>
        \/ reference # NoTime /\ MarkReady("carrier", now, now)
    BY <1>2 DEF FinalSample, FinalRead, FinalReadFails, RecordCarrier
  <2>3. CASE UNCHANGED <<ready, evidence>>
    BY <2>1, <2>3 DEF Record!vars
  <2>4. CASE MarkReady("carrier", now, now) /\ ~UNCHANGED <<ready, evidence>>
    <3>1. /\ reference # NoTime /\ ready["carrier"] = NoTime
          /\ ready' = [ready EXCEPT !["carrier"] = now]
          /\ evidence' = [evidence EXCEPT !["carrier"] = now]
      BY <2>4 DEF MarkReady
    <3> QED BY <2>1, <3>1, ObserveStep DEF Times
  <2> QED BY <2>2, <2>3, <2>4
<1>3. CASE Finish
  <2>1. UNCHANGED <<reference, ready, evidence>> /\ main = "finish" /\ main' = "done"
        /\ status' = status
    BY <1>3 DEF Finish, Goto, recordVars, mainVars
  <2>2. status \in Statuses
    BY DEF IInv, TypeOK
  <2>3. status = "ready" => reference # NoTime /\ \A w \in Wanted : ready[w] # NoTime
    <3>1. Wanted \subseteq Workers BY OptionsAssumption DEF Wanted
    <3> QED BY <3>1 DEF IInv, VerdictInv, RecordInv, EvidenceAfterReference
  <2> QED BY <2>1, <2>2, <2>3 DEF Record!Next, Record!Conclude, NoTime, Record!NoTime
<1>4. CASE (Main \/ Interrupt) /\ ~PublishReference /\ ~ArmUnknown /\ ~FinalSample
           /\ ~Finish
  BY <1>4, MainKeepsRecord DEF Record!vars
<1>5. CASE Others
  <2>1. main' = main /\ status' = status
    BY <1>5, SupplyFrame
  <2> QED BY <1>5, <2>1, ReadyGrows, ObserveStep DEF IInv, Record!vars
<1>6. CASE OutputLost
  BY <1>6 DEF OutputLost, recordVars, mainVars, Record!vars
<1>7. CASE UNCHANGED vars
  BY <1>7 DEF vars, recordVars, mainVars, Record!vars
<1> QED BY <1>1, <1>2, <1>3, <1>4, <1>5, <1>6, <1>7 DEF Next, Others, Terminated

\* The capture implements the record its readers rely on: one reference, each
\* kind at most once on evidence from after it, then one verdict, and "ready"
\* only with everything wanted.
THEOREM RecordRefinement == Spec => ImplementsRecord
<1>1. IInv /\ IInv' /\ [Next]_vars => [Record!Next]_(Record!vars)
  BY RecordSimulation
<1> QED BY <1>1, RecordInit, Invariance, PTL DEF Spec, Record!Spec, ImplementsRecord
=============================================================================
