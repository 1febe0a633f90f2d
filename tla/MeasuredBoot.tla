---------------------------- MODULE MeasuredBoot ----------------------------
(***************************************************************************)
(* One capture and its summary: the capture of BootCapture, with the       *)
(* timeline it writes and the statistics its carrier observer keeps, read  *)
(* by summarize-boot.py when the capture is over.  Every step is a step of *)
(* BootCapture; the variables added here are never read by it.             *)
(*                                                                         *)
(* The clock counts nanoseconds, so the power command is stamped after the *)
(* baseline, not in the same tick.  Link changes and UART text of the time *)
(* before there is a reference are left out of the timeline: no window     *)
(* that a summary reads reaches back to them.                              *)
(***************************************************************************)
EXTENDS BootCapture, Sequences

CONSTANTS
    MaxSamples,  \* Bound: carrier_worker's samples after the reference
    MaxChunks    \* Bound: UART chunks recorded after the reference

ASSUME BoundsAssumption == MaxSamples \in Nat /\ MaxChunks \in Nat

VARIABLES
    timeline,    \* timeline.jsonl
    sampling,    \* CarrierObserver's statistics
    supplyFault  \* does metadata['final_supply'] show an alarm or no output?

Summary == INSTANCE BootReport

measuredVars == <<timeline, sampling, supplyFault>>

MeasuredInit ==
    /\ Init
    /\ timeline = <<>>
    /\ sampling = [count |-> 0, gap |-> 0, read |-> 0, since |-> NoTime, last |-> NoTime]
    /\ supplyFault = FALSE

Log(records) == timeline' = timeline \o records

If(condition, record) == IF condition THEN <<record>> ELSE <<>>

\* Capture.event's record of event e at time t.
At(e, t) == [event |-> e, t |-> t]

\* Capture.arm, and the statistics that the first sample after it starts anew.
Arms ==
    /\ PublishReference \/ ArmUnknown
    /\ Log(<<[event |-> "reference_started", t |-> reference',
              label |-> IF main = "arm" THEN Summary!Power ELSE "capture_start"]>>)
    /\ sampling' = [sampling EXCEPT !.count = 0, !.gap = 0, !.read = 0, !.since = reference']
    /\ UNCHANGED supplyFault

\* Mutant of Sampled: a read is stamped when the previous one ended.
SampledEarly(b) ==
    sampling' = IF reference = NoTime THEN [sampling EXCEPT !.last = now]
                ELSE [count |-> sampling.count + 1, gap |-> sampling.gap,
                      read |-> now - b, since |-> now, last |-> now]

\* observe's statistics for a read begun at b, whose completion is now.
Sampled(b) ==
    LET Larger(x, y) == IF x > y THEN x ELSE y IN
    sampling' = IF reference = NoTime THEN [sampling EXCEPT !.last = now]
                ELSE [count |-> sampling.count + 1,
                      gap   |-> Larger(sampling.gap, now - sampling.since),
                      read  |-> Larger(sampling.read, now - b),
                      since |-> now, last |-> now]

Transition(v) ==
    If(v # lastState, [event |-> "carrier_transition", t |-> now, carrier |-> v])
CarrierReady == If(ready'["carrier"] # ready["carrier"], At("carrier_ready", now))

BaselineStep ==
    /\ TakeBaseline
    /\ IF baseline' = baseline THEN UNCHANGED <<timeline, sampling>>
       ELSE Log(Transition("down") \o <<At("carrier_down_baseline", now)>>) /\ Sampled(now)
    /\ UNCHANGED supplyFault

SampleStep ==
    /\ CarrierReads
    /\ IF reference = NoTime THEN UNCHANGED timeline
       ELSE Log(Transition(sample') \o CarrierReady)
    /\ Sampled(begun["carrier"])
    /\ UNCHANGED supplyFault

Finished(l, t) ==
    <<[event |-> "carrier_monitor_finished", t |-> now, carrier |-> l, last |-> t]>>

FinalSampleStep ==
    /\ FinalSample
    /\ \/ /\ \E v \in {"down", "up"} : FinalRead(v)
          /\ Sampled(now)
          /\ Log((IF reference = NoTime THEN <<>> ELSE Transition(lastState') \o CarrierReady)
                 \o Finished(lastState', now))
       \/ /\ FinalReadFails
          /\ Log(<<At("error", now)>> \o Finished(lastState, sampling.last))
          /\ UNCHANGED sampling
    /\ UNCHANGED supplyFault

SshStep ==
    /\ ProbeMarks("net")
    /\ Log(If(ready'["net"] # ready["net"], At("ssh_banner_ready", now)))
    /\ UNCHANGED <<sampling, supplyFault>>

\* What the chunk that serial_worker read may hold.  The worker may have waited
\* for the lock while a whole boot's text was buffered.
Texts == CASE chunk = "noise" -> {<<"noise">>, <<"banner">>, <<"banner", "banner">>}
           [] chunk = "head"  -> {<<"head">>, <<"banner", "head">>}
           [] chunk = "tail"  -> {<<"tail">>, <<"tail", "banner">>}
           [] chunk = "whole" -> {<<"head", "tail">>}

Chunks == Summary!Places(timeline, "uart_received", NoTime, NoTime)
UartBytes == IF Chunks = {} THEN 0
             ELSE LET c == timeline[Summary!Max(Chunks)] IN c.offset + Len(c.text)

ChunkStep ==
    /\ SerialRecords
    /\ \E text \in Texts :
          Log(If(reference # NoTime, [event |-> "uart_received", t |-> begun["serial"],
                                      offset |-> UartBytes, text |-> text]))
    /\ UNCHANGED <<sampling, supplyFault>>

FailureStep ==
    /\ \/ \E w \in Failing : RecordFailure(w)
       \/ Handle
    /\ Log(If(main = "except" /\ main' # main => raised # "interrupt", At("error", now)))
    /\ UNCHANGED <<sampling, supplyFault>>

FinalSupplyStep ==
    /\ FinalSupply
    /\ \/ /\ FinalSupplyTaken
          /\ Log(If(~SupplyHealthy, At("error", now)))
          /\ supplyFault' = (alarm \/ output = "off")
       \/ FinalSupplyFails /\ Log(<<At("error", now)>>) /\ UNCHANGED supplyFault
    /\ UNCHANGED sampling

\* Steps that write nothing a summary reads.
Silent ==
    /\ \/ MainSetup \/ EnterPowerSection \/ WriteOn \/ VerifyOn
       \/ Decide /\ now > baseline
       \/ WaitEnds \/ ReadMissing \/ ReadFinalUp \/ Verdict \/ Interrupt
       \/ Finally \/ Join \/ FinalUpCheck \/ Finish
       \/ CarrierEnters /\ sampling.count < MaxSamples
       \/ CarrierReadFails \/ CarrierCommits
       \/ SerialReads /\ Cardinality(Chunks) < MaxChunks
       \/ SerialReadFails
       \/ \E w \in Network : ProbeBegins(w) \/ ProbeEnds(w)
       \/ ProbeMarks("http") \/ CheckStopAgain
       \/ \E w \in Workers : Leave(w)
       \/ \E w \in Failing : SetStop(w)
       \/ Tick \/ OutputLost \/ Terminated
    /\ UNCHANGED measuredVars

MeasuredNext ==
    \/ Arms \/ BaselineStep \/ SampleStep \/ FinalSampleStep \/ SshStep \/ ChunkStep
    \/ FailureStep \/ FinalSupplyStep \/ Silent

MeasuredSpec == MeasuredInit /\ [][MeasuredNext]_<<vars, measuredVars>>

-----------------------------------------------------------------------------
\* metadata.json, as far as a summary reads it.
Metadata ==
    [status      |-> status,
     reference   |-> reference,
     label       |-> IF sentAt # NoTime THEN Summary!Power ELSE "capture_start",
     network     |-> IF "net" \in Enabled THEN "ssh_banner" ELSE "none",
     readiness   |-> [carrier |-> ready["carrier"], ssh_banner |-> ready["net"]],
     supplyFault |-> supplyFault,
     observed    |-> "carrier" \in Enabled,
     carrier     |-> [present |-> worker["carrier"] # "unborn", baseline |-> baseline,
                     last |-> sampling.last, state |-> lastState,
                     count |-> sampling.count, gap |-> sampling.gap,
                     read |-> sampling.read]]

Report == Summary!SummarizeRun(Metadata, timeline)
Published == main = "done" /\ Summary!Eligible(Report)

\* When the text of a second boot arrived, if it did.
RebootSeen ==
    LET text == Summary!Pieces(timeline,
                               Summary!Places(timeline, "uart_received", reference, NoTime))
    IN  {Summary!Stamp(timeline, q) : q \in Summary!Restarts(timeline, text)}

\* A capture under supply control that ended with a verdict, without an error and
\* without a second boot is never refused: its own timeline and statistics satisfy
\* every cross-check of the summary.
CleanCaptureIsEligible ==
    /\ main = "done" /\ HasSupply
    /\ status \in Summary!GoodStatuses /\ errors = {} /\ RebootSeen = {}
    => Summary!Eligible(Report)

\* "excludes instrument failures" (docs/validation.md:194)
PublishedIsSound ==
    Published => errors = {} /\ ~lost /\ status \in Summary!GoodStatuses

\* "A second banner prevents accidentally combining OS readiness from one boot
\* with SSH from another" (summarize-boot.py:29): such a capture is not
\* published, and nothing it reports was observed after the second boot's text
\* arrived.
FirstBootOnly ==
    main = "done" /\ RebootSeen # {} =>
        /\ ~Published
        /\ \A o \in DOMAIN Report.observations, t \in RebootSeen :
              Report.observations[o] <= t

\* The summary derives from the timeline what the collector derived as it went.
SummaryAgrees ==
    Published =>
        /\ Report.observations.ssh = ready["net"]
        /\ Report.observations.os = IF HasMarker THEN ready["serial"] ELSE Report.observations.os
        /\ "carrier" \in Enabled =>
              /\ Report.observations.carrier = ready["carrier"]
              /\ Report.link.dropped = dropped
              /\ Report.link.lastUp = lastUp
              /\ Report.link.stable =
                    (ready["carrier"] # NoTime /\ lastState = "up" /\ ~dropped)
=============================================================================
