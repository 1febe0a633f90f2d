---------------------------- MODULE BootCapture ----------------------------
(***************************************************************************)
(* scripts/measure-boot.py: one capture of a board's boot, on one host     *)
(* clock.  The main thread (run) drives a bench supply over SCPI, samples  *)
(* the Ethernet carrier while the output is off, sends the power-on        *)
(* command, whose send time is the reference of every later measurement,   *)
(* waits, and then decides the capture's status.  Up to four daemon        *)
(* threads observe the board meanwhile and record what they see in the     *)
(* shared Capture object:                                                  *)
(*                                                                         *)
(*   carrier   carrier_worker   polls the host end of the Ethernet link    *)
(*   serial    serial_worker    reads the debug UART                       *)
(*   net       tcp_worker       polls a TCP port or an SSH banner          *)
(*   http      http_worker      polls an HTTP endpoint                     *)
(*                                                                         *)
(* Capture.lock is the variable lock: its holder, or "none".  A section of *)
(* the code that runs under the lock is one step, unless something reads   *)
(* the variables it writes without the lock: the carrier sample is         *)
(* published in two steps, because run tests readiness and the last sample *)
(* without locking.  Code that runs without the lock is split wherever     *)
(* another thread can see the difference.                                  *)
(***************************************************************************)
EXTENDS Integers, FiniteSets

CONSTANTS
    Enabled,    \* The workers the command line asks for
    Mode,       \* "none": no supply; "on": --power-on; "cycle": --power-cycle
    HasMarker,  \* --uart-marker was given
    Duration,   \* --duration, in clock ticks
    SetupTime,  \* Bound: the clock stops here until there is a reference
    Slack       \* Bound: ticks the clock runs past the end of the duration

Workers == {"carrier", "serial", "net", "http"}

\* The consistency that arguments() demands of the options (lines 499-536).
ASSUME OptionsAssumption ==
    /\ Enabled \subseteq Workers /\ Enabled # {}
    /\ Mode \in {"none", "on", "cycle"}
    /\ HasMarker \in BOOLEAN
    /\ "carrier" \in Enabled => Mode # "none"
    /\ HasMarker => "serial" \in Enabled
    /\ Duration \in Nat \ {0}
    /\ SetupTime \in Nat /\ Slack \in Nat

\* Python's None where a time is expected.
NoTime == -1

VARIABLES
    now,        \* time.monotonic_ns
    lock,       \* the holder of Capture.lock
    stop,       \* the threading.Event every loop watches
    reference,  \* Capture.reference_ns
    ready,      \* Capture.ready: the time each kind became ready
    evidence,   \* when the observation behind ready[w] began
    errors,     \* the sources in Capture.errors
    main,       \* where run is
    raised,     \* the kind of exception on its way to run's handlers
    sentAt,     \* Rigol.send's timestamp for the power-on command
    attempted,  \* power_on_attempted
    verified,   \* instrument_verified
    status,     \* metadata['status']
    missing,    \* metadata['missing_readiness']
    worker,     \* where each worker is
    begun,      \* when a worker's current read or probe began
    chunk,      \* the UART text serial_worker has read and not recorded
    buffer,     \* Capture.marker_buffer
    headAt,     \* the timestamp of the marker's beginning in marker_buffer
    sample,     \* the carrier state read and not yet committed
    lastState,  \* CarrierObserver.last_state
    lastUp,     \* CarrierObserver.last_up_ns
    baseline,   \* CarrierObserver.baseline_ns
    dropped,    \* CarrierObserver.down_after_first_up > 0
    output,     \* the supply: is channel 1 on?
    alarm,      \* the supply: is a protection alarm latched?
    lost        \* was the output lost after power-on, before the final check?

recordVars  == <<reference, ready, evidence, errors>>
mainVars    == <<raised, sentAt, attempted, verified, status, missing>>
uartVars    == <<chunk, buffer, headAt>>
carrierVars == <<sample, lastState, lastUp, baseline, dropped>>
supplyVars  == <<output, alarm, lost>>
vars == <<now, lock, stop, main, worker, begun,
          recordVars, mainVars, uartVars, carrierVars, supplyVars>>

(***************************************************************************)
(* Where the threads can be.                                               *)
(***************************************************************************)
BeforePower == {"resolve", "identify", "initial", "start", "off",
                "verify_off", "dwell", "cold", "check_stop", "requery", "lock"}
PowerSection == {"baseline", "decide", "write", "arm"}  \* run holds the lock
AfterPower  == {"verify_on", "wait", "missing", "final_up", "verdict"}
Concluding  == {"finally", "join", "final_sample", "final_up_check",
                "final_supply", "finish"}
TryBlock    == BeforePower \cup PowerSection \cup {"arm_unknown"} \cup AfterPower
MainPoints  == TryBlock \cup {"except"} \cup Concluding \cup {"done"}

WorkerPoints == {"unborn", "loop", "read", "commit", "record", "probe",
                 "check", "mark", "fail", "stopping", "done"}

Statuses == {"error", "ready", "capture_complete", "readiness_timeout",
             "interrupted", "supply_fault"}
Sources  == {"measurement", "power_supply", "power_supply_monitor",
             "carrier_monitor", "uart_capture"}

\* The readiness that run waits for (line 637).
Wanted == {w \in Enabled : w = "serial" => HasMarker}

HasSupply == Mode # "none"

\* Threads are daemons: they end when run returns.
Alive == main # "done"

Init ==
    /\ now = 0
    /\ lock = "none"
    /\ stop = FALSE
    /\ reference = NoTime
    /\ ready = [w \in Workers |-> NoTime]
    /\ evidence = [w \in Workers |-> NoTime]
    /\ errors = {}
    /\ main = "resolve"
    /\ raised = "none"
    /\ sentAt = NoTime
    /\ attempted = FALSE
    /\ verified = FALSE
    /\ status = "error"
    /\ missing = {}
    /\ worker = [w \in Workers |-> "unborn"]
    /\ begun = [w \in Workers |-> NoTime]
    /\ chunk = "noise"
    /\ buffer = "clear"
    /\ headAt = NoTime
    /\ sample = "none"
    /\ lastState = "none"
    /\ lastUp = NoTime
    /\ baseline = NoTime
    /\ dropped = FALSE
    /\ output \in {"on", "off"}
    /\ alarm \in BOOLEAN
    /\ alarm => output = "off"
    /\ lost = FALSE

(***************************************************************************)
(* The recorder.                                                           *)
(***************************************************************************)
Free == lock = "none"

\* Mutant of MarkReady: a later sighting overwrites the first.
MarkReadyLatest(w, t, b) ==
    IF reference # NoTime /\ t >= reference
    THEN /\ ready' = [ready EXCEPT ![w] = t]
         /\ evidence' = [evidence EXCEPT ![w] = b]
    ELSE UNCHANGED <<ready, evidence>>

\* Capture.mark_ready: kind w at time t, on an observation begun at time b.
MarkReady(w, t, b) ==
    IF reference # NoTime /\ ready[w] = NoTime /\ t >= reference
    THEN /\ ready' = [ready EXCEPT ![w] = t]
         /\ evidence' = [evidence EXCEPT ![w] = b]
    ELSE UNCHANGED <<ready, evidence>>

\* Capture.fail
Fail(source) == errors' = errors \cup {source}

\* Capture.arm
Arm(t) ==
    /\ reference' = t
    /\ buffer' = "clear"
    /\ headAt' = NoTime

\* Mutants of RecordCarrier: readiness without regard to the duration, and a
\* link drop that is not counted.
RecordCarrierAnyTime(v, b) ==
    LET new == v # lastState /\ reference # NoTime IN
    /\ IF new /\ v = "up"
       THEN lastUp' = now /\ MarkReady("carrier", now, b)
       ELSE UNCHANGED <<lastUp, ready, evidence>>
    /\ dropped' = (dropped \/ (new /\ v = "down" /\ ready["carrier"] # NoTime))

RecordCarrierNoDrop(v, b) ==
    LET new == v # lastState /\ reference # NoTime IN
    /\ IF new /\ v = "up"
       THEN lastUp' = now
       ELSE UNCHANGED lastUp
    /\ IF new /\ v = "up" /\ now <= reference + Duration
       THEN MarkReady("carrier", now, b)
       ELSE UNCHANGED <<ready, evidence>>
    /\ UNCHANGED dropped

(***************************************************************************)
(* CarrierObserver.observe after its read returned v: what it records      *)
(* before it commits last_state.  The read began at time b.                *)
(***************************************************************************)
RecordCarrier(v, b) ==
    LET new == v # lastState /\ reference # NoTime IN
    /\ IF new /\ v = "up"
       THEN lastUp' = now
       ELSE UNCHANGED lastUp
    /\ IF new /\ v = "up" /\ now <= reference + Duration
       THEN MarkReady("carrier", now, b)
       ELSE UNCHANGED <<ready, evidence>>
    /\ dropped' = (dropped \/ (new /\ v = "down" /\ ready["carrier"] # NoTime))

(***************************************************************************)
(* run: before the power command.                                          *)
(***************************************************************************)
Goto(p) == main' = p

\* An exception leaves run's try block; "with capture.lock" lets go of the lock.
Raise(kind) ==
    /\ main' = "except"
    /\ raised' = kind
    /\ lock' = IF lock = "main" THEN "none" ELSE lock

SetupUnchanged ==
    UNCHANGED <<now, stop, recordVars, sentAt, attempted, status, missing, begun,
                uartVars, carrierVars, supplyVars>>

\* getaddrinfo for --host, which may fail.
Resolve ==
    /\ main = "resolve"
    /\ \/ /\ Goto(IF HasSupply THEN "identify" ELSE "start")
          /\ UNCHANGED <<lock, raised>>
       \/ "net" \in Enabled /\ Raise("measurement")
    /\ UNCHANGED <<worker, verified>> /\ SetupUnchanged

\* Opening the instrument, *IDN? and parse_identity.
Identify ==
    /\ main = "identify"
    /\ \/ Goto("initial") /\ verified' = TRUE /\ UNCHANGED <<lock, raised>>
       \/ Raise("measurement") /\ UNCHANGED verified
    /\ UNCHANGED worker /\ SetupUnchanged

\* The initial supply_snapshot and check_supply; a query may fail.
InitialSupply ==
    /\ main = "initial"
    /\ \/ /\ ~alarm /\ (Mode = "on" => output = "off")
          /\ Goto("start") /\ UNCHANGED <<lock, raised>>
       \/ alarm /\ Raise("power_supply")
       \/ Raise("measurement")
    /\ UNCHANGED <<worker, verified>> /\ SetupUnchanged

\* run starts the enabled workers in this order.
StartsAfter(w) ==
    CASE w = "carrier" -> {}
      [] w = "serial"  -> {"carrier"}
      [] w = "net"     -> {"carrier", "serial"}
      [] w = "http"    -> {"carrier", "serial", "net"}

\* Open what the worker reads and start its thread.  Opening the carrier
\* interface (with a first read) or the UART may fail.
StartWorker(w) ==
    /\ main = "start"
    /\ w \in Enabled /\ worker[w] = "unborn"
    /\ \A v \in StartsAfter(w) \cap Enabled : worker[v] # "unborn"
    /\ \/ /\ worker' = [worker EXCEPT ![w] = "loop"]
          /\ UNCHANGED <<main, lock, raised>>
       \/ /\ w \in {"carrier", "serial"}
          /\ Raise("measurement") /\ UNCHANGED worker
    /\ UNCHANGED verified /\ SetupUnchanged

Started ==
    /\ main = "start"
    /\ \A w \in Enabled : worker[w] # "unborn"
    /\ Goto(CASE Mode = "none"  -> "arm_unknown"
              [] Mode = "on"    -> "cold"
              [] Mode = "cycle" -> "off")
    /\ UNCHANGED <<lock, raised, worker, verified>> /\ SetupUnchanged

\* --power-cycle: send OUTP CH1,OFF.
PowerOff ==
    /\ main = "off" /\ Free
    /\ \/ /\ output' = "off"
          /\ Goto("verify_off") /\ UNCHANGED <<lock, raised>>
       \/ output' \in {output, "off"} /\ Raise("measurement")
    /\ UNCHANGED <<now, stop, recordVars, sentAt, attempted, status, missing, begun,
                   uartVars, carrierVars, alarm, lost, worker, verified>>

VerifyOff ==
    /\ main = "verify_off"
    /\ \/ output = "off" /\ Goto("dwell") /\ UNCHANGED <<lock, raised>>
       \/ Raise("measurement")
    /\ UNCHANGED <<worker, verified>> /\ SetupUnchanged

\* stop.wait(off_seconds): returns early, and true, once stop is set.
Dwell ==
    /\ main = "dwell"
    /\ \/ ~stop /\ Goto("cold") /\ UNCHANGED <<lock, raised>>
       \/ stop /\ Raise("measurement")
    /\ UNCHANGED <<worker, verified>> /\ SetupUnchanged

\* An endpoint that answers while the output is off must not be measured.
ColdCheck ==
    /\ main = "cold"
    /\ \/ Goto("check_stop") /\ UNCHANGED <<lock, raised>>
       \/ "net" \in Enabled /\ Raise("measurement")
    /\ UNCHANGED <<worker, verified>> /\ SetupUnchanged

CheckStop ==
    /\ main = "check_stop"
    /\ \/ /\ ~stop
          /\ Goto(IF "carrier" \in Enabled THEN "requery" ELSE "lock")
          /\ UNCHANGED <<lock, raised>>
       \/ stop /\ Raise("measurement")
    /\ UNCHANGED <<worker, verified>> /\ SetupUnchanged

Requery ==
    /\ main = "requery"
    /\ \/ output = "off" /\ Goto("lock") /\ UNCHANGED <<lock, raised>>
       \/ Raise("measurement")
    /\ UNCHANGED <<worker, verified>> /\ SetupUnchanged

(***************************************************************************)
(* run: the section under the lock that takes the carrier baseline and     *)
(* sends the power command.  Rigol.send stamps the command, writes it and  *)
(* publishes the stamp as the reference.                                   *)
(***************************************************************************)
EnterPowerSection ==
    /\ main = "lock" /\ Free
    /\ lock' = "main"
    /\ Goto(IF "carrier" \in Enabled THEN "baseline" ELSE "decide")
    /\ UNCHANGED <<raised, worker, verified>> /\ SetupUnchanged

\* Mutant of TakeBaseline: require_down is not passed.
TakeBaselineAnyState ==
    /\ main = "baseline"
    /\ \/ /\ lastState' \in {"down", "up"}
          /\ baseline' = now
          /\ Goto("decide") /\ UNCHANGED <<lock, raised>>
       \/ UNCHANGED <<lastState, baseline>> /\ Raise("measurement")
    /\ UNCHANGED <<now, stop, worker, begun, recordVars, sentAt, attempted, verified,
                   status, missing, uartVars, sample, lastUp, dropped, supplyVars>>

\* observe(capture, require_down=True)
TakeBaseline ==
    /\ main = "baseline"
    /\ \/ /\ lastState' = "down"
          /\ baseline' = now
          /\ Goto("decide") /\ UNCHANGED <<lock, raised>>
       \/ UNCHANGED <<lastState, baseline>> /\ Raise("measurement")
    /\ UNCHANGED <<now, stop, worker, begun, recordVars, sentAt, attempted, verified,
                   status, missing, uartVars, sample, lastUp, dropped, supplyVars>>

\* The last test of stop, power_on_attempted and send's timestamp.
Decide ==
    /\ main = "decide"
    /\ \/ /\ ~stop
          /\ attempted' = TRUE
          /\ sentAt' = now
          /\ Goto("write") /\ UNCHANGED <<lock, raised>>
       \/ stop /\ Raise("measurement") /\ UNCHANGED <<attempted, sentAt>>
    /\ UNCHANGED <<now, stop, worker, begun, recordVars, verified, status, missing,
                   uartVars, carrierVars, supplyVars>>

\* os.write of OUTP CH1,ON.  A latched supply ignores it; a failed or short
\* write raises, whatever the supply made of it.
WriteOn ==
    /\ main = "write"
    /\ \/ /\ output' = IF alarm THEN output ELSE "on"
          /\ Goto("arm") /\ UNCHANGED <<lock, raised>>
       \/ /\ output' \in (IF alarm THEN {output} ELSE {output, "on"})
          /\ Raise("measurement")
    /\ UNCHANGED <<now, stop, worker, begun, recordVars, sentAt, attempted, verified,
                   status, missing, uartVars, carrierVars, alarm, lost>>

PublishReference ==
    /\ main = "arm"
    /\ Arm(sentAt)
    /\ lock' = "none"
    /\ Goto("verify_on")
    /\ UNCHANGED <<now, stop, worker, begun, ready, evidence, errors, chunk,
                   mainVars, carrierVars, supplyVars>>

VerifyOn ==
    /\ main = "verify_on"
    /\ \/ output = "on" /\ Goto("wait") /\ UNCHANGED <<lock, raised>>
       \/ Raise("measurement")
    /\ UNCHANGED <<worker, verified>> /\ SetupUnchanged

\* Without a supply: capture.arm('capture_start_boot_edge_unknown').
ArmUnknown ==
    /\ main = "arm_unknown" /\ Free
    /\ Arm(now)
    /\ Goto("wait")
    /\ UNCHANGED <<now, lock, stop, worker, begun, ready, evidence, errors, chunk,
                   mainVars, carrierVars, supplyVars>>

(***************************************************************************)
(* run: the wait and the status (lines 633-647).  Nothing here holds the   *)
(* lock, so the workers move between these reads.                          *)
(***************************************************************************)
VerdictUnchanged ==
    UNCHANGED <<now, lock, stop, recordVars, sentAt, attempted, verified, worker,
                begun, uartVars, carrierVars, supplyVars>>

WaitEnds ==
    /\ main = "wait"
    /\ stop \/ now >= reference + Duration
    /\ Goto("missing")
    /\ UNCHANGED <<raised, status, missing>> /\ VerdictUnchanged

ReadMissing ==
    /\ main = "missing"
    /\ missing' = {w \in Wanted : ready[w] = NoTime}
    /\ Goto("final_up")
    /\ UNCHANGED <<raised, status>> /\ VerdictUnchanged

ReadFinalUp ==
    /\ main = "final_up"
    /\ missing' = IF /\ "carrier" \in Enabled
                     /\ ready["carrier"] # NoTime /\ lastState # "up"
                  THEN missing \cup {"carrier_final_up"}
                  ELSE missing
    /\ Goto("verdict")
    /\ UNCHANGED <<raised, status>> /\ VerdictUnchanged

Verdict ==
    /\ main = "verdict"
    /\ status' = IF errors # {} THEN "error"
                 ELSE IF missing # {} THEN "readiness_timeout"
                 ELSE IF Wanted # {} THEN "ready"
                 ELSE "capture_complete"
    /\ Goto("finally")
    /\ UNCHANGED <<raised, missing>> /\ VerdictUnchanged

(***************************************************************************)
(* run: the exception handlers.  Ctrl-C may arrive anywhere in the try     *)
(* block.                                                                  *)
(***************************************************************************)
Interrupt ==
    /\ main \in TryBlock
    /\ Raise("interrupt")
    /\ UNCHANGED <<worker, verified>> /\ SetupUnchanged

Handle ==
    /\ main = "except" /\ Free
    /\ \/ raised = "power_supply" /\ Fail("power_supply") /\ status' = "supply_fault"
       \/ raised = "measurement" /\ Fail("measurement") /\ status' = "error"
       \/ raised = "interrupt" /\ status' = "interrupted" /\ UNCHANGED errors
    /\ Goto("finally")
    /\ UNCHANGED <<now, lock, stop, reference, ready, evidence, raised, sentAt,
                   attempted, verified, missing, worker, begun, uartVars,
                   carrierVars, supplyVars>>

(***************************************************************************)
(* run: the finally block (lines 659-707).                                 *)
(***************************************************************************)
FinallyWithoutStop ==  \* Mutant: stop is not set
    /\ main = "finally"
    /\ Goto("join")
    /\ UNCHANGED <<now, lock, stop, recordVars, mainVars, worker, begun, uartVars,
                   carrierVars, supplyVars>>

Finally ==
    /\ main = "finally"
    /\ stop' = TRUE
    /\ Goto("join")
    /\ UNCHANGED <<now, lock, recordVars, mainVars, worker, begun, uartVars,
                   carrierVars, supplyVars>>

\* The join times out at least a second after every bound the workers' own
\* waits have.  Only http_worker can outlast it: resolving its host name has
\* no timeout.
Join ==
    /\ main = "join"
    /\ \A w \in Workers : \/ worker[w] \in {"unborn", "done"}
                          \/ w = "http" /\ worker[w] = "probe"
    /\ Goto(IF worker["carrier"] # "unborn" THEN "final_sample"
            ELSE IF verified THEN "final_supply" ELSE "finish")
    /\ UNCHANGED <<now, lock, stop, recordVars, mainVars, worker, begun, uartVars,
                   carrierVars, supplyVars>>

\* The last observe, after the carrier worker ended: it reads v, or raises.
FinalRead(v) == RecordCarrier(v, now) /\ lastState' = v /\ UNCHANGED <<errors, status>>

FinalReadFails ==
    /\ Fail("carrier_monitor")
    /\ status' = IF status \in {"supply_fault", "interrupted"} THEN status ELSE "error"
    /\ UNCHANGED <<ready, evidence, lastState, lastUp, dropped>>

FinalSample ==
    /\ main = "final_sample" /\ Free
    /\ (\E v \in {"down", "up"} : FinalRead(v)) \/ FinalReadFails
    /\ Goto("final_up_check")
    /\ UNCHANGED <<now, lock, stop, reference, raised, sentAt, attempted, verified,
                   missing, worker, begun, uartVars, sample, baseline, supplyVars>>

FinalUpCheckSkipped ==  \* Mutant: the verdict is not revised
    /\ main = "final_up_check"
    /\ Goto(IF verified THEN "final_supply" ELSE "finish")
    /\ UNCHANGED <<raised, status, missing>> /\ VerdictUnchanged

FinalUpCheck ==
    /\ main = "final_up_check"
    /\ IF status = "ready" /\ lastState # "up"
       THEN status' = "readiness_timeout" /\ missing' = missing \cup {"carrier_final_up"}
       ELSE UNCHANGED <<status, missing>>
    /\ Goto(IF verified THEN "final_supply" ELSE "finish")
    /\ UNCHANGED <<raised>> /\ VerdictUnchanged

SupplyHealthyIfNoAlarm == ~alarm  \* Mutant: require_on is not passed

SupplyHealthy == ~alarm /\ (attempted => output = "on")

\* supply_snapshot and check_supply(final, require_on=power_on_attempted):
\* either the snapshot is taken and checked, or a query fails.
FinalSupplyTaken ==
    \/ SupplyHealthy /\ UNCHANGED <<errors, status>>
    \/ ~SupplyHealthy /\ Fail("power_supply") /\ status' = "supply_fault"

FinalSupplyFails ==
    /\ Fail("power_supply_monitor")
    /\ status' = IF status = "supply_fault" THEN status ELSE "error"

FinalSupply ==
    /\ main = "final_supply" /\ Free
    /\ FinalSupplyTaken \/ FinalSupplyFails
    /\ Goto("finish")
    /\ UNCHANGED <<now, lock, stop, reference, ready, evidence, raised, sentAt,
                   attempted, verified, missing, worker, begun, uartVars,
                   carrierVars, supplyVars>>

\* metadata.json is written with the status and the readiness of this moment.
Finish ==
    /\ main = "finish" /\ Free
    /\ Goto("done")
    /\ UNCHANGED <<now, lock, stop, recordVars, mainVars, worker, begun, uartVars,
                   carrierVars, supplyVars>>

(***************************************************************************)
(* The workers.                                                            *)
(***************************************************************************)
Step(w, from, to) == Alive /\ worker[w] = from /\ worker' = [worker EXCEPT ![w] = to]

\* A worker's observation begins now, and is over.
Observing(w) == begun' = [begun EXCEPT ![w] = now]
Observed(w)  == begun' = [begun EXCEPT ![w] = NoTime]

WorkerUnchanged == UNCHANGED <<now, main, mainVars, reference, baseline, supplyVars>>

\* Every loop is "while not stop.is_set()".
Leave(w) ==
    /\ Step(w, "loop", "done")
    /\ stop
    /\ UNCHANGED <<lock, stop, begun, ready, evidence, errors, uartVars, sample,
                   lastState, lastUp, dropped>>
    /\ WorkerUnchanged

\* The handlers of carrier_worker and serial_worker: first capture.fail,
\* then stop.set.
RecordFailure(w) ==
    /\ Step(w, "fail", "stopping") /\ Free
    /\ Fail(IF w = "carrier" THEN "carrier_monitor" ELSE "uart_capture")
    /\ UNCHANGED <<lock, stop, begun, ready, evidence, uartVars, sample, lastState,
                   lastUp, dropped>>
    /\ WorkerUnchanged

SetStop(w) ==
    /\ Step(w, "stopping", "done")
    /\ stop' = TRUE
    /\ UNCHANGED <<lock, begun, ready, evidence, errors, uartVars, sample, lastState,
                   lastUp, dropped>>
    /\ WorkerUnchanged

\* Mutant of CarrierEnters: the sample is taken without the lock.
CarrierEntersUnlocked ==
    /\ Step("carrier", "loop", "read") /\ ~stop
    /\ lock' = "carrier"
    /\ Observing("carrier")
    /\ UNCHANGED <<stop, ready, evidence, errors, uartVars, sample, lastState,
                   lastUp, dropped>>
    /\ WorkerUnchanged

\* observe takes the lock and stamps the beginning of its read.
CarrierEnters ==
    /\ Step("carrier", "loop", "read") /\ ~stop
    /\ Free /\ lock' = "carrier"
    /\ Observing("carrier")
    /\ UNCHANGED <<stop, ready, evidence, errors, uartVars, sample, lastState,
                   lastUp, dropped>>
    /\ WorkerUnchanged

\* The read returns and its transition is recorded.
CarrierReads ==
    /\ Step("carrier", "read", "commit")
    /\ \E v \in {"down", "up"} :
          /\ sample' = v
          /\ RecordCarrier(v, begun["carrier"])
    /\ UNCHANGED <<lock, stop, begun, errors, uartVars, lastState>>
    /\ WorkerUnchanged

\* Mutant of CarrierReadFails: the lock is not released.
CarrierReadFailsLocked ==
    /\ Step("carrier", "read", "fail")
    /\ Observed("carrier")
    /\ UNCHANGED <<lock, stop, ready, evidence, errors, uartVars, sample, lastState,
                   lastUp, dropped>>
    /\ WorkerUnchanged

\* The interface has disappeared, been replaced, or is not administratively up.
CarrierReadFails ==
    /\ Step("carrier", "read", "fail")
    /\ lock' = "none" /\ Observed("carrier")
    /\ UNCHANGED <<stop, ready, evidence, errors, uartVars, sample, lastState,
                   lastUp, dropped>>
    /\ WorkerUnchanged

\* last_state is assigned last, and the lock released.
CarrierCommits ==
    /\ Step("carrier", "commit", "loop")
    /\ lastState' = sample /\ sample' = "none"
    /\ lock' = "none" /\ Observed("carrier")
    /\ UNCHANGED <<stop, ready, evidence, errors, uartVars, lastUp, dropped>>
    /\ WorkerUnchanged

\* port.read returns a piece of the UART text, stamped before the lock is
\* asked for.  The text matters as far as it holds the marker, its beginning
\* or its end.
SerialReads ==
    /\ Step("serial", "loop", "record") /\ ~stop
    /\ chunk' \in (IF HasMarker THEN {"noise", "head", "tail", "whole"} ELSE {"noise"})
    /\ Observing("serial")
    /\ UNCHANGED <<lock, stop, ready, evidence, errors, buffer, headAt, sample,
                   lastState, lastUp, dropped>>
    /\ WorkerUnchanged

SerialReadFails ==
    /\ Step("serial", "loop", "fail") /\ ~stop
    /\ UNCHANGED <<lock, stop, begun, ready, evidence, errors, uartVars, sample,
                   lastState, lastUp, dropped>>
    /\ WorkerUnchanged

\* Mutant of Searched: text stamped before the reference is searched too.
SearchedAtOnce(stamp) ==
    HasMarker /\ reference # NoTime /\ ready["serial"] = NoTime

\* Only text stamped at or after the reference is searched for the marker.
Searched(stamp) ==
    HasMarker /\ reference # NoTime /\ stamp >= reference /\ ready["serial"] = NoTime

MarkerComplete == chunk = "whole" \/ (chunk = "tail" /\ buffer = "head")

\* Capture.uart
SerialRecords ==
    /\ Step("serial", "record", "loop") /\ Free
    /\ LET stamp == begun["serial"] IN
       IF ~Searched(stamp)
       THEN UNCHANGED <<buffer, headAt, ready, evidence>>
       ELSE IF MarkerComplete
       THEN /\ MarkReady("serial", stamp, IF chunk = "whole" THEN stamp ELSE headAt)
            /\ buffer' = "clear" /\ headAt' = NoTime
       ELSE /\ buffer' = IF chunk = "head" THEN "head" ELSE "clear"
            /\ headAt' = IF chunk = "head" THEN stamp ELSE NoTime
            /\ UNCHANGED <<ready, evidence>>
    /\ chunk' = "noise" /\ Observed("serial")
    /\ UNCHANGED <<lock, stop, errors, sample, lastState, lastUp, dropped>>
    /\ WorkerUnchanged

\* tcp_worker and http_worker begin a probe once there is a reference.
Network == {"net", "http"}

ProbeUnchanged ==
    /\ UNCHANGED <<lock, stop, errors, uartVars, sample, lastState, lastUp, dropped>>
    /\ WorkerUnchanged

ProbeBegins(w) ==
    /\ Step(w, "loop", "probe") /\ ~stop
    /\ reference # NoTime /\ ready[w] = NoTime
    /\ Observing(w)
    /\ UNCHANGED <<ready, evidence>> /\ ProbeUnchanged

\* Only http_worker tests stop again after an answer.
ProbeEnds(w) ==
    /\ \/ Step(w, "probe", "loop") /\ Observed(w)
       \/ Step(w, "probe", IF w = "http" THEN "check" ELSE "mark") /\ UNCHANGED begun
    /\ UNCHANGED <<ready, evidence>> /\ ProbeUnchanged

CheckStopOnce ==  \* Mutant: the second test is missing
    /\ Step("http", "check", "mark") /\ UNCHANGED begun
    /\ UNCHANGED <<ready, evidence>> /\ ProbeUnchanged

CheckStopAgain ==
    /\ \/ stop /\ Step("http", "check", "loop") /\ Observed("http")
       \/ ~stop /\ Step("http", "check", "mark") /\ UNCHANGED begun
    /\ UNCHANGED <<ready, evidence>> /\ ProbeUnchanged

ProbeMarks(w) ==
    /\ Step(w, "mark", "done") /\ Free
    /\ MarkReady(w, now, begun[w]) /\ Observed(w)
    /\ ProbeUnchanged

(***************************************************************************)
(* The clock, and what happens to the supply: a protection trip latches    *)
(* its alarm and switches the output off; the output may also be switched  *)
(* off by other means, which leave no alarm.                               *)
(***************************************************************************)
LastTick == IF reference = NoTime THEN SetupTime ELSE reference + Duration + Slack

Tick ==
    /\ Alive /\ now < LastTick
    /\ now' = now + 1
    /\ UNCHANGED <<lock, stop, main, worker, begun, recordVars, mainVars, uartVars,
                   carrierVars, supplyVars>>

OutputLost ==
    /\ Alive /\ output = "on"
    /\ output' = "off"
    /\ alarm' \in {alarm, TRUE}
    /\ lost' = (lost \/ (attempted /\ main \notin {"finish", "done"}))
    /\ UNCHANGED <<now, lock, stop, main, worker, begun, recordVars, mainVars,
                   uartVars, carrierVars>>

\* run returned.
Terminated == main = "done" /\ UNCHANGED vars

MainSetup ==
    \/ Resolve \/ Identify \/ InitialSupply
    \/ \E w \in Workers : StartWorker(w)
    \/ Started \/ PowerOff \/ VerifyOff \/ Dwell \/ ColdCheck \/ CheckStop \/ Requery

MainPower ==
    \/ EnterPowerSection \/ TakeBaseline \/ Decide \/ WriteOn \/ PublishReference
    \/ VerifyOn \/ ArmUnknown

MainVerdict == WaitEnds \/ ReadMissing \/ ReadFinalUp \/ Verdict \/ Handle

MainFinally ==
    Finally \/ Join \/ FinalSample \/ FinalUpCheck \/ FinalSupply \/ Finish

Main == MainSetup \/ MainPower \/ MainVerdict \/ MainFinally

Carrier == CarrierEnters \/ CarrierReads \/ CarrierReadFails \/ CarrierCommits
Serial  == SerialReads \/ SerialReadFails \/ SerialRecords
Probe(w) == ProbeBegins(w) \/ ProbeEnds(w) \/ ProbeMarks(w)

Failing == {"carrier", "serial"}

Next ==
    \/ Main
    \/ Interrupt
    \/ Carrier
    \/ Serial
    \/ \E w \in Network : Probe(w)
    \/ CheckStopAgain
    \/ \E w \in Workers : Leave(w)
    \/ \E w \in Failing : RecordFailure(w) \/ SetStop(w)
    \/ Tick
    \/ OutputLost
    \/ Terminated

(***************************************************************************)
(* Every thread that can run eventually runs, and the clock advances.  run *)
(* competes with the workers for the lock: a worker holds it for a moment  *)
(* and then sleeps or blocks in a read, so run eventually finds it free.   *)
(***************************************************************************)
Fairness ==
    /\ SF_vars(Main)
    /\ WF_vars(Carrier) /\ WF_vars(Serial)
    /\ \A w \in Network : WF_vars(Probe(w))
    /\ WF_vars(CheckStopAgain)
    /\ \A w \in Workers : WF_vars(Leave(w))
    /\ \A w \in Failing : WF_vars(RecordFailure(w)) /\ WF_vars(SetStop(w))
    /\ WF_vars(Tick)

Spec == Init /\ [][Next]_vars
FairSpec == Spec /\ Fairness

-----------------------------------------------------------------------------
Times == Nat \cup {NoTime}

TypeOK ==
    /\ now \in Nat
    /\ lock \in {"none", "main", "carrier"}
    /\ stop \in BOOLEAN
    /\ reference \in Times
    /\ ready \in [Workers -> Times]
    /\ evidence \in [Workers -> Times]
    /\ errors \subseteq Sources
    /\ main \in MainPoints
    /\ raised \in {"none", "measurement", "power_supply", "interrupt"}
    /\ sentAt \in Times
    /\ attempted \in BOOLEAN /\ verified \in BOOLEAN
    /\ status \in Statuses
    /\ missing \subseteq Workers \cup {"carrier_final_up"}
    /\ worker \in [Workers -> WorkerPoints]
    /\ begun \in [Workers -> Times]
    /\ chunk \in {"noise", "head", "tail", "whole"}
    /\ buffer \in {"clear", "head"}
    /\ headAt \in Times
    /\ sample \in {"none", "down", "up"}
    /\ lastState \in {"none", "down", "up"}
    /\ lastUp \in Times /\ baseline \in Times
    /\ dropped \in BOOLEAN
    /\ output \in {"on", "off"}
    /\ alarm \in BOOLEAN /\ lost \in BOOLEAN

\* Who holds the lock, and what that excludes.
LockInv ==
    /\ lock = "main" <=> main \in PowerSection
    /\ lock = "carrier" <=> worker["carrier"] \in {"read", "commit"}

\* The power section is entered once, with a verified supply; there is no
\* reference before its end, and the baseline it took stays the last sample.
PowerInv ==
    /\ main \in BeforePower \cup PowerSection \cup {"arm_unknown"} => reference = NoTime
    /\ main = "arm_unknown" => Mode = "none"
    /\ main \in {"initial", "off", "verify_off", "dwell", "cold", "check_stop",
                 "requery", "lock"} \cup PowerSection => verified
    /\ main = "start" /\ HasSupply => verified
    /\ main \in {"decide", "write", "arm"} /\ "carrier" \in Enabled =>
           lastState = "down" /\ baseline # NoTime /\ baseline <= now
    /\ main \in {"write", "arm"} =>
           /\ sentAt # NoTime
           /\ "carrier" \in Enabled => baseline <= sentAt

\* The output is off from its check until the power command, and an output
\* lost after that command stays lost until the final check sees it.
SupplyInv ==
    /\ main \in {"verify_off", "dwell", "cold", "check_stop", "requery", "lock",
                 "baseline", "decide", "write"} => output = "off" /\ ~lost
    /\ main = "start" /\ Mode = "on" => output = "off"
    /\ lost => attempted /\ output = "off"
    /\ attempted => verified /\ main \notin BeforePower \cup {"baseline", "decide"}
    /\ lost /\ main \in {"finish", "done"} => status \in {"supply_fault", "error"}

\* What the verdict rests on.
VerdictInv ==
    /\ main \in {"final_up", "verdict"} /\ missing = {} =>
           \A w \in Wanted : ready[w] # NoTime
    /\ status = "ready" =>
           /\ Wanted # {}
           /\ \A w \in Wanted : ready[w] # NoTime
           /\ main \in Concluding \cup {"done"}

\* No time lies in the future, and an observation under way that can become
\* readiness began after the reference.
ClockInv ==
    /\ sentAt <= now /\ reference <= now
    /\ \A w \in Workers : begun[w] <= now
    /\ \A w \in Network : worker[w] \in {"probe", "check", "mark"} =>
           reference # NoTime /\ reference <= begun[w]
    /\ worker["carrier"] \in {"read", "commit"} =>
           begun["carrier"] # NoTime /\ reference <= begun["carrier"]
    /\ worker["serial"] = "record" => headAt <= begun["serial"]
    /\ buffer = "head" => headAt # NoTime
    /\ headAt # NoTime => reference # NoTime /\ reference <= headAt /\ headAt <= now

\* The facts about the threads that the proofs of the properties rest on.
ThreadsInv == LockInv /\ PowerInv /\ SupplyInv /\ VerdictInv /\ ClockInv

\* Nothing seen before the power command counts as seen after it: every kind
\* of readiness rests on an observation that began at or after the reference
\* ("a pre-power read can never be labeled post-power", line 409), although
\* UART text is stamped, and network probes begin, without the lock.
EvidenceAfterReference ==
    \A w \in Workers : ready[w] # NoTime =>
        /\ reference # NoTime
        /\ reference <= evidence[w]
        /\ evidence[w] <= ready[w]

\* A carrier capture has its output-off baseline before its reference, so the
\* exception of line 433 is never raised.
BaselineBeforeReference ==
    reference # NoTime /\ "carrier" \in Enabled =>
        baseline # NoTime /\ baseline <= reference

\* Carrier readiness lies within the duration, however late the last read is.
CarrierWithinDuration ==
    ready["carrier"] # NoTime => ready["carrier"] <= reference + Duration

\* "A later link reset therefore remains visible" (docs/carrier-measurement.md):
\* between samples, the last-up time is no earlier than the first, and a link
\* that was ready and is now seen down shows as a drop.
LinkHistoryIsVisible ==
    ready["carrier"] # NoTime /\ lock # "carrier" =>
        /\ ready["carrier"] <= lastUp
        /\ lastState = "down" => dropped

\* Exit code 0 with everything wanted seen, and with the link still up at the
\* end ("a capture ending with carrier down is not returned as ready").
ReadyIsComplete ==
    main = "done" /\ status = "ready" =>
        /\ \A w \in Wanted : ready[w] # NoTime
        /\ "carrier" \in Enabled => lastState = "up"
        /\ missing = {}

\* "A final output/alarm check distinguishes supply faults from software
\* readiness timeouts" (line 28): no capture during which the powered output
\* was lost ends as ready, as a timeout or as interrupted.
SupplyLossIsReported ==
    main = "done" /\ lost => status \in {"supply_fault", "error"}

\* The supply is told to power on only from a state in which nothing has been
\* seen of a boot, with the link's last sample down.
PowerOnStep ==
    output = "off" /\ output' = "on" =>
        /\ reference = NoTime
        /\ \A w \in Workers : ready[w] = NoTime
        /\ "carrier" \in Enabled => lastState = "down" /\ baseline # NoTime
        /\ verified
PowerOnFromDown == [][PowerOnStep]_vars

\* "Check after readers stop, so SCPI latency cannot extend readiness polling
\* or shift its reference" (line 679): from the final supply check on, the
\* recorded readiness does not change.
FrozenStep ==
    main \in {"final_supply", "finish", "done"} => UNCHANGED <<reference, ready, evidence>>
RecordFrozen == [][FrozenStep]_vars

\* The record that readers of metadata.json rely on.
Record == INSTANCE CaptureRecord WITH
    Kinds <- Workers, Verdicts <- Statuses,
    verdict <- IF main = "done" THEN status ELSE "none"
ImplementsRecord == Record!Spec

\* Every capture ends, whatever fails.
Terminates == <>(main = "done")

\* "A disappearing, replaced or invalid interface produces a capture error,
\* even if link was observed earlier" (docs/carrier-measurement.md).
CarrierFailureIsError ==
    main = "done" /\ "carrier_monitor" \in errors =>
        status \in {"error", "supply_fault", "interrupted"}
=============================================================================
