----------------------------- MODULE BenchTarget -----------------------------
(***************************************************************************)
(* scripts/bench-target.py, the collector that asks a target thirteen      *)
(* questions over thirteen SSH connections, against the readiness          *)
(* observers (Readiness) and the reboots of that target.  A remote         *)
(* benchmark outlives the ssh process that started it.  The answers that   *)
(* the report only quotes (kernel, modes, uptimes) are not kept.           *)
(***************************************************************************)
EXTENDS Readiness

CONSTANT
  Directories    \* the values of --output-dir; each is a session's own

VARIABLES
  phase,         \* "idle", "waiting" for ssh, "reported" or "interrupted"
  made,          \* the output directories that exist
  directory,     \* args.output_dir
  step,          \* the command in turn
  call,          \* the remote end of that command
  remote,        \* the benchmarks that run on the target
  results,       \* report['results'] of this session
  outputs,       \* the boot IDs in the *.stdout.txt files, 0: empty or absent
  verdict        \* same_boot and benchmarks_passed of the last report

hostVars == <<phase, made, directory, step, call, remote, results, outputs, verdict>>
benchVars == <<vars, hostVars>>

\* Mutant of Commands: the smoke is read before the milestone that vouches for it.
CommandsSmokeFirst == <<"boot_id_before", "settings", "os_ready",
  "startup_cuda_smoke", "cuda_ready", "cpu", "cuda", "boot_id_after">>

(***************************************************************************)
(* The fixed order of the commands; "settings" stands for kernel,          *)
(* os_release, uptime_before, power_mode and clock_settings, and           *)
(* "boot_id_after" for uptime_after too.                                   *)
(***************************************************************************)
Commands == <<"boot_id_before", "settings", "os_ready", "cuda_ready",
  "startup_cuda_smoke", "cpu", "cuda", "boot_id_after">>

BootIds == {"boot_id_before", "boot_id_after"}
Benchmarks == {"cpu", "cuda"}
Records == {"os_ready", "cuda_ready", "startup_cuda_smoke"}
Kept == BootIds \cup Benchmarks \cup {"cuda_ready", "startup_cuda_smoke"}

(***************************************************************************)
(* What a command gave the host: its exit status ("missing" is the remote  *)
(* shell's 127, "cut" is 124 or 255), the JSON it printed ("none" if it    *)
(* did not parse) and the boot in which it was answered; for cuda_ready    *)
(* and startup_cuda_smoke also, as history, the activation of the cuda     *)
(* script.                                                                 *)
(***************************************************************************)
Result(exit, json) ==
  [exit |-> exit, json |-> json, boot |-> boot,
   run |-> IF Commands[step] \in {"cuda_ready", "startup_cuda_smoke"}
           THEN activation ELSE 0]

Nothing == [exit |-> "none", json |-> "none", boot |-> 0, run |-> 0]
Cut == [Nothing EXCEPT !.exit = "cut"]

NoVerdict == [same_boot |-> FALSE, benchmarks_passed |-> FALSE]

BenchInit ==
  /\ Init
  /\ phase = "idle"
  /\ made = {}
  /\ directory \in Directories
  /\ step = 0
  /\ call = Nothing
  /\ remote = {}
  /\ results = [n \in Kept |-> Nothing]
  /\ outputs = [d \in Directories |-> [n \in BootIds |-> 0]]
  /\ verdict = NoVerdict

Command == Commands[step]

Asking == phase = "waiting" /\ step <= Len(Commands)

-----------------------------------------------------------------------------
(* The host *)

\* Mutant of Begin: mkdir(exist_ok=True).
BeginAnywhere(d) ==
  /\ phase \in {"idle", "reported", "interrupted"}
  /\ remote = {}
  /\ made' = made \cup {d}
  /\ directory' = d
  /\ phase' = "waiting"
  /\ step' = 1
  /\ UNCHANGED <<vars, call, remote, results, outputs, verdict>>

(***************************************************************************)
(* mkdir(exist_ok=False) refuses a directory that an earlier session used. *)
(* The operator sees that no benchmark is left over from that session.     *)
(***************************************************************************)
Begin(d) ==
  /\ phase \in {"idle", "reported", "interrupted"}
  /\ remote = {}
  /\ d \notin made
  /\ made' = made \cup {d}
  /\ directory' = d
  /\ phase' = "waiting"
  /\ step' = 1
  /\ UNCHANGED <<vars, call, remote, results, outputs, verdict>>

(***************************************************************************)
(* The .stdout.txt file, report['results'] and summary.json of a command,  *)
(* of which printed reached the host.                                      *)
(***************************************************************************)
Record(r, printed) ==
  /\ results' = IF Command \in Kept THEN [results EXCEPT ![Command] = r] ELSE results
  /\ outputs' = IF Command \in BootIds
                THEN [outputs EXCEPT ![directory][Command] = printed.boot]
                ELSE outputs

\* Mutant of Stops: a connection that is cut is taken for a failed command.
StopsIfMissing(r) == r.exit = "missing"

(* 124 and 255, and 127, which a remote shell also gives for a missing tool. *)
Stops(r) == r.exit \in {"cut", "missing"}

Receive ==
  /\ Asking /\ call.exit \notin {"none", "running"}
  /\ Record(call, call)
  /\ step' = IF Stops(call) THEN Len(Commands) + 1 ELSE step + 1
  /\ call' = Nothing
  /\ UNCHANGED <<vars, phase, made, directory, remote, verdict>>

(***************************************************************************)
(* ssh times out, loses its connection or cannot run at all; what the      *)
(* remote command has printed may have arrived.  The command itself is not *)
(* stopped.                                                                *)
(***************************************************************************)
Lose ==
  /\ Asking
  /\ \E printed \in {Nothing, call} : Record(Cut, printed)
  /\ step' = IF Stops(Cut) THEN Len(Commands) + 1 ELSE step + 1
  /\ call' = Nothing
  /\ UNCHANGED <<vars, phase, made, directory, remote, verdict>>

SameBoot ==
  /\ outputs[directory]["boot_id_before"] # 0
  /\ outputs[directory]["boot_id_before"] = outputs[directory]["boot_id_after"]

BenchmarksPassed ==
  SameBoot /\ \A n \in Benchmarks : results[n].exit = "ok" /\ results[n].json = "passed"

(* main() returns: what the report holds is on disk, its dictionary is gone. *)
Ends(outcome) ==
  /\ phase' = outcome
  /\ step' = 0
  /\ call' = Nothing
  /\ results' = [n \in Kept |-> Nothing]
  /\ UNCHANGED <<vars, made, directory, remote, outputs>>

Report ==
  /\ phase = "waiting" /\ ~Asking
  /\ verdict' = [same_boot |-> SameBoot, benchmarks_passed |-> BenchmarksPassed]
  /\ Ends("reported")

(* Ctrl-C: the last summary.json stays as it is, without a verdict. *)
Interrupt ==
  /\ phase = "waiting"
  /\ verdict' = NoVerdict
  /\ Ends("interrupted")

-----------------------------------------------------------------------------
(* The target's end of the command in turn.  None of it waits for the      *)
(* observers: a startup smoke may still run beside the benchmarks.         *)

Arrives == Asking /\ call = Nothing

Answered(r) ==
  /\ Arrives
  /\ call' = r
  /\ UNCHANGED <<vars, phase, made, directory, step, remote, results, outputs, verdict>>

(* cat and uname; a policy query may be refused or may not be installed. *)
AnswerQuery ==
  \/ Command \notin Benchmarks \cup Records /\ Answered(Result("ok", "none"))
  \/ Command = "settings" /\ \E e \in {"error", "missing"} : Answered(Result(e, "none"))

(* cat of a record: an empty file does not parse. *)
ReadReady(u) ==
  /\ Command = (IF u = "os" THEN "os_ready" ELSE "cuda_ready")
  /\ Answered(Result(IF ready[u] = "absent" THEN "error" ELSE "ok",
                     IF ready[u] = "whole" THEN "whole" ELSE "none"))

ReadSmoke ==
  /\ Command = "startup_cuda_smoke"
  /\ Answered(IF smoke.run = 0 THEN Result("error", "none")
              ELSE Result("ok", IF smoke.passed THEN "passed" ELSE "failed"))

StartBenchmark ==
  /\ Arrives /\ Command \in Benchmarks
  /\ call' = Result("running", "none")
  /\ remote' = remote \cup {Command}
  /\ UNCHANGED <<vars, phase, made, directory, step, results, outputs, verdict>>

BenchmarkMissing == Command \in Benchmarks /\ Answered(Result("missing", "none"))

(* A benchmark ends, whether its ssh is still there to hear it or not. *)
EndBenchmark(n) ==
  /\ n \in remote
  /\ remote' = remote \ {n}
  /\ \/ /\ call.exit = "running" /\ Command = n
        /\ call' \in {Result("ok", "passed"), Result("error", "none")}
     \/ /\ ~(call.exit = "running" /\ Command = n)
        /\ call' = call
  /\ UNCHANGED <<vars, phase, made, directory, step, results, outputs, verdict>>

(***************************************************************************)
(* A step of the observers; a reboot also ends every benchmark, and what   *)
(* ran cannot answer any more.                                             *)
(***************************************************************************)
TargetStep ==
  /\ Next
  /\ remote' = IF boot' = boot THEN remote ELSE {}
  /\ UNCHANGED <<phase, made, directory, step, call, results, outputs, verdict>>

-----------------------------------------------------------------------------
HostStep ==
  \/ \E d \in Directories : Begin(d)
  \/ Receive \/ Lose \/ Report \/ Interrupt

RemoteStep ==
  /\ Asking
  /\ \/ AnswerQuery
     \/ \E u \in Units : ReadReady(u)
     \/ ReadSmoke
     \/ StartBenchmark \/ BenchmarkMissing

BenchNext ==
  \/ HostStep
  \/ RemoteStep
  \/ \E n \in Benchmarks : EndBenchmark(n)
  \/ TargetStep

BenchSpec == BenchInit /\ [][BenchNext]_benchVars

-----------------------------------------------------------------------------
(* Properties *)

Exits == {"none", "running", "ok", "error", "missing", "cut"}
ResultType == [exit : Exits, json : {"none", "whole", "passed", "failed"},
               boot : Nat, run : Nat]

(* Type invariant of the collector and the target. *)
BenchTypeOK ==
  /\ ReadinessTypeOK
  /\ phase \in {"idle", "waiting", "reported", "interrupted"}
  /\ made \in SUBSET Directories
  /\ directory \in Directories
  /\ step \in 0 .. Len(Commands) + 1
  /\ call \in ResultType
  /\ remote \in SUBSET Benchmarks
  /\ results \in [Kept -> {r \in ResultType : r.exit # "running"}]
  /\ outputs \in [Directories -> [BootIds -> Nat]]
  /\ verdict \in [same_boot : BOOLEAN, benchmarks_passed : BOOLEAN]

(***************************************************************************)
(* same_boot speaks for the whole report: every command of this session    *)
(* was asked, and every answer it holds came from the boot of the first,   *)
(* although all that main() compares is two files of its directory.        *)
(***************************************************************************)
SameBootSpeaksForAll ==
  [][phase' = "reported" /\ verdict'.same_boot =>
       \A n \in Kept :
         /\ results[n].exit # "none"
         /\ results[n].boot \in {0, outputs[directory]["boot_id_before"]}]_hostVars

(***************************************************************************)
(* A timeout, a lost connection or a reboot never leads the collector to   *)
(* start a benchmark beside one of its own that still runs on the target,  *)
(* where it would distort the timings.                                     *)
(***************************************************************************)
OneWorkload == \A m, n \in remote : m = n

(***************************************************************************)
(* A report of one boot that shows the CUDA milestone shows a startup      *)
(* smoke that passed, as long as the unit was not run again between the    *)
(* two reads: the order of the reads against the order of the writes.      *)
(***************************************************************************)
ReportIsConsistent ==
  [][(/\ phase' = "reported" /\ verdict'.same_boot
      /\ results["cuda_ready"].json = "whole"
      /\ results["cuda_ready"].run = results["startup_cuda_smoke"].run)
        => results["startup_cuda_smoke"].json = "passed"]_hostVars
=============================================================================
