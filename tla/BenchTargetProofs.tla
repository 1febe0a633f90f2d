------------------------- MODULE BenchTargetProofs --------------------------
(***************************************************************************)
(* Theorems about BenchTarget, for any number of boots, restarts and       *)
(* output directories: the types, one workload at a time, and what a       *)
(* report's boot IDs, smoke and milestone say of each other.               *)
(***************************************************************************)
EXTENDS BenchTarget, ReadinessProofs

(***************************************************************************)
(* While a session goes on, the only benchmark on the target is the one    *)
(* that its ssh waits for; once it has stopped asking, one may be left.    *)
(***************************************************************************)
OnlyTheAwaited ==
  Asking => remote = {} \/ (call.exit = "running" /\ remote = {Command})

WorkInv == OnlyTheAwaited /\ OneWorkload

(***************************************************************************)
(* Every step of the collector keeps it: after a cut it asks no more.      *)
(***************************************************************************)
LEMMA HostKeepsWork == ASSUME WorkInv, HostStep PROVE WorkInv'
<1> USE DEF WorkInv, OnlyTheAwaited, OneWorkload, Asking, Command
<1>1. ASSUME NEW d \in Directories, Begin(d) PROVE WorkInv'
  BY <1>1 DEF Begin
<1>2. CASE Receive
  <2>1. remote = {} /\ remote' = {} BY <1>2 DEF Receive
  <2> QED BY <2>1
<1>3. CASE Lose
  <2>1. step' = Len(Commands) + 1 /\ remote' = remote
    BY <1>3 DEF Lose, Stops, Cut, Nothing
  <2>2. ~(Len(Commands) + 1 <= Len(Commands))
    BY DEF Commands
  <2>3. ~Asking' BY <2>1, <2>2
  <2> QED BY <2>1, <2>3
<1>4. CASE Report BY <1>4 DEF Report, Ends
<1>5. CASE Interrupt BY <1>5 DEF Interrupt, Ends
<1> QED BY <1>1, <1>2, <1>3, <1>4, <1>5 DEF HostStep

(***************************************************************************)
(* So does every step of the target.                                       *)
(***************************************************************************)
LEMMA TargetKeepsWork ==
  ASSUME WorkInv, RemoteStep \/ (\E n \in Benchmarks : EndBenchmark(n)) \/ TargetStep
  PROVE  WorkInv'
<1> USE DEF WorkInv, OnlyTheAwaited, OneWorkload, Asking, Command
<1>1. ASSUME RemoteStep, ~StartBenchmark PROVE WorkInv'
  <2>1. remote = {} /\ remote' = remote
    BY <1>1 DEF RemoteStep, AnswerQuery, ReadReady, ReadSmoke, BenchmarkMissing,
                Answered, Arrives, Nothing
  <2> QED BY <2>1
<1>2. CASE StartBenchmark
  <2>1. remote = {} /\ remote' = {Command} /\ step' = step /\ call'.exit = "running"
    BY <1>2 DEF StartBenchmark, Arrives, Nothing, Result
  <2> QED BY <2>1
<1>3. ASSUME NEW n \in Benchmarks, EndBenchmark(n) PROVE WorkInv'
  BY <1>3 DEF EndBenchmark
<1>4. CASE TargetStep BY <1>4 DEF TargetStep
<1> QED BY <1>1, <1>2, <1>3, <1>4

LEMMA WorkStep == WorkInv /\ [BenchNext]_benchVars => WorkInv'
<1> SUFFICES ASSUME WorkInv, [BenchNext]_benchVars PROVE WorkInv'
  OBVIOUS
<1>1. CASE UNCHANGED benchVars
  BY <1>1 DEF benchVars, hostVars, WorkInv, OnlyTheAwaited, OneWorkload, Asking, Command
<1> QED BY <1>1, HostKeepsWork, TargetKeepsWork DEF BenchNext

(***************************************************************************)
(* The collector never starts a benchmark beside one of its own, however   *)
(* many connections it loses and however often the target reboots.         *)
(***************************************************************************)
THEOREM NoWorkloadBesideAnother == BenchSpec => []OneWorkload
<1>1. BenchInit => WorkInv
  BY DEF BenchInit, WorkInv, OnlyTheAwaited, OneWorkload, Asking
<1>2. WorkInv /\ [BenchNext]_benchVars => WorkInv' BY WorkStep
<1>3. WorkInv => OneWorkload
  BY DEF WorkInv
<1> QED BY <1>1, <1>2, <1>3, PTL DEF BenchSpec

-----------------------------------------------------------------------------
(***************************************************************************)
(* Types.                                                                  *)
(***************************************************************************)
\* The order of the commands, each in one place.
LEMMA Order ==
  /\ Len(Commands) = 8
  /\ Commands[1] = "boot_id_before" /\ Commands[2] = "settings"
  /\ Commands[3] = "os_ready" /\ Commands[4] = "cuda_ready"
  /\ Commands[5] = "startup_cuda_smoke" /\ Commands[6] = "cpu"
  /\ Commands[7] = "cuda" /\ Commands[8] = "boot_id_after"
BY DEF Commands

LEMMA Places ==
  /\ \A j, k \in 1 .. 8 : Commands[j] = Commands[k] => j = k
  /\ \A n \in Kept \ {"boot_id_after"} : \E k \in 1 .. 7 : Commands[k] = n
  /\ \A k \in 1 .. 8 : /\ Commands[k] = "boot_id_before" => k = 1
                       /\ Commands[k] = "cuda_ready" => k = 4
                       /\ Commands[k] = "boot_id_after" => k = 8
BY Order DEF Kept, BootIds, Benchmarks

LEMMA ResultTyped ==
  ASSUME ReadinessTypeOK, NEW e \in Exits,
         NEW j \in {"none", "whole", "passed", "failed"}
  PROVE  /\ Result(e, j) \in ResultType
         /\ Result(e, j).exit = e /\ Result(e, j).json = j /\ Result(e, j).boot = boot
BY DEF Result, ResultType, ReadinessTypeOK

\* The run of a result is the activation for the two records of the milestone.
LEMMA ResultRun ==
  ASSUME NEW e, NEW j, Command \in {"cuda_ready", "startup_cuda_smoke"}
  PROVE  Result(e, j).run = activation
BY DEF Result, Command

LEMMA NoAnswer ==
  /\ Nothing \in ResultType /\ Cut \in ResultType
  /\ Nothing.exit = "none" /\ Nothing.json = "none" /\ Nothing.boot = 0 /\ Nothing.run = 0
  /\ Cut.exit = "cut" /\ Cut.json = "none" /\ Cut.boot = 0 /\ Cut.run = 0
BY DEF Nothing, Cut, ResultType, Exits

\* What Record leaves of a result r and of the output that was printed.
LEMMA RecordEffect ==
  ASSUME BenchTypeOK, NEW r \in ResultType, r.exit # "running",
         NEW printed \in ResultType, Record(r, printed)
  PROVE  /\ results' \in [Kept -> {s \in ResultType : s.exit # "running"}]
         /\ outputs' \in [Directories -> [BootIds -> Nat]]
         /\ \A n \in Kept : results'[n] = IF n = Command THEN r ELSE results[n]
         /\ \A d \in Directories, n \in BootIds :
               outputs'[d][n] = IF d = directory /\ n = Command
                                THEN printed.boot ELSE outputs[d][n]
<1>1. results \in [Kept -> {s \in ResultType : s.exit # "running"}]
  BY DEF BenchTypeOK
<1>2. /\ results' \in [Kept -> {s \in ResultType : s.exit # "running"}]
      /\ \A n \in Kept : results'[n] = IF n = Command THEN r ELSE results[n]
  BY <1>1 DEF Record
<1>3. /\ outputs \in [Directories -> [BootIds -> Nat]] /\ directory \in Directories
      /\ printed.boot \in Nat
  BY DEF BenchTypeOK, ResultType
<1>4. /\ outputs' \in [Directories -> [BootIds -> Nat]]
      /\ \A d \in Directories, n \in BootIds :
            outputs'[d][n] = IF d = directory /\ n = Command
                             THEN printed.boot ELSE outputs[d][n]
  BY <1>3 DEF Record
<1> QED BY <1>2, <1>4

\* The two ways a command ends for the host: what is recorded of it.
LEMMA Recorded ==
  ASSUME BenchTypeOK, Receive \/ Lose
  PROVE  \E r, printed \in ResultType :
           /\ r.exit \notin {"none", "running"} /\ printed \in {Nothing, call}
           /\ Record(r, printed)
           /\ step' = IF Stops(r) THEN Len(Commands) + 1 ELSE step + 1
           /\ (r = call /\ printed = call /\ call.exit \notin {"none", "running"}) \/ r = Cut
<1>1. call \in ResultType BY DEF BenchTypeOK
<1>2. CASE Receive BY <1>1, <1>2 DEF Receive
<1>3. CASE Lose
  <2>1. PICK printed \in {Nothing, call} : Record(Cut, printed) BY <1>3 DEF Lose
  <2>2. step' = IF Stops(Cut) THEN Len(Commands) + 1 ELSE step + 1 BY <1>3 DEF Lose
  <2> QED BY <1>1, <2>1, <2>2, NoAnswer
<1> QED BY <1>2, <1>3

LEMMA BenchTypeInit == BenchInit => BenchTypeOK
<1> SUFFICES ASSUME BenchInit PROVE BenchTypeOK
  OBVIOUS
<1>1. ReadinessTypeOK BY InitTypes DEF BenchInit
<1>2. results \in [Kept -> {r \in ResultType : r.exit # "running"}]
  BY NoAnswer DEF BenchInit
<1>3. step \in 0 .. Len(Commands) + 1 BY Order DEF BenchInit
<1> QED BY <1>1, <1>2, <1>3, NoAnswer DEF BenchInit, BenchTypeOK, NoVerdict

\* The readiness observers keep their types as long as their own steps run.
LEMMA TargetType == BenchTypeOK /\ ([Next]_vars) => ReadinessTypeOK'
BY TypeStep DEF BenchTypeOK

LEMMA HostType == ASSUME BenchTypeOK, HostStep PROVE BenchTypeOK'
<1>0. ASSUME UNCHANGED vars PROVE ReadinessTypeOK'
  BY <1>0, TargetType
<1> USE DEF BenchTypeOK
<1>1. ASSUME NEW d \in Directories, Begin(d) PROVE BenchTypeOK'
  BY <1>0, <1>1, Order DEF Begin
<1>2. CASE Receive \/ Lose
  <2>1. PICK r \in ResultType, printed \in ResultType :
           /\ r.exit \notin {"none", "running"} /\ Record(r, printed)
           /\ step' = IF Stops(r) THEN Len(Commands) + 1 ELSE step + 1
    BY <1>2, Recorded
  <2>2. /\ results' \in [Kept -> {s \in ResultType : s.exit # "running"}]
        /\ outputs' \in [Directories -> [BootIds -> Nat]]
    BY <2>1, RecordEffect
  <2>3. step' \in 0 .. Len(Commands) + 1
    BY <1>2, <2>1, Order DEF Receive, Lose, Asking
  <2>4. call' \in ResultType BY <1>2, NoAnswer DEF Receive, Lose
  <2>5. UNCHANGED <<vars, phase, made, directory, remote, verdict>>
    BY <1>2 DEF Receive, Lose
  <2> QED BY <1>0, <2>2, <2>3, <2>4, <2>5
<1>3. CASE Report \/ Interrupt
  <2>1. verdict' \in [same_boot : BOOLEAN, benchmarks_passed : BOOLEAN]
    <3>1. SameBoot \in BOOLEAN /\ BenchmarksPassed \in BOOLEAN
      BY DEF SameBoot, BenchmarksPassed
    <3>2. \A b, c \in BOOLEAN : [same_boot |-> b, benchmarks_passed |-> c]
                                 \in [same_boot : BOOLEAN, benchmarks_passed : BOOLEAN]
      OBVIOUS
    <3>3. [same_boot |-> SameBoot, benchmarks_passed |-> BenchmarksPassed]
            \in [same_boot : BOOLEAN, benchmarks_passed : BOOLEAN]
      BY <3>1, <3>2, Zenon
    <3> QED BY <1>3, <3>2, <3>3, Zenon DEF Report, Interrupt, NoVerdict
  <2>2. results' \in [Kept -> {r \in ResultType : r.exit # "running"}]
        /\ call' \in ResultType /\ step' \in 0 .. Len(Commands) + 1
    BY <1>3, NoAnswer, Order DEF Report, Interrupt, Ends
  <2>3. /\ UNCHANGED <<vars, made, directory, remote, outputs>>
        /\ phase' \in {"idle", "waiting", "reported", "interrupted"}
    BY <1>3 DEF Report, Interrupt, Ends
  <2> QED BY <1>0, <2>1, <2>2, <2>3
<1> QED BY <1>1, <1>2, <1>3 DEF HostStep

\* What the target's end of the command in turn gives: an answer of this boot.
LEMMA Answer ==
  ASSUME BenchTypeOK, RemoteStep
  PROVE  \E e \in Exits \ {"none"}, j \in {"none", "whole", "passed", "failed"} :
           /\ call' = Result(e, j)
           /\ Command = "cuda_ready" /\ j = "whole" => ready["cuda"] = "whole"
           /\ Command = "startup_cuda_smoke" /\ smoke.run # 0 /\ smoke.passed => j = "passed"
           /\ e = "running" => Command \in Benchmarks
<1> USE DEF Exits
<1>1. CASE AnswerQuery
  BY <1>1 DEF AnswerQuery, Answered, Benchmarks, Records
<1>2. ASSUME NEW u \in Units, ReadReady(u)
      PROVE  \E e \in {"ok", "error"}, j \in {"none", "whole"} :
               /\ call' = Result(e, j)
               /\ Command \in {"os_ready", "cuda_ready"}
               /\ Command = "cuda_ready" /\ j = "whole" => ready["cuda"] = "whole"
  BY <1>2 DEF ReadReady, Answered, Units
<1>3. CASE ReadSmoke
  BY <1>3 DEF ReadSmoke, Answered
<1>4. CASE StartBenchmark \/ BenchmarkMissing
  BY <1>4 DEF StartBenchmark, BenchmarkMissing, Answered, Benchmarks
<1> QED BY <1>1, <1>2, <1>3, <1>4 DEF RemoteStep

\* It moves nothing but the answer and the benchmarks that run.
LEMMA AnswerFrame ==
  ASSUME RemoteStep
  PROVE  /\ UNCHANGED <<vars, phase, made, directory, step, results, outputs, verdict>>
         /\ Asking /\ call = Nothing
         /\ remote' = remote \/ (StartBenchmark /\ remote' = remote \cup {Command})
BY DEF RemoteStep, AnswerQuery, ReadReady, ReadSmoke, StartBenchmark, BenchmarkMissing,
       Answered, Arrives

LEMMA BenchTypeNext == BenchTypeOK /\ [BenchNext]_benchVars => BenchTypeOK'
<1> SUFFICES ASSUME BenchTypeOK, [BenchNext]_benchVars PROVE BenchTypeOK'
  OBVIOUS
<1>0. ASSUME UNCHANGED vars PROVE ReadinessTypeOK'
  BY <1>0, TargetType
<1>a. ReadinessTypeOK BY DEF BenchTypeOK
<1>1. CASE HostStep BY <1>1, HostType
<1>2. CASE RemoteStep
  <2>1. call' \in ResultType BY <1>2, <1>a, Answer, ResultTyped
  <2>2. remote' \in SUBSET Benchmarks
    BY <1>2, AnswerFrame DEF StartBenchmark, BenchTypeOK
  <2> QED BY <1>0, <1>2, <2>1, <2>2, AnswerFrame DEF BenchTypeOK
<1>3. ASSUME NEW n \in Benchmarks, EndBenchmark(n) PROVE BenchTypeOK'
  <2>1. call' \in ResultType BY <1>3, <1>a, ResultTyped DEF EndBenchmark, BenchTypeOK, Exits
  <2> QED BY <1>0, <1>3, <2>1 DEF EndBenchmark, BenchTypeOK
<1>4. CASE TargetStep BY <1>4, TargetType DEF TargetStep, BenchTypeOK
<1>5. CASE UNCHANGED benchVars BY <1>0, <1>5 DEF benchVars, hostVars, BenchTypeOK
<1> QED BY <1>1, <1>2, <1>3, <1>4, <1>5 DEF BenchNext

\* The collector and the target keep their types.
THEOREM BenchTypes == BenchSpec => []BenchTypeOK
<1> QED BY BenchTypeInit, BenchTypeNext, PTL DEF BenchSpec

-----------------------------------------------------------------------------
(***************************************************************************)
(* A session's record.  Before and After are the two boot IDs in the files *)
(* of its directory; a command is heard when it was answered and its       *)
(* result kept.                                                            *)
(***************************************************************************)
Before == outputs[directory]["boot_id_before"]
After  == outputs[directory]["boot_id_after"]

Heard(n) == results[n].exit # "none" /\ results[n].boot # 0

\* Between sessions nothing is kept, and a directory that is still to be made
\* holds no boot ID; so a session starts with two empty files.
IdleInv ==
  /\ \A d \in Directories \ made : \A n \in BootIds : outputs[d][n] = 0
  /\ phase # "waiting" => call = Nothing /\ results = [n \in Kept |-> Nothing]
  /\ phase = "waiting" => directory \in made /\ step # 0

\* What is kept was answered between the first boot ID and now, and what is on
\* its way was answered no earlier than what is kept.
BootInv ==
  /\ boot # 0
  /\ phase = "waiting" =>
       /\ Before <= boot
       /\ \A n \in Kept : /\ results[n].boot <= boot
                          /\ results[n].boot # 0 => Before <= results[n].boot
  /\ call # Nothing =>
       /\ call.exit # "none" /\ call.boot # 0
       /\ call.boot <= boot /\ Before <= call.boot
       /\ \A n \in Kept : results[n].boot <= call.boot

\* A session that still asks has heard every command before the one in turn,
\* and nothing of that one and the later ones.
AskingInv ==
  Asking =>
    /\ After = 0
    /\ \A k \in 1 .. step - 1 : Commands[k] \in Kept => Heard(Commands[k])
    /\ \A k \in step .. Len(Commands) : Commands[k] \in Kept => results[Commands[k]].boot = 0

\* A second boot ID stands for a session that was heard to its end, and that
\* left no benchmark behind.
AfterInv ==
  /\ phase = "waiting" /\ After # 0 =>
       /\ ~Asking /\ remote = {}
       /\ \A n \in Kept : /\ results[n].exit # "none" /\ results[n].boot <= After
                          /\ n # "boot_id_after" => results[n].boot # 0
  /\ phase = "reported" /\ verdict.same_boot => remote = {}

SessionInv == BenchTypeOK /\ WorkInv /\ IdleInv /\ BootInv /\ AskingInv /\ AfterInv

(***************************************************************************)
(* The smoke of an activation is published once, before the record that    *)
(* vouches for it: the file stays as it is until the next activation.      *)
(***************************************************************************)
ActivationInv ==
  /\ smoke.run <= activation
  /\ pc["cuda"] \in {"mktemp", "trap", "probing", "publish"} => smoke.run < activation
  /\ pc["cuda"] \in {"uptime", "open", "fill", "mark"} => activation # 0
  /\ ready["cuda"] # "absent" => activation # 0

\* A whole cuda-ready.json that was read stays true of the target until the
\* cuda script runs again or the target reboots.
Vouched(r) ==
  r.json = "whole" =>
    /\ r.boot # 0 /\ r.boot <= boot /\ r.run # 0
    /\ r.boot = boot =>
         /\ r.run <= activation
         /\ r.run = activation => smoke = [run |-> r.run, passed |-> TRUE]

\* A smoke read from the boot and the activation of that record has passed.
Agrees(s) ==
  /\ results["cuda_ready"].json = "whole"
  /\ s.boot = results["cuda_ready"].boot /\ s.run = results["cuda_ready"].run
  => s.json = "passed"

MilestoneInv ==
  phase = "waiting" =>
    /\ Vouched(results["cuda_ready"])
    /\ Agrees(results["startup_cuda_smoke"])
    /\ Asking /\ Command = "cuda_ready" => Vouched(call)
    /\ Asking /\ Command = "startup_cuda_smoke" => Agrees(call)

(***************************************************************************)
(* What a step of the target does to what was read of it.                  *)
(***************************************************************************)
LEMMA TargetMoves ==
  ASSUME ReadinessTypeOK, ActivationInv, [Next]_vars
  PROVE  /\ ActivationInv'
         /\ boot' \in {boot, boot + 1}
         /\ boot' = boot =>
              /\ activation <= activation'
              /\ activation' = activation /\ smoke.run = activation => smoke' = smoke
<1> USE DEF ReadinessTypeOK, Labels, ActivationInv, Units
<1> DEFINE Steady == /\ boot' = boot /\ activation' = activation /\ smoke' = smoke
<1>1. ASSUME NEW u \in Units, UnitStep(u) PROVE ActivationInv' /\ Steady
  <2>1. CASE Start(u) BY <2>1 DEF Start, FirstStep
  <2>2. CASE DependencyFailed(u) BY <2>2 DEF DependencyFailed, scriptVars
  <2>3. CASE ReadUptime(u) BY <2>3 DEF ReadUptime, At
  <2>4. CASE UptimeInvalid(u) BY <2>4 DEF UptimeInvalid, At, Ended
  <2>5. CASE OpenRecord(u) BY <2>5 DEF OpenRecord, At
  <2>6. CASE FillRecord(u) BY <2>6 DEF FillRecord, At
  <2>7. CASE EmitMarker(u) BY <2>7 DEF EmitMarker, At, Ended
  <2>8. CASE TimeoutWithoutTrap(u) BY <2>8 DEF TimeoutWithoutTrap, Ended
  <2>9. CASE TimeoutWithTrap(u) BY <2>9 DEF TimeoutWithTrap, Trapping
  <2>10. CASE Kill(u) BY <2>10 DEF Kill, Ended
  <2> QED BY <1>1, <2>1, <2>2, <2>3, <2>4, <2>5, <2>6, <2>7, <2>8, <2>9, <2>10
          DEF UnitStep
<1>2. CASE ClearReady BY <1>2 DEF ClearReady, At
<1>3. CASE Publish BY <1>3 DEF Publish, At
<1>4. CASE CudaStep /\ ~ClearReady /\ ~Publish
  BY <1>4 DEF CudaStep, MakeTemporary, SetTrap, ProbeEnds, PublishFails, At, Ended
<1>5. ASSUME NEW u \in Restarted, Restart(u) PROVE ActivationInv' /\ Steady
  BY <1>5 DEF Restart, scriptVars
<1>6. CASE Reboot BY <1>6 DEF Reboot, NoSmoke
<1>7. CASE UNCHANGED vars BY <1>7 DEF vars, scriptVars
<1> QED BY <1>1, <1>2, <1>3, <1>4, <1>5, <1>6, <1>7 DEF Next

(***************************************************************************)
(* The session's record, step by step.                                     *)
(***************************************************************************)
LEMMA SessionInit == BenchInit => SessionInv
<1> SUFFICES ASSUME BenchInit PROVE SessionInv
  OBVIOUS
<1>1. BenchTypeOK BY BenchTypeInit
<1>2. WorkInv /\ AskingInv /\ AfterInv
  BY DEF BenchInit, WorkInv, OnlyTheAwaited, OneWorkload, Asking, AskingInv, AfterInv
<1>3. IdleInv BY DEF BenchInit, IdleInv
<1>4. BootInv BY DEF BenchInit, Init, BootInv
<1> QED BY <1>1, <1>2, <1>3, <1>4 DEF SessionInv

\* A new session starts with an empty record and empty files.
LEMMA SessionBegins ==
  ASSUME SessionInv, NEW d \in Directories, Begin(d)
  PROVE  IdleInv' /\ BootInv' /\ AskingInv' /\ AfterInv'
<1> USE DEF SessionInv
<1>1. /\ phase # "waiting" /\ d \in made' /\ directory' = d /\ step' = 1
      /\ phase' = "waiting" /\ made \subseteq made'
      /\ UNCHANGED <<vars, call, remote, results, outputs>>
  BY DEF Begin
<1>2. /\ call = Nothing /\ \A n \in Kept : results[n] = Nothing
      /\ \A n \in BootIds : outputs[d][n] = 0
  BY <1>1 DEF IdleInv, Begin
<1>3. boot' = boot /\ boot \in Nat BY <1>1 DEF vars, BenchTypeOK, ReadinessTypeOK
<1>4. Before' = 0 /\ After' = 0 BY <1>1, <1>2 DEF Before, After, BootIds
<1>5. IdleInv' BY <1>1 DEF IdleInv
<1>6. BootInv' BY <1>1, <1>2, <1>3, <1>4, NoAnswer DEF BootInv
<1>7. AskingInv' BY <1>1, <1>2, <1>4, NoAnswer DEF AskingInv, Asking
<1>8. AfterInv' BY <1>1, <1>4 DEF AfterInv
<1> QED BY <1>5, <1>6, <1>7, <1>8

\* The end of a command, with its answer or without.
LEMMA SessionRecords ==
  ASSUME SessionInv, Receive \/ Lose
  PROVE  IdleInv' /\ BootInv' /\ AskingInv' /\ AfterInv'
<1> USE DEF SessionInv
<1>1. /\ Asking /\ call' = Nothing /\ phase = "waiting"
      /\ UNCHANGED <<vars, phase, made, directory, remote, verdict>>
  BY DEF Receive, Lose, Asking
<1>2. PICK r \in ResultType, printed \in ResultType :
           /\ r.exit \notin {"none", "running"} /\ printed \in {Nothing, call}
           /\ Record(r, printed)
           /\ step' = IF Stops(r) THEN Len(Commands) + 1 ELSE step + 1
           /\ (r = call /\ printed = call /\ call.exit \notin {"none", "running"}) \/ r = Cut
  BY Recorded
<1>3. /\ \A n \in Kept : results'[n] = IF n = Command THEN r ELSE results[n]
      /\ \A d \in Directories, n \in BootIds :
            outputs'[d][n] = IF d = directory /\ n = Command
                             THEN printed.boot ELSE outputs[d][n]
  BY <1>2, RecordEffect
<1>4. step \in 1 .. 8 /\ Command = Commands[step] /\ directory \in made
      /\ directory \in Directories
  BY <1>1, Order DEF BenchTypeOK, IdleInv, Asking, Command
<1>5. /\ \A n \in Kept : results[n].boot \in Nat
      /\ call.boot \in Nat /\ boot \in Nat /\ Before \in Nat /\ After \in Nat
      /\ boot' = boot
  BY <1>1, <1>4 DEF BenchTypeOK, ReadinessTypeOK, ResultType, Before, After, BootIds, vars
<1>6. /\ Before' = IF Command = "boot_id_before" THEN printed.boot ELSE Before
      /\ After' = IF Command = "boot_id_after" THEN printed.boot ELSE After
  BY <1>1, <1>3, <1>4 DEF Before, After, BootIds
<1>7. /\ After = 0
      /\ \A k \in 1 .. step - 1 : Commands[k] \in Kept => Heard(Commands[k])
      /\ \A k \in step .. 8 : Commands[k] \in Kept => results[Commands[k]].boot = 0
  BY <1>1, Order DEF AskingInv
<1>8. /\ call # Nothing => /\ call.exit # "none" /\ call.boot # 0
                           /\ call.boot <= boot /\ Before <= call.boot
                           /\ \A n \in Kept : results[n].boot <= call.boot
      /\ Before <= boot
      /\ \A n \in Kept : /\ results[n].boot <= boot
                         /\ results[n].boot # 0 => Before <= results[n].boot
  BY <1>1 DEF BootInv
<1>a. r = Cut \/ (r = call /\ call # Nothing /\ printed = call)
  BY <1>2, NoAnswer
<1> HIDE DEF SessionInv
<1>9. IdleInv'
  <2>1. \A d \in Directories \ made : \A n \in BootIds : outputs[d][n] = 0
    BY DEF SessionInv, IdleInv
  <2>2. step' # 0 BY <1>2, <1>4, Order
  <2> QED BY <1>1, <1>3, <1>4, <2>1, <2>2 DEF IdleInv
<1>10. BootInv'
  <2>1. CASE Command = "boot_id_before"
    <3>1. step = 1 BY <1>4, <2>1, Order, Places
    <3>2. \A n \in Kept : results[n].boot = 0
      <4>1. ASSUME NEW n \in Kept PROVE \E k \in 1 .. 8 : Commands[k] = n
        BY Places, Order
      <4> QED BY <1>7, <3>1, <4>1
    <3>3. \A n \in Kept : results'[n].boot \in {0, r.boot} BY <1>3, <3>2
    <3>4. Before' = printed.boot BY <1>6, <2>1
    <3>5. Before' <= boot BY <1>2, <1>5, <1>8, <3>4, NoAnswer
    <3>6. r.boot # 0 => r.boot <= boot /\ Before' = r.boot
      BY <1>8, <1>a, <3>4, NoAnswer
    <3>7. r.boot \in Nat BY <1>2 DEF ResultType
    <3> QED BY <1>1, <1>5, <3>3, <3>5, <3>6, <3>7 DEF BootInv, SessionInv
  <2>2. CASE Command # "boot_id_before"
    <3>1. Before' = Before BY <1>6, <2>2
    <3>2. r.boot # 0 => r.boot <= boot /\ Before <= r.boot
      BY <1>8, <1>a, NoAnswer
    <3>3. r.boot = 0 => r.boot <= boot BY <1>5
    <3> QED BY <1>1, <1>3, <1>5, <1>8, <3>1, <3>2, <3>3 DEF BootInv, SessionInv
  <2> QED BY <2>1, <2>2
<1>11. AskingInv'
  <2> SUFFICES ASSUME Asking'
               PROVE  /\ After' = 0
                      /\ \A k \in 1 .. step' - 1 : Commands[k] \in Kept => Heard(Commands[k])'
                      /\ \A k \in step' .. 8 :
                            Commands[k] \in Kept => results'[Commands[k]].boot = 0
    BY Order DEF AskingInv
  <2>1. step' = step + 1 /\ step < 8 /\ ~Stops(r)
    BY <1>2, <1>4, Order DEF Asking
  <2>2. r = call /\ call # Nothing BY <1>a, <2>1, NoAnswer DEF Stops
  <2>3. After' = 0 BY <1>4, <1>6, <1>7, <2>1, Order, Places
  <2>4. ASSUME NEW k \in 1 .. step' - 1, Commands[k] \in Kept PROVE Heard(Commands[k])'
    <3>1. CASE Commands[k] = Command
      BY <1>2, <1>3, <1>8, <2>2, <2>4, <3>1 DEF Heard
    <3>2. CASE Commands[k] # Command
      <4>1. k \in 1 .. step - 1 BY <1>4, <2>1, <3>2
      <4> QED BY <1>3, <1>7, <2>4, <3>2, <4>1 DEF Heard
    <3> QED BY <3>1, <3>2
  <2>5. ASSUME NEW k \in step' .. 8, Commands[k] \in Kept
        PROVE  results'[Commands[k]].boot = 0
    <3>1. k \in step .. 8 /\ k \in 1 .. 8 /\ k # step BY <1>4, <2>1
    <3>2. Commands[k] # Command BY <1>4, <3>1, Places
    <3> QED BY <1>3, <1>7, <2>5, <3>1, <3>2
  <2> QED BY <2>3, <2>4, <2>5
<1>12. AfterInv'
  <2>1. phase' = "waiting" BY <1>1
  <2> SUFFICES ASSUME After' # 0
               PROVE  /\ ~Asking' /\ remote' = {}
                      /\ \A n \in Kept : /\ results'[n].exit # "none"
                                         /\ results'[n].boot <= After'
                                         /\ n # "boot_id_after" => results'[n].boot # 0
    BY <2>1 DEF AfterInv
  <2>2. Command = "boot_id_after" /\ After' = printed.boot BY <1>6, <1>7
  <2>3. step = 8 BY <1>4, <2>2, Order, Places
  <2>4. printed = call /\ call # Nothing BY <1>2, <2>2, NoAnswer
  <2>5. ~Asking' BY <1>2, <2>3, Order DEF Asking
  <2>6. remote' = {}
    <3>1. remote \subseteq Benchmarks /\ Command \notin Benchmarks
      BY <2>2 DEF SessionInv, BenchTypeOK, Benchmarks
    <3>2. remote = {} \/ remote = {Command}
      BY <1>1 DEF SessionInv, WorkInv, OnlyTheAwaited
    <3> QED BY <1>1, <3>1, <3>2
  <2>7. ASSUME NEW n \in Kept, n # "boot_id_after" PROVE Heard(n)
    <3>1. PICK k \in 1 .. 7 : Commands[k] = n BY <2>7, Places
    <3> QED BY <1>7, <2>3, <3>1
  <2>8. r.boot <= call.boot BY <1>5, <1>a, NoAnswer
  <2> QED BY <1>2, <1>3, <1>8, <2>2, <2>4, <2>5, <2>6, <2>7, <2>8 DEF Heard
<1> QED BY <1>9, <1>10, <1>11, <1>12

\* The steps at the target's end of a connection: the answer is of this boot,
\* no older than anything the session holds.
LEMMA SessionAnswered ==
  ASSUME SessionInv, RemoteStep
  PROVE  IdleInv' /\ BootInv' /\ AskingInv' /\ AfterInv'
<1>1. /\ UNCHANGED <<vars, phase, made, directory, step, results, outputs, verdict>>
      /\ Asking /\ phase = "waiting"
  BY AnswerFrame DEF Asking
<1>2. PICK e \in Exits \ {"none"}, j \in {"none", "whole", "passed", "failed"} :
        call' = Result(e, j)
  BY Answer DEF SessionInv
<1>3. call'.exit # "none" /\ call'.boot = boot
  BY <1>2, ResultTyped DEF SessionInv, BenchTypeOK
<1>4. IdleInv' BY <1>1 DEF SessionInv, IdleInv
<1>5. Before' = Before /\ After' = After /\ boot' = boot
  BY <1>1 DEF Before, After, vars
<1>6. BootInv'
  <2>1. /\ boot # 0 /\ Before <= boot
        /\ \A n \in Kept : /\ results[n].boot <= boot
                           /\ results[n].boot # 0 => Before <= results[n].boot
    BY <1>1 DEF SessionInv, BootInv
  <2>2. results' = results /\ call' # Nothing BY <1>1, <1>3, NoAnswer
  <2>3. boot <= boot BY DEF SessionInv, BenchTypeOK, ReadinessTypeOK
  <2> QED BY <1>3, <1>5, <2>1, <2>2, <2>3 DEF BootInv
<1>7. AskingInv' BY <1>1, <1>5 DEF SessionInv, AskingInv, Asking, Heard
<1>8. AfterInv' BY <1>1, <1>5 DEF SessionInv, AfterInv, Asking
<1> QED BY <1>4, <1>6, <1>7, <1>8

LEMMA SessionBenchmarkEnds ==
  ASSUME SessionInv, NEW n \in Benchmarks, EndBenchmark(n)
  PROVE  IdleInv' /\ BootInv' /\ AskingInv' /\ AfterInv'
<1>1. /\ UNCHANGED <<vars, phase, made, directory, step, results, outputs, verdict>>
      /\ remote' = remote \ {n} /\ remote # {}
  BY DEF EndBenchmark
<1>2. \/ call' = call
      \/ /\ call.exit = "running"
         /\ \E e \in {"ok", "error"}, j \in {"passed", "none"} : call' = Result(e, j)
  BY DEF EndBenchmark
<1>3. Before' = Before /\ After' = After /\ boot' = boot /\ boot \in Nat
  BY <1>1 DEF Before, After, vars, SessionInv, BenchTypeOK, ReadinessTypeOK
<1>4. call' # call => /\ phase = "waiting" /\ call'.exit # "none" /\ call'.boot = boot
  <2>1. call.exit = "running" => call # Nothing BY NoAnswer
  <2> QED BY <1>2, <2>1, ResultTyped DEF SessionInv, IdleInv, BenchTypeOK, Exits
<1>5. IdleInv'
  BY <1>1, <1>4 DEF SessionInv, IdleInv
<1>6. BootInv' BY <1>1, <1>3, <1>4 DEF SessionInv, BootInv
<1>7. AskingInv' BY <1>1, <1>3 DEF SessionInv, AskingInv, Asking, Heard
<1>8. AfterInv' BY <1>1, <1>3 DEF SessionInv, AfterInv, Asking
<1> QED BY <1>5, <1>6, <1>7, <1>8

LEMMA SessionTarget ==
  ASSUME SessionInv, ActivationInv, TargetStep
  PROVE  IdleInv' /\ BootInv' /\ AskingInv' /\ AfterInv'
<1>1. /\ UNCHANGED <<phase, made, directory, step, call, results, outputs, verdict>>
      /\ remote' \in {remote, {}}
  BY DEF TargetStep
<1>2. boot \in Nat /\ boot' \in {boot, boot + 1}
  BY TargetMoves DEF TargetStep, SessionInv, BenchTypeOK, ReadinessTypeOK
<1>3. Before' = Before /\ After' = After
  BY <1>1 DEF Before, After
<1>4. /\ \A n \in Kept : results[n].boot \in Nat
      /\ call.boot \in Nat
      /\ phase = "waiting" => Before \in Nat
  BY DEF SessionInv, BenchTypeOK, IdleInv, ResultType, Before, BootIds
<1>5. IdleInv' BY <1>1 DEF SessionInv, IdleInv
<1>6. BootInv'
  <2>1. call # Nothing => phase = "waiting" BY DEF SessionInv, IdleInv
  <2>2. /\ boot # 0
        /\ phase = "waiting" =>
             /\ Before \in Nat /\ Before <= boot
             /\ \A n \in Kept : /\ results[n].boot <= boot
                                /\ results[n].boot # 0 => Before <= results[n].boot
        /\ call # Nothing =>
             /\ call.exit # "none" /\ call.boot # 0
             /\ call.boot <= boot /\ Before <= call.boot
             /\ \A n \in Kept : results[n].boot <= call.boot
    BY <1>4 DEF SessionInv, BootInv
  <2>3. phase' = phase /\ call' = call /\ results' = results BY <1>1
  <2>4. boot <= boot' /\ boot' # 0 /\ boot' \in Nat BY <1>2, <2>2
  <2>5. ASSUME NEW x \in Nat, x <= boot PROVE x <= boot'
    BY <1>2, <2>4, <2>5
  <2>6. phase = "waiting" => Before <= boot' /\ \A n \in Kept : results[n].boot <= boot'
    BY <1>4, <2>2, <2>5
  <2>7. call # Nothing => call.boot <= boot' BY <1>4, <2>2, <2>5
  <2> QED BY <1>3, <2>2, <2>3, <2>4, <2>6, <2>7 DEF BootInv
<1>7. AskingInv' BY <1>1, <1>3 DEF SessionInv, AskingInv, Asking, Heard
<1>8. AfterInv' BY <1>1, <1>3 DEF SessionInv, AfterInv, Asking
<1> QED BY <1>5, <1>6, <1>7, <1>8

\* The report, or Ctrl-C.
LEMMA SessionEnds ==
  ASSUME SessionInv, Report \/ Interrupt
  PROVE  IdleInv' /\ BootInv' /\ AskingInv' /\ AfterInv'
<1>1. /\ phase = "waiting" /\ phase' \in {"reported", "interrupted"} /\ call' = Nothing
      /\ results' = [n \in Kept |-> Nothing]
      /\ UNCHANGED <<vars, made, directory, remote, outputs>>
      /\ boot' = boot
  BY DEF Report, Interrupt, Ends, vars
<1>2. phase' = "reported" => /\ ~Asking
                             /\ verdict' = [same_boot |-> SameBoot,
                                            benchmarks_passed |-> BenchmarksPassed]
  BY DEF Report, Interrupt, Ends
<1>3. phase' = "reported" /\ verdict'.same_boot => After # 0
  BY <1>2 DEF SameBoot, After
<1>4. IdleInv' BY <1>1 DEF SessionInv, IdleInv
<1>5. BootInv' /\ AskingInv' BY <1>1 DEF SessionInv, BootInv, AskingInv, Asking
<1>6. AfterInv' BY <1>1, <1>3 DEF SessionInv, AfterInv
<1> QED BY <1>4, <1>5, <1>6

LEMMA SessionStep ==
  ASSUME SessionInv, ActivationInv, [BenchNext]_benchVars
  PROVE  SessionInv'
<1>1. BenchTypeOK' BY BenchTypeNext DEF SessionInv
<1>2. WorkInv' BY WorkStep DEF SessionInv
<1>3. IdleInv' /\ BootInv' /\ AskingInv' /\ AfterInv'
  <2>1. CASE HostStep BY <2>1, SessionBegins, SessionRecords, SessionEnds DEF HostStep
  <2>2. CASE UNCHANGED benchVars
    BY <2>2 DEF benchVars, hostVars, vars, SessionInv, IdleInv, BootInv, AskingInv, AfterInv,
                Asking, Heard, Before, After
  <2> QED BY <2>1, <2>2, SessionAnswered, SessionBenchmarkEnds, SessionTarget DEF BenchNext
<1> QED BY <1>1, <1>2, <1>3 DEF SessionInv

(***************************************************************************)
(* The milestone and the smoke, step by step.                              *)
(***************************************************************************)
LEMMA MilestoneHost ==
  ASSUME SessionInv, MilestoneInv, HostStep
  PROVE  MilestoneInv'
<1>0. {"cuda_ready", "startup_cuda_smoke"} \subseteq Kept BY DEF Kept
<1>1. ASSUME NEW d \in Directories, Begin(d) PROVE MilestoneInv'
  <2>1. results'["cuda_ready"].json = "none" /\ call' = Nothing
    BY <1>0, <1>1, NoAnswer DEF Begin, SessionInv, IdleInv
  <2> QED BY <2>1, NoAnswer DEF MilestoneInv, Vouched, Agrees
<1>2. CASE Receive \/ Lose
  <2>1. /\ Asking /\ phase = "waiting" /\ call' = Nothing /\ UNCHANGED vars
        /\ Command = Commands[step] /\ step \in 1 .. 8
    BY <1>2, Order DEF Receive, Lose, Asking, Command, SessionInv, BenchTypeOK, IdleInv
  <2>2. PICK r \in ResultType, printed \in ResultType :
           /\ r.exit \notin {"none", "running"}
           /\ Record(r, printed)
           /\ r = call \/ r = Cut
    BY <1>2, Recorded DEF SessionInv
  <2>3. \A n \in Kept : results'[n] = IF n = Command THEN r ELSE results[n]
    BY <2>2, RecordEffect DEF SessionInv
  <2>4. UNCHANGED <<boot, activation, smoke>> BY <2>1 DEF vars, scriptVars
  <2>5. Vouched(results'["cuda_ready"])
    BY <1>0, <2>1, <2>2, <2>3, NoAnswer DEF MilestoneInv, Vouched
  <2>6. Vouched(results["cuda_ready"])' BY <2>4, <2>5 DEF Vouched
  <2>7. Agrees(results["startup_cuda_smoke"])'
    <3>1. CASE Command = "cuda_ready"
      <4>1. step = 4 BY <2>1, <3>1, Order, Places
      <4>2. results["startup_cuda_smoke"].boot = 0
        BY <1>0, <2>1, <4>1, Order DEF SessionInv, AskingInv
      <4>3. results'["startup_cuda_smoke"].boot = 0 BY <1>0, <2>3, <3>1, <4>2
      <4> QED BY <2>5, <4>3 DEF Agrees, Vouched
    <3>2. CASE Command = "startup_cuda_smoke"
      <4>1. results'["startup_cuda_smoke"] = r /\ results'["cuda_ready"] = results["cuda_ready"]
        BY <1>0, <2>3, <3>2
      <4>2. CASE r = call BY <2>1, <3>2, <4>1, <4>2 DEF MilestoneInv, Agrees
      <4>3. CASE r = Cut BY <2>5, <4>1, <4>3, NoAnswer DEF Agrees, Vouched
      <4> QED BY <2>2, <4>2, <4>3
    <3>3. CASE Command \notin {"cuda_ready", "startup_cuda_smoke"}
      BY <1>0, <2>1, <2>3, <3>3 DEF MilestoneInv, Agrees
    <3> QED BY <3>1, <3>2, <3>3
  <2>8. Vouched(call)' /\ Agrees(call)'
    BY <2>1, <2>5, NoAnswer DEF Vouched, Agrees
  <2> QED BY <2>6, <2>7, <2>8 DEF MilestoneInv
<1>3. CASE Report \/ Interrupt
  BY <1>3 DEF Report, Interrupt, Ends, MilestoneInv
<1> QED BY <1>1, <1>2, <1>3 DEF HostStep

LEMMA MilestoneAnswered ==
  ASSUME SessionInv, ScriptInv, ActivationInv, MilestoneInv, RemoteStep
  PROVE  MilestoneInv'
<1>1. /\ UNCHANGED <<phase, step, results, boot, activation, smoke>>
      /\ phase = "waiting" /\ Asking
  BY AnswerFrame DEF Asking, vars, scriptVars
<1>2. PICK e \in Exits \ {"none"}, j \in {"none", "whole", "passed", "failed"} :
           /\ call' = Result(e, j)
           /\ Command = "cuda_ready" /\ j = "whole" => ready["cuda"] = "whole"
           /\ Command = "startup_cuda_smoke" /\ smoke.run # 0 /\ smoke.passed => j = "passed"
  BY Answer DEF SessionInv
<1>3. call'.json = j /\ call'.boot = boot
  BY <1>2, ResultTyped DEF SessionInv, BenchTypeOK
<1>4. boot \in Nat /\ boot # 0 /\ activation \in Nat
  BY DEF SessionInv, BootInv, BenchTypeOK, ReadinessTypeOK
<1>5. Vouched(results["cuda_ready"]) BY <1>1 DEF MilestoneInv
<1>6. Command = "cuda_ready" => Vouched(call)'
  <2> SUFFICES ASSUME Command = "cuda_ready", j = "whole" PROVE Vouched(call)'
    BY <1>3 DEF Vouched
  <2>1. smoke = [run |-> activation, passed |-> TRUE] /\ activation # 0
    BY <1>2 DEF ScriptInv, ReadyMeansSmokePassed, ActivationInv
  <2>2. call'.run = activation BY <1>2, ResultRun
  <2> QED BY <1>1, <1>3, <1>4, <2>1, <2>2 DEF Vouched
<1>7. Command = "startup_cuda_smoke" => Agrees(call)'
  <2> SUFFICES ASSUME Command = "startup_cuda_smoke", results["cuda_ready"].json = "whole",
                      boot = results["cuda_ready"].boot,
                      activation = results["cuda_ready"].run
               PROVE  j = "passed"
    <3>1. Command = "startup_cuda_smoke" => call'.run = activation BY <1>2, ResultRun
    <3> QED BY <1>1, <1>3, <3>1 DEF Agrees
  <2> QED BY <1>2, <1>5 DEF Vouched
<1>8. Command' = Command /\ Asking' = Asking BY <1>1 DEF Command, Asking
<1>9. Vouched(results["cuda_ready"])' /\ Agrees(results["startup_cuda_smoke"])'
  BY <1>1 DEF MilestoneInv, Vouched, Agrees
<1> QED BY <1>6, <1>7, <1>8, <1>9 DEF MilestoneInv

LEMMA MilestoneTarget ==
  ASSUME SessionInv, ActivationInv, MilestoneInv, TargetStep
  PROVE  MilestoneInv'
<1>1. UNCHANGED <<phase, step, call, results>> BY DEF TargetStep
<1>2. /\ boot' \in {boot, boot + 1}
      /\ boot' = boot =>
              /\ activation <= activation'
              /\ activation' = activation /\ smoke.run = activation => smoke' = smoke
  BY TargetMoves DEF TargetStep, SessionInv, BenchTypeOK
<1>3. boot \in Nat /\ activation \in Nat /\ activation' \in Nat
  BY BenchTypeNext DEF SessionInv, BenchTypeOK, ReadinessTypeOK, BenchNext
<1>4. ASSUME NEW r \in ResultType, Vouched(r) PROVE Vouched(r)'
  <2>1. r.boot \in Nat /\ r.run \in Nat BY DEF ResultType
  <2> QED BY <1>2, <1>3, <1>4, <2>1 DEF Vouched
<1>5. results["cuda_ready"] \in ResultType /\ call \in ResultType
  BY DEF SessionInv, BenchTypeOK, Kept
<1>6. results'["cuda_ready"] = results["cuda_ready"] /\ call' = call BY <1>1
<1>7. Vouched(results["cuda_ready"]) => Vouched(results["cuda_ready"])'
  BY <1>4, <1>5, <1>6 DEF Vouched
<1>8. Vouched(call) => Vouched(call)'
  BY <1>4, <1>5, <1>6 DEF Vouched
<1> QED BY <1>1, <1>7, <1>8 DEF MilestoneInv, Agrees, Asking, Command

LEMMA MilestoneStep ==
  ASSUME SessionInv, ScriptInv, ActivationInv, MilestoneInv, [BenchNext]_benchVars
  PROVE  MilestoneInv'
<1>1. ASSUME NEW n \in Benchmarks, EndBenchmark(n) PROVE MilestoneInv'
  <2>1. UNCHANGED <<phase, step, results, boot, activation, smoke>>
    BY <1>1 DEF EndBenchmark, vars, scriptVars
  <2>2. Command \in {"cuda_ready", "startup_cuda_smoke"} => call' = call
    BY <1>1 DEF EndBenchmark, Benchmarks
  <2> QED BY <2>1, <2>2 DEF MilestoneInv, Vouched, Agrees, Asking, Command
<1>2. CASE UNCHANGED benchVars
  BY <1>2 DEF benchVars, hostVars, vars, scriptVars, MilestoneInv, Vouched, Agrees, Asking,
              Command
<1> QED BY <1>1, <1>2, MilestoneHost, MilestoneAnswered, MilestoneTarget DEF BenchNext

(***************************************************************************)
(* The theorems about the report.                                          *)
(***************************************************************************)
ReportInv == SessionInv /\ ScriptInv /\ ActivationInv /\ MilestoneInv

LEMMA ReportInvariance == BenchSpec => []ReportInv
<1>1. BenchInit => ReportInv
  <2> SUFFICES ASSUME BenchInit PROVE ReportInv
    OBVIOUS
  <2>1. ScriptInv /\ ActivationInv
    BY DEF BenchInit, Init, ScriptInv, Withdrawn, Published, OnlyIfPassed,
           ReadyMeansSmokePassed, ActivationInv, NoSmoke, Units
  <2>2. MilestoneInv BY DEF BenchInit, MilestoneInv
  <2> QED BY <2>1, <2>2, SessionInit DEF ReportInv
<1>2. ReportInv /\ [BenchNext]_benchVars => ReportInv'
  <2> SUFFICES ASSUME ReportInv, [BenchNext]_benchVars PROVE ReportInv'
    OBVIOUS
  <2>1. [Next]_vars
    BY DEF BenchNext, HostStep, Begin, Receive, Lose, Report, Interrupt, Ends, EndBenchmark,
           TargetStep, benchVars, vars, RemoteStep, AnswerQuery, ReadReady, ReadSmoke,
           StartBenchmark, BenchmarkMissing, Answered
  <2>2. ScriptInv' /\ ActivationInv'
    BY <2>1, ScriptStep, TargetMoves DEF ReportInv, SessionInv, BenchTypeOK
  <2> QED BY <2>2, SessionStep, MilestoneStep DEF ReportInv
<1> QED BY <1>1, <1>2, PTL DEF BenchSpec

\* Only a session that was heard to its end is reported as one boot's.
LEMMA OneBootReport ==
  ASSUME ReportInv, [BenchNext]_benchVars, hostVars' # hostVars,
         phase' = "reported", verdict'.same_boot
  PROVE  /\ phase = "waiting" /\ Before # 0 /\ After = Before
         /\ \A n \in Kept : /\ results[n].exit # "none"
                            /\ results[n].boot \in {0, Before}
                            /\ n # "boot_id_after" => results[n].boot # 0
<1>1. CASE Report
  <2>1. phase = "waiting" /\ SameBoot
    BY <1>1 DEF Report
  <2>2. Before # 0 /\ After = Before BY <2>1 DEF SameBoot, Before, After
  <2>3. /\ \A n \in Kept : results[n].boot \in Nat
        /\ Before \in Nat
    BY <2>1 DEF ReportInv, SessionInv, BenchTypeOK, IdleInv, ResultType, Before, BootIds
  <2> QED BY <2>1, <2>2, <2>3 DEF ReportInv, SessionInv, AfterInv, BootInv
<1>2. CASE ~Report
  <2>1. ~HostStep
    BY <1>2 DEF HostStep, Begin, Receive, Lose, Asking, Interrupt, Ends
  <2>2. ~RemoteStep BY AnswerFrame DEF Asking
  <2>3. PICK n \in Benchmarks : EndBenchmark(n) \/ TargetStep
    BY <2>1, <2>2 DEF BenchNext, benchVars, Benchmarks
  <2>4. UNCHANGED <<phase, made, directory, step, results, outputs, verdict>>
    BY <2>3 DEF EndBenchmark, TargetStep
  <2>5. remote = {} BY <2>4 DEF ReportInv, SessionInv, AfterInv
  <2>6. remote' = remote /\ call' = call BY <2>3, <2>5 DEF EndBenchmark, TargetStep
  <2> QED BY <2>4, <2>6 DEF hostVars
<1> QED BY <1>1, <1>2

\* same_boot vouches for every answer of the report, although it compares two
\* files: all came from the boot of the first (summary and main, lines 38-88).
THEOREM SameBootSound == BenchSpec => SameBootSpeaksForAll
<1>1. ReportInv /\ [BenchNext]_benchVars =>
        [phase' = "reported" /\ verdict'.same_boot =>
           \A n \in Kept :
             /\ results[n].exit # "none"
             /\ results[n].boot \in {0, outputs[directory]["boot_id_before"]}]_hostVars
  BY OneBootReport DEF Before
<1> QED BY <1>1, ReportInvariance, PTL DEF BenchSpec, SameBootSpeaksForAll

\* A report of one boot that shows the CUDA milestone shows the smoke behind
\* it as passed: the records are read in the order they are written in.
THEOREM ReportConsistent == BenchSpec => ReportIsConsistent
<1>1. ReportInv /\ [BenchNext]_benchVars =>
        [(/\ phase' = "reported" /\ verdict'.same_boot
          /\ results["cuda_ready"].json = "whole"
          /\ results["cuda_ready"].run = results["startup_cuda_smoke"].run)
         => results["startup_cuda_smoke"].json = "passed"]_hostVars
  <2> SUFFICES ASSUME ReportInv, [BenchNext]_benchVars, hostVars' # hostVars,
                      phase' = "reported", verdict'.same_boot,
                      results["cuda_ready"].json = "whole",
                      results["cuda_ready"].run = results["startup_cuda_smoke"].run
               PROVE  results["startup_cuda_smoke"].json = "passed"
    OBVIOUS
  <2>1. /\ phase = "waiting"
        /\ results["cuda_ready"].boot = results["startup_cuda_smoke"].boot
    <3>1. {"cuda_ready", "startup_cuda_smoke"} \subseteq Kept \ {"boot_id_after"}
      BY DEF Kept
    <3> QED BY <3>1, OneBootReport
  <2> QED BY <2>1 DEF ReportInv, MilestoneInv, Agrees
<1> QED BY <1>1, ReportInvariance, PTL DEF BenchSpec, ReportIsConsistent
=============================================================================
