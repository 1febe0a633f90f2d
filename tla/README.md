# Verification of ARK Jetson Yocto

TLA+ models of the programs in this repository whose correctness depends on
the order of things: threads against a bench supply, power losses against a
file system, wrappers against one another on a shared host, a kernel worker
against the removal of its device. TLC checks the
models on small instances; TLAPS proves every safety, action and refinement
property that the passing runs check for every value of the constants. `PROJECT.json` lists components, runs, findings,
hazards and theorems, and maps every definition to the lines it models.

Run a check with `tlc -config X.cfg M`, a proof with `tlapm M.tla`.

## 1. Inventory

The repository builds a headless Yocto image for the ARK *Just a Jetson*
carrier, and carries the host tools that flash it and measure it.

| Part | State | Operations | What makes it hard |
| --- | --- | --- | --- |
| `scripts/measure-boot.py` | the `Capture` record (reference, readiness, errors, marker buffer), the `CarrierObserver`, `stop`, the supply's output and alarms, `metadata['status']` | `run`; `carrier_worker`, `serial_worker`, `tcp_worker`, `http_worker`; `Rigol.send` | up to five threads, one lock, unlocked reads of shared fields, failures at every call, a verdict drawn while readers still run |
| `ark-grow-rootfs` (helper, unit, drop-in) | the ext4 size, the marker and its temporary file, the unit's state | `grow`, `persist_success`, start condition, timeout | crash and power loss at any step, durability of a rename, retry on a later boot, two services that depend on it |
| `scripts/flash.sh` | `/run/udev/rules.d`, udev's loaded rules, the rule helper, the flasher container, the target | option checks, staging, `manage_rule create/remove`, the flash, the verdict, `cleanup` | docker commands that fail half-way, signals and kills, several wrappers on one host, irreversible writes |
| `ark-readiness` and its two units | JSON files under `/run/ark-bench`, the markers, the units' states | `os`, `cuda`, start timeout, manual restart | a trap that does not exit, files that outlive the unit, order of markers and files, readers on another machine |
| `scripts/summarize-boot.py` | none between runs | `summarize_run` per capture, `aggregate` over them | must agree with the collector on what a sound capture is; a second boot inside the window |
| BPMP debugfs patch (kernel) | a delayed work item, its queue, a dentry | start, worker, cancel | asynchronous work against suspend and device removal, a probe that fails half-way |
| `initrd-flash` USB patch | none | `usb_device_from_sysfs` | sysfs changes under the walk; must never name a hub |
| `libusbgx-config` patch | gadget MAC addresses | derives four addresses | distinctness at the edges |
| `scripts/bench-target.py` | report of remote commands, the files of its directory | a sequence over SSH, `same_boot`, `benchmarks_passed` | the target reboots and republishes between commands, lost connections, benchmarks that outlive their ssh |
| `benchmarks/bonsai/bonsai_bench.py` | one result per request | SSE stream parsing under an alarm | alarm at the end of the stream |
| `validate_public_key.py` | none | decodes an OpenSSH key | boundary cases of a decoder |
| `experiments/*/build.py` | output directories below `private/` | `audit`, `prepare`, the build, `verify_output` | inputs edited between check and copy, two builds with one output name, one step of several failing or killed |

How they interact: `flash.sh` writes the image; on its first boot
`ark-grow-rootfs` grows the root file system, and both readiness units require
it; the readiness units print the UART markers that `measure-boot.py` waits
for, together with the Ethernet carrier, an SSH banner and HTTP; the captures
are read by `summarize-boot.py`; `bench-target.py` reads the readiness units'
files over SSH.

Properties that make each part correct: a capture attributes to a boot only
what was seen after its power command, and its status says what was seen; the
growth service's marker means growth, survives power loss, and gates
readiness; a flash writes only what was acknowledged, keeps udisks away while
it does, and succeeds only if everything succeeded; a milestone record vouches
for a computation of its own activation; a collected report belongs to one boot
or says so; a summary publishes every sound capture, no unsound one, and never
two boots as one; the debugfs worker uses only a transport that is up and
leaves nothing behind; a build that calls itself verified was made of pinned
inputs, in a directory of its own.

## 2. The modules

| Module | Role |
| --- | --- |
| `CaptureRecord` | abstract: what a reader of `metadata.json` relies on |
| `BootCapture` | `measure-boot.py`: `run` and the workers |
| `MCBootCapture` | its instances |
| `BootCaptureProofs` | its theorems |
| `BootReport` | `summarize-boot.py`: one capture's summary, as operators |
| `MeasuredBoot` | `BootCapture` with its timeline and statistics, composed with `BootReport` |
| `MCMeasuredBoot`, `MeasuredBootProofs` | its instances; its theorems, which build on those of `BootCapture` |
| `Provisioning` | abstract: what the board promises about growth |
| `GrowRootfs` | `ark-grow-rootfs`, over any number of boots |
| `MCGrowRootfs`, `GrowRootfsProofs` | its instance and theorems |
| `FlashHost` | any number of `flash.sh` wrappers on one host |
| `MCFlashHost`, `FlashHostProofs` | its instances and theorems |
| `Readiness`, `ReadinessProofs` | `ark-readiness` and its units over several boots; its theorems |
| `BenchTarget` | `bench-target.py`, composed with `Readiness` as its target |
| `MCBenchTarget`, `BenchTargetProofs` | its instance and theorems |
| `BpmpDebugfs`, `BpmpDebugfsProofs` | the BPMP kernel patch against suspend and removal; its theorems |
| `StagedBuild` | any number of the two experiment builders in one checkout |
| `MCStagedBuild`, `StagedBuildProofs` | its instance and theorems |

### BootCapture

State. `main` is the point `run` has reached and `worker[w]` the point of each
thread; `lock` holds the owner of `Capture.lock`. `reference`, `ready` and
`errors` are the fields of `Capture`; `evidence[w]` is a history variable: when
the observation behind `ready[w]` began. `chunk`, `buffer` and `headAt` stand
for the UART text: a chunk holds noise, the first half of the marker, its
second half, or all of it, and `headAt` is the stamp of the half that is
buffered. `sample`, `lastState`, `lastUp`, `baseline` and `dropped` are the
carrier observer's. `output`, `alarm` and `lost` describe the supply.

Steps. A section under the lock is one step, with two exceptions where an
unlocked reader can see the middle: the carrier worker enters, records its
transition, and commits `last_state` in separate steps, because `run` tests
`capture.ready` and `carrier.last_state` without locking (line 639); and
`run`'s power section is split at its SCPI write, because the supply and
Ctrl-C can act there. Code without the lock is split at every shared read:
`missing`, the carrier's final state and `capture.errors` are read in three
steps (`ReadMissing`, `ReadFinalUp`, `Verdict`). `RecordFailure` and `SetStop`
are separate, as lines 470 and 471 are. Everything that can fail in the code
can fail in the model; interface reads and probe answers are unrestricted.

Left out here and added by `MeasuredBoot`: the sampling statistics of the
observer and the timeline. Left out: decoding of UART bytes, the settings read from the supply, a
Ctrl-C outside the `try` block, and someone switching the output back on by
hand. `join` is modelled by its outcome: its timeout exceeds every bound the
workers' own waits have, so only `http_worker`, whose name resolution has no
timeout, can still be in its probe when `join` gives up.

Fairness (`FairSpec`). Every thread that can run eventually runs and the clock
advances. `run` gets strong fairness because it competes for the lock with
workers that hold it for a moment and then sleep 20 ms or block in a read; the
workers, which take it far more seldom than it is free, get weak fairness.

### BootReport and MeasuredBoot

`BootReport` translates `summarize_run` and what it calls: `Precedes` is the order
that `read_inputs` sorts the timeline in, `ReferenceWindow` finds the reference that the metadata names and
the one after it, `Pieces` joins the text of the chunks and `Stamp` is the
receive time of each piece, `FirstBoot` cuts the text at the banner of a second
boot, `MarkerTime` finds the first complete marker in what is left, and
`CarrierObservations` makes every cross-check of lines 164-239. A refusal
(`InputError`) ends the summary with what was observed by then. Where the code
filters a list out of the sorted timeline, the model has the set of places in
it and their order; so "the
first", "the last" and "right behind" are quantifiers that a proof can use,
instead of a recursion over a sequence.

`MeasuredBoot` conjoins each step of `BootCapture` with the records it writes to
the timeline and with the observer's statistics; its own variables are never
read by `BootCapture`, so that each of its behaviours is one of `BootCapture`
and the theorems about that carry over. `Metadata` is the dictionary of lines
697-706, and `Report` is the summary of what a capture has written when it is
over: the two programs are checked against each other without any assumption in
between. UART text is noise, a kernel banner and the two halves of the marker; a
chunk may hold the end of one boot's text and the beginning of the next one's, or,
if its worker waited for the lock, the beginnings of two.

The clock counts nanoseconds, so the reference is later than the baseline, not
equal to it (`Decide` with `now > baseline`). Of the time before the reference
only its baseline is in the timeline, since no window reaches back further. Left
out: JSON typing and size limits (the collector writes well-formed files), the
optional terminal pattern, and the means that `aggregate` computes over eligible
runs.

### GrowRootfs

`file` is what each name of the state directory holds and `disk` what it would
hold after a power loss. A journal commit (`Commit`) makes names durable; data
written and not yet synced may reach the disk empty or whole (`Images`).
`fsync` makes its file, and with it the directory as it stands, durable; the
directory `fsync` makes the rename durable. `fs` grows in the journalled steps
`resize2fs` takes. `unit` is the service, `pc` the helper, `raised` an
exception on its way out, `milestone` the two readiness services, which start
only after the unit succeeded or was skipped. `Timeout` is `TimeoutStartSec`
killing the helper wherever it is.

`MaxFaults` bounds failures, kills, premature shutdowns and power losses
together. Safety is proved for every bound. For the liveness property it is
the assumption that faults are finitely many. Fairness: the processor runs
what can run, and a settled board is sooner or later booted again.

Left out: restarting the unit by hand, and a layout that `mounted_app` always
refuses (each refusal is a fault, so safety covers it).

### FlashHost

Each wrapper has a place (`pc`), an exit status, a rule helper container and a
flasher container; all share `rulesDir`, the rule files and what udev has
`loaded`. Helpers stop at any step, the docker client may return without its
container, `docker rm -f` may fail, and a wrapper can be interrupted (its traps
run, after a running helper returns) or killed (they do not; its containers
live on). A second signal during `cleanup` ends the wrapper at once and leaves
its rule, as docs/flashing.md:192 says.

Staging and validation of the bundle and the checks of the host are one step
each that may fail. Not modelled: two wrappers on one USB port, rule files of
other programs, and what a flasher container does to the host after its
wrapper was killed.

### Readiness

`job` and `unit` are systemd's view of the two services, `pc` the line each
script is at, and `ready`, `smoke` and `temporary` the files under
`/run/ark-bench`. The script is split at every file it touches: a redirection
truncates (`OpenRecord`) before `printf` writes (`FillRecord`). `set -e` is a
step to the end of the script. The start timeout sends SIGTERM wherever the
script is: without a trap the shell dies there (`TimeoutWithoutTrap`); with
it, the handler removes the temporary file and the script *goes on*
(`TimeoutWithTrap`), so that `mv` then fails, or, past `mv`, the milestone is
still published although systemd calls the unit failed. `Kill` is the SIGKILL
that follows. A manual restart of `cuda` also starts `os` unless it is active;
the operator restarts a unit only when no start job is running. `activation`
counts the runs of the cuda script in a boot and is the history by which a
record and a smoke are known to belong together.

Fairness (`FairSpec`): systemd starts what it has queued and its timers expire.
The scripts get none, since a probe or a UART may block for ever.

Left out: a full `/run`, and the second copy of the markers on the UART, whose
failure the script reports and ignores. `GrowRootfs` keeps the milestones as
single steps, since it asks only when they may start.

### BenchTarget

The collector asks in a fixed order; `call` is the remote end of the command in
turn, and an answer comes from the target as it is at that moment. `Lose`
stands for a timeout and for ssh's own failures, with or without what the
command had printed; `remote` holds the benchmarks that still run on the target
then. A reboot ends them. `made` and `outputs` are the directories on the host
and the boot IDs in their files, because `same_boot` compares files and not the
report. A remote shell's 127 (no such tool) ends the collection like a failed
transport. The five metadata queries before the records are one command,
`uptime_after` is asked with the last boot ID, and what a report only quotes is
not kept. The operator begins a session when no benchmark
of an earlier one is left, as the package's README asks.

### BpmpDebugfs

`probe` is the line `tegra_bpmp_debugfs_start` has reached, with its fallback to
the synchronous path after each allocation; `work` is the delayed work, and
`tree` what is below the debugfs directory, which the worker fills one request
at a time; `release` follows the cancel action and then the rest of devres.
Suspend and release come at any moment after the probe. What the kernel promises
is part of the model and external: devres runs release actions in reverse order,
a freezable queue is drained before devices are suspended, `..._sync` waits for
a running work, `devm_add_action_or_reset` runs the action if it cannot register
it, and a task that unbinds a device is frozen before the queues are.

Fairness (`FairSpec`): probe and release run to their ends, timers fire, the
machine resumes, and the firmware answers, so that a sequence of requests ends.
The worker gets strong fairness to start, since suspends may interrupt its
chances for ever. Nobody is obliged to suspend or to unbind.

### StagedBuild

Each invocation has its program (`builder`), its options and a place (`pc`);
`output` holds for each name who made the directory, the copy of the input, what
was built from it, and the report. The order of the two programs' steps differs
where the code's does: the driver's audits before it looks at its output, the
firmware's looks first. `Edit` is anybody changing an input at any moment,
`Fail` any step refusing or failing, `Kill` a kill, in the middle of a report
too. An `edited` firmware configuration may still resolve to the pinned one, and
a pinned one to another; only the comparison afterwards decides.

Of the inputs only those are kept whose copy the builder looks at again: the
patched `r8168_n.c`, and `jaj_nvme.defconfig` by way of `resolved.config`. The
other driver sources are compared before they are copied and not afterwards, so
an edit of `r8168.h` between the two reaches the module: `VerifiedIsPinned` does
not speak of them, and the program's documents do not promise it. Left out: how
compiler arguments and the firmware volume's inventory are parsed; both are
checks that may fail.

## 3. The runs

| Run | Instance | What it shows |
| --- | --- | --- |
| `boot_link_ssh` | power cycle, carrier and SSH, with its summary | no pre-power evidence; readiness within the duration; link history visible; `ready` complete; supply loss reported; every capture that ends with a verdict, without an error and with one boot's text is eligible, no unsound one is published, and summary and collector agree; power-on only from a clean state; refinement of `CaptureRecord` |
| `boot_console_http` | no supply, UART marker and HTTP, fair | the marker's first half never predates the reference; the record is frozen from the final supply check on; the capture ends |
| `boot_ends` | power cycle, carrier and HTTP, fair | every capture ends |
| `boot_late_failure` | power cycle, carrier | violation: a carrier error that does not become the status |
| `boot_report` | power-on, UART marker and SSH, with its summary | collector and summary agree on the marker; nothing of a second boot is published |
| `grow_rootfs` | three faults, fair | marker sound and whole, success final, refinement of `Provisioning`, and eventual readiness |
| `grow_failure_marker` | three faults | violation: a failed unit with its success marker |
| `flash_pair` | two wrappers, each with full, unacknowledged or checking options | what each wrapper has established; rule while flashing; writes acknowledged; success complete |
| `readiness` | two boots, two restarts of either unit, fair | a record vouches for its smoke; active means published; markers in order; start jobs end |
| `bench_target` | one directory, two boots, one restart of `cuda` | `same_boot` speaks for the whole report; one workload; milestone and smoke agree |
| `bpmp_debugfs` | one device, fair | transport up while used; nothing left behind; an announced tree is whole; a release ends |
| `staged_builds` | two builds of either program, one name | verified means pinned; success means delivered; one owner per directory |

Bounds. The clock of a capture runs `SetupTime` ticks before the reference and
`Slack` ticks past the end of the duration: one tick before lets an observation
begin strictly earlier than the reference, a duration of one puts "at", "before"
and "after the end" in reach, and one tick past it lets the final sample come
late. No property depends on how long anything takes, only on the order of
stamps. Two workers meet each other and `run` in every order; each run pairs one
that fails with one that does not, and the proofs cover all subsets. `boot_ends`
and `boot_report` drop ticks outside the duration, which change no thread's control. `MaxSamples`
allows the carrier worker two samples after the reference and `MaxChunks` the
UART two chunks: with the final sample that is an up, a down and an up again,
one gap that ends the observation and one that does not, and a chunk before and
after any marker or banner. The two bounds stop a worker from reading again, not
from failing or leaving. Three faults let a boot fail, its retry lose power, and the boot after that fail
again. Two wrappers suffice for every interference, which is pairwise through
one directory; they are interchangeable, so symmetry is sound for invariants
(no liveness is checked there), and so are the two builds of `staged_builds`, whose
interference is by one name. `BpmpDebugfs` needs no bound: it is one device, and
suspend and resume may repeat for ever. `Terminated` keeps deadlock checking on in the
models that end.

Two boots put a reboot between any two commands; more add none that the boot
IDs could tell apart. A second activation is what meets the first one's files,
and two restarts let one of `os` come between two of `cuda`. With one directory
a second session could only reuse it, which is what `mkdir` must refuse. Both
models stop when the boots, the restarts and the directory are used up, so
deadlock is not checked there; `StartJobsEnd` says what must not get stuck.

Each property has a mutant: a definition of the model changed as a plausible
bug would change the code (a dropped lock, a skipped fsync, an unchecked exit
status), under which TLC finds the property violated.

### Findings

* `boot_late_failure`. `run` reads `capture.errors` (line 642) before it sets
  `stop` (line 660). A carrier worker that fails in between records its error
  too late to count, and if the final sample succeeds again the capture ends as
  `ready`, exit code 0, with a `carrier_monitor` error in the same metadata.
  docs/carrier-measurement.md:37 promises a capture error. The summary catches it:
  `PublishedIsSound` holds because `summarize_run` looks for error events and not
  only at the status.
* `grow_failure_marker`. A failure after `os.replace` (line 65), or the unit's
  timeout there, leaves a failed unit and a success marker; the next boot skips
  the unit. The README of the service says a failure leaves no marker and is
  retried. Growth is complete in that state, so the divergence is one of
  reporting: this boot's readiness is suppressed, the next one's is not.

## 4. The proofs

`BootCaptureProofs`, for every set of workers, mode and duration. The invariant
`IInv` adds to `TypeOK` and `ThreadsInv` what readiness rests on. The argument
for `EvidenceSound` shows why it is needed: readiness is recorded long after its
observation began, so `ClockInv` must say of each observation *under way* that
it began after the reference, or that it will not be able to mark anything. For the
carrier that follows from `LockInv` (a read excludes the power section); for the
network workers from the order of their tests; for the UART from the comparison
of the stamp with the reference under the lock, and from `arm` clearing the
buffer. `SupplySound` rests on `SupplyInv`: a lost output stays off until the
final check sees it. `ReadySound` and `HistorySound` need two more parts,
`EndInv` and `HistoryInv`: a `ready` status has nothing missing and its last
sample up, and a link that went down after readiness has been counted, except
between the record of the transition and the assignment of `last_state`.
`FrozenSound` rests on `JoinInv`: behind the join every worker has ended, or is
the `http_worker` that the join gave up on, and `stop`, set before the join,
keeps that one from marking anything. `RecordRefinement` shows each step to be a
step of `CaptureRecord` or to leave the record alone.

`MeasuredBootProofs`, for every set of workers, mode and duration, any number of
samples and any length of console text. `MeasuredRefines` shows that a capture
with its timeline behaves as a capture, so that `IInv` and `EndInv` hold of it.
The theorems compare what `run` and its workers keep in variables with what
`summarize-boot.py` finds in a file of unbounded length, so the invariants tie
the one to the other, kind of record by kind of record. Each kind has a lemma on
what every step writes of it (`ReferenceWritten`, `LinkWritten`,
`ConsoleWritten`, ...).

* `Recorded`: the one reference with its label, the SSH banner, and an error in
  the window for every error that came after the verdict. It gives
  `PublishedSound`: `boot_late_failure` shows a `ready` capture with an error,
  and this invariant is why no summary publishes it. It also gives
  `FirstBootSound`, since everything the summary reports is older than the
  second banner that ends its window.
* `Derived`: the transitions alternate, begin with an up and end in what the
  observer takes for the link's state (`Current`, the sample while a transition
  is recorded and `last_state` is not yet assigned); `dropped`, the last up and
  the readiness are what the transitions say; the buffered half of a marker is
  there just if the text heard ends in it, and the console is ready since the
  first complete marker. From it follows `SummarySound`. A marker is found by
  position in the text, and the collector finds it chunk by chunk: `FoundGrows`
  and `MarkerGrows` say what one more chunk can add to the markers found so far.
* `Evidence`: the baseline, the carrier's readiness and the observer's final
  record are in the timeline once; the chunks adjoin; and the samples cover the
  time since the reference, in that no gap is longer than the one kept and the
  kept gap times the number of samples reaches back to the reference
  (`SamplingRecorded`). With it `CleanCaptureSound` goes through the
  cross-checks of the summary one by one (`CleanWindow`, `NoGap`, `NoClash`,
  `CleanBaseline`, `CleanAlternates`, `CleanReadiness`, `CleanFinish`,
  `CleanCarrier`). It is stated of captures under supply control only: the
  summary refuses any other as having no power reference. The product of two
  variables is the one place where the argument leaves linear arithmetic;
  `CoverGrows` isolates it.

`GrowRootfsProofs`, for any number of faults. `PhaseInv` states, by where the
helper is, what is in the file system and what is durable; the refinement maps
the stage of `Provisioning` to what a power loss would leave.

`FlashHostProofs`, for any number of wrappers and any command lines. `IInv`
states for each wrapper what it has established (`Established`) together with
its own part of the properties, and one lemma shows that a step of another
wrapper disturbs none of it: that is where the shared directory and udev's
reload are dealt with.

`ReadinessProofs`, for any number of boots and restarts. `ScriptInv` says what
the cuda script knows at each line: the old record is withdrawn until the smoke
of this activation is published (`Withdrawn`), the published smoke has the
outcome the script branches on (`Published`), and only a pass leads to the lines
that write the record. For `ActiveIsPublished` the invariant follows the
journal: a marker of one unit leaves what the other has told. For
`MarkersInOrder`, `OrderInv` adds to the order that, before any restart, cuda
neither runs nor has printed anything until the os job has ended.

`BenchTargetProofs`, for any number of boots, restarts and directories: while a
session asks, the only benchmark on the target is the one it waits for
(`OnlyTheAwaited`), because a cut ends the asking. `SameBootSound` rests on
`BootInv`, `AskingInv` and `AfterInv`: boot numbers only grow, what is kept was
answered between the first boot ID and now, and a second boot ID is in the
directory only if every command before it was heard; two equal IDs then leave
room for one boot only. `IdleInv` is what keeps an earlier session's files out
of the comparison. `ReportConsistent` uses `ScriptInv` of the target as well: a
record that was read stays true of the target until the next activation or boot
(`Vouched`), since the smoke of an activation is published once, before the
record (`ActivationInv`).

`BpmpDebugfsProofs`: one invariant in four parts, what the probe has built, what
the registered action owns, how far the worker can be beside a suspend or a
release, and what the tree and its reference are to each other. `AnnouncedSound`
needs all four, since an announced tree is removed only by a release that the
worker cannot have survived.

`StagedBuildProofs`, for any number of invocations and names. `RunInv` says of
each invocation what it has put into its directory where it is, `DirInv` of each
directory that only its creator's work is in it. A step of one invocation leaves
another one's directory alone because a directory has one creator for good
(`Aside`), and `OwnershipSound` is that fact as an action property.

The assumptions are those stated with the constants (`OptionsAssumption` of the
two programs, `FaultsAssumption`, `BoundsAssumption`, `NobodyAssumption`), which
TLC evaluates on the instances.

Only model-checked: the liveness properties `Terminates`, `EventuallyReady`,
`StartJobsEnd` and `ReleaseEnds`, which are out of the prover's reach (fairness
and ENABLED). `CarrierFailureIsError` and `FailureLeavesNoMarker` are what the
two violation runs refute. Type invariants are proved, as theorems or as parts
of the inductive invariants, and not checked by runs of their own.

Nothing is proved by induction over data: the library's induction theorems take
an operator as their parameter, which the provers at hand cannot instantiate.
The extremal elements that the summary's definitions choose (the first time, the
last transition) are obtained from well-foundedness of the order on the naturals
(`LeastExists`, `GreatestExists`), which needs no such parameter; everything
else is induction over the steps of a behaviour.

## 5. Order of work

The modules were written in the order capture, growth, flash, readiness and its
collector, summary, kernel worker and builders; the most important behaviour,
the attribution of observations to a boot, came first, in the proofs too. What
would come next: an abstract specification of a session on the target (one boot,
one activation) that `BenchTarget` implements, in the way `BootCapture`
implements `CaptureRecord`; one of a flash, from acknowledgement to verdict, for
`FlashHost`; and the staging steps of `flash.sh` one by one.

## 6. Not modelled

* The `initrd-flash` USB patch: a loop without state. A gadget that vanishes
  under the walk leads it to its parent, which is a root hub or a hub and is
  refused by its name or its class; a model would only restate sysfs.
* The `libusbgx-config` patch: a sequential script run once; the addresses are
  digests, compared with each other at run time.
* `bonsai_bench.py`: sequential requests. The alarm that races the end of a
  stream leaves a complete answer that has status ok and a deadline's error.
* `validate_public_key.py`: a pure decoder, with tests at its edges.
* The staging of a bundle in `flash.sh` (`PY_VALIDATE`, lines 56-222): one step
  that may fail.
* Device trees, pinmux and boot configuration data; recipes, kas files and network
  configuration; the container images and `build.sh` (one command each); the CPU
  and CUDA kernels, which compute and time; the driver patches under
  `experiments`, which only log; recorded results under docs/results.
