----------------------------- MODULE FlashHost ------------------------------
(***************************************************************************)
(* scripts/flash.sh: any number of flash wrappers at work on one host.     *)
(* Each checks its options and its private copy of the bundle, installs a  *)
(* temporary udev rule through a short root container (manage_rule), runs  *)
(* the flasher container, judges the target's final status, and on its way *)
(* out removes the container and the rule (cleanup, on the EXIT trap).     *)
(* The wrappers share /run/udev/rules.d and the rules that udev has        *)
(* loaded.  Docker commands may fail at any point, and a wrapper may be    *)
(* interrupted or killed; its containers then outlive it.                  *)
(***************************************************************************)
EXTENDS FiniteSets

CONSTANTS
    Runs,    \* The wrappers
    Options  \* The command lines: which of the four flags are given

ASSUME OptionsAssumption ==
    Options \subseteq [check : BOOLEAN, nvme : BOOLEAN, full : BOOLEAN, qspi : BOOLEAN]

VARIABLES
    options,   \* the command line of each wrapper
    board,     \* the module in recovery at its port
    pc,        \* where the wrapper is
    status,    \* its exit status, once it is on its way out
    madeDir,   \* rules_dir_created
    helper,    \* where its manage_rule container is
    container, \* what its flasher container does
    console,   \* the last "Final status:" line of console.log
    erased,    \* the wrappers whose target's NVMe was replaced
    reflashed, \* ... and whose QSPI was
    rulesDir,  \* does /run/udev/rules.d exist?
    rule,      \* the rule file of each wrapper
    loaded     \* the wrappers whose rule udev has loaded

wrapperVars == <<pc, status>>
targetVars  == <<console, erased, reflashed>>
udevVars    == <<rulesDir, rule, loaded>>
fixed       == <<options, board>>
vars == <<fixed, wrapperVars, madeDir, helper, container, targetVars, udevVars>>

Setup   == {"args", "stage", "docker", "probe_dir"}
Guarded == {"create", "flash", "report"}           \* the EXIT trap is set
Cleanup == {"cleanup_container", "cleanup_rule"}
Points  == Setup \cup Guarded \cup Cleanup \cup {"exited", "killed"}

CreatePoints == {"mkdir", "write", "fill", "reload", "undo", "undo_dir"}
RemovePoints == {"remove", "rmdir", "unload"}
HelperPoints == {"none"} \cup CreatePoints \cup RemovePoints
Running == {"probe", "write"}  \* a flasher container that can reach the target

Init ==
    /\ options \in [Runs -> Options]
    /\ board \in [Runs -> {"supported", "other"}]
    /\ pc = [r \in Runs |-> "args"]
    /\ status = [r \in Runs |-> "none"]
    /\ madeDir = [r \in Runs |-> FALSE]
    /\ helper = [r \in Runs |-> "none"]
    /\ container = [r \in Runs |-> "none"]
    /\ console = [r \in Runs |-> "none"]
    /\ erased = {} /\ reflashed = {}
    /\ rulesDir \in BOOLEAN
    /\ rule = [r \in Runs |-> "absent"]
    /\ loaded = {}

Goto(r, p)   == pc' = [pc EXCEPT ![r] = p]
\* The EXIT trap, when it is set, runs cleanup with the exit status.
Exit(r, s)   == status' = [status EXCEPT ![r] = s]
Continue(r, from, to) == pc[r] = from /\ Goto(r, to) /\ UNCHANGED status
Die(r, from, to)      == pc[r] = from /\ Goto(r, to) /\ Exit(r, "failed")

(***************************************************************************)
(* Before the trap.                                                        *)
(***************************************************************************)
SetupUnchanged == UNCHANGED <<fixed, helper, container, targetVars, udevVars>>

AcknowledgedOnce(o) ==  \* Mutant: --full-flash needs no acknowledgment of its own
    /\ o.qspi => o.full
    /\ o.check \/ o.nvme

Acknowledged(o) ==
    /\ o.qspi => o.full
    /\ o.check \/ (o.nvme /\ (o.full => o.qspi))

ParseArguments(r) ==
    /\ \/ Acknowledged(options[r]) /\ Continue(r, "args", "stage")
       \/ Die(r, "args", "exited")
    /\ UNCHANGED madeDir /\ SetupUnchanged

\* The private work directory, the bundle's copy and its validation.
StageBundle(r) ==
    /\ \/ ~options[r].check /\ Continue(r, "stage", "docker")
       \/ options[r].check /\ pc[r] = "stage" /\ Goto(r, "exited") /\ Exit(r, "ok")
       \/ Die(r, "stage", "exited")
    /\ UNCHANGED madeDir /\ SetupUnchanged

\* Docker, the flasher image and the choice of the recovery port.
CheckHost(r) ==
    /\ Continue(r, "docker", "probe_dir") \/ Die(r, "docker", "exited")
    /\ UNCHANGED madeDir /\ SetupUnchanged

\* rules_dir_created, long before the helper makes the directory.
ProbeRulesDir(r) ==
    /\ Continue(r, "probe_dir", "create")
    /\ madeDir' = [madeDir EXCEPT ![r] = ~rulesDir]
    /\ SetupUnchanged

(***************************************************************************)
(* manage_rule: a container that runs the rule helper.                     *)
(***************************************************************************)
HelperUnchanged == UNCHANGED <<fixed, madeDir, container, targetVars>>

HelperStep(r, from, to) ==
    /\ helper[r] = from
    /\ helper' = [helper EXCEPT ![r] = to]

\* Mutant of HelperEnds: cleanup forgets that the rule was not removed.
HelperEndsQuietly(r, from, ok) ==
    /\ HelperStep(r, from, "none")
    /\ \/ ok /\ Continue(r, "create", "flash")
       \/ Continue(r, "cleanup_rule", "exited")
       \/ ~ok /\ Die(r, "create", "cleanup_rule")
       \/ pc[r] = "killed" /\ UNCHANGED wrapperVars

\* The helper's exit status decides how a waiting wrapper goes on.
HelperEnds(r, from, ok) ==
    /\ HelperStep(r, from, "none")
    /\ \/ ok /\ Continue(r, "create", "flash")
       \/ ok /\ Continue(r, "cleanup_rule", "exited")
       \/ ~ok /\ Die(r, "create", "cleanup_rule")
       \/ ~ok /\ Die(r, "cleanup_rule", "exited")
       \/ pc[r] = "killed" /\ UNCHANGED wrapperVars

StartHelper(r) ==
    /\ \/ pc[r] = "create" /\ HelperStep(r, "none", "mkdir")
       \/ pc[r] = "cleanup_rule" /\ HelperStep(r, "none", "remove")
    /\ UNCHANGED <<wrapperVars, udevVars>> /\ HelperUnchanged

\* docker run fails, or its container is stopped where it is.
HelperFails(r) ==
    /\ \/ /\ helper[r] = "none"
          /\ pc[r] \in {"create", "cleanup_rule"}
          /\ HelperEnds(r, "none", FALSE)
       \/ helper[r] # "none" /\ HelperEnds(r, helper[r], FALSE)
    /\ UNCHANGED udevVars /\ HelperUnchanged

MakeDir(r) ==
    /\ HelperStep(r, "mkdir", "write")
    /\ rulesDir' = TRUE
    /\ UNCHANGED <<wrapperVars, rule, loaded>> /\ HelperUnchanged

\* The rule is opened with noclobber, in a directory that another wrapper may
\* have removed again.
OpenRule(r) ==
    /\ \/ /\ rulesDir /\ rule[r] = "absent"
          /\ HelperStep(r, "write", "fill")
          /\ rule' = [rule EXCEPT ![r] = "empty"]
          /\ UNCHANGED wrapperVars
       \/ ~(rulesDir /\ rule[r] = "absent") /\ HelperEnds(r, "write", FALSE)
          /\ UNCHANGED rule
    /\ UNCHANGED <<rulesDir, loaded>> /\ HelperUnchanged

FillRule(r) ==
    /\ HelperStep(r, "fill", "reload")
    /\ rule' = [rule EXCEPT ![r] = "whole"]
    /\ UNCHANGED <<wrapperVars, rulesDir, loaded>> /\ HelperUnchanged

\* udevadm control --reload-rules loads what all the wrappers left there.
Installed == {r \in Runs : rule[r] = "whole"}

LoadRulesUnchecked(r) ==  \* Mutant: the reload's exit status is ignored
    /\ HelperEnds(r, "reload", TRUE)
    /\ loaded' \in {loaded, Installed}
    /\ UNCHANGED <<rulesDir, rule>> /\ HelperUnchanged

LoadRules(r) ==
    /\ \/ HelperEnds(r, "reload", TRUE) /\ loaded' = Installed
       \/ HelperStep(r, "reload", "undo") /\ UNCHANGED <<wrapperVars, loaded>>
    /\ UNCHANGED <<rulesDir, rule>> /\ HelperUnchanged

UndoRule(r) ==
    /\ HelperStep(r, "undo", "undo_dir")
    /\ rule' = [rule EXCEPT ![r] = "absent"]
    /\ UNCHANGED <<wrapperVars, rulesDir, loaded>> /\ HelperUnchanged

\* rmdir, which fails on a directory that is not empty.
RemoveDir(r) ==
    rulesDir' = (rulesDir /\ (madeDir[r] => \E x \in Runs : rule[x] # "absent"))

UndoDir(r) ==
    /\ HelperEnds(r, "undo_dir", FALSE)
    /\ RemoveDir(r)
    /\ UNCHANGED <<rule, loaded>> /\ HelperUnchanged

\* Mutant of RemoveRule: every wrapper's rule goes, by their common prefix.
RemoveEveryRule(r) ==
    /\ HelperStep(r, "remove", "rmdir")
    /\ rule' = [x \in Runs |-> "absent"]
    /\ UNCHANGED <<wrapperVars, rulesDir, loaded>> /\ HelperUnchanged

\* A rule that is not exactly what create writes is left alone.
RemoveRule(r) ==
    /\ \/ /\ rule[r] # "empty"
          /\ HelperStep(r, "remove", "rmdir")
          /\ rule' = [rule EXCEPT ![r] = "absent"]
          /\ UNCHANGED wrapperVars
       \/ rule[r] = "empty" /\ HelperEnds(r, "remove", FALSE) /\ UNCHANGED rule
    /\ UNCHANGED <<rulesDir, loaded>> /\ HelperUnchanged

RemoveRulesDir(r) ==
    /\ HelperStep(r, "rmdir", "unload")
    /\ RemoveDir(r)
    /\ UNCHANGED <<wrapperVars, rule, loaded>> /\ HelperUnchanged

UnloadRules(r) ==
    /\ \/ HelperEnds(r, "unload", TRUE) /\ loaded' = Installed
       \/ HelperEnds(r, "unload", FALSE) /\ UNCHANGED loaded
    /\ UNCHANGED <<rulesDir, rule>> /\ HelperUnchanged

(***************************************************************************)
(* The flasher container.                                                  *)
(***************************************************************************)
ContainerUnchanged == UNCHANGED <<fixed, madeDir, helper, udevVars>>

Becomes(r, from, to) ==
    container[r] = from /\ container' = [container EXCEPT ![r] = to]

StartContainer(r) ==
    /\ pc[r] = "flash" /\ Becomes(r, "none", "probe")
    /\ UNCHANGED <<wrapperVars, targetVars>> /\ ContainerUnchanged

\* The board's EEPROM is read anew (rm -f boardvars.sh) and checked.
CheckBoard(r) ==
    /\ \/ board[r] = "supported" /\ Becomes(r, "probe", "write")
       \/ Becomes(r, "probe", "failed")
    /\ UNCHANGED <<wrapperVars, targetVars>> /\ ContainerUnchanged

\* initrd-flash, without --external-only only if --full-flash was given.
WriteTarget(r) ==
    /\ container[r] = "write"
    /\ erased' = erased \cup {r}
    /\ reflashed' = IF options[r].full THEN reflashed \cup {r} ELSE reflashed
    /\ UNCHANGED <<wrapperVars, container, console>> /\ ContainerUnchanged

\* initrd-flash can exit 0 although the target says FAILED, or says nothing.
ContainerEnds(r) ==
    /\ \/ /\ r \in erased
          /\ Becomes(r, "write", "ended")
          /\ console' = [console EXCEPT ![r] = "SUCCESS"]
       \/ /\ container[r] = "write"
          /\ \E exit \in {"ended", "failed"} : Becomes(r, "write", exit)
          /\ \E line \in {"none", "FAILED"} : console' = [console EXCEPT ![r] = line]
    /\ UNCHANGED <<wrapperVars, erased, reflashed>> /\ ContainerUnchanged

(***************************************************************************)
(* The wrapper: the container's result, the exit, and what can cut it off. *)
(***************************************************************************)
WrapperUnchanged == UNCHANGED <<fixed, madeDir, helper, targetVars, udevVars>>

\* The docker client returns: after its container, or without it.
ClientReturns(r) ==
    /\ \/ container[r] = "ended" /\ Continue(r, "flash", "report")
       \/ container[r] # "ended" /\ Die(r, "flash", "cleanup_container")
    /\ UNCHANGED container /\ WrapperUnchanged

ReadFinalStatus(r) ==
    /\ pc[r] = "report"
    /\ Goto(r, "cleanup_container")
    /\ Exit(r, IF console[r] = "SUCCESS" THEN "ok" ELSE "failed")
    /\ UNCHANGED container /\ WrapperUnchanged

\* docker rm -f ... || true
RemoveContainer(r) ==
    /\ Continue(r, "cleanup_container", "cleanup_rule")
    /\ container' \in {container, [container EXCEPT ![r] = "removed"]}
    /\ WrapperUnchanged

\* SIGINT or SIGTERM; bash waits for a running helper.  cleanup has reset the
\* EXIT trap, and not the other two: there the wrapper exits at once.
Interrupt(r) ==
    /\ pc[r] \in Setup \cup Guarded \cup Cleanup
    /\ helper[r] = "none"
    /\ Goto(r, CASE pc[r] \in Setup \cup Cleanup -> "exited"
                 [] pc[r] = "create" -> "cleanup_rule"
                 [] OTHER -> "cleanup_container")
    /\ Exit(r, "interrupted")
    /\ container' \in {container} \cup
           (IF container[r] \in Running THEN {[container EXCEPT ![r] = "failed"]} ELSE {})
    /\ WrapperUnchanged

Kill(r) ==
    /\ pc[r] \notin {"exited", "killed"}
    /\ Goto(r, "killed") /\ UNCHANGED <<status, container>>
    /\ WrapperUnchanged

Create(r) ==
    \/ MakeDir(r) \/ OpenRule(r) \/ FillRule(r) \/ LoadRules(r) \/ UndoRule(r) \/ UndoDir(r)
Remove(r) == RemoveRule(r) \/ RemoveRulesDir(r) \/ UnloadRules(r)

Wrapper(r) ==
    \/ ParseArguments(r) \/ StageBundle(r) \/ CheckHost(r) \/ ProbeRulesDir(r)
    \/ StartHelper(r) \/ HelperFails(r) \/ Create(r) \/ Remove(r)
    \/ StartContainer(r) \/ CheckBoard(r) \/ WriteTarget(r) \/ ContainerEnds(r)
    \/ ClientReturns(r) \/ ReadFinalStatus(r) \/ RemoveContainer(r)
    \/ Interrupt(r) \/ Kill(r)

Terminated ==
    /\ \A r \in Runs : /\ pc[r] \in {"exited", "killed"}
                      /\ helper[r] = "none" /\ container[r] \notin Running
    /\ UNCHANGED vars

Next == (\E r \in Runs : Wrapper(r)) \/ Terminated

Spec == Init /\ [][Next]_vars

-----------------------------------------------------------------------------
TypeOK ==
    /\ options \in [Runs -> Options]
    /\ board \in [Runs -> {"supported", "other"}]
    /\ pc \in [Runs -> Points]
    /\ status \in [Runs -> {"none", "ok", "failed", "interrupted"}]
    /\ madeDir \in [Runs -> BOOLEAN]
    /\ helper \in [Runs -> HelperPoints]
    /\ container \in [Runs -> {"none", "ended", "failed", "removed"} \cup Running]
    /\ console \in [Runs -> {"none", "SUCCESS", "FAILED"}]
    /\ erased \subseteq Runs /\ reflashed \subseteq Runs
    /\ rulesDir \in BOOLEAN
    /\ rule \in [Runs -> {"absent", "empty", "whole"}]
    /\ loaded \subseteq Runs

\* What each wrapper has established where it is.
Established(r) ==
    /\ helper[r] \in CreatePoints => pc[r] \in {"create", "killed"}
    /\ helper[r] \in RemovePoints => pc[r] \in {"cleanup_rule", "killed"}
    /\ pc[r] \in {"flash", "report"} => rule[r] = "whole" /\ r \in loaded
    /\ helper[r] = "fill" => rule[r] = "empty"
    /\ helper[r] = "reload" => rule[r] = "whole"
    /\ helper[r] \in {"rmdir", "unload"} => rule[r] = "absent"
    /\ rule[r] # "absent" => rulesDir
    /\ container[r] # "none" => Acknowledged(options[r]) /\ ~options[r].check
    /\ pc[r] \notin {"args", "exited", "killed"} => Acknowledged(options[r])
    /\ pc[r] \in {"docker", "probe_dir"} \cup Guarded \cup Cleanup => ~options[r].check
    /\ pc[r] \in Setup \cup {"create"} => container[r] = "none"
    /\ console[r] # "none" => container[r] \notin {"none"} \cup Running
    /\ console[r] = "SUCCESS" => r \in erased
    /\ container[r] = "write" => board[r] = "supported"
    /\ pc[r] = "report" => container[r] = "ended"
    /\ status[r] = "ok" /\ pc[r] \in Cleanup =>
           console[r] = "SUCCESS" /\ container[r] \in {"ended", "removed"}
WrapperInv == \A r \in Runs : Established(r)

\* A board is being probed or written under a wrapper that waits for it only
\* while the wrapper's automount rule is installed and loaded, whatever the
\* other wrappers do to the directory they share ("temporarily installs one
\* uniquely named rule", docs/flashing.md).
RuleWhileFlashing ==
    \A r \in Runs : container[r] \in Running /\ pc[r] = "flash" =>
        rule[r] = "whole" /\ r \in loaded

\* Only what the options acknowledge is replaced, and only on a module whose
\* EEPROM was checked.
AcknowledgedWrite(r) ==
    /\ r \in erased =>
           options[r].nvme /\ ~options[r].check /\ board[r] = "supported"
    /\ r \in reflashed => options[r].full /\ options[r].qspi
WritesAreAcknowledged == \A r \in Runs : AcknowledgedWrite(r)

\* A flash that exits 0 has written its target, the target reported SUCCESS,
\* no container of it runs and udev is rid of its rule ("the wrapper requires
\* both a successful host process and the target's exact Final status", "removes
\* its rule on exit").
Complete(r) ==
    pc[r] = "exited" /\ status[r] = "ok" /\ ~options[r].check =>
        /\ r \in erased /\ console[r] = "SUCCESS"
        /\ container[r] \notin Running
        /\ rule[r] = "absent" /\ r \notin loaded
SuccessIsComplete == \A r \in Runs : Complete(r)
=============================================================================
