---------------------------- MODULE StagedBuild -----------------------------
(***************************************************************************)
(* The two experiment builders, experiments/r8168-phy-diagnostic/build.py  *)
(* ("driver") and experiments/uefi-realtek/build.py ("firmware"): any      *)
(* number of invocations in one checkout, each with an output name below   *)
(* private/, while somebody goes on editing the files they read.  Each     *)
(* compares its inputs with pinned hashes, creates its output directory,   *)
(* copies the inputs into it, runs a build there and records what came of  *)
(* it.  The inputs are read once to be compared and again to be copied.    *)
(***************************************************************************)
EXTENDS FiniteSets

CONSTANTS
    Runs,   \* The invocations
    Names,  \* The output names they may be given
    Nobody  \* The creator of a directory that does not exist

ASSUME NobodyAssumption == Nobody \notin Runs

VARIABLES
    builder,  \* which program an invocation is of
    mode,     \* "check": --check; "prepare": --prepare-only; "build"
    name,     \* --output-name
    pc,       \* where an invocation is
    exit,     \* its exit status
    edited,   \* the input files that differ from their pins
    private,  \* what private/ is
    output    \* the directories below private/

options == <<builder, mode, name>>
vars    == <<options, pc, exit, edited, private, output>>

\* The file whose copy the result depends on, of those each builder compares.
Input == [driver |-> "r8168_n.c", firmware |-> "jaj_nvme.defconfig"]
Inputs == [driver |-> {"r8168_n.c", "r8168.h"}, firmware |-> {"jaj_nvme.defconfig"}]
Files == {"r8168_n.c", "r8168.h", "jaj_nvme.defconfig"}

\* A directory: who created it, the copy of the input, what the build made, and
\* the report beside it (manifest.json, or command.json and verification.json).
Absent == [owner |-> Nobody, copy |-> "none", built |-> "none", report |-> "none"]

Points == {"start", "audit", "private", "create", "copy", "verify_copy", "prepare",
           "build", "judge", "ended"}

Init ==
    /\ builder \in [Runs -> {"driver", "firmware"}]
    /\ mode \in [Runs -> {"check", "prepare", "build"}]
    /\ \A r \in Runs : mode[r] = "prepare" => builder[r] = "firmware"
    /\ name \in [Runs -> Names]
    /\ pc = [r \in Runs |-> "start"]
    /\ exit = [r \in Runs |-> "none"]
    /\ edited = {}
    /\ private \in {"absent", "directory", "symlink"}
    /\ output = [n \in Names |-> Absent]

Exists(r) == output[name[r]] # Absent

Goto(r, from, to) == pc[r] = from /\ pc' = [pc EXCEPT ![r] = to] /\ UNCHANGED exit
Exit(r, from, status) ==
    /\ pc[r] = from
    /\ pc' = [pc EXCEPT ![r] = "ended"] /\ exit' = [exit EXCEPT ![r] = status]

Elsewhere == UNCHANGED <<options, edited>>

\* The firmware builder looks at its output path before anything else.
Begin(r) ==
    /\ Goto(r, "start", "audit")
    /\ builder[r] = "firmware" => private # "symlink" /\ ~Exists(r)
    /\ UNCHANGED <<private, output>> /\ Elsewhere

AfterAudit(r) == IF builder[r] = "driver" THEN "private" ELSE "create"

\* Mutant of Audit: --check is honoured only once the directory exists.
AuditOnly(r) ==
    /\ Inputs[builder[r]] \cap edited = {}
    /\ Goto(r, "audit", AfterAudit(r))
    /\ UNCHANGED <<private, output>> /\ Elsewhere

\* audit, or collect_inputs: the inputs are those that were pinned.
Audit(r) ==
    /\ Inputs[builder[r]] \cap edited = {}
    /\ IF mode[r] = "check" THEN Exit(r, "audit", "ok")
       ELSE Goto(r, "audit", AfterAudit(r))
    /\ UNCHANGED <<private, output>> /\ Elsewhere

MakePrivate(r) ==
    /\ Goto(r, "private", "create")
    /\ private # "symlink" /\ private' = "directory"
    /\ ~Exists(r)
    /\ UNCHANGED output /\ Elsewhere

CreateOrReuse(r) ==  \* Mutant: mkdir(exist_ok=True)
    /\ Goto(r, "create", "copy")
    /\ private' = IF private = "absent" THEN "directory" ELSE private
    /\ output' = [output EXCEPT ![name[r]].owner = r]
    /\ Elsewhere

\* output.mkdir(): "atomic refusal if another invocation created it".
Create(r) ==
    /\ Goto(r, "create", "copy")
    /\ private' = IF private = "absent" THEN "directory" ELSE private
    /\ ~Exists(r)
    /\ output' = [output EXCEPT ![name[r]].owner = r]
    /\ Elsewhere

\* The input is read again, and may have been edited since the audit.
Copy(r) ==
    /\ Goto(r, "copy", IF builder[r] = "driver" THEN "verify_copy" ELSE "prepare")
    /\ output' = [output EXCEPT ![name[r]].copy =
                      IF Input[builder[r]] \in edited THEN "edited" ELSE "pinned"]
    /\ UNCHANGED private /\ Elsewhere

CopyTrusted(r) ==  \* Mutant: the audit is thought to be enough
    /\ Goto(r, "verify_copy", "prepare")
    /\ UNCHANGED <<private, output>> /\ Elsewhere

\* The patched source has the hash RESULT_SOURCE.
VerifyCopy(r) ==
    /\ Goto(r, "verify_copy", "prepare")
    /\ output[name[r]].copy = "pinned"
    /\ UNCHANGED <<private, output>> /\ Elsewhere

\* The first manifest.json, or command.json and the provenance.
Prepare(r) ==
    /\ IF mode[r] = "prepare" THEN Exit(r, "prepare", "ok") ELSE Goto(r, "prepare", "build")
    /\ output' = [output EXCEPT ![name[r]].report = "prepared"]
    /\ UNCHANGED private /\ Elsewhere

\* docker run, or the build wrapper.  What it makes of an edited defconfig may
\* still resolve to the pinned configuration, and the reverse.
Build(r) ==
    /\ Goto(r, "build", "judge")
    /\ LET copy == output[name[r]].copy IN
       \E result \in IF builder[r] = "driver" THEN {copy, "failed"} ELSE {"pinned", "edited"} :
           output' = [output EXCEPT ![name[r]].built = result]
    /\ UNCHANGED private /\ Elsewhere

\* verify_output: verification.json is written when everything has been found
\* as pinned.
VerifyOutput(r) ==
    /\ builder[r] = "firmware"
    /\ output[name[r]].built = "pinned"
    /\ Exit(r, "judge", "ok")
    /\ output' = [output EXCEPT ![name[r]].report = "verified"]
    /\ UNCHANGED private /\ Elsewhere

\* The second manifest.json has build_exit, and the module's hash if that is 0.
RecordExit(r) ==
    /\ builder[r] = "driver"
    /\ LET failed == output[name[r]].built = "failed" IN
       /\ Exit(r, "judge", IF failed THEN "error" ELSE "ok")
       /\ output' = [output EXCEPT ![name[r]].report = IF failed THEN "failed" ELSE "verified"]
    /\ UNCHANGED private /\ Elsewhere

\* An OSError, a refusal or a failed command: what was made stays.
Fail(r) ==
    /\ pc[r] # "ended" /\ Exit(r, pc[r], "error")
    /\ UNCHANGED <<private, output>> /\ Elsewhere

\* A kill; the report that was being written is cut short.
Kill(r) ==
    /\ pc[r] # "ended" /\ Exit(r, pc[r], "killed")
    /\ \/ UNCHANGED output
       \/ /\ pc[r] \in {"prepare", "judge"}
          /\ output' = [output EXCEPT ![name[r]].report = "partial"]
    /\ UNCHANGED private /\ Elsewhere

Edit ==
    /\ \E f \in Files \ edited : edited' = edited \cup {f}
    /\ UNCHANGED <<options, pc, exit, private, output>>

Terminated == (\A r \in Runs : pc[r] = "ended") /\ UNCHANGED vars

Invocation(r) ==
    \/ Begin(r) \/ Audit(r) \/ MakePrivate(r) \/ Create(r) \/ Copy(r) \/ VerifyCopy(r)
    \/ Prepare(r) \/ Build(r) \/ VerifyOutput(r) \/ RecordExit(r) \/ Fail(r) \/ Kill(r)

Next == (\E r \in Runs : Invocation(r)) \/ Edit \/ Terminated

Spec == Init /\ [][Next]_vars

-----------------------------------------------------------------------------
Directory == [owner  : Runs \cup {Nobody},
              copy   : {"none", "pinned", "edited"},
              built  : {"none", "pinned", "edited", "failed"},
              report : {"none", "partial", "prepared", "failed", "verified"}]
TypeOK ==
    /\ builder \in [Runs -> {"driver", "firmware"}]
    /\ mode \in [Runs -> {"check", "prepare", "build"}]
    /\ name \in [Runs -> Names]
    /\ pc \in [Runs -> Points]
    /\ exit \in [Runs -> {"none", "ok", "error", "killed"}]
    /\ edited \subseteq Files
    /\ private \in {"absent", "directory", "symlink"}
    /\ output \in [Names -> Directory]

\* A report of a verified build is about pinned inputs, although they were
\* edited after the audit or while the build ran, and whichever step of it was
\* killed ("checks the exact resolved config", uefi-realtek/README.md:98;
\* "verifies the resulting source hash", r8168-phy-diagnostic/README.md:48).
VerifiedIsPinned == \A n \in Names : output[n].report = "verified" => output[n].built = "pinned"

\* An invocation that exits 0 did what its options ask for, in a directory that
\* is its own: two that race for one name cannot both succeed.
Delivers(r, m, dir) ==
    /\ m = "check" <=> dir.owner # r
    /\ m = "prepare" => dir.report = "prepared" /\ dir.built = "none"
    /\ m = "build" => dir.report = "verified"
SuccessIsDelivered ==
    \A r \in Runs : exit[r] = "ok" => Delivers(r, mode[r], output[name[r]])

\* "An existing output directory is refused" (uefi-realtek/README.md:95,
\* r8168-phy-diagnostic/README.md:46): what one invocation has made, a failed
\* or killed one too, no other ever changes, and --check makes nothing.
OwnStep ==
    \A n \in Names : output'[n] # output[n] =>
        \E r \in Runs : /\ name[r] = n /\ mode[r] # "check"
                        /\ output[n].owner \in {Nobody, r} /\ output'[n].owner = r
OutputHasOneOwner == [][OwnStep]_vars
=============================================================================
