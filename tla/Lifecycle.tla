------------------------------ MODULE Lifecycle ------------------------------
(***************************************************************************)
(* The commands of src/hpl/cli.py, given one after another against one     *)
(* directory of outputs: the eight demos and "lifecycle", which plan a     *)
(* program, run the plan, bundle what it left and report a verdict, and    *)
(* "run", which runs again the plan that the last of them left.            *)
(*                                                                         *)
(* A file is the set of the inputs it was derived from.  What a step reads *)
(* and writes is in Tracks; the loop over the steps is the engine's, with  *)
(* one reason of each kind (RuntimeEngine has the gates one by one).  The  *)
(* commands are run from the repository root, so that a file written by    *)
(* its bare name lands where _resolve_input_path looks first.              *)
(***************************************************************************)
EXTENDS Tracks, Naturals

CONSTANTS
    Jobs,          \* the command lines that may be given first, second, ...
    MaxCommands,   \* bound: so many commands are given
    Commits,       \* what "git rev-parse HEAD" may answer in the repository
    NoJob, NoPlan, NoBundle

(* The input of a command: does it parse, which of the files named with it *)
(* are absent, and which effect refuses its content when.                  *)
CommandInput == [id : STRING, parses : BOOLEAN, absent : SUBSET STRING,
                 at : STRING, when : STRING]

(* A command and its options: the signing key, the epoch anchor, what the  *)
(* token allows, the switch of the lane, and the choices of single tracks. *)
CommandLine ==
    [track     : DemoTracks \cup {"kernel", "legacy"},
     input     : CommandInput,
     key       : {"own", "foreign", "none"},
     required  : BOOLEAN,                           \* --require-epoch
     epoch     : {"good", "bad", "missing", "off"}, \* --anchor and --sig
     pub       : {"absolute", "relative"},
     grants    : SUBSET {"classical", "backend"},
     budget    : Nat,
     lane      : {"off", "on", "broken"},
     inversion : BOOLEAN,                           \* --constraint-inversion-v1
     ecmo      : {"off", "A", "B", "C", "ambiguous"},
     backend   : {"python", "classical", "qasm"},
     out       : {"absolute", "relative"},
     mode      : {"live", "dry_run"}]

VARIABLES
    job,       \* the command line of the command that runs or ran last
    phase,     \* how far it has come
    files,     \* the files in the work directory and in the root
    plan,      \* work/plan.json: the command line it is for, its steps
    pc,        \* steps of the plan that completed
    errors,    \* what the command has against the run
    bundles,   \* the bundle directories: roles and seal, by bundle id
    report,    \* the verdict of the last command and the bundle it names
    proven,    \* ids of the bundles that a demo reported with ok
    n,         \* commands given
    head       \* the commit that is checked out

vars ==
    <<job, phase, files, plan, pc, errors, bundles, report, proven, n, head>>

Empty == [f \in {} |-> {}]
(* The public key of the project lies in the root from the start.          *)
Repository == [f \in {"pub"} |-> {}]
NoReport == [ok |-> FALSE, bundle |-> NoBundle]

(* Two functions as one, the first of them first; a set of files with one  *)
(* content.                                                                *)
Over(f, g) ==
    [x \in DOMAIN f \cup DOMAIN g |-> IF x \in DOMAIN f THEN f[x] ELSE g[x]]
Filled(names, content) == [f \in names |-> content]

-----------------------------------------------------------------------------
(* The plan of a command line.                                             *)

IsDemo(j) == j.track \in DemoTracks

(* Track B of the measurement selection asks for the epoch, track C takes  *)
(* the classical backend.                                                  *)
Required(j) == j.required \/ j.ecmo = "B"
Backend(j) == IF j.ecmo = "C" THEN "classical" ELSE j.backend

Selection(j) == IF j.ecmo = "off" THEN <<>> ELSE <<SelectTrack(j.out)>>

Steps(j) ==
    LET v == Epoch(Required(j), j.pub) IN
    CASE j.track = "ci_governance"       -> CiSteps(v)
      [] j.track = "agent_governance"    -> AgentSteps(v)
      [] j.track = "trading_paper_mode"  -> PaperSteps(v)
      [] j.track = "trading_shadow_mode" -> ShadowSteps(v)
      [] j.track = "trading_io_shadow"   -> IoShadowSteps(v)
      [] j.track = "trading_io_live_min" -> IoLiveMinSteps(v)
      [] j.track = "navier_stokes"       -> NavierStokesSteps(v)
      [] j.track = "net_shadow"          -> NetSteps
      [] j.track = "kernel"              ->
             KernelSteps(Selection(j), v, Backend(j) = "qasm")
      [] j.track = "legacy"              -> LegacySteps

(* Why no plan is approved.  An ambiguous selection asks no scheduler.     *)
Denials(j) ==
    IF j.ecmo = "ambiguous" THEN {"selection"}
    ELSE IF Required(j) /\ j.epoch # "good" THEN {"epoch"}
    ELSE {}

ASSUME ConstantsOK ==
    /\ Jobs \in Seq(SUBSET CommandLine) /\ MaxCommands = Len(Jobs)
    /\ NoJob \notin CommandLine
    /\ \A i \in DOMAIN Jobs : \A j \in Jobs[i] :
           [line |-> j, steps |-> Steps(j)] # NoPlan

-----------------------------------------------------------------------------
(* The commands begin.                                                     *)

Init ==
    /\ job = NoJob
    /\ phase = "idle"
    /\ files = [work |-> Empty, root |-> Repository]
    /\ plan = NoPlan
    /\ pc = 0
    /\ errors = {}
    /\ bundles = Empty
    /\ report = NoReport
    /\ proven = {}
    /\ n = 0
    /\ head \in Commits

(* Faulty: the work directory of the last command is kept.                 *)
BeginUnswept(j) ==
    /\ phase = "idle" /\ n' = n + 1
    /\ job' = j
    /\ phase' = "begun"
    /\ pc' = 0
    /\ errors' = {}
    /\ report' = NoReport
    /\ plan' = NoPlan
    /\ UNCHANGED <<files, bundles, proven, head>>

(* Faulty: the steps of the last run are not forgotten.                    *)
BeginCounting(j) ==
    /\ phase = "idle" /\ n' = n + 1
    /\ job' = j
    /\ phase' = "begun"
    /\ files' = [files EXCEPT !.work = Empty]
    /\ errors' = {}
    /\ report' = NoReport
    /\ plan' = NoPlan
    /\ UNCHANGED <<pc, bundles, proven, head>>

(* The work directory is removed with all it holds, the bundles stay.      *)
Begin(j) ==
    /\ phase = "idle" /\ n' = n + 1
    /\ job' = j
    /\ phase' = "begun"
    /\ files' = [files EXCEPT !.work = Empty]
    /\ plan' = NoPlan
    /\ pc' = 0
    /\ errors' = {}
    /\ report' = NoReport
    /\ UNCHANGED <<bundles, proven, head>>

(* The process ends without naming a bundle.                               *)
Stops ==
    /\ phase' = "idle" /\ job' = NoJob
    /\ pc' = 0 /\ errors' = {}
    /\ report' = NoReport
    /\ UNCHANGED <<plan, proven, n, head>>

(* And it does so between two writes: what is on disk stays.               *)
Ends == Stops /\ UNCHANGED <<files, bundles>>

(* The program is not one: an HplError, reported without a bundle.         *)
ParseFails == phase = "begun" /\ ~job.input.parses /\ Ends

(* What a demo writes before it plans, and the selection of "lifecycle".   *)
Prepared(j) ==
    IF IsDemo(j) THEN DemoOf[j.track].writes
    ELSE IF j.ecmo \in {"off", "ambiguous"} THEN {} ELSE {"measurement_selection"}

(* The order of a live demo in another mode is an error, but goes on.      *)
ModeErrors(j) ==
    IF j.track = "trading_io_live_min" /\ j.mode # "live" THEN {"mode"} ELSE {}

(* The plan is written whether it is approved or not.  A denied one is     *)
(* given to the engine as well, which runs none of its steps.              *)
Plan ==
    /\ phase = "begun" /\ job.input.parses
    /\ plan' = [line |-> job, steps |-> Steps(job)]
    /\ errors' = ModeErrors(job) \cup Denials(job)
    /\ files' = [files EXCEPT
           !.work = Over(Filled(Prepared(job), {job.input}), @)]
    /\ phase' = IF Denials(job) = {} THEN "running" ELSE "ran"
    /\ UNCHANGED <<job, pc, bundles, report, proven, n, head>>

(* "hpl run" on the plan that is there, with switches of its own and a     *)
(* contract that allows the steps.  It does not set the guard of the lane  *)
(* as the demos do.                                                        *)
Replay(lane) ==
    /\ phase = "idle" /\ n < MaxCommands /\ n' = n + 1
    /\ plan # NoPlan /\ Denials(plan.line) = {}
    /\ lane \in Lanes(plan.line.track)
    /\ job' = [plan.line EXCEPT !.lane = lane]
    /\ phase' = "replaying"
    /\ pc' = 0
    /\ errors' = {}
    /\ report' = NoReport
    /\ UNCHANGED <<files, plan, bundles, proven, head>>

-----------------------------------------------------------------------------
(* The engine runs the plan.                                               *)

(* Outputs go beside the other work files, of a replay where it stands.    *)
Place == IF phase = "replaying" THEN "root" ELSE "work"

Around(s) ==
    IF s.rootFirst THEN Over(files.root, files[Place]) ELSE files[Place]

(* The contract holds the backend of a step against those of the token.    *)
BackendDenied(s) ==
    s.needs \in {"classical", "backend"} /\ s.needs \notin job.grants

(* Without the switch a broker's step is answered by the handler itself.   *)
AdapterDenied(s) == s.needs = "adapter" /\ job.lane = "broken"

(* Without the switch a step of a session is refused by the stabilizer.    *)
SessionDenied(s) == s.needs = "net" /\ job.lane = "off"

Gated(s) ==
    \/ pc >= job.budget
    \/ BackendDenied(s) \/ AdapterDenied(s) \/ SessionDenied(s)

Missing(s) == ~ s.files \subseteq DOMAIN Around(s)
Absent(s) == s.given \cap job.input.absent # {}

(* The inputs a step's outputs come from: through the files it reads, and  *)
(* the command's own where it reads that or starts from the plan.          *)
Sources(s) ==
    (UNION {Around(s)[f] : f \in s.files})
        \cup (IF s.given # {} \/ s.files = {} THEN {job.input} ELSE {})

(* What the handler answers itself always reconciles.                      *)
Faulted(s, when) ==
    /\ when \in s.refuses
    /\ s.needs = "broker" => job.lane = "on"
    /\ \E i \in Sources(s) : i.at = s.effect /\ i.when = when

(* Python raises what is no HplError and no refusal: the process ends.     *)
Raises(s) ==
    \/ "raises" \in s.refuses
    \/ s.effect \in LoadsPolicy /\ ~Missing(s) /\ Absent(s)

(* Why the step is refused, none or one reason.                            *)
Refusal(s) ==
    IF Gated(s) THEN {"gate"}
    ELSE IF Missing(s) THEN {"missing"}
    ELSE IF Absent(s) THEN {"absent"}
    ELSE IF \E when \in s.refuses : Faulted(s, when) THEN {"content"}
    ELSE {}

Written(s) ==
    [files EXCEPT ![Place] = Over(Filled(s.out, Sources(s)), @)]

Stepping == phase \in {"running", "replaying"} /\ pc < Len(plan.steps)
Step == plan.steps[pc + 1]

(* Where the command goes on after the run; a replay ends there.           *)
Returned == IF phase = "replaying" THEN "idle" ELSE "ran"

StepOk ==
    /\ Stepping
    /\ Refusal(Step) = {} /\ ~Raises(Step)
    /\ files' = Written(Step)
    /\ pc' = pc + 1
    /\ UNCHANGED <<job, phase, plan, errors, bundles, report, proven, n, head>>

(* Faulty: the loop goes on after a refusal.                               *)
StepRefusedGoesOn ==
    /\ Stepping
    /\ Refusal(Step) # {} /\ (Raises(Step) => Gated(Step))
    /\ errors' = errors \cup Refusal(Step)
    /\ pc' = pc + 1
    /\ UNCHANGED <<job, phase, files, plan, bundles, report, proven, n, head>>

StepRefused ==
    /\ Stepping
    /\ Refusal(Step) # {} /\ (Raises(Step) => Gated(Step))
    /\ errors' = errors \cup Refusal(Step)
    /\ files' = IF Refusal(Step) = {"content"} /\ ~Faulted(Step, "before")
                THEN Written(Step) ELSE files
    /\ phase' = Returned
    /\ UNCHANGED <<job, plan, pc, bundles, report, proven, n, head>>

StepRaises == Stepping /\ ~Gated(Step) /\ Raises(Step) /\ Ends

Finish ==
    /\ phase \in {"running", "replaying"} /\ pc = Len(plan.steps)
    /\ phase' = Returned
    /\ UNCHANGED <<job, files, plan, pc, errors, bundles, report, proven, n, head>>

-----------------------------------------------------------------------------
(* The bundle.                                                             *)

WitnessRoles == {"constraint_witness", "dual_proposal"}

OutputRoles(j) ==
    IF IsDemo(j) THEN DemoOf[j.track].roles
    ELSE {"backend_ir", "measurement_selection"}
             \cup (IF Backend(j) = "qasm" THEN {"qasm"} ELSE {})

Given(j) == IF IsDemo(j) THEN DemoOf[j.track].given ELSE {}

(* Every artifact of the bundle with its content.                          *)
Artifacts(work, witnessed) ==
    Over([f \in DOMAIN work \cap OutputRoles(job) |-> work[f]],
         Filled({"program_ir", "plan", "runtime_result"} \cup Given(job)
                    \cup (IF witnessed THEN WitnessRoles ELSE {})
                    \cup (IF IsDemo(job) /\ DemoOf[job.track].scans
                          THEN {"redaction_report"} ELSE {}),
                {job.input}))

(* Faulty: the id is made of the roles alone.                              *)
BundleIdOfRoles(artifacts) == DOMAIN artifacts

(* The anchor that is there for a bundle.                                  *)
Anchored(j) == IF j.epoch \in {"good", "bad"} THEN j.epoch ELSE "none"

(* The plan does not know the switches of the run and the signing, nor the *)
(* anchor where none is required.                                          *)
Planned(j) ==
    [j EXCEPT !.key = "none", !.inversion = FALSE, !.lane = "off",
              !.epoch = IF Required(j) THEN @ ELSE "off",
              !.pub = IF Required(j) THEN @ ELSE "absolute"]

(* The id is a digest of what is in the artifacts: the plan, who answered  *)
(* a broker's step, the result of the run, in a witness all that the       *)
(* command has against it, and the anchor that "lifecycle" bundles.        *)
BundleId(artifacts) ==
    [plan      |-> Planned(job),
     answers   |-> IF "io_connect" \in DOMAIN artifacts THEN job.lane ELSE "off",
     result    |-> <<pc, errors \ {"mode", "key", "seal"}>>,
     witness   |-> IF WitnessRoles \subseteq DOMAIN artifacts
                   THEN errors ELSE {},
     anchor    |-> IF IsDemo(job) THEN "none" ELSE Anchored(job),
     artifacts |-> artifacts]

(* The manifest also has the sections asked for, what the anchor given was *)
(* worth and the commit that was checked out, and may be cut off.          *)
Manifest(artifacts, written) ==
    [id |-> BundleId(artifacts), artifacts |-> artifacts,
     inversion |-> job.inversion, epoch |-> Anchored(job), commit |-> head,
     written |-> written]

NoSeal == [manifest |-> NoBundle, key |-> "none"]

(* A directory that is there already keeps the signature it has.           *)
Bundled(artifacts, written) ==
    LET id == BundleId(artifacts) IN
    Over([i \in {id} |->
             [manifest |-> Manifest(artifacts, written),
              seal |-> IF id \in DOMAIN bundles THEN bundles[id].seal ELSE NoSeal]],
         bundles)

(* The signature of the bundle that is reported, by a key or cut off.      *)
Signed(key) ==
    [bundles EXCEPT ![report.bundle].seal =
        [manifest |-> bundles[report.bundle].manifest, key |-> key]]

(* verify_bundle_manifest_signature, with the public key of the project.   *)
Verifies(id) ==
    bundles[id].seal = [manifest |-> bundles[id].manifest, key |-> "own"]

(* A demo bundles what there is, whatever came of the run.  The files named*)
(* on the command line are read for it: without them the process ends.     *)
PackRaises ==
    phase = "ran" /\ Given(job) \cap job.input.absent # {} /\ Ends

Pack ==
    /\ phase = "ran" /\ IsDemo(job)
    /\ Given(job) \cap job.input.absent = {}
    /\ phase' = "packed"
    /\ bundles' = Bundled(Artifacts(files.work, FALSE), "whole")
    /\ report' = [report EXCEPT !.bundle = BundleId(Artifacts(files.work, FALSE))]
    /\ UNCHANGED <<job, files, plan, pc, errors, proven, n, head>>

(* Faulty: a run without a signing key is not held against the command.    *)
SignIfKey ==
    /\ phase = "packed"
    /\ phase' = "signed"
    /\ bundles' = IF job.key = "none" THEN bundles ELSE Signed(job.key)
    /\ errors' = errors \cup (IF job.key = "foreign" THEN {"seal"} ELSE {})
    /\ UNCHANGED <<job, files, plan, pc, report, proven, n, head>>

Sign ==
    /\ phase = "packed"
    /\ phase' = "signed"
    /\ bundles' = IF job.key = "none" THEN bundles ELSE Signed(job.key)
    /\ errors' = errors \cup (IF job.key = "none" THEN {"key"}
                              ELSE IF job.key = "foreign" THEN {"seal"} ELSE {})
    /\ UNCHANGED <<job, files, plan, pc, report, proven, n, head>>

ReportOk ==
    /\ phase = "signed" /\ errors = {}
    /\ phase' = "idle"
    /\ report' = [report EXCEPT !.ok = TRUE]
    /\ proven' = proven \cup {report.bundle}
    /\ UNCHANGED <<job, files, plan, pc, errors, bundles, n, head>>

(* Faulty: the refusal is bundled without its witness.                     *)
RepackUnwitnessed ==
    /\ phase = "signed" /\ errors # {}
    /\ phase' = "repacked"
    /\ bundles' = Bundled(Artifacts(files.work, FALSE), "whole")
    /\ report' = [report EXCEPT !.bundle = BundleId(Artifacts(files.work, FALSE))]
    /\ UNCHANGED <<job, files, plan, pc, errors, proven, n, head>>

(* Anything against the run: a witness is made of it, and a second bundle  *)
(* with the witness.                                                       *)
Repack ==
    /\ phase = "signed" /\ errors # {}
    /\ phase' = "repacked"
    /\ bundles' = Bundled(Artifacts(files.work, TRUE), "whole")
    /\ report' = [report EXCEPT !.bundle = BundleId(Artifacts(files.work, TRUE))]
    /\ UNCHANGED <<job, files, plan, pc, errors, proven, n, head>>

Resign ==
    /\ phase = "repacked"
    /\ phase' = "idle"
    /\ bundles' = IF job.key = "none" THEN bundles ELSE Signed(job.key)
    /\ UNCHANGED <<job, files, plan, pc, errors, report, proven, n, head>>

(* "lifecycle" lowers the program itself in its legacy form, whatever came *)
(* of the run, makes a witness of a refused plan or run only, bundles once *)
(* and never signs.  The files it names and the sections it was asked for  *)
(* are held against the verdict afterwards.                                *)
Lowered ==
    Over(Filled(IF job.track = "legacy"
                THEN {"backend_ir"} \cup (IF Backend(job) = "qasm"
                                          THEN {"qasm"} ELSE {})
                ELSE {}, {job.input}),
         files.work)

PackLifecycle ==
    LET witnessed == errors # {}
        incomplete == job.epoch = "missing" \/ (job.inversion /\ ~witnessed)
        artifacts == Artifacts(Lowered, witnessed)
    IN
    /\ phase = "ran" /\ ~IsDemo(job)
    /\ phase' = "idle"
    /\ files' = [files EXCEPT !.work = Lowered]
    /\ bundles' = Bundled(artifacts, "whole")
    /\ report' = [ok |-> ~witnessed /\ ~incomplete, bundle |-> BundleId(artifacts)]
    /\ UNCHANGED <<job, plan, pc, errors, proven, n, head>>

(* The process is stopped between two writes.                              *)
Crash == phase # "idle" /\ Ends

(* It is stopped in the middle of one that a verdict rests on: write_text  *)
(* empties the file before it fills it.  The manifest is cut off when the  *)
(* artifacts are copied, the signature when the manifest is there.         *)
PackCut ==
    /\ phase = "ran" /\ IsDemo(job)
    /\ Given(job) \cap job.input.absent = {}
    /\ bundles' = Bundled(Artifacts(files.work, FALSE), "cut")
    /\ Stops /\ UNCHANGED files

RepackCut ==
    /\ phase = "signed" /\ errors # {}
    /\ bundles' = Bundled(Artifacts(files.work, TRUE), "cut")
    /\ Stops /\ UNCHANGED files

LifecycleCut ==
    /\ phase = "ran" /\ ~IsDemo(job)
    /\ files' = [files EXCEPT !.work = Lowered]
    /\ bundles' = Bundled(Artifacts(Lowered, errors # {}), "cut")
    /\ Stops

SignCut ==
    /\ phase \in {"packed", "repacked"} /\ job.key # "none"
    /\ bundles' = Signed("cut")
    /\ Stops /\ UNCHANGED files

(* Somebody commits, or checks another commit out, whatever runs.          *)
HeadMoves ==
    /\ \E c \in Commits : c # head /\ head' = c
    /\ UNCHANGED <<job, phase, files, plan, pc, errors, bundles, report, proven, n>>

Next ==
    \/ n < MaxCommands /\ \E j \in Jobs[n + 1] : Begin(j)
    \/ \E lane \in {"off", "on", "broken"} : Replay(lane)
    \/ ParseFails \/ Plan
    \/ StepOk \/ StepRefused \/ StepRaises \/ Finish
    \/ Pack \/ PackRaises \/ Sign \/ ReportOk \/ Repack \/ Resign \/ PackLifecycle
    \/ Crash \/ PackCut \/ RepackCut \/ LifecycleCut \/ SignCut
    \/ HeadMoves

Spec == Init /\ [][Next]_vars

-----------------------------------------------------------------------------
(* Properties.                                                             *)

Reported == phase = "idle" /\ report.bundle # NoBundle
RolesOf(id) == DOMAIN bundles[id].manifest.artifacts

(* Every variable keeps its type, and no more steps complete than the plan *)
(* has.                                                                    *)
TypeOK ==
    /\ phase \in {"idle", "begun", "running", "replaying", "ran", "packed",
                  "signed", "repacked"}
    /\ n \in 0..MaxCommands
    /\ plan # NoPlan => plan.line.track \in DemoTracks \cup {"kernel", "legacy"}
    /\ phase # "idle" => job # NoJob
    /\ pc \in 0..(IF plan = NoPlan THEN 0 ELSE Len(plan.steps))
    /\ errors \subseteq {"mode", "selection", "epoch", "gate", "missing",
                         "absent", "content", "key", "seal"}
    /\ proven \subseteq DOMAIN bundles
    /\ report.ok \in BOOLEAN
    /\ report.bundle \in DOMAIN bundles \cup {NoBundle}
    /\ head \in Commits

(* A demo says ok only of a run that went through a plan that was approved,*)
(* to its last step, and of a bundle that has every output of the track    *)
(* and carries the project's signature: "if not evidenced, did not happen".*)
OkIsProven ==
    Reported /\ IsDemo(job) /\ report.ok =>
        /\ Denials(plan.line) = {} /\ pc = Len(plan.steps)
        /\ OutputRoles(job) \subseteq RolesOf(report.bundle)
        /\ Verifies(report.bundle)

(* A demo that says no names a bundle with the witness of the refusal,     *)
(* signed where a key was given.                                           *)
RefusedIsWitnessed ==
    Reported /\ IsDemo(job) /\ ~report.ok =>
        /\ WitnessRoles \subseteq RolesOf(report.bundle)
        /\ job.key = "own" => Verifies(report.bundle)

(* What a command bundles comes from the input it was given, whatever the  *)
(* commands before it left or failed to finish.  Navier-Stokes looks in    *)
(* the root first: there, also from what a replay has left in the root.    *)
FreshEvidence ==
    Reported =>
        \A r \in RolesOf(report.bundle) :
            bundles[report.bundle].manifest.artifacts[r] \subseteq
                {job.input}
                  \cup (IF job.track = "navier_stokes"
                        THEN UNION {files.root[f] : f \in DOMAIN files.root}
                        ELSE {})

(* The tracks and the handlers agree: no step that the gates let through   *)
(* looks for a file that no step before it has written.                    *)
InputsAreThere ==
    phase = "running" /\ Stepping /\ ~Gated(Step) => ~Missing(Step)

(* What the id of a bundle does not name and its signed manifest does: the *)
(* sections, the anchor and the commit.                                    *)
Differs(id) ==
    LET m == bundles[id].manifest IN
    \/ job.inversion # m.inversion
    \/ Anchored(job) # m.epoch
    \/ head # m.commit

(* The manifest is written anew beside the old signature, for the same     *)
(* artifacts: it differs, or the process is stopped before it is whole.    *)
Rewritten(id) ==
    /\ phase \in {"ran", "signed"}
    /\ bundles'[id].seal = bundles[id].seal
    /\ bundles'[id].manifest.artifacts = bundles[id].manifest.artifacts
    /\ job' = NoJob \/ Differs(id)

(* The manifest is signed anew, with another key or not to the end.        *)
Resealed(id) ==
    /\ phase \in {"packed", "repacked"} /\ id = report.bundle
    /\ bundles'[id].manifest = bundles[id].manifest
    /\ job' = NoJob \/ job.key = "foreign"

(* A bundle of which a demo has said ok goes on verifying through runs that*)
(* come to it again without a key, refuse, or stop between two writes.  It *)
(* ceases to in two ways only, both of them in a command that comes to the *)
(* same artifacts: build_bundle goes to the directory of that id, and both *)
(* files in it are replaced in place.                                      *)
EarlierVerdictsStand ==
    [][\A id \in proven :
           Verifies(id) /\ ~Verifies(id)' => Rewritten(id) \/ Resealed(id)]_vars

(* After a refusal, of the plan or of a step, a command writes no further  *)
(* file of the track: the loop ends there.  The lowering of the legacy     *)
(* form is no step of it.                                                  *)
RefusedRunsWriteNothing ==
    [][errors # {} /\ errors # {"mode"} /\ n' = n /\ job.track # "legacy"
           => UNCHANGED files]_vars

(* The plan of the first instantiation: with a good anchor, a good         *)
(* signature and the public key of the project, verification passes.       *)
AnchorVerificationPasses ==
    /\ phase = "ran" /\ Denials(job) = {} /\ pc < Len(plan.steps)
    /\ Step.effect \in {"VERIFY_EPOCH", "VERIFY_SIGNATURE"}
    => errors \subseteq {"mode", "gate"}
==============================================================================
