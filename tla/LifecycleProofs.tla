-------------------------- MODULE LifecycleProofs --------------------------
(***************************************************************************)
(* Proofs about the commands of Lifecycle, for any list of command lines.  *)
(***************************************************************************)
EXTENDS Lifecycle, TracksProofs

(* A command is under way, and its plan is there.                          *)
Phases == {"idle", "begun", "running", "replaying", "ran", "packed", "signed",
           "repacked"}
Judging == {"packed", "signed", "repacked"}
Own == {"running", "ran"} \cup Judging

IsFunction(f) == f = [x \in DOMAIN f |-> f[x]]

(* What the variables are, with the plan that belongs to the command.      *)
Typed ==
    /\ phase \in Phases
    /\ n \in 0..MaxCommands
    /\ job \in CommandLine \cup {NoJob}
    /\ phase # "idle" => job \in CommandLine
    /\ phase \in {"begun"} \cup Own => \E i \in DOMAIN Jobs : job \in Jobs[i]
    /\ plan # NoPlan =>
           /\ plan.line \in CommandLine
           /\ plan = [line |-> plan.line, steps |-> Steps(plan.line)]
    /\ pc \in 0..(IF plan = NoPlan THEN 0 ELSE Len(plan.steps))
    /\ errors \subseteq {"mode", "selection", "epoch", "gate", "missing",
                         "absent", "content", "key", "seal"}
    /\ files = [work |-> files.work, root |-> files.root]
    /\ IsFunction(files.work)
    /\ head \in Commits

Planning ==
    /\ phase \in Own \cup {"replaying"} => plan # NoPlan
    /\ phase \in Own => plan.line = job
    /\ phase = "begun" => pc = 0 /\ errors = {} /\ files.work = Empty
    /\ phase = "running" => Denials(job) = {} /\ errors \subseteq {"mode"}
    /\ phase = "replaying" => errors = {}

(* What is reported belongs to a bundle that is there.                     *)
Reporting ==
    /\ report = [ok |-> report.ok, bundle |-> report.bundle]
    /\ report.ok \in BOOLEAN
    /\ phase # "idle" => ~report.ok
    /\ phase \notin Judging \cup {"idle"} => report.bundle = NoBundle
    /\ phase \in Judging => report.bundle \in DOMAIN bundles
    /\ report.bundle \in DOMAIN bundles \cup {NoBundle}
    /\ report.bundle # NoBundle => job \in CommandLine
    /\ proven \subseteq DOMAIN bundles

(* A bundle is a manifest and a seal, its id names its artifacts, and what *)
(* was signed with the project's key was written to its end.               *)
IsBundle(id, b) ==
    /\ b = [manifest |-> b.manifest, seal |-> b.seal]
    /\ b.manifest = [id        |-> id,
                     artifacts |-> id.artifacts,
                     inversion |-> b.manifest.inversion,
                     epoch     |-> b.manifest.epoch,
                     commit    |-> b.manifest.commit,
                     written   |-> b.manifest.written]
    /\ b.seal.key = "own" => b.seal.manifest.written = "whole"

Bundling == \A id \in DOMAIN bundles : IsBundle(id, bundles[id])

(* As long as nothing is held against the run: the plan is approved, the   *)
(* steps that completed have left their files, and the bundle has all that *)
(* the command collects and its seal.                                      *)
Proceeding ==
    /\ phase \in {"running", "ran"} =>
           Prepared(job) \cup OutsOf(plan.steps, pc) \subseteq DOMAIN files.work
    /\ phase \in {"ran", "packed", "signed"} /\ errors = {} =>
           Denials(job) = {} /\ pc = Len(plan.steps)
    /\ phase \in {"packed", "signed"} /\ errors = {} =>
           OutputRoles(job) \subseteq RolesOf(report.bundle)
    /\ phase \in Judging =>
           IsDemo(job) /\ bundles[report.bundle].manifest.written = "whole"
    /\ phase = "signed" /\ errors = {} => Verifies(report.bundle)
    /\ phase = "repacked" => WitnessRoles \subseteq RolesOf(report.bundle)

(* What the files and the bundle come from.                                *)
Origins ==
    {job.input} \cup (IF job.track = "navier_stokes"
                      THEN UNION {files.root[f] : f \in DOMAIN files.root}
                      ELSE {})
Deriving ==
    /\ phase \in Own =>
           \A f \in DOMAIN files.work : files.work[f] \subseteq Origins
    /\ report.bundle # NoBundle =>
           \A r \in RolesOf(report.bundle) :
               bundles[report.bundle].manifest.artifacts[r] \subseteq Origins

IInv ==
    /\ Typed /\ Planning /\ Reporting /\ Bundling
    /\ Proceeding /\ OkIsProven /\ RefusedIsWitnessed
    /\ Deriving

-----------------------------------------------------------------------------
(* The plans.                                                              *)

LEMMA TracksNamed ==
    DemoTracks = {"ci_governance", "agent_governance", "trading_paper_mode",
                  "trading_shadow_mode", "trading_io_shadow",
                  "trading_io_live_min", "navier_stokes", "net_shadow"}
  BY DEF DemoTracks, DemoOf

(* Whatever the command line, the steps of its plan find their files: but  *)
(* for the public key, where the anchor is required and the path relative. *)
(* And together they write what a demo collects.                           *)
Needed(j) ==
    Prepared(j) \cup (IF Required(j) /\ j.pub = "relative" THEN {"pub"} ELSE {})

LEMMA PlanServes ==
    ASSUME NEW j \in CommandLine
    PROVE  /\ Serves(Steps(j), Needed(j),
                     IF IsDemo(j) THEN OutputRoles(j) ELSE {})
           /\ j.track # "navier_stokes" => Beside(Steps(j))
<1> DEFINE v == Epoch(Required(j), j.pub)
           had == Needed(j)
<1>1. /\ Serves(v, had, {}) /\ Beside(v)
      /\ Prepared(j) \subseteq had
  BY EpochServes DEF Needed
<1>2. j.track \in DemoTracks \cup {"kernel", "legacy"}
  BY DEF CommandLine
<1>3. IsDemo(j) => /\ OutputRoles(j) = DemoOf[j.track].roles
                   /\ DemoOf[j.track].writes \subseteq had
  BY <1>1 DEF OutputRoles, Prepared
<1> HIDE DEF v, had
<1>4. CASE j.track = "ci_governance"
  <2>1. Steps(j) = CiSteps(v) /\ IsDemo(j) /\ DemoOf[j.track] = CiDemo
    BY <1>4, TracksNamed DEF Steps, IsDemo, DemoOf, v
  <2>2. QED
    BY <1>1, <1>3, <2>1, CiServes DEF had
<1>5. CASE j.track = "agent_governance"
  <2>1. Steps(j) = AgentSteps(v) /\ IsDemo(j) /\ DemoOf[j.track] = AgentDemo
    BY <1>5, TracksNamed DEF Steps, IsDemo, DemoOf, v
  <2>2. QED
    BY <1>1, <1>3, <2>1, AgentServes DEF had
<1>6. CASE j.track = "trading_paper_mode"
  <2>1. Steps(j) = PaperSteps(v) /\ IsDemo(j) /\ DemoOf[j.track] = PaperDemo
    BY <1>6, TracksNamed DEF Steps, IsDemo, DemoOf, v
  <2>2. QED
    BY <1>1, <1>3, <2>1, PaperServes DEF had
<1>7. CASE j.track = "trading_shadow_mode"
  <2>1. Steps(j) = ShadowSteps(v) /\ IsDemo(j) /\ DemoOf[j.track] = ShadowDemo
    BY <1>7, TracksNamed DEF Steps, IsDemo, DemoOf, v
  <2>2. QED
    BY <1>1, <1>3, <2>1, ShadowServes DEF had
<1>8. CASE j.track = "trading_io_shadow"
  <2>1. /\ Steps(j) = IoShadowSteps(v) /\ IsDemo(j)
        /\ DemoOf[j.track] = IoShadowDemo
    BY <1>8, TracksNamed DEF Steps, IsDemo, DemoOf, v
  <2>2. QED
    BY <1>1, <1>3, <2>1, IoShadowServes DEF had
<1>9. CASE j.track = "trading_io_live_min"
  <2>1. /\ Steps(j) = IoLiveMinSteps(v) /\ IsDemo(j)
        /\ DemoOf[j.track] = IoLiveMinDemo
    BY <1>9, TracksNamed DEF Steps, IsDemo, DemoOf, v
  <2>2. QED
    BY <1>1, <1>3, <2>1, IoLiveMinServes DEF had
<1>10. CASE j.track = "navier_stokes"
  <2>1. /\ Steps(j) = NavierStokesSteps(v) /\ IsDemo(j)
        /\ DemoOf[j.track] = NavierStokesDemo
    BY <1>10, TracksNamed DEF Steps, IsDemo, DemoOf, v
  <2>2. QED
    BY <1>1, <1>3, <1>10, <2>1, NavierStokesServes DEF had
<1>11. CASE j.track = "net_shadow"
  <2>1. Steps(j) = NetSteps /\ IsDemo(j) /\ DemoOf[j.track] = NetDemo
    BY <1>11, TracksNamed DEF Steps, IsDemo, DemoOf, v
  <2>2. QED
    BY <1>1, <1>3, <2>1, NetServes DEF had
<1>12. CASE j.track = "kernel"
  <2>1. /\ Steps(j) = KernelSteps(Selection(j), v, Backend(j) = "qasm")
        /\ ~IsDemo(j)
    BY <1>12, TracksNamed DEF Steps, IsDemo, v
  <2>2. Standing(Selection(j))
    BY NoStep, SelectionStands DEF Selection
  <2>3. QED
    BY <1>1, <2>1, <2>2, KernelServes DEF had
<1>13. CASE j.track = "legacy"
  <2>1. Steps(j) = LegacySteps /\ ~IsDemo(j)
    BY <1>13, TracksNamed DEF Steps, IsDemo, v
  <2>2. QED
    BY <1>1, <2>1, LegacyServes DEF had
<1>14. QED
  BY <1>2, <1>4, <1>5, <1>6, <1>7, <1>8, <1>9, <1>10, <1>11, <1>12, <1>13,
     TracksNamed

(* So a plan is a sequence.                                                *)
LEMMA PlanCounted ==
    ASSUME NEW j \in CommandLine
    PROVE  Len(Steps(j)) \in Nat
  BY PlanServes DEF Serves, IsPlan

-----------------------------------------------------------------------------
(* The files and the bundles.                                              *)

LEMMA OverFacts ==
    \A f, g : /\ DOMAIN Over(f, g) = DOMAIN f \cup DOMAIN g
              /\ IsFunction(Over(f, g))
              /\ \A x \in DOMAIN f : Over(f, g)[x] = f[x]
              /\ \A x \in DOMAIN g : x \notin DOMAIN f => Over(f, g)[x] = g[x]
  BY DEF Over, IsFunction

LEMMA FilledFacts ==
    \A names, content : /\ DOMAIN Filled(names, content) = names
                        /\ \A x \in names : Filled(names, content)[x] = content
  BY DEF Filled

(* Nothing laid over a function leaves it as it is.                        *)
LEMMA OverNothing ==
    ASSUME NEW f, NEW content, IsFunction(f)
    PROVE  Over(Filled({}, content), f) = f
<1>1. DOMAIN Filled({}, content) = {}
  BY FilledFacts
<1>2. Over(Filled({}, content), f) = [x \in DOMAIN f |-> f[x]]
  BY <1>1 DEF Over
<1>3. QED
  BY <1>2 DEF IsFunction

LEMMA EmptyFacts ==
    IsFunction(Empty) /\ DOMAIN Empty = {}
  BY DEF Empty, IsFunction

(* Bundling puts the manifest under its id, with the seal that was there.  *)
LEMMA BundledFacts ==
    ASSUME NEW artifacts, NEW written
    PROVE  LET id == BundleId(artifacts) IN
           /\ DOMAIN Bundled(artifacts, written) = DOMAIN bundles \cup {id}
           /\ Bundled(artifacts, written)[id].manifest = Manifest(artifacts, written)
           /\ id \in DOMAIN bundles =>
                  Bundled(artifacts, written)[id].seal = bundles[id].seal
           /\ \E seal :
                  /\ Bundled(artifacts, written)[id] =
                         [manifest |-> Manifest(artifacts, written), seal |-> seal]
                  /\ id \in DOMAIN bundles \/ seal = NoSeal
           /\ \A x \in DOMAIN bundles :
                  x # id => Bundled(artifacts, written)[x] = bundles[x]
<1> DEFINE id == BundleId(artifacts)
           seal == IF id \in DOMAIN bundles THEN bundles[id].seal ELSE NoSeal
           b == [manifest |-> Manifest(artifacts, written), seal |-> seal]
<1>1. Bundled(artifacts, written) = Over([i \in {id} |-> b], bundles)
  BY DEF Bundled
<1>2. /\ b.manifest = Manifest(artifacts, written) /\ b.seal = seal
      /\ id \in DOMAIN bundles => seal = bundles[id].seal
      /\ \E s : /\ b = [manifest |-> Manifest(artifacts, written), seal |-> s]
                /\ id \in DOMAIN bundles \/ s = NoSeal
  OBVIOUS
<1> HIDE DEF b, seal, id
<1>3. /\ DOMAIN Bundled(artifacts, written) = DOMAIN bundles \cup {id}
      /\ Bundled(artifacts, written)[id] = b
      /\ \A x \in DOMAIN bundles :
             x # id => Bundled(artifacts, written)[x] = bundles[x]
  BY <1>1 DEF Over
<1>4. QED
  BY <1>2, <1>3 DEF id

LEMMA ManifestFacts ==
    ASSUME NEW artifacts, NEW written
    PROVE  /\ Manifest(artifacts, written) =
                  [id        |-> BundleId(artifacts),
                   artifacts |-> BundleId(artifacts).artifacts,
                   inversion |-> job.inversion,
                   epoch     |-> Anchored(job),
                   commit    |-> head,
                   written   |-> written]
           /\ Manifest(artifacts, written).artifacts = artifacts
           /\ Manifest(artifacts, written).written = written
  BY DEF Manifest, BundleId

(* Signing changes one seal.                                               *)
LEMMA SignedFacts ==
    ASSUME NEW key, Bundling, report.bundle \in DOMAIN bundles
    PROVE  LET id == report.bundle IN
           /\ DOMAIN Signed(key) = DOMAIN bundles
           /\ Signed(key)[id] = [manifest |-> bundles[id].manifest,
                                 seal |-> [manifest |-> bundles[id].manifest,
                                           key |-> key]]
           /\ \A x \in DOMAIN bundles : x # id => Signed(key)[x] = bundles[x]
<1> DEFINE id == report.bundle
           b == bundles[id]
<1>1. b = [manifest |-> b.manifest, seal |-> b.seal]
  BY DEF Bundling, IsBundle
<1> HIDE DEF b
<1>2. [b EXCEPT !.seal = [manifest |-> b.manifest, key |-> key]] =
          [manifest |-> b.manifest,
           seal |-> [manifest |-> b.manifest, key |-> key]]
  BY <1>1
<1>3. Signed(key) =
          [bundles EXCEPT ![id] =
              [b EXCEPT !.seal = [manifest |-> b.manifest, key |-> key]]]
  BY DEF Signed, b
<1>4. QED
  BY <1>2, <1>3 DEF b

(* What a step that bundles or signs leaves under the id that it reports.  *)
LEMMA PackedBy ==
    ASSUME NEW artifacts, NEW written, bundles' = Bundled(artifacts, written),
           report'.bundle = BundleId(artifacts)
    PROVE  /\ bundles'[report'.bundle].manifest.artifacts = artifacts
           /\ bundles'[report'.bundle].manifest.written = written
<1>1. Bundled(artifacts, written)[BundleId(artifacts)].manifest =
          Manifest(artifacts, written)
  BY BundledFacts
<1>2. bundles'[report'.bundle].manifest = Manifest(artifacts, written)
  BY <1>1
<1>3. QED
  BY <1>2, ManifestFacts

LEMMA SignedBy ==
    ASSUME NEW key, Bundling, report.bundle \in DOMAIN bundles,
           bundles' = Signed(key), report' = report
    PROVE  /\ bundles'[report'.bundle].manifest = bundles[report.bundle].manifest
           /\ key = "own" => Verifies(report.bundle)'
<1> DEFINE id == report.bundle
<1>1. bundles'[id] = [manifest |-> bundles[id].manifest,
                      seal |-> [manifest |-> bundles[id].manifest,
                                key |-> key]]
  BY SignedFacts
<1>2. /\ bundles'[id].manifest = bundles[id].manifest
      /\ bundles'[id].seal = [manifest |-> bundles[id].manifest, key |-> key]
  BY <1>1
<1>3. QED
  BY <1>2 DEF Verifies

(* What "lifecycle" lowers it has from the program itself.                 *)
LEMMA LoweredFacts ==
    ASSUME Typed
    PROVE  /\ IsFunction(Lowered)
           /\ job.track # "legacy" => Lowered = files.work
           /\ \A f \in DOMAIN Lowered :
                  \/ Lowered[f] = {job.input}
                  \/ f \in DOMAIN files.work /\ Lowered[f] = files.work[f]
           /\ [files EXCEPT !.work = Lowered] =
                  [work |-> Lowered, root |-> files.root]
<1> DEFINE names == IF job.track = "legacy"
                    THEN {"backend_ir"} \cup (IF Backend(job) = "qasm"
                                              THEN {"qasm"} ELSE {})
                    ELSE {}
<1>1. Lowered = Over(Filled(names, {job.input}), files.work)
  BY DEF Lowered
<1>2. job.track # "legacy" => names = {}
  OBVIOUS
<1> HIDE DEF names
<1>3. IsFunction(Lowered)
  BY <1>1, OverFacts
<1>4. job.track # "legacy" => Lowered = files.work
  BY <1>1, <1>2, OverNothing DEF Typed
<1>5. \A f \in DOMAIN Lowered :
          \/ Lowered[f] = {job.input}
          \/ f \in DOMAIN files.work /\ Lowered[f] = files.work[f]
  BY <1>1 DEF Over, Filled
<1>6. [files EXCEPT !.work = Lowered] = [work |-> Lowered, root |-> files.root]
  BY DEF Typed
<1>7. QED
  BY <1>3, <1>4, <1>5, <1>6

(* A command run again with another switch of the lane is a command.       *)
LEMMA ReplayedLine ==
    ASSUME NEW j \in CommandLine, NEW lane \in {"off", "on", "broken"}
    PROVE  [j EXCEPT !.lane = lane] \in CommandLine
  BY DEF CommandLine

-----------------------------------------------------------------------------
(* Every step keeps the types.                                             *)

LEMMA TypedStep ==
    ASSUME Typed, Planning, Reporting, [Next]_vars, ConstantsOK
    PROVE  Typed'
<1> USE DEF Typed, Phases, Own, Judging
<1>0. MaxCommands \in Nat
  BY DEF ConstantsOK
<1>1. ASSUME NEW j \in Jobs[n + 1], n < MaxCommands, Begin(j)
      PROVE  Typed'
  <2>1. n + 1 \in DOMAIN Jobs /\ j \in CommandLine
    BY <1>0, <1>1 DEF ConstantsOK
  <2>2. files' = [work |-> Empty, root |-> files.root]
    BY <1>1 DEF Begin
  <2>3. QED
    BY <1>0, <1>1, <2>1, <2>2, EmptyFacts DEF Begin
<1>2. ASSUME NEW lane \in {"off", "on", "broken"}, Replay(lane)
      PROVE  Typed'
  <2>1. job' \in CommandLine
    BY <1>2, ReplayedLine DEF Replay
  <2>2. Len(plan.steps) \in Nat
    BY <1>2, PlanCounted DEF Replay
  <2>3. QED
    BY <1>0, <1>2, <2>1, <2>2 DEF Replay
<1>3. CASE Stops /\ files' = files
  BY <1>3 DEF Stops
<1>4. CASE Plan
  <2>1. job \in CommandLine /\ Len(Steps(job)) \in Nat
    BY <1>4, PlanCounted DEF Plan
  <2>2. plan' # NoPlan
    BY <1>4 DEF Plan, ConstantsOK
  <2>3. errors' \subseteq {"mode", "selection", "epoch"}
    BY <1>4 DEF Plan, ModeErrors, Denials
  <2>4. /\ files' = [work |-> files'.work, root |-> files'.root]
        /\ files'.work = Over(Filled(Prepared(job), {job.input}), files.work)
    BY <1>4 DEF Plan
  <2>5. IsFunction(files'.work)
    BY <2>4, OverFacts
  <2>6. phase' \in {"running", "ran"}
    BY <1>4 DEF Plan
  <2>7. plan' = [line |-> job, steps |-> Steps(job)] /\ pc' = 0
    BY <1>4 DEF Plan, Planning
  <2>8. QED
    BY <1>4, <2>1, <2>2, <2>3, <2>4, <2>5, <2>6, <2>7 DEF Plan
<1>5. ASSUME Stepping
      PROVE  /\ plan # NoPlan /\ job \in CommandLine
             /\ Len(plan.steps) \in Nat
             /\ Written(Step) = [work |-> Written(Step).work,
                                 root |-> Written(Step).root]
             /\ IsFunction(Written(Step).work)
  <2>1. plan # NoPlan /\ job \in CommandLine
    BY <1>5 DEF Stepping, Planning, Own
  <2>2. Len(plan.steps) \in Nat
    BY <2>1, PlanCounted
  <2>3. Place \in {"work", "root"}
    BY DEF Place
  <2>4. Written(Step) =
            [files EXCEPT ![Place] =
                Over(Filled(Step.out, Sources(Step)), files[Place])]
    BY DEF Written
  <2> DEFINE more == Over(Filled(Step.out, Sources(Step)), files[Place])
  <2>5. IsFunction(more)
    BY OverFacts
  <2> HIDE DEF more
  <2>6. QED
    BY <2>1, <2>2, <2>3, <2>4, <2>5 DEF more
<1>6. CASE StepOk
  BY <1>5, <1>6 DEF StepOk, Stepping
<1>7. CASE StepRefused
  <2>1. Refusal(Step) \subseteq {"gate", "missing", "absent", "content"}
    BY DEF Refusal
  <2>2. phase' \in {"idle", "ran"} /\ (phase' = "ran" => phase = "running")
    BY <1>7 DEF StepRefused, Returned, Stepping
  <2>3. files' = Written(Step) \/ files' = files
    BY <1>7 DEF StepRefused
  <2>4. /\ files' = [work |-> files'.work, root |-> files'.root]
        /\ IsFunction(files'.work)
    BY <1>5, <1>7, <2>3 DEF StepRefused
  <2>5. QED
    BY <1>5, <1>7, <2>1, <2>2, <2>4 DEF StepRefused
<1>8. CASE Finish
  BY <1>8 DEF Finish, Returned
<1>9. CASE Pack
  BY <1>9 DEF Pack
<1>10. CASE Sign
  BY <1>10 DEF Sign
<1>11. CASE ReportOk
  BY <1>11 DEF ReportOk
<1>12. CASE Repack
  BY <1>12 DEF Repack
<1>13. CASE Resign
  BY <1>13 DEF Resign
<1>14. CASE PackLifecycle \/ LifecycleCut
  <2>1. files' = [files EXCEPT !.work = Lowered]
    BY <1>14 DEF PackLifecycle, LifecycleCut
  <2>2. /\ files' = [work |-> files'.work, root |-> files'.root]
        /\ IsFunction(files'.work)
    BY <2>1, LoweredFacts
  <2>3. QED
    BY <1>14, <2>2 DEF PackLifecycle, LifecycleCut, Stops
<1>15. CASE HeadMoves
  BY <1>15 DEF HeadMoves
<1>16. CASE UNCHANGED vars
  BY <1>16 DEF vars
<1>17. QED
  BY <1>1, <1>2, <1>3, <1>4, <1>6, <1>7, <1>8, <1>9, <1>10, <1>11, <1>12,
     <1>13, <1>14, <1>15, <1>16
  DEF Next, ParseFails, StepRaises, PackRaises, Crash, Ends, PackCut, RepackCut,
      SignCut

-----------------------------------------------------------------------------
(* The plan stays that of the command.                                     *)

LEMMA PlanningStep ==
    ASSUME Typed, Planning, [Next]_vars, ConstantsOK
    PROVE  Planning'
<1> USE DEF Planning, Own, Judging
<1>1. ASSUME NEW j \in Jobs[n + 1], Begin(j)
      PROVE  Planning'
  <2>1. files' = [work |-> Empty, root |-> files.root]
    BY <1>1 DEF Begin, Typed
  <2>2. QED
    BY <1>1, <2>1 DEF Begin
<1>2. ASSUME NEW lane \in {"off", "on", "broken"}, Replay(lane)
      PROVE  Planning'
  BY <1>2 DEF Replay
<1>3. CASE Stops
  BY <1>3 DEF Stops
<1>4. CASE Plan
  <2>1. plan'.line = job /\ phase' \in {"running", "ran"}
    BY <1>4 DEF Plan
  <2>2. PICK i \in DOMAIN Jobs : job \in Jobs[i]
    BY <1>4 DEF Plan, Typed
  <2>3. plan' # NoPlan
    BY <1>4, <2>2 DEF Plan, ConstantsOK
  <2>4. phase' = "running" =>
            Denials(job)' = {} /\ errors' \subseteq {"mode"}
    BY <1>4 DEF Plan, ModeErrors, Denials, Required
  <2>5. QED
    BY <1>4, <2>1, <2>3, <2>4 DEF Plan
<1>5. CASE StepOk
  BY <1>5 DEF StepOk, Stepping, Denials, Required
<1>6. CASE StepRefused
  BY <1>6 DEF StepRefused, Stepping, Returned
<1>7. CASE Finish
  BY <1>7 DEF Finish, Returned
<1>8. CASE Pack
  BY <1>8 DEF Pack
<1>9. CASE Sign
  BY <1>9 DEF Sign
<1>10. CASE ReportOk
  BY <1>10 DEF ReportOk
<1>11. CASE Repack
  BY <1>11 DEF Repack
<1>12. CASE Resign
  BY <1>12 DEF Resign
<1>13. CASE PackLifecycle
  BY <1>13 DEF PackLifecycle
<1>14. CASE UNCHANGED vars \/ HeadMoves
  BY <1>14 DEF vars, HeadMoves, Denials, Required
<1>15. QED
  BY <1>1, <1>2, <1>3, <1>4, <1>5, <1>6, <1>7, <1>8, <1>9, <1>10, <1>11,
     <1>12, <1>13, <1>14
  DEF Next, ParseFails, StepRaises, PackRaises, Crash, Ends, PackCut, RepackCut,
      LifecycleCut, SignCut

(* "lifecycle" reports what it has bundled.                                *)
LEMMA LifecyclePacked ==
    ASSUME PackLifecycle
    PROVE  \E ok \in BOOLEAN :
               report' = [ok     |-> ok,
                          bundle |-> BundleId(Artifacts(Lowered, errors # {}))]
<1> DEFINE ok == /\ ~(errors # {})
                 /\ ~(\/ job.epoch = "missing"
                      \/ job.inversion /\ ~(errors # {}))
<1>1. report' = [ok     |-> ok,
                 bundle |-> BundleId(Artifacts(Lowered, errors # {}))]
  BY DEF PackLifecycle
<1>2. ok \in BOOLEAN
  OBVIOUS
<1> HIDE DEF ok
<1>3. QED
  BY <1>1, <1>2

(* What the bundles may do in a step: stay, take a seal or take a manifest,*)
(* both to the end where the process is not stopped.                       *)
LEMMA BundlesStep ==
    ASSUME Reporting, [Next]_vars
    PROVE  \/ bundles' = bundles
           \/ \E key : /\ bundles' = Signed(key)
                      /\ report.bundle \in DOMAIN bundles
                      /\ phase \in {"packed", "repacked"}
                      /\ job.key # "none"
                      /\ \/ key = job.key
                         \/ key = "cut" /\ job' = NoJob
           \/ \E artifacts, written : /\ bundles' = Bundled(artifacts, written)
                                   /\ phase \in {"ran", "signed"}
                                   /\ \/ written = "whole"
                                      \/ job' = NoJob
<1>1. Pack \/ Repack \/ PackLifecycle =>
          \E artifacts : /\ bundles' = Bundled(artifacts, "whole")
                        /\ phase \in {"ran", "signed"}
  BY DEF Pack, Repack, PackLifecycle
<1>2. PackCut \/ RepackCut \/ LifecycleCut =>
          \E artifacts : /\ bundles' = Bundled(artifacts, "cut")
                        /\ phase \in {"ran", "signed"}
                        /\ job' = NoJob
  BY DEF PackCut, RepackCut, LifecycleCut, Stops
<1>3. Sign \/ Resign =>
          \/ bundles' = bundles
          \/ /\ bundles' = Signed(job.key)
             /\ report.bundle \in DOMAIN bundles
             /\ phase \in {"packed", "repacked"}
             /\ job.key # "none"
  BY DEF Sign, Resign, Reporting, Judging
<1>4. SignCut =>
          /\ bundles' = Signed("cut")
          /\ report.bundle \in DOMAIN bundles
          /\ phase \in {"packed", "repacked"}
          /\ job.key # "none"
          /\ job' = NoJob
  BY DEF SignCut, Stops, Reporting, Judging
<1>5. QED
  BY <1>1, <1>2, <1>3, <1>4 DEF Next, Begin, Replay, ParseFails, Plan, StepOk,
     StepRefused, StepRaises, Finish, PackRaises, ReportOk, Crash, Ends,
     HeadMoves, vars

(* No bundle is removed.                                                   *)
LEMMA BundlesGrow ==
    ASSUME Reporting, Bundling, [Next]_vars
    PROVE  DOMAIN bundles \subseteq DOMAIN bundles'
  BY BundlesStep, BundledFacts, SignedFacts

(* The report names a bundle that is there.                                *)
LEMMA ReportingStep ==
    ASSUME Typed, Reporting, Bundling, [Next]_vars, ConstantsOK
    PROVE  Reporting'
<1> USE DEF Reporting, Judging
<1>0. NoReport = [ok |-> FALSE, bundle |-> NoBundle]
  BY DEF NoReport
<1>1. ASSUME NEW j \in Jobs[n + 1], n < MaxCommands, Begin(j)
      PROVE  Reporting'
  BY <1>0, <1>1 DEF Begin
<1>2. ASSUME NEW lane \in {"off", "on", "broken"}, Replay(lane)
      PROVE  Reporting'
  BY <1>0, <1>2 DEF Replay
<1>3. CASE Stops
  BY <1>0, <1>3, BundlesGrow DEF Stops
<1>4. CASE Plan
  BY <1>4 DEF Plan
<1>5. CASE StepOk
  BY <1>5 DEF StepOk, Stepping
<1>6. CASE StepRefused
  BY <1>6 DEF StepRefused, Stepping, Returned
<1>7. CASE Finish
  BY <1>7 DEF Finish, Returned
<1>8. ASSUME NEW artifacts, bundles' = Bundled(artifacts, "whole"),
             NEW ok \in BOOLEAN,
             report' = [ok |-> ok, bundle |-> BundleId(artifacts)],
             proven' = proven, job' = job, phase # "idle",
             \/ phase' \in Judging /\ ~ok
             \/ phase' = "idle"
      PROVE  Reporting'
  <2>1. DOMAIN bundles' = DOMAIN bundles \cup {BundleId(artifacts)}
    BY <1>8, BundledFacts
  <2>2. job \in CommandLine
    BY <1>8 DEF Typed
  <2>3. report'.bundle = BundleId(artifacts) /\ report'.ok = ok
    BY <1>8
  <2>4. QED
    BY <1>8, <2>1, <2>2, <2>3
<1>9. CASE Pack
  BY <1>8, <1>9 DEF Pack
<1>10. CASE Repack
  BY <1>8, <1>10 DEF Repack
<1>11. CASE PackLifecycle
  <2> DEFINE artifacts == Artifacts(Lowered, errors # {})
  <2>1. PICK ok \in BOOLEAN :
            report' = [ok |-> ok, bundle |-> BundleId(artifacts)]
    BY <1>11, LifecyclePacked
  <2>2. bundles' = Bundled(artifacts, "whole")
    BY <1>11 DEF PackLifecycle
  <2> HIDE DEF artifacts
  <2>3. QED
    BY <1>8, <1>11, <2>1, <2>2 DEF PackLifecycle
<1>12. CASE /\ phase \in Judging
            /\ bundles' = bundles \/ bundles' = Signed(job.key)
            /\ (Sign \/ Resign)
  <2>1. DOMAIN bundles' = DOMAIN bundles
    BY <1>12, SignedFacts
  <2>2. job \in CommandLine
    BY <1>12 DEF Typed
  <2>3. QED
    BY <1>12, <2>1, <2>2 DEF Sign, Resign
<1>13. CASE Sign
  BY <1>12, <1>13 DEF Sign
<1>14. CASE Resign
  BY <1>12, <1>14 DEF Resign
<1>15. CASE ReportOk
  <2>1. report' = [ok |-> TRUE, bundle |-> report.bundle]
    BY <1>15 DEF ReportOk
  <2>2. QED
    BY <1>15, <2>1 DEF ReportOk
<1>16. CASE UNCHANGED vars \/ HeadMoves
  BY <1>16 DEF vars, HeadMoves
<1>17. QED
  BY <1>1, <1>2, <1>3, <1>4, <1>5, <1>6, <1>7, <1>9, <1>10, <1>11, <1>13,
     <1>14, <1>15, <1>16
  DEF Next, ParseFails, StepRaises, PackRaises, Crash, Ends, PackCut, RepackCut,
      LifecycleCut, SignCut

(* The bundles stay manifests and seals under their ids.                   *)
LEMMA BundlingStep ==
    ASSUME Reporting, Bundling, Proceeding, [Next]_vars
    PROVE  Bundling'
<1>1. CASE bundles' = bundles
  BY <1>1 DEF Bundling
<1>2. ASSUME NEW key, bundles' = Signed(key), report.bundle \in DOMAIN bundles,
             phase \in {"packed", "repacked"}
      PROVE  Bundling'
  <2> SUFFICES ASSUME NEW id \in DOMAIN bundles'
               PROVE  IsBundle(id, bundles'[id])
    BY DEF Bundling
  <2>1. id \in DOMAIN bundles
    BY <1>2, SignedFacts
  <2>2. CASE id # report.bundle
    <3>1. bundles'[id] = bundles[id]
      BY <1>2, <2>1, <2>2, SignedFacts
    <3>2. QED
      BY <2>1, <3>1 DEF Bundling
  <2>3. CASE id = report.bundle
    <3>1. bundles'[id] = [manifest |-> bundles[id].manifest,
                          seal |-> [manifest |-> bundles[id].manifest,
                                    key |-> key]]
      BY <1>2, <2>3, SignedFacts
    <3>2. bundles[id].manifest.written = "whole"
      BY <1>2, <2>3 DEF Proceeding, Judging
    <3>3. /\ bundles'[id] = [manifest |-> bundles'[id].manifest,
                             seal |-> bundles'[id].seal]
          /\ bundles'[id].manifest = bundles[id].manifest
          /\ bundles'[id].seal.manifest.written = "whole"
      BY <3>1, <3>2
    <3>4. QED
      BY <2>1, <3>3 DEF Bundling, IsBundle
  <2>4. QED
    BY <2>2, <2>3
<1>3. ASSUME NEW artifacts, NEW written, bundles' = Bundled(artifacts, written)
      PROVE  Bundling'
  <2> SUFFICES ASSUME NEW id \in DOMAIN bundles'
               PROVE  IsBundle(id, bundles'[id])
    BY DEF Bundling
  <2>1. CASE id # BundleId(artifacts)
    <3>1. id \in DOMAIN bundles /\ bundles'[id] = bundles[id]
      BY <1>3, <2>1, BundledFacts
    <3>2. QED
      BY <3>1 DEF Bundling
  <2>2. CASE id = BundleId(artifacts)
    <3>1. PICK seal :
              /\ bundles'[id] =
                     [manifest |-> Manifest(artifacts, written), seal |-> seal]
              /\ id \in DOMAIN bundles \/ seal = NoSeal
      <4>1. \E seal :
                /\ Bundled(artifacts, written)[BundleId(artifacts)] =
                       [manifest |-> Manifest(artifacts, written), seal |-> seal]
                /\ BundleId(artifacts) \in DOMAIN bundles \/ seal = NoSeal
        BY BundledFacts
      <4>2. QED
        BY <1>3, <2>2, <4>1
    <3>2. id \in DOMAIN bundles => bundles'[id].seal = bundles[id].seal
      BY <1>3, <2>2, BundledFacts
    <3>3. seal.key = "own" => seal.manifest.written = "whole"
      <4>1. CASE id \in DOMAIN bundles
        <5>1. seal = bundles[id].seal
          BY <3>1, <3>2, <4>1
        <5>2. QED
          BY <4>1, <5>1 DEF Bundling, IsBundle
      <4>2. CASE seal = NoSeal
        BY <4>2 DEF NoSeal
      <4>3. QED
        BY <3>1, <4>1, <4>2
    <3>4. QED
      BY <2>2, <3>1, <3>3, ManifestFacts DEF IsBundle
  <2>3. QED
    BY <2>1, <2>2
<1>4. QED
  BY <1>1, <1>2, <1>3, BundlesStep

-----------------------------------------------------------------------------
(* An earlier verdict lapses in two ways only.  Signing to the end with the*)
(* own key is none, and bundling again under the same id changes the       *)
(* manifest only in what the id does not name, or cuts it off.             *)
LEMMA VerdictsStep ==
    ASSUME Typed, Reporting, Bundling, [Next]_vars
    PROVE  \A id \in proven :
               Verifies(id) /\ ~Verifies(id)' => Rewritten(id) \/ Resealed(id)
<1> SUFFICES ASSUME NEW id \in proven, Verifies(id), ~Verifies(id)'
             PROVE  Rewritten(id) \/ Resealed(id)
  OBVIOUS
<1>1. id \in DOMAIN bundles
  BY DEF Reporting
<1>2. bundles'[id] # bundles[id]
  BY DEF Verifies
<1>3. ASSUME NEW key, bundles' = Signed(key), report.bundle \in DOMAIN bundles,
             phase \in {"packed", "repacked"}, job.key # "none",
             key = job.key \/ (key = "cut" /\ job' = NoJob)
      PROVE  Resealed(id)
  <2>1. id = report.bundle
    BY <1>1, <1>2, <1>3, SignedFacts
  <2>2. /\ bundles'[id].seal = [manifest |-> bundles[id].manifest, key |-> key]
        /\ bundles'[id].manifest = bundles[id].manifest
    <3>1. bundles'[id] = [manifest |-> bundles[id].manifest,
                          seal |-> [manifest |-> bundles[id].manifest,
                                    key |-> key]]
      BY <1>3, <2>1, SignedFacts
    <3>2. QED
      BY <3>1
  <2>3. key # "own"
    BY <2>2 DEF Verifies
  <2>4. job.key \in {"own", "foreign", "none"}
    BY <1>3 DEF Typed, CommandLine
  <2>5. QED
    BY <1>3, <2>1, <2>2, <2>3, <2>4 DEF Resealed
<1>4. ASSUME NEW artifacts, NEW written, bundles' = Bundled(artifacts, written),
             phase \in {"ran", "signed"}, written = "whole" \/ job' = NoJob
      PROVE  Rewritten(id)
  <2>1. id = BundleId(artifacts)
    BY <1>1, <1>2, <1>4, BundledFacts
  <2> DEFINE old == bundles[id].manifest
             new == Manifest(artifacts, written)
  <2>2. bundles'[id].manifest = new /\ bundles'[id].seal = bundles[id].seal
    BY <1>1, <1>4, <2>1, BundledFacts
  <2>3. new # old
    BY <2>2 DEF Verifies
  <2>4. /\ old = [id        |-> id,
                  artifacts |-> id.artifacts,
                  inversion |-> old.inversion,
                  epoch     |-> old.epoch,
                  commit    |-> old.commit,
                  written   |-> old.written]
        /\ bundles[id].seal.key = "own" =>
               bundles[id].seal.manifest.written = "whole"
    BY <1>1 DEF Bundling, IsBundle
  <2>5. old.written = "whole"
    BY <2>4 DEF Verifies
  <2>6. new = [id        |-> id,
               artifacts |-> id.artifacts,
               inversion |-> job.inversion,
               epoch     |-> Anchored(job),
               commit    |-> head,
               written   |-> written]
    BY <2>1, ManifestFacts
  <2> HIDE DEF old, new
  <2>7. new.artifacts = old.artifacts
    BY <2>4, <2>6
  <2>8. written = "whole" => \/ job.inversion # old.inversion
                        \/ Anchored(job) # old.epoch
                        \/ head # old.commit
    BY <2>3, <2>4, <2>5, <2>6
  <2>9. QED
    BY <1>4, <2>2, <2>7, <2>8 DEF Rewritten, Differs, old
<1>5. QED
  BY <1>2, <1>3, <1>4, BundlesStep

(* After a refusal nothing more is written.                                *)
LEMMA RefusedStep ==
    ASSUME Typed, Planning, [Next]_vars, ConstantsOK,
           errors # {}, errors # {"mode"}, n' = n, job.track # "legacy"
    PROVE  files' = files
<1>1. phase # "begun" /\ phase # "running" /\ phase # "replaying"
  BY DEF Planning
<1>2. CASE PackLifecycle \/ LifecycleCut
  <2>1. files' = [work |-> Lowered, root |-> files.root]
    BY <1>2, LoweredFacts DEF PackLifecycle, LifecycleCut
  <2>2. Lowered = files.work
    BY LoweredFacts
  <2>3. files = [work |-> files.work, root |-> files.root]
    BY DEF Typed
  <2>4. QED
    BY <2>1, <2>2, <2>3
<1>3. ASSUME NEW j, Begin(j)
      PROVE  FALSE
  <2>1. n \in Nat /\ n' = n + 1
    BY <1>3 DEF Begin, Typed, ConstantsOK
  <2>2. QED
    BY <2>1
<1>4. ~Plan /\ ~StepOk /\ ~StepRefused
  BY <1>1 DEF Plan, StepOk, StepRefused, Stepping
<1>5. QED
  BY <1>2, <1>3, <1>4 DEF Next, Replay, ParseFails, StepRaises, Finish, Pack,
     PackRaises, Sign, ReportOk, Repack, Resign, Crash, Ends, PackCut,
     RepackCut, SignCut, HeadMoves, vars

-----------------------------------------------------------------------------
(* What a run leaves.                                                      *)

(* The file that a relative key is looked up as is collected by no demo.   *)
LEMMA KeyNotCollected ==
    ASSUME NEW j, IsDemo(j)
    PROVE  "pub" \notin OutputRoles(j)
<1>1. \A t \in DemoTracks : "pub" \notin DemoOf[t].roles
  BY TracksNamed DEF DemoOf, Demo, CiDemo, AgentDemo, PaperDemo, ShadowDemo,
     IoShadowDemo, IoLiveMinDemo, NavierStokesDemo, NetDemo
<1>2. QED
  BY <1>1 DEF OutputRoles, IsDemo

(* A step of the command's own run writes beside the other work files and  *)
(* nowhere else.                                                           *)
LEMMA WrittenFacts ==
    ASSUME Typed, phase = "running"
    PROVE  /\ Written(Step).root = files.root
           /\ DOMAIN Written(Step).work = Step.out \cup DOMAIN files.work
           /\ \A f \in DOMAIN Written(Step).work :
                  \/ Written(Step).work[f] = Sources(Step)
                  \/ /\ f \in DOMAIN files.work
                     /\ Written(Step).work[f] = files.work[f]
<1> DEFINE more == Filled(Step.out, Sources(Step))
<1>1. files = [work |-> files.work, root |-> files.root]
  BY DEF Typed
<1>2. Written(Step) = [files EXCEPT !.work = Over(more, files.work)]
  BY DEF Written, Place
<1>3. /\ DOMAIN Over(more, files.work) = Step.out \cup DOMAIN files.work
      /\ \A f \in Step.out \cup DOMAIN files.work :
             \/ Over(more, files.work)[f] = Sources(Step)
             \/ /\ f \in DOMAIN files.work
                /\ Over(more, files.work)[f] = files.work[f]
  BY DEF Over, Filled
<1> HIDE DEF more
<1>4. /\ Written(Step).work = Over(more, files.work)
      /\ Written(Step).root = files.root
  BY <1>1, <1>2
<1>5. QED
  BY <1>3, <1>4

(* The artifacts of a bundle: the files the command collects, what is      *)
(* always there, and the witness where there is one.                       *)
LEMMA ArtifactsFacts ==
    ASSUME NEW work, NEW witnessed \in BOOLEAN
    PROVE  LET a == Artifacts(work, witnessed) IN
           /\ DOMAIN work \cap OutputRoles(job) \subseteq DOMAIN a
           /\ witnessed => WitnessRoles \subseteq DOMAIN a
           /\ \A r \in DOMAIN a :
                  \/ r \in DOMAIN work /\ a[r] = work[r]
                  \/ a[r] = {job.input}
<1> DEFINE collected == [f \in DOMAIN work \cap OutputRoles(job) |-> work[f]]
           always == {"program_ir", "plan", "runtime_result"} \cup Given(job)
                         \cup (IF witnessed THEN WitnessRoles ELSE {})
                         \cup (IF IsDemo(job) /\ DemoOf[job.track].scans
                               THEN {"redaction_report"} ELSE {})
<1>1. Artifacts(work, witnessed) = Over(collected, Filled(always, {job.input}))
  BY DEF Artifacts
<1>2. witnessed => WitnessRoles \subseteq always
  OBVIOUS
<1>3. /\ DOMAIN collected = DOMAIN work \cap OutputRoles(job)
      /\ \A f \in DOMAIN collected : collected[f] = work[f]
  OBVIOUS
<1> HIDE DEF collected, always
<1>4. /\ DOMAIN Artifacts(work, witnessed) = DOMAIN collected \cup always
      /\ \A r \in DOMAIN collected \cup always :
             \/ /\ r \in DOMAIN collected
                /\ Artifacts(work, witnessed)[r] = collected[r]
             \/ Artifacts(work, witnessed)[r] = {job.input}
  BY <1>1 DEF Over, Filled
<1>5. QED
  BY <1>2, <1>3, <1>4

(* The run is complete as far as it went, and so is what is bundled of it. *)
LEMMA ProceedingStep ==
    ASSUME Typed, Planning, Reporting, Bundling, Proceeding, [Next]_vars,
           ConstantsOK
    PROVE  Proceeding'
<1> USE DEF Proceeding, Judging
<1>1. ASSUME NEW j \in Jobs[n + 1], Begin(j)
      PROVE  Proceeding'
  BY <1>1 DEF Begin
<1>2. ASSUME NEW lane \in {"off", "on", "broken"}, Replay(lane)
      PROVE  Proceeding'
  BY <1>2 DEF Replay
<1>3. CASE Stops
  BY <1>3 DEF Stops
<1>4. CASE Plan
  <2>1. DOMAIN files'.work = Prepared(job) \cup DOMAIN files.work
    <3>1. files'.work = Over(Filled(Prepared(job), {job.input}), files.work)
      BY <1>4 DEF Plan, Typed
    <3>2. QED
      BY <3>1 DEF Over, Filled
  <2>2. OutsOf(plan'.steps, 0) = {}
    BY DEF OutsOf
  <2>3. pc' = 0 /\ job' = job /\ phase' \in {"running", "ran"}
    BY <1>4 DEF Plan, Planning
  <2>4. phase' = "ran" => errors' # {}
    BY <1>4 DEF Plan
  <2>5. QED
    BY <2>1, <2>2, <2>3, <2>4
<1>5. CASE StepOk
  <2>1. CASE phase = "running"
    <3>1. /\ pc \in Nat /\ Step = plan.steps[pc + 1]
          /\ files' = Written(Step) /\ pc' = pc + 1
          /\ plan' = plan /\ job' = job /\ phase' = "running"
      BY <1>5, <2>1, PlanCounted DEF StepOk, Step, Typed
    <3>2. OutsOf(plan.steps, pc + 1) = OutsOf(plan.steps, pc) \cup Step.out
      <4>1. 1..(pc + 1) = 1..pc \cup {pc + 1}
        BY <3>1
      <4>2. QED
        BY <3>1, <4>1 DEF OutsOf
    <3>3. DOMAIN Written(Step).work = Step.out \cup DOMAIN files.work
      BY <2>1, WrittenFacts
    <3>4. QED
      BY <2>1, <3>1, <3>2, <3>3
  <2>2. CASE phase # "running"
    BY <1>5, <2>2 DEF StepOk, Stepping
  <2>3. QED
    BY <2>1, <2>2
<1>6. CASE StepRefused
  <2>1. CASE phase = "running"
    <3>1. files' \in {files, Written(Step)} /\ errors' # {} /\ phase' = "ran"
      BY <1>6, <2>1 DEF StepRefused, Returned
    <3>2. DOMAIN files.work \subseteq DOMAIN files'.work
      BY <2>1, <3>1, WrittenFacts
    <3>3. QED
      BY <1>6, <2>1, <3>1, <3>2 DEF StepRefused
  <2>2. CASE phase # "running"
    BY <1>6, <2>2 DEF StepRefused, Stepping, Returned
  <2>3. QED
    BY <2>1, <2>2
<1>7. CASE Finish
  BY <1>7 DEF Finish, Returned, Planning
<1>8. CASE Pack
  <2> DEFINE a == Artifacts(files.work, FALSE)
             id == BundleId(a)
  <2>1. bundles' = Bundled(a, "whole") /\ report'.bundle = id
    BY <1>8 DEF Pack, Reporting
  <2>2. /\ bundles'[id].manifest.artifacts = a
        /\ bundles'[id].manifest.written = "whole"
    BY <2>1, PackedBy
  <2> HIDE DEF id
  <2>3. errors = {} => OutputRoles(job) \subseteq DOMAIN a
    <3> SUFFICES ASSUME errors = {}
                 PROVE  OutputRoles(job) \subseteq DOMAIN a
      OBVIOUS
    <3>1. /\ job \in CommandLine /\ IsDemo(job) /\ phase = "ran"
          /\ plan.steps = Steps(job)
      BY <1>8 DEF Pack, Typed, Planning, Own
    <3>2. OutputRoles(job) \subseteq
              Needed(job) \cup OutsOf(plan.steps, Len(plan.steps))
      BY <3>1, PlanServes DEF Serves
    <3>3. Needed(job) \subseteq Prepared(job) \cup {"pub"}
      BY DEF Needed
    <3>4. OutputRoles(job) \subseteq DOMAIN files.work
      BY <3>1, <3>2, <3>3, KeyNotCollected
    <3>5. QED
      BY <3>4, ArtifactsFacts
  <2>4. /\ phase = "ran" /\ phase' = "packed" /\ errors' = errors
        /\ job' = job /\ IsDemo(job) /\ plan' = plan /\ pc' = pc
    BY <1>8 DEF Pack
  <2>5. RolesOf(report.bundle)' = DOMAIN a
    BY <2>1, <2>2 DEF RolesOf
  <2>6. QED
    BY <2>1, <2>2, <2>3, <2>4, <2>5
<1>9. CASE Sign
  <2>1. /\ phase = "packed" /\ phase' = "signed" /\ errors \subseteq errors'
        /\ report' = report /\ job' = job /\ plan' = plan /\ pc' = pc
        /\ bundles' = bundles \/ bundles' = Signed(job.key)
    BY <1>9 DEF Sign
  <2>2. bundles'[report'.bundle].manifest = bundles[report.bundle].manifest
    BY <2>1, SignedBy DEF Reporting
  <2>3. errors' = {} => job.key = "own" /\ bundles' = Signed(job.key)
    <3>1. job.key \in {"own", "foreign", "none"}
      BY <2>1 DEF Typed, CommandLine
    <3>2. QED
      BY <1>9, <3>1 DEF Sign
  <2>4. errors' = {} => Verifies(report.bundle)'
    BY <2>1, <2>3, SignedBy DEF Reporting
  <2>5. QED
    BY <2>1, <2>2, <2>4 DEF RolesOf
<1>10. CASE ReportOk
  BY <1>10 DEF ReportOk
<1>11. CASE Repack
  <2> DEFINE a == Artifacts(files.work, TRUE)
             id == BundleId(a)
  <2>1. bundles' = Bundled(a, "whole") /\ report'.bundle = id
    BY <1>11 DEF Repack, Reporting
  <2>2. /\ bundles'[id].manifest.artifacts = a
        /\ bundles'[id].manifest.written = "whole"
    BY <2>1, PackedBy
  <2> HIDE DEF id
  <2>3. RolesOf(report.bundle)' = DOMAIN a
    BY <2>1, <2>2 DEF RolesOf
  <2>4. WitnessRoles \subseteq DOMAIN a
    BY ArtifactsFacts
  <2>5. QED
    BY <1>11, <2>1, <2>2, <2>3, <2>4 DEF Repack
<1>12. CASE Resign
  BY <1>12 DEF Resign
<1>13. CASE PackLifecycle
  BY <1>13 DEF PackLifecycle
<1>14. CASE UNCHANGED vars \/ HeadMoves
  BY <1>14 DEF vars, HeadMoves, RolesOf, Verifies
<1>15. QED
  BY <1>1, <1>2, <1>3, <1>4, <1>5, <1>6, <1>7, <1>8, <1>9, <1>10, <1>11,
     <1>12, <1>13, <1>14
  DEF Next, ParseFails, StepRaises, PackRaises, Crash, Ends, PackCut, RepackCut,
      LifecycleCut, SignCut

(* A verdict, once given, stays until the next command: what must hold of  *)
(* it has only to be looked at where it is given.                          *)
LEMMA ReportedBy ==
    ASSUME Typed, Reporting, [Next]_vars, Reported', ~UNCHANGED vars
    PROVE  \/ ReportOk \/ Resign
           \/ PackLifecycle /\ ~IsDemo(job) /\ job' = job
           \/ HeadMoves
<1>1. NoReport.bundle = NoBundle
  BY DEF NoReport
<1>2. ~Stops
  BY <1>1 DEF Stops, Reported
<1>3. \A j : ~Begin(j)
  BY DEF Begin, Reported
<1>4. \A lane : ~Replay(lane)
  BY DEF Replay, Reported
<1>5. ~StepRefused /\ ~Finish
  BY DEF StepRefused, Finish, Stepping, Reported, Reporting, Judging
<1>6. ~Plan /\ ~StepOk /\ ~Pack /\ ~Sign /\ ~Repack
  BY DEF Plan, StepOk, Stepping, Pack, Sign, Repack, Reported
<1>7. QED
  BY <1>2, <1>3, <1>4, <1>5, <1>6
  DEF Next, ParseFails, StepRaises, PackRaises, Crash, Ends, PackCut, RepackCut,
      LifecycleCut, SignCut, PackLifecycle

LEMMA VerdictStep ==
    ASSUME IInv, [Next]_vars
    PROVE  OkIsProven' /\ RefusedIsWitnessed'
<1>1. CASE UNCHANGED vars \/ HeadMoves
  BY <1>1 DEF IInv, vars, HeadMoves, OkIsProven, RefusedIsWitnessed, Reported,
     RolesOf, Verifies
<1>2. CASE ReportOk
  <2>1. /\ phase = "signed" /\ errors = {} /\ report'.ok = TRUE
        /\ report'.bundle = report.bundle
        /\ job' = job /\ plan' = plan /\ pc' = pc /\ bundles' = bundles
    BY <1>2 DEF ReportOk, IInv, Reporting
  <2>2. plan.line = job
    BY <2>1 DEF IInv, Planning, Own, Judging
  <2>3. /\ Denials(job) = {} /\ pc = Len(plan.steps)
        /\ OutputRoles(job) \subseteq RolesOf(report.bundle)
        /\ Verifies(report.bundle)
    BY <2>1 DEF IInv, Proceeding
  <2>4. RolesOf(report.bundle)' = RolesOf(report.bundle)
    BY <2>1 DEF RolesOf
  <2>5. Verifies(report.bundle)'
    BY <2>1, <2>3 DEF Verifies
  <2>6. QED
    BY <2>1, <2>2, <2>3, <2>4, <2>5 DEF OkIsProven, RefusedIsWitnessed
<1>3. CASE Resign
  <2>1. /\ phase = "repacked" /\ report' = report /\ job' = job
        /\ bundles' = IF job.key = "none" THEN bundles ELSE Signed(job.key)
    BY <1>3 DEF Resign
  <2>2. ~report'.ok /\ report.bundle \in DOMAIN bundles
    BY <2>1 DEF IInv, Reporting, Judging
  <2>3. WitnessRoles \subseteq RolesOf(report.bundle)
    BY <2>1 DEF IInv, Proceeding
  <2>4. RolesOf(report.bundle)' = RolesOf(report.bundle)
    BY <2>1, <2>2, SignedBy DEF RolesOf, IInv
  <2>5. job.key = "own" => Verifies(report.bundle)'
    BY <2>1, <2>2, SignedBy DEF IInv
  <2>6. QED
    BY <2>1, <2>2, <2>3, <2>4, <2>5 DEF OkIsProven, RefusedIsWitnessed
<1>4. CASE PackLifecycle /\ ~IsDemo(job) /\ job' = job
  BY <1>4 DEF OkIsProven, RefusedIsWitnessed
<1>5. CASE ~Reported'
  BY <1>5 DEF OkIsProven, RefusedIsWitnessed
<1>6. QED
  BY <1>1, <1>2, <1>3, <1>4, <1>5, ReportedBy DEF IInv

-----------------------------------------------------------------------------
(* What a run reads.                                                       *)

(* The files of a step of the command's own run are derived from what the  *)
(* command was given, as those it reads are.                               *)
LEMMA SourcesDerive ==
    ASSUME Typed, Planning, Deriving, phase = "running", Stepping,
           ~Missing(Step)
    PROVE  Sources(Step) \subseteq Origins
<1>1. /\ job \in CommandLine /\ plan # NoPlan /\ plan.steps = Steps(job)
      /\ pc + 1 \in 1..Len(Steps(job))
  <2>1. job \in CommandLine /\ plan # NoPlan /\ plan.steps = Steps(job)
    BY DEF Typed, Planning, Own
  <2>2. Len(Steps(job)) \in Nat
    BY <2>1, PlanCounted
  <2>3. QED
    BY <2>1, <2>2 DEF Typed, Stepping
<1>2. Step.rootFirst => job.track = "navier_stokes"
  BY <1>1, PlanServes DEF Beside, Step
<1>3. \A f \in DOMAIN files.work : files.work[f] \subseteq Origins
  BY DEF Deriving, Own
<1>4. Place = "work"
  BY DEF Place
<1>5. ASSUME NEW f \in Step.files
      PROVE  Around(Step)[f] \subseteq Origins
  <2>1. f \in DOMAIN Around(Step)
    BY DEF Missing
  <2>2. CASE Step.rootFirst
    <3>1. Around(Step) = Over(files.root, files.work)
      BY <1>4, <2>2 DEF Around
    <3>2. \/ f \in DOMAIN files.root /\ Around(Step)[f] = files.root[f]
          \/ f \in DOMAIN files.work /\ Around(Step)[f] = files.work[f]
      BY <2>1, <3>1 DEF Over
    <3>3. \A g \in DOMAIN files.root : files.root[g] \subseteq Origins
      BY <1>2, <2>2 DEF Origins
    <3>4. QED
      BY <1>3, <3>2, <3>3
  <2>3. CASE ~Step.rootFirst
    <3>1. Around(Step) = files.work
      BY <1>4, <2>3 DEF Around
    <3>2. QED
      BY <1>3, <2>1, <3>1
  <2>4. QED
    BY <2>2, <2>3
<1>6. job.input \in Origins
  BY DEF Origins
<1> DEFINE read == UNION {Around(Step)[f] : f \in Step.files}
           own == IF Step.given # {} \/ Step.files = {} THEN {job.input} ELSE {}
<1>7. Sources(Step) = read \cup own
  BY DEF Sources
<1>8. read \subseteq Origins /\ own \subseteq Origins
  BY <1>5, <1>6
<1> HIDE DEF read, own
<1>9. QED
  BY <1>7, <1>8

(* So the artifacts of a bundle are.                                       *)
LEMMA DerivingStep ==
    ASSUME Typed, Planning, Reporting, Bundling, Deriving, [Next]_vars,
           ConstantsOK
    PROVE  Deriving'
<1>1. NoReport.bundle = NoBundle
  BY DEF NoReport
<1>2. job.input \in Origins
  BY DEF Origins
<1>3. ASSUME job' = job, files'.root = files.root
      PROVE  Origins' = Origins
  BY <1>3 DEF Origins
<1>4. ASSUME NEW j, Begin(j)
      PROVE  Deriving'
  BY <1>1, <1>4 DEF Begin, Deriving, Own, Judging
<1>5. ASSUME NEW lane, Replay(lane)
      PROVE  Deriving'
  BY <1>1, <1>5 DEF Replay, Deriving, Own, Judging
<1>6. CASE Stops
  BY <1>1, <1>6 DEF Stops, Deriving, Own, Judging
<1>7. CASE Plan
  <2>1. /\ files'.work = Over(Filled(Prepared(job), {job.input}), files.work)
        /\ files'.root = files.root
    BY <1>7 DEF Plan, Typed
  <2>2. files.work = Empty
    BY <1>7 DEF Plan, Planning
  <2>3. \A f \in DOMAIN files'.work : files'.work[f] = {job.input}
    BY <2>1, <2>2, EmptyFacts DEF Over, Filled
  <2>4. Origins' = Origins /\ report'.bundle = NoBundle
    BY <1>3, <1>7, <2>1 DEF Plan, Reporting, Judging
  <2>5. QED
    BY <1>2, <2>3, <2>4 DEF Deriving
<1>8. ASSUME Stepping, phase = "running", ~Missing(Step),
             files' = Written(Step), job' = job, report' = report
      PROVE  Deriving'
  <2>1. Sources(Step) \subseteq Origins
    BY <1>8, SourcesDerive
  <2>2. Origins' = Origins
    BY <1>3, <1>8, WrittenFacts
  <2>3. \A f \in DOMAIN files'.work : files'.work[f] \subseteq Origins
    BY <1>8, <2>1, WrittenFacts DEF Deriving, Own
  <2>4. report'.bundle = NoBundle
    BY <1>8 DEF Reporting, Judging
  <2>5. QED
    BY <2>2, <2>3, <2>4 DEF Deriving
<1>9. ASSUME report.bundle = NoBundle, phase' \in {"replaying", "idle"},
             report' = report
      PROVE  Deriving'
  BY <1>9 DEF Deriving, Own, Judging
<1>10. ASSUME phase \in Own, files' = files, bundles' = bundles, job' = job,
              report'.bundle = report.bundle
       PROVE  Deriving'
  BY <1>3, <1>10 DEF Deriving, RolesOf
<1>11. CASE StepOk
  <2>1. ~Missing(Step)
    BY <1>11 DEF StepOk, Refusal
  <2>2. CASE phase = "running"
    BY <1>8, <1>11, <2>1, <2>2 DEF StepOk
  <2>3. CASE phase = "replaying"
    BY <1>9, <1>11, <2>3 DEF StepOk, Reporting, Judging
  <2>4. QED
    BY <1>11, <2>2, <2>3 DEF StepOk, Stepping
<1>12. CASE StepRefused
  <2>1. CASE phase = "running" /\ files' = files
    BY <1>10, <1>12, <2>1 DEF StepRefused, Own
  <2>2. CASE phase = "running" /\ files' # files
    <3>1. files' = Written(Step) /\ Refusal(Step) = {"content"}
      BY <1>12, <2>2 DEF StepRefused
    <3>2. ~Missing(Step)
      BY <3>1 DEF Refusal
    <3>3. QED
      BY <1>8, <1>12, <2>2, <3>1, <3>2 DEF StepRefused
  <2>3. CASE phase = "replaying"
    BY <1>9, <1>12, <2>3 DEF StepRefused, Returned, Reporting, Judging
  <2>4. QED
    BY <1>12, <2>1, <2>2, <2>3 DEF StepRefused, Stepping
<1>13. CASE Finish
  BY <1>9, <1>10, <1>13 DEF Finish, Returned, Reporting, Own, Judging
<1>14. ASSUME NEW work, NEW witnessed \in BOOLEAN,
              LET a == Artifacts(work, witnessed) IN
              bundles' = Bundled(a, "whole") /\ report'.bundle = BundleId(a),
              \A f \in DOMAIN work : work[f] \subseteq Origins,
              files'.work = work, files'.root = files.root, job' = job
       PROVE  Deriving'
  <2> DEFINE a == Artifacts(work, witnessed)
             id == BundleId(a)
  <2>1. \A r \in DOMAIN a : a[r] \subseteq Origins
    BY <1>2, <1>14, ArtifactsFacts
  <2>2. bundles'[id].manifest.artifacts = a /\ report'.bundle = id
    BY <1>14, PackedBy
  <2> HIDE DEF id, a
  <2>3. Origins' = Origins
    BY <1>3, <1>14
  <2>4. QED
    BY <1>14, <2>1, <2>2, <2>3 DEF Deriving, RolesOf
<1>15. \A f \in DOMAIN files.work :
           phase \in Own => files.work[f] \subseteq Origins
  BY DEF Deriving
<1>16. CASE Pack
  BY <1>14, <1>15, <1>16 DEF Pack, Reporting, Own
<1>17. CASE Repack
  BY <1>14, <1>15, <1>17 DEF Repack, Reporting, Own, Judging
<1>18. CASE PackLifecycle
  <2>1. phase \in Own /\ job' = job
    BY <1>18 DEF PackLifecycle, Own
  <2>2. \A f \in DOMAIN Lowered : Lowered[f] \subseteq Origins
    BY <1>2, <1>15, <2>1, LoweredFacts
  <2>3. files'.work = Lowered /\ files'.root = files.root
    BY <1>18, LoweredFacts DEF PackLifecycle
  <2>4. LET a == Artifacts(Lowered, errors # {}) IN
        bundles' = Bundled(a, "whole") /\ report'.bundle = BundleId(a)
    BY <1>18 DEF PackLifecycle
  <2>5. QED
    BY <1>14, <2>1, <2>2, <2>3, <2>4
<1>19. CASE Sign \/ Resign
  <2>1. /\ phase \in Judging /\ report' = report /\ job' = job /\ files' = files
        /\ bundles' = bundles \/ bundles' = Signed(job.key)
    BY <1>19 DEF Sign, Resign, Judging
  <2>2. report.bundle \in DOMAIN bundles
    BY <2>1 DEF Reporting
  <2>3. bundles'[report.bundle].manifest = bundles[report.bundle].manifest
    BY <2>1, <2>2, SignedBy
  <2>4. Origins' = Origins
    BY <1>3, <2>1
  <2>5. QED
    BY <2>1, <2>3, <2>4 DEF Deriving, RolesOf, Own
<1>20. CASE ReportOk
  BY <1>10, <1>20 DEF ReportOk, Own, Judging, Reporting
<1>21. CASE UNCHANGED vars \/ HeadMoves
  BY <1>3, <1>21 DEF vars, HeadMoves, Deriving, RolesOf
<1>22. QED
  BY <1>4, <1>5, <1>6, <1>7, <1>11, <1>12, <1>13, <1>16, <1>17, <1>18, <1>19,
     <1>20, <1>21
  DEF Next, ParseFails, StepRaises, PackRaises, Crash, Ends, PackCut, RepackCut,
      LifecycleCut, SignCut

(* The steps before have left the files a step reads.                      *)
LEMMA InputsFound ==
    ASSUME IInv,
           \A i \in DOMAIN Jobs : \A j \in Jobs[i] :
               Required(j) => j.pub = "absolute"
    PROVE  InputsAreThere
<1> SUFFICES ASSUME phase = "running", Stepping
             PROVE  ~Missing(Step)
  BY DEF InputsAreThere
<1>1. /\ job \in CommandLine /\ plan # NoPlan /\ plan.steps = Steps(job)
      /\ pc \in Nat /\ pc + 1 \in 1..Len(Steps(job))
  <2>1. job \in CommandLine /\ plan # NoPlan /\ plan.steps = Steps(job)
    BY DEF IInv, Typed, Planning, Own
  <2>2. Len(Steps(job)) \in Nat
    BY <2>1, PlanCounted
  <2>3. QED
    BY <2>1, <2>2 DEF IInv, Typed, Stepping
<1>2. Needed(job) = Prepared(job)
  <2>1. PICK i \in DOMAIN Jobs : job \in Jobs[i]
    BY DEF IInv, Typed, Own
  <2>2. QED
    BY <2>1 DEF Needed
<1>3. Step.files \subseteq Prepared(job) \cup OutsOf(Steps(job), pc)
  <2>1. Fed(Steps(job), Prepared(job))
    BY <1>1, <1>2, PlanServes DEF Serves
  <2>2. (pc + 1) - 1 = pc
    BY <1>1
  <2>3. QED
    BY <1>1, <2>1, <2>2 DEF Fed, Step
<1>4. Step.files \subseteq DOMAIN files.work
  BY <1>1, <1>3 DEF IInv, Proceeding
<1>5. files.work = files[Place]
  BY DEF Place
<1>6. DOMAIN files.work \subseteq DOMAIN Around(Step)
  BY <1>5 DEF Around, Over
<1>7. QED
  BY <1>4, <1>6 DEF Missing

-----------------------------------------------------------------------------

(* The conjuncts of IInv hold at first and after every step.               *)
THEOREM InductiveIInv ==
    Spec => []IInv
<1>1. Init => IInv
  <2> SUFFICES ASSUME Init
               PROVE  IInv
    OBVIOUS
  <2>1. MaxCommands \in Nat
    BY ConstantsOK DEF ConstantsOK
  <2>2. NoReport.bundle = NoBundle /\ NoReport.ok = FALSE
        /\ NoReport = [ok |-> NoReport.ok, bundle |-> NoReport.bundle]
    BY DEF NoReport
  <2>3. Typed
    BY <2>1, EmptyFacts DEF Init, Typed, Phases, Own, Judging
  <2>4. Planning /\ Proceeding
    BY DEF Init, Planning, Proceeding, Own, Judging
  <2>5. Reporting
    BY <2>2 DEF Init, Reporting, Judging
  <2>6. Bundling
    BY EmptyFacts DEF Init, Bundling
  <2>7. Deriving /\ OkIsProven /\ RefusedIsWitnessed
    BY <2>2 DEF Init, Deriving, OkIsProven, RefusedIsWitnessed, Reported, Own,
       Judging
  <2>8. QED
    BY <2>3, <2>4, <2>5, <2>6, <2>7 DEF IInv
<1>2. IInv /\ [Next]_vars => IInv'
  <2> SUFFICES ASSUME IInv, [Next]_vars
               PROVE  IInv'
    OBVIOUS
  <2>1. Typed /\ Planning /\ Reporting /\ Bundling /\ Proceeding /\ Deriving
    BY DEF IInv
  <2>2. Typed' /\ Planning'
    BY <2>1, ConstantsOK, TypedStep, PlanningStep
  <2>3. Reporting' /\ Bundling'
    BY <2>1, ConstantsOK, ReportingStep, BundlingStep
  <2>4. Proceeding'
    BY <2>1, ConstantsOK, ProceedingStep
  <2>5. Deriving'
    BY <2>1, ConstantsOK, DerivingStep
  <2>6. OkIsProven' /\ RefusedIsWitnessed'
    BY VerdictStep
  <2>7. QED
    BY <2>2, <2>3, <2>4, <2>5, <2>6 DEF IInv
<1>3. QED
  BY <1>1, <1>2, PTL DEF Spec

(* Every variable keeps its type, and no more steps complete than the plan *)
(* has.                                                                    *)
THEOREM TypeCorrect ==
    Spec => []TypeOK
<1>1. IInv => TypeOK
  <2> SUFFICES ASSUME IInv
               PROVE  TypeOK
    OBVIOUS
  <2>1. plan # NoPlan =>
            plan.line.track \in DemoTracks \cup {"kernel", "legacy"}
    BY DEF IInv, Typed, CommandLine
  <2>2. phase # "idle" => job # NoJob
    BY ConstantsOK DEF IInv, Typed, ConstantsOK
  <2>3. QED
    BY <2>1, <2>2 DEF TypeOK, IInv, Typed, Reporting, Phases
<1>2. QED
  BY <1>1, InductiveIInv, PTL

(* A demo says ok only of a complete run of an approved plan and of a      *)
(* signed bundle with every output of its track.                           *)
THEOREM OkMeansProven ==
    Spec => []OkIsProven
<1>1. IInv => OkIsProven
  BY DEF IInv
<1>2. QED
  BY <1>1, InductiveIInv, PTL

(* A demo that says no has bundled the witness of the refusal, and signed  *)
(* it where it had the key.                                                *)
THEOREM RefusalsAreWitnessed ==
    Spec => []RefusedIsWitnessed
<1>1. IInv => RefusedIsWitnessed
  BY DEF IInv
<1>2. QED
  BY <1>1, InductiveIInv, PTL

(* A bundle holds nothing that an earlier command has left, but for what   *)
(* Navier-Stokes finds in the root.                                        *)
THEOREM EvidenceIsFresh ==
    Spec => []FreshEvidence
<1>1. IInv => FreshEvidence
  BY DEF IInv, Deriving, FreshEvidence, Reported, Origins
<1>2. QED
  BY <1>1, InductiveIInv, PTL

(* Where the public key is named by an absolute path, no step of any track *)
(* looks for a file that is not there.  The hypothesis is needed: with the *)
(* default, relative path VERIFY_SIGNATURE looks for its key in vain.      *)
THEOREM TracksFeedTheirSteps ==
    ASSUME \A i \in DOMAIN Jobs : \A j \in Jobs[i] :
               Required(j) => j.pub = "absolute"
    PROVE  Spec => []InputsAreThere
<1>1. IInv => InputsAreThere
  BY InputsFound
<1>2. QED
  BY <1>1, InductiveIInv, PTL

(* A bundle of which a demo has said ok verifies until a command comes to  *)
(* the same artifacts and replaces its manifest by one that differs in the *)
(* sections, the anchor or the commit, or its signature by that of another *)
(* key, or is stopped in the middle of replacing either.                   *)
THEOREM VerdictsStand ==
    Spec => EarlierVerdictsStand
<1> DEFINE Stand == \A id \in proven :
                        Verifies(id) /\ ~Verifies(id)' =>
                            Rewritten(id) \/ Resealed(id)
<1>1. IInv /\ [Next]_vars => [Stand]_vars
  BY VerdictsStep DEF IInv
<1>2. EarlierVerdictsStand <=> [][Stand]_vars
  BY PTL DEF EarlierVerdictsStand
<1>3. QED
  BY <1>1, <1>2, InductiveIInv, PTL DEF Spec

(* After a refusal, of the plan or of a step, a command writes no further  *)
(* file of the track.                                                      *)
THEOREM RefusalEndsTheRun ==
    Spec => RefusedRunsWriteNothing
<1> DEFINE Nothing == errors # {} /\ errors # {"mode"} /\ n' = n
                          /\ job.track # "legacy" => UNCHANGED files
<1>1. IInv /\ [Next]_vars => [Nothing]_vars
  BY ConstantsOK, RefusedStep DEF IInv
<1>2. RefusedRunsWriteNothing <=> [][Nothing]_vars
  BY PTL DEF RefusedRunsWriteNothing
<1>3. QED
  BY <1>1, <1>2, InductiveIInv, PTL DEF Spec

=============================================================================
