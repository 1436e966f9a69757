---------------------------- MODULE AnchorsProofs ----------------------------
(* The invariants of Anchors, proved for any number of files, any contents  *)
(* and commits, and any number of changes and anchors.                      *)
EXTENDS Anchors, TLAPS

(* Leaves tell what the files were: there is no other set of files that has *)
(* the same ones.                                                           *)
LEMMA LeavesTellFiles ==
    ASSUME NEW files \in Bundles, NEW origin,
           Leaves(files, {}) = Leaves(origin.files, origin.excluded)
    PROVE  files = Anchored(origin)
<1>1. ASSUME NEW p \in Paths
      PROVE  files[p] = IF p \in origin.excluded THEN Absent ELSE origin.files[p]
  <2>1. CASE files[p] # Absent
    <3>1. <<p, files[p]>> \in Leaves(origin.files, origin.excluded)
      BY <2>1 DEF Leaves
    <3>2. PICK q \in Paths \ origin.excluded : <<p, files[p]>> = <<q, origin.files[q]>>
      BY <3>1 DEF Leaves
    <3> QED BY <3>2
  <2>2. CASE files[p] = Absent
    <3>1. ASSUME p \notin origin.excluded, origin.files[p] # Absent
          PROVE  FALSE
      <4>1. <<p, origin.files[p]>> \in Leaves(files, {})
        BY <3>1 DEF Leaves
      <4>2. PICK q \in Paths : files[q] # Absent /\ <<p, origin.files[p]>> = <<q, files[q]>>
        BY <4>1 DEF Leaves
      <4> QED BY <4>2, <2>2
    <3> QED BY <2>2, <3>1
  <2> QED BY <2>1, <2>2
<1> QED BY <1>1 DEF Bundles, Anchored

(* The records that actions change field by field.                          *)
Shapes ==
    /\ anchor = [leaves |-> anchor.leaves, sig |-> anchor.sig, manifest |-> anchor.manifest]
    /\ worktree = [commit |-> worktree.commit, bundle |-> worktree.bundle,
                   anchor |-> worktree.anchor, report |-> worktree.report]
    /\ run = [stage |-> run.stage, commit |-> run.commit, pub |-> run.pub,
              verified |-> run.verified, exit |-> run.exit]
    /\ job.stage = "read" =>
          job = [stage |-> job.stage, commit |-> job.commit, key |-> job.key,
                 left |-> job.left, origin |-> job.origin]
    /\ job.stage = "sign" =>
          job = [stage |-> job.stage, commit |-> job.commit, key |-> job.key,
                 leaves |-> job.leaves, origin |-> job.origin]

(* The manifest has the leaves of what it was made from.                    *)
IsOf(manifest) ==
    /\ manifest.core.commit \in Commits
    /\ manifest.core.leaves = Leaves(manifest.origin.files, manifest.origin.excluded)

AnchorInv ==
    /\ job.stage \in {"read", "sign"} => job.commit \in Commits
    /\ job.stage = "sign" =>
          job.leaves = Leaves(job.origin.files, job.origin.excluded)
    /\ job.stage = "manifest" => IsOf(job.manifest)
    /\ Whole(anchor.manifest) => IsOf(anchor.manifest)
    /\ Whole(reference) => IsOf(reference)

(* What the run relies on at each stage: the checkout is of the commit read *)
(* at the start, the anchor is of what the demo wrote, under that commit,   *)
(* and verified.                                                            *)
RunInv ==
    /\ run.stage \notin {"none", "ended"} => run.commit \in Commits
    /\ run.stage \in {"demo", "anchor", "verify", "compare"} =>
          worktree.commit = run.commit /\ worktree.report = None
    /\ run.stage \in {"anchor", "verify", "compare"} => run.pub = "key"
    /\ run.stage \in {"verify", "compare"} =>
          /\ worktree.anchor.manifest.core.commit = run.commit
          /\ worktree.anchor.manifest.core.leaves = Leaves(worktree.bundle, {})
          /\ AnchorVerifies(worktree.bundle, worktree.anchor, "key")
    /\ run.stage = "compare" => run.verified

IInv == TypeOK /\ Shapes /\ AnchorInv /\ RunInv /\ GreenIsReproduced /\ GreenIsVerified

LEMMA InitIInv == Init => IInv
<1> SUFFICES ASSUME Init PROVE IInv
  OBVIOUS
<1>1. TypeOK
  BY ConstantsOK DEF Init, TypeOK, NoJob, NoTree, NoRun, Stages, Bundles
<1>2. Shapes
  BY DEF Init, Shapes, NoAnchor, NoJob, NoTree, NoRun
<1>3. AnchorInv
  BY DEF Init, AnchorInv, NoAnchor, NoJob, Whole
<1>4. RunInv /\ GreenIsReproduced /\ GreenIsVerified
  BY DEF Init, RunInv, GreenIsReproduced, GreenIsVerified, NoRun, NoTree
<1> QED BY <1>1, <1>2, <1>3, <1>4 DEF IInv

(* An anchor that is made of its leaves, its root and a signature that fits *)
(* verifies.                                                                *)
LEMMA GeneratedVerifies ==
    ASSUME NEW files, NEW commit, NEW found, NEW core, NEW origin,
           core = Core(commit, Leaves(files, {}), files),
           found = [leaves   |-> [list |-> Leaves(files, {})],
                    sig      |-> [key |-> "key", core |-> core],
                    manifest |-> [core |-> core,
                                  signature |-> [key |-> "key", core |-> core],
                                  origin |-> origin]]
    PROVE  AnchorVerifies(files, found, "key")
<1>1. Whole(found.manifest) /\ Whole(found.leaves)
  BY DEF Whole, None, Cut
<1>2. /\ core.leaves = Leaves(files, {})
      /\ core.root = Root(Sorted(Leaves(files, {})))
  BY DEF Core
<1> QED BY <1>1, <1>2 DEF AnchorVerifies

LEMMA StepIInv == IInv /\ [Next]_vars => IInv'
<1> SUFFICES ASSUME IInv, [Next]_vars PROVE IInv'
  OBVIOUS
<1> USE DEF IInv
<1>1. ASSUME NEW p \in Paths, NEW content \in Contents \cup {Absent}, Edit(p, content)
      PROVE  IInv'
  <2>1. TypeOK'
    BY <1>1, ConstantsOK DEF Edit, TypeOK, Bundles, MachineB
  <2>2. Shapes' /\ AnchorInv'
    BY <1>1 DEF Edit, Shapes, AnchorInv, IsOf, MachineB
  <2>3. RunInv' /\ GreenIsReproduced' /\ GreenIsVerified'
    BY <1>1 DEF Edit, RunInv, GreenIsReproduced, GreenIsVerified, MachineB
  <2> QED BY <2>1, <2>2, <2>3
<1>2. ASSUME NEW commit \in Commits, NEW key \in {"key", "none"},
             NEW excluded \in {{}, {Files}}, Collect(commit, key, excluded)
      PROVE  IInv'
  <2>1. TypeOK'
    BY <1>2, ConstantsOK DEF Collect, TypeOK, MachineB
  <2>2. Shapes' /\ AnchorInv'
    BY <1>2 DEF Collect, Shapes, AnchorInv, IsOf, MachineB
  <2>3. RunInv' /\ GreenIsReproduced' /\ GreenIsVerified'
    BY <1>2 DEF Collect, RunInv, GreenIsReproduced, GreenIsVerified, MachineB
  <2> QED BY <2>1, <2>2, <2>3
<1>2b. ASSUME NEW p \in Paths, ReadFile(p)
       PROVE  IInv'
  <2>1. /\ job' = [stage |-> "read", commit |-> job.commit, key |-> job.key,
                   left |-> job'.left, origin |-> job'.origin]
        /\ job.stage = "read"
    BY <1>2b DEF ReadFile, Shapes
  <2>2. TypeOK'
    BY <1>2b, <2>1 DEF ReadFile, TypeOK, MachineB
  <2>3. Shapes' /\ AnchorInv'
    BY <1>2b, <2>1 DEF ReadFile, Shapes, AnchorInv, IsOf, MachineB
  <2>4. RunInv' /\ GreenIsReproduced' /\ GreenIsVerified'
    BY <1>2b DEF ReadFile, RunInv, GreenIsReproduced, GreenIsVerified, MachineB
  <2> QED BY <2>2, <2>3, <2>4
<1>3. CASE WriteLeaves
  <2> DEFINE leaves == Leaves(job.origin.files, job.origin.excluded)
  <2>1. /\ job.stage = "read"
        /\ anchor'.manifest = anchor.manifest
        /\ job'.stage = "sign"
        /\ job' = [stage |-> "sign", commit |-> job.commit, key |-> job.key,
                   leaves |-> leaves, origin |-> job.origin]
        /\ anchor' = [leaves |-> [list |-> leaves], sig |-> anchor.sig,
                      manifest |-> anchor.manifest]
    BY <1>3 DEF WriteLeaves, Shapes
  <2>2. TypeOK'
    BY <1>3, <2>1 DEF WriteLeaves, TypeOK, MachineB
  <2>3. Shapes' /\ AnchorInv'
    BY <1>3, <2>1 DEF WriteLeaves, Shapes, AnchorInv, IsOf, MachineB
  <2>4. RunInv' /\ GreenIsReproduced' /\ GreenIsVerified'
    BY <1>3 DEF WriteLeaves, RunInv, GreenIsReproduced, GreenIsVerified, MachineB
  <2> QED BY <2>2, <2>3, <2>4
<1>4. CASE Sign
  <2> DEFINE core == Core(job.commit, job.leaves, bundle)
             signature == IF job.key = "none" THEN None ELSE [key |-> job.key, core |-> core]
  <2>1. /\ anchor'.manifest = anchor.manifest
        /\ anchor' = [leaves |-> anchor.leaves, sig |-> anchor'.sig,
                      manifest |-> anchor.manifest]
    BY <1>4 DEF Sign, Shapes
  <2>2. /\ job' = [stage |-> "manifest",
                   manifest |-> [core |-> core, signature |-> signature,
                                 origin |-> job.origin]]
        /\ job.stage = "sign"
    BY <1>4 DEF Sign
  <2>3. core.leaves = job.leaves /\ core.commit = job.commit
    BY DEF Core
  <2>4. job'.stage = "manifest" /\ IsOf(job'.manifest)
    BY <2>2, <2>3 DEF IsOf, AnchorInv
  <2>5. TypeOK'
    BY <1>4, <2>4 DEF Sign, TypeOK, MachineB
  <2>6. Shapes' /\ AnchorInv'
    BY <1>4, <2>1, <2>4 DEF Sign, Shapes, AnchorInv, IsOf, MachineB
  <2>7. RunInv' /\ GreenIsReproduced' /\ GreenIsVerified'
    BY <1>4 DEF Sign, RunInv, GreenIsReproduced, GreenIsVerified, MachineB
  <2> QED BY <2>5, <2>6, <2>7
<1>5. CASE WriteManifest
  <2>1. anchor' = [leaves |-> anchor.leaves, sig |-> anchor.sig, manifest |-> job.manifest]
    BY <1>5 DEF WriteManifest, Shapes
  <2>2. TypeOK'
    BY <1>5 DEF WriteManifest, TypeOK, NoJob, MachineB
  <2>3. Shapes' /\ AnchorInv'
    BY <1>5, <2>1 DEF WriteManifest, Shapes, AnchorInv, IsOf, NoJob, MachineB
  <2>4. RunInv' /\ GreenIsReproduced' /\ GreenIsVerified'
    BY <1>5 DEF WriteManifest, RunInv, GreenIsReproduced, GreenIsVerified, MachineB
  <2> QED BY <2>2, <2>3, <2>4
<1>6. CASE GeneratorDies
  <2>0. /\ anchor' = [leaves |-> anchor'.leaves, sig |-> anchor'.sig,
                      manifest |-> anchor'.manifest]
        /\ anchor'.manifest \in {anchor.manifest, Cut}
    BY <1>6 DEF GeneratorDies, Shapes
  <2>1. TypeOK'
    BY <1>6 DEF GeneratorDies, TypeOK, NoJob, MachineB
  <2>2. Shapes' /\ AnchorInv'
    BY <1>6, <2>0 DEF Whole, GeneratorDies, Shapes, AnchorInv, IsOf, NoJob, MachineB
  <2>3. RunInv' /\ GreenIsReproduced' /\ GreenIsVerified'
    BY <1>6 DEF GeneratorDies, RunInv, GreenIsReproduced, GreenIsVerified, MachineB
  <2> QED BY <2>1, <2>2, <2>3
<1>7. CASE Publish
  <2>1. TypeOK'
    BY <1>7 DEF Publish, TypeOK, MachineA, MachineB
  <2>2. Shapes' /\ AnchorInv'
    BY <1>7 DEF Publish, Shapes, AnchorInv, IsOf, MachineA, MachineB
  <2>3. RunInv' /\ GreenIsReproduced' /\ GreenIsVerified'
    BY <1>7 DEF Publish, RunInv, GreenIsReproduced, GreenIsVerified, MachineA, MachineB
  <2> QED BY <2>1, <2>2, <2>3
<1>8. ASSUME NEW pub \in Keys, Start(pub)
      PROVE  IInv'
  <2>1. ~Whole(reference) =>
          run' = [stage |-> "ended", commit |-> "none", pub |-> "key", verified |-> FALSE,
                  exit |-> "failed"]
    <3> HAVE ~Whole(reference)
    <3>1. run' = [NoRun EXCEPT !.stage = "ended", !.exit = "failed"]
      BY <1>8 DEF Start
    <3> QED BY <3>1 DEF NoRun
  <2>1b. Whole(reference) =>
          /\ run' = [stage |-> "checkout", commit |-> reference.core.commit, pub |-> pub,
                     verified |-> FALSE, exit |-> "none"]
          /\ reference.core.commit \in Commits
    <3> HAVE Whole(reference)
    <3>1. run' = [NoRun EXCEPT !.stage = "checkout", !.commit = reference.core.commit,
                               !.pub = pub]
      BY <1>8 DEF Start
    <3>2. reference.core.commit \in Commits
      BY DEF AnchorInv, IsOf
    <3> QED BY <3>1, <3>2 DEF NoRun
  <2>2. TypeOK'
    BY <1>8, <2>1, <2>1b DEF Start, TypeOK, Stages, MachineA
  <2>3. Shapes' /\ AnchorInv'
    BY <1>8, <2>1, <2>1b DEF Start, Shapes, AnchorInv, IsOf, MachineA
  <2>4. RunInv' /\ GreenIsReproduced' /\ GreenIsVerified'
    BY <1>8, <2>1, <2>1b DEF Start, RunInv, GreenIsReproduced, GreenIsVerified, MachineA
  <2> QED BY <2>2, <2>3, <2>4
<1>9. CASE Checkout
  <2>1. /\ worktree' = [commit |-> run.commit,
                        bundle |-> [p \in Paths |-> Absent],
                        anchor |-> NoAnchor, report |-> None]
        /\ run' = [stage |-> "demo", commit |-> run.commit, pub |-> run.pub,
                   verified |-> run.verified, exit |-> run.exit]
        /\ run.stage = "checkout"
    BY <1>9 DEF Checkout, At, Goto, NoTree, Shapes
  <2>2. run.commit \in Commits
    BY <2>1 DEF RunInv
  <2>3. TypeOK'
    BY <1>9, <2>1, <2>2 DEF Checkout, TypeOK, Bundles, Stages, MachineA
  <2>4. Shapes' /\ AnchorInv'
    BY <1>9, <2>1 DEF Checkout, Shapes, AnchorInv, IsOf, MachineA
  <2>5. RunInv' /\ GreenIsReproduced' /\ GreenIsVerified'
    BY <1>9, <2>1, <2>2 DEF Checkout, RunInv, GreenIsReproduced, GreenIsVerified,
                             MachineA, TypeOK
  <2> QED BY <2>3, <2>4, <2>5
<1>10. ASSUME NEW files \in Bundles, Demo(files)
       PROVE  IInv'
  <2>1. /\ worktree' = [commit |-> worktree.commit, bundle |-> files,
                        anchor |-> worktree.anchor, report |-> worktree.report]
        /\ run' = [stage |-> "anchor", commit |-> run.commit, pub |-> run.pub,
                   verified |-> run.verified, exit |-> run.exit]
        /\ run.stage = "demo" /\ run.pub = "key"
    BY <1>10 DEF Demo, At, Goto, Shapes
  <2>2. TypeOK'
    BY <1>10, <2>1 DEF Demo, TypeOK, Stages, MachineA
  <2>3. Shapes' /\ AnchorInv'
    BY <1>10, <2>1 DEF Demo, Shapes, AnchorInv, IsOf, MachineA
  <2>4. RunInv' /\ GreenIsReproduced' /\ GreenIsVerified'
    BY <1>10, <2>1 DEF Demo, RunInv, GreenIsReproduced, GreenIsVerified, MachineA, TypeOK
  <2> QED BY <2>2, <2>3, <2>4
<1>11. CASE Generate
  <2> DEFINE core == Core(run.commit, Leaves(worktree.bundle, {}), worktree.bundle)
             found == [leaves   |-> [list |-> Leaves(worktree.bundle, {})],
                       sig      |-> [key |-> "key", core |-> core],
                       manifest |-> [core |-> core,
                                     signature |-> [key |-> "key", core |-> core],
                                     origin |-> [files |-> worktree.bundle, excluded |-> {}]]]
  <2>1. worktree' = [worktree EXCEPT !.anchor = found]
    BY <1>11 DEF Generate
  <2> HIDE DEF found
  <2>2. worktree' = [commit |-> worktree.commit, bundle |-> worktree.bundle,
                     anchor |-> found, report |-> worktree.report]
    BY <2>1 DEF Shapes
  <2>3. /\ run' = [stage |-> "verify", commit |-> run.commit, pub |-> run.pub,
                   verified |-> run.verified, exit |-> run.exit]
        /\ run.stage = "anchor"
    BY <1>11 DEF Generate, At, Goto, Shapes
  <2>4. /\ found.manifest.core.commit = run.commit
        /\ found.manifest.core.leaves = Leaves(worktree.bundle, {})
    BY DEF found, Core
  <2>5. AnchorVerifies(worktree.bundle, found, "key")
    BY GeneratedVerifies DEF found
  <2> HIDE DEF core
  <2>6. TypeOK'
    BY <1>11, <2>2, <2>3 DEF Generate, TypeOK, Stages, MachineA
  <2>7. Shapes' /\ AnchorInv'
    BY <1>11, <2>2, <2>3 DEF Generate, Shapes, AnchorInv, IsOf, MachineA
  <2>8. RunInv'
    <3>1. /\ worktree'.anchor = found /\ worktree'.bundle = worktree.bundle
          /\ worktree'.commit = worktree.commit /\ worktree'.report = worktree.report
          /\ run'.stage = "verify" /\ run'.pub = run.pub /\ reference' = reference
          /\ run'.commit = run.commit
      BY <1>11, <2>2, <2>3 DEF Generate
    <3>2. /\ worktree'.anchor.manifest.core.commit = run'.commit
          /\ worktree'.anchor.manifest.core.leaves = Leaves(worktree'.bundle, {})
          /\ AnchorVerifies(worktree'.bundle, worktree'.anchor, "key")
      BY <2>4, <2>5, <3>1
    <3> QED BY <2>3, <3>1, <3>2 DEF RunInv
  <2>9. GreenIsReproduced' /\ GreenIsVerified'
    BY <2>2, <2>3 DEF GreenIsReproduced, GreenIsVerified, RunInv, TypeOK
  <2> QED BY <2>6, <2>7, <2>8, <2>9
<1>12. CASE Verify
  <2>1. AnchorVerifies(worktree.bundle, worktree.anchor, run.pub)
    BY <1>12 DEF Verify, At, RunInv
  <2>2. /\ run' = [stage |-> "compare", commit |-> run.commit, pub |-> run.pub,
                   verified |-> run'.verified, exit |-> run.exit]
        /\ run'.verified = AnchorVerifies(worktree.bundle, worktree.anchor, run.pub)
        /\ run.stage = "verify"
    BY <1>12 DEF Verify, At, Shapes
  <2>3. run'.verified
    BY <2>1, <2>2
  <2>4. TypeOK'
    BY <1>12, <2>2 DEF Verify, TypeOK, Stages, MachineA
  <2>5. Shapes' /\ AnchorInv'
    BY <1>12, <2>2 DEF Verify, Shapes, AnchorInv, IsOf, MachineA
  <2>6. RunInv' /\ GreenIsReproduced' /\ GreenIsVerified'
    BY <1>12, <2>2, <2>3 DEF Verify, RunInv, GreenIsReproduced, GreenIsVerified,
                             MachineA, TypeOK
  <2> QED BY <2>4, <2>5, <2>6
<1>13. CASE Compare
  <2> DEFINE green == Green(reference.core, worktree.anchor.manifest.core)
  <2>1. /\ worktree' = [commit |-> worktree.commit, bundle |-> worktree.bundle,
                        anchor |-> worktree.anchor,
                        report |-> [green |-> green, commit |-> run.commit,
                                    reference |-> reference]]
        /\ run' = [stage |-> "ended", commit |-> run.commit, pub |-> run.pub,
                   verified |-> run.verified, exit |-> IF green THEN "green" ELSE "red"]
        /\ run.stage = "compare" /\ Whole(reference)
    BY <1>13 DEF Compare, At, Shapes
  <2>2. /\ IsOf(reference)
        /\ worktree.commit = run.commit
        /\ worktree.anchor.manifest.core.commit = run.commit
        /\ run.pub = "key" /\ run.verified
        /\ worktree.anchor.manifest.core.leaves = Leaves(worktree.bundle, {})
        /\ AnchorVerifies(worktree.bundle, worktree.anchor, "key")
        /\ worktree.bundle \in Bundles
    BY <2>1 DEF RunInv, AnchorInv, TypeOK
  <2>3. green => /\ worktree.commit = reference.core.commit
                 /\ worktree.bundle = Anchored(reference.origin)
    <3> HAVE green
    <3>0. worktree.commit = reference.core.commit
      BY <2>2 DEF Green, ContractMatches
    <3>1. Leaves(worktree.bundle, {})
             = Leaves(reference.origin.files, reference.origin.excluded)
      BY <2>2 DEF Green, ContractMatches, IsOf
    <3> QED BY <2>2, <3>0, <3>1, LeavesTellFiles
  <2> HIDE DEF green
  <2>4. TypeOK'
    BY <1>13, <2>1 DEF Compare, TypeOK, Stages, MachineA
  <2>5. Shapes' /\ AnchorInv'
    BY <1>13, <2>1 DEF Compare, Shapes, AnchorInv, IsOf, MachineA
  <2>6. RunInv'
    BY <2>1 DEF RunInv
  <2>7. GreenIsReproduced'
    BY <2>1, <2>2, <2>3 DEF GreenIsReproduced
  <2>8. GreenIsVerified'
    BY <2>1, <2>2 DEF GreenIsVerified
  <2> QED BY <2>4, <2>5, <2>6, <2>7, <2>8
<1>14. CASE Fail
  <2>1. /\ run' = [stage |-> "ended", commit |-> run.commit, pub |-> run.pub,
                   verified |-> run.verified, exit |-> "failed"]
        /\ worktree' \in {worktree, NoTree}
    BY <1>14 DEF Fail, Shapes
  <2>2. TypeOK'
    BY <1>14, <2>1 DEF Fail, TypeOK, Stages, NoTree, Bundles, MachineA
  <2>3. Shapes' /\ AnchorInv'
    BY <1>14, <2>1 DEF Fail, Shapes, AnchorInv, IsOf, NoTree, MachineA
  <2>4. RunInv' /\ GreenIsReproduced' /\ GreenIsVerified'
    BY <1>14, <2>1 DEF Fail, RunInv, GreenIsReproduced, GreenIsVerified, NoTree, MachineA
  <2> QED BY <2>2, <2>3, <2>4
<1>15. CASE UNCHANGED vars
  <2>1. TypeOK' /\ Shapes' /\ AnchorInv'
    BY <1>15 DEF vars, TypeOK, Shapes, AnchorInv, IsOf
  <2>2. RunInv' /\ GreenIsReproduced' /\ GreenIsVerified'
    BY <1>15 DEF vars, RunInv, GreenIsReproduced, GreenIsVerified
  <2> QED BY <2>1, <2>2
<1> QED BY <1>1, <1>2, <1>3, <1>4, <1>5, <1>6, <1>7, <1>8, <1>9, <1>10, <1>11, <1>12,
           <1>13, <1>14, <1>15, <1>2b DEF Next

LEMMA InductiveIInv == Spec => []IInv
BY InitIInv, StepIInv, PTL DEF Spec

(* The state of both machines keeps its types.                              *)
THEOREM AnchorTypes == Spec => []TypeOK
<1>1. IInv => TypeOK
  BY DEF IInv
<1> QED BY <1>1, InductiveIInv, PTL

(* An anchor that verifies is of the bundle as it is, whatever changed while *)
(* it was made (verify_anchor).                                             *)
THEOREM VerifiedAnchorsAreOfTheBundle == Spec => []VerifiedIsUnchanged
<1>1. IInv => VerifiedIsUnchanged
  <2> SUFFICES ASSUME IInv, NEW pub \in Keys, AnchorVerifies(bundle, anchor, pub)
               PROVE  bundle = Anchored(anchor.manifest.origin)
    BY DEF VerifiedIsUnchanged
  <2>1. Leaves(bundle, {})
           = Leaves(anchor.manifest.origin.files, anchor.manifest.origin.excluded)
    BY DEF AnchorVerifies, IInv, AnchorInv, IsOf
  <2>2. bundle \in Bundles
    BY DEF IInv, TypeOK
  <2> QED BY <2>1, <2>2, LeavesTellFiles
<1> QED BY <1>1, InductiveIInv, PTL

(* A green report means that the second machine made of the reference's     *)
(* commit what the reference was made of, also if the reference was         *)
(* replaced during the run (run_track_a, compare).                          *)
THEOREM GreenRunsReproduce == Spec => []GreenIsReproduced
<1>1. IInv => GreenIsReproduced
  BY DEF IInv
<1> QED BY <1>1, InductiveIInv, PTL

(* A green run has an anchor that verified, although the exit code of the   *)
(* verifier says nothing.                                                   *)
THEOREM GreenRunsAreVerified == Spec => []GreenIsVerified
<1>1. IInv => GreenIsVerified
  BY DEF IInv
<1> QED BY <1>1, InductiveIInv, PTL
===============================================================================
