------------------------------- MODULE Anchors -------------------------------
(***************************************************************************)
(* Anchors of a bundle and the reproduction of a reference run.  Machine A *)
(* anchors a bundle directory (tools/anchor_generator.py), checks it       *)
(* (tools/verify_anchor.py) and publishes manifest and leaves as the       *)
(* reference.  Machine B checks the reference's commit out, runs the demo, *)
(* anchors what it wrote and compares (tools/phase1_track_a_run.py,        *)
(* tools/compare_anchor_contract.py).                                      *)
(*                                                                         *)
(* No tool locks the directory it reads: on A files may change while an    *)
(* anchor is made, and the generator may die between its files.  On B the  *)
(* tools run one after another in a worktree of their own.  A digest is    *)
(* what it was taken of; a signature is the key and the core it signs.     *)
(***************************************************************************)
EXTENDS Naturals, Sequences, FiniteSets, Merkle

CONSTANTS
    Files,       \* number of files a bundle may hold, in the order of paths
    Contents,    \* contents of a file
    Commits,     \* commits of the repository
    First,       \* bundles that A begins with
    MaxEdits,    \* bound: changes of A's bundle
    MaxAnchors   \* bound: anchors that A sets out to make

VARIABLES
    bundle,      \* A: path -> content
    anchor,      \* A: the generator's files: leaves, sig, manifest
    job,         \* A: the generator under way
    edits,       \* A: changes so far
    anchors,     \* A: anchors begun so far
    reference,   \* references/phase1: the published manifest
    worktree,    \* B: the checkout, with the run's outputs in it
    run          \* B: where run_track_a stands

vars == <<bundle, anchor, job, edits, anchors, reference, worktree, run>>

Paths == 1..Files
Absent == "absent"
Bundles == [Paths -> Contents \cup {Absent}]

ASSUME ConstantsOK ==
    /\ Files \in Nat \ {0}
    /\ MaxEdits \in Nat
    /\ MaxAnchors \in Nat
    /\ First \subseteq Bundles

(* bundle_manifest.json comes first.                                       *)
ManifestPath == 1

(* The machines sign with keys of their own.                               *)
Keys == {"key", "other"}

(* A file that is not there, and one whose write was cut off: no JSON.     *)
None == [none |-> TRUE]
Cut == [cut |-> TRUE]
Whole(file) == file \notin {None, Cut}

-----------------------------------------------------------------------------
(* anchor_generator, verify_anchor, compare_anchor_contract                *)

(* The leaves: a path and a digest for each file.  The code lists them in  *)
(* the order of the paths, so the set says it all.                         *)
Leaves(files, excluded) ==
    {<<p, files[p]>> : p \in {q \in Paths \ excluded : files[q] # Absent}}

Sorted(leaves) ==
    LET InLeaves(p) == \E leaf \in leaves : leaf[1] = p
        paths == SelectSeq([p \in Paths |-> p], InLeaves)
    IN  [i \in DOMAIN paths |-> CHOOSE leaf \in leaves : leaf[1] = paths[i]]

(* What is signed; equal digests have equal leaves.                        *)
Core(commit, leaves, files) ==
    [commit |-> commit, leaves |-> leaves, count |-> Cardinality(leaves),
     root |-> Root(Sorted(leaves)), bundleManifest |-> files[ManifestPath]]

(* Faulty: the leaves are taken from their file.                           *)
AnchorVerifiesByFile(files, found, pub) ==
    /\ Whole(found.manifest)
    /\ Whole(found.leaves)
    /\ found.manifest.core.leaves = found.leaves.list
    /\ found.manifest.core.root = Root(Sorted(found.leaves.list))
    /\ found.manifest.signature # None =>
          /\ found.sig = found.manifest.signature
          /\ found.manifest.signature = [key |-> pub, core |-> found.manifest.core]

(* verify_anchor: leaves and root are those of the bundle as it is; a      *)
(* signature is looked at only if the manifest names one.  What the        *)
(* generator was told to exclude is not known here.                        *)
AnchorVerifies(files, found, pub) ==
    LET leaves == Leaves(files, {})
    IN  /\ Whole(found.manifest)
        /\ Whole(found.leaves)
        /\ found.leaves.list = leaves
        /\ found.manifest.core.leaves = leaves
        /\ found.manifest.core.root = Root(Sorted(leaves))
        /\ found.manifest.signature # None =>
              /\ found.sig = found.manifest.signature
              /\ found.manifest.signature = [key |-> pub, core |-> found.manifest.core]

(* CONTRACT_FIELDS                                                         *)
ContractMatches(a, b) ==
    /\ a.commit = b.commit
    /\ a.count = b.count
    /\ a.bundleManifest = b.bundleManifest
    /\ a.leaves = b.leaves

(* Faulty: an equal bundle manifest is taken for an equal bundle.          *)
GreenByManifest(a, b) == a.commit = b.commit /\ a.bundleManifest = b.bundleManifest

(* compare: the roots are looked at only behind an equal contract.         *)
Green(a, b) == ContractMatches(a, b) /\ a.root = b.root

-----------------------------------------------------------------------------
NoAnchor == [leaves |-> None, sig |-> None, manifest |-> None]
NoJob == [stage |-> "none"]
NoTree == [commit |-> "none", bundle |-> [p \in Paths |-> Absent],
           anchor |-> NoAnchor, report |-> None]
NoRun == [stage |-> "none", commit |-> "none", pub |-> "key", verified |-> FALSE,
          exit |-> "none"]

Stages == {"none", "checkout", "demo", "anchor", "verify", "compare", "ended"}

TypeOK ==
    /\ bundle \in Bundles
    /\ job.stage \in {"none", "read", "sign", "manifest"}
    /\ edits \in 0..MaxEdits
    /\ anchors \in 0..MaxAnchors
    /\ worktree.commit \in Commits \cup {"none"}
    /\ worktree.bundle \in Bundles
    /\ run.stage \in Stages
    /\ run.commit \in Commits \cup {"none"}
    /\ run.exit \in {"none", "green", "red", "failed"}
    /\ run.exit # "none" <=> run.stage = "ended"

Init ==
    /\ bundle \in First
    /\ anchor = NoAnchor
    /\ job = NoJob
    /\ edits = 0
    /\ anchors = 0
    /\ reference = None
    /\ worktree = NoTree
    /\ run = NoRun

MachineB == <<worktree, run>>
MachineA == <<bundle, anchor, job, edits, anchors>>

-----------------------------------------------------------------------------
(* Machine A                                                               *)

(* A file of the bundle is written, at any time.                           *)
Edit(p, content) ==
    /\ edits < MaxEdits
    /\ bundle[p] # content
    /\ bundle' = [bundle EXCEPT ![p] = content]
    /\ edits' = edits + 1
    /\ UNCHANGED <<anchor, job, anchors, reference, MachineB>>

(* generate_anchor lists the files that are there; origin is the bundle as *)
(* it is read.                                                             *)
Collect(commit, key, excluded) ==
    /\ job = NoJob
    /\ anchors < MaxAnchors
    /\ job' = [stage |-> "read", commit |-> commit, key |-> key,
               left |-> {p \in Paths \ excluded : bundle[p] # Absent},
               origin |-> [files |-> [p \in Paths |-> Absent], excluded |-> excluded]]
    /\ anchors' = anchors + 1
    /\ UNCHANGED <<bundle, anchor, edits, reference, MachineB>>

(* They are read one by one; one that has gone makes the generator raise   *)
(* (GeneratorDies), one that has come is not seen.                         *)
ReadFile(p) ==
    /\ job.stage = "read"
    /\ p \in job.left
    /\ \A q \in job.left : p <= q
    /\ bundle[p] # Absent
    /\ job' = [job EXCEPT !.left = job.left \ {p}, !.origin.files[p] = bundle[p]]
    /\ UNCHANGED <<bundle, anchor, edits, anchors, reference, MachineB>>

WriteLeaves ==
    LET leaves == Leaves(job.origin.files, job.origin.excluded)
    IN  /\ job.stage = "read"
        /\ job.left = {}
        /\ anchor' = [anchor EXCEPT !.leaves = [list |-> leaves]]
        /\ job' = [stage |-> "sign", commit |-> job.commit, key |-> job.key,
                   leaves |-> leaves, origin |-> job.origin]
        /\ UNCHANGED <<bundle, edits, anchors, reference, MachineB>>

(* The bundle's manifest is read here, after the leaves; with a key the    *)
(* core is signed, without one an older signature file stays.              *)
Sign ==
    LET core == Core(job.commit, job.leaves, bundle)
        signature == IF job.key = "none" THEN None ELSE [key |-> job.key, core |-> core]
    IN  /\ job.stage = "sign"
        /\ anchor' = IF signature = None THEN anchor
                     ELSE [anchor EXCEPT !.sig = signature]
        /\ job' = [stage |-> "manifest",
                   manifest |-> [core |-> core, signature |-> signature, origin |-> job.origin]]
        /\ UNCHANGED <<bundle, edits, anchors, reference, MachineB>>

WriteManifest ==
    /\ job.stage = "manifest"
    /\ anchor' = [anchor EXCEPT !.manifest = job.manifest]
    /\ job' = NoJob
    /\ UNCHANGED <<bundle, edits, anchors, reference, MachineB>>

(* The generator dies or raises, between two of its files or inside one.   *)
GeneratorDies ==
    /\ job # NoJob
    /\ job' = NoJob
    /\ \/ UNCHANGED anchor
       \/ /\ job.stage = "read" /\ job.left = {}
          /\ anchor' = [anchor EXCEPT !.leaves = Cut]
       \/ /\ job.stage = "sign" /\ job.key # "none"
          /\ anchor' = [anchor EXCEPT !.sig = Cut]
       \/ /\ job.stage = "manifest"
          /\ anchor' = [anchor EXCEPT !.manifest = Cut]
    /\ UNCHANGED <<bundle, edits, anchors, reference, MachineB>>

(* Manifest and leaves are copied into the repository, checked or not, at  *)
(* any time: a run under way may find others than it began with.           *)
Publish ==
    /\ anchor.manifest # None
    /\ anchor.leaves # None
    /\ reference' = anchor.manifest
    /\ UNCHANGED <<MachineA, MachineB>>

-----------------------------------------------------------------------------
(* Machine B: run_track_a                                                  *)

At(stage) == run.stage = stage
Goto(stage) == run' = [run EXCEPT !.stage = stage]

(* Faulty: the verdict of an earlier run stays until there is a new one.   *)
StartKept(pub) ==
    /\ run.stage \in {"none", "ended"}
    /\ run' = IF ~Whole(reference) THEN [run EXCEPT !.stage = "ended", !.exit = "failed"]
              ELSE [run EXCEPT !.stage = "checkout", !.commit = reference.core.commit,
                               !.pub = pub]
    /\ UNCHANGED <<MachineA, reference, worktree>>

(* The reference's files must be there, and its commit is read from it;    *)
(* pub is the key the run is given.                                        *)
Start(pub) ==
    /\ run.stage \in {"none", "ended"}
    /\ run' = IF ~Whole(reference) THEN [NoRun EXCEPT !.stage = "ended", !.exit = "failed"]
              ELSE [NoRun EXCEPT !.stage = "checkout", !.commit = reference.core.commit,
                                 !.pub = pub]
    /\ UNCHANGED <<MachineA, reference, worktree>>

(* _ensure_worktree: an old worktree is removed with all that is in it.    *)
Checkout ==
    /\ At("checkout")
    /\ worktree' = [NoTree EXCEPT !.commit = run.commit]
    /\ Goto("demo")
    /\ UNCHANGED <<MachineA, reference>>

(* Faulty: a demo whose own signature check has failed is taken for one    *)
(* that is ok.                                                             *)
DemoUnchecked(files) ==
    /\ At("demo")
    /\ worktree' = [worktree EXCEPT !.bundle = files]
    /\ Goto("anchor")
    /\ UNCHANGED <<MachineA, reference>>

(* The demo writes what this machine makes of the commit; it is ok only if *)
(* its own signature verifies with the key that the run is given.          *)
Demo(files) ==
    /\ At("demo")
    /\ run.pub = "key"
    /\ worktree' = [worktree EXCEPT !.bundle = files]
    /\ Goto("anchor")
    /\ UNCHANGED <<MachineA, reference>>

(* The anchor of what was written is given the commit that was read.       *)
Generate ==
    LET leaves == Leaves(worktree.bundle, {})
        core == Core(run.commit, leaves, worktree.bundle)
        signature == [key |-> "key", core |-> core]
    IN  /\ At("anchor")
        /\ worktree' = [worktree EXCEPT !.anchor =
               [leaves   |-> [list |-> leaves],
                sig      |-> signature,
                manifest |-> [core |-> core, signature |-> signature,
                              origin |-> [files |-> worktree.bundle, excluded |-> {}]]]]
        /\ Goto("verify")
        /\ UNCHANGED <<MachineA, reference>>

(* verify_anchor.main prints its verdict and returns 0 whatever it is.     *)
Verify ==
    /\ At("verify")
    /\ run' = [run EXCEPT !.stage = "compare",
                  !.verified = AnchorVerifies(worktree.bundle, worktree.anchor, run.pub)]
    /\ UNCHANGED <<MachineA, reference, worktree>>

(* The reference is read again; the comparison of one that is cut off      *)
(* raises (Fail).                                                          *)
Compare ==
    LET green == Green(reference.core, worktree.anchor.manifest.core)
    IN  /\ At("compare")
        /\ Whole(reference)
        /\ worktree' = [worktree EXCEPT !.report =
               [green |-> green, commit |-> run.commit, reference |-> reference]]
        /\ run' = [run EXCEPT !.stage = "ended", !.exit = IF green THEN "green" ELSE "red"]
        /\ UNCHANGED <<MachineA, reference>>

(* Any command fails: fetch and cat-file before the old worktree is        *)
(* touched, worktree add behind its removal, then installation, tests,     *)
(* the demo or its verdict.                                                *)
Fail ==
    /\ run.stage \in Stages \ {"none", "ended"}
    /\ run' = [run EXCEPT !.stage = "ended", !.exit = "failed"]
    /\ \/ UNCHANGED worktree
       \/ At("checkout") /\ worktree' = NoTree
    /\ UNCHANGED <<MachineA, reference>>

Next ==
    \/ \E p \in Paths, content \in Contents \cup {Absent} : Edit(p, content)
    \/ \E commit \in Commits, key \in {"key", "none"}, excluded \in {{}, {Files}} :
          Collect(commit, key, excluded)
    \/ \E p \in Paths : ReadFile(p)
    \/ WriteLeaves
    \/ Sign
    \/ WriteManifest
    \/ GeneratorDies
    \/ Publish
    \/ \E pub \in Keys : Start(pub)
    \/ Checkout
    \/ \E files \in Bundles : Demo(files)
    \/ Generate
    \/ Verify
    \/ Compare
    \/ Fail

Spec == Init /\ [][Next]_vars

-----------------------------------------------------------------------------
(* Properties                                                              *)

(* What an anchor is of.                                                   *)
Anchored(origin) ==
    [p \in Paths |-> IF p \in origin.excluded THEN Absent ELSE origin.files[p]]

(* An anchor that verifies is of the bundle as it is: no file it covers    *)
(* has changed and none is there that it does not cover, also after a      *)
(* generator that died between two files or inside one, or a change while  *)
(* one was reading (verify_anchor).                                        *)
VerifiedIsUnchanged ==
    \A pub \in Keys :
        AnchorVerifies(bundle, anchor, pub) => bundle = Anchored(anchor.manifest.origin)

(* A report is of the checkout it lies in, and a green one means that this *)
(* machine made of the reference's commit what the reference was made of,  *)
(* also if another reference was published behind the run's back: it is    *)
(* read at the start, for its commit, and again to compare (run_track_a,   *)
(* compare).                                                               *)
GreenIsReproduced ==
    worktree.report # None =>
        /\ worktree.report.commit = worktree.commit
        /\ worktree.report.green =>
              /\ worktree.commit = worktree.report.reference.core.commit
              /\ worktree.bundle = Anchored(worktree.report.reference.origin)

(* A green run has an anchor that verified.  verify_anchor's exit code      *)
(* says nothing, so this rests on the demo's signature, which is checked   *)
(* with the same key, and on files that stay as they were anchored         *)
(* (hpl_technical_spec_summary.md, 13: verify_anchor.py returns ok: true). *)
GreenIsVerified ==
    run.exit = "green" =>
        run.verified /\ AnchorVerifies(worktree.bundle, worktree.anchor, run.pub)
===============================================================================
