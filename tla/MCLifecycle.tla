----------------------------- MODULE MCLifecycle -----------------------------
(***************************************************************************)
(* Lifecycle for TLC: the command lines that are given.                    *)
(***************************************************************************)
EXTENDS Lifecycle, TLC

AllTracks == DemoTracks \cup {"kernel", "legacy"}

(* Inputs: two good ones, one that is no program, one for each file that   *)
(* may be absent and one for each refusal of the content of a track.       *)
Input(id) ==
    [id |-> id, parses |-> TRUE, absent |-> {}, at |-> "none", when |-> "none"]
Good1 == Input("good1")
Good2 == Input("good2")
NoProgram == [Input("no program") EXCEPT !.parses = FALSE]

(* A command line with everything it needs.                                *)
Line(track, input) ==
    [track |-> track, input |-> input, key |-> "own",
     required |-> TRUE, epoch |-> "good", pub |-> "absolute",
     grants |-> {"classical", "backend"}, budget |-> 20,
     lane |-> IF "on" \in Lanes(track) THEN "on" ELSE "off",
     inversion |-> track = "trading_paper_mode", ecmo |-> "off",
     backend |-> "python", out |-> "absolute", mode |-> "live"]

Verifying == {"VERIFY_EPOCH", "VERIFY_SIGNATURE"}
RefusalsOf(track) ==
    LET steps == Steps(Line(track, Good1)) IN
    UNION {{[Input("refused") EXCEPT !.at = steps[i].effect, !.when = when] :
               when \in steps[i].refuses} :
           i \in {i \in DOMAIN steps : steps[i].effect \notin Verifying}}
AbsencesOf(track) ==
    IF track \in DemoTracks
    THEN {[Input("absent") EXCEPT !.absent = {f}] : f \in DemoOf[track].given}
    ELSE {}
InputsOf(track) ==
    {Good1, Good2, NoProgram} \cup RefusalsOf(track) \cup AbsencesOf(track)

(* The same with one thing different: the key, the anchor, the grants, the *)
(* budget, the lane, the mode, the selection, the backend, the sections.   *)
(* Grants and budget of the two demos of governance are fixed.             *)
Variants(line) ==
    {[line EXCEPT !.key = "none"], [line EXCEPT !.epoch = "bad"]}
    \cup {[line EXCEPT !.lane = lane] : lane \in Lanes(line.track)}
    \cup (IF line.track \in {"ci_governance", "agent_governance"} THEN {}
          ELSE {[line EXCEPT !.grants = {}], [line EXCEPT !.budget = 3]})
    \cup (IF line.track \in {"trading_shadow_mode", "navier_stokes", "net_shadow"}
          THEN {}
          ELSE {[line EXCEPT !.key = "foreign"],
                [line EXCEPT !.required = FALSE, !.epoch = "off"],
                [line EXCEPT !.required = FALSE, !.epoch = "missing"]})
    \cup (IF line.track = "trading_io_live_min"
          THEN {[line EXCEPT !.mode = "dry_run"]} ELSE {})
    \cup (IF line.track \in DemoTracks THEN {}
          ELSE {[line EXCEPT !.ecmo = e] : e \in {"A", "B", "C", "ambiguous"}}
               \cup {[line EXCEPT !.backend = "qasm"],
                     [line EXCEPT !.inversion = TRUE],
                     [line EXCEPT !.ecmo = "A", !.out = "relative"]})

First ==
    UNION {{Line(t, i) : i \in InputsOf(t)} \cup Variants(Line(t, Good1)) :
           t \in AllTracks}

(* Bounds: a second command is one of these or a replay, and a third one   *)
(* follows a replay that has left something in the root.                   *)
Second ==
    {Line("trading_paper_mode", Good1), Line("trading_paper_mode", Good2),
     [Line("trading_paper_mode", Good2) EXCEPT !.key = "none"],
     [Line("trading_paper_mode", Good2) EXCEPT !.grants = {}],
     [Line("trading_paper_mode", Good1) EXCEPT !.key = "foreign"],
     [Line("trading_paper_mode", Good1) EXCEPT !.inversion = FALSE],
     [Line("trading_paper_mode", Good1) EXCEPT !.required = FALSE],
     Line("navier_stokes", Good1)}
Third == {Line("navier_stokes", Good2)}

MCJobs == <<First, Second, Third>>

(* For what one command shows by itself: the key as its default names it.  *)
ByDefault ==
    <<{[Line(t, Good1) EXCEPT !.pub = "relative"] : t \in AllTracks}>>

(* A bundle with a file that is cut off meets a second command where one   *)
(* may come to it again: those are of the paper track, which alone bundles *)
(* a fixture and no model.                                                 *)
IsCut(id) == bundles[id].manifest.written = "cut" \/ bundles[id].seal.key = "cut"
MetAgain(id) == "fixture" \in RolesOf(id) /\ "model" \notin RolesOf(id)

Bounded ==
    /\ n = 3 => files.root # Repository
    /\ n > 1 => \A id \in DOMAIN bundles : IsCut(id) => MetAgain(id)

(* Bound: the head moves when there is such a verdict to lose, between     *)
(* commands or between the two bundles of one.                             *)
HeadBounded ==
    head' # head =>
        phase \in {"idle", "signed"} /\ \E id \in proven : MetAgain(id)

(* One commit is as good as another.                                       *)
AnyCommit == Permutations(Commits)
==============================================================================
