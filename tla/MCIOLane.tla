------------------------------ MODULE MCIOLane ------------------------------
(* Values for the constants of IOLane: the plan of the live-min track, the  *)
(* plans that follow up on it, and settings that pass every gate or miss    *)
(* one of them.                                                             *)
EXTENDS IOLane

LiveMin == <<"connect", "submit", "reconcile">>

MCPlans == {LiveMin, <<"submit", "query", "reconcile", "rollback">>,
            <<"reconcile">>, <<"rollback">>, <<"event", "cancel">>}

Ready == [io_enabled |-> TRUE, guard |-> TRUE, ready |-> TRUE,
          adapter |-> "live", scopes |-> Effects, mode |-> "live",
          reconcile |-> TRUE, budget |-> None]

MCSettings == {Ready,
               [Ready EXCEPT !.reconcile = FALSE, !.budget = 2],
               [Ready EXCEPT !.scopes = Effects \ {"reconcile"}, !.guard = FALSE],
               [Ready EXCEPT !.adapter = "stub", !.ready = FALSE,
                             !.scopes = Effects \ {"connect"}],
               [Ready EXCEPT !.adapter = "mock", !.mode = "dry_run"]}

(* Settings under which no order should go out: a dry run.                  *)
MCDryRun == {[Ready EXCEPT !.mode = "dry_run"]}
=============================================================================
