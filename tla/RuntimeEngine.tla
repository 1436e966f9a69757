---------------------------- MODULE RuntimeEngine ----------------------------
(***************************************************************************)
(* One call of RuntimeEngine.run (src/hpl/runtime/engine.py): the          *)
(* admission gates, the step loop with its four call budgets, the Delta-S  *)
(* evidence gate, the execution contract, the effect handler, and the      *)
(* verdict with its witnesses.                                             *)
(*                                                                         *)
(* A plan is data: a sequence of step records.  What an effect handler     *)
(* computes is abstracted to its outcome and to the evidence roles that    *)
(* the names in its digests spell; the order of the checks, the budgets,   *)
(* the early exits and the records left behind are the code's.             *)
(***************************************************************************)
EXTENDS Naturals, Sequences, FiniteSets

CONSTANTS
    Plans,       \* plans a caller may hand to run: [approved, steps]
    Tokens,      \* execution tokens, see Token
    Contracts,   \* execution contracts, see Contract
    Ids,         \* step ids
    Backends,    \* backend names
    Caps,        \* io scopes and net capabilities
    Endpoints,   \* io and net endpoints
    None         \* an absent value

Lanes == {"io", "net"}
Meters == {"steps", "delta"} \cup Lanes

Roles == {"delta_s_report", "admissibility_certificate",
          "collapse_decision", "measurement_trace"}

(* Effect types stand for the registered handlers; the ones the engine     *)
(* treats alike are represented by one of them.  "OTHER" has no handler.   *)
MeasurementEffects == {"MEASURE_CONDITION", "COMPUTE_DELTA_S", "DELTA_S_GATE"}
Effects == MeasurementEffects \cup {"NOOP", "ASSERT_CONTRACT", "EMIT_ARTIFACT",
                                    "IO_SUBMIT_ORDER", "NET_SEND", "OTHER"}

Step == [id           : Ids,
         effect       : Effects,
         backend      : Backends \cup {None},
         caps         : [Lanes -> SUBSET Caps],
         endpoint     : [Lanes -> Endpoints \cup {None}],
         irreversible : BOOLEAN,
         required     : SUBSET Roles,      \* {} when the plan names none
         names        : SUBSET Roles]      \* roles spelled by its digests

Plan == [approved : BOOLEAN, enforced : BOOLEAN, steps : Seq(Step)]

(* An io policy without io_allowed and an absent net policy are both       *)
(* "permitted |-> FALSE"; an absent budget is None.                        *)
Policy == [permitted : BOOLEAN,
           caps      : SUBSET Caps,
           endpoints : SUBSET Endpoints,    \* {} allows every endpoint
           budget    : Nat \cup {None}]

Token == [budget_steps   : Nat,
          delta_s_budget : Nat,             \* 0 is "no budget", not "none left"
          backends       : SUBSET Backends,
          modes          : SUBSET Effects,  \* {} allows every measurement
          collapse       : BOOLEAN,         \* collapse_requires_delta_s
          policy         : [Lanes -> Policy]]

Contract == [allowed : SUBSET Ids,          \* {} allows every step
             backend : Backends \cup {None},
             verify  : BOOLEAN]

(* What run returns.                                                       *)
Result == [status               : {"completed", "denied"},
           constraint_witnesses : {0, 1},
           observer_reports     : {0, 1}]

ASSUME ConstantsOK ==
    /\ Plans \subseteq Plan
    /\ Tokens \subseteq Token
    /\ Contracts \subseteq Contract
    /\ None \notin Nat \cup Backends \cup Endpoints \cup Tokens \cup Result

Inputs == [plan        : Plans,
           token       : Tokens \cup {None},
           contract    : Contracts,
           anchor_ok   : BOOLEAN,   \* what epoch and signature checks find
           registry_ok : BOOLEAN,   \* what the operator registries say
           papas       : BOOLEAN]   \* is the papas observer enabled

VARIABLES
    input,       \* the arguments of this call, never changed
    pc,          \* where run stands; "aborted" and "raised" are exceptions
                 \* before the loop and of an effect handler
    next,        \* position in the plan of the step to run next
    remaining,   \* what is left of each call budget
    roles,       \* evidence_roles
    reasons,     \* why the run is refused, by kind
    witnesses,   \* the stages of witness_records, in order
    transcript,  \* how each executed step ended, in order
    result       \* the RuntimeResult, None before run returns

vars == <<input, pc, next, remaining, roles, reasons, witnesses, transcript,
          result>>

Steps == input.plan.steps
Current == Steps[next]

-----------------------------------------------------------------------------
(* Budgets *)

RequiresLane(step, lane) ==
    \/ step.caps[lane] # {}
    \/ step.endpoint[lane] # None

(* The meters a step is charged for before it runs.                        *)
Charges(step) ==
    {m \in Meters : \/ m = "delta" /\ step.effect \in MeasurementEffects
                    \/ m \in Lanes /\ RequiresLane(step, m)}

Limit(token, m) ==
    CASE m = "steps" -> token.budget_steps
      [] m = "delta" -> IF token.delta_s_budget = 0 THEN None
                        ELSE token.delta_s_budget
      [] m \in Lanes -> token.policy[m].budget

(* Meters are looked at in this order, each spent before the next is read. *)
Before(m) ==
    CASE m = "steps" -> {}
      [] m = "delta" -> {"steps"}
      [] m = "io"    -> {"steps", "delta"}
      [] m = "net"   -> {"steps", "delta", "io"}

Exhausted(m) == remaining[m] = 0 /\ m \in {"steps"} \cup Charges(Current)

(* Faulty variants, marked so here and below, are not part of the model:   *)
(* each is a bug one of the properties must notice.                        *)
(* Faulty: a step is charged when it is checked and again when it ran.     *)
SpendTwice(spent) ==
    [m \in Meters |-> IF m \in spent /\ remaining[m] # None
                      THEN remaining[m] - 2 ELSE remaining[m]]

(* Faulty: only the step counter goes down.                                *)
SpendSteps(spent) ==
    [m \in Meters |-> IF m \in spent /\ m = "steps"
                      THEN remaining[m] - 1 ELSE remaining[m]]

Spend(spent) ==
    [m \in Meters |-> IF m \in spent /\ remaining[m] # None
                      THEN remaining[m] - 1 ELSE remaining[m]]

-----------------------------------------------------------------------------
(* Gates *)

NeedsEvidence(step, token) == token.collapse /\ step.irreversible

RequiredRoles(step) ==
    IF step.required # {} THEN step.required
    ELSE {"delta_s_report", "admissibility_certificate", "collapse_decision"}

BackendRefused(step, token, contract) ==
    LET backend == IF step.backend # None THEN step.backend
                   ELSE contract.backend
    IN  backend # None /\ backend \notin token.backends

ModeRefused(step, token) ==
    /\ token.modes # {}
    /\ step.effect \in MeasurementEffects
    /\ step.effect \notin token.modes

LaneRefused(step, token, lane) ==
    LET policy == token.policy[lane]
        endpoint == step.endpoint[lane]
    IN  /\ RequiresLane(step, lane)
        /\ \/ ~policy.permitted
           \/ ~(step.caps[lane] \subseteq policy.caps)
           \/ /\ endpoint # None
              /\ policy.endpoints # {}
              /\ endpoint \notin policy.endpoints

(* ExecutionContract.preconditions                                         *)
Permitted(step, token, contract) ==
    /\ contract.allowed # {} => step.id \in contract.allowed
    /\ ~BackendRefused(step, token, contract)
    /\ ~ModeRefused(step, token)
    /\ \A lane \in Lanes : ~LaneRefused(step, token, lane)

(* What keeps the run from entering the loop.                              *)
Gates == {"token missing", "plan not approved", "verification failed",
          "operator unknown"}

AdmissionFailures(in) ==
    {r \in Gates :
        CASE r = "token missing"       -> in.token = None
          [] r = "plan not approved"   -> ~in.plan.approved
          [] r = "verification failed" -> in.contract.verify /\ ~in.anchor_ok
          [] r = "operator unknown"    -> in.plan.enforced /\ ~in.registry_ok}

-----------------------------------------------------------------------------
(* Handlers: how an effect may end.  "silent" is a refusal without a       *)
(* reason: handle_assert_contract copies the errors of the plan step,      *)
(* which may be none.  "raised" is an exception nobody catches.            *)

Handler(effect) == IF effect = "OTHER" THEN "NOOP" ELSE effect

Outcomes(step) ==
    CASE Handler(step.effect) = "NOOP"            -> {"ok"}
      [] Handler(step.effect) = "ASSERT_CONTRACT" -> {"ok", "refused", "silent"}
      [] OTHER -> {"ok", "refused", "raised"}

(* Roles a step that succeeds adds, by the names in its digests.           *)
Granted(step) ==
    IF Handler(step.effect) \in {"NOOP", "ASSERT_CONTRACT"} THEN {}
    ELSE step.names

-----------------------------------------------------------------------------
Init ==
    /\ input \in Inputs
    /\ pc = "start"
    /\ next = 1
    /\ remaining = [m \in Meters |-> None]
    /\ roles = {}
    /\ reasons = {}
    /\ witnesses = <<>>
    /\ transcript = <<>>
    /\ result = None

(* Everything before the loop: the token's budgets, the start witness and  *)
(* the admission checks, all of them evaluated.                            *)
Begin ==
    /\ pc = "start"
    /\ reasons' = AdmissionFailures(input)
    /\ pc' = IF reasons' = {} THEN "loop" ELSE "finish"
    /\ remaining' = [m \in Meters |-> IF input.token = None THEN None
                                      ELSE Limit(input.token, m)]
    /\ witnesses' =
           <<"runtime_start">>
           \o (IF input.contract.verify THEN <<"epoch_verification">> ELSE <<>>)
           \o (IF "operator unknown" \in reasons'
               THEN <<"operator_registry_denied">> ELSE <<>>)
    /\ UNCHANGED <<input, next, roles, transcript, result>>

(* What the gates read raises: an anchor or a registry that is no JSON, a   *)
(* key that cannot be loaded.  run does not return.                        *)
BeginRaises ==
    /\ pc = "start"
    /\ input.contract.verify \/ input.plan.enforced
    /\ pc' = "aborted"
    /\ UNCHANGED <<input, next, remaining, roles, reasons, witnesses,
                   transcript, result>>

Looping == pc = "loop" /\ next <= Len(Steps)

(* Faulty: the loop ends but the reason is not recorded.                   *)
DenyUnexplained(reason, stage) ==
    /\ pc' = "finish"
    /\ witnesses' = Append(witnesses, stage)
    /\ UNCHANGED <<input, next, roles, reasons, transcript, result>>

(* Faulty: the loop ends without a witness record.                         *)
DenyUnwitnessed(reason, stage) ==
    /\ pc' = "finish"
    /\ reasons' = {reason}
    /\ UNCHANGED <<input, next, roles, witnesses, transcript, result>>

(* Leave the loop without running the current step.                        *)
Deny(reason, stage) ==
    /\ pc' = "finish"
    /\ reasons' = {reason}
    /\ witnesses' = Append(witnesses, stage)
    /\ UNCHANGED <<input, next, roles, transcript, result>>

(* A call budget is used up.                                               *)
BudgetDenied(m) ==
    /\ Looping
    /\ Exhausted(m)
    /\ \A k \in Before(m) : ~Exhausted(k)
    /\ remaining' = Spend(Before(m) \cap Charges(Current))
    /\ Deny("budget exceeded", "budget_denied")

WithinBudget == Looping /\ \A m \in Meters : ~Exhausted(m)

(* Faulty: one of the required roles is enough.                            *)
HasSomeEvidence ==
    NeedsEvidence(Current, input.token) => RequiredRoles(Current) \cap roles # {}

HasEvidence ==
    NeedsEvidence(Current, input.token) => RequiredRoles(Current) \subseteq roles

(* An irreversible step without its Delta-S evidence.                      *)
EvidenceDenied ==
    /\ WithinBudget
    /\ ~HasEvidence
    /\ remaining' = Spend(Charges(Current))
    /\ Deny("delta_s_evidence_missing", "delta_s_gate_denied")

(* The contract or the token does not permit the step.                     *)
ContractDenied ==
    /\ WithinBudget
    /\ HasEvidence
    /\ ~Permitted(Current, input.token, input.contract)
    /\ remaining' = Spend(Charges(Current))
    /\ Deny("not permitted", "step_denied")

Admitted ==
    /\ WithinBudget
    /\ HasEvidence
    /\ Permitted(Current, input.token, input.contract)

Execute(outcome) ==
    /\ Admitted
    /\ outcome \in Outcomes(Current)
    /\ transcript' = Append(transcript, outcome)

(* The handler succeeds and the loop goes on.                              *)
StepOk ==
    /\ Execute("ok")
    /\ roles' = roles \cup Granted(Current)
    /\ witnesses' = Append(witnesses, "step_ok")
    /\ remaining' = Spend({"steps"} \cup Charges(Current))
    /\ next' = next + 1
    /\ UNCHANGED <<input, pc, reasons, result>>

(* Faulty: a refusal is noted and the loop goes on.                        *)
StepRefusedGoesOn ==
    /\ Execute("refused")
    /\ reasons' = {"refused"}
    /\ witnesses' = Append(witnesses, "step_denied")
    /\ remaining' = Spend({"steps"} \cup Charges(Current))
    /\ next' = next + 1
    /\ UNCHANGED <<input, pc, roles, result>>

(* The handler refuses and says why: the loop ends.                        *)
StepRefused ==
    /\ Execute("refused")
    /\ reasons' = {"refused"}
    /\ witnesses' = Append(witnesses, "step_denied")
    /\ remaining' = Spend(Charges(Current))
    /\ pc' = "finish"
    /\ UNCHANGED <<input, next, roles, result>>

(* The handler refuses and gives no reason: nothing ends the loop, which   *)
(* tests the reasons and not the outcome.                                  *)
StepRefusedSilently ==
    /\ Execute("silent")
    /\ witnesses' = Append(witnesses, "step_denied")
    /\ remaining' = Spend({"steps"} \cup Charges(Current))
    /\ next' = next + 1
    /\ UNCHANGED <<input, pc, roles, reasons, result>>

(* The handler raises: run does not return, what it collected is lost.     *)
StepRaised ==
    /\ Admitted
    /\ "raised" \in Outcomes(Current)
    /\ pc' = "raised"
    /\ UNCHANGED <<input, next, remaining, roles, reasons, witnesses,
                   transcript, result>>

(* Faulty: run returns only from a denial.                                 *)
FinishDenied ==
    /\ pc = "finish"
    /\ pc' = "done"
    /\ result' = [status |-> "denied", constraint_witnesses |-> 1,
                  observer_reports |-> IF input.papas THEN 1 ELSE 0]
    /\ witnesses' = Append(witnesses, "runtime_complete")
    /\ UNCHANGED <<input, next, remaining, roles, reasons, transcript>>

(* The verdict, with a constraint witness and an observer report if the    *)
(* run is refused.                                                         *)
Finish ==
    /\ \/ pc = "finish"
       \/ pc = "loop" /\ next > Len(Steps)
    /\ pc' = "done"
    /\ result' = [status               |-> IF reasons = {} THEN "completed"
                                           ELSE "denied",
                  constraint_witnesses |-> IF reasons = {} THEN 0 ELSE 1,
                  observer_reports     |-> IF reasons # {} /\ input.papas
                                           THEN 1 ELSE 0]
    /\ witnesses' = Append(witnesses, "runtime_complete")
    /\ UNCHANGED <<input, next, remaining, roles, reasons, transcript>>

Terminated == pc \in {"done", "raised", "aborted"}

Next ==
    \/ Begin
    \/ BeginRaises
    \/ \E m \in Meters : BudgetDenied(m)
    \/ EvidenceDenied
    \/ ContractDenied
    \/ StepOk
    \/ StepRefused
    \/ StepRefusedSilently
    \/ StepRaised
    \/ Finish

Spec == Init /\ [][Next]_vars

(* run is a straight loop over a finite list; nothing blocks it but an     *)
(* effect handler, and handlers return or raise.                           *)
FairSpec == Spec /\ WF_vars(Next)

-----------------------------------------------------------------------------
(* What the engine promises. *)

Reasons == Gates \cup {"budget exceeded", "delta_s_evidence_missing",
                        "not permitted", "refused"}

Stages == {"runtime_start", "epoch_verification", "operator_registry_denied",
           "budget_denied", "delta_s_gate_denied", "step_denied", "step_ok",
           "runtime_complete"}

(* The types of the state of a run, and where the loop can stand.          *)
TypeOK ==
    /\ input \in Inputs
    /\ pc \in {"start", "loop", "finish", "done", "raised", "aborted"}
    /\ next \in 1 .. Len(Steps) + 1
    /\ remaining \in [Meters -> Nat \cup {None}]
    /\ roles \subseteq Roles
    /\ reasons \subseteq Reasons
    /\ witnesses \in Seq(Stages)
    /\ transcript \in Seq({"ok", "refused", "silent"})
    /\ result \in Result \cup {None}

(* The steps whose effect was attempted: the transcript, and the step      *)
(* whose handler raised, which left no transcript entry.                   *)
Attempted == DOMAIN transcript \cup IF pc = "raised" THEN {next} ELSE {}
Used(m) == {i \in Attempted : m = "steps" \/ m \in Charges(Steps[i])}

(* No run attempts more effects, measurements, io calls or net calls than  *)
(* its token budgets, the attempt that is refused or raises included       *)
(* (engine.py's remaining_* counters against the token's budgets).         *)
BudgetsHold ==
    \A m \in Meters :
        LET limit == Limit(input.token, m)
        IN  Attempted # {} /\ limit # None => Cardinality(Used(m)) <= limit

(* With collapse_requires_delta_s, an irreversible effect is attempted     *)
(* only after steps of the same run that ended ok have put every role it   *)
(* requires in evidence (the delta_s gate of the loop).                    *)
EvidenceBeforeIrreversible ==
    \A i \in Attempted :
        NeedsEvidence(Steps[i], input.token) =>
            \A role \in RequiredRoles(Steps[i]) :
                \E j \in 1 .. i - 1 :
                    transcript[j] = "ok" /\ role \in Granted(Steps[j])

(* A refusal with a reason is the last effect of its run, and the run is   *)
(* then denied with one constraint witness (the break on reasons).         *)
RefusalEndsRun ==
    \A i \in DOMAIN transcript :
        transcript[i] = "refused" =>
            /\ i = Len(transcript)
            /\ pc \in {"finish", "done"}
            /\ result # None => /\ result.status = "denied"
                               /\ result.constraint_witnesses = 1

(* A completed run attempted the whole plan: no early exit of the loop and *)
(* no gate before it can end in "completed".                               *)
CompletedMeansWholePlan ==
    result # None /\ result.status = "completed" =>
        /\ AdmissionFailures(input) = {}
        /\ Len(transcript) = Len(Steps)
        /\ \A i \in DOMAIN transcript : transcript[i] # "refused"

Denials == {"step_denied", "budget_denied", "delta_s_gate_denied"}

(* The loop ended at a step that it did not run.                           *)
DeniedUnrun ==
    /\ pc \in {"finish", "done"}
    /\ reasons \notin {{}, {"refused"}}
    /\ AdmissionFailures(input) = {}

(* The records after the first n are those of the loop.                    *)
TrailAfter(n) ==
    LET ran == n + Len(transcript)
    IN  /\ Len(witnesses) = ran + (IF DeniedUnrun THEN 1 ELSE 0)
                                + (IF pc = "done" THEN 1 ELSE 0)
        /\ \A i \in 1 .. n :
               witnesses[i] \notin Denials \cup {"step_ok", "runtime_complete"}
        /\ \A i \in DOMAIN transcript :
               witnesses[n + i] = IF transcript[i] = "ok" THEN "step_ok"
                                  ELSE "step_denied"
        /\ DeniedUnrun => witnesses[ran + 1] \in Denials
        /\ pc = "done" => witnesses[Len(witnesses)] = "runtime_complete"

(* The witness records tell what the loop did: after those of the gates,   *)
(* one per executed step, in order and agreeing with its outcome, then one *)
(* for the step that was denied before it ran, if any, and nothing after   *)
(* the completion record (the witness_records of run).                     *)
WitnessTrail == \E n \in 0 .. Len(witnesses) : TrailAfter(n)

(* "Refusals yield ConstraintWitness evidence"                             *)
(* (docs/publish/hpl_technical_spec_summary.md:18): a run in which an      *)
(* effect was refused carries a constraint witness.                        *)
RefusalsYieldConstraintWitness ==
    result # None /\ (\E i \in DOMAIN transcript : transcript[i] # "ok") =>
        result.constraint_witnesses = 1

(* The caller's view of the run.                                           *)
Verdict ==
    CASE pc \in {"start", "loop"}     -> "open"
      [] pc = "finish"                -> "refused"
      [] pc = "done"                  -> result.status
      [] pc \in {"raised", "aborted"} -> "aborted"

Governed == INSTANCE GovernedRun WITH
    goal      <- Len(Steps),
    budget    <- IF input.token = None THEN 0 ELSE input.token.budget_steps,
    attempted <- Len(transcript),
    verdict   <- Verdict

(* run implements the abstract governed run: effects within the step       *)
(* budget, none after a refusal, "completed" only for the whole plan, and  *)
(* an end to every run under the fairness of a single thread.              *)
IsGovernedRun == Governed!FairSpec
=============================================================================
