------------------------- MODULE RuntimeEngineProofs -------------------------
(* The invariants of RuntimeEngine and its refinement of GovernedRun,      *)
(* proved for every plan, token and contract.                              *)
EXTENDS RuntimeEngine, FiniteSetTheorems, TLAPS

(* A step of the plan is a well-formed step record.                        *)
LEMMA StepsTyped ==
    ASSUME TypeOK
    PROVE  /\ Steps \in Seq(Step)
           /\ \A i \in 1 .. Len(Steps) : Steps[i] \in Step
  BY ConstantsOK DEF TypeOK, Inputs, Steps, Plan

(* A budget is a number of calls or absent.                                *)
LEMMA LimitTyped ==
    ASSUME NEW token \in Token, NEW m \in Meters
    PROVE  Limit(token, m) \in Nat \cup {None}
  BY DEF Token, Policy, Meters, Lanes, Limit

(* Spending meters that are not exhausted leaves numbers of calls.         *)
LEMMA SpendTyped ==
    ASSUME remaining \in [Meters -> Nat \cup {None}],
           NEW spent \in SUBSET Meters,
           \A m \in spent : remaining[m] # 0
    PROVE  Spend(spent) \in [Meters -> Nat \cup {None}]
  BY DEF Spend

LEMMA ChargesTyped ==
    ASSUME NEW step
    PROVE  Charges(step) \subseteq Meters
  BY DEF Charges

LEMMA BeforeTyped ==
    ASSUME NEW m \in Meters
    PROVE  Before(m) \subseteq Meters
  BY DEF Before, Meters, Lanes

(* The records a run leaves behind keep their types when one is added.     *)
LEMMA RecordsTyped ==
    ASSUME TypeOK
    PROVE  /\ \A stage \in Stages : Append(witnesses, stage) \in Seq(Stages)
           /\ \A outcome \in {"ok", "refused", "silent"} :
                  Append(transcript, outcome) \in Seq({"ok", "refused", "silent"})
  BY DEF TypeOK

(* What a step that passed the budget checks finds.                        *)
LEMMA WithinBudgetTyped ==
    ASSUME TypeOK, WithinBudget
    PROVE  /\ pc = "loop"
           /\ next \in 1 .. Len(Steps)
           /\ Current \in Step
           /\ next + 1 \in 1 .. Len(Steps) + 1
           /\ Spend(Charges(Current)) \in [Meters -> Nat \cup {None}]
           /\ Spend({"steps"} \cup Charges(Current))
                 \in [Meters -> Nat \cup {None}]
<1>1. Steps \in Seq(Step) /\ Len(Steps) \in Nat
  BY StepsTyped
<1>2. pc = "loop" /\ next \in 1 .. Len(Steps)
  BY <1>1 DEF WithinBudget, Looping, TypeOK
<1>3. Current \in Step
  BY <1>2, StepsTyped DEF Current
<1>4. \A k \in {"steps"} \cup Charges(Current) : k \in Meters /\ remaining[k] # 0
  BY ChargesTyped DEF WithinBudget, Exhausted, Meters
<1>5. /\ Spend(Charges(Current)) \in [Meters -> Nat \cup {None}]
      /\ Spend({"steps"} \cup Charges(Current)) \in [Meters -> Nat \cup {None}]
  BY <1>4, SpendTyped DEF TypeOK
<1>6. next + 1 \in 1 .. Len(Steps) + 1
  BY <1>1, <1>2
<1> QED BY <1>2, <1>3, <1>5, <1>6

(* Every action keeps the types of the state.                              *)
LEMMA TypeStep == TypeOK /\ [Next]_vars => TypeOK'
<1> SUFFICES ASSUME TypeOK, [Next]_vars PROVE TypeOK'
  OBVIOUS
<1>a. input' = input => Steps' = Steps
  BY DEF Steps
<1>1. CASE Begin
  <2>1. remaining' \in [Meters -> Nat \cup {None}]
    BY <1>1, ConstantsOK, LimitTyped DEF Begin, TypeOK, Inputs
  <2>2. reasons' \subseteq Reasons
    BY <1>1 DEF Begin, AdmissionFailures, Reasons
  <2>3. witnesses' \in Seq(Stages)
    <3>1. <<"runtime_start">> \in Seq(Stages)
      BY DEF Stages
    <3>2. <<"epoch_verification">> \in Seq(Stages) /\ <<>> \in Seq(Stages)
      BY DEF Stages
    <3>3. <<"operator_registry_denied">> \in Seq(Stages)
      BY DEF Stages
    <3> DEFINE verified == IF input.contract.verify
                           THEN <<"epoch_verification">> ELSE <<>>
               unknown  == IF "operator unknown" \in reasons'
                           THEN <<"operator_registry_denied">> ELSE <<>>
    <3>4. verified \in Seq(Stages) /\ unknown \in Seq(Stages)
      BY <3>2, <3>3
    <3>5. witnesses' = <<"runtime_start">> \o verified \o unknown
      BY <1>1 DEF Begin
    <3> HIDE DEF verified, unknown
    <3> QED BY <3>1, <3>4, <3>5
  <2>4. pc' \in {"loop", "finish"}
    BY <1>1 DEF Begin
  <2>5. UNCHANGED <<input, next, roles, transcript, result>>
    BY <1>1 DEF Begin
  <2> QED BY <1>a, <2>1, <2>2, <2>3, <2>4, <2>5 DEF TypeOK
<1>b. ASSUME NEW reason \in Reasons, NEW stage \in Stages, Deny(reason, stage),
             remaining' \in [Meters -> Nat \cup {None}]
      PROVE  TypeOK'
  <2>1. witnesses' \in Seq(Stages)
    BY <1>b, RecordsTyped DEF Deny
  <2> QED BY <1>a, <1>b, <2>1 DEF Deny, TypeOK
<1>2. ASSUME NEW m \in Meters, BudgetDenied(m) PROVE TypeOK'
  <2>1. \A k \in Before(m) \cap Charges(Current) :
            k \in Meters /\ remaining[k] # 0
    BY <1>2, ChargesTyped DEF BudgetDenied, Exhausted
  <2>2. remaining' \in [Meters -> Nat \cup {None}]
    BY <1>2, <2>1, SpendTyped DEF BudgetDenied, TypeOK
  <2> QED BY <1>2, <1>b, <2>2 DEF BudgetDenied, Stages, Reasons
<1>3. CASE EvidenceDenied
  BY <1>3, <1>b, WithinBudgetTyped DEF EvidenceDenied, Stages, Reasons
<1>4. CASE ContractDenied
  BY <1>4, <1>b, WithinBudgetTyped DEF ContractDenied, Stages, Reasons
<1>c. ASSUME NEW outcome \in {"ok", "refused", "silent"}, Execute(outcome)
      PROVE  /\ WithinBudget
             /\ transcript' \in Seq({"ok", "refused", "silent"})
  BY <1>c, RecordsTyped DEF Execute, Admitted
<1>5. CASE StepOk
  <2>1. WithinBudget /\ transcript' \in Seq({"ok", "refused", "silent"})
    BY <1>5, <1>c DEF StepOk
  <2>2. witnesses' \in Seq(Stages)
    BY <1>5, RecordsTyped DEF StepOk, Stages
  <2>3. roles' \subseteq Roles
    BY <1>5, <2>1, WithinBudgetTyped DEF StepOk, Granted, Step, TypeOK
  <2> QED BY <1>5, <1>a, <2>1, <2>2, <2>3, WithinBudgetTyped DEF StepOk, TypeOK
<1>6. CASE StepRefused
  <2>1. WithinBudget /\ transcript' \in Seq({"ok", "refused", "silent"})
    BY <1>6, <1>c DEF StepRefused
  <2>2. witnesses' \in Seq(Stages)
    BY <1>6, RecordsTyped DEF StepRefused, Stages
  <2> QED BY <1>6, <1>a, <2>1, <2>2, WithinBudgetTyped
          DEF StepRefused, TypeOK, Reasons
<1>7. CASE StepRefusedSilently
  <2>1. WithinBudget /\ transcript' \in Seq({"ok", "refused", "silent"})
    BY <1>7, <1>c DEF StepRefusedSilently
  <2>2. witnesses' \in Seq(Stages)
    BY <1>7, RecordsTyped DEF StepRefusedSilently, Stages
  <2> QED BY <1>7, <1>a, <2>1, <2>2, WithinBudgetTyped
          DEF StepRefusedSilently, TypeOK
<1>8. CASE StepRaised
  BY <1>8, <1>a DEF StepRaised, TypeOK
<1>9. CASE Finish
  <2>1. witnesses' \in Seq(Stages)
    BY <1>9, RecordsTyped DEF Finish, Stages
  <2> QED BY <1>9, <1>a, <2>1 DEF Finish, TypeOK, Result
<1>10. CASE UNCHANGED vars
  BY <1>10, <1>a DEF vars, TypeOK
<1>11. CASE BeginRaises
  BY <1>11, <1>a DEF BeginRaises, TypeOK
<1> QED BY <1>1, <1>2, <1>3, <1>4, <1>5, <1>6, <1>7, <1>8, <1>9, <1>10, <1>11
    DEF Next

(* Types are right in every state of every run.                            *)
THEOREM TypeCorrect == Spec => []TypeOK
<1>1. Init => TypeOK
  <2> SUFFICES ASSUME Init PROVE TypeOK
    OBVIOUS
  <2>1. Steps \in Seq(Step)
    BY ConstantsOK DEF Init, Inputs, Steps, Plan
  <2>2. Len(Steps) + 1 \in Nat /\ 1 \in 1 .. Len(Steps) + 1
    BY <2>1
  <2> QED BY <2>2 DEF Init, TypeOK
<1> QED BY <1>1, TypeStep, PTL DEF Spec

-----------------------------------------------------------------------------
(* Control: where a run stands, what its transcript and reasons hold there. *)

NotRefused(trace) == \A i \in DOMAIN trace : trace[i] # "refused"

Unreturned == pc # "done" => result = None

Underway ==
    pc \in {"start", "loop", "raised", "aborted"} =>
        /\ reasons = {}
        /\ Len(transcript) = next - 1
        /\ NotRefused(transcript)

Entered == pc \in {"loop", "raised"} => AdmissionFailures(input) = {}

Closed ==
    pc \in {"finish", "done"} =>
        /\ pc = "finish" => reasons # {}
        /\ NotRefused(transcript) \/ reasons # {}
        /\ \A i \in DOMAIN transcript :
               transcript[i] = "refused" => i = Len(transcript)
        /\ reasons = {} => /\ AdmissionFailures(input) = {}
                           /\ Len(transcript) = Len(Steps)

Returned ==
    pc = "done" => /\ result # None
                   /\ result.status = IF reasons = {} THEN "completed"
                                      ELSE "denied"
                   /\ result.constraint_witnesses = IF reasons = {} THEN 0 ELSE 1

ControlInv == Unreturned /\ Underway /\ Entered /\ Closed /\ Returned

LEMMA ControlInit == Init => ControlInv
  BY DEF Init, ControlInv, Unreturned, Underway, Entered, Closed, Returned,
         NotRefused

(* Appending an outcome that is no refusal leaves no refusal.               *)
LEMMA StillNotRefused ==
    ASSUME TypeOK, NotRefused(transcript),
           NEW outcome \in {"ok", "silent"}
    PROVE  /\ NotRefused(Append(transcript, outcome))
           /\ Len(Append(transcript, outcome)) = Len(transcript) + 1
  BY DEF TypeOK, NotRefused

LEMMA ControlStep == TypeOK /\ ControlInv /\ [Next]_vars => ControlInv'
<1> SUFFICES ASSUME TypeOK, ControlInv, [Next]_vars PROVE ControlInv'
  OBVIOUS
<1> USE DEF ControlInv
<1>a. input' = input => /\ Steps' = Steps
                        /\ AdmissionFailures(input)' = AdmissionFailures(input)
  BY DEF Steps, AdmissionFailures
<1>b. next \in Nat /\ Len(transcript) \in Nat /\ Len(Steps) \in Nat
  BY StepsTyped DEF TypeOK
<1>1. CASE Begin
  <2>1. pc' \in {"loop", "finish"} /\ (pc' = "loop" <=> reasons' = {})
    BY <1>1 DEF Begin
  <2>2. reasons' = AdmissionFailures(input)
    BY <1>1 DEF Begin
  <2>3. pc = "start" /\ UNCHANGED <<input, next, roles, transcript, result>>
    BY <1>1 DEF Begin
  <2>4. Underway'
    BY <2>1, <2>3 DEF Underway
  <2>5. Closed'
    BY <2>1, <2>3 DEF Underway, Closed, NotRefused
  <2> QED BY <1>a, <2>1, <2>2, <2>3, <2>4, <2>5
          DEF Unreturned, Entered, Returned
<1>c. ASSUME NEW reason, NEW stage, Deny(reason, stage), pc = "loop"
      PROVE  ControlInv'
  <2>1. Closed'
    BY <1>c DEF Deny, Closed, Underway, NotRefused
  <2> QED BY <1>c, <2>1 DEF Deny, Unreturned, Underway, Entered, Returned
<1>2. ASSUME NEW m \in Meters, BudgetDenied(m) PROVE ControlInv'
  BY <1>2, <1>c DEF BudgetDenied, Looping
<1>3. CASE EvidenceDenied
  BY <1>3, <1>c DEF EvidenceDenied, WithinBudget, Looping
<1>4. CASE ContractDenied
  BY <1>4, <1>c DEF ContractDenied, WithinBudget, Looping
<1>d. ASSUME NEW outcome \in {"ok", "silent"}, Execute(outcome),
             next' = next + 1, UNCHANGED <<input, pc, reasons, result>>
      PROVE  ControlInv'
  <2>1. pc = "loop" /\ transcript' = Append(transcript, outcome)
    BY <1>d DEF Execute, Admitted, WithinBudget, Looping
  <2>2. /\ NotRefused(transcript')
        /\ Len(transcript') = Len(transcript) + 1
    BY <2>1, StillNotRefused DEF Underway
  <2>3. Underway'
    BY <1>b, <1>d, <2>1, <2>2 DEF Underway, NotRefused
  <2> QED BY <1>a, <1>d, <2>1, <2>3 DEF Unreturned, Entered, Closed, Returned
<1>5. CASE StepOk
  BY <1>5, <1>d DEF StepOk
<1>6. CASE StepRefused
  <2>1. pc = "loop" /\ transcript' = Append(transcript, "refused")
    BY <1>6 DEF StepRefused, Execute, Admitted, WithinBudget, Looping
  <2>2. /\ Len(transcript') = Len(transcript) + 1
        /\ DOMAIN transcript' = 1 .. Len(transcript) + 1
        /\ \A i \in 1 .. Len(transcript) : transcript'[i] = transcript[i]
    BY <2>1 DEF TypeOK
  <2>3. \A i \in DOMAIN transcript' :
            transcript'[i] = "refused" => i = Len(transcript')
    BY <1>b, <2>1, <2>2 DEF Underway, NotRefused, TypeOK
  <2>4. pc' = "finish" /\ reasons' = {"refused"} /\ result' = result
    BY <1>6 DEF StepRefused
  <2>5. Closed'
    BY <2>3, <2>4 DEF Closed, NotRefused
  <2> QED BY <2>1, <2>4, <2>5 DEF Unreturned, Underway, Entered, Returned
<1>7. CASE StepRefusedSilently
  BY <1>7, <1>d DEF StepRefusedSilently
<1>8. CASE StepRaised
  <2>1. pc = "loop" /\ pc' = "raised" /\ UNCHANGED <<input, next, reasons,
                                                      transcript, result>>
    BY <1>8 DEF StepRaised, Admitted, WithinBudget, Looping
  <2> QED BY <1>a, <2>1
          DEF Unreturned, Underway, Entered, Closed, Returned, NotRefused
<1>9. CASE Finish
  <2>1. pc \in {"loop", "finish"} /\ pc' = "done"
    BY <1>9 DEF Finish
  <2>2. UNCHANGED <<input, next, reasons, transcript>>
    BY <1>9 DEF Finish
  <2>3. Returned'
    <3>1. result' = [status               |-> IF reasons = {} THEN "completed"
                                              ELSE "denied",
                     constraint_witnesses |-> IF reasons = {} THEN 0 ELSE 1,
                     observer_reports     |-> IF reasons # {} /\ input.papas
                                              THEN 1 ELSE 0]
      BY <1>9 DEF Finish
    <3>2. result'.status = IF reasons = {} THEN "completed" ELSE "denied"
      BY <3>1
    <3>3. result'.constraint_witnesses = IF reasons = {} THEN 0 ELSE 1
      BY <3>1
    <3>4. result' # None
      BY <3>1, ConstantsOK DEF Result
    <3> QED BY <2>2, <3>2, <3>3, <3>4 DEF Returned
  <2>4. Closed'
    <3>1. CASE pc = "finish"
      BY <1>a, <2>1, <2>2, <3>1 DEF Closed, NotRefused
    <3>2. CASE pc = "loop" /\ next > Len(Steps)
      BY <1>a, <1>b, <2>1, <2>2, <3>2
         DEF Closed, Underway, Entered, NotRefused, TypeOK
    <3> QED BY <1>9, <3>1, <3>2 DEF Finish
  <2> QED BY <2>1, <2>3, <2>4 DEF Unreturned, Underway, Entered
<1>10. CASE UNCHANGED vars
  BY <1>10, <1>a
     DEF vars, Unreturned, Underway, Entered, Closed, Returned, NotRefused
<1>11. CASE BeginRaises
  BY <1>11 DEF BeginRaises, Unreturned, Underway, Entered, Closed, Returned
<1> QED BY <1>1, <1>2, <1>3, <1>4, <1>5, <1>6, <1>7, <1>8, <1>9, <1>10, <1>11
    DEF Next

LEMMA ControlCorrect == Spec => []ControlInv
  BY ControlInit, ControlStep, TypeCorrect, PTL DEF Spec

(* A refusal with a reason is the last effect of its run, which is denied   *)
(* with a constraint witness: the loop breaks on its reasons.               *)
THEOREM RefusalEndsEveryRun == Spec => []RefusalEndsRun
<1>1. TypeOK /\ ControlInv => RefusalEndsRun
  <2> SUFFICES ASSUME TypeOK, ControlInv,
                      NEW i \in DOMAIN transcript, transcript[i] = "refused"
               PROVE  /\ i = Len(transcript)
                      /\ pc \in {"finish", "done"}
                      /\ result # None => /\ result.status = "denied"
                                          /\ result.constraint_witnesses = 1
    BY DEF RefusalEndsRun
  <2>1. ~NotRefused(transcript)
    BY DEF NotRefused
  <2>2. pc \in {"finish", "done"}
    BY <2>1 DEF ControlInv, Underway, TypeOK
  <2>3. i = Len(transcript) /\ reasons # {}
    BY <2>1, <2>2 DEF ControlInv, Closed
  <2> QED BY <2>2, <2>3 DEF ControlInv, Unreturned, Returned
<1> QED BY <1>1, TypeCorrect, ControlCorrect, PTL

(* A completed run passed every admission gate and attempted its whole      *)
(* plan, no attempt refused: the verdict of run.                            *)
THEOREM CompletedRunsAreWhole == Spec => []CompletedMeansWholePlan
<1>1. TypeOK /\ ControlInv => CompletedMeansWholePlan
  <2> SUFFICES ASSUME TypeOK, ControlInv,
                      result # None, result.status = "completed"
               PROVE  /\ AdmissionFailures(input) = {}
                      /\ Len(transcript) = Len(Steps)
                      /\ NotRefused(transcript)
    BY DEF CompletedMeansWholePlan, NotRefused
  <2>1. pc = "done"
    BY DEF ControlInv, Unreturned
  <2>2. reasons = {}
    BY <2>1 DEF ControlInv, Returned
  <2> QED BY <2>1, <2>2 DEF ControlInv, Closed
<1> QED BY <1>1, TypeCorrect, ControlCorrect, PTL

-----------------------------------------------------------------------------
(* Witnesses                                                                *)

(* One more record leaves the records before it as they are.                *)
LEMMA RecordAppended ==
    ASSUME TypeOK, NEW stage \in Stages
    PROVE  LET longer == Append(witnesses, stage)
           IN  /\ Len(witnesses) \in Nat
               /\ Len(longer) = Len(witnesses) + 1
               /\ \A i \in 1 .. Len(witnesses) : longer[i] = witnesses[i]
               /\ longer[Len(witnesses) + 1] = stage
  BY DEF TypeOK

(* A step that was executed has its record.                                 *)
LEMMA ExecutedIsWitnessed ==
    ASSUME TypeOK, NEW n \in Nat, TrailAfter(n),
           NEW outcome \in {"ok", "refused", "silent"}, Execute(outcome),
           witnesses' = Append(witnesses, IF outcome = "ok" THEN "step_ok"
                                          ELSE "step_denied"),
           pc' # "done", ~DeniedUnrun'
    PROVE  TrailAfter(n)'
<1> DEFINE stage == IF outcome = "ok" THEN "step_ok" ELSE "step_denied"
<1>1. pc = "loop" /\ transcript' = Append(transcript, outcome)
  BY DEF Execute, Admitted, WithinBudget, Looping
<1>2. /\ Len(transcript) \in Nat /\ Len(transcript') = Len(transcript) + 1
      /\ DOMAIN transcript = 1 .. Len(transcript)
      /\ DOMAIN transcript' = 1 .. Len(transcript) + 1
      /\ \A i \in 1 .. Len(transcript) : transcript'[i] = transcript[i]
      /\ transcript'[Len(transcript) + 1] = outcome
  BY <1>1 DEF TypeOK
<1>3. Len(witnesses) = n + Len(transcript)
  BY <1>1, <1>2 DEF TrailAfter, DeniedUnrun
<1>4. /\ Len(witnesses') = Len(witnesses) + 1
      /\ \A i \in 1 .. Len(witnesses) : witnesses'[i] = witnesses[i]
      /\ witnesses'[Len(witnesses) + 1] = stage
  BY RecordAppended DEF Stages
<1>5. \A i \in 1 .. n : i \in 1 .. Len(witnesses)
  BY <1>2, <1>3
<1>6. \A i \in DOMAIN transcript' : witnesses'[n + i] =
          IF transcript'[i] = "ok" THEN "step_ok" ELSE "step_denied"
  <2> SUFFICES ASSUME NEW i \in DOMAIN transcript'
               PROVE  witnesses'[n + i] = IF transcript'[i] = "ok" THEN "step_ok"
                                          ELSE "step_denied"
    OBVIOUS
  <2>1. CASE i \in DOMAIN transcript
    <3>1. n + i \in 1 .. Len(witnesses)
      BY <1>2, <1>3, <2>1
    <3> QED BY <1>2, <1>4, <2>1, <3>1 DEF TrailAfter
  <2>2. CASE i = Len(transcript) + 1
    <3>1. n + i = Len(witnesses) + 1
      BY <1>2, <1>3, <2>2
    <3> QED BY <1>2, <1>4, <2>2, <3>1
  <2>3. i \in DOMAIN transcript \/ i = Len(transcript) + 1
    BY <1>2
  <2> QED BY <2>1, <2>2, <2>3
<1>7. Len(witnesses') = n + Len(transcript')
  BY <1>2, <1>3, <1>4
<1>8. \A i \in 1 .. n :
          witnesses'[i] \notin Denials \cup {"step_ok", "runtime_complete"}
  BY <1>4, <1>5 DEF TrailAfter
<1> QED BY <1>2, <1>6, <1>7, <1>8 DEF TrailAfter

(* So has a step that was denied before it ran.                             *)
LEMMA DeniedIsWitnessed ==
    ASSUME TypeOK, ControlInv, NEW n \in Nat, TrailAfter(n), pc = "loop",
           NEW reason \in Reasons \ {"refused"}, NEW stage \in Denials,
           Deny(reason, stage)
    PROVE  TrailAfter(n)'
<1>1. pc' = "finish" /\ reasons' = {reason} /\ witnesses' = Append(witnesses, stage)
      /\ transcript' = transcript /\ input' = input
  BY DEF Deny
<1>2. AdmissionFailures(input)' = {}
  BY <1>1 DEF ControlInv, Entered, AdmissionFailures
<1>3. DeniedUnrun' /\ ~DeniedUnrun
  BY <1>1, <1>2 DEF DeniedUnrun
<1>4. Len(transcript) \in Nat /\ DOMAIN transcript = 1 .. Len(transcript)
  BY DEF TypeOK
<1>5. Len(witnesses) = n + Len(transcript)
  BY <1>3, <1>4 DEF TrailAfter
<1>6. /\ Len(witnesses') = Len(witnesses) + 1
      /\ \A i \in 1 .. Len(witnesses) : witnesses'[i] = witnesses[i]
      /\ witnesses'[Len(witnesses) + 1] = stage
  BY <1>1, RecordAppended DEF Stages, Denials
<1>7. /\ \A i \in 1 .. n : i \in 1 .. Len(witnesses)
      /\ \A i \in DOMAIN transcript : n + i \in 1 .. Len(witnesses)
  BY <1>4, <1>5
<1>8. /\ \A i \in 1 .. n :
             witnesses'[i] \notin Denials \cup {"step_ok", "runtime_complete"}
      /\ \A i \in DOMAIN transcript' : witnesses'[n + i] =
             IF transcript'[i] = "ok" THEN "step_ok" ELSE "step_denied"
  BY <1>1, <1>6, <1>7 DEF TrailAfter
<1> QED BY <1>1, <1>3, <1>4, <1>5, <1>6, <1>8 DEF TrailAfter

Unbegun == pc = "start" => transcript = <<>>

LEMMA UnbegunStep == TypeOK /\ Unbegun /\ [Next]_vars => Unbegun'
  BY DEF Unbegun, Next, vars, Begin, BeginRaises, BudgetDenied, EvidenceDenied,
     ContractDenied, Deny, StepOk, StepRefused, StepRefusedSilently, StepRaised, Finish, Execute, Admitted,
     WithinBudget, Looping

LEMMA TrailStep ==
    TypeOK /\ ControlInv /\ Unbegun /\ WitnessTrail /\ [Next]_vars => WitnessTrail'
<1> SUFFICES ASSUME TypeOK, ControlInv, Unbegun, WitnessTrail, [Next]_vars
             PROVE  WitnessTrail'
  OBVIOUS
<1>1. Len(witnesses) \in Nat /\ Len(transcript) \in Nat
      /\ DOMAIN transcript = 1 .. Len(transcript)
  BY DEF TypeOK
<1>2. PICK n \in 0 .. Len(witnesses) : TrailAfter(n)
  BY DEF WitnessTrail
<1>3. n \in Nat
  BY <1>1
<1>4. ASSUME NEW k \in Nat, TrailAfter(k)' PROVE WitnessTrail'
  <2>1. TypeOK'
    BY TypeStep
  <2>2. Len(witnesses') \in Nat /\ Len(transcript') \in Nat
    BY <2>1 DEF TypeOK
  <2>3. Len(witnesses') \in {k + Len(transcript'), k + Len(transcript') + 1,
                             k + Len(transcript') + 1 + 1}
    BY <1>4, <2>2 DEF TrailAfter
  <2>4. k \in 0 .. Len(witnesses')
    BY <2>2, <2>3
  <2> QED BY <1>4, <2>4 DEF WitnessTrail
<1>5. CASE Begin
  <2> DEFINE verified == IF input.contract.verify
                         THEN <<"epoch_verification">> ELSE <<>>
             unknown  == IF "operator unknown" \in reasons'
                         THEN <<"operator_registry_denied">> ELSE <<>>
             stages == {"runtime_start", "epoch_verification", "operator_registry_denied"}
  <2>1. witnesses' = <<"runtime_start">> \o verified \o unknown
    BY <1>5 DEF Begin
  <2>2. <<"runtime_start">> \in Seq(stages) /\ verified \in Seq(stages)
        /\ unknown \in Seq(stages)
    <3>1. /\ <<"runtime_start">> \in Seq(stages) /\ <<>> \in Seq(stages)
          /\ <<"epoch_verification">> \in Seq(stages)
          /\ <<"operator_registry_denied">> \in Seq(stages)
      OBVIOUS
    <3> HIDE DEF stages
    <3> QED BY <3>1
  <2> HIDE DEF verified, unknown, stages
  <2>3. witnesses' \in Seq(stages)
    BY <2>1, <2>2
  <2>4. Len(witnesses') \in Nat /\ \A i \in 1 .. Len(witnesses') : witnesses'[i] \in stages
    BY <2>3
  <2>5. transcript' = transcript /\ Len(transcript) = 0
    BY <1>5 DEF Begin, Unbegun
  <2>6. ~DeniedUnrun' /\ pc' # "done"
    BY <1>5 DEF Begin, DeniedUnrun, AdmissionFailures
  <2>7. PICK k \in Nat : k = Len(witnesses')
    BY <2>4
  <2>8. DOMAIN transcript = {} /\ k = k + Len(transcript)
    BY <1>1, <2>5
  <2>9. TrailAfter(k)'
    BY <2>4, <2>5, <2>6, <2>7, <2>8 DEF TrailAfter, stages, Denials
  <2> QED BY <1>4, <2>9
<1>6. ASSUME NEW m \in Meters, BudgetDenied(m) PROVE WitnessTrail'
  BY <1>2, <1>3, <1>4, <1>6, DeniedIsWitnessed DEF BudgetDenied, Looping, Reasons, Denials
<1>7. CASE EvidenceDenied
  BY <1>2, <1>3, <1>4, <1>7, DeniedIsWitnessed
  DEF EvidenceDenied, WithinBudget, Looping, Reasons, Denials
<1>8. CASE ContractDenied
  BY <1>2, <1>3, <1>4, <1>8, DeniedIsWitnessed
  DEF ContractDenied, WithinBudget, Looping, Reasons, Denials
<1>9. CASE StepOk
  <2>1. pc' = "loop"
    BY <1>9 DEF StepOk, Execute, Admitted, WithinBudget, Looping
  <2> QED BY <1>2, <1>3, <1>4, <1>9, <2>1, ExecutedIsWitnessed DEF StepOk, DeniedUnrun
<1>10. CASE StepRefused
  BY <1>2, <1>3, <1>4, <1>10, ExecutedIsWitnessed DEF StepRefused, DeniedUnrun
<1>11. CASE StepRefusedSilently
  <2>1. pc' = "loop"
    BY <1>11 DEF StepRefusedSilently, Execute, Admitted, WithinBudget, Looping
  <2> QED BY <1>2, <1>3, <1>4, <1>11, <2>1, ExecutedIsWitnessed
          DEF StepRefusedSilently, DeniedUnrun
<1>12. CASE StepRaised
  <2>1. /\ pc = "loop" /\ pc' = "raised"
        /\ UNCHANGED <<input, reasons, witnesses, transcript>>
    BY <1>12 DEF StepRaised, Admitted, WithinBudget, Looping
  <2>2. ~DeniedUnrun' /\ ~DeniedUnrun
    BY <2>1 DEF DeniedUnrun
  <2> QED BY <1>2, <1>3, <1>4, <2>1, <2>2 DEF TrailAfter
<1>13. CASE Finish
  <2>1. /\ pc \in {"finish", "loop"} /\ pc' = "done"
        /\ UNCHANGED <<input, reasons, transcript>>
        /\ witnesses' = Append(witnesses, "runtime_complete")
    BY <1>13 DEF Finish
  <2>2. DeniedUnrun' <=> DeniedUnrun
    BY <2>1 DEF DeniedUnrun, AdmissionFailures, ControlInv, Underway
  <2>3. /\ Len(witnesses') = Len(witnesses) + 1
        /\ \A i \in 1 .. Len(witnesses) : witnesses'[i] = witnesses[i]
        /\ witnesses'[Len(witnesses) + 1] = "runtime_complete"
    BY <2>1, RecordAppended DEF Stages
  <2>4. Len(witnesses) = n + Len(transcript) + (IF DeniedUnrun THEN 1 ELSE 0)
    BY <1>1, <1>2, <1>3, <2>1 DEF TrailAfter
  <2>5. /\ \A i \in 1 .. n : i \in 1 .. Len(witnesses)
        /\ \A i \in DOMAIN transcript : n + i \in 1 .. Len(witnesses)
        /\ DeniedUnrun => n + Len(transcript) + 1 \in 1 .. Len(witnesses)
    BY <1>1, <1>3, <2>4
  <2>6. /\ \A i \in 1 .. n :
               witnesses'[i] \notin Denials \cup {"step_ok", "runtime_complete"}
        /\ \A i \in DOMAIN transcript : witnesses'[n + i] =
               IF transcript[i] = "ok" THEN "step_ok" ELSE "step_denied"
        /\ DeniedUnrun => witnesses'[n + Len(transcript) + 1] \in Denials
    BY <1>2, <2>3, <2>5 DEF TrailAfter
  <2>7. TrailAfter(n)'
    BY <1>1, <1>3, <2>1, <2>2, <2>3, <2>4, <2>6 DEF TrailAfter
  <2> QED BY <1>3, <1>4, <2>7
<1>14. CASE UNCHANGED vars
  <2>1. TrailAfter(n)'
    BY <1>2, <1>14 DEF vars, TrailAfter, DeniedUnrun, AdmissionFailures
  <2> QED BY <1>3, <1>4, <2>1
<1>15. CASE BeginRaises
  <2>1. /\ pc = "start" /\ pc' = "aborted"
        /\ UNCHANGED <<witnesses, transcript>>
    BY <1>15 DEF BeginRaises
  <2>2. ~DeniedUnrun' /\ ~DeniedUnrun
    BY <2>1 DEF DeniedUnrun
  <2> QED BY <1>2, <1>3, <1>4, <2>1, <2>2 DEF TrailAfter
<1> QED BY <1>5, <1>6, <1>7, <1>8, <1>9, <1>10, <1>11, <1>12, <1>13, <1>14, <1>15
    DEF Next

(* The witness records tell what the loop did, one for each executed step   *)
(* and one for the step that was denied before it ran, in order, and the    *)
(* completion record is the last.                                           *)
THEOREM WitnessesTellTheRun == Spec => []WitnessTrail
<1>1. Init => WitnessTrail
  <2> SUFFICES ASSUME Init PROVE WitnessTrail
    OBVIOUS
  <2>1. witnesses = <<>> /\ transcript = <<>> /\ pc = "start"
    BY DEF Init
  <2>2. TrailAfter(0)
    BY <2>1 DEF TrailAfter, DeniedUnrun
  <2> QED BY <2>1, <2>2 DEF WitnessTrail
<1>2. Init => Unbegun
  BY DEF Init, Unbegun
<1> QED BY <1>1, <1>2, TrailStep, UnbegunStep, TypeCorrect, ControlCorrect, PTL DEF Spec

-----------------------------------------------------------------------------
(* Evidence: every role in evidence was put there by a step that ended ok.  *)

RolesGranted ==
    \A role \in roles :
        \E j \in DOMAIN transcript :
            transcript[j] = "ok" /\ role \in Granted(Steps[j])

EvidenceInv == RolesGranted /\ EvidenceBeforeIrreversible

(* The step that is attempted next has the evidence it requires.            *)
LEMMA AdmittedHasEvidence ==
    ASSUME TypeOK, ControlInv, EvidenceInv, Admitted
    PROVE  /\ next = Len(transcript) + 1
           /\ NeedsEvidence(Steps[next], input.token) =>
                \A role \in RequiredRoles(Steps[next]) :
                    \E j \in 1 .. next - 1 :
                        transcript[j] = "ok" /\ role \in Granted(Steps[j])
<1>1. pc = "loop" /\ HasEvidence
  BY DEF Admitted, WithinBudget, Looping
<1>2. Len(transcript) = next - 1 /\ next \in Nat /\ Len(transcript) \in Nat
  BY <1>1, StepsTyped DEF ControlInv, Underway, TypeOK
<1>3. DOMAIN transcript = 1 .. next - 1
  BY <1>2 DEF TypeOK
<1>4. NeedsEvidence(Steps[next], input.token) => RequiredRoles(Steps[next]) \subseteq roles
  BY <1>1 DEF HasEvidence, Current
<1> QED BY <1>2, <1>3, <1>4 DEF EvidenceInv, RolesGranted

(* An attempt that had its evidence keeps the evidence invariant.           *)
LEMMA AttemptKeepsEvidence ==
    ASSUME TypeOK, ControlInv, EvidenceInv,
           NEW outcome \in {"ok", "refused", "silent"},
           Execute(outcome), input' = input, pc' # "raised"
    PROVE  /\ EvidenceBeforeIrreversible'
           /\ transcript' = Append(transcript, outcome)
           /\ DOMAIN transcript' = DOMAIN transcript \cup {next}
           /\ \A i \in DOMAIN transcript : transcript'[i] = transcript[i]
           /\ transcript'[next] = outcome
<1>1. Admitted /\ transcript' = Append(transcript, outcome)
  BY DEF Execute
<1>2. next = Len(transcript) + 1 /\ Len(transcript) \in Nat
  BY <1>1, AdmittedHasEvidence DEF TypeOK
<1>3. /\ DOMAIN transcript = 1 .. next - 1
      /\ DOMAIN transcript' = 1 .. next
      /\ \A i \in 1 .. next - 1 : transcript'[i] = transcript[i]
      /\ transcript'[next] = outcome
  BY <1>1, <1>2 DEF TypeOK
<1>4. DOMAIN transcript' = DOMAIN transcript \cup {next}
  BY <1>2, <1>3
<1>5. pc = "loop"
  BY <1>1 DEF Admitted, WithinBudget, Looping
<1>6. Attempted = DOMAIN transcript /\ Attempted' = DOMAIN transcript \cup {next}
  BY <1>4, <1>5 DEF Attempted
<1>7. Steps' = Steps
  BY DEF Steps
<1>8. EvidenceBeforeIrreversible'
  <2> SUFFICES ASSUME NEW i \in Attempted',
                      NeedsEvidence(Steps[i], input.token),
                      NEW role \in RequiredRoles(Steps[i])
               PROVE  \E j \in 1 .. i - 1 :
                          transcript'[j] = "ok" /\ role \in Granted(Steps[j])
    BY <1>7 DEF EvidenceBeforeIrreversible, NeedsEvidence, RequiredRoles, Granted
  <2>1. i \in 1 .. next
    BY <1>2, <1>3, <1>6
  <2>2. PICK j \in 1 .. i - 1 :
            transcript[j] = "ok" /\ role \in Granted(Steps[j])
    <3>1. CASE i = next
      BY <1>1, <3>1, AdmittedHasEvidence
    <3>2. CASE i # next
      BY <1>6, <3>2 DEF EvidenceInv, EvidenceBeforeIrreversible
    <3> QED BY <3>1, <3>2
  <2>3. j \in 1 .. next - 1
    BY <1>2, <2>1
  <2> QED BY <1>3, <2>2, <2>3
<1> QED BY <1>1, <1>3, <1>4, <1>8

LEMMA EvidenceStep ==
    TypeOK /\ ControlInv /\ EvidenceInv /\ [Next]_vars => EvidenceInv'
<1> SUFFICES ASSUME TypeOK, ControlInv, EvidenceInv, [Next]_vars
             PROVE  EvidenceInv'
  OBVIOUS
<1>a. ASSUME UNCHANGED <<input, roles, transcript>>, Attempted' = Attempted
      PROVE  EvidenceInv'
  BY <1>a DEF EvidenceInv, RolesGranted, EvidenceBeforeIrreversible, Steps,
              NeedsEvidence, RequiredRoles, Granted
<1>b. ASSUME UNCHANGED transcript, pc # "raised", pc' # "raised"
      PROVE  Attempted' = Attempted
  BY <1>b DEF Attempted
<1>1. CASE Begin
  BY <1>1, <1>a, <1>b DEF Begin
<1>2. ASSUME NEW m \in Meters, BudgetDenied(m) PROVE EvidenceInv'
  BY <1>2, <1>a, <1>b DEF BudgetDenied, Looping, Deny
<1>3. CASE EvidenceDenied
  BY <1>3, <1>a, <1>b DEF EvidenceDenied, WithinBudget, Looping, Deny
<1>4. CASE ContractDenied
  BY <1>4, <1>a, <1>b DEF ContractDenied, WithinBudget, Looping, Deny
<1>c. ASSUME NEW outcome \in {"ok", "refused", "silent"}, Execute(outcome),
             input' = input, pc' # "raised",
             roles' = IF outcome = "ok" THEN roles \cup Granted(Current)
                      ELSE roles
      PROVE  EvidenceInv'
  <2>1. EvidenceBeforeIrreversible'
    BY <1>c, AttemptKeepsEvidence
  <2>2. RolesGranted'
    <3> SUFFICES ASSUME NEW role \in roles'
                 PROVE  \E j \in DOMAIN transcript' :
                           transcript'[j] = "ok" /\ role \in Granted(Steps[j])
      BY <1>c DEF RolesGranted, Steps, Granted
    <3>1. CASE role \in roles
      BY <1>c, <3>1, AttemptKeepsEvidence DEF EvidenceInv, RolesGranted
    <3>2. CASE role \notin roles
      BY <1>c, <3>2, AttemptKeepsEvidence DEF Current
    <3> QED BY <3>1, <3>2
  <2> QED BY <2>1, <2>2 DEF EvidenceInv
<1>d. Admitted => pc = "loop"
  BY DEF Admitted, WithinBudget, Looping
<1>5. CASE StepOk
  BY <1>5, <1>c, <1>d DEF StepOk, Execute
<1>6. CASE StepRefused
  BY <1>6, <1>c DEF StepRefused
<1>7. CASE StepRefusedSilently
  BY <1>7, <1>c, <1>d DEF StepRefusedSilently, Execute
<1>8. CASE StepRaised
  <2>1. Admitted /\ pc' = "raised" /\ UNCHANGED <<input, next, roles, transcript>>
    BY <1>8 DEF StepRaised
  <2>2. Attempted' = DOMAIN transcript \cup {next} /\ Attempted = DOMAIN transcript
    BY <1>d, <2>1 DEF Attempted
  <2>3. RolesGranted'
    BY <2>1 DEF EvidenceInv, RolesGranted, Steps, Granted
  <2>4. EvidenceBeforeIrreversible'
    <3> SUFFICES ASSUME NEW i \in Attempted',
                        NeedsEvidence(Steps[i], input.token),
                        NEW role \in RequiredRoles(Steps[i])
                 PROVE  \E j \in 1 .. i - 1 :
                            transcript[j] = "ok" /\ role \in Granted(Steps[j])
      BY <2>1 DEF EvidenceBeforeIrreversible, Steps, NeedsEvidence,
                  RequiredRoles, Granted
    <3>1. CASE i = next
      BY <2>1, <3>1, AdmittedHasEvidence
    <3>2. CASE i # next
      BY <2>2, <3>2 DEF EvidenceInv, EvidenceBeforeIrreversible
    <3> QED BY <3>1, <3>2
  <2> QED BY <2>3, <2>4 DEF EvidenceInv
<1>9. CASE Finish
  BY <1>9, <1>a, <1>b DEF Finish
<1>10. CASE UNCHANGED vars
  BY <1>10, <1>a DEF vars, Attempted
<1>11. CASE BeginRaises
  BY <1>11, <1>a, <1>b DEF BeginRaises
<1> QED BY <1>1, <1>2, <1>3, <1>4, <1>5, <1>6, <1>7, <1>8, <1>9, <1>10, <1>11
    DEF Next

(* Under collapse_requires_delta_s no irreversible effect is attempted      *)
(* before steps of the run that ended ok have granted every required role.  *)
THEOREM NoCollapseWithoutEvidence == Spec => []EvidenceBeforeIrreversible
<1>1. Init => EvidenceInv
  BY DEF Init, EvidenceInv, RolesGranted, EvidenceBeforeIrreversible, Attempted
<1>2. EvidenceInv => EvidenceBeforeIrreversible
  BY DEF EvidenceInv
<1> QED BY <1>1, <1>2, EvidenceStep, TypeCorrect, ControlCorrect, PTL DEF Spec

-----------------------------------------------------------------------------
(* Budgets: inside the loop, what is left and what is used make the limit.  *)

Balanced(m) ==
    LET limit == Limit(input.token, m)
    IN  IF limit = None THEN remaining[m] = None
        ELSE remaining[m] \in Nat /\ remaining[m] + Cardinality(Used(m)) = limit

BudgetInv ==
    /\ pc = "start" => transcript = <<>>
    /\ pc = "loop" => \A m \in Meters : Balanced(m)
    /\ BudgetsHold

Charged(m) == m \in {"steps"} \cup Charges(Current)

LEMMA UsedFinite ==
    ASSUME TypeOK
    PROVE  /\ IsFiniteSet(Attempted)
           /\ \A m \in Meters : /\ IsFiniteSet(Used(m))
                                /\ Cardinality(Used(m)) \in Nat
<1>1. IsFiniteSet(DOMAIN transcript)
  <2>1. DOMAIN transcript = 1 .. Len(transcript) /\ Len(transcript) \in Nat
    BY DEF TypeOK
  <2> QED BY <2>1, FS_Interval
<1>2. IsFiniteSet({next}) /\ IsFiniteSet({})
  BY FS_Singleton, FS_EmptySet
<1>3. IsFiniteSet(Attempted)
  <2>1. CASE pc = "raised"
    BY <1>1, <1>2, <2>1, FS_Union DEF Attempted
  <2>2. CASE pc # "raised"
    BY <1>1, <1>2, <2>2, FS_Union DEF Attempted
  <2> QED BY <2>1, <2>2
<1>4. ASSUME NEW m \in Meters
      PROVE  IsFiniteSet(Used(m)) /\ Cardinality(Used(m)) \in Nat
  <2>1. Used(m) \subseteq Attempted
    BY DEF Used
  <2>2. IsFiniteSet(Used(m))
    BY <1>3, <2>1, FS_Subset
  <2> QED BY <2>2, FS_CardinalityType
<1> QED BY <1>3, <1>4

(* A further attempt adds one use of each meter it is charged to, and that  *)
(* use is still within the limit.                                           *)
LEMMA AttemptWithinBudget ==
    ASSUME TypeOK, ControlInv, BudgetInv, Admitted,
           input' = input, Attempted' = Attempted \cup {next},
           NEW m \in Meters, NEW limit, limit = Limit(input.token, m)
    PROVE  /\ Cardinality(Used(m)') = IF Charged(m) THEN Cardinality(Used(m)) + 1
                                      ELSE Cardinality(Used(m))
           /\ limit # None => Cardinality(Used(m)') <= limit
<1>1. WithinBudget /\ pc = "loop"
  BY DEF Admitted, WithinBudget, Looping
<1>2. next \notin Attempted
  <2>1. DOMAIN transcript = 1 .. next - 1 /\ next \in Nat
    BY <1>1, StepsTyped DEF ControlInv, Underway, TypeOK
  <2> QED BY <1>1, <2>1 DEF Attempted
<1>3. Steps' = Steps
  BY DEF Steps
<1>4. Used(m)' = IF Charged(m) THEN Used(m) \cup {next} ELSE Used(m)
  BY <1>2, <1>3 DEF Used, Charged, Current
<1>5. next \notin Used(m)
  BY <1>2 DEF Used
<1>6. IsFiniteSet(Used(m)) /\ Cardinality(Used(m)) \in Nat
  BY UsedFinite
<1>7. Charged(m) => Cardinality(Used(m)') = Cardinality(Used(m)) + 1
  BY <1>4, <1>5, <1>6, FS_AddElement
<1>8. ~Charged(m) => Cardinality(Used(m)') = Cardinality(Used(m))
  BY <1>4
<1>9. limit # None => Cardinality(Used(m)') <= limit
  <2> SUFFICES ASSUME limit # None PROVE Cardinality(Used(m)') <= limit
    OBVIOUS
  <2>1. remaining[m] \in Nat /\ remaining[m] + Cardinality(Used(m)) = limit
    BY <1>1 DEF BudgetInv, Balanced
  <2>2. Charged(m) => remaining[m] # 0
    BY <1>1 DEF Charged, WithinBudget, Exhausted
  <2> QED BY <1>6, <1>7, <1>8, <2>1, <2>2
<1> QED BY <1>7, <1>8, <1>9

LEMMA BudgetStep ==
    TypeOK /\ ControlInv /\ BudgetInv /\ [Next]_vars => BudgetInv'
<1> SUFFICES ASSUME TypeOK, ControlInv, BudgetInv, [Next]_vars PROVE BudgetInv'
  OBVIOUS
<1>a. ASSUME UNCHANGED <<input, transcript>>, Attempted' = Attempted,
             pc' \notin {"start", "loop"}
      PROVE  BudgetInv'
  BY <1>a DEF BudgetInv, BudgetsHold, Used, Steps
<1>b. ASSUME UNCHANGED transcript, pc # "raised", pc' # "raised"
      PROVE  Attempted' = Attempted
  BY <1>b DEF Attempted
<1>1. CASE Begin
  <2>1. /\ pc = "start" /\ transcript = <<>>
        /\ pc' \in {"loop", "finish"}
        /\ UNCHANGED <<input, transcript>>
        /\ pc' = "loop" => AdmissionFailures(input) = {}
    BY <1>1 DEF Begin, BudgetInv
  <2>2. Attempted = {} /\ Attempted' = {}
    BY <2>1 DEF Attempted
  <2>3. BudgetsHold'
    BY <2>2 DEF BudgetsHold
  <2>4. ASSUME pc' = "loop", NEW m \in Meters PROVE Balanced(m)'
    <3>1. input.token # None
      BY <2>1, <2>4 DEF AdmissionFailures, Gates
    <3>2. remaining'[m] = Limit(input.token, m)
      BY <1>1, <3>1 DEF Begin
    <3>3. Limit(input.token, m) \in Nat \cup {None}
      BY <3>1, ConstantsOK, LimitTyped DEF TypeOK, Inputs
    <3>4. Used(m)' = {}
      BY <2>2 DEF Used
    <3>5. Cardinality(Used(m)') = 0
      BY <3>4, FS_EmptySet
    <3> QED BY <2>1, <3>2, <3>3, <3>5 DEF Balanced
  <2> QED BY <2>1, <2>3, <2>4 DEF BudgetInv
<1>2. ASSUME NEW m \in Meters, BudgetDenied(m) PROVE BudgetInv'
  BY <1>2, <1>a, <1>b DEF BudgetDenied, Looping, Deny
<1>3. CASE EvidenceDenied
  BY <1>3, <1>a, <1>b DEF EvidenceDenied, WithinBudget, Looping, Deny
<1>4. CASE ContractDenied
  BY <1>4, <1>a, <1>b DEF ContractDenied, WithinBudget, Looping, Deny
<1>c. Admitted => pc = "loop" /\ WithinBudget
  BY DEF Admitted, WithinBudget, Looping
<1>d. ASSUME NEW outcome \in {"ok", "refused", "silent"}, Execute(outcome),
             input' = input, pc' # "raised"
      PROVE  Attempted' = Attempted \cup {next}
  <2>1. Admitted /\ transcript' = Append(transcript, outcome)
    BY <1>d DEF Execute
  <2>2. Len(transcript) = next - 1 /\ next \in Nat /\ Len(transcript) \in Nat
    BY <1>c, <2>1, StepsTyped DEF ControlInv, Underway, TypeOK
  <2>3. DOMAIN transcript' = DOMAIN transcript \cup {next}
    BY <2>1, <2>2 DEF TypeOK
  <2> QED BY <1>c, <1>d, <2>1, <2>3 DEF Attempted
<1>e. ASSUME Admitted, input' = input, Attempted' = Attempted \cup {next}
      PROVE  BudgetsHold'
  BY <1>e, AttemptWithinBudget DEF BudgetsHold
<1>f. ASSUME NEW outcome \in {"ok", "silent"}, Execute(outcome),
             UNCHANGED <<input, pc>>,
             remaining' = Spend({"steps"} \cup Charges(Current))
      PROVE  BudgetInv'
  <2>1. Admitted /\ pc = "loop" /\ WithinBudget
    BY <1>c, <1>f DEF Execute
  <2>2. Attempted' = Attempted \cup {next}
    BY <1>d, <1>f, <2>1
  <2>3. ASSUME NEW m \in Meters PROVE Balanced(m)'
    <3>1. Balanced(m)
      BY <2>1 DEF BudgetInv
    <3>2. remaining'[m] = IF Charged(m) /\ remaining[m] # None
                          THEN remaining[m] - 1 ELSE remaining[m]
      BY <1>f DEF Spend, Charged
    <3>3. Charged(m) => remaining[m] # 0
      BY <2>1 DEF Charged, WithinBudget, Exhausted
    <3>4. Cardinality(Used(m)') = IF Charged(m) THEN Cardinality(Used(m)) + 1
                                  ELSE Cardinality(Used(m))
      BY <1>f, <2>1, <2>2, AttemptWithinBudget
    <3>5. Cardinality(Used(m)) \in Nat
      BY UsedFinite
    <3>6. CASE Limit(input.token, m) = None
      BY <1>f, <3>1, <3>2, <3>6 DEF Balanced
    <3>7. CASE Limit(input.token, m) # None
      <4>1. remaining[m] \in Nat
            /\ remaining[m] + Cardinality(Used(m)) = Limit(input.token, m)
        BY <3>1, <3>7 DEF Balanced
      <4>2. remaining[m] # None
        BY <4>1, ConstantsOK
      <4>3. /\ remaining'[m] \in Nat
            /\ remaining'[m] + Cardinality(Used(m)') = Limit(input.token, m)
        BY <3>2, <3>3, <3>4, <3>5, <4>1, <4>2
      <4> QED BY <1>f, <3>7, <4>3 DEF Balanced
    <3> QED BY <3>6, <3>7
  <2> QED BY <1>e, <1>f, <2>1, <2>2, <2>3 DEF BudgetInv
<1>5. CASE StepOk
  BY <1>5, <1>f DEF StepOk
<1>6. CASE StepRefused
  <2>1. /\ Execute("refused") /\ Admitted
        /\ pc' = "finish" /\ input' = input
    BY <1>6 DEF StepRefused, Execute
  <2>2. BudgetsHold'
    BY <1>d, <1>e, <2>1
  <2> QED BY <2>1, <2>2 DEF BudgetInv
<1>7. CASE StepRefusedSilently
  BY <1>7, <1>f DEF StepRefusedSilently
<1>8. CASE StepRaised
  <2>1. Admitted /\ pc' = "raised" /\ UNCHANGED <<input, next, transcript>>
    BY <1>8 DEF StepRaised
  <2>2. Attempted' = Attempted \cup {next}
    BY <1>c, <2>1 DEF Attempted
  <2>3. BudgetsHold'
    BY <1>e, <2>1, <2>2
  <2> QED BY <2>1, <2>3 DEF BudgetInv
<1>9. CASE Finish
  BY <1>9, <1>a, <1>b DEF Finish
<1>10. CASE UNCHANGED vars
  <2>1. UNCHANGED <<input, pc, remaining, transcript>> /\ Attempted' = Attempted
    BY <1>10 DEF vars, Attempted
  <2> QED BY <2>1 DEF BudgetInv, BudgetsHold, Balanced, Used, Steps
<1>11. CASE BeginRaises
  BY <1>11, <1>a, <1>b DEF BeginRaises
<1> QED BY <1>1, <1>2, <1>3, <1>4, <1>5, <1>6, <1>7, <1>8, <1>9, <1>10, <1>11
    DEF Next

(* No run attempts more effects, measurements, io calls or net calls than   *)
(* its token budgets, for every token, plan and contract.                   *)
THEOREM NoRunExceedsItsBudgets == Spec => []BudgetsHold
<1>1. Init => BudgetInv
  BY DEF Init, BudgetInv, BudgetsHold, Attempted
<1>2. BudgetInv => BudgetsHold
  BY DEF BudgetInv
<1> QED BY <1>1, <1>2, BudgetStep, TypeCorrect, ControlCorrect, PTL DEF Spec

-----------------------------------------------------------------------------
(* Refinement: a step of the engine is a step of the abstract governed run. *)

StepBudget == IF input.token = None THEN 0 ELSE input.token.budget_steps

(* An attempt is one the abstract run may make.                             *)
LEMMA AttemptIsGoverned ==
    ASSUME TypeOK, ControlInv, BudgetInv,
           NEW outcome \in {"ok", "refused", "silent"}, Execute(outcome),
           input' = input
    PROVE  /\ pc = "loop"
           /\ Len(transcript) < Len(Steps)
           /\ Len(transcript) < StepBudget
           /\ Len(transcript') = Len(transcript) + 1
<1>1. WithinBudget /\ pc = "loop" /\ transcript' = Append(transcript, outcome)
  BY DEF Execute, Admitted, WithinBudget, Looping
<1>2. Len(transcript) \in Nat /\ Len(transcript') = Len(transcript) + 1
  BY <1>1 DEF TypeOK
<1>3. Len(transcript) < Len(Steps)
  BY <1>1, WithinBudgetTyped, StepsTyped DEF ControlInv, Underway
<1>4. input.token \in Token /\ input.token # None
  <2>1. AdmissionFailures(input) = {}
    BY <1>1 DEF ControlInv, Entered
  <2>2. input.token # None
    BY <2>1 DEF AdmissionFailures, Gates
  <2> QED BY <2>2, ConstantsOK DEF TypeOK, Inputs
<1>5. /\ Limit(input.token, "steps") = StepBudget
      /\ StepBudget \in Nat /\ StepBudget # None
  <2>1. StepBudget = input.token.budget_steps
    BY <1>4 DEF StepBudget
  <2>2. input.token.budget_steps \in Nat
    BY <1>4 DEF Token
  <2>3. None \notin Nat
    BY ConstantsOK
  <2>4. Limit(input.token, "steps") = input.token.budget_steps
    BY DEF Limit, Lanes
  <2> QED BY <2>1, <2>2, <2>3, <2>4
<1>6. remaining["steps"] \in Nat /\ remaining["steps"] # 0
  <2>1. "steps" \in Meters
    BY DEF Meters
  <2>2. remaining["steps"] # 0
    BY <1>1, <2>1 DEF WithinBudget, Exhausted
  <2>3. Balanced("steps")
    BY <1>1, <2>1 DEF BudgetInv
  <2> QED BY <1>5, <2>2, <2>3 DEF Balanced
<1>7. Cardinality(Used("steps")) = Len(transcript)
  <2>1. Used("steps") = 1 .. Len(transcript)
    BY <1>1 DEF Used, Attempted, TypeOK
  <2>2. Cardinality(1 .. Len(transcript)) = Len(transcript)
    <3> DEFINE n == Len(transcript)
    <3>1. Cardinality(1 .. n) = IF 1 > n THEN 0 ELSE n - 1 + 1
      BY <1>2, FS_Interval
    <3> QED BY <1>2, <3>1
  <2> QED BY <2>1, <2>2
<1>8. remaining["steps"] + Cardinality(Used("steps")) = StepBudget
  BY <1>1, <1>5 DEF BudgetInv, Balanced, Meters
<1> QED BY <1>1, <1>2, <1>3, <1>5, <1>6, <1>7, <1>8

LEMMA GovernedStep ==
    TypeOK /\ ControlInv /\ BudgetInv /\ ControlInv' /\ [Next]_vars
        => [Governed!Next]_Governed!vars
<1> SUFFICES ASSUME TypeOK, ControlInv, BudgetInv, ControlInv', [Next]_vars
             PROVE  [Governed!Next]_Governed!vars
  OBVIOUS
<1> USE DEF Governed!Next, Governed!vars, StepBudget
<1>a. input' = input => Steps' = Steps /\ StepBudget' = StepBudget
  BY DEF Steps
<1>1. CASE Begin
  <2>1. /\ pc = "start" /\ pc' \in {"loop", "finish"}
        /\ UNCHANGED <<input, transcript>>
    BY <1>1 DEF Begin
  <2>2. Verdict = "open" /\ Verdict' \in {"open", "refused"}
    BY <2>1 DEF Verdict
  <2> QED BY <1>a, <2>1, <2>2 DEF Governed!Refuse
<1>b. ASSUME NEW reason, NEW stage, Deny(reason, stage), pc = "loop"
      PROVE  Governed!Refuse
  <2>1. pc' = "finish" /\ UNCHANGED <<input, transcript>>
    BY <1>b DEF Deny
  <2>2. Verdict = "open" /\ Verdict' = "refused"
    BY <1>b, <2>1 DEF Verdict
  <2> QED BY <1>a, <2>1, <2>2 DEF Governed!Refuse
<1>2. ASSUME NEW m \in Meters, BudgetDenied(m) PROVE Governed!Next
  BY <1>2, <1>b DEF BudgetDenied, Looping
<1>3. CASE EvidenceDenied
  BY <1>3, <1>b DEF EvidenceDenied, WithinBudget, Looping
<1>4. CASE ContractDenied
  BY <1>4, <1>b DEF ContractDenied, WithinBudget, Looping
<1>c. ASSUME NEW outcome \in {"ok", "silent"}, Execute(outcome),
             UNCHANGED <<input, pc>>
      PROVE  Governed!Perform
  <2>1. Verdict = "open" /\ Verdict' = "open"
    BY <1>c, AttemptIsGoverned DEF Verdict
  <2> QED BY <1>a, <1>c, <2>1, AttemptIsGoverned
          DEF Governed!Perform, Governed!Attempt
<1>5. CASE StepOk
  BY <1>5, <1>c DEF StepOk
<1>6. CASE StepRefused
  <2>1. Execute("refused") /\ pc' = "finish" /\ input' = input
    BY <1>6 DEF StepRefused
  <2>2. Verdict = "open" /\ Verdict' = "refused"
    BY <2>1, AttemptIsGoverned DEF Verdict
  <2>3. Governed!Refuse
    BY <1>a, <2>1, <2>2, AttemptIsGoverned DEF Governed!Refuse, Governed!Attempt
  <2> QED BY <2>3
<1>7. CASE StepRefusedSilently
  BY <1>7, <1>c DEF StepRefusedSilently
<1>8. CASE StepRaised
  <2>1. pc = "loop" /\ pc' = "raised" /\ UNCHANGED <<input, transcript>>
    BY <1>8 DEF StepRaised, Admitted, WithinBudget, Looping
  <2>2. Verdict = "open" /\ Verdict' = "aborted"
    BY <2>1 DEF Verdict
  <2> QED BY <1>a, <2>1, <2>2 DEF Governed!Abort
<1>9. CASE Finish
  <2>1. /\ pc \in {"loop", "finish"} /\ pc' = "done"
        /\ UNCHANGED <<input, reasons, transcript>>
    BY <1>9 DEF Finish
  <2>2. Verdict' = IF reasons = {} THEN "completed" ELSE "denied"
    BY <2>1 DEF Verdict, ControlInv, Returned
  <2>3. CASE reasons # {}
    <3>1. Verdict = "refused"
      BY <2>1, <2>3 DEF Verdict, ControlInv, Underway
    <3> QED BY <1>a, <2>1, <2>2, <2>3, <3>1 DEF Governed!Report
  <2>4. CASE reasons = {}
    <3>1. Verdict = "open"
      BY <2>1, <2>4 DEF Verdict, ControlInv, Closed
    <3>2. Len(transcript) = Len(Steps)
      BY <1>a, <2>1, <2>4 DEF ControlInv, Closed
    <3> QED BY <1>a, <2>1, <2>2, <2>4, <3>1, <3>2 DEF Governed!Complete
  <2> QED BY <2>3, <2>4
<1>10. CASE UNCHANGED vars
  BY <1>10, <1>a DEF vars, Verdict
<1>11. CASE BeginRaises
  <2>1. pc = "start" /\ pc' = "aborted" /\ UNCHANGED <<input, transcript>>
    BY <1>11 DEF BeginRaises
  <2>2. Verdict = "open" /\ Verdict' = "aborted"
    BY <2>1 DEF Verdict
  <2> QED BY <1>a, <2>1, <2>2 DEF Governed!Abort
<1> QED BY <1>1, <1>2, <1>3, <1>4, <1>5, <1>6, <1>7, <1>8, <1>9, <1>10, <1>11
    DEF Next

LEMMA BudgetCorrect == Spec => []BudgetInv
<1>1. Init => BudgetInv
  BY DEF Init, BudgetInv, BudgetsHold, Attempted
<1> QED BY <1>1, BudgetStep, TypeCorrect, ControlCorrect, PTL DEF Spec

(* The engine implements the abstract governed run, its safety part: the    *)
(* initial states map to initial states, every step to a step or a stutter. *)
THEOREM EngineIsGoverned == Spec => Governed!Spec
<1>1. Init => Governed!Init
  <2> SUFFICES ASSUME Init PROVE Governed!Init
    OBVIOUS
  <2>1. Len(Steps) \in Nat
    BY ConstantsOK DEF Init, Inputs, Steps, Plan
  <2>2. StepBudget \in Nat
    BY ConstantsOK DEF Init, Inputs, StepBudget, Token
  <2>3. Len(transcript) = 0 /\ Verdict = "open"
    BY DEF Init, Verdict
  <2> QED BY <2>1, <2>2, <2>3 DEF Governed!Init, StepBudget
<1>2. TypeOK /\ ControlInv /\ BudgetInv /\ ControlInv' /\ [Next]_vars
         => [Governed!Next]_Governed!vars
  BY GovernedStep
<1> QED BY <1>1, <1>2, TypeCorrect, ControlCorrect, BudgetCorrect, PTL
        DEF Spec, Governed!Spec
=============================================================================
