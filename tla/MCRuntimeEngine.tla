--------------------------- MODULE MCRuntimeEngine ---------------------------
(* Values for the constants of RuntimeEngine: every plan of up to MaxPlan   *)
(* steps out of six kinds of step, a few of four, and tokens whose budgets  *)
(* run out inside such a plan.                                              *)
EXTENDS RuntimeEngine

CONSTANTS MaxPlan, NoValue

Plain == [id |-> "a", effect |-> "NOOP", backend |-> NoValue,
          caps |-> [lane \in Lanes |-> {}],
          endpoint |-> [lane \in Lanes |-> NoValue],
          irreversible |-> FALSE, required |-> {}, names |-> {}]

(* The three effects that put Delta-S evidence in place, each naming its    *)
(* role, and an irreversible step without effect that needs all of it.      *)
Compute == [Plain EXCEPT !.effect = "COMPUTE_DELTA_S", !.names = {"delta_s_report"}]
Gate    == [Plain EXCEPT !.effect = "DELTA_S_GATE", !.names = {"collapse_decision"}]
Certify == [Plain EXCEPT !.effect = "EMIT_ARTIFACT",
                         !.names = {"admissibility_certificate"}]
Collapse == [Plain EXCEPT !.effect = "OTHER", !.irreversible = TRUE]

Submit == [Plain EXCEPT !.effect = "IO_SUBMIT_ORDER", !.id = "b",
                        !.irreversible = TRUE,
                        !.required = {"delta_s_report", "collapse_decision"},
                        !.caps["io"] = {"ORDER"}]
Send   == [Plain EXCEPT !.effect = "NET_SEND", !.backend = "QASM",
                        !.endpoint = [lane \in Lanes |-> "demo"]]

MCKinds == {[Plain EXCEPT !.effect = "ASSERT_CONTRACT"], Compute, Gate,
            Certify, Submit, Send}

(* An artifact that is emitted under the name of a decision.                *)
EmitDecision == [Certify EXCEPT !.names = {"collapse_decision"}]

MCPlans ==
    [approved : {TRUE}, enforced : {FALSE},
     steps : UNION {[1 .. n -> MCKinds] : n \in 0 .. MaxPlan}
             \cup {<<Compute, Gate, Certify, Collapse>>,
                   <<Compute, Certify, EmitDecision, Collapse>>,
                   <<Compute, Certify, Collapse>>}]
    \cup [approved : BOOLEAN, enforced : BOOLEAN, steps : {<<Plain>>}]

Open == [permitted |-> TRUE, caps |-> {"ORDER"}, endpoints |-> {},
         budget |-> NoValue]

Wide == [budget_steps |-> 4, delta_s_budget |-> 0,
         backends |-> {"PYTHON", "QASM"}, modes |-> {}, collapse |-> TRUE,
         policy |-> [lane \in Lanes |-> Open]]

MCTokens ==
    {Wide,
     [Wide EXCEPT !.budget_steps = 0],
     [Wide EXCEPT !.budget_steps = MaxPlan - 1, !.collapse = FALSE],
     [Wide EXCEPT !.delta_s_budget = 1],
     [Wide EXCEPT !.modes = {"DELTA_S_GATE"}],
     [Wide EXCEPT !.backends = {"PYTHON"}],
     [Wide EXCEPT !.collapse = FALSE,
                  !.policy = [lane \in Lanes |-> [Open EXCEPT !.budget = 1]]],
     [Wide EXCEPT !.collapse = FALSE,
                  !.policy["net"].budget = 1, !.policy["io"].budget = 2],
     [Wide EXCEPT !.collapse = FALSE,
                  !.policy = [lane \in Lanes |->
                      [Open EXCEPT !.permitted = lane = "net",
                                   !.endpoints = {"other"}]]]}

MCContracts ==
    [allowed : {{}, {"a"}}, backend : {NoValue}, verify : {FALSE}]
    \cup [allowed : {{}}, backend : {"CLASSICAL"}, verify : {TRUE}]

MCIds == {"a", "b"}
MCBackends == {"PYTHON", "CLASSICAL", "QASM"}
MCCaps == {"ORDER"}
MCEndpoints == {"demo", "other"}
=============================================================================
