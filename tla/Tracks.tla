------------------------------- MODULE Tracks -------------------------------
(***************************************************************************)
(* The tracks of the scheduler: which effect steps a plan consists of      *)
(* (src/hpl/scheduler.py), what each step's handler reads and writes       *)
(* (src/hpl/runtime/effects/handlers.py), and what the command that runs   *)
(* the track feeds it and collects from it (src/hpl/cli.py).               *)
(*                                                                         *)
(* This module has no state; Lifecycle runs what it defines.  Files are    *)
(* named by their stem.  The numbers in them are left out: what matters is *)
(* which file is derived from which, and when a handler may refuse.        *)
(***************************************************************************)
EXTENDS Sequences

(* A step and its handler.                                                 *)
(*   files     files of earlier steps, looked up beside the outputs        *)
(*   rootFirst ... but in the repository root first                        *)
(*   given     inputs named on the command line                            *)
(*   out       files written                                               *)
(*   refuses   what the handler may refuse for the sake of its input's     *)
(*             content: "before" or "after" it has written its files       *)
(*   needs     "backend" or "classical", which the token must allow;       *)
(*             "adapter", "broker" or "net", which the switches of the       *)
(*             lanes decide on; or nothing                                   *)
Reads(effect, files, given, out) ==
    [effect |-> effect, files |-> files, rootFirst |-> FALSE, given |-> given,
     out |-> out, refuses |-> {}, needs |-> "nothing"]

Checks(step, when) == [step EXCEPT !.refuses = when]
RootFirst(step) == [step EXCEPT !.rootFirst = TRUE]

Needs(grant, steps) ==
    [i \in DOMAIN steps |-> [steps[i] EXCEPT !.needs = grant]]

-----------------------------------------------------------------------------
(* Trading on paper: a fixture of prices, a policy.                        *)

IngestFixture ==
    Checks(Reads("INGEST_MARKET_FIXTURE", {}, {"fixture"}, {"market_snapshot"}),
           {"before"})

ComputeSignal(snapshot) ==
    Reads("COMPUTE_SIGNAL", {snapshot}, {"policy"}, {"signal"})

(* The slippage of a model, where there is one, is held against the        *)
(* policy.                                                                 *)
SimulateOrder(snapshot, model) ==
    Checks(Reads("SIMULATE_ORDER", {snapshot, "signal"}, {"policy"} \cup model,
                 {"trade_fill"}),
           IF model = {} THEN {} ELSE {"before"})

(* The envelope is written before the drawdown is held against its limit.  *)
UpdateRisk(fill) ==
    Checks(Reads("UPDATE_RISK_ENVELOPE", {fill}, {"policy"}, {"risk_envelope"}),
           {"after"})

EmitReport(snapshot, fill) ==
    Reads("EMIT_TRADE_REPORT", {snapshot, "signal", fill, "risk_envelope"}, {},
          {"trade_report", "trade_report_md"})

(* Trading against a model of the market.                                  *)

LoadModel ==
    Checks(Reads("SIM_MARKET_MODEL_LOAD", {}, {"model"},
                 {"shadow_model", "shadow_seed"}), {"before"})

RegimeShift ==
    Reads("SIM_REGIME_SHIFT_STEP", {"market_snapshot"}, {"model"},
          {"regime_snapshot"})

ApplyLatency ==
    Checks(Reads("SIM_LATENCY_APPLY", {"regime_snapshot"}, {"model", "policy"},
                 {"latency_snapshot"}), {"before"})

PartialFill ==
    Checks(Reads("SIM_PARTIAL_FILL_MODEL", {"trade_fill"}, {"model", "policy"},
                 {"shadow_fill"}), {"before"})

OrderLifecycle ==
    Reads("SIM_ORDER_LIFECYCLE", {"shadow_fill"}, {"model"},
          {"shadow_execution_log"})

EmitLedger ==
    Reads("SIM_EMIT_TRADE_LEDGER", {"shadow_fill", "risk_envelope", "signal"},
          {}, {"shadow_trade_ledger"})

(* Navier-Stokes: a state is evolved file by file.  Every file but the     *)
(* first is found by _resolve_input_path, which asks the root first.       *)

EvolveLinear ==
    Reads("NS_EVOLVE_LINEAR", {}, {"state"}, {"ns_state_linear"})

ApplyDuhamel ==
    RootFirst(Reads("NS_APPLY_DUHAMEL", {"ns_state_linear"}, {"policy"},
                    {"ns_state_nonlinear"}))

ProjectLeray ==
    RootFirst(Reads("NS_PROJECT_LERAY", {"ns_state_nonlinear"}, {},
                    {"ns_state_projected"}))

RecoverPressure ==
    RootFirst(Reads("NS_PRESSURE_RECOVER", {"ns_state_projected"}, {},
                    {"ns_pressure"}))

MeasureObservables ==
    RootFirst(Reads("NS_MEASURE_OBSERVABLES", {"ns_state_projected"},
                    {"policy"}, {"ns_observables"}))

(* The certificate is written whether or not the barrier holds.            *)
CheckBarrier ==
    RootFirst(Checks(Reads("NS_CHECK_BARRIER", {"ns_observables"}, {"policy"},
                           {"ns_gate_certificate"}), {"after"}))

EmitState ==
    RootFirst(Reads("NS_EMIT_STATE", {"ns_state_projected"}, {},
                    {"ns_state_final"}))

(* These two read the policy without asking whether it is there.           *)
LoadsPolicy == {"NS_APPLY_DUHAMEL", "NS_MEASURE_OBSERVABLES"}

(* Governance of a repository and of an agent.                             *)

CheckRepoState ==
    Checks(Reads("CHECK_REPO_STATE", {"repo_state"}, {}, {}), {"before"})

ValidateRegistries ==
    Checks(Reads("VALIDATE_REGISTRIES", {}, {}, {}), {"before"})

ValidateCoupling ==
    Checks(Reads("VALIDATE_COUPLING_TOPOLOGY", {}, {"coupling"}, {}),
           {"before"})

EvaluateProposal ==
    Checks(Reads("EVALUATE_AGENT_PROPOSAL", {"agent_proposal", "agent_policy"},
                 {}, {"agent_decision"}), {"before", "after"})

LowerBackendIr == Reads("LOWER_BACKEND_IR", {}, {}, {"backend_ir"})
LowerQasm == Reads("LOWER_QASM", {}, {}, {"qasm"})

(* The anchor is looked up in the root, its public key beside the outputs  *)
(* unless its path is absolute: a relative key is a file no step writes.   *)
VerifyEpoch == Checks(Reads("VERIFY_EPOCH", {}, {"anchor"}, {}), {"before"})

VerifySignature(pub) ==
    Checks(Reads("VERIFY_SIGNATURE", IF pub = "relative" THEN {"pub"} ELSE {},
                 {"anchor"}, {}), {"before"})

(* The selected track is written to the path the command chose, below the  *)
(* directory of outputs once more unless that path is absolute.            *)
SelectTrack(out) ==
    Checks(Reads("SELECT_MEASUREMENT_TRACK", {}, {"boundary"},
                 {"measurement_selection"}),
           IF out = "relative" THEN {"raises"} ELSE {})

(* An exchange with a broker or a peer leaves request, response and event, *)
(* one name for the three; reconciliation likewise one for outcome, report *)
(* and remediation plan.  IOLane has them one by one.  The token of a plan *)
(* has the policy that the plan needs, so that no step is refused for it.  *)
Exchange(effect, log) ==
    [Reads(effect, {}, {}, {log}) EXCEPT !.needs = "adapter"]

Reconcile(log) ==
    [Reads("IO_RECONCILE", {log}, {}, {"reconciliation"}) EXCEPT
        !.refuses = {"after"}, !.needs = "broker"]

NetExchange(effect, log) ==
    [Reads(effect, {}, {}, {log, "net_session_manifest"}) EXCEPT !.needs = "net"]

-----------------------------------------------------------------------------
(* The plans.  "verification" is the pair of steps of a required epoch,    *)
(* empty where none is required.                                           *)

CiSteps(verification) ==
    <<CheckRepoState, ValidateRegistries, ValidateCoupling>>
        \o verification \o Needs("backend", <<LowerBackendIr>>)

AgentSteps(verification) == verification \o <<EvaluateProposal>>

(* Faulty: the report is emitted before the risk of the fill is known.     *)
PaperReportFirst(verification) ==
    verification \o
    Needs("classical",
          <<IngestFixture, ComputeSignal("market_snapshot"),
            SimulateOrder("market_snapshot", {}),
            EmitReport("market_snapshot", "trade_fill"),
            UpdateRisk("trade_fill")>>)

PaperSteps(verification) ==
    verification \o
    Needs("classical",
          <<IngestFixture, ComputeSignal("market_snapshot"),
            SimulateOrder("market_snapshot", {}), UpdateRisk("trade_fill"),
            EmitReport("market_snapshot", "trade_fill")>>)

ShadowSteps(verification) ==
    verification \o
    Needs("classical",
          <<LoadModel, IngestFixture, RegimeShift, ApplyLatency,
            ComputeSignal("latency_snapshot"),
            SimulateOrder("latency_snapshot", {"model"}), PartialFill,
            UpdateRisk("shadow_fill"), OrderLifecycle, EmitLedger,
            EmitReport("latency_snapshot", "shadow_fill")>>)

IoShadowSteps(verification) ==
    verification \o
    <<Exchange("IO_CONNECT", "io_connect"),
      Exchange("IO_QUERY_FILLS", "io_query"), Reconcile("io_query")>>

IoLiveMinSteps(verification) ==
    verification \o
    <<Exchange("IO_CONNECT", "io_connect"),
      Exchange("IO_SUBMIT_ORDER", "io_submit"), Reconcile("io_submit")>>

(* The plan of a session has no verification steps.                        *)
NetSteps ==
    <<NetExchange("NET_CONNECT", "net_connect"),
      NetExchange("NET_HANDSHAKE", "net_handshake"),
      NetExchange("NET_KEY_EXCHANGE", "net_key_exchange"),
      NetExchange("NET_SEND", "net_send"),
      NetExchange("NET_RECV", "net_recv"),
      NetExchange("NET_CLOSE", "net_close")>>

NavierStokesSteps(verification) ==
    verification \o
    Needs("classical",
          <<EvolveLinear, ApplyDuhamel, ProjectLeray, RecoverPressure,
            MeasureObservables, CheckBarrier, EmitState>>)

KernelSteps(selection, verification, qasm) ==
    selection \o verification \o
    Needs("backend", <<LowerBackendIr>> \o (IF qasm THEN <<LowerQasm>> ELSE <<>>))

(* Operators of the program, as NOOPs: _normalize_effect_step.             *)
LegacySteps == Needs("backend", <<Reads("NOOP", {}, {}, {})>>)

Epoch(required, pub) ==
    IF required THEN <<VerifyEpoch, VerifySignature(pub)>> ELSE <<>>

-----------------------------------------------------------------------------
(* The commands: one function of cli.py for each track, which differ in    *)
(*   given   the input files named on the command line, all bundled        *)
(*   writes  what is put in the work directory before planning             *)
(*   roles   the outputs that become bundle roles where they exist         *)
(*   scans   whether a redaction report is made of the artifacts           *)
Demo(given, writes, roles, scans) ==
    [given |-> given, writes |-> writes, roles |-> roles, scans |-> scans]

CiDemo == Demo({}, {"repo_state"}, {"backend_ir"}, FALSE)
AgentDemo == Demo({}, {"agent_proposal", "agent_policy"},
                  {"agent_proposal", "agent_policy", "agent_decision"}, FALSE)
PaperDemo == Demo({"fixture", "policy"}, {},
                  {"trade_report", "trade_report_md"}, FALSE)
ShadowDemo == Demo({"fixture", "policy", "model"}, {},
                   {"shadow_model", "shadow_seed", "shadow_execution_log",
                    "shadow_trade_ledger", "trade_report", "trade_report_md"},
                   FALSE)
IoShadowDemo == Demo({}, {}, {"io_connect", "io_query", "reconciliation"}, TRUE)
IoLiveMinDemo == Demo({}, {}, {"io_connect", "io_submit", "reconciliation"}, TRUE)
NavierStokesDemo == Demo({"state", "policy"}, {},
                         {"ns_state_final", "ns_observables", "ns_pressure",
                          "ns_gate_certificate"}, FALSE)
NetDemo == Demo({}, {}, {"net_connect", "net_handshake", "net_key_exchange",
                         "net_send", "net_recv", "net_close",
                         "net_session_manifest"}, TRUE)

DemoOf == [ci_governance       |-> CiDemo,
           agent_governance    |-> AgentDemo,
           trading_paper_mode  |-> PaperDemo,
           trading_shadow_mode |-> ShadowDemo,
           trading_io_shadow   |-> IoShadowDemo,
           trading_io_live_min |-> IoLiveMinDemo,
           navier_stokes       |-> NavierStokesDemo,
           net_shadow          |-> NetDemo]

DemoTracks == DOMAIN DemoOf

(* The switch of a lane, as far as it means anything to the track: off; on *)
(* with guard and adapter; on, but the guard is not set or the adapter     *)
(* does not load.  A session is a dry run and asks for neither.            *)
Lanes(track) ==
    CASE track \in {"trading_io_shadow", "trading_io_live_min"} ->
             {"off", "on", "broken"}
      [] track = "net_shadow" -> {"off", "on"}
      [] OTHER -> {"off"}
=============================================================================
