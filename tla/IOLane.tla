------------------------------- MODULE IOLane -------------------------------
(***************************************************************************)
(* The permissioned IO lane (src/hpl/runtime/effects/handlers.py, the      *)
(* handle_io_* functions, and src/hpl/runtime/io): runs of the engine,     *)
(* one after the other, that share a work directory and a broker.          *)
(*                                                                         *)
(* RuntimeEngine abstracts a handler to its outcome; here the plan, the    *)
(* loop and its io budget stay, and the handlers are opened up: each file  *)
(* they write is a step, a run may die between any two of them or inside a *)
(* write, and the next run finds what is left.  The broker is external.    *)
(* Requests of equal orders are equal, ids included, so a file does not    *)
(* tell one submission from the next; the number of the adapter call that  *)
(* is kept with requests and responses here is what the properties need.   *)
(***************************************************************************)
EXTENDS Naturals, Sequences

CONSTANTS
    Plans,      \* plans: sequences of effects
    Settings,   \* what an operator may start a run with, see Setting
    MaxRuns,    \* bound: runs that share the work directory
    None,       \* no file, no budget, no reason
    Torn        \* a file whose write was interrupted

Exchanges == {"connect", "submit", "cancel", "query"}
Effects == Exchanges \cup {"event", "reconcile", "rollback"}

Setting == [io_enabled : BOOLEAN,                   \* --enable-io
            guard      : BOOLEAN,                   \* HPL_IO_ENABLED
            ready      : BOOLEAN,                   \* HPL_IO_ADAPTER_READY
            adapter    : {"mock", "stub", "live"},  \* HPL_IO_ADAPTER
            scopes     : SUBSET Effects,            \* of the token's io policy
            mode       : {"dry_run", "live"},
            reconcile  : BOOLEAN,                   \* io_requires_reconciliation
            budget     : Nat \cup {None}]

Refusals == {"IOBudgetExceeded", "IOPermissionDenied", "IOGuardNotEnabled",
             "IOAdapterUnavailable", "IOReconciliationInputsMissing",
             "IOAmbiguousResult", "IORollbackMissingOutcome",
             "IORollbackNotRequired", "OrderIdMissing"}

(* What files hold: requests; responses and events; outcomes; the reports, *)
(* remediations and rollback records that are made of an outcome.          *)
Asked == [call : Nat]
Note == [call : Nat \cup {None},
         status : {"ok", "error", "accepted", "done", "io_event"}]
Judged == [action : {"commit", "rollback", "refuse"}, request : Asked,
           response : Note]
Contents == Asked \cup Note \cup Judged \cup [outcome : Judged]

ASSUME ConstantsOK ==
    /\ Plans \subseteq Seq(Effects)
    /\ Settings \subseteq Setting
    /\ MaxRuns \in Nat
    /\ None \notin Nat \cup Refusals \cup {"ok"} \cup Contents
    /\ Torn \notin Contents

Files == ({"request", "response", "event"} \X Exchanges)
         \cup {<<"event", "event">>,
               <<"outcome", "reconcile">>, <<"report", "reconcile">>,
               <<"remediation", "reconcile">>, <<"record", "rollback">>}

Request == <<"request", "submit">>
Response == <<"response", "submit">>
Outcome == <<"outcome", "reconcile">>
Report == <<"report", "reconcile">>
Remediation == <<"remediation", "reconcile">>
Record == <<"record", "rollback">>

VARIABLES
    work,     \* the work directory: what each file holds
    orders,   \* the broker: calls whose order is placed and not cancelled
    calls,    \* adapter calls so far
    runs,     \* runs started so far
    setting,  \* of the current or last run, like all that follow
    plan,
    status,   \* "idle", "running", "completed", "denied", "raised", "crashed"
    next,     \* position in the plan
    budget,   \* what is left of the io budget
    todo,     \* files the current handler still has to write, with contents
    ending,   \* how its step will end: None while no handler is at work
    reason,   \* the refusal type
    sent,     \* the call of this run's submission
    placed    \* calls of this run that placed an order

disk == <<work, orders, calls, runs>>
local == <<setting, plan, status, next, budget, todo, ending, reason, sent, placed>>
vars == <<disk, local>>

Current == plan[next]
AtStep == status = "running" /\ ending = None /\ next <= Len(plan)

-----------------------------------------------------------------------------
(* Runs *)

Init ==
    /\ work = [f \in Files |-> None]
    /\ orders = {}
    /\ calls = 0
    /\ runs = 0
    /\ setting \in Settings
    /\ plan = <<>>
    /\ status = "idle"
    /\ next = 1
    /\ budget = None
    /\ todo = <<>>
    /\ ending = None
    /\ reason = None
    /\ sent = None
    /\ placed = {}

(* A run starts in the work directory of the one before it ("hpl run") or, *)
(* with wipe, in an empty one (the demo commands remove it first).         *)
Start(p, s, wipe) ==
    /\ status # "running"
    /\ runs < MaxRuns
    /\ runs' = runs + 1
    /\ work' = IF wipe THEN [f \in Files |-> None] ELSE work
    /\ setting' = s
    /\ plan' = p
    /\ status' = "running"
    /\ next' = 1
    /\ budget' = s.budget
    /\ todo' = <<>>
    /\ ending' = None
    /\ reason' = None
    /\ sent' = None
    /\ placed' = {}
    /\ UNCHANGED <<orders, calls>>

Deny(refusal) ==
    /\ status' = "denied"
    /\ reason' = refusal
    /\ UNCHANGED <<disk, setting, plan, next, budget, todo, ending, sent, placed>>

(* Faulty: the budget is charged and never looked at.                      *)
BudgetIgnored == TRUE

BudgetLeft == budget # 0

Charged == IF budget = None THEN None ELSE budget - 1

(* The token lets the step through: its scope is granted, both to the      *)
(* execution contract and to _ensure_io_policy.                            *)
PolicyOk == Current \in setting.scopes

PolicyDenied ==
    /\ AtStep
    /\ \/ ~BudgetLeft /\ Deny("IOBudgetExceeded")
       \/ BudgetLeft /\ ~PolicyOk /\ Deny("IOPermissionDenied")

(* The handler of the current step may do its work.                        *)
Handling(effect) == AtStep /\ Current = effect /\ BudgetLeft /\ PolicyOk

(* The handler has decided what to write and how the step ends.            *)
Handle(writes, result) ==
    /\ todo' = writes
    /\ ending' = result
    /\ budget' = Charged
    /\ UNCHANGED <<work, runs, setting, plan, status, next, reason>>

Raise ==
    /\ status' = "raised"
    /\ todo' = <<>>
    /\ UNCHANGED <<disk, setting, plan, next, budget, ending, reason, sent, placed>>

-----------------------------------------------------------------------------
(* Exchanges with the broker *)

(* _resolve_io_adapter: without --enable-io there is no adapter and the    *)
(* handler makes up a reply; the mock adapter needs no readiness.          *)
GuardMissing == setting.io_enabled /\ ~setting.guard
AdapterMissing ==
    /\ setting.io_enabled
    /\ setting.guard
    /\ setting.adapter # "mock"
    /\ ~setting.ready

AdapterDenied ==
    /\ \E effect \in Exchanges : Handling(effect)
    /\ \/ GuardMissing /\ Deny("IOGuardNotEnabled")
       \/ AdapterMissing /\ Deny("IOAdapterUnavailable")

(* A plan may ask about an order, or cancel it, without saying which.      *)
OrderIdDenied ==
    /\ \E effect \in {"cancel", "query"} : Handling(effect)
    /\ Deny("OrderIdMissing")

Live == setting.io_enabled /\ setting.adapter = "live"
Reachable(effect) == Handling(effect) /\ ~GuardMissing /\ ~AdapterMissing

(* _emit_io_artifacts: the three files, after the call, whatever the reply. *)
Artifacts(effect, reply) ==
    LET note == [call |-> calls + 1, status |-> reply]
    IN  <<[file |-> <<"request", effect>>, data |-> [call |-> calls + 1]],
          [file |-> <<"response", effect>>, data |-> note],
          [file |-> <<"event", effect>>, data |-> note]>>

(* Faulty: a failed exchange is not recorded.                              *)
ExchangedUnlogged(effect, reply) ==
    /\ calls' = calls + 1
    /\ Handle(IF reply = "error" THEN <<>> ELSE Artifacts(effect, reply), "ok")

Exchanged(effect, reply) ==
    /\ calls' = calls + 1
    /\ Handle(Artifacts(effect, reply), "ok")

(* Without a live adapter the reply is made up and nothing is placed.      *)
Simulated(effect) == IF effect = "submit" THEN "accepted" ELSE "done"

Simulate(effect) ==
    /\ Reachable(effect)
    /\ ~Live
    /\ Exchanged(effect, Simulated(effect))
    /\ sent' = IF effect = "submit" THEN calls + 1 ELSE sent
    /\ UNCHANGED <<orders, placed>>

(* A live adapter catches what goes wrong after the order is out and says  *)
(* "error", as it does for an order that was never placed.                 *)
Submit(reply, accepted) ==
    /\ Reachable("submit")
    /\ Live
    /\ reply = "ok" => accepted
    /\ Exchanged("submit", reply)
    /\ sent' = calls + 1
    /\ orders' = IF accepted THEN orders \cup {calls + 1} ELSE orders
    /\ placed' = IF accepted THEN placed \cup {calls + 1} ELSE placed

Cancel(reply, cancelled) ==
    /\ Reachable("cancel")
    /\ Live
    /\ reply = "ok" => cancelled # None
    /\ Exchanged("cancel", reply)
    /\ orders' = orders \ {cancelled}
    /\ UNCHANGED <<sent, placed>>

Ask(effect, reply) ==
    /\ Reachable(effect)
    /\ Live
    /\ Exchanged(effect, reply)
    /\ UNCHANGED <<orders, sent, placed>>

(* A live adapter raises on a missing credential or a malformed order id,  *)
(* before anything is sent.                                                *)
AdapterRaises ==
    /\ \E effect \in Exchanges : Reachable(effect)
    /\ Live
    /\ Raise

EmitEvent ==
    /\ Handling("event")
    /\ Handle(<<[file |-> <<"event", "event">>,
                 data |-> [call |-> None, status |-> "io_event"]]>>, "ok")
    /\ UNCHANGED <<orders, calls, sent, placed>>

-----------------------------------------------------------------------------
(* Reconciliation and rollback *)

(* The plans of the scheduler expect "accepted"; no adapter of the         *)
(* repository marks a response ambiguous.                                  *)
Expected == "accepted"

(* Faulty: whatever is not an error agrees.                                *)
NoError(response) == response.status # "error"

Agreed(response) == response.status = Expected

(* Faulty: a token that asks for no reconciliation lets it commit.         *)
VerdictOptional(response) ==
    IF Agreed(response) \/ ~setting.reconcile THEN "commit" ELSE "rollback"

Verdict(response) ==
    IF Agreed(response) THEN "commit"
    ELSE IF setting.reconcile THEN "rollback" ELSE "refuse"

(* Faulty: the report is written first, for the outcome that was there.    *)
FindingsStale(outcome) ==
    <<[file |-> Report, data |-> [outcome |-> work[Outcome]]],
      [file |-> Outcome, data |-> outcome]>>
    \o IF outcome.action = "commit" THEN <<>>
       ELSE <<[file |-> Remediation, data |-> [outcome |-> outcome]]>>

(* The files of a reconciliation, in the order they are written.           *)
Findings(outcome) ==
    <<[file |-> Outcome, data |-> outcome],
      [file |-> Report, data |-> [outcome |-> outcome]]>>
    \o IF outcome.action = "commit" THEN <<>>
       ELSE <<[file |-> Remediation, data |-> [outcome |-> outcome]]>>

Missing(files) == \E f \in files : work[f] = None
Unreadable(files) == ~Missing(files) /\ \E f \in files : work[f] = Torn
Readable(files) == ~Missing(files) /\ ~Unreadable(files)

Reconcile ==
    /\ Handling("reconcile")
    /\ Readable({Request, Response})
    /\ LET response == work[Response]
           action   == Verdict(response)
       IN  Handle(Findings([action |-> action, request |-> work[Request],
                            response |-> response]),
                  IF action = "commit" THEN "ok" ELSE "IOAmbiguousResult")
    /\ UNCHANGED <<orders, calls, sent, placed>>

ReconcileDenied ==
    /\ Handling("reconcile")
    /\ Missing({Request, Response})
    /\ Deny("IOReconciliationInputsMissing")

(* Faulty: any outcome may be rolled back.                                 *)
RollbackDue(outcome) == outcome.action # "none"

RollbackRequired(outcome) == outcome.action = "rollback"

Rollback ==
    /\ Handling("rollback")
    /\ Readable({Outcome})
    /\ RollbackRequired(work[Outcome])
    /\ Handle(<<[file |-> Record, data |-> [outcome |-> work[Outcome]]]>>, "ok")
    /\ UNCHANGED <<orders, calls, sent, placed>>

RollbackDenied ==
    /\ Handling("rollback")
    /\ \/ Missing({Outcome}) /\ Deny("IORollbackMissingOutcome")
       \/ /\ Readable({Outcome})
          /\ ~RollbackRequired(work[Outcome])
          /\ Deny("IORollbackNotRequired")

(* Faulty: the handler waits for the file to become readable.              *)
ReadRetries ==
    /\ \/ Handling("reconcile") /\ Unreadable({Request, Response})
       \/ Handling("rollback") /\ Unreadable({Outcome})
    /\ UNCHANGED vars

(* A file cut short by an earlier run is no JSON: json.loads raises.       *)
ReadRaises ==
    /\ \/ Handling("reconcile") /\ Unreadable({Request, Response})
       \/ Handling("rollback") /\ Unreadable({Outcome})
    /\ Raise

-----------------------------------------------------------------------------
(* Writing the files, the end of a step and of a run *)

Write ==
    /\ status = "running"
    /\ todo # <<>>
    /\ work' = [work EXCEPT ![Head(todo).file] = Head(todo).data]
    /\ todo' = Tail(todo)
    /\ UNCHANGED <<orders, calls, runs, setting, plan, status, next, budget,
                   ending, reason, sent, placed>>

EndStep ==
    /\ status = "running"
    /\ ending # None
    /\ todo = <<>>
    /\ ending' = None
    /\ IF ending = "ok"
       THEN next' = next + 1 /\ UNCHANGED <<status, reason>>
       ELSE status' = "denied" /\ reason' = ending /\ UNCHANGED next
    /\ UNCHANGED <<disk, setting, plan, budget, todo, sent, placed>>

Complete ==
    /\ status = "running"
    /\ ending = None
    /\ next > Len(plan)
    /\ status' = "completed"
    /\ UNCHANGED <<disk, setting, plan, next, budget, todo, ending, reason, sent,
                   placed>>

(* The process dies or a write fails: what is written stays, the file that *)
(* is being written may be cut short.                                      *)
Crash ==
    /\ status = "running"
    /\ status' = "crashed"
    /\ work' \in {work}
                 \cup (IF todo = <<>> THEN {}
                       ELSE {[work EXCEPT ![Head(todo).file] = Torn]})
    /\ todo' = <<>>
    /\ UNCHANGED <<orders, calls, runs, setting, plan, next, budget, ending,
                   reason, sent, placed>>

(* What a run does by itself.                                              *)
Work ==
    \/ PolicyDenied
    \/ AdapterDenied
    \/ OrderIdDenied
    \/ \E effect \in Exchanges : Simulate(effect)
    \/ \E reply \in {"ok", "error"}, accepted \in BOOLEAN : Submit(reply, accepted)
    \/ \E reply \in {"ok", "error"}, cancelled \in orders \cup {None} :
           Cancel(reply, cancelled)
    \/ \E effect \in {"connect", "query"}, reply \in {"ok", "error"} :
           Ask(effect, reply)
    \/ AdapterRaises
    \/ EmitEvent
    \/ Reconcile
    \/ ReconcileDenied
    \/ Rollback
    \/ RollbackDenied
    \/ ReadRaises
    \/ Write
    \/ EndStep
    \/ Complete

Next ==
    \/ \E p \in Plans, s \in Settings, wipe \in BOOLEAN : Start(p, s, wipe)
    \/ Work
    \/ Crash

Spec == Init /\ [][Next]_vars

(* A run is one thread that nothing blocks; starting one is up to the      *)
(* operator and a crash is never due.                                      *)
FairSpec == Spec /\ WF_vars(Work)

-----------------------------------------------------------------------------
(* The types of the state; a file is written only while a handler works.   *)
TypeOK ==
    /\ DOMAIN work = Files
    /\ calls \in Nat /\ runs \in 0 .. MaxRuns
    /\ orders \subseteq 1 .. calls
    /\ placed \subseteq 1 .. calls
    /\ sent \in {None} \cup 1 .. calls
    /\ setting \in Settings
    /\ plan \in Plans \cup {<<>>}
    /\ status \in {"idle", "running", "completed", "denied", "raised", "crashed"}
    /\ next \in 1 .. Len(plan) + 1
    /\ budget \in Nat \cup {None}
    /\ todo # <<>> => status = "running" /\ ending # None
    /\ ending \in {None, "ok", "IOAmbiguousResult"}
    /\ reason \in Refusals \cup {None}

Position(effect) == {i \in DOMAIN plan : plan[i] = effect}
Reconciled ==
    \/ \E i \in Position("reconcile") : i < next
    \/ reason = "IOAmbiguousResult"
SubmitsFirst == \A i \in Position("submit"), j \in Position("reconcile") : i < j

(* A completed run that submits and then reconciles ends with a commit     *)
(* that rests on the reply to its own submission, as expected, whatever    *)
(* an earlier run left in the work directory (handle_io_reconcile reads    *)
(* files, not the reply).                                                  *)
CommitIsOfThisRun ==
    /\ status = "completed"
    /\ SubmitsFirst
    /\ Position("submit") # {} /\ Position("reconcile") # {}
    => /\ work[Outcome].action = "commit"
       /\ work[Outcome].request.call = sent
       /\ work[Outcome].response = [call |-> sent, status |-> Expected]

(* A run that comes to its own end after a reconciliation leaves files     *)
(* that agree: the outcome is of the request and the response on disk, the *)
(* report is of the outcome, and an outcome that is no commit has its      *)
(* remediation, though earlier runs may have stopped anywhere between      *)
(* these writes.                                                           *)
EvidenceAgrees ==
    /\ status \in {"completed", "denied"}
    /\ SubmitsFirst
    /\ Reconciled
    => LET outcome == work[Outcome]
       IN  /\ outcome.request = work[Request]
           /\ outcome.response = work[Response]
           /\ work[Report].outcome = outcome
           /\ outcome.action # "commit" => work[Remediation].outcome = outcome

(* An order that a run placed is in the request and response files of its  *)
(* work directory when the run comes to its own end, the order the broker  *)
(* took though the adapter reported an error included: only a crash or an  *)
(* exception loses the record (the call comes before the writes).          *)
PlacedOrdersAreLogged ==
    status \in {"completed", "denied"} =>
        \A n \in placed :
            /\ work[Request] \notin {None, Torn} /\ work[Request].call = n
            /\ work[Response] \notin {None, Torn} /\ work[Response].call = n

(* No run turns an outcome that is no commit into a commit without a new   *)
(* submission: reconciling the same files again, with whatever token,      *)
(* comes to the same judgement.                                            *)
NoSecondThoughts ==
    [][LET before == work[Outcome]
           after  == work'[Outcome]
       IN  before \notin {None, Torn} /\ after \notin {None, Torn} =>
               (before.action # "commit" /\ after.action = "commit" =>
                    before.response.call # after.response.call)]_vars

(* "If outcome requires rollback, IO_ROLLBACK is the only lawful path"     *)
(* (docs/publish/io_lane_runbook.md:64): a rollback is recorded only for   *)
(* the outcome that is on disk, and only if that requires it.              *)
RollbackFollowsOutcome ==
    [][work'[Record] \notin {work[Record], None, Torn} =>
           /\ work'[Record].outcome = work[Outcome]
           /\ work[Outcome].action = "rollback"]_vars

(* Every run ends, whatever the files an earlier one left.                 *)
RunsEnd == status = "running" ~> status # "running"

(* "test_trading_io_live_min_refuses_without_live_mode"                    *)
(* (tests/test_trading_io_demos.py:97): a token whose io mode is not live  *)
(* places no order.                                                        *)
OnlyLiveModePlaces == placed # {} => setting.mode = "live"
=============================================================================
