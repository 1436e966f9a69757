------------------------------ MODULE TokenTree ------------------------------
(***************************************************************************)
(* Causal token inheritance (src/tools/hpl-agent/hpl_agent/ctih): a parent *)
(* scheduler mints sub-tokens whose scope is cut to the root's, child      *)
(* sessions work under them and report what they consumed after each turn, *)
(* and the parent revokes a token whose budget is exceeded.                *)
(*                                                                         *)
(* A turn takes as long as the model it calls, so turns of different       *)
(* sessions overlap; receiving a witness is one step.  A sub-token's id is *)
(* a hash of the root's id and the scope: here the scope is the id, which  *)
(* two children with equal scopes share.  Backends and the io and net      *)
(* switches are intersected alike and are one set, caps.                   *)
(***************************************************************************)
EXTENDS Naturals, Sequences

CONSTANTS
    Tools, Caps,   \* tool names; backends and io, net switches
    Root,          \* the root's scope
    Requests,      \* scopes that children are requested with
    Toolboxes,     \* sets of tool definitions a turn may be given
    MaxTurn,       \* steps of one turn: its tool calls and one
    MaxChildren,   \* bound: children spawned
    MaxWork        \* bound: steps up to which turns of a session may fail

Scope == [budget : Nat, tools : SUBSET Tools, caps : SUBSET Caps]

ASSUME ConstantsOK ==
    /\ Root \in Scope
    /\ Requests \subseteq Scope
    /\ Toolboxes \subseteq SUBSET Tools
    /\ MaxTurn \in Nat \ {0}
    /\ MaxChildren \in Nat
    /\ MaxWork \in Nat

VARIABLES
    children,   \* scopes, hence ids, of the minted tokens in order
    revoked,    \* revoked_token_ids
    recorded,   \* _budget_states: id -> total steps
    log,        \* _revocation_log: ids in order
    sessions    \* one per child, see Session

vars == <<children, revoked, recorded, log, sessions>>

Session == [steps   : Nat,            \* _steps_this_session
            active  : BOOLEAN,        \* _active
            busy    : BOOLEAN,        \* in a turn
            offered : SUBSET Tools,   \* tools offered in its turns so far
            worked  : Nat,            \* steps made, counted or not
            late    : Nat]            \* turns ended with its token revoked

Idle == [steps |-> 0, active |-> TRUE, busy |-> FALSE, offered |-> {},
         worked |-> 0, late |-> 0]

Lower(a, b) == IF a < b THEN a ELSE b

(* Faulty: the request is taken as it is.                                  *)
IntersectBudgetless(scope, request) ==
    [budget |-> request.budget,
     tools  |-> request.tools \cap scope.tools,
     caps   |-> request.caps \cap scope.caps]

(* TokenScope.intersect                                                    *)
Intersect(scope, request) ==
    [budget |-> Lower(scope.budget, request.budget),
     tools  |-> request.tools \cap scope.tools,
     caps   |-> request.caps \cap scope.caps]

Init ==
    /\ children = <<>>
    /\ revoked = {}
    /\ recorded = <<>>
    /\ log = <<>>
    /\ sessions = <<>>

(* Faulty: the child's budget state is left to its first report.           *)
SpawnSilent(request) ==
    LET child == Intersect(Root, request)
    IN  /\ Len(children) < MaxChildren
        /\ children' = Append(children, child)
        /\ sessions' = Append(sessions, Idle)
        /\ UNCHANGED <<revoked, recorded, log>>

(* spawn_child mints a token and gives its id a new budget state, the old  *)
(* one of an equal token included; a session starts with it.               *)
Spawn(request) ==
    LET child == Intersect(Root, request)
    IN  /\ Len(children) < MaxChildren
        /\ children' = Append(children, child)
        /\ recorded' = [id \in DOMAIN recorded \cup {child} |->
                            IF id = child THEN 0 ELSE recorded[id]]
        /\ sessions' = Append(sessions, Idle)
        /\ UNCHANGED <<revoked, log>>

(* run_turn up to the call of the engine: an empty list of tools in the    *)
(* scope filters nothing.                                                  *)
BeginTurn(i, toolbox) ==
    LET tools == children[i].tools
    IN  /\ sessions[i].active
        /\ ~sessions[i].busy
        /\ sessions' = [sessions EXCEPT
               ![i].busy = TRUE,
               ![i].offered = @ \cup IF tools = {} THEN toolbox
                                     ELSE toolbox \cap tools]
        /\ UNCHANGED <<children, revoked, recorded, log>>

(* Faulty: a report is of the turn only, as its field's name would have it. *)
ReportTurn(i, n) == n

(* What a witness says was consumed: the session's steps so far.           *)
Report(i, n) == sessions[i].steps + n

(* Faulty: any token with a budget state is taken for active.              *)
ReceiveRevoked(id, steps) ==
    LET total == recorded[id] + steps
    IN  /\ recorded' = [recorded EXCEPT ![id] = total]
        /\ IF total > id.budget
           THEN revoked' = revoked \cup {id} /\ log' = Append(log, id)
           ELSE UNCHANGED <<revoked, log>>

(* receive_witness: a revoked token's consumption is no longer added up.   *)
Receive(id, steps) ==
    IF id \in revoked THEN UNCHANGED <<revoked, recorded, log>>
    ELSE LET total == recorded[id] + steps
         IN  /\ recorded' = [recorded EXCEPT ![id] = total]
             /\ IF total > id.budget
                THEN revoked' = revoked \cup {id} /\ log' = Append(log, id)
                ELSE UNCHANGED <<revoked, log>>

(* Faulty: a witness of a revoked token is passed over with a yes.         *)
StillActiveUnlessNew(id) == id \in revoked \/ id \notin revoked'

(* What receive_witness returns, once the witness is taken in.             *)
StillActive(id) == id \notin revoked'

(* The turn ends: its steps are counted and reported.                      *)
EndTurn(i, n) ==
    /\ sessions[i].busy
    /\ Receive(children[i], Report(i, n))
    /\ sessions' = [sessions EXCEPT
           ![i].busy = FALSE,
           ![i].steps = @ + n,
           ![i].worked = @ + n,
           ![i].active = StillActive(children[i]),
           ![i].late = IF children[i] \in revoked THEN @ + 1 ELSE @]
    /\ UNCHANGED children

(* The engine raises after n steps: nothing is counted or reported.        *)
FailTurn(i, n) ==
    /\ sessions[i].busy
    /\ sessions[i].worked + n <= MaxWork
    /\ sessions' = [sessions EXCEPT ![i].busy = FALSE, ![i].worked = @ + n]
    /\ UNCHANGED <<children, revoked, recorded, log>>

Next ==
    \/ \E request \in Requests : Spawn(request)
    \/ \E i \in DOMAIN sessions, toolbox \in Toolboxes : BeginTurn(i, toolbox)
    \/ \E i \in DOMAIN sessions, n \in 1 .. MaxTurn : EndTurn(i, n)
    \/ \E i \in DOMAIN sessions, n \in 0 .. MaxTurn : FailTurn(i, n)

Spec == Init /\ [][Next]_vars

-----------------------------------------------------------------------------
(* The types of the state; sessions and children correspond.               *)
TypeOK ==
    /\ children \in Seq(Scope)
    /\ Len(children) <= MaxChildren
    /\ sessions \in Seq(Session)
    /\ Len(sessions) = Len(children)
    /\ \A i \in 1 .. Len(children) : children[i] \in DOMAIN recorded
    /\ \A id \in DOMAIN recorded : id \in Scope /\ recorded[id] \in Nat
    /\ revoked \subseteq DOMAIN recorded
    /\ log \in Seq(Scope)

(* No authority is made by delegating it: every child's scope lies within  *)
(* the root's, whatever was requested (TokenScope.intersect).              *)
Attenuated ==
    \A i \in DOMAIN children :
        /\ children[i].budget <= Root.budget
        /\ children[i].tools \subseteq Root.tools
        /\ children[i].caps \subseteq Root.caps

(* A session ends at most one turn after its token is revoked, be it by    *)
(* the reports of another session whose token has the same id: its next    *)
(* report tells it (_active is only set from receive_witness).             *)
OneLateTurn ==
    \A i \in DOMAIN sessions :
        /\ sessions[i].late <= 1
        /\ sessions[i].late = 1 => ~sessions[i].active

(* The revocation log is the record of the revoked set: every revocation   *)
(* is in it, and once, although turns of equal tokens report one after the *)
(* other (receive_witness).                                                *)
LogIsComplete ==
    /\ revoked = {log[k] : k \in DOMAIN log}
    /\ \A k, l \in DOMAIN log : log[k] = log[l] => k = l

(* "Parent auto-revokes any child that exceeds its delegated budget"       *)
(* (tools/hpl-agent/README.md:27), of the steps a session counts: it stays *)
(* within its budget until a last turn, whose report closes it, although   *)
(* spawning an equal child resets what the parent has recorded.            *)
Spent == [i \in DOMAIN sessions |-> sessions[i].steps]
Open == [i \in DOMAIN sessions |-> sessions[i].active]
Limits == [i \in DOMAIN children |-> children[i].budget]

Lease == INSTANCE BudgetLease WITH
    Means <- Root.budget, limit <- Limits, spent <- Spent, open <- Open

IsLease == Lease!Spec

(* The same statement of the work a session has really made, its failed    *)
(* turns included.                                                         *)
OverspenderRevoked ==
    \A i \in DOMAIN sessions :
        sessions[i].worked > children[i].budget /\ ~sessions[i].busy =>
            ~sessions[i].active
=============================================================================
