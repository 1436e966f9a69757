--------------------------- MODULE GovernedSession ---------------------------
(***************************************************************************)
(* Governed sessions of the agent (tools/hpl-agent/hpl_agent): the tool    *)
(* loop of a message (harness/engine.py), the evidence chain that a        *)
(* session keeps in memory and seals with its key                          *)
(* (ci/evidence_chain.py), and the audit log, a file that every session    *)
(* appends a line to after each turn (ci/audit_log.py).                    *)
(*                                                                         *)
(* Sessions are processes of their own and share the log: "hpl-agent       *)
(* govern" begins a new session each time and names the same file.  The    *)
(* model's answers, failures and stops are free.  A digest stands for what *)
(* it is taken of; a leaf is told from any other by its session and its    *)
(* place (its timestamp and prev_leaf_digest in the code).                 *)
(***************************************************************************)
EXTENDS Naturals, Sequences, FiniteSets, Merkle

CONSTANTS
    Sessions,      \* session ids
    MaxTurns,      \* bound, for each session: messages submitted
    MaxApi,        \* HarnessConfig.max_turns: model calls of one message
    MaxTools,      \* bound: tool_use blocks of one answer
    MaxTears       \* bound: writes to the log that are cut off

ASSUME ConstantsOK ==
    /\ MaxTurns \in [Sessions -> Nat]
    /\ MaxApi \in Nat
    /\ MaxTools \in Nat
    /\ MaxTears \in Nat

VARIABLES
    pc,        \* where each session's process stands
    messages,  \* PersistentSession.messages
    apis,      \* model calls made for the message under way
    calls,     \* tool calls made for it, TurnResult.tool_calls_made
    turn,      \* GovernanceAgent._turn_index
    chain,     \* EvidenceChain.leaves
    seal,      \* EvidenceChain.merkle_root, signature and leaf_count
    log,       \* the lines of the audit log
    open,      \* its last line has no end
    prompts,   \* messages submitted so far
    returned,  \* for the properties: places of the turns that returned
    tears      \* for the properties: writes to the log that were cut off

agent == <<pc, messages, apis, calls, turn, prompts>>
vars == <<agent, chain, seal, log, open, returned, tears>>

Stages == {"idle", "api", "tools", "record", "log", "ended"}

(* The session is in run_governed_turn.                                    *)
InTurn(s) == pc[s] \in {"api", "tools", "record", "log"}

(* A message holds tool_use blocks if the assistant's and tool_result      *)
(* blocks if the user's; an answer has the model's stop reason, "tool_use" *)
(* or another.                                                             *)
Message == [role : {"user", "assistant"}, tools : Nat, stop : {"", "tool_use", "other"}]

Said(n) == [role |-> "user", tools |-> n, stop |-> ""]
Answered(n, stop) == [role |-> "assistant", tools |-> n, stop |-> stop]

(* The tool_use blocks of an answer that are run.                          *)
Due(answer) == IF answer.stop = "tool_use" THEN answer.tools ELSE 0

(* TurnEvidence; prev is the digest of the leaf before.                    *)
NoDigest == <<>>
Digest(leaf) == <<leaf.session, leaf.at>>

Leaf == [session : Sessions, turn : Nat, calls : Nat, at : Nat \ {0},
         prev : {NoDigest} \cup (Sessions \X Nat)]

(* A line that is whole is one entry's JSON.                               *)
Line == [leaf : Leaf, whole : BOOLEAN]

(* A seal: the cached root, the root that was signed and FinalizedChain's  *)
(* leaf_count.  A hash is no sequence of three.                            *)
NoRoot == <<"no", "root", "yet">>
NoSeal == [root |-> NoRoot, signature |-> NoRoot, count |-> 0]

Last(s) == s[Len(s)]

TypeOK ==
    /\ pc \in [Sessions -> Stages]
    /\ messages \in [Sessions -> Seq(Message)]
    /\ apis \in [Sessions -> 0..MaxApi]
    /\ calls \in [Sessions -> Nat]
    /\ turn \in [Sessions -> Nat]
    /\ prompts \in [Sessions -> Nat]
    /\ \A s \in Sessions : prompts[s] <= MaxTurns[s]
    /\ chain \in [Sessions -> Seq(Leaf)]
    /\ \A s \in Sessions : seal[s].count \in 0..Len(chain[s])
    /\ log \in Seq(Line)
    /\ open \in BOOLEAN
    /\ returned \in [Sessions -> SUBSET Nat]
    /\ tears \in 0..MaxTears
    /\ \A s \in Sessions : turn[s] <= Len(chain[s])

Init ==
    /\ pc = [s \in Sessions |-> "idle"]
    /\ messages = [s \in Sessions |-> <<>>]
    /\ apis = [s \in Sessions |-> 0]
    /\ calls = [s \in Sessions |-> 0]
    /\ turn = [s \in Sessions |-> 0]
    /\ prompts = [s \in Sessions |-> 0]
    /\ chain = [s \in Sessions |-> <<>>]
    /\ seal = [s \in Sessions |-> NoSeal]
    /\ log = <<>>
    /\ open = FALSE
    /\ returned = [s \in Sessions |-> {}]
    /\ tears = 0

-----------------------------------------------------------------------------
(* submit_message                                                          *)

Goto(s, stage) == pc' = [pc EXCEPT ![s] = stage]
Say(s, message) == messages' = [messages EXCEPT ![s] = Append(@, message)]

(* Faulty: a turn is numbered when it is asked for.                        *)
SubmitNumbered(s) ==
    /\ pc[s] = "idle"
    /\ prompts[s] < MaxTurns[s]
    /\ Goto(s, "api")
    /\ Say(s, Said(0))
    /\ apis' = [apis EXCEPT ![s] = 0]
    /\ calls' = [calls EXCEPT ![s] = 0]
    /\ turn' = [turn EXCEPT ![s] = prompts[s]]
    /\ prompts' = [prompts EXCEPT ![s] = @ + 1]
    /\ UNCHANGED <<chain, seal, log, open, returned, tears>>

(* The prompt joins the conversation, whatever the last message left; with *)
(* HPL_MAX_TURNS at 0 the model is not asked at all.                       *)
Submit(s) ==
    /\ pc[s] = "idle"
    /\ prompts[s] < MaxTurns[s]
    /\ Goto(s, IF MaxApi > 0 THEN "api" ELSE "record")
    /\ Say(s, Said(0))
    /\ apis' = [apis EXCEPT ![s] = 0]
    /\ calls' = [calls EXCEPT ![s] = 0]
    /\ prompts' = [prompts EXCEPT ![s] = @ + 1]
    /\ UNCHANGED <<turn, chain, seal, log, open, returned, tears>>

(* An answer joins the conversation; any other stop than "tool_use" ends   *)
(* the message, also one that cuts tool_use blocks off before they run.    *)
Answer(s, stop, n) ==
    /\ pc[s] = "api"
    /\ stop = "tool_use" => n > 0
    /\ Say(s, Answered(n, stop))
    /\ apis' = [apis EXCEPT ![s] = @ + 1]
    /\ Goto(s, IF stop = "tool_use" THEN "tools" ELSE "record")
    /\ UNCHANGED <<calls, turn, prompts, chain, seal, log, open, returned, tears>>

(* Faulty: the results take the place of the answer that asked for them,   *)
(* and the model calls are counted anew.                                   *)
RunToolsUncounted(s) ==
    /\ pc[s] = "tools"
    /\ calls' = [calls EXCEPT ![s] = Last(messages[s]).tools]
    /\ messages' = [messages EXCEPT ![s] = SubSeq(@, 1, Len(@) - 1)]
    /\ apis' = [apis EXCEPT ![s] = 0]
    /\ Goto(s, "api")
    /\ UNCHANGED <<turn, prompts, chain, seal, log, open, returned, tears>>

(* Faulty: the results of an answer that ends the loop are dropped.        *)
RunToolsLastDropped(s) ==
    LET n == Last(messages[s]).tools
    IN  /\ pc[s] = "tools"
        /\ calls' = [calls EXCEPT ![s] = @ + n]
        /\ IF apis[s] < MaxApi THEN Say(s, Said(n)) ELSE UNCHANGED messages
        /\ Goto(s, IF apis[s] < MaxApi THEN "api" ELSE "record")
        /\ UNCHANGED <<apis, turn, prompts, chain, seal, log, open, returned, tears>>

(* Every tool_use block of the answer is run, an exception is its result;  *)
(* all results go into one message.  The loop ends with the model calls.   *)
RunTools(s) ==
    LET n == Last(messages[s]).tools
    IN  /\ pc[s] = "tools"
        /\ calls' = [calls EXCEPT ![s] = @ + n]
        /\ Say(s, Said(n))
        /\ Goto(s, IF apis[s] < MaxApi THEN "api" ELSE "record")
        /\ UNCHANGED <<apis, turn, prompts, chain, seal, log, open, returned, tears>>

(* The conversation ends with its process.                                 *)
End(s) ==
    /\ Goto(s, "ended")
    /\ messages' = [messages EXCEPT ![s] = <<>>]
    /\ apis' = [apis EXCEPT ![s] = 0]
    /\ calls' = [calls EXCEPT ![s] = 0]

(* An exception leaves run_governed_turn: "govern" ends, another caller    *)
(* may go on with the session.                                             *)
Raise(s) ==
    \/ Goto(s, "idle") /\ UNCHANGED <<messages, apis, calls>>
    \/ End(s)

(* The model's API raises: the turn leaves no evidence of what it did.     *)
ApiFails(s) ==
    /\ pc[s] = "api"
    /\ Raise(s)
    /\ UNCHANGED <<turn, prompts, chain, seal, log, open,
                   returned, tears>>

-----------------------------------------------------------------------------
(* run_governed_turn, when the message is done                             *)

(* Faulty: the digest of the leaf before is looked up by the turn's index. *)
PrevByIndex(s) == IF turn[s] = 0 THEN NoDigest ELSE Digest(chain[s][turn[s]])

(* The digest of the last leaf of the session's own chain.                 *)
Prev(s) == IF chain[s] = <<>> THEN NoDigest ELSE Digest(Last(chain[s]))

Evidence(s) == [session |-> s, turn |-> turn[s], calls |-> calls[s],
                at |-> Len(chain[s]) + 1, prev |-> Prev(s)]

(* The leaf joins the chain, and the root of an earlier seal is dropped.   *)
Record(s) ==
    /\ pc[s] = "record"
    /\ chain' = [chain EXCEPT ![s] = Append(@, Evidence(s))]
    /\ seal' = [seal EXCEPT ![s].root = NoRoot]
    /\ Goto(s, "log")
    /\ UNCHANGED <<messages, apis, calls, turn, prompts, log, open, returned, tears>>

(* A line is put at the end of the file: behind a line without an end it   *)
(* makes one line with it, which is no entry any more.                     *)
Put(line, ended) ==
    /\ log' = IF open THEN [log EXCEPT ![Len(log)] = [leaf |-> @.leaf, whole |-> FALSE]]
              ELSE Append(log, line)
    /\ open' = ~ended

(* Faulty: the log is opened to be written anew.                           *)
LogAnew(s) ==
    /\ pc[s] = "log"
    /\ log' = <<[leaf |-> Last(chain[s]), whole |-> TRUE]>>
    /\ open' = FALSE
    /\ turn' = [turn EXCEPT ![s] = @ + 1]
    /\ returned' = [returned EXCEPT ![s] = @ \cup {Len(chain[s])}]
    /\ Goto(s, "idle")
    /\ UNCHANGED <<messages, apis, calls, prompts, chain, seal, tears>>

(* AuditLog.append: the entry is the leaf just chained; the turn returns.  *)
Log(s) ==
    /\ pc[s] = "log"
    /\ Put([leaf |-> Last(chain[s]), whole |-> TRUE], TRUE)
    /\ turn' = [turn EXCEPT ![s] = @ + 1]
    /\ returned' = [returned EXCEPT ![s] = @ \cup {Len(chain[s])}]
    /\ Goto(s, "idle")
    /\ UNCHANGED <<messages, apis, calls, prompts, chain, seal, tears>>

(* The write is cut off by a full disk or a crash: behind the entry, so    *)
(* that only its end of line is missing, or within it.                     *)
Tear(s) ==
    /\ tears < MaxTears
    /\ tears' = tears + 1
    /\ \E whole \in BOOLEAN : Put([leaf |-> Last(chain[s]), whole |-> whole], FALSE)

(* append raises, having written nothing or a part: the leaf is chained,   *)
(* the turn is not counted.                                                *)
LogFails(s) ==
    /\ pc[s] = "log"
    /\ Raise(s)
    /\ \/ Tear(s)
       \/ UNCHANGED <<log, open, tears>>
    /\ UNCHANGED <<turn, prompts, chain, seal, returned>>

-----------------------------------------------------------------------------
(* finalize_session, and the end of a process                              *)

(* Faulty: the turn that was added last is not covered.                    *)
SealAllButLast(leaves) ==
    LET covered == IF leaves = <<>> THEN leaves ELSE SubSeq(leaves, 1, Len(leaves) - 1)
    IN  [root |-> Root(covered), signature |-> Root(covered), count |-> Len(leaves)]

(* EvidenceChain.finalize: the root is computed, kept and signed.          *)
SealOf(leaves) ==
    [root |-> Root(leaves), signature |-> Root(leaves), count |-> Len(leaves)]

Finalize(s) ==
    /\ pc[s] = "idle"
    /\ seal[s].root = NoRoot
    /\ seal' = [seal EXCEPT ![s] = SealOf(chain[s])]
    /\ UNCHANGED <<agent, chain, log, open, returned, tears>>

(* The process ends: when it is done, or killed within a turn.             *)
Stop(s) ==
    /\ pc[s] # "ended"
    /\ End(s)
    /\ \/ pc[s] = "log" /\ Tear(s)
       \/ UNCHANGED <<log, open, tears>>
    /\ UNCHANGED <<turn, prompts, chain, seal, returned>>

Answers(s) ==
    \E stop \in {"tool_use", "other"}, n \in 0..MaxTools :
        Answer(s, stop, n)

(* What a turn does by itself.                                             *)
Work(s) == Answers(s) \/ RunTools(s) \/ ApiFails(s) \/ Record(s) \/ Log(s) \/ LogFails(s)

Next == \E s \in Sessions : Submit(s) \/ Work(s) \/ Finalize(s) \/ Stop(s)

Spec == Init /\ [][Next]_vars

(* The client's call returns or times out and nothing in a turn waits for  *)
(* another session, so a turn that is under way goes on; nobody has to     *)
(* submit, finalize or stop.                                               *)
FairSpec == Spec /\ \A s \in Sessions : WF_vars(Work(s))

-----------------------------------------------------------------------------
(* Verifiers                                                               *)

(* AuditLog.verify_integrity; a line that is no entry makes replay raise.  *)
LogVerifies ==
    /\ \A i \in DOMAIN log : log[i].whole
    /\ \A i \in DOMAIN log :
          log[i].leaf.prev = IF i = 1 THEN NoDigest ELSE Digest(log[i - 1].leaf)

(* EvidenceChain.verify                                                    *)
ChainVerifies(s) ==
    /\ seal[s].root # NoRoot
    /\ seal[s].root = Root(chain[s])
    /\ seal[s].signature = Root(chain[s])

-----------------------------------------------------------------------------
(* Properties                                                              *)

(* The log verifies just when it is what one session's chain begins with:  *)
(* no turn left out, none of another session, none torn.  So a log that    *)
(* two sessions wrote to never verifies, and one that a single session     *)
(* wrote without a failed write does (verify_integrity).                   *)
UnbrokenLog ==
    \/ log = <<>>
    \/ \E s \in Sessions :
          /\ Len(log) <= Len(chain[s])
          /\ \A i \in DOMAIN log : log[i].whole /\ log[i].leaf = chain[s][i]

VerifiesIffUnbroken == LogVerifies <=> UnbrokenLog

(* Turns that returned to their caller and have no readable entry.         *)
Unlogged ==
    UNION {{<<s, at>> : at \in {k \in returned[s] :
        \A i \in DOMAIN log : log[i].leaf = chain[s][k] => ~log[i].whole}} :
           s \in Sessions}

(* A write that is cut off costs at most one turn that has returned, of    *)
(* whatever session, its entry; without one no returned turn is missing    *)
(* (AuditLog.append after a torn line).                                    *)
TearsCostOneTurnEach == Cardinality(Unlogged) <= tears

(* A seal that verifies covers every entry of its session in the log, and  *)
(* a session that is sealed and has had no turn since verifies: leaf_count *)
(* is the length of the chain (finalize, append_turn, verify).             *)
SealCoversLog ==
    \A s \in Sessions :
        /\ seal[s].root # NoRoot => ChainVerifies(s) /\ seal[s].count = Len(chain[s])
        /\ ChainVerifies(s) =>
              \A i \in DOMAIN log :
                  log[i].leaf.session = s =>
                      \E k \in 1..seal[s].count : chain[s][k] = log[i].leaf

(* Whenever the model is asked, every answer before has what the API wants *)
(* behind it: the results of all its tool_use blocks if it stopped for     *)
(* them, however the loop ended and whatever failed since.  Of an answer   *)
(* that was cut off no block is run, the next prompt comes behind it: its  *)
(* blocks stay unanswered, and its alone (submit_message).                 *)
AnsweredUnlessCutOff ==
    \A s \in Sessions : pc[s] = "api" =>
        \A i \in DOMAIN messages[s] :
            messages[s][i].role = "assistant" =>
                /\ i < Len(messages[s])
                /\ messages[s][i + 1] = Said(Due(messages[s][i]))

(* A turn ends: with its evidence, an exception or the end of its process. *)
TurnsEnd == \A s \in Sessions : InTurn(s) ~> ~InTurn(s)
===============================================================================
