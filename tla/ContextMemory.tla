---------------------------- MODULE ContextMemory ----------------------------
(***************************************************************************)
(* The agent's memory (tools/hpl-agent/hpl_agent/memory) under the tool    *)
(* loop of the harness (harness/engine.py): the latest messages verbatim   *)
(* (hot), a summary of those before (warm), and a file of checkpoints, one *)
(* per line (cold), that outlives the process.                             *)
(*                                                                         *)
(* A message is its kind, its place in the conversation and its size in    *)
(* tokens.  A summary is the set of messages that the summarizer was shown *)
(* or that a summary it was shown was made from; what the model makes of   *)
(* them is left open.  Tool results are never shown to it.                 *)
(***************************************************************************)
EXTENDS Naturals, Sequences, FiniteSets, Functions

CONSTANTS
    Hot,          \* HOT_MESSAGES
    Every,        \* CHECKPOINT_EVERY_N_TURNS
    Available,    \* AVAILABLE_INPUT_TOKENS
    System,       \* tokens of the system prompt
    Sizes,        \* tokens of a message
    WarmSize,     \* tokens of a summary
    MaxMessages,  \* bound: messages of a conversation
    MaxSaves      \* bound: lines of the file

ASSUME ConstantsOK ==
    /\ {Hot, Every, Available} \subseteq Nat \ {0}
    /\ {System, WarmSize, MaxMessages, MaxSaves} \subseteq Nat
    /\ Sizes \subseteq Nat

VARIABLES
    pc,        \* where submit_message stands
    client,    \* a client is given to ContextManager.create, to summarize with
    messages,  \* ContextManager.messages
    warm,      \* ContextManager.warm_state
    turn,      \* ContextManager.turn_index
    cold,      \* the lines of the checkpoint file
    open,      \* its last line has no end
    history,   \* for the properties: kinds of all messages of this process
    lost,      \* for the properties: messages that a lapse of the summarizer
               \* left out of the summary
    missed     \* for the properties: a checkpoint that was due is not there

memory == <<messages, warm, turn>>
ghosts == <<history, lost, missed>>
vars == <<pc, client, memory, cold, open, ghosts>>

Users == {"prompt", "result", "warm"}
Assistants == {"answer", "call", "ack"}

Entry(kind, id, size) == [kind |-> kind, id |-> id, size |-> size]
Ack == Entry("ack", 0, 0)

(* CompressedState: made by the model, taken from the texts or empty.      *)
State(how, covers) == [how |-> how, covers |-> covers]
NoState == State("none", {})

TypeOK ==
    /\ pc \in {"idle", "ask", "call", "tools", "ended", "failed"}
    /\ \A i \in DOMAIN messages :
          /\ messages[i].kind \in Users \cup Assistants
          /\ messages[i].id \in 0..Len(history)
          /\ messages[i].size \in Sizes \cup {0, WarmSize}
          /\ messages[i].id = 0 <=> messages[i].kind \in {"warm", "ack"}
    /\ warm.how \in {"none", "summary", "extract", "failed"}
    /\ warm.covers \subseteq 1..Len(history)
    /\ warm # NoState <=> messages # <<>> /\ messages[1].kind = "warm"
    /\ turn \in 0..Len(history)
    /\ Len(cold) <= MaxSaves
    /\ open \in BOOLEAN
    /\ missed \in BOOLEAN

Init ==
    /\ pc = "idle"
    /\ client \in BOOLEAN
    /\ messages = <<>>
    /\ warm = NoState
    /\ turn = 0
    /\ cold = <<>>
    /\ open = FALSE
    /\ history = <<>>
    /\ lost = {}
    /\ missed = FALSE

-----------------------------------------------------------------------------
(* ContextCompressor                                                       *)

Tokens(ms) == FoldFunction(+, 0, [i \in DOMAIN ms |-> ms[i].size])

(* TokenBudget.needs_compression: more than 80 % of what is available.     *)
NeedsCompression(system, ms) == 5 * (system + Tokens(ms)) > 4 * Available

Ids(ms, kinds) == {ms[i].id : i \in {k \in DOMAIN ms : ms[k].kind \in kinds}}

(* Faulty: what was summarized before is not merged.                       *)
SummaryAnew(older) == State("summary", Ids(older, {"prompt", "answer", "call"}))

(* The texts of the messages and the state so far, or the block made of    *)
(* it, go into the prompt of the summarizer.                               *)
Summary(older) ==
    State("summary", Ids(older, {"prompt", "answer", "call"}) \cup warm.covers)

(* Without a summarizer: the first three and the last of the contents that *)
(* are plain strings, each cut short, so an older block keeps its goal.    *)
Shown(older) ==
    LET texts == {i \in DOMAIN older : older[i].kind \in {"prompt", "warm", "ack"}}
    IN  {i \in texts : \/ Cardinality({k \in texts : k < i}) < 3
                       \/ \A k \in texts : k <= i}

Extract(older) == State("extract", {older[i].id : i \in Shown(older)} \ {0})

(* The call of the summarizer may fail or return no JSON.                  *)
Summaries(older) ==
    IF client THEN {Summary(older), State("failed", {})} ELSE {Extract(older)}

(* Faulty: one message more is taken for old than is summarized.           *)
CompressedShort(ms, state) ==
    <<Entry("warm", 0, WarmSize), Ack>> \o SubSeq(ms, Len(ms) - Hot + 2, Len(ms))

(* The block of the state, an ack, and the last messages verbatim.         *)
Compressed(ms, state) ==
    <<Entry("warm", 0, WarmSize), Ack>> \o SubSeq(ms, Len(ms) - Hot + 1, Len(ms))

(* Faulty: the new state is shown to the model and not kept.              *)
ManagedForgets(system, ms, turned) ==
    IF NeedsCompression(system, ms) /\ Len(ms) > Hot
    THEN \E state \in Summaries(SubSeq(ms, 1, Len(ms) - Hot)) :
            /\ messages' = Compressed(ms, state)
            /\ lost' = 1..(Len(turned) - Hot)
            /\ UNCHANGED warm
    ELSE messages' = ms /\ UNCHANGED <<warm, lost>>

(* compress, when it is due: one time only, whatever is left.  turned is   *)
(* the conversation with the message under way.                            *)
Managed(system, ms, turned) ==
    IF NeedsCompression(system, ms) /\ Len(ms) > Hot
    THEN \E state \in Summaries(SubSeq(ms, 1, Len(ms) - Hot)) :
            /\ warm' = state
            /\ messages' = Compressed(ms, state)
            /\ lost' = IF state.how = "summary" THEN lost ELSE 1..(Len(turned) - Hot)
    ELSE messages' = ms /\ UNCHANGED <<warm, lost>>

-----------------------------------------------------------------------------
(* ColdMemoryStore                                                         *)

(* Faulty: the first messages are kept for the last.                       *)
CheckpointOfFirst(state, ms, at) ==
    [turn |-> at, warm |-> state, whole |-> TRUE,
     hot |-> SubSeq(ms, 1, IF Len(ms) < Hot THEN Len(ms) ELSE Hot)]

Checkpoint(state, ms, at) ==
    [turn |-> at, warm |-> state, whole |-> TRUE,
     hot |-> IF Len(ms) < Hot THEN ms ELSE SubSeq(ms, Len(ms) - Hot + 1, Len(ms))]

(* A line that is no checkpoint.                                           *)
Broken == [whole |-> FALSE]

(* A line is put at the end of the file; behind a line without an end it   *)
(* makes one line with it, which is no checkpoint any more.                *)
Put(line, ended) ==
    /\ cold' = IF open THEN [cold EXCEPT ![Len(cold)] = Broken]
               ELSE Append(cold, line)
    /\ open' = ~ended

Save(line) == Put(line, TRUE)

(* The write fails, having written nothing or a part, or all of the line   *)
(* but its end.                                                            *)
SaveFails(line) ==
    \/ UNCHANGED <<cold, open>>
    \/ \E part \in {line, Broken} : Put(part, FALSE)

-----------------------------------------------------------------------------
(* ContextManager under submit_message                                     *)

Goto(stage) == pc' = stage

(* A user's message: a prompt, or the results of the tools.                *)
Add(kind, size) ==
    /\ Len(history) < MaxMessages
    /\ messages' = Append(messages, Entry(kind, Len(history) + 1, size))
    /\ history' = Append(history, kind)
    /\ UNCHANGED <<client, warm, turn, cold, open, lost, missed>>

Prompt(size) == pc = "idle" /\ Add("prompt", size) /\ Goto("ask")

(* The results of tools, or none are asked for because the loop is over.   *)
Results(size) ==
    /\ pc = "tools"
    /\ Add("result", size)
    /\ \E stage \in {"ask", "idle"} : Goto(stage)

(* get_messages                                                            *)
GetMessages ==
    /\ pc = "ask"
    /\ Managed(System, messages, history)
    /\ Goto("call")
    /\ UNCHANGED <<client, turn, cold, open, history, missed>>

Due(at) == at % Every = 0

(* add_assistant_turn: counts, compresses without regard to the system     *)
(* prompt, and saves a checkpoint if it is due.  A save that raises leaves *)
(* the message; the process goes on with another or ends.                  *)
Answer(kind, size) ==
    LET turned == Append(history, kind)
        added == Append(messages, Entry(kind, Len(turned), size))
        line == Checkpoint(warm', messages', turn')
    IN  /\ pc = "call"
        /\ Len(history) < MaxMessages
        /\ history' = turned
        /\ turn' = turn + 1
        /\ Managed(0, added, turned)
        /\ UNCHANGED client
        /\ \/ /\ Due(turn') => Len(cold) < MaxSaves /\ Save(line)
              /\ ~Due(turn') => UNCHANGED <<cold, open>>
              /\ Goto(IF kind = "call" THEN "tools" ELSE "idle")
              /\ UNCHANGED missed
           \/ /\ Due(turn')
              /\ Len(cold) < MaxSaves
              /\ SaveFails(line)
              /\ Goto("idle")
              /\ missed' = TRUE

(* A summary whose lists are no lists: making its block raises, outside of *)
(* the try of _summarize.                                                  *)
Unformed(system, ms) == client /\ NeedsCompression(system, ms) /\ Len(ms) > Hot

(* add_assistant_turn raises so: the turn is counted, nothing is           *)
(* compressed and a checkpoint that is due is passed over.                 *)
AnswerRaises(kind, size) ==
    LET turned == Append(history, kind)
        added == Append(messages, Entry(kind, Len(turned), size))
    IN  /\ pc = "call"
        /\ Len(history) < MaxMessages
        /\ Unformed(0, added)
        /\ history' = turned
        /\ turn' = turn + 1
        /\ messages' = added
        /\ missed' = (missed \/ Due(turn'))
        /\ Goto("idle")
        /\ UNCHANGED <<client, warm, cold, open, lost>>

(* The API raises, or get_messages: the prompt stays the last message.     *)
ApiFails ==
    /\ \/ pc = "call"
       \/ pc = "ask" /\ Unformed(System, messages)
    /\ Goto("idle")
    /\ UNCHANGED <<client, memory, cold, open, ghosts>>

(* force_checkpoint                                                        *)
ForceCheckpoint ==
    LET line == Checkpoint(warm, messages, turn)
    IN  /\ pc = "idle"
        /\ Len(cold) < MaxSaves
        /\ \/ Save(line) /\ UNCHANGED missed
           \/ SaveFails(line) /\ missed' = TRUE
        /\ UNCHANGED <<pc, client, memory, history, lost>>

(* The process ends, and its messages with it.                             *)
Stop ==
    /\ pc \notin {"ended", "failed"}
    /\ Goto("ended")
    /\ messages' = <<>>
    /\ warm' = NoState
    /\ turn' = 0
    /\ history' = <<>>
    /\ lost' = {}
    /\ missed' = FALSE
    /\ UNCHANGED <<client, cold, open>>

(* ContextManager.create for the session: with a line in the file it       *)
(* raises, as the line is no checkpoint or as its state is handed on as    *)
(* text where a record is expected.                                        *)
Create ==
    /\ pc = "ended"
    /\ Goto(IF cold = <<>> THEN "idle" ELSE "failed")
    /\ client' \in BOOLEAN
    /\ UNCHANGED <<memory, cold, open, ghosts>>

Next ==
    \/ \E size \in Sizes : Prompt(size) \/ Results(size)
    \/ \E kind \in {"answer", "call"}, size \in Sizes :
           Answer(kind, size) \/ AnswerRaises(kind, size)
    \/ GetMessages
    \/ ApiFails
    \/ ForceCheckpoint
    \/ Stop
    \/ Create

Spec == Init /\ [][Next]_vars

-----------------------------------------------------------------------------
(* Properties                                                              *)

Running == pc \notin {"ended", "failed"}

(* The messages with which a part of the conversation ends, verbatim.      *)
EndsAt(entries, at) ==
    \A i \in DOMAIN entries :
        /\ entries[i].id = at - Len(entries) + i
        /\ entries[i].kind = history[entries[i].id]

(* However often it was compressed, the conversation the model is given is *)
(* the real one, or a block and its ack before the real one's end, and     *)
(* that end has HOT_MESSAGES at least: none is dropped, doubled or out of  *)
(* place, over failed calls and saves (compress, get_messages).            *)
TailIsVerbatim ==
    LET tail == IF warm = NoState THEN messages ELSE SubSeq(messages, 3, Len(messages))
    IN  /\ EndsAt(tail, Len(history))
        /\ warm # NoState =>
              /\ Len(messages) >= 2
              /\ messages[1] = Entry("warm", 0, WarmSize)
              /\ messages[2] = Ack
        /\ Len(tail) >= Hot \/ Len(tail) = Len(history)

(* A text that is verbatim no more is in the summary, through any number   *)
(* of summaries of summaries, but for what a summarizer that failed or was *)
(* not there has left out (_summarize).                                    *)
SummariesAccumulate ==
    \A id \in DOMAIN history :
        history[id] # "result" /\ id \notin lost =>
            id \in warm.covers \/ \E i \in DOMAIN messages : messages[i].id = id

(* The turns of the assistant among the first messages of a conversation.  *)
TurnsBy(said, at) == Cardinality({i \in 1..at : said[i] \in Assistants})

(* While the process runs and no save has failed or was passed over by an  *)
(* exception, the file ends in a checkpoint of fewer than                  *)
(* CHECKPOINT_EVERY_N_TURNS turns ago, and its messages are those the      *)
(* conversation ended with at that turn (add_assistant_turn, _checkpoint). *)
CheckpointsKeepUp ==
    Running /\ ~missed /\ turn >= Every =>
        LET last == cold[Len(cold)]
        IN  /\ cold # <<>>
            /\ last.whole
            /\ turn - last.turn < Every
            /\ \E at \in DOMAIN history :
                  /\ Len(last.hot) = IF at < Hot THEN at ELSE Hot
                  /\ EndsAt(last.hot, at)
                  /\ TurnsBy(history, at) = last.turn

(* A session whose file ends in a whole checkpoint is restored (manager.py *)
(* create: try to restore from cold storage).                              *)
RestoreSucceeds ==
    pc = "failed" => ~cold[Len(cold)].whole
===============================================================================
