------------------------ MODULE GovernedSessionProofs ------------------------
(* The invariants of GovernedSession, proved for any set of sessions, any   *)
(* number of turns, model calls, tools and writes that are cut off.         *)
EXTENDS GovernedSession, FiniteSetTheorems, TLAPS

(* A seal is a record of three parts.                                       *)
SealShape ==
    /\ seal = [s \in Sessions |-> seal[s]]
    /\ \A s \in Sessions :
          seal[s] = [root |-> seal[s].root, signature |-> seal[s].signature,
                     count |-> seal[s].count]

(* What stands behind an answer once the session goes on from stage: the    *)
(* results that are due or the next prompt.  Nothing stands behind the last *)
(* message; if that is an answer that stopped for its tools, they run.      *)
Followed(talk, stage) ==
    \A i \in 1..Len(talk) :
        talk[i].role = "assistant" =>
            \/ i < Len(talk) /\ talk[i + 1] = Said(Due(talk[i]))
            \/ /\ i = Len(talk) /\ stage # "api"
               /\ talk[i].stop = "tool_use" => stage = "tools"

(* The conversation of every session.                                       *)
TalkInv ==
    \A s \in Sessions :
        /\ pc[s] = "api" => apis[s] < MaxApi
        /\ pc[s] = "tools" =>
              messages[s] # <<>> /\ Last(messages[s]).stop = "tool_use"
        /\ pc[s] = "log" => turn[s] < Len(chain[s])
        /\ Followed(messages[s], pc[s])

(* A leaf knows its session, its place and the leaf before.                 *)
ChainInv ==
    \A s \in Sessions : \A k \in 1..Len(chain[s]) :
        /\ chain[s][k].session = s
        /\ chain[s][k].at = k
        /\ chain[s][k].prev = IF k = 1 THEN NoDigest ELSE <<s, k - 1>>

(* A seal that has a root is the seal of the chain as it is.                *)
SealInv == \A s \in Sessions : seal[s].root # NoRoot => seal[s] = SealOf(chain[s])

(* What is in the log was chained, and before the leaf that is being        *)
(* written; a turn that has not returned is the last of the log while that  *)
(* has no end.                                                              *)
LogInv ==
    /\ \A i \in 1..Len(log) :
          /\ log[i].leaf.at \in 1..Len(chain[log[i].leaf.session])
          /\ log[i].leaf = chain[log[i].leaf.session][log[i].leaf.at]
    /\ \A s \in Sessions :
          /\ returned[s] \subseteq 1..Len(chain[s])
          /\ pc[s] = "log" =>
                /\ Len(chain[s]) > 0
                /\ Len(chain[s]) \notin returned[s]
                /\ \A i \in 1..Len(log) :
                      log[i].leaf.session = s => log[i].leaf.at < Len(chain[s])
    /\ open => /\ Len(log) > 0
               /\ log[Len(log)].leaf.at \notin returned[log[Len(log)].leaf.session]

(* A line without an end has cost nothing yet: it is the next entry that    *)
(* will be lost.                                                            *)
TearInv ==
    /\ IsFiniteSet(Unlogged)
    /\ Cardinality(Unlogged) + (IF open THEN 1 ELSE 0) <= tears

VerifyInv == LogVerifies => UnbrokenLog

IInv ==
    /\ TypeOK /\ SealShape /\ TalkInv
    /\ ChainInv /\ SealInv /\ LogInv
    /\ TearInv /\ VerifyInv

(* What a line of the log holds.                                            *)
LEMMA LogLeaf ==
    ASSUME TypeOK, NEW i \in 1..Len(log)
    PROVE  /\ log[i] \in Line /\ log[i].leaf \in Leaf
           /\ log[i].leaf.session \in Sessions
           /\ log[i].leaf.at \in Nat
<1>1. log[i] \in Line
  BY DEF TypeOK
<1>2. log[i].leaf \in Leaf
  BY <1>1 DEF Line
<1> QED BY <1>1, <1>2 DEF Leaf

LEMMA InitIInv == Init => IInv
<1> SUFFICES ASSUME Init PROVE IInv
  OBVIOUS
<1>1. TypeOK
  <2>1. /\ pc \in [Sessions -> Stages]
        /\ messages \in [Sessions -> Seq(Message)]
        /\ apis \in [Sessions -> 0..MaxApi]
        /\ calls \in [Sessions -> Nat]
        /\ turn \in [Sessions -> Nat]
    BY ConstantsOK DEF Init, Stages
  <2>2. /\ prompts \in [Sessions -> Nat]
        /\ \A s \in Sessions : prompts[s] <= MaxTurns[s]
        /\ chain \in [Sessions -> Seq(Leaf)]
        /\ \A s \in Sessions : seal[s].count \in 0..Len(chain[s])
        /\ \A s \in Sessions : turn[s] <= Len(chain[s])
    BY ConstantsOK DEF Init, NoSeal
  <2>3. /\ log \in Seq(Line)
        /\ returned \in [Sessions -> SUBSET Nat]
    BY DEF Init
  <2>4. tears \in 0..MaxTears
    BY ConstantsOK DEF Init
  <2>5. open \in BOOLEAN
    BY DEF Init
  <2> QED BY <2>1, <2>2, <2>3, <2>4, <2>5 DEF TypeOK
<1>2. SealShape /\ TalkInv /\ ChainInv /\ SealInv
  BY DEF Init, SealShape, TalkInv, Followed, ChainInv, SealInv, NoSeal
<1>3. LogInv /\ VerifyInv
  BY DEF Init, LogInv, VerifyInv, UnbrokenLog
<1>4. TearInv
  <2>1. Unlogged = {}
    BY DEF Init, Unlogged
  <2> QED BY <2>1, FS_EmptySet DEF TearInv, Init
<1> QED BY <1>1, <1>2, <1>3, <1>4 DEF IInv

-----------------------------------------------------------------------------
(* The conversation                                                         *)

(* A user's message joins the conversation: it is what was due.             *)
LEMMA SaidFollows ==
    ASSUME NEW talk \in Seq(Message), NEW stage, NEW next, NEW n \in Nat,
           Followed(talk, stage), stage # "api",
           stage = "tools" =>
              /\ talk # <<>> /\ Last(talk).stop = "tool_use"
              /\ n = Last(talk).tools,
           stage # "tools" => n = 0
    PROVE  Followed(Append(talk, Said(n)), next)
<1> DEFINE more == Append(talk, Said(n))
<1>1. /\ Len(talk) \in Nat /\ Len(more) = Len(talk) + 1
      /\ \A i \in 1..Len(talk) : more[i] = talk[i]
      /\ more[Len(talk) + 1] = Said(n)
  OBVIOUS
<1> HIDE DEF more
<1> SUFFICES ASSUME NEW i \in 1..Len(more), more[i].role = "assistant"
             PROVE  i < Len(more) /\ more[i + 1] = Said(Due(more[i]))
  BY DEF Followed, more
<1>2. i # Len(talk) + 1
  <2>1. Said(n).role = "user"
    BY DEF Said
  <2> QED BY <1>1, <2>1
<1>3. i \in 1..Len(talk) /\ more[i] = talk[i] /\ talk[i].role = "assistant"
  BY <1>1, <1>2
<1>4. CASE i < Len(talk)
  <2>1. talk[i + 1] = Said(Due(talk[i]))
    BY <1>3, <1>4 DEF Followed
  <2> QED BY <1>1, <1>3, <1>4, <2>1
<1>5. CASE i = Len(talk)
  <2>1. talk[i].stop = "tool_use" <=> stage = "tools"
    BY <1>1, <1>3, <1>5 DEF Followed, Last
  <2>2. n = Due(talk[i])
    BY <1>5, <2>1 DEF Due, Last
  <2> QED BY <1>1, <1>3, <1>5, <2>2
<1> QED BY <1>1, <1>3, <1>4, <1>5

(* What stays when only the conversation moves, as long as no session comes *)
(* to write its entry.                                                      *)
LEMMA TalkKeepsTheRest ==
    ASSUME IInv, UNCHANGED <<chain, seal, log, open, returned, tears>>,
           \A s \in Sessions : pc'[s] = "log" => pc[s] = "log"
    PROVE  SealShape' /\ ChainInv' /\ SealInv' /\ LogInv' /\ TearInv' /\ VerifyInv'
<1> USE DEF IInv
<1>1. SealShape' /\ ChainInv' /\ SealInv'
  BY DEF SealShape, ChainInv, SealInv
<1>2. LogInv'
  BY DEF LogInv
<1>3. Unlogged' = Unlogged
  BY DEF Unlogged
<1>4. TearInv' /\ VerifyInv'
  BY <1>3 DEF TearInv, VerifyInv, LogVerifies, UnbrokenLog
<1> QED BY <1>1, <1>2, <1>4

LEMMA SubmitIInv == ASSUME IInv, NEW s \in Sessions, Submit(s) PROVE IInv'
<1> USE DEF IInv
<1> DEFINE next == IF MaxApi > 0 THEN "api" ELSE "record"
<1>1. /\ pc[s] = "idle" /\ pc' = [pc EXCEPT ![s] = next]
      /\ messages' = [messages EXCEPT ![s] = Append(@, Said(0))]
      /\ apis' = [apis EXCEPT ![s] = 0]
      /\ Said(0) \in Message
      /\ next \in {"api", "record"}
      /\ next = "api" => 0 < MaxApi
  BY ConstantsOK DEF Submit, Goto, Say, Said, Message
<1> HIDE DEF next
<1>2. TypeOK'
  <2>1. /\ pc' \in [Sessions -> Stages]
        /\ messages' \in [Sessions -> Seq(Message)]
    BY <1>1 DEF TypeOK, Stages
  <2>2. apis' \in [Sessions -> 0..MaxApi] /\ calls' \in [Sessions -> Nat]
    BY ConstantsOK DEF Submit, TypeOK
  <2>3. /\ prompts' = [prompts EXCEPT ![s] = @ + 1]
        /\ prompts[s] < MaxTurns[s]
        /\ \A t \in Sessions :
              prompts[t] \in Nat /\ MaxTurns[t] \in Nat /\ prompts[t] <= MaxTurns[t]
    BY ConstantsOK DEF Submit, TypeOK
  <2>4. prompts' \in [Sessions -> Nat] /\ \A t \in Sessions : prompts'[t] <= MaxTurns[t]
    BY <2>3 DEF TypeOK
  <2> QED BY <2>1, <2>2, <2>4 DEF Submit, TypeOK
<1>3. TalkInv'
  <2> SUFFICES ASSUME NEW t \in Sessions
               PROVE  /\ pc'[t] = "api" => apis'[t] < MaxApi
                      /\ pc'[t] = "tools" =>
                            /\ messages'[t] # <<>>
                            /\ Last(messages'[t]).stop = "tool_use"
                      /\ pc'[t] = "log" => turn'[t] < Len(chain'[t])
                      /\ Followed(messages'[t], pc'[t])
    BY DEF TalkInv
  <2>1. CASE t # s
    BY <1>1, <2>1 DEF Submit, TypeOK, TalkInv
  <2>2. CASE t = s
    <3>1. /\ pc'[s] = next /\ pc'[s] \in {"api", "record"}
          /\ messages[s] \in Seq(Message)
          /\ messages'[s] = Append(messages[s], Said(0))
          /\ apis'[s] = 0
      BY <1>1 DEF TypeOK
    <3>2. Followed(messages[s], "idle")
      BY <1>1 DEF TalkInv
    <3>3. Followed(messages'[s], next)
      BY <3>1, <3>2, SaidFollows
    <3> QED BY <1>1, <2>2, <3>1, <3>3
  <2> QED BY <2>1, <2>2
<1>4. SealShape' /\ ChainInv' /\ SealInv' /\ LogInv' /\ TearInv' /\ VerifyInv'
  <2>1. \A t \in Sessions : pc'[t] = "log" => pc[t] = "log"
    BY <1>1 DEF TypeOK
  <2> QED BY <2>1, TalkKeepsTheRest DEF Submit
<1> QED BY <1>2, <1>3, <1>4

LEMMA AnswerIInv ==
    ASSUME IInv, NEW s \in Sessions, NEW stop \in {"tool_use", "other"},
           NEW n \in Nat, Answer(s, stop, n)
    PROVE  IInv'
<1> USE DEF IInv
<1> DEFINE next == IF stop = "tool_use" THEN "tools" ELSE "record"
<1>1. /\ pc[s] = "api" /\ pc' = [pc EXCEPT ![s] = next]
      /\ messages' = [messages EXCEPT ![s] = Append(@, Answered(n, stop))]
      /\ apis' = [apis EXCEPT ![s] = @ + 1]
      /\ next \in {"tools", "record"}
  BY DEF Answer, Goto, Say
<1>2. Answered(n, stop) \in Message /\ Answered(n, stop).stop = stop
  BY DEF Answered, Message
<1> HIDE DEF next
<1>3. TypeOK'
  <2>1. pc' \in [Sessions -> Stages] /\ messages' \in [Sessions -> Seq(Message)]
    BY <1>1, <1>2 DEF TypeOK, Stages
  <2>2. apis[s] \in 0..MaxApi /\ apis[s] < MaxApi
    BY <1>1 DEF TypeOK, TalkInv
  <2>3. apis[s] + 1 \in 0..MaxApi
    BY <2>2, ConstantsOK
  <2>4. apis' \in [Sessions -> 0..MaxApi]
    BY <1>1, <2>3 DEF TypeOK
  <2> QED BY <2>1, <2>4 DEF Answer, TypeOK
<1>4. TalkInv'
  <2> SUFFICES ASSUME NEW t \in Sessions
               PROVE  /\ pc'[t] = "api" => apis'[t] < MaxApi
                      /\ pc'[t] = "tools" =>
                            /\ messages'[t] # <<>>
                            /\ Last(messages'[t]).stop = "tool_use"
                      /\ pc'[t] = "log" => turn'[t] < Len(chain'[t])
                      /\ Followed(messages'[t], pc'[t])
    BY DEF TalkInv
  <2>1. CASE t # s
    BY <1>1, <2>1 DEF Answer, TypeOK, TalkInv
  <2>2. CASE t = s
    <3>1. /\ pc'[s] = next /\ pc'[s] \in {"tools", "record"}
          /\ messages[s] \in Seq(Message)
          /\ messages'[s] = Append(messages[s], Answered(n, stop))
      BY <1>1 DEF TypeOK
    <3>2. /\ messages'[s] # <<>>
          /\ Last(messages'[s]) = Answered(n, stop)
      BY <1>2, <3>1 DEF Last
    <3>3. Followed(messages'[s], next)
      <4> SUFFICES ASSUME NEW i \in 1..Len(messages'[s]),
                          messages'[s][i].role = "assistant"
                   PROVE  \/ i < Len(messages'[s])
                             /\ messages'[s][i + 1] = Said(Due(messages'[s][i]))
                          \/ /\ i = Len(messages'[s]) /\ next # "api"
                             /\ messages'[s][i].stop = "tool_use" => next = "tools"
        BY DEF Followed
      <4>1. CASE i = Len(messages'[s])
        <5>1. messages'[s][i] = Answered(n, stop)
          BY <3>1, <4>1
        <5> QED BY <1>1, <1>2, <4>1, <5>1 DEF next
      <4>2. CASE i # Len(messages'[s])
        <5>1. i \in 1..Len(messages[s]) /\ messages'[s][i] = messages[s][i]
          BY <3>1, <4>2
        <5>2. Followed(messages[s], "api")
          BY <1>1 DEF TalkInv
        <5>3. i < Len(messages[s]) /\ messages[s][i + 1] = Said(Due(messages[s][i]))
          BY <5>1, <5>2 DEF Followed
        <5> QED BY <3>1, <5>1, <5>3
      <4> QED BY <4>1, <4>2
    <3>4. next = "tools" => stop = "tool_use"
      BY DEF next
    <3> QED BY <1>1, <1>2, <2>2, <3>1, <3>2, <3>3, <3>4
  <2> QED BY <2>1, <2>2
<1>5. SealShape' /\ ChainInv' /\ SealInv' /\ LogInv' /\ TearInv' /\ VerifyInv'
  <2>1. \A t \in Sessions : pc'[t] = "log" => pc[t] = "log"
    BY <1>1 DEF TypeOK
  <2> QED BY <2>1, TalkKeepsTheRest DEF Answer
<1> QED BY <1>3, <1>4, <1>5

LEMMA RunToolsIInv == ASSUME IInv, NEW s \in Sessions, RunTools(s) PROVE IInv'
<1> USE DEF IInv
<1> DEFINE n == Last(messages[s]).tools
           next == IF apis[s] < MaxApi THEN "api" ELSE "record"
<1>1. /\ pc[s] = "tools" /\ pc' = [pc EXCEPT ![s] = next]
      /\ messages' = [messages EXCEPT ![s] = Append(@, Said(n))]
      /\ calls' = [calls EXCEPT ![s] = @ + n]
      /\ next \in {"api", "record"}
      /\ UNCHANGED apis
  BY DEF RunTools, Goto, Say
<1>2. /\ messages[s] \in Seq(Message) /\ messages[s] # <<>>
      /\ Last(messages[s]) = messages[s][Len(messages[s])]
  BY <1>1 DEF TalkInv, TypeOK, Last
<1>3. Last(messages[s]) \in Message
  BY <1>2
<1>4. n \in Nat /\ Said(n) \in Message
  BY <1>3 DEF Message, Said
<1>5. n = Last(messages[s]).tools
  OBVIOUS
<1>6. next = "api" => apis[s] < MaxApi
  OBVIOUS
<1> HIDE DEF next, n
<1>7. TypeOK'
  <2>1. pc' \in [Sessions -> Stages] /\ messages' \in [Sessions -> Seq(Message)]
    BY <1>1, <1>4 DEF TypeOK, Stages
  <2>2. calls' \in [Sessions -> Nat]
    BY <1>1, <1>4 DEF TypeOK
  <2> QED BY <2>1, <2>2 DEF RunTools, TypeOK
<1>8. TalkInv'
  <2> SUFFICES ASSUME NEW t \in Sessions
               PROVE  /\ pc'[t] = "api" => apis'[t] < MaxApi
                      /\ pc'[t] = "tools" =>
                            /\ messages'[t] # <<>>
                            /\ Last(messages'[t]).stop = "tool_use"
                      /\ pc'[t] = "log" => turn'[t] < Len(chain'[t])
                      /\ Followed(messages'[t], pc'[t])
    BY DEF TalkInv
  <2>1. CASE t # s
    BY <1>1, <2>1 DEF RunTools, TypeOK, TalkInv
  <2>2. CASE t = s
    <3>1. /\ pc'[s] = next /\ pc'[s] \in {"api", "record"}
          /\ messages'[s] = Append(messages[s], Said(n))
      BY <1>1 DEF TypeOK
    <3>2. pc'[s] = "api" => apis'[s] < MaxApi
      BY <1>1, <1>6, <3>1
    <3>3. Followed(messages[s], "tools") /\ Last(messages[s]).stop = "tool_use"
      BY <1>1 DEF TalkInv
    <3>4. Followed(messages'[s], next)
      BY <1>2, <1>4, <1>5, <3>1, <3>3, SaidFollows
    <3> QED BY <2>2, <3>1, <3>2, <3>4
  <2> QED BY <2>1, <2>2
<1>9. SealShape' /\ ChainInv' /\ SealInv' /\ LogInv' /\ TearInv' /\ VerifyInv'
  <2>1. \A t \in Sessions : pc'[t] = "log" => pc[t] = "log"
    BY <1>1 DEF TypeOK
  <2> QED BY <2>1, TalkKeepsTheRest DEF RunTools
<1> QED BY <1>7, <1>8, <1>9

(* A session leaves its turn, for another one or for good.                  *)
LEMMA RaiseTalk ==
    ASSUME IInv, NEW s \in Sessions, Raise(s),
           pc[s] \in {"api", "log"} \/ End(s),
           UNCHANGED chain, \A t \in Sessions : t # s => turn'[t] = turn[t]
    PROVE  /\ pc' \in [Sessions -> Stages]
           /\ messages' \in [Sessions -> Seq(Message)]
           /\ apis' \in [Sessions -> 0..MaxApi]
           /\ calls' \in [Sessions -> Nat]
           /\ \A t \in Sessions : pc'[t] = "log" => pc[t] = "log" /\ t # s
           /\ TalkInv'
<1> USE DEF IInv
<1>1. \E stage \in {"idle", "ended"} : pc' = [pc EXCEPT ![s] = stage]
  BY DEF Raise, Goto, End
<1>2. \/ UNCHANGED <<messages, apis, calls>> /\ pc[s] \in {"api", "log"}
      \/ /\ messages' = [messages EXCEPT ![s] = <<>>]
         /\ apis' = [apis EXCEPT ![s] = 0]
         /\ calls' = [calls EXCEPT ![s] = 0]
  BY DEF Raise, End
<1>3. /\ pc' \in [Sessions -> Stages] /\ pc'[s] \in {"idle", "ended"}
      /\ \A t \in Sessions : t # s => pc'[t] = pc[t]
  BY <1>1 DEF TypeOK, Stages
<1>4. messages' \in [Sessions -> Seq(Message)] /\ calls' \in [Sessions -> Nat]
  <2>1. /\ messages \in [Sessions -> Seq(Message)] /\ calls \in [Sessions -> Nat]
        /\ <<>> \in Seq(Message)
    BY DEF TypeOK
  <2>2. CASE UNCHANGED <<messages, apis, calls>>
    BY <2>1, <2>2
  <2>3. CASE messages' = [messages EXCEPT ![s] = <<>>] /\ calls' = [calls EXCEPT ![s] = 0]
    BY <2>1, <2>3
  <2> QED BY <1>2, <2>2, <2>3
<1>5. apis' \in [Sessions -> 0..MaxApi]
  <2>1. apis \in [Sessions -> 0..MaxApi] /\ 0 \in 0..MaxApi
    BY ConstantsOK DEF TypeOK
  <2>2. CASE UNCHANGED <<messages, apis, calls>>
    BY <2>1, <2>2
  <2>3. CASE apis' = [apis EXCEPT ![s] = 0]
    BY <2>1, <2>3
  <2> QED BY <1>2, <2>2, <2>3
<1>6. \A t \in Sessions : t # s => messages'[t] = messages[t] /\ apis'[t] = apis[t]
  BY <1>2 DEF TypeOK
<1>7. messages'[s] = <<>> \/ (messages'[s] = messages[s] /\ pc[s] \in {"api", "log"})
  BY <1>2 DEF TypeOK
<1>8. TalkInv'
  <2> SUFFICES ASSUME NEW t \in Sessions
               PROVE  /\ pc'[t] = "api" => apis'[t] < MaxApi
                      /\ pc'[t] = "tools" =>
                            /\ messages'[t] # <<>>
                            /\ Last(messages'[t]).stop = "tool_use"
                      /\ pc'[t] = "log" => turn'[t] < Len(chain'[t])
                      /\ Followed(messages'[t], pc'[t])
    BY DEF TalkInv
  <2>1. CASE t # s
    BY <1>3, <1>6, <2>1 DEF TalkInv
  <2>2. CASE t = s
    <3>1. CASE messages'[s] = <<>>
      <4>1. Followed(<<>>, pc'[s])
        BY DEF Followed
      <4> QED BY <1>3, <2>2, <3>1, <4>1
    <3>2. CASE messages'[s] = messages[s] /\ pc[s] \in {"api", "log"}
      <4>1. Followed(messages[s], pc[s])
        BY DEF TalkInv
      <4>2. Followed(messages[s], pc'[s])
        BY <1>3, <3>2, <4>1 DEF Followed
      <4> QED BY <1>3, <2>2, <3>2, <4>2
    <3> QED BY <1>7, <3>1, <3>2
  <2> QED BY <2>1, <2>2
<1> QED BY <1>3, <1>4, <1>5, <1>8

LEMMA ApiFailsIInv == ASSUME IInv, NEW s \in Sessions, ApiFails(s) PROVE IInv'
<1> USE DEF IInv
<1>1. /\ Raise(s) /\ pc[s] \in {"api", "log"}
      /\ UNCHANGED <<turn, prompts, chain, seal, log, open, returned, tears>>
  BY DEF ApiFails
<1>2. /\ pc' \in [Sessions -> Stages]
      /\ messages' \in [Sessions -> Seq(Message)]
      /\ apis' \in [Sessions -> 0..MaxApi]
      /\ calls' \in [Sessions -> Nat]
      /\ \A t \in Sessions : pc'[t] = "log" => pc[t] = "log" /\ t # s
      /\ TalkInv'
  BY <1>1, RaiseTalk
<1>3. TypeOK'
  BY <1>1, <1>2 DEF TypeOK
<1>4. SealShape' /\ ChainInv' /\ SealInv' /\ LogInv' /\ TearInv' /\ VerifyInv'
  BY <1>1, <1>2, TalkKeepsTheRest
<1> QED BY <1>2, <1>3, <1>4

-----------------------------------------------------------------------------
(* The chain and its seal                                                   *)

LEMMA RecordIInv == ASSUME IInv, NEW s \in Sessions, Record(s) PROVE IInv'
<1> USE DEF IInv
<1> DEFINE leaf == Evidence(s)
<1>1. /\ pc[s] = "record" /\ pc' = [pc EXCEPT ![s] = "log"]
      /\ chain' = [chain EXCEPT ![s] = Append(@, leaf)]
      /\ seal' = [seal EXCEPT ![s].root = NoRoot]
      /\ UNCHANGED <<messages, apis, calls, turn, prompts, log, open, returned, tears>>
  BY DEF Record, Goto
<1>2. /\ chain[s] \in Seq(Leaf) /\ Len(chain[s]) \in Nat
      /\ turn[s] \in Nat /\ calls[s] \in Nat /\ turn[s] <= Len(chain[s])
  BY DEF TypeOK
<1>3. /\ leaf.session = s /\ leaf.at = Len(chain[s]) + 1
      /\ leaf = [session |-> s, turn |-> turn[s], calls |-> calls[s],
                 at |-> Len(chain[s]) + 1, prev |-> Prev(s)]
      /\ leaf.prev = Prev(s)
  BY DEF Evidence
<1>4. Prev(s) = IF Len(chain[s]) = 0 THEN NoDigest ELSE <<s, Len(chain[s])>>
  <2>1. CASE chain[s] = <<>>
    BY <2>1 DEF Prev
  <2>2. CASE chain[s] # <<>>
    <3>1. Len(chain[s]) \in 1..Len(chain[s])
      BY <1>2, <2>2
    <3>2. /\ chain[s][Len(chain[s])].session = s
          /\ chain[s][Len(chain[s])].at = Len(chain[s])
      BY <3>1 DEF ChainInv
    <3> QED BY <2>2, <3>1, <3>2 DEF Prev, Digest, Last
  <2> QED BY <2>1, <2>2
<1>5. leaf \in Leaf
  <2>1. Prev(s) \in {NoDigest} \cup (Sessions \X Nat)
    BY <1>2, <1>4
  <2>2. Len(chain[s]) + 1 \in Nat \ {0}
    BY <1>2
  <2> QED BY <1>2, <1>3, <2>1, <2>2 DEF Leaf
<1> HIDE DEF leaf
<1>6. /\ chain' \in [Sessions -> Seq(Leaf)]
      /\ chain'[s] = Append(chain[s], leaf)
      /\ Len(chain'[s]) = Len(chain[s]) + 1
      /\ \A t \in Sessions : t # s => chain'[t] = chain[t]
  BY <1>1, <1>2, <1>5 DEF TypeOK
<1>7. \A t \in Sessions :
         /\ Len(chain[t]) \in Nat /\ Len(chain'[t]) \in Nat
         /\ Len(chain[t]) <= Len(chain'[t])
         /\ \A k \in 1..Len(chain[t]) : chain'[t][k] = chain[t][k]
  <2> SUFFICES ASSUME NEW t \in Sessions
               PROVE  /\ Len(chain[t]) \in Nat /\ Len(chain'[t]) \in Nat
                      /\ Len(chain[t]) <= Len(chain'[t])
                      /\ \A k \in 1..Len(chain[t]) : chain'[t][k] = chain[t][k]
    OBVIOUS
  <2>1. chain[t] \in Seq(Leaf)
    BY DEF TypeOK
  <2>2. CASE t # s
    BY <1>6, <2>1, <2>2
  <2>3. CASE t = s
    BY <1>2, <1>5, <1>6, <2>3
  <2> QED BY <2>2, <2>3
<1>8. /\ \A t \in Sessions : t # s => pc'[t] = pc[t] /\ seal'[t] = seal[t]
      /\ pc'[s] = "log" /\ pc' \in [Sessions -> Stages]
      /\ seal'[s] = [root |-> NoRoot, signature |-> seal[s].signature,
                     count |-> seal[s].count]
      /\ seal' = [t \in Sessions |-> seal'[t]]
  <2>1. /\ seal = [t \in Sessions |-> seal[t]]
        /\ seal[s] = [root |-> seal[s].root, signature |-> seal[s].signature,
                      count |-> seal[s].count]
    BY DEF SealShape
  <2> HIDE DEF IInv
  <2>2. [seal[s] EXCEPT !.root = NoRoot]
          = [root |-> NoRoot, signature |-> seal[s].signature, count |-> seal[s].count]
    BY <2>1
  <2>3. seal'[s] = [seal[s] EXCEPT !.root = NoRoot]
    BY <1>1, <2>1
  <2>4. \A t \in Sessions : t # s => seal'[t] = seal[t]
    BY <1>1, <2>1
  <2>5. seal' = [t \in Sessions |-> seal'[t]]
    BY <1>1, <2>1
  <2>6. pc' \in [Sessions -> Stages] /\ pc'[s] = "log"
        /\ \A t \in Sessions : t # s => pc'[t] = pc[t]
    BY <1>1 DEF TypeOK, Stages, IInv
  <2> QED BY <2>2, <2>3, <2>4, <2>5, <2>6
<1>9. TypeOK'
  <2>1. \A t \in Sessions : turn'[t] <= Len(chain'[t])
    <3>1. \A t \in Sessions : turn'[t] \in Nat /\ turn'[t] <= Len(chain[t])
      BY <1>1 DEF TypeOK
    <3> QED BY <1>7, <3>1
  <2>2. \A t \in Sessions : seal'[t].count \in 0..Len(chain'[t])
    <3>1. \A t \in Sessions : seal'[t].count = seal[t].count
      BY <1>8
    <3>2. \A t \in Sessions : seal[t].count \in 0..Len(chain[t])
      BY DEF TypeOK
    <3> QED BY <1>7, <3>1, <3>2
  <2> QED BY <1>1, <1>6, <1>8, <2>1, <2>2 DEF TypeOK
<1>10. SealShape'
  <2>1. \A t \in Sessions :
           seal'[t] = [root |-> seal'[t].root, signature |-> seal'[t].signature,
                       count |-> seal'[t].count]
    BY <1>8 DEF SealShape
  <2> QED BY <1>8, <2>1 DEF SealShape
<1>11. TalkInv'
  <2>1. turn'[s] < Len(chain'[s])
    BY <1>1, <1>2, <1>6
  <2>2. \A t \in Sessions : t # s => pc'[t] = pc[t] /\ chain'[t] = chain[t]
    BY <1>6, <1>8
  <2>3. Followed(messages[s], "log")
    <3>1. Followed(messages[s], "record")
      BY <1>1 DEF TalkInv
    <3> QED BY <3>1 DEF Followed
  <2>4. \A t \in Sessions : t # s =>
           /\ pc[t] = "api" => apis[t] < MaxApi
           /\ pc[t] = "tools" =>
                 messages[t] # <<>> /\ Last(messages[t]).stop = "tool_use"
           /\ pc[t] = "log" => turn[t] < Len(chain[t])
           /\ Followed(messages[t], pc[t])
    BY DEF TalkInv
  <2> QED BY <1>1, <1>8, <2>1, <2>2, <2>3, <2>4 DEF TalkInv
<1>12. ChainInv'
  <2> SUFFICES ASSUME NEW t \in Sessions, NEW k \in 1..Len(chain'[t])
               PROVE  /\ chain'[t][k].session = t
                      /\ chain'[t][k].at = k
                      /\ chain'[t][k].prev = IF k = 1 THEN NoDigest ELSE <<t, k - 1>>
    BY DEF ChainInv
  <2>1. CASE t # s
    BY <1>6, <2>1 DEF ChainInv
  <2>2. CASE t = s /\ k # Len(chain[s]) + 1
    <3>1. k \in 1..Len(chain[t]) /\ chain'[t][k] = chain[t][k]
      BY <1>2, <1>6, <1>7, <2>2
    <3> QED BY <3>1 DEF ChainInv
  <2>3. CASE t = s /\ k = Len(chain[s]) + 1
    <3>1. chain'[t][k] = leaf
      BY <1>2, <1>5, <1>6, <2>3
    <3>2. k - 1 = Len(chain[s]) /\ (k = 1 <=> Len(chain[s]) = 0)
      BY <1>2, <2>3
    <3> QED BY <1>3, <1>4, <2>3, <3>1, <3>2
  <2> QED BY <2>1, <2>2, <2>3
<1>13. SealInv'
  <2>1. seal'[s].root = NoRoot
    BY <1>8
  <2>2. \A t \in Sessions : t # s => seal'[t] = seal[t] /\ chain'[t] = chain[t]
    BY <1>6, <1>8
  <2> QED BY <2>1, <2>2 DEF SealInv
<1>14. LogInv'
  <2>1. \A i \in 1..Len(log') :
           /\ log'[i].leaf.at \in 1..Len(chain'[log'[i].leaf.session])
           /\ log'[i].leaf = chain'[log'[i].leaf.session][log'[i].leaf.at]
    <3> SUFFICES ASSUME NEW i \in 1..Len(log)
                 PROVE  /\ log[i].leaf.at \in 1..Len(chain'[log[i].leaf.session])
                        /\ log[i].leaf = chain'[log[i].leaf.session][log[i].leaf.at]
      BY <1>1
    <3> DEFINE u == log[i].leaf.session
               a == log[i].leaf.at
    <3>1. u \in Sessions /\ a \in Nat
      BY LogLeaf
    <3>2. a \in 1..Len(chain[u]) /\ log[i].leaf = chain[u][a]
      BY DEF LogInv
    <3> HIDE DEF u, a
    <3>3. a \in 1..Len(chain'[u]) /\ chain'[u][a] = chain[u][a]
      BY <1>7, <3>1, <3>2
    <3> QED BY <3>2, <3>3 DEF u, a
  <2>2. \A t \in Sessions : returned'[t] \subseteq 1..Len(chain'[t])
    <3>1. \A t \in Sessions : returned'[t] \subseteq 1..Len(chain[t])
      BY <1>1 DEF LogInv
    <3>2. \A t \in Sessions : 1..Len(chain[t]) \subseteq 1..Len(chain'[t])
      BY <1>7
    <3> QED BY <3>1, <3>2
  <2>3. /\ Len(chain'[s]) > 0
        /\ Len(chain'[s]) \notin returned'[s]
        /\ \A i \in 1..Len(log') :
              log'[i].leaf.session = s => log'[i].leaf.at < Len(chain'[s])
    <3>1. returned'[s] \subseteq 1..Len(chain[s])
      BY <1>1 DEF LogInv
    <3>2. \A i \in 1..Len(log') :
             log'[i].leaf.session = s => log'[i].leaf.at \in 1..Len(chain[s])
      BY <1>1 DEF LogInv
    <3> QED BY <1>2, <1>6, <3>1, <3>2
  <2>4. \A t \in Sessions : t # s /\ pc'[t] = "log" =>
           /\ Len(chain'[t]) > 0
           /\ Len(chain'[t]) \notin returned'[t]
           /\ \A i \in 1..Len(log') :
                 log'[i].leaf.session = t => log'[i].leaf.at < Len(chain'[t])
    BY <1>1, <1>6, <1>8 DEF LogInv
  <2>5. open' => /\ Len(log') > 0
                 /\ log'[Len(log')].leaf.at \notin returned'[log'[Len(log')].leaf.session]
    BY <1>1 DEF LogInv
  <2> QED BY <2>1, <2>2, <2>3, <2>4, <2>5 DEF LogInv
<1>15. TearInv'
  <2>1. \A t \in Sessions : returned'[t] = returned[t]
           /\ \A k \in returned[t] : chain'[t][k] = chain[t][k]
    BY <1>1, <1>7 DEF LogInv
  <2>2. log' = log
    BY <1>1
  <2>3. \A t \in Sessions :
          {<<t, at>> : at \in {k \in returned'[t] :
             \A i \in DOMAIN log' : log'[i].leaf = chain'[t][k] => ~log'[i].whole}}
          = {<<t, at>> : at \in {k \in returned[t] :
             \A i \in DOMAIN log : log[i].leaf = chain[t][k] => ~log[i].whole}}
    BY <2>1, <2>2
  <2>4. Unlogged' = Unlogged
    BY <2>3 DEF Unlogged
  <2> QED BY <1>1, <2>4 DEF TearInv
<1>16. VerifyInv'
  <2> SUFFICES ASSUME LogVerifies' PROVE UnbrokenLog'
    BY DEF VerifyInv
  <2>1. LogVerifies
    BY <1>1 DEF LogVerifies
  <2>2. CASE log = <<>>
    BY <1>1, <2>2 DEF UnbrokenLog
  <2>3. CASE log # <<>>
    <3>1. PICK t \in Sessions :
            /\ Len(log) <= Len(chain[t])
            /\ \A i \in DOMAIN log : log[i].whole /\ log[i].leaf = chain[t][i]
      BY <2>1, <2>3 DEF VerifyInv, UnbrokenLog
    <3>2. log \in Seq(Line) /\ DOMAIN log = 1..Len(log) /\ Len(log) \in Nat
      BY DEF TypeOK
    <3>3. Len(log) <= Len(chain'[t])
      BY <1>7, <3>1, <3>2
    <3>4. \A i \in DOMAIN log : i \in 1..Len(chain[t])
      BY <1>7, <3>1, <3>2
    <3>5. \A i \in DOMAIN log : log[i].whole /\ log[i].leaf = chain'[t][i]
      BY <1>7, <3>1, <3>4
    <3> QED BY <1>1, <3>3, <3>5 DEF UnbrokenLog
  <2> QED BY <2>2, <2>3
<1> QED BY <1>9, <1>10, <1>11, <1>12, <1>13, <1>14, <1>15, <1>16

LEMMA FinalizeIInv == ASSUME IInv, NEW s \in Sessions, Finalize(s) PROVE IInv'
<1> USE DEF IInv
<1>1. /\ seal' = [seal EXCEPT ![s] = SealOf(chain[s])]
      /\ UNCHANGED <<pc, messages, apis, calls, turn, prompts,
                     chain, log, open, returned, tears>>
  BY DEF Finalize, agent
<1>2. /\ seal'[s] = SealOf(chain[s])
      /\ \A t \in Sessions : t # s => seal'[t] = seal[t]
      /\ seal' = [t \in Sessions |-> seal'[t]]
  BY <1>1 DEF SealShape
<1>3. TypeOK'
  <2>1. \A t \in Sessions : Len(chain[t]) \in Nat
    BY DEF TypeOK
  <2>2. SealOf(chain[s]).count = Len(chain[s])
    BY DEF SealOf
  <2>3. \A t \in Sessions : seal'[t].count \in 0..Len(chain'[t])
    BY <1>1, <1>2, <2>1, <2>2 DEF TypeOK
  <2> QED BY <1>1, <2>3 DEF TypeOK
<1>4. SealShape' /\ SealInv'
  BY <1>1, <1>2 DEF SealShape, SealInv, SealOf
<1>5. TalkInv' /\ ChainInv' /\ LogInv'
  BY <1>1 DEF TalkInv, ChainInv, LogInv
<1>6. Unlogged' = Unlogged
  BY <1>1 DEF Unlogged
<1>7. TearInv' /\ VerifyInv'
  BY <1>1, <1>6 DEF TearInv, VerifyInv, LogVerifies, UnbrokenLog
<1> QED BY <1>3, <1>4, <1>5, <1>7

-----------------------------------------------------------------------------
(* The log                                                                  *)

(* The leaf that is being written.                                          *)
LEMMA LastLeaf ==
    ASSUME IInv, NEW s \in Sessions, pc[s] = "log"
    PROVE  /\ Len(chain[s]) \in Nat /\ Len(chain[s]) > 0
           /\ Last(chain[s]) = chain[s][Len(chain[s])]
           /\ Last(chain[s]) \in Leaf
           /\ Last(chain[s]).session = s
           /\ Last(chain[s]).at = Len(chain[s])
           /\ Last(chain[s]).prev = IF Len(chain[s]) = 1 THEN NoDigest
                                    ELSE <<s, Len(chain[s]) - 1>>
<1> USE DEF IInv
<1>1. chain[s] \in Seq(Leaf) /\ Len(chain[s]) \in Nat
  BY DEF TypeOK
<1>2. Len(chain[s]) > 0
  BY DEF LogInv
<1>3. Len(chain[s]) \in 1..Len(chain[s])
  BY <1>1, <1>2
<1>4. /\ chain[s][Len(chain[s])].session = s
      /\ chain[s][Len(chain[s])].at = Len(chain[s])
      /\ chain[s][Len(chain[s])].prev = IF Len(chain[s]) = 1 THEN NoDigest
                                         ELSE <<s, Len(chain[s]) - 1>>
  BY <1>3 DEF ChainInv
<1> QED BY <1>1, <1>2, <1>3, <1>4 DEF Last

(* A write to a log without an end spoils its last line and adds none; any  *)
(* other adds its line.                                                     *)
LEMMA PutLines ==
    ASSUME IInv, NEW line \in Line, NEW ended \in BOOLEAN, Put(line, ended)
    PROVE  /\ log' \in Seq(Line) /\ open' = ~ended /\ open' \in BOOLEAN
           /\ \A i \in 1..Len(log) : i \in DOMAIN log'
           /\ \/ /\ open /\ Len(log) > 0 /\ Len(log') = Len(log)
                 /\ \A i \in 1..Len(log) : log'[i].leaf = log[i].leaf
                 /\ \A i \in 1..Len(log) : i # Len(log) => log'[i] = log[i]
                 /\ ~log'[Len(log)].whole
              \/ /\ ~open /\ Len(log') = Len(log) + 1
                 /\ \A i \in 1..Len(log) : log'[i] = log[i]
                 /\ log'[Len(log) + 1] = line
<1> USE DEF IInv
<1>1. log \in Seq(Line) /\ Len(log) \in Nat /\ open \in BOOLEAN
  BY DEF TypeOK
<1>2. open' = ~ended /\ open' \in BOOLEAN
  BY DEF Put
<1>3. CASE open
  <2>1. log' = [log EXCEPT ![Len(log)] = [leaf |-> log[Len(log)].leaf, whole |-> FALSE]]
    BY <1>3 DEF Put
  <2>2. Len(log) > 0 /\ Len(log) \in 1..Len(log)
    BY <1>1, <1>3 DEF LogInv
  <2> DEFINE spoilt == [leaf |-> log[Len(log)].leaf, whole |-> FALSE]
  <2>3. log[Len(log)] \in Line
    BY <1>1, <2>2
  <2>4. spoilt.leaf = log[Len(log)].leaf /\ ~spoilt.whole
    OBVIOUS
  <2>5. spoilt \in Line
    BY <2>3 DEF Line
  <2>6. log' = [log EXCEPT ![Len(log)] = spoilt]
    BY <2>1
  <2> HIDE DEF spoilt
  <2>7. /\ log' \in Seq(Line) /\ Len(log') = Len(log)
        /\ log'[Len(log)] = spoilt
        /\ \A i \in 1..Len(log) : i # Len(log) => log'[i] = log[i]
    BY <1>1, <2>2, <2>5, <2>6
  <2>8. ~log'[Len(log)].whole /\ log'[Len(log)].leaf = log[Len(log)].leaf
    BY <2>4, <2>7
  <2> QED BY <1>2, <1>3, <2>2, <2>7, <2>8
<1>4. CASE ~open
  <2>1. log' = Append(log, line)
    BY <1>4 DEF Put
  <2> QED BY <1>1, <1>2, <1>4, <2>1
<1> QED BY <1>1, <1>3, <1>4

(* What a write of the last leaf keeps, however much of it arrives: the     *)
(* lines are leaves that were chained, and the log verifies only if it is   *)
(* the beginning of one chain.                                              *)
LEMMA PutKeeps ==
    ASSUME IInv, NEW s \in Sessions, pc[s] = "log",
           NEW whole \in BOOLEAN, NEW ended \in BOOLEAN,
           Put([leaf |-> Last(chain[s]), whole |-> whole], ended), UNCHANGED chain
    PROVE  /\ log' \in Seq(Line) /\ open' \in BOOLEAN
           /\ \A i \in 1..Len(log') :
                 \/ i \in 1..Len(log) /\ log'[i].leaf = log[i].leaf
                 \/ i = Len(log) + 1 /\ i = Len(log') /\ ~open
                    /\ log'[i].leaf = Last(chain[s])
           /\ Len(log') > 0
           /\ VerifyInv'
<1> USE DEF IInv
<1> DEFINE line == [leaf |-> Last(chain[s]), whole |-> whole]
<1>1. line \in Line /\ line.leaf = Last(chain[s])
  BY LastLeaf DEF Line
<1>2. log \in Seq(Line) /\ Len(log) \in Nat
  BY DEF TypeOK
<1>3. Put(line, ended)
  OBVIOUS
<1> HIDE DEF line
<1>4. /\ log' \in Seq(Line) /\ open' \in BOOLEAN
      /\ \/ /\ open /\ Len(log) > 0 /\ Len(log') = Len(log)
            /\ \A i \in 1..Len(log) : log'[i].leaf = log[i].leaf
            /\ ~log'[Len(log)].whole
         \/ /\ ~open /\ Len(log') = Len(log) + 1
            /\ \A i \in 1..Len(log) : log'[i] = log[i]
            /\ log'[Len(log) + 1] = line
  BY <1>1, <1>3, PutLines
<1>5. \A i \in 1..Len(log') :
         \/ i \in 1..Len(log) /\ log'[i].leaf = log[i].leaf
         \/ i = Len(log) + 1 /\ i = Len(log') /\ ~open
            /\ log'[i].leaf = Last(chain[s])
  BY <1>1, <1>2, <1>4
<1>6. Len(log') > 0
  BY <1>2, <1>4
<1>7. VerifyInv'
  <2> SUFFICES ASSUME LogVerifies' PROVE UnbrokenLog'
    BY DEF VerifyInv
  <2>0. DOMAIN log' = 1..Len(log') /\ DOMAIN log = 1..Len(log)
    BY <1>2, <1>4
  <2>1. /\ \A i \in 1..Len(log') : log'[i].whole
        /\ \A i \in 1..Len(log') :
              log'[i].leaf.prev = IF i = 1 THEN NoDigest ELSE Digest(log'[i - 1].leaf)
    BY <2>0 DEF LogVerifies
  <2>2. ~open /\ Len(log') = Len(log) + 1
    BY <1>2, <1>4, <2>1
  <2>3. /\ \A i \in 1..Len(log) : log'[i] = log[i]
        /\ log'[Len(log) + 1] = line
    BY <1>4, <2>2
  <2>4. LogVerifies
    <3>1. \A i \in 1..Len(log) : i \in 1..Len(log')
      BY <1>2, <2>2
    <3>2. \A i \in 1..Len(log) : log[i].whole
      BY <2>1, <2>3, <3>1
    <3>3. \A i \in 1..Len(log) :
             log[i].leaf.prev = IF i = 1 THEN NoDigest ELSE Digest(log[i - 1].leaf)
      <4> SUFFICES ASSUME NEW i \in 1..Len(log)
                   PROVE  log[i].leaf.prev
                            = IF i = 1 THEN NoDigest ELSE Digest(log[i - 1].leaf)
        OBVIOUS
      <4>1. log[i].leaf.prev = IF i = 1 THEN NoDigest ELSE Digest(log'[i - 1].leaf)
        BY <2>1, <2>3, <3>1
      <4>2. i # 1 => i - 1 \in 1..Len(log)
        BY <1>2
      <4> QED BY <2>3, <4>1, <4>2
    <3> QED BY <2>0, <3>2, <3>3 DEF LogVerifies
  <2>5. UnbrokenLog
    BY <2>4 DEF VerifyInv
  <2>6. /\ Len(chain[s]) \in Nat /\ Len(chain[s]) > 0
        /\ Last(chain[s]) = chain[s][Len(chain[s])]
        /\ Last(chain[s]).prev = IF Len(chain[s]) = 1 THEN NoDigest
                                 ELSE <<s, Len(chain[s]) - 1>>
    BY LastLeaf
  <2>7. Last(chain[s]).prev = IF Len(log) = 0 THEN NoDigest
                              ELSE Digest(log[Len(log)].leaf)
    <3>1. Len(log) + 1 \in 1..Len(log') /\ (Len(log) + 1) - 1 = Len(log)
      BY <1>2, <2>2
    <3>2. log'[Len(log) + 1].leaf.prev
             = IF Len(log) + 1 = 1 THEN NoDigest ELSE Digest(log'[Len(log)].leaf)
      BY <2>1, <3>1
    <3>3. Len(log) # 0 => Len(log) \in 1..Len(log)
      BY <1>2
    <3> QED BY <1>1, <1>2, <2>3, <3>2, <3>3
  <2>8. \A i \in 1..Len(log') : log'[i].whole /\ log'[i].leaf = chain[s][i]
        /\ Len(log') = Len(chain[s])
    <3>1. CASE log = <<>>
      <4>1. Len(log) = 0
        BY <3>1
      <4>2. \A t : \A n : <<t, n>> # NoDigest
        BY DEF NoDigest
      <4>3. Len(chain[s]) = 1
        BY <2>6, <2>7, <4>1, <4>2
      <4> QED BY <1>1, <2>1, <2>2, <2>3, <2>6, <4>1, <4>3
    <3>2. CASE log # <<>>
      <4>1. PICK t \in Sessions :
              /\ Len(log) <= Len(chain[t])
              /\ \A i \in DOMAIN log : log[i].whole /\ log[i].leaf = chain[t][i]
        BY <2>5, <3>2 DEF UnbrokenLog
      <4>2. Len(log) # 0 /\ Len(log) \in 1..Len(log)
        BY <1>2, <3>2
      <4>3. log[Len(log)].leaf = chain[t][Len(log)]
        BY <2>0, <4>1, <4>2
      <4>4. Len(chain[t]) \in Nat
        BY DEF TypeOK
      <4>5. Len(log) \in 1..Len(chain[t])
        BY <1>2, <4>1, <4>2, <4>4
      <4>6. Digest(log[Len(log)].leaf) = <<t, Len(log)>>
        <5>1. /\ chain[t][Len(log)].session = t
              /\ chain[t][Len(log)].at = Len(log)
          BY <4>5 DEF ChainInv
        <5> QED BY <4>3, <5>1 DEF Digest
      <4>7. <<t, Len(log)>> # NoDigest
        <5>1. \A u : \A n : <<u, n>> # NoDigest
          BY DEF NoDigest
        <5> QED BY <5>1
      <4>8. <<s, Len(chain[s]) - 1>> = <<t, Len(log)>>
        BY <2>6, <2>7, <4>2, <4>6, <4>7
      <4>9. t = s /\ Len(chain[s]) = Len(log) + 1
        BY <1>2, <2>6, <4>8
      <4>10. \A i \in 1..Len(log) : log[i].leaf = chain[s][i]
        BY <2>0, <4>1, <4>9
      <4> QED BY <1>1, <1>2, <2>1, <2>2, <2>3, <2>6, <4>9, <4>10
    <3> QED BY <3>1, <3>2
  <2>9. /\ Len(log') <= Len(chain'[s])
        /\ \A i \in DOMAIN log' : log'[i].whole /\ log'[i].leaf = chain'[s][i]
    BY <1>2, <2>0, <2>2, <2>6, <2>8
  <2> QED BY <2>9 DEF UnbrokenLog
<1> QED BY <1>4, <1>5, <1>6, <1>7

(* Every line is still a leaf that was chained, and a leaf that is being    *)
(* written is in the log only if it is the one that was put there.          *)
LEMMA PutChained ==
    ASSUME IInv, NEW s \in Sessions, pc[s] = "log",
           NEW whole \in BOOLEAN, NEW ended \in BOOLEAN,
           Put([leaf |-> Last(chain[s]), whole |-> whole], ended), UNCHANGED chain
    PROVE  /\ \A i \in 1..Len(log') :
                 /\ log'[i].leaf.at \in 1..Len(chain[log'[i].leaf.session])
                 /\ log'[i].leaf = chain[log'[i].leaf.session][log'[i].leaf.at]
           /\ \A t \in Sessions : t # s /\ pc[t] = "log" =>
                 \A i \in 1..Len(log') :
                    log'[i].leaf.session = t => log'[i].leaf.at < Len(chain[t])
           /\ log'[Len(log')].leaf.at \notin returned[log'[Len(log')].leaf.session]
<1> USE DEF IInv
<1>1. /\ \A i \in 1..Len(log') :
            \/ i \in 1..Len(log) /\ log'[i].leaf = log[i].leaf
            \/ i = Len(log) + 1 /\ i = Len(log') /\ ~open
               /\ log'[i].leaf = Last(chain[s])
      /\ Len(log') \in Nat /\ Len(log') > 0
      /\ Len(log) \in Nat
  <2>1. log \in Seq(Line)
    BY DEF TypeOK
  <2> QED BY <2>1, PutKeeps
<1>2. /\ Len(chain[s]) \in Nat /\ Len(chain[s]) > 0
      /\ Last(chain[s]) = chain[s][Len(chain[s])]
      /\ Last(chain[s]).session = s
      /\ Last(chain[s]).at = Len(chain[s])
  BY LastLeaf
<1>3. Len(chain[s]) \notin returned[s]
  BY DEF LogInv
<1>4. \A i \in 1..Len(log) :
         /\ log[i].leaf.at \in 1..Len(chain[log[i].leaf.session])
         /\ log[i].leaf = chain[log[i].leaf.session][log[i].leaf.at]
  BY DEF LogInv
<1>5. \A i \in 1..Len(log') :
         /\ log'[i].leaf.at \in 1..Len(chain[log'[i].leaf.session])
         /\ log'[i].leaf = chain[log'[i].leaf.session][log'[i].leaf.at]
  BY <1>1, <1>2, <1>4, SMTT(30)
<1>6. \A t \in Sessions : t # s /\ pc[t] = "log" =>
         \A i \in 1..Len(log') :
            log'[i].leaf.session = t => log'[i].leaf.at < Len(chain[t])
  BY <1>1, <1>2 DEF LogInv
<1>7. log'[Len(log')].leaf.at \notin returned[log'[Len(log')].leaf.session]
  <2>0. Len(log') \in 1..Len(log')
    BY <1>1
  <2>1. CASE open
    <3>1. /\ Len(log') = Len(log) /\ log'[Len(log)].leaf = log[Len(log)].leaf
      <4>1. Len(log') \in 1..Len(log) /\ log'[Len(log')].leaf = log[Len(log')].leaf
        BY <1>1, <2>0, <2>1
      <4>2. Len(log') = Len(log)
        <5>1. log' = [log EXCEPT ![Len(log)] = [leaf |-> @.leaf, whole |-> FALSE]]
          BY <2>1 DEF Put
        <5>2. log \in Seq(Line) /\ log' \in Seq(Line)
          BY PutKeeps DEF TypeOK
        <5> HIDE DEF IInv
        <5>3. DOMAIN log' = DOMAIN log
          BY <5>1
        <5> QED BY <5>2, <5>3
      <4> QED BY <4>1, <4>2
    <3> QED BY <2>1, <3>1 DEF LogInv
  <2>2. CASE ~open /\ Len(log') = Len(log) + 1
    <3>1. log'[Len(log')].leaf = Last(chain[s])
      BY <1>1, <2>0, <2>2
    <3> QED BY <1>2, <1>3, <3>1
  <2>3. open \/ Len(log') = Len(log) + 1
    <3> SUFFICES ASSUME ~open PROVE Len(log') = Len(log) + 1
      OBVIOUS
    <3>1. log' = Append(log, [leaf |-> Last(chain[s]), whole |-> whole])
      BY DEF Put
    <3> QED BY <1>1, <3>1 DEF TypeOK
  <2> QED BY <2>1, <2>2, <2>3
<1> QED BY <1>5, <1>6, <1>7

(* The leaf of a turn that has returned.                                    *)
LEMMA ReturnedLeaf ==
    ASSUME IInv, NEW t \in Sessions, NEW k, k \in returned[t]
    PROVE  chain[t][k].session = t /\ chain[t][k].at = k
<1> USE DEF IInv
<1>1. returned[t] \subseteq 1..Len(chain[t])
  BY DEF LogInv
<1>2. k \in 1..Len(chain[t])
  BY <1>1
<1> QED BY <1>2 DEF ChainInv

(* A turn that returned and whose entry was readable has lost nothing by a  *)
(* write.                                                                   *)
LEMMA PutUnlogged ==
    ASSUME IInv, NEW s \in Sessions, pc[s] = "log",
           NEW whole \in BOOLEAN, NEW ended \in BOOLEAN,
           Put([leaf |-> Last(chain[s]), whole |-> whole], ended), UNCHANGED chain,
           NEW t \in Sessions, NEW k, k \in returned[t],
           \A i \in DOMAIN log' : log'[i].leaf = chain[t][k] => ~log'[i].whole
    PROVE  \A i \in DOMAIN log : log[i].leaf = chain[t][k] => ~log[i].whole
<1> USE DEF IInv
<1> DEFINE line == [leaf |-> Last(chain[s]), whole |-> whole]
<1>1. line \in Line /\ Put(line, ended)
  BY LastLeaf DEF Line
<1> HIDE DEF line
<1>2. log \in Seq(Line) /\ log' \in Seq(Line)
  BY <1>1, PutLines DEF TypeOK
<1>3. DOMAIN log = 1..Len(log) /\ DOMAIN log' = 1..Len(log') /\ Len(log) \in Nat
  BY <1>2
<1>4. \/ /\ open /\ Len(log) > 0 /\ Len(log') = Len(log)
         /\ \A i \in 1..Len(log) : i # Len(log) => log'[i] = log[i]
      \/ /\ ~open /\ Len(log') = Len(log) + 1
         /\ \A i \in 1..Len(log) : log'[i] = log[i]
  BY <1>1, PutLines
<1> SUFFICES ASSUME NEW i, i \in 1..Len(log), log[i].leaf = chain[t][k]
             PROVE  ~log[i].whole
  BY <1>3
<1>5. i \in DOMAIN log'
  BY <1>1, PutLines
<1>6. CASE open /\ i = Len(log)
  <2>2. chain[t][k].session = t /\ chain[t][k].at = k
    BY ReturnedLeaf
  <2>3. log[Len(log)].leaf.session = t /\ log[Len(log)].leaf.at = k
    BY <1>6, <2>2
  <2>4. k \notin returned[t]
    BY <1>6, <2>3 DEF LogInv
  <2> QED BY <2>4
<1>7. CASE ~(open /\ i = Len(log))
  <2>1. log'[i] = log[i]
    BY <1>4, <1>7
  <2> QED BY <1>5, <2>1
<1> QED BY <1>6, <1>7

(* A turn without a readable entry, as a member of Unlogged.                *)
LEMMA UnloggedMember ==
    \A x : x \in Unlogged <=>
      \E t \in Sessions : \E k \in returned[t] :
        /\ x = <<t, k>>
        /\ \A i \in DOMAIN log : log[i].leaf = chain[t][k] => ~log[i].whole
BY DEF Unlogged

(* The action of a turn's writing its entry.                                *)
LEMMA LogIInv == ASSUME IInv, NEW s \in Sessions, Log(s) PROVE IInv'
<1> USE DEF IInv
<1> DEFINE line == [leaf |-> Last(chain[s]), whole |-> TRUE]
<1>1. /\ pc[s] = "log" /\ pc' = [pc EXCEPT ![s] = "idle"]
      /\ Put(line, TRUE)
      /\ turn' = [turn EXCEPT ![s] = @ + 1]
      /\ returned' = [returned EXCEPT ![s] = @ \cup {Len(chain[s])}]
      /\ UNCHANGED <<messages, apis, calls, prompts, chain, seal, tears>>
  BY DEF Log, Goto
<1>2. line \in Line /\ line.leaf = Last(chain[s]) /\ line.whole
  BY <1>1, LastLeaf DEF Line
<1>3. /\ log' \in Seq(Line) /\ open' = FALSE /\ VerifyInv'
  BY <1>1, <1>2, PutKeeps, PutLines
<1>4. /\ Len(chain[s]) \in Nat /\ Len(chain[s]) > 0 /\ chain[s] \in Seq(Leaf)
      /\ Last(chain[s]) = chain[s][Len(chain[s])]
      /\ turn[s] \in Nat /\ turn[s] < Len(chain[s])
      /\ Len(chain[s]) \notin returned[s]
  BY <1>1, LastLeaf DEF TypeOK, TalkInv, LogInv
<1>5. /\ turn' \in [Sessions -> Nat] /\ turn'[s] = turn[s] + 1
      /\ \A t \in Sessions : t # s => turn'[t] = turn[t]
  BY <1>1, <1>4 DEF TypeOK
<1>6. /\ returned'[s] = returned[s] \cup {Len(chain[s])}
      /\ \A t \in Sessions : t # s => returned'[t] = returned[t]
      /\ returned' \in [Sessions -> SUBSET Nat]
  BY <1>1, <1>4 DEF TypeOK
<1>7. /\ pc' \in [Sessions -> Stages]
      /\ \A t \in Sessions : pc'[t] = "log" => pc[t] = "log" /\ t # s
      /\ TalkInv'
  <2>1. Raise(s)
    BY <1>1 DEF Raise, Goto
  <2> QED BY <1>1, <1>5, <2>1, RaiseTalk
<1> HIDE DEF line
<1>8. TypeOK'
  <2>1. \A t \in Sessions : turn'[t] <= Len(chain'[t])
    <3>1. \A t \in Sessions : turn[t] <= Len(chain[t])
      BY DEF TypeOK
    <3>2. turn'[s] <= Len(chain[s])
      BY <1>4, <1>5
    <3> QED BY <1>1, <1>5, <3>1, <3>2
  <2> QED BY <1>1, <1>3, <1>5, <1>6, <1>7, <2>1 DEF TypeOK
<1>9. SealShape' /\ ChainInv' /\ SealInv'
  BY <1>1 DEF SealShape, ChainInv, SealInv
<1>10. LogInv'
  <2>1. /\ \A i \in 1..Len(log') :
              /\ log'[i].leaf.at \in 1..Len(chain'[log'[i].leaf.session])
              /\ log'[i].leaf = chain'[log'[i].leaf.session][log'[i].leaf.at]
        /\ \A t \in Sessions : t # s /\ pc[t] = "log" =>
              \A i \in 1..Len(log') :
                 log'[i].leaf.session = t => log'[i].leaf.at < Len(chain'[t])
    BY <1>1, PutChained DEF line
  <2>2. \A t \in Sessions : returned'[t] \subseteq 1..Len(chain'[t])
    <3>1. \A t \in Sessions : returned[t] \subseteq 1..Len(chain[t])
      BY DEF LogInv
    <3>2. Len(chain[s]) \in 1..Len(chain[s])
      BY <1>4
    <3>3. returned'[s] \subseteq 1..Len(chain[s])
      BY <1>6, <3>1, <3>2
    <3> QED BY <1>1, <1>6, <3>1, <3>3
  <2>3. \A t \in Sessions : pc'[t] = "log" =>
           Len(chain'[t]) > 0 /\ Len(chain'[t]) \notin returned'[t]
    BY <1>1, <1>6, <1>7 DEF LogInv
  <2> QED BY <1>3, <1>7, <2>1, <2>2, <2>3 DEF LogInv
<1>11. TearInv'
  <2>1. ASSUME NEW x, x \in Unlogged', x # <<s, Len(chain[s])>>
        PROVE  x \in Unlogged
    <3>1. \E t \in Sessions : \E k \in returned'[t] :
             /\ x = <<t, k>>
             /\ \A i \in DOMAIN log' : log'[i].leaf = chain'[t][k] => ~log'[i].whole
      BY <2>1 DEF Unlogged
    <3>0. PICK t \in Sessions :
             \E k \in returned'[t] :
                /\ x = <<t, k>>
                /\ \A i \in DOMAIN log' : log'[i].leaf = chain'[t][k] => ~log'[i].whole
      BY <3>1
    <3>2. PICK k \in returned'[t] :
             /\ x = <<t, k>>
             /\ \A i \in DOMAIN log' : log'[i].leaf = chain'[t][k] => ~log'[i].whole
      BY <3>0
    <3>3. k \in returned[t]
      BY <1>6, <2>1, <3>2
    <3>4. \A i \in DOMAIN log : log[i].leaf = chain[t][k] => ~log[i].whole
      BY <1>1, <3>2, <3>3, PutUnlogged DEF line
    <3> QED BY <3>2, <3>3, <3>4, UnloggedMember
  <2>2. CASE open
    <3>1. /\ IsFiniteSet(Unlogged)
          /\ Cardinality(Unlogged) + 1 <= tears
          /\ Cardinality(Unlogged) \in Nat
      BY <2>2, FS_CardinalityType DEF TearInv
    <3> DEFINE more == Unlogged \cup {<<s, Len(chain[s])>>}
    <3>2. /\ IsFiniteSet(more)
          /\ Cardinality(more) = Cardinality(Unlogged)
             \/ Cardinality(more) = Cardinality(Unlogged) + 1
      BY <3>1, FS_AddElement
    <3>3. Unlogged' \in SUBSET more
      BY <2>1
    <3> HIDE DEF more
    <3>4. IsFiniteSet(Unlogged') /\ Cardinality(Unlogged') <= Cardinality(more)
      BY <3>2, <3>3, FS_Subset
    <3>5. Cardinality(Unlogged') \in Nat /\ Cardinality(more) \in Nat /\ tears \in Nat
      BY <3>2, <3>4, FS_CardinalityType DEF TypeOK
    <3>6. Cardinality(Unlogged') <= tears
      BY <3>1, <3>2, <3>4, <3>5
    <3> QED BY <1>1, <1>3, <3>4, <3>5, <3>6 DEF TearInv
  <2>3. CASE ~open
    <3>1. <<s, Len(chain[s])>> \notin Unlogged'
      <4> SUFFICES ASSUME <<s, Len(chain[s])>> \in Unlogged' PROVE FALSE
        OBVIOUS
      <4>1. \E t \in Sessions : \E k \in returned'[t] :
               /\ <<s, Len(chain[s])>> = <<t, k>>
               /\ \A i \in DOMAIN log' : log'[i].leaf = chain'[t][k] => ~log'[i].whole
        BY DEF Unlogged
      <4>2. \A i \in DOMAIN log' : log'[i].leaf = chain[s][Len(chain[s])] => ~log'[i].whole
        BY <1>1, <4>1
      <4>3. log \in Seq(Line) /\ log' = Append(log, line)
        BY <1>1, <2>3 DEF Put, TypeOK
      <4>4. Len(log) + 1 \in DOMAIN log' /\ log'[Len(log) + 1] = line
        BY <1>2, <4>3
      <4> QED BY <1>2, <1>4, <4>2, <4>4
    <3>2. Unlogged' \in SUBSET Unlogged
      BY <2>1, <3>1
    <3>3. /\ IsFiniteSet(Unlogged)
          /\ Cardinality(Unlogged) \in Nat
          /\ Cardinality(Unlogged) + 0 <= tears
      BY <2>3, FS_CardinalityType DEF TearInv
    <3>4. IsFiniteSet(Unlogged') /\ Cardinality(Unlogged') <= Cardinality(Unlogged)
      BY <3>2, <3>3, FS_Subset
    <3>5. Cardinality(Unlogged') \in Nat /\ tears \in Nat
      BY <3>4, FS_CardinalityType DEF TypeOK
    <3> QED BY <1>1, <1>3, <3>3, <3>4, <3>5 DEF TearInv
  <2> QED BY <2>2, <2>3 DEF TypeOK
<1> QED BY <1>3, <1>7, <1>8, <1>9, <1>10, <1>11

(* A write that is cut off: an entry at most is lost, and it is paid for.   *)
LEMMA TearKeeps ==
    ASSUME IInv, NEW s \in Sessions, pc[s] = "log", Tear(s), UNCHANGED <<chain, returned>>
    PROVE  /\ log' \in Seq(Line) /\ open' \in BOOLEAN /\ tears' \in 0..MaxTears
           /\ \A i \in 1..Len(log') :
                 /\ log'[i].leaf.at \in 1..Len(chain[log'[i].leaf.session])
                 /\ log'[i].leaf = chain[log'[i].leaf.session][log'[i].leaf.at]
           /\ \A t \in Sessions : t # s /\ pc[t] = "log" =>
                 \A i \in 1..Len(log') :
                    log'[i].leaf.session = t => log'[i].leaf.at < Len(chain[t])
           /\ Len(log') > 0
           /\ log'[Len(log')].leaf.at \notin returned[log'[Len(log')].leaf.session]
           /\ TearInv' /\ VerifyInv'
<1> USE DEF IInv
<1>1. tears < MaxTears /\ tears' = tears + 1
  BY DEF Tear
<1>2. PICK whole \in BOOLEAN : Put([leaf |-> Last(chain[s]), whole |-> whole], FALSE)
  BY DEF Tear
<1> DEFINE line == [leaf |-> Last(chain[s]), whole |-> whole]
<1>3. line \in Line
  BY LastLeaf DEF Line
<1>4. Put(line, FALSE)
  BY <1>2
<1>5. FALSE \in BOOLEAN
  OBVIOUS
<1>6. log' \in Seq(Line) /\ open' = ~FALSE
  BY <1>3, <1>4, <1>5, PutLines
<1>7. /\ \A i \in 1..Len(log') :
            /\ log'[i].leaf.at \in 1..Len(chain[log'[i].leaf.session])
            /\ log'[i].leaf = chain[log'[i].leaf.session][log'[i].leaf.at]
      /\ \A t \in Sessions : t # s /\ pc[t] = "log" =>
            \A i \in 1..Len(log') :
               log'[i].leaf.session = t => log'[i].leaf.at < Len(chain[t])
      /\ log'[Len(log')].leaf.at \notin returned[log'[Len(log')].leaf.session]
  BY <1>4, <1>5, PutChained
<1>8. Len(log') > 0 /\ VerifyInv'
  BY <1>4, <1>5, PutKeeps
<1>9. tears' \in 0..MaxTears /\ tears \in Nat
  BY <1>1, ConstantsOK DEF TypeOK
<1>10. Unlogged' \in SUBSET Unlogged
  <2> SUFFICES ASSUME NEW x, x \in Unlogged' PROVE x \in Unlogged
    OBVIOUS
  <2>1. PICK t \in Sessions :
           \E k \in returned[t] :
              /\ x = <<t, k>>
              /\ \A i \in DOMAIN log' : log'[i].leaf = chain[t][k] => ~log'[i].whole
    BY DEF Unlogged
  <2>2. PICK k \in returned[t] :
           /\ x = <<t, k>>
           /\ \A i \in DOMAIN log' : log'[i].leaf = chain[t][k] => ~log'[i].whole
    BY <2>1
  <2>3. \A i \in DOMAIN log : log[i].leaf = chain[t][k] => ~log[i].whole
    BY <1>4, <1>5, <2>2, PutUnlogged
  <2> QED BY <2>2, <2>3, UnloggedMember
<1>11. TearInv'
  <2>1. /\ IsFiniteSet(Unlogged)
        /\ Cardinality(Unlogged) \in Nat
        /\ Cardinality(Unlogged) + (IF open THEN 1 ELSE 0) <= tears
    BY FS_CardinalityType DEF TearInv
  <2>2. Cardinality(Unlogged) <= tears
    <3>1. CASE open
      BY <1>9, <2>1, <3>1
    <3>2. CASE ~open
      BY <1>9, <2>1, <3>2
    <3> QED BY <3>1, <3>2
  <2>3. IsFiniteSet(Unlogged') /\ Cardinality(Unlogged') <= Cardinality(Unlogged)
    BY <1>10, <2>1, FS_Subset
  <2>4. Cardinality(Unlogged') \in Nat
    BY <2>3, FS_CardinalityType
  <2>5. Cardinality(Unlogged') + 1 <= tears'
    BY <1>1, <1>9, <2>1, <2>2, <2>3, <2>4
  <2>6. open'
    BY <1>6
  <2> QED BY <2>3, <2>5, <2>6 DEF TearInv
<1> QED BY <1>6, <1>7, <1>8, <1>9, <1>11

(* A session leaves its turn or its process ends, with the write of its     *)
(* entry cut off or not begun.                                              *)
LEMMA LeaveIInv ==
    ASSUME IInv, NEW s \in Sessions, Raise(s),
           pc[s] \in {"api", "log"} \/ End(s),
           (pc[s] = "log" /\ Tear(s)) \/ UNCHANGED <<log, open, tears>>,
           UNCHANGED <<turn, prompts, chain, seal, returned>>
    PROVE  IInv'
<1> USE DEF IInv
<1>1. /\ pc' \in [Sessions -> Stages]
      /\ messages' \in [Sessions -> Seq(Message)]
      /\ apis' \in [Sessions -> 0..MaxApi]
      /\ calls' \in [Sessions -> Nat]
      /\ \A t \in Sessions : pc'[t] = "log" => pc[t] = "log" /\ t # s
      /\ TalkInv'
  BY RaiseTalk
<1>2. CASE UNCHANGED <<log, open, tears>>
  <2>1. TypeOK'
    BY <1>1, <1>2 DEF TypeOK
  <2>2. SealShape' /\ ChainInv' /\ SealInv' /\ LogInv' /\ TearInv' /\ VerifyInv'
    BY <1>1, <1>2, TalkKeepsTheRest
  <2> QED BY <1>1, <2>1, <2>2
<1>3. CASE pc[s] = "log" /\ Tear(s)
  <2>1. /\ log' \in Seq(Line) /\ open' \in BOOLEAN /\ tears' \in 0..MaxTears
        /\ \A i \in 1..Len(log') :
              /\ log'[i].leaf.at \in 1..Len(chain[log'[i].leaf.session])
              /\ log'[i].leaf = chain[log'[i].leaf.session][log'[i].leaf.at]
        /\ \A t \in Sessions : t # s /\ pc[t] = "log" =>
              \A i \in 1..Len(log') :
                 log'[i].leaf.session = t => log'[i].leaf.at < Len(chain[t])
        /\ Len(log') > 0
        /\ log'[Len(log')].leaf.at \notin returned[log'[Len(log')].leaf.session]
        /\ TearInv' /\ VerifyInv'
    BY <1>3, TearKeeps
  <2>2. TypeOK'
    BY <1>1, <2>1 DEF TypeOK
  <2>3. SealShape' /\ ChainInv' /\ SealInv'
    BY DEF SealShape, ChainInv, SealInv
  <2>4. LogInv'
    BY <1>1, <2>1 DEF LogInv
  <2> QED BY <1>1, <2>1, <2>2, <2>3, <2>4
<1> QED BY <1>2, <1>3

LEMMA LogFailsIInv == ASSUME IInv, NEW s \in Sessions, LogFails(s) PROVE IInv'
BY LeaveIInv DEF LogFails

LEMMA StopIInv == ASSUME IInv, NEW s \in Sessions, Stop(s) PROVE IInv'
BY LeaveIInv DEF Stop, Raise

-----------------------------------------------------------------------------
(* The specification                                                        *)

LEMMA StutterIInv == ASSUME IInv, UNCHANGED vars PROVE IInv'
<1> USE DEF IInv, vars, agent
<1>1. TypeOK' /\ SealShape' /\ TalkInv'
  BY DEF TypeOK, SealShape, TalkInv
<1>2. /\ UNCHANGED <<chain, seal, log, open, returned, tears>>
      /\ \A s \in Sessions : pc'[s] = "log" => pc[s] = "log"
  OBVIOUS
<1>3. SealShape' /\ ChainInv' /\ SealInv' /\ LogInv' /\ TearInv' /\ VerifyInv'
  BY <1>2, TalkKeepsTheRest
<1> QED BY <1>1, <1>3

LEMMA StepIInv == IInv /\ [Next]_vars => IInv'
<1> SUFFICES ASSUME IInv, [Next]_vars PROVE IInv'
  OBVIOUS
<1>1. CASE UNCHANGED vars
  BY <1>1, StutterIInv
<1>2. CASE Next
  <2>1. PICK s \in Sessions : Submit(s) \/ Work(s) \/ Finalize(s) \/ Stop(s)
    BY <1>2 DEF Next
  <2>2. CASE Submit(s)
    BY <2>2, SubmitIInv
  <2>3. CASE Answers(s)
    <3>1. PICK stop \in {"tool_use", "other"}, n \in 0..MaxTools : Answer(s, stop, n)
      BY <2>3 DEF Answers
    <3>2. n \in Nat
      BY ConstantsOK
    <3> QED BY <3>1, <3>2, AnswerIInv
  <2>4. CASE RunTools(s)
    BY <2>4, RunToolsIInv
  <2>5. CASE ApiFails(s)
    BY <2>5, ApiFailsIInv
  <2>6. CASE Record(s)
    BY <2>6, RecordIInv
  <2>7. CASE Log(s)
    BY <2>7, LogIInv
  <2>8. CASE LogFails(s)
    BY <2>8, LogFailsIInv
  <2>9. CASE Finalize(s)
    BY <2>9, FinalizeIInv
  <2>10. CASE Stop(s)
    BY <2>10, StopIInv
  <2> QED BY <2>1, <2>2, <2>3, <2>4, <2>5, <2>6, <2>7, <2>8, <2>9, <2>10 DEF Work
<1> QED BY <1>1, <1>2

LEMMA InductiveIInv == Spec => []IInv
<1>1. Init => IInv
  BY InitIInv
<1>2. IInv /\ [Next]_vars => IInv'
  BY StepIInv
<1> QED BY <1>1, <1>2, PTL DEF Spec

-----------------------------------------------------------------------------
(* Every variable keeps its type, and a seal never counts more turns than   *)
(* the chain has (EvidenceChain, GovernanceAgent).                          *)
THEOREM SessionTypes == Spec => []TypeOK
<1>1. IInv => TypeOK
  BY DEF IInv
<1> QED BY <1>1, InductiveIInv, PTL

(* verify_integrity accepts a log just when its lines are the beginning of  *)
(* one session's chain: whatever the sessions do to each other, and however *)
(* many writes are cut off.                                                 *)
THEOREM LogVerifiesOnlyUnbroken == Spec => []VerifiesIffUnbroken
<1>1. IInv => VerifiesIffUnbroken
  <2> SUFFICES ASSUME IInv PROVE VerifiesIffUnbroken
    OBVIOUS
  <2> USE DEF IInv
  <2>1. ASSUME UnbrokenLog PROVE LogVerifies
    <3>1. CASE log = <<>>
      BY <3>1 DEF LogVerifies
    <3>2. CASE log # <<>>
      <4>1. PICK s \in Sessions :
              /\ Len(log) <= Len(chain[s])
              /\ \A i \in DOMAIN log : log[i].whole /\ log[i].leaf = chain[s][i]
        BY <2>1, <3>2 DEF UnbrokenLog
      <4>2. log \in Seq(Line) /\ chain[s] \in Seq(Leaf)
        BY DEF TypeOK
      <4>3. /\ DOMAIN log = 1..Len(log) /\ Len(log) \in Nat /\ Len(chain[s]) \in Nat
            /\ \A i \in 1..Len(log) : i \in 1..Len(chain[s])
        BY <4>1, <4>2
      <4>4. ASSUME NEW i \in 1..Len(log)
            PROVE  log[i].leaf.prev = IF i = 1 THEN NoDigest ELSE Digest(log[i - 1].leaf)
        <5>1. /\ i \in 1..Len(chain[s])
              /\ log[i].leaf.prev = IF i = 1 THEN NoDigest ELSE <<s, i - 1>>
          BY <4>1, <4>3 DEF ChainInv
        <5>2. CASE i = 1
          BY <5>1, <5>2
        <5>3. CASE i # 1
          <6>1. i - 1 \in 1..Len(log)
            BY <4>3, <5>3
          <6>2. i - 1 \in 1..Len(chain[s]) /\ log[i - 1].leaf = chain[s][i - 1]
            BY <4>1, <4>3, <6>1
          <6>3. chain[s][i - 1].session = s /\ chain[s][i - 1].at = i - 1
            BY <6>2 DEF ChainInv
          <6>4. Digest(log[i - 1].leaf) = <<s, i - 1>>
            BY <6>2, <6>3 DEF Digest
          <6> QED BY <5>1, <5>3, <6>4
        <5> QED BY <5>2, <5>3
      <4>5. \A i \in DOMAIN log : log[i].whole
        BY <4>1
      <4> QED BY <4>3, <4>4, <4>5 DEF LogVerifies
    <3> QED BY <3>1, <3>2
  <2> QED BY <2>1 DEF VerifyInv, VerifiesIffUnbroken
<1> QED BY <1>1, InductiveIInv, PTL

(* The turns that returned and have no readable entry in the log are never  *)
(* more than the writes that were cut off (AuditLog.append).                *)
THEOREM LostEntriesArePaidFor == Spec => []TearsCostOneTurnEach
<1>1. IInv => TearsCostOneTurnEach
  <2> SUFFICES ASSUME IInv PROVE TearsCostOneTurnEach
    OBVIOUS
  <2> USE DEF IInv
  <2>1. /\ Cardinality(Unlogged) \in Nat /\ tears \in Nat
        /\ Cardinality(Unlogged) + (IF open THEN 1 ELSE 0) <= tears
    BY FS_CardinalityType DEF TearInv, TypeOK
  <2>2. CASE open
    BY <2>1, <2>2 DEF TearsCostOneTurnEach
  <2>3. CASE ~open
    BY <2>1, <2>3 DEF TearsCostOneTurnEach
  <2> QED BY <2>2, <2>3
<1> QED BY <1>1, InductiveIInv, PTL

(* A root is kept only of the chain as it is, so a seal that verifies       *)
(* covers every entry that its session has in the log (finalize, verify).   *)
THEOREM SealsCoverTheLog == Spec => []SealCoversLog
<1>1. IInv => SealCoversLog
  <2> SUFFICES ASSUME IInv PROVE SealCoversLog
    OBVIOUS
  <2> USE DEF IInv
  <2> SUFFICES ASSUME NEW s \in Sessions
               PROVE  /\ seal[s].root # NoRoot =>
                            ChainVerifies(s) /\ seal[s].count = Len(chain[s])
                      /\ ChainVerifies(s) =>
                            \A i \in DOMAIN log :
                                log[i].leaf.session = s =>
                                    \E k \in 1..seal[s].count : chain[s][k] = log[i].leaf
    BY DEF SealCoversLog
  <2>1. ASSUME seal[s].root # NoRoot
        PROVE  /\ seal[s].root = Root(chain[s]) /\ seal[s].signature = Root(chain[s])
               /\ seal[s].count = Len(chain[s])
    <3>1. seal[s] = SealOf(chain[s])
      BY <2>1 DEF SealInv
    <3> QED BY <3>1 DEF SealOf
  <2>2. seal[s].root # NoRoot => ChainVerifies(s) /\ seal[s].count = Len(chain[s])
    BY <2>1 DEF ChainVerifies
  <2>3. ASSUME ChainVerifies(s), NEW i \in DOMAIN log, log[i].leaf.session = s
        PROVE  \E k \in 1..seal[s].count : chain[s][k] = log[i].leaf
    <3>1. seal[s].count = Len(chain[s])
      BY <2>1, <2>3 DEF ChainVerifies
    <3>2. i \in 1..Len(log)
      BY DEF TypeOK
    <3>3. /\ log[i].leaf.at \in 1..Len(chain[log[i].leaf.session])
          /\ log[i].leaf = chain[log[i].leaf.session][log[i].leaf.at]
      BY <3>2 DEF LogInv
    <3> QED BY <2>3, <3>1, <3>3
  <2> QED BY <2>2, <2>3
<1> QED BY <1>1, InductiveIInv, PTL

(* Whenever the model is asked, every answer that stopped for its tools has *)
(* all their results behind it, and an answer that was cut off the next     *)
(* prompt, its blocks unanswered: over any number of messages, model calls, *)
(* failures and exhausted loops (submit_message).                           *)
THEOREM OnlyCutOffUnanswered == Spec => []AnsweredUnlessCutOff
<1>1. IInv => AnsweredUnlessCutOff
  <2> SUFFICES ASSUME IInv, NEW s \in Sessions, pc[s] = "api",
                      NEW i \in DOMAIN messages[s],
                      messages[s][i].role = "assistant"
               PROVE  /\ i < Len(messages[s])
                      /\ messages[s][i + 1] = Said(Due(messages[s][i]))
    BY DEF AnsweredUnlessCutOff
  <2> USE DEF IInv
  <2>1. i \in 1..Len(messages[s])
    BY DEF TypeOK
  <2>2. Followed(messages[s], "api")
    BY DEF TalkInv
  <2> QED BY <2>1, <2>2 DEF Followed
<1> QED BY <1>1, InductiveIInv, PTL
===============================================================================
