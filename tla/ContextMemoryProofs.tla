-------------------------- MODULE ContextMemoryProofs --------------------------
(* The invariants of ContextMemory, proved for any number of messages that  *)
(* are kept verbatim, any sizes and any length of a conversation.           *)
EXTENDS ContextMemory, SequenceTheorems, FiniteSetTheorems, TLAPS

Kinds == {"prompt", "result", "answer", "call"}
States == [how : {"none", "summary", "extract", "failed"}, covers : SUBSET Nat]
Item == [kind : Users \cup Assistants, id : Nat, size : Nat]
Items == Seq(Item)
Line == {Broken} \cup [turn : Nat, warm : States, whole : BOOLEAN, hot : Items]

(* The messages before the verbatim ones: the block and its ack, or none.   *)
Lead(state) == IF state = NoState THEN 0 ELSE 2

(* A list of messages is the end of what was said, behind the block of the  *)
(* state if there is one.                                                   *)
Verbatim(ms, said, state) ==
    /\ ms \in Items /\ said \in Seq(Kinds) /\ state \in States
    /\ Len(ms) - Lead(state) <= Len(said)
    /\ state = NoState => Len(ms) = Len(said)
    /\ state # NoState =>
          /\ Len(ms) >= Hot + 2
          /\ ms[1] = Entry("warm", 0, WarmSize)
          /\ ms[2] = Ack
    /\ \A i \in 1..Len(ms) : i > Lead(state) =>
          /\ ms[i].id = Len(said) - Len(ms) + i
          /\ ms[i].kind = said[ms[i].id]
          /\ ms[i].size \in Sizes
    /\ state.covers \subseteq 1..Len(said)

(* A text that was said is in the state or verbatim, or was lost.           *)
Covered(ms, said, state, gone) ==
    \A id \in 1..Len(said) : said[id] # "result" /\ id \notin gone =>
        id \in state.covers \/ id > Len(said) - (Len(ms) - Lead(state))

FileInv ==
    /\ cold \in Seq(Line) /\ Len(cold) <= MaxSaves
    /\ open \in BOOLEAN
    /\ open => Len(cold) > 0

IInv ==
    /\ pc \in {"idle", "ask", "call", "tools", "ended", "failed"}
    /\ client \in BOOLEAN /\ missed \in BOOLEAN
    /\ turn \in Nat /\ turn <= Len(history)
    /\ Verbatim(messages, history, warm)
    /\ Covered(messages, history, warm, lost)
    /\ FileInv

-----------------------------------------------------------------------------
(* Compression                                                              *)

LEMMA Shapes ==
    /\ NoState \in States /\ NoState.covers = {}
    /\ Entry("warm", 0, WarmSize) \in Item /\ Ack \in Item
    /\ \A c \in SUBSET Nat : \A how \in {"summary", "extract", "failed"} :
          /\ State(how, c) \in States /\ State(how, c) # NoState
          /\ State(how, c).covers = c /\ State(how, c).how = how
<1>1. Entry("warm", 0, WarmSize) \in Item /\ Ack \in Item
  BY ConstantsOK DEF Entry, Ack, Item, Users, Assistants
<1>2. NoState \in States /\ NoState.covers = {} /\ NoState.how = "none"
  BY DEF NoState, State, States
<1>3. ASSUME NEW c \in SUBSET Nat, NEW how \in {"summary", "extract", "failed"}
      PROVE  /\ State(how, c) \in States
             /\ State(how, c).covers = c /\ State(how, c).how = how
  BY DEF State, States
<1> QED BY <1>1, <1>2, <1>3

(* A message keeps its place in the conversation.                           *)
LEMMA Place ==
    ASSUME NEW ms, NEW said, NEW state, Verbatim(ms, said, state), NEW i, i \in 1..Len(ms)
    PROVE  /\ ms[i] \in Item
           /\ i <= Lead(state) => ms[i].id = 0 /\ ms[i].kind \in {"warm", "ack"}
           /\ i > Lead(state) => /\ ms[i].id \in 1..Len(said)
                                 /\ ms[i].id = Len(said) - Len(ms) + i
                                 /\ ms[i].kind = said[ms[i].id]
                                 /\ ms[i].kind \in Kinds
<1>1. /\ ms \in Seq(Item) /\ said \in Seq(Kinds)
      /\ Len(ms) \in Nat /\ Len(said) \in Nat
  BY DEF Verbatim, Items
<1>2. ms[i] \in Item
  BY <1>1
<1>3. ASSUME i <= Lead(state) PROVE ms[i].id = 0 /\ ms[i].kind \in {"warm", "ack"}
  <2>1. state # NoState /\ Lead(state) = 2 /\ (i = 1 \/ i = 2)
    BY <1>3 DEF Lead
  <2>2. ms[1] = Entry("warm", 0, WarmSize) /\ ms[2] = Ack
    BY <2>1 DEF Verbatim
  <2> QED BY <2>1, <2>2 DEF Entry, Ack
<1>4. ASSUME i > Lead(state)
      PROVE  /\ ms[i].id \in 1..Len(said)
             /\ ms[i].id = Len(said) - Len(ms) + i
             /\ ms[i].kind = said[ms[i].id]
             /\ ms[i].kind \in Kinds
  <2>1. /\ ms[i].id = Len(said) - Len(ms) + i
        /\ ms[i].kind = said[ms[i].id]
        /\ Len(ms) - Lead(state) <= Len(said)
    BY <1>4 DEF Verbatim
  <2>2. Lead(state) \in Nat
    BY DEF Lead
  <2>3. ms[i].id \in 1..Len(said)
    BY <1>1, <1>4, <2>1, <2>2
  <2> QED BY <1>1, <2>1, <2>3
<1> QED BY <1>2, <1>3, <1>4

(* What a summary of the older messages covers.                             *)
LEMMA SummaryCovers ==
    ASSUME NEW ms, NEW said, NEW gone,
           Verbatim(ms, said, warm), Covered(ms, said, warm, gone), Len(ms) > Hot,
           NEW state, state \in Summaries(SubSeq(ms, 1, Len(ms) - Hot))
    PROVE  /\ state \in States /\ state # NoState
           /\ state.covers \subseteq 1..Len(said)
           /\ state.how = "summary" =>
                 \A id \in 1..Len(said) :
                    said[id] # "result" /\ id \notin gone =>
                        id \in state.covers \/ id > Len(said) - Hot
<1> DEFINE older == SubSeq(ms, 1, Len(ms) - Hot)
<1>1. /\ ms \in Seq(Item) /\ said \in Seq(Kinds)
      /\ Len(ms) \in Nat /\ Len(said) \in Nat /\ Hot \in Nat
      /\ warm.covers \subseteq 1..Len(said)
  BY ConstantsOK DEF Verbatim, Items
<1>2. DOMAIN older = 1..(Len(ms) - Hot) /\ \A i \in 1..(Len(ms) - Hot) : older[i] = ms[i]
  BY <1>1
<1>3. \A i \in DOMAIN older : i \in 1..Len(ms) /\ older[i] = ms[i]
  BY <1>1, <1>2
<1> HIDE DEF older
<1>4. ASSUME NEW i \in DOMAIN older
      PROVE  older[i].id \in 0..Len(said)
             /\ (older[i].kind \in {"prompt", "answer", "call"} => older[i].id \in 1..Len(said))
  <2>1. i \in 1..Len(ms) /\ older[i] = ms[i]
    BY <1>3
  <2>2. CASE i > Lead(warm)
    BY <1>1, <2>1, <2>2, Place
  <2>3. CASE i <= Lead(warm)
    <3>1. ms[i].id = 0 /\ ms[i].kind \in {"warm", "ack"}
      BY <2>1, <2>3, Place
    <3> QED BY <1>1, <2>1, <3>1
  <2>4. i > Lead(warm) \/ i <= Lead(warm)
    BY <2>1, <1>1 DEF Lead
  <2> QED BY <2>2, <2>3, <2>4
<1>5. CASE state = Summary(older)
  <2> DEFINE c == Ids(older, {"prompt", "answer", "call"}) \cup warm.covers
  <2>1. state = State("summary", c)
    BY <1>5 DEF Summary
  <2>2. c \subseteq 1..Len(said)
    BY <1>1, <1>4 DEF Ids
  <2>3. c \in SUBSET Nat
    BY <1>1, <2>2
  <2>4. /\ state \in States /\ state # NoState /\ state.covers = c
    BY <2>1, <2>3, Shapes
  <2>5. ASSUME NEW id \in 1..Len(said), said[id] # "result", id \notin gone,
               ~(id > Len(said) - Hot)
        PROVE  id \in c
    <3>1. CASE id \in warm.covers
      BY <3>1
    <3>2. CASE id \notin warm.covers
      <4>1. id > Len(said) - (Len(ms) - Lead(warm))
        BY <2>5, <3>2 DEF Covered
      <4>2. Lead(warm) \in Nat
        BY DEF Lead
      <4> DEFINE i == Len(ms) - Len(said) + id
      <4>3. /\ i \in 1..(Len(ms) - Hot) /\ i > Lead(warm) /\ i \in 1..Len(ms)
            /\ Len(said) - Len(ms) + i = id
        BY <1>1, <2>5, <4>1, <4>2
      <4> HIDE DEF i
      <4>4. ms[i].id = id /\ ms[i].kind = said[id] /\ ms[i].kind \in Kinds
        BY <4>3, Place
      <4>5. i \in DOMAIN older /\ older[i] = ms[i]
        BY <1>2, <4>3
      <4>6. older[i].kind \in {"prompt", "answer", "call"} /\ older[i].id = id
        BY <2>5, <4>4, <4>5 DEF Kinds
      <4> QED BY <4>5, <4>6 DEF Ids
    <3> QED BY <3>1, <3>2
  <2> HIDE DEF c
  <2> QED BY <2>2, <2>4, <2>5
<1>6. CASE state = State("failed", {})
  BY <1>6, Shapes
<1>7. CASE state = Extract(older)
  <2> DEFINE c == {older[i].id : i \in Shown(older)} \ {0}
  <2>0. state = State("extract", c)
    BY <1>7 DEF Extract
  <2>1. Shown(older) \subseteq DOMAIN older
    BY DEF Shown
  <2>2. c \subseteq 1..Len(said)
    <3> SUFFICES ASSUME NEW x, x \in c PROVE x \in 1..Len(said)
      OBVIOUS
    <3>1. PICK i \in Shown(older) : x = older[i].id
      OBVIOUS
    <3>2. x \in 0..Len(said) /\ x # 0
      BY <1>4, <2>1, <3>1
    <3> QED BY <1>1, <3>2
  <2> HIDE DEF c
  <2>3. c \in SUBSET Nat
    BY <1>1, <2>2
  <2>5. state \in States /\ state # NoState /\ state.covers = c /\ state.how = "extract"
    BY <2>0, <2>3, Shapes
  <2> QED BY <2>2, <2>5
<1>8. state \in Summaries(older)
  BY DEF older
<1> QED BY <1>5, <1>6, <1>7, <1>8 DEF Summaries

(* Two messages before others.                                              *)
LEMMA ConcatTwo ==
    ASSUME NEW S, NEW a, a \in Seq(S), NEW b, b \in Seq(S), NEW n, n \in Nat,
           Len(a) = 2, Len(b) = n
    PROVE  /\ a \o b \in Seq(S) /\ Len(a \o b) = n + 2
           /\ \A i \in 1..(n + 2) : (a \o b)[i] = IF i <= 2 THEN a[i] ELSE b[i - 2]
<1>1. a \o b \in Seq(S) /\ Len(a \o b) = n + 2
  <2>1. a \o b \in Seq(S) /\ Len(a \o b) = Len(a) + Len(b)
    BY ConcatProperties
  <2> QED BY <2>1
<1>2. ASSUME NEW i \in 1..(n + 2) PROVE (a \o b)[i] = IF i <= 2 THEN a[i] ELSE b[i - 2]
  <2>1. i \in 1..(Len(a) + Len(b)) /\ i \in Nat
    OBVIOUS
  <2>2. (a \o b)[i] = IF i <= Len(a) THEN a[i] ELSE b[i - Len(a)]
    BY <2>1, ConcatProperties
  <2> QED BY <2>2
<1> QED BY <1>1, <1>2

(* Compression keeps the end of what was said, with its block before it,    *)
(* and nothing said is in neither.                                          *)
LEMMA ManagedKeeps ==
    ASSUME NEW system, NEW ms, NEW said,
           Verbatim(ms, said, warm), Covered(ms, said, warm, lost), Managed(system, ms, said)
    PROVE  Verbatim(messages', said, warm') /\ Covered(messages', said, warm', lost')
<1>1. CASE messages' = ms /\ UNCHANGED <<warm, lost>>
  BY <1>1
<1>2. CASE Len(ms) > Hot /\ \E state \in Summaries(SubSeq(ms, 1, Len(ms) - Hot)) :
             /\ warm' = state
             /\ messages' = Compressed(ms, state)
             /\ lost' = IF state.how = "summary" THEN lost ELSE 1..(Len(said) - Hot)
  <2>1. PICK state \in Summaries(SubSeq(ms, 1, Len(ms) - Hot)) :
             /\ warm' = state
             /\ messages' = Compressed(ms, state)
             /\ lost' = IF state.how = "summary" THEN lost ELSE 1..(Len(said) - Hot)
    BY <1>2
  <2>2. /\ state \in States /\ state # NoState
        /\ state.covers \subseteq 1..Len(said)
        /\ state.how = "summary" =>
              \A id \in 1..Len(said) :
                 said[id] # "result" /\ id \notin lost =>
                     id \in state.covers \/ id > Len(said) - Hot
    BY <1>2, <2>1, SummaryCovers
  <2>3. /\ ms \in Seq(Item) /\ said \in Seq(Kinds)
        /\ Len(ms) \in Nat /\ Len(said) \in Nat /\ Hot \in Nat
        /\ Entry("warm", 0, WarmSize) \in Item /\ Ack \in Item
        /\ Len(ms) > Hot
    BY <1>2, Shapes, ConstantsOK DEF Verbatim, Items
  <2>4. Hot <= Len(ms) - Lead(warm)
    <3>1. CASE warm = NoState
      BY <2>3, <3>1 DEF Lead
    <3>2. CASE warm # NoState
      BY <2>3, <3>2 DEF Verbatim, Lead
    <3> QED BY <3>1, <3>2
  <2>5. Hot <= Len(said)
    <3>1. Len(ms) - Lead(warm) <= Len(said)
      BY DEF Verbatim
    <3>2. Lead(warm) \in Nat
      BY DEF Lead
    <3> QED BY <2>3, <2>4, <3>1, <3>2
  <2> DEFINE block == <<Entry("warm", 0, WarmSize), Ack>>
             tail == SubSeq(ms, Len(ms) - Hot + 1, Len(ms))
  <2>6. messages' = block \o tail
    BY <2>1 DEF Compressed
  <2>7. /\ tail \in Seq(Item) /\ Len(tail) = Hot
        /\ \A i \in 1..Hot : tail[i] = ms[Len(ms) - Hot + i]
    BY <2>3
  <2>8. block \in Seq(Item) /\ Len(block) = 2
        /\ block[1] = Entry("warm", 0, WarmSize) /\ block[2] = Ack
    BY <2>3
  <2> HIDE DEF block, tail
  <2>9. /\ messages' \in Seq(Item) /\ Len(messages') = Hot + 2
        /\ messages'[1] = Entry("warm", 0, WarmSize) /\ messages'[2] = Ack
        /\ \A i \in 3..(Hot + 2) : messages'[i] = ms[Len(ms) - Hot + (i - 2)]
    <3>1. /\ messages' \in Seq(Item) /\ Len(messages') = Hot + 2
          /\ \A i \in 1..(Hot + 2) :
                messages'[i] = IF i <= 2 THEN block[i] ELSE tail[i - 2]
      BY <2>3, <2>6, <2>7, <2>8, ConcatTwo
    <3>2. messages'[1] = block[1] /\ messages'[2] = block[2]
      BY <2>3, <3>1
    <3>3. ASSUME NEW i \in 3..(Hot + 2) PROVE messages'[i] = ms[Len(ms) - Hot + (i - 2)]
      <4>1. i - 2 \in 1..Hot /\ i \in 1..(Hot + 2) /\ ~(i <= 2)
        BY <2>3
      <4>2. messages'[i] = tail[i - 2]
        BY <3>1, <4>1
      <4> QED BY <2>7, <4>1, <4>2
    <3> QED BY <2>8, <3>1, <3>2, <3>3
  <2>10. Lead(state) = 2
    BY <2>2 DEF Lead
  <2>11. ASSUME NEW i \in 1..Len(messages'), i > 2
         PROVE  /\ messages'[i].id = Len(said) - Len(messages') + i
                /\ messages'[i].kind = said[messages'[i].id]
                /\ messages'[i].size \in Sizes
    <3> DEFINE j == Len(ms) - Hot + (i - 2)
    <3>1. i \in 3..(Hot + 2)
      BY <2>3, <2>9, <2>11
    <3>2. Lead(warm) \in Nat
      BY DEF Lead
    <3>3. /\ j \in 1..Len(ms) /\ j > Lead(warm)
          /\ Len(said) - Len(ms) + j = Len(said) - Len(messages') + i
      BY <2>3, <2>4, <2>9, <3>1, <3>2
    <3>4. messages'[i] = ms[j]
      BY <2>9, <3>1
    <3> HIDE DEF j
    <3>5. /\ ms[j].id = Len(said) - Len(ms) + j
          /\ ms[j].kind = said[ms[j].id]
          /\ ms[j].size \in Sizes
      BY <3>3 DEF Verbatim
    <3> QED BY <3>3, <3>4, <3>5
  <2>12. Verbatim(messages', said, warm')
    <3>1. Len(messages') - Lead(state) <= Len(said) /\ Len(messages') >= Hot + 2
      BY <2>3, <2>5, <2>9, <2>10
    <3>2. warm' = state
      BY <2>1
    <3> QED BY <2>2, <2>3, <2>9, <2>10, <2>11, <3>1, <3>2 DEF Verbatim, Items
  <2>13. Covered(messages', said, warm', lost')
    <3> SUFFICES ASSUME NEW id \in 1..Len(said), said[id] # "result", id \notin lost'
                 PROVE  id \in warm'.covers \/ id > Len(said) - (Len(messages') - Lead(warm'))
      BY DEF Covered
    <3>1. Len(messages') - Lead(warm') = Hot
      BY <2>1, <2>3, <2>9, <2>10
    <3>2. CASE state.how = "summary"
      BY <2>1, <2>2, <3>1, <3>2
    <3>3. CASE state.how # "summary"
      <4>1. id \notin 1..(Len(said) - Hot)
        BY <2>1, <3>3
      <4>2. id > Len(said) - Hot
        BY <2>3, <4>1
      <4> QED BY <3>1, <4>2
    <3> QED BY <3>2, <3>3
  <2> QED BY <2>12, <2>13
<1> QED BY <1>1, <1>2 DEF Managed

-----------------------------------------------------------------------------
(* The file                                                                 *)

(* A checkpoint of messages is a line.                                      *)
LEMMA CheckpointIsLine ==
    ASSUME NEW ms, ms \in Items, NEW state, state \in States, NEW at, at \in Nat
    PROVE  Checkpoint(state, ms, at) \in Line
<1>1. ms \in Seq(Item) /\ Len(ms) \in Nat /\ Hot \in Nat
  BY ConstantsOK DEF Items
<1> DEFINE kept == IF Len(ms) < Hot THEN ms ELSE SubSeq(ms, Len(ms) - Hot + 1, Len(ms))
<1>2. kept \in Items
  <2>1. CASE Len(ms) < Hot
    BY <2>1
  <2>2. CASE ~(Len(ms) < Hot)
    <3>1. SubSeq(ms, Len(ms) - Hot + 1, Len(ms)) \in Seq(Item)
      BY <1>1, <2>2
    <3> QED BY <2>2, <3>1 DEF Items
  <2> QED BY <2>1, <2>2
<1>3. Checkpoint(state, ms, at) = [turn |-> at, warm |-> state, whole |-> TRUE, hot |-> kept]
  BY DEF Checkpoint
<1> HIDE DEF kept
<1> QED BY <1>2, <1>3 DEF Line

LEMMA PutKeepsFile ==
    ASSUME FileInv, NEW line, line \in Line, NEW ended, ended \in BOOLEAN,
           Put(line, ended), Len(cold) < MaxSaves
    PROVE  FileInv'
<1>1. /\ cold \in Seq(Line) /\ Len(cold) \in Nat /\ open \in BOOLEAN
      /\ MaxSaves \in Nat /\ Len(cold) < MaxSaves
  BY ConstantsOK DEF FileInv
<1>2. Broken \in Line
  BY DEF Line
<1>3. open' \in BOOLEAN
  BY DEF Put
<1>4. CASE open
  <2>1. cold' = [cold EXCEPT ![Len(cold)] = Broken]
    BY <1>4 DEF Put
  <2>2. Len(cold) \in 1..Len(cold)
    BY <1>1, <1>4 DEF FileInv
  <2>3. cold' \in Seq(Line) /\ Len(cold') = Len(cold)
    BY <1>1, <1>2, <2>1, <2>2
  <2> QED BY <1>1, <1>3, <2>2, <2>3 DEF FileInv
<1>5. CASE ~open
  <2>1. cold' = Append(cold, line)
    BY <1>5 DEF Put
  <2>2. cold' \in Seq(Line) /\ Len(cold') = Len(cold) + 1
    BY <1>1, <2>1
  <2> QED BY <1>1, <1>3, <2>2 DEF FileInv
<1> QED BY <1>1, <1>4, <1>5

LEMMA SaveKeepsFile ==
    ASSUME FileInv, NEW line, line \in Line, Len(cold) < MaxSaves,
           Save(line) \/ SaveFails(line)
    PROVE  FileInv'
<1>1. Broken \in Line
  BY DEF Line
<1>2. CASE UNCHANGED <<cold, open>>
  BY <1>2 DEF FileInv
<1>3. CASE \E part \in {line, Broken}, ended \in BOOLEAN : Put(part, ended)
  BY <1>1, <1>3, PutKeepsFile
<1> QED BY <1>2, <1>3 DEF Save, SaveFails

-----------------------------------------------------------------------------
(* The steps                                                                *)

LEMMA InitIInv == Init => IInv
<1> SUFFICES ASSUME Init PROVE IInv
  OBVIOUS
<1>1. Verbatim(messages, history, warm)
  BY Shapes DEF Init, Verbatim, Items, Lead
<1>2. Covered(messages, history, warm, lost)
  BY DEF Init, Covered
<1>3. FileInv
  <2>1. MaxSaves \in Nat
    BY ConstantsOK
  <2>2. cold \in Seq(Line) /\ Len(cold) = 0
    BY DEF Init
  <2>3. Len(cold) <= MaxSaves
    BY <2>1, <2>2
  <2>4. ~open /\ open \in BOOLEAN
    BY DEF Init
  <2> HIDE DEF Init
  <2> QED BY <2>2, <2>3, <2>4 DEF FileInv
<1>4. turn \in Nat /\ turn <= Len(history)
  BY DEF Init
<1>5. /\ pc \in {"idle", "ask", "call", "tools", "ended", "failed"}
      /\ client \in BOOLEAN /\ missed \in BOOLEAN
  BY DEF Init
<1> QED BY <1>1, <1>2, <1>3, <1>4, <1>5 DEF IInv

(* A message is added to what was said.                                     *)
LEMMA Added ==
    ASSUME NEW ms, NEW said, NEW state, NEW gone,
           Verbatim(ms, said, state), Covered(ms, said, state, gone),
           NEW kind, kind \in Kinds, NEW size, size \in Sizes,
           NEW more, more = Append(ms, Entry(kind, Len(said) + 1, size)),
           NEW turned, turned = Append(said, kind)
    PROVE  Verbatim(more, turned, state) /\ Covered(more, turned, state, gone)
<1> DEFINE entry == Entry(kind, Len(said) + 1, size)
<1>1. /\ ms \in Seq(Item) /\ said \in Seq(Kinds) /\ state \in States
      /\ Len(ms) \in Nat /\ Len(said) \in Nat /\ Hot \in Nat
      /\ Lead(state) \in Nat
  BY ConstantsOK DEF Verbatim, Items, Lead
<1>2. entry \in Item
  BY <1>1, ConstantsOK DEF Entry, Item, Kinds, Users, Assistants
<1>3. entry.id = Len(said) + 1 /\ entry.kind = kind /\ entry.size = size
  BY DEF Entry
<1>4. more = Append(ms, entry)
  OBVIOUS
<1> HIDE DEF entry
<1>5. /\ more \in Seq(Item) /\ Len(more) = Len(ms) + 1
      /\ more[Len(ms) + 1] = entry
      /\ \A i \in 1..Len(ms) : more[i] = ms[i]
  BY <1>1, <1>2, <1>4
<1>6. /\ turned \in Seq(Kinds) /\ Len(turned) = Len(said) + 1
      /\ turned[Len(said) + 1] = kind
      /\ \A i \in 1..Len(said) : turned[i] = said[i]
  BY <1>1
<1>7. ASSUME NEW i \in 1..Len(more), i > Lead(state)
      PROVE  /\ more[i].id = Len(turned) - Len(more) + i
             /\ more[i].kind = turned[more[i].id]
             /\ more[i].size \in Sizes
  <2>1. CASE i = Len(ms) + 1
    <3>1. more[i] = entry
      BY <1>5, <2>1
    <3>2. Len(turned) - Len(more) + i = Len(said) + 1
      BY <1>1, <1>5, <1>6, <2>1
    <3> QED BY <1>3, <1>6, <3>1, <3>2
  <2>2. CASE i # Len(ms) + 1
    <3>1. i \in 1..Len(ms) /\ Len(turned) - Len(more) = Len(said) - Len(ms)
      BY <1>1, <1>5, <1>6, <2>2
    <3>2. more[i] = ms[i]
      BY <1>5, <3>1
    <3>3. /\ ms[i].id \in 1..Len(said) /\ ms[i].id = Len(said) - Len(ms) + i
          /\ ms[i].kind = said[ms[i].id]
      BY <1>7, <3>1, Place
    <3>4. ms[i].size \in Sizes
      BY <1>7, <3>1 DEF Verbatim
    <3> QED BY <1>6, <3>1, <3>2, <3>3, <3>4
  <2> QED BY <2>1, <2>2
<1>8. Verbatim(more, turned, state)
  <2>1. Len(more) - Lead(state) <= Len(turned)
    <3>1. Len(ms) - Lead(state) <= Len(said)
      BY DEF Verbatim
    <3> QED BY <1>1, <1>5, <1>6, <3>1
  <2>2. state = NoState => Len(more) = Len(turned)
    BY <1>5, <1>6 DEF Verbatim
  <2>3. state # NoState => /\ Len(more) >= Hot + 2
                           /\ more[1] = Entry("warm", 0, WarmSize)
                           /\ more[2] = Ack
    <3> SUFFICES ASSUME state # NoState
                 PROVE  /\ Len(more) >= Hot + 2
                        /\ more[1] = Entry("warm", 0, WarmSize)
                        /\ more[2] = Ack
      OBVIOUS
    <3>1. /\ Len(ms) >= Hot + 2
          /\ ms[1] = Entry("warm", 0, WarmSize) /\ ms[2] = Ack
      BY DEF Verbatim
    <3>2. 1 \in 1..Len(ms) /\ 2 \in 1..Len(ms) /\ Len(more) >= Hot + 2
      BY <1>1, <1>5, <3>1
    <3> QED BY <1>5, <3>1, <3>2
  <2>4. state.covers \subseteq 1..Len(turned)
    <3>1. state.covers \subseteq 1..Len(said)
      BY DEF Verbatim
    <3>2. 1..Len(said) \subseteq 1..Len(turned)
      BY <1>1, <1>6
    <3> QED BY <3>1, <3>2
  <2> QED BY <1>1, <1>5, <1>6, <1>7, <2>1, <2>2, <2>3, <2>4 DEF Verbatim, Items
<1>9. Covered(more, turned, state, gone)
  <2> SUFFICES ASSUME NEW id \in 1..Len(turned), turned[id] # "result", id \notin gone,
                      id \notin state.covers
               PROVE  id > Len(turned) - (Len(more) - Lead(state))
    BY DEF Covered
  <2>1. Len(turned) - (Len(more) - Lead(state)) = Len(said) - (Len(ms) - Lead(state))
    BY <1>1, <1>5, <1>6
  <2>2. CASE id = Len(said) + 1
    <3>1. Len(ms) - Lead(state) >= 0
      <4>1. CASE state = NoState
        BY <1>1, <4>1 DEF Lead
      <4>2. CASE state # NoState
        BY <1>1, <4>2 DEF Verbatim, Lead
      <4> QED BY <4>1, <4>2
    <3> QED BY <1>1, <2>1, <2>2, <3>1
  <2>3. CASE id # Len(said) + 1
    <3>1. id \in 1..Len(said) /\ turned[id] = said[id]
      BY <1>1, <1>6, <2>3
    <3>2. id > Len(said) - (Len(ms) - Lead(state))
      BY <3>1 DEF Covered
    <3> QED BY <2>1, <3>2
  <2> QED BY <2>2, <2>3
<1> QED BY <1>8, <1>9

LEMMA AddIInv ==
    ASSUME IInv, NEW kind, kind \in Kinds, NEW size, size \in Sizes, Add(kind, size),
           pc' \in {"idle", "ask"}
    PROVE  IInv'
<1> USE DEF IInv
<1>1. /\ messages' = Append(messages, Entry(kind, Len(history) + 1, size))
      /\ history' = Append(history, kind)
      /\ UNCHANGED <<client, warm, turn, cold, open, lost, missed>>
  BY DEF Add
<1>2. Verbatim(messages', history', warm) /\ Covered(messages', history', warm, lost)
  BY <1>1, Added
<1>3. turn' \in Nat /\ turn' <= Len(history')
  <2>1. history \in Seq(Kinds)
    BY DEF Verbatim
  <2>2. Len(history') = Len(history) + 1 /\ Len(history) \in Nat
    BY <1>1, <2>1
  <2> QED BY <1>1, <2>2
<1>4. FileInv'
  BY <1>1 DEF FileInv
<1> QED BY <1>1, <1>2, <1>3, <1>4

LEMMA GetMessagesIInv == ASSUME IInv, GetMessages PROVE IInv'
<1> USE DEF IInv
<1>1. /\ Managed(System, messages, history) /\ pc' = "call"
      /\ UNCHANGED <<client, turn, cold, open, history, missed>>
  BY DEF GetMessages, Goto
<1>2. Verbatim(messages', history, warm') /\ Covered(messages', history, warm', lost')
  BY <1>1, ManagedKeeps
<1>3. FileInv'
  BY <1>1 DEF FileInv
<1> QED BY <1>1, <1>2, <1>3

LEMMA AnswerIInv ==
    ASSUME IInv, NEW kind, kind \in {"answer", "call"}, NEW size, size \in Sizes,
           Answer(kind, size)
    PROVE  IInv'
<1> USE DEF IInv
<1> DEFINE turned == Append(history, kind)
           added == Append(messages, Entry(kind, Len(turned), size))
           line == Checkpoint(warm', messages', turn')
<1>1. /\ history' = turned /\ turn' = turn + 1 /\ Managed(0, added, turned)
      /\ UNCHANGED client
  BY DEF Answer
<1>2. /\ missed' \in BOOLEAN
      /\ pc' \in {"tools", "idle"}
      /\ \/ UNCHANGED <<cold, open>>
         \/ Len(cold) < MaxSaves /\ (Save(line) \/ SaveFails(line))
  BY DEF Answer, Goto
<1>3. history \in Seq(Kinds) /\ Len(history) \in Nat /\ Len(turned) = Len(history) + 1
  BY DEF Verbatim
<1>4. Verbatim(added, turned, warm) /\ Covered(added, turned, warm, lost)
  <2>1. added = Append(messages, Entry(kind, Len(history) + 1, size))
    BY <1>3
  <2>2. kind \in Kinds
    BY DEF Kinds
  <2> QED BY <2>1, <2>2, Added
<1> HIDE DEF turned, added, line
<1>5. Verbatim(messages', turned, warm') /\ Covered(messages', turned, warm', lost')
  BY <1>1, <1>4, ManagedKeeps
<1>6. turn' \in Nat /\ turn' <= Len(history')
  BY <1>1, <1>3
<1>7. FileInv'
  <2>1. CASE UNCHANGED <<cold, open>>
    BY <2>1 DEF FileInv
  <2>2. CASE Len(cold) < MaxSaves /\ (Save(line) \/ SaveFails(line))
    <3>1. messages' \in Items /\ warm' \in States
      BY <1>5 DEF Verbatim
    <3>2. line \in Line
      BY <1>6, <3>1, CheckpointIsLine DEF line
    <3> QED BY <2>2, <3>2, SaveKeepsFile
  <2> QED BY <1>2, <2>1, <2>2
<1> QED BY <1>1, <1>2, <1>5, <1>6, <1>7

LEMMA AnswerRaisesIInv ==
    ASSUME IInv, NEW kind, kind \in {"answer", "call"}, NEW size, size \in Sizes,
           AnswerRaises(kind, size)
    PROVE  IInv'
<1> USE DEF IInv
<1>1. /\ history' = Append(history, kind) /\ turn' = turn + 1
      /\ messages' = Append(messages, Entry(kind, Len(history'), size))
      /\ missed' = (missed \/ Due(turn')) /\ pc' = "idle"
      /\ UNCHANGED <<client, warm, cold, open, lost>>
  BY DEF AnswerRaises, Goto
<1>2. history \in Seq(Kinds) /\ Len(history) \in Nat /\ kind \in Kinds
  BY DEF Verbatim, Kinds
<1>3. Len(history') = Len(history) + 1
  BY <1>1, <1>2
<1>4. Verbatim(messages', history', warm) /\ Covered(messages', history', warm, lost)
  BY <1>1, <1>2, <1>3, Added
<1>5. turn' \in Nat /\ turn' <= Len(history')
  BY <1>1, <1>2, <1>3
<1>6. FileInv'
  BY <1>1 DEF FileInv
<1>7. missed' \in BOOLEAN
  BY <1>1 DEF Due
<1> QED BY <1>1, <1>4, <1>5, <1>6, <1>7

LEMMA ForceCheckpointIInv == ASSUME IInv, ForceCheckpoint PROVE IInv'
<1> USE DEF IInv
<1> DEFINE line == Checkpoint(warm, messages, turn)
<1>1. /\ Len(cold) < MaxSaves
      /\ Save(line) \/ SaveFails(line)
      /\ missed' \in BOOLEAN
      /\ UNCHANGED <<pc, client, messages, warm, turn, history, lost>>
  BY DEF ForceCheckpoint, memory
<1>2. line \in Line
  BY CheckpointIsLine DEF Verbatim
<1> HIDE DEF line
<1>3. FileInv'
  BY <1>1, <1>2, SaveKeepsFile
<1> QED BY <1>1, <1>3

LEMMA StopIInv == ASSUME IInv, Stop PROVE IInv'
<1> USE DEF IInv
<1>1. /\ pc' = "ended" /\ messages' = <<>> /\ warm' = NoState /\ turn' = 0
      /\ history' = <<>> /\ lost' = {} /\ missed' = FALSE
      /\ UNCHANGED <<client, cold, open>>
  BY DEF Stop, Goto
<1>2. Verbatim(<<>>, <<>>, NoState)
  BY Shapes DEF Verbatim, Items, Lead
<1>3. Covered(<<>>, <<>>, NoState, {})
  BY DEF Covered
<1>4. FileInv'
  BY <1>1 DEF FileInv
<1>5. Verbatim(messages', history', warm') /\ Covered(messages', history', warm', lost')
  BY <1>1, <1>2, <1>3
<1>6. turn' \in Nat /\ turn' <= Len(history')
  BY <1>1
<1>7. client' \in BOOLEAN /\ missed' \in BOOLEAN /\ pc' = "ended"
  BY <1>1
<1> QED BY <1>4, <1>5, <1>6, <1>7

LEMMA StepIInv == IInv /\ [Next]_vars => IInv'
<1> SUFFICES ASSUME IInv, [Next]_vars PROVE IInv'
  OBVIOUS
<1>1. ASSUME NEW size \in Sizes, Prompt(size) PROVE IInv'
  BY <1>1, AddIInv DEF Prompt, Goto, Kinds
<1>2. ASSUME NEW size \in Sizes, Results(size) PROVE IInv'
  BY <1>2, AddIInv DEF Results, Goto, Kinds
<1>3. ASSUME NEW kind \in {"answer", "call"}, NEW size \in Sizes, Answer(kind, size)
      PROVE  IInv'
  BY <1>3, AnswerIInv
<1>4. CASE ApiFails
  BY <1>4 DEF ApiFails, Goto, memory, ghosts, IInv, FileInv
<1>5. CASE Create
  BY <1>5 DEF Create, Goto, memory, ghosts, IInv, FileInv
<1>6. CASE UNCHANGED vars
  BY <1>6 DEF vars, memory, ghosts, IInv, FileInv
<1>7. ASSUME NEW kind \in {"answer", "call"}, NEW size \in Sizes,
             AnswerRaises(kind, size)
      PROVE  IInv'
  BY <1>7, AnswerRaisesIInv
<1> QED BY <1>1, <1>2, <1>3, <1>4, <1>5, <1>6, <1>7, GetMessagesIInv, ForceCheckpointIInv,
           StopIInv DEF Next

LEMMA InductiveIInv == Spec => []IInv
BY InitIInv, StepIInv, PTL DEF Spec

-----------------------------------------------------------------------------
(* The list of messages is well formed, the state is there just when its    *)
(* block is, and the file keeps within its bound (ContextManager).          *)
THEOREM MemoryTypes == Spec => []TypeOK
<1>1. IInv => TypeOK
  <2> SUFFICES ASSUME IInv PROVE TypeOK
    OBVIOUS
  <2> USE DEF IInv
  <2>1. /\ messages \in Seq(Item) /\ history \in Seq(Kinds) /\ warm \in States
        /\ Len(messages) \in Nat /\ Len(history) \in Nat
    BY DEF Verbatim, Items
  <2>2. ASSUME NEW i \in DOMAIN messages
        PROVE  /\ messages[i].kind \in Users \cup Assistants
               /\ messages[i].id \in 0..Len(history)
               /\ messages[i].size \in Sizes \cup {0, WarmSize}
               /\ messages[i].id = 0 <=> messages[i].kind \in {"warm", "ack"}
    <3>1. i \in 1..Len(messages)
      BY <2>1
    <3>2. CASE i <= Lead(warm)
      <4>1. messages[i].id = 0 /\ messages[i].kind \in {"warm", "ack"}
        BY <3>1, <3>2, Place
      <4>2. warm # NoState /\ (i = 1 \/ i = 2)
        BY <3>1, <3>2 DEF Lead
      <4>3. messages[1] = Entry("warm", 0, WarmSize) /\ messages[2] = Ack
        BY <4>2 DEF Verbatim
      <4>4. messages[i].size \in {0, WarmSize}
        BY <4>2, <4>3 DEF Entry, Ack
      <4> QED BY <2>1, <4>1, <4>4 DEF Users, Assistants
    <3>3. CASE i > Lead(warm)
      <4>1. messages[i].id \in 1..Len(history) /\ messages[i].kind \in Kinds
        BY <3>1, <3>3, Place
      <4>2. messages[i].size \in Sizes
        BY <3>1, <3>3 DEF Verbatim
      <4> QED BY <2>1, <4>1, <4>2 DEF Kinds, Users, Assistants
    <3> QED BY <3>1, <3>2, <3>3 DEF Lead
  <2>3. warm.how \in {"none", "summary", "extract", "failed"}
    BY <2>1 DEF States
  <2>4. warm.covers \subseteq 1..Len(history)
    BY DEF Verbatim
  <2>5. warm # NoState <=> messages # <<>> /\ messages[1].kind = "warm"
    <3>1. CASE warm # NoState
      <4>1. messages[1] = Entry("warm", 0, WarmSize) /\ Len(messages) >= Hot + 2
        BY <3>1 DEF Verbatim
      <4>2. messages # <<>>
        BY <2>1, <4>1, ConstantsOK
      <4> QED BY <3>1, <4>1, <4>2 DEF Entry
    <3>2. CASE warm = NoState
      <4> SUFFICES ASSUME messages # <<>> PROVE messages[1].kind # "warm"
        BY <3>2
      <4>1. 1 \in 1..Len(messages) /\ 1 > Lead(warm)
        BY <2>1, <3>2 DEF Lead
      <4>2. messages[1].kind \in Kinds
        BY <4>1, Place
      <4> QED BY <4>2 DEF Kinds
    <3> QED BY <3>1, <3>2
  <2>6. turn \in 0..Len(history)
    BY <2>1
  <2>7. Len(cold) <= MaxSaves /\ open \in BOOLEAN
    BY DEF FileInv
  <2> QED BY <2>2, <2>3, <2>4, <2>5, <2>6, <2>7 DEF TypeOK
<1> QED BY <1>1, InductiveIInv, PTL

(* However often it is compressed, the conversation the model is given      *)
(* ends in the real one's last messages, HOT_MESSAGES of them at least      *)
(* (compress, get_messages, add_assistant_turn).                            *)
THEOREM TheTailStaysVerbatim == Spec => []TailIsVerbatim
<1>1. IInv => TailIsVerbatim
  <2> SUFFICES ASSUME IInv PROVE TailIsVerbatim
    OBVIOUS
  <2> USE DEF IInv
  <2> DEFINE tail == IF warm = NoState THEN messages ELSE SubSeq(messages, 3, Len(messages))
  <2>1. /\ messages \in Seq(Item) /\ history \in Seq(Kinds)
        /\ Len(messages) \in Nat /\ Len(history) \in Nat /\ Hot \in Nat
    BY ConstantsOK DEF Verbatim, Items
  <2>2. /\ tail \in Seq(Item) /\ Len(tail) = Len(messages) - Lead(warm)
        /\ \A i \in 1..Len(tail) : tail[i] = messages[i + Lead(warm)]
    <3>1. CASE warm = NoState
      BY <2>1, <3>1 DEF Lead
    <3>2. CASE warm # NoState
      <4>1. Len(messages) >= 2
        BY <2>1, <3>2 DEF Verbatim
      <4>2. tail = SubSeq(messages, 3, Len(messages)) /\ Lead(warm) = 2
        BY <3>2 DEF Lead
      <4> HIDE DEF tail, IInv
      <4>3. tail \in Seq(Item) /\ Len(tail) = Len(messages) - 2
        <5>1. \A i \in 3..Len(messages) : messages[i] \in Item
          BY <2>1
        <5>2. /\ SubSeq(messages, 3, Len(messages)) \in Seq(Item)
              /\ Len(SubSeq(messages, 3, Len(messages)))
                    = IF 3 <= Len(messages) THEN Len(messages) - 3 + 1 ELSE 0
          BY <2>1, <5>1, SubSeqProperties
        <5> DEFINE n == Len(SubSeq(messages, 3, Len(messages)))
        <5>3. n = IF 3 <= Len(messages) THEN Len(messages) - 3 + 1 ELSE 0
          BY <5>2
        <5> HIDE DEF n
        <5> DEFINE m == Len(messages)
        <5>4. m \in Nat /\ m >= 2 /\ n = IF 3 <= m THEN m - 3 + 1 ELSE 0
          BY <2>1, <4>1, <5>3
        <5> HIDE DEF m
        <5>5. n = m - 2
          BY <5>4
        <5> QED BY <4>2, <5>2, <5>5 DEF n, m
      <4>4. ASSUME NEW i \in 1..Len(tail) PROVE tail[i] = messages[i + 2]
        <5>1. i \in 1..(Len(messages) - 3 + 1) /\ 3 + i - 1 = i + 2
          BY <2>1, <4>1, <4>3
        <5>2. \A j \in 3..Len(messages) : messages[j] \in Item
          BY <2>1
        <5>3. SubSeq(messages, 3, Len(messages))[i] = messages[3 + i - 1]
          BY <2>1, <5>1, <5>2, SubSeqProperties
        <5> QED BY <4>2, <5>1, <5>3
      <4> QED BY <4>2, <4>3, <4>4
    <3> QED BY <3>1, <3>2
  <2>3. Lead(warm) \in Nat
    BY DEF Lead
  <2>4. warm # NoState => /\ Len(messages) >= Hot + 2
                          /\ messages[1] = Entry("warm", 0, WarmSize)
                          /\ messages[2] = Ack
    BY DEF Verbatim
  <2>5. Len(tail) >= Hot \/ Len(tail) = Len(history)
    <3>1. CASE warm = NoState
      BY <2>1, <2>2, <3>1 DEF Verbatim, Lead
    <3>2. CASE warm # NoState
      <4>1. Lead(warm) = 2
        BY <3>2 DEF Lead
      <4> HIDE DEF tail
      <4> QED BY <2>1, <2>2, <2>4, <3>2, <4>1
    <3> QED BY <3>1, <3>2
  <2> HIDE DEF tail
  <2>6. EndsAt(tail, Len(history))
    <3> SUFFICES ASSUME NEW i \in 1..Len(tail)
                 PROVE  /\ tail[i].id = Len(history) - Len(tail) + i
                        /\ tail[i].kind = history[tail[i].id]
      BY <2>2 DEF EndsAt
    <3>1. /\ i + Lead(warm) \in 1..Len(messages) /\ i + Lead(warm) > Lead(warm)
          /\ Len(history) - Len(messages) + (i + Lead(warm)) = Len(history) - Len(tail) + i
      BY <2>1, <2>2, <2>3
    <3>2. tail[i] = messages[i + Lead(warm)]
      BY <2>2
    <3> QED BY <3>1, <3>2, Place
  <2>7. warm # NoState => Len(messages) >= 2
    BY <2>1, <2>4
  <2> QED BY <2>4, <2>5, <2>6, <2>7 DEF TailIsVerbatim, tail
<1> QED BY <1>1, InductiveIInv, PTL

(* Through summaries of summaries, a text is verbatim or in the summary,    *)
(* but for what a lapse of the summarizer left out (_summarize).            *)
THEOREM SummariesKeepTexts == Spec => []SummariesAccumulate
<1>1. IInv => SummariesAccumulate
  <2> SUFFICES ASSUME IInv, NEW id \in DOMAIN history, history[id] # "result", id \notin lost,
                      id \notin warm.covers
               PROVE  \E i \in DOMAIN messages : messages[i].id = id
    BY DEF SummariesAccumulate
  <2> USE DEF IInv
  <2>1. /\ messages \in Seq(Item) /\ history \in Seq(Kinds)
        /\ Len(messages) \in Nat /\ Len(history) \in Nat /\ Lead(warm) \in Nat
        /\ id \in 1..Len(history)
    BY DEF Verbatim, Items, Lead
  <2>2. id > Len(history) - (Len(messages) - Lead(warm))
    BY <2>1 DEF Covered
  <2> DEFINE i == Len(messages) - Len(history) + id
  <2>3. /\ i > Lead(warm) /\ i \in 1..Len(messages)
        /\ Len(history) - Len(messages) + i = id
    BY <2>1, <2>2
  <2> HIDE DEF i
  <2>4. messages[i].id = id
    BY <2>3, Place
  <2> QED BY <2>1, <2>3, <2>4
<1> QED BY <1>1, InductiveIInv, PTL
-----------------------------------------------------------------------------
(* The checkpoints keep up                                                  *)

(* Remainders.                                                              *)
LEMMA Divided ==
    ASSUME NEW t \in Nat, NEW n \in Nat \ {0}
    PROVE  /\ t \div n \in Nat /\ (t % n) \in 0..(n - 1)
           /\ t = (n * (t \div n)) + (t % n)
BY SMTT(20)

LEMMA SmallMultiple ==
    ASSUME NEW q \in Int, NEW n \in Nat \ {0}, NEW r \in Int,
           n + r > 0, r < n, n * q = r
    PROVE  q = 0
BY SMTT(20)

LEMMA NextRemainder ==
    ASSUME NEW t \in Nat, NEW n \in Nat \ {0}, (t + 1) % n # 0
    PROVE  (t + 1) % n = (t % n) + 1
<1>1. PICK q \in Nat, r \in 0..(n - 1) : t = (n * q) + r /\ r = t % n
  BY Divided
<1>2. PICK p \in Nat, s \in 0..(n - 1) : t + 1 = (n * p) + s /\ s = (t + 1) % n
  <2>1. t + 1 \in Nat
    OBVIOUS
  <2> QED BY <2>1, Divided
<1>3. n * (p - q) = r + 1 - s
  BY <1>1, <1>2, SMTT(20)
<1>4. s # 0
  BY <1>2
<1>5. p - q = 0
  BY <1>3, <1>4, SmallMultiple
<1>6. n * (p - q) = 0
  BY <1>5
<1> QED BY <1>1, <1>2, <1>3, <1>6

LEMMA OwnRemainder == ASSUME NEW n \in Nat \ {0} PROVE n % n = 0
BY SMTT(20)

(* A message more counts as a turn if it is the assistant's, and the turns  *)
(* of what was said before stay what they were.                             *)
LEMMA TurnsCount ==
    ASSUME NEW said, said \in Seq(Kinds), NEW kind, kind \in Kinds,
           NEW turned, turned = Append(said, kind)
    PROVE  /\ TurnsBy(said, Len(said)) \in Nat
           /\ \A at \in 0..Len(said) : TurnsBy(turned, at) = TurnsBy(said, at)
           /\ TurnsBy(turned, Len(turned)) =
                 IF kind \in Assistants THEN TurnsBy(said, Len(said)) + 1
                 ELSE TurnsBy(said, Len(said))
<1> DEFINE n == Len(said)
           Of(s, at) == {i \in 1..at : s[i] \in Assistants}
<1>1. /\ n \in Nat /\ Len(turned) = n + 1 /\ turned[n + 1] = kind
      /\ \A i \in 1..n : turned[i] = said[i]
  OBVIOUS
<1>2. IsFiniteSet(Of(said, n)) /\ Cardinality(Of(said, n)) \in Nat
  <2>1. IsFiniteSet(1..n)
    BY <1>1, FS_Interval
  <2>2. Of(said, n) \in SUBSET (1..n)
    OBVIOUS
  <2>3. IsFiniteSet(Of(said, n))
    BY <2>1, <2>2, FS_Subset
  <2> QED BY <2>3, FS_CardinalityType
<1>3. ASSUME NEW at \in 0..n PROVE Of(turned, at) = Of(said, at)
  BY <1>1
<1>4. CASE kind \in Assistants
  <2>1. Of(turned, n + 1) = Of(said, n) \cup {n + 1}
    BY <1>1, <1>4
  <2>2. n + 1 \notin Of(said, n)
    BY <1>1
  <2> HIDE DEF Of
  <2>3. Cardinality(Of(said, n) \cup {n + 1}) = Cardinality(Of(said, n)) + 1
    BY <1>2, <2>2, FS_AddElement
  <2> QED BY <1>1, <1>2, <1>3, <1>4, <2>1, <2>3 DEF TurnsBy, Of
<1>5. CASE kind \notin Assistants
  <2>1. Of(turned, n + 1) = Of(said, n)
    BY <1>1, <1>5
  <2> QED BY <1>1, <1>2, <1>3, <1>5, <2>1 DEF TurnsBy
<1> QED BY <1>4, <1>5

(* A line holds the messages with which what was said ended at its turn.    *)
EndsIn(entries, said, at) ==
    \A i \in 1..Len(entries) :
        /\ entries[i].id = at - Len(entries) + i
        /\ entries[i].kind = said[entries[i].id]

Faithful(line, said) ==
    \E at \in 1..Len(said) :
        /\ line.hot \in Items
        /\ Len(line.hot) = IF at < Hot THEN at ELSE Hot
        /\ EndsIn(line.hot, said, at)
        /\ TurnsBy(said, at) = line.turn

(* A line is a checkpoint of no more turns ago than a multiple of           *)
(* CHECKPOINT_EVERY_N_TURNS.                                                *)
Recent(line, at) ==
    /\ line.whole = TRUE
    /\ line.turn \in Nat
    /\ at - line.turn <= at % Every

KeepUp ==
    /\ turn = TurnsBy(history, Len(history))
    /\ pc = "ended" => turn = 0
    /\ Running /\ ~missed =>
          /\ ~open
          /\ turn >= Every =>
                /\ cold # <<>>
                /\ Recent(cold[Len(cold)], turn)
                /\ Faithful(cold[Len(cold)], history)

(* A checkpoint taken now is faithful and recent.                           *)
LEMMA CheckpointNow ==
    ASSUME NEW ms, NEW said, NEW state, Verbatim(ms, said, state), Len(said) >= 1,
           NEW at, at \in Nat, at = TurnsBy(said, Len(said))
    PROVE  /\ Faithful(Checkpoint(state, ms, at), said)
           /\ Recent(Checkpoint(state, ms, at), at)
<1> DEFINE m == Len(ms)
           n == Len(said)
           kept == IF m < Hot THEN ms ELSE SubSeq(ms, m - Hot + 1, m)
           line == Checkpoint(state, ms, at)
<1>1. /\ ms \in Seq(Item) /\ said \in Seq(Kinds) /\ m \in Nat /\ n \in Nat
      /\ Hot \in Nat /\ Every \in Nat \ {0}
  BY ConstantsOK DEF Verbatim, Items
<1>2. line.turn = at /\ line.whole = TRUE /\ line.hot = kept
  BY DEF Checkpoint
<1>3. Recent(line, at)
  <2>1. at % Every >= 0
    BY <1>1, Divided
  <2> HIDE DEF line
  <2> QED BY <1>2, <2>1 DEF Recent
<1>4. ASSUME m < Hot PROVE Faithful(line, said)
  <2>1. state = NoState /\ Lead(state) = 0 /\ m = n
    <3>1. state = NoState
      BY <1>1, <1>4 DEF Verbatim
    <3> QED BY <3>1 DEF Verbatim, Lead
  <2>2. kept = ms
    BY <1>4
  <2>3. EndsIn(ms, said, n)
    BY <1>1, <2>1 DEF Verbatim, EndsIn
  <2> HIDE DEF line, kept
  <2>4. /\ line.hot \in Items /\ Len(line.hot) = IF n < Hot THEN n ELSE Hot
        /\ EndsIn(line.hot, said, n)
    BY <1>1, <1>2, <1>4, <2>1, <2>2, <2>3 DEF Items
  <2>5. n \in 1..Len(said) /\ TurnsBy(said, n) = line.turn
    BY <1>1, <1>2
  <2> QED BY <2>4, <2>5 DEF Faithful
<1>5. ASSUME ~(m < Hot) PROVE Faithful(line, said)
  <2>1. /\ kept \in Seq(Item) /\ Len(kept) = Hot
        /\ \A i \in 1..Hot : kept[i] = ms[m - Hot + i]
    BY <1>1, <1>5
  <2>2. m - Lead(state) >= Hot /\ n >= m - Lead(state) /\ Lead(state) \in Nat
    <3>1. CASE state = NoState
      BY <1>1, <1>5, <3>1 DEF Lead, Verbatim
    <3>2. CASE state # NoState
      BY <1>1, <3>2 DEF Lead, Verbatim
    <3> QED BY <3>1, <3>2
  <2> HIDE DEF kept, line
  <2>3. EndsIn(kept, said, n)
    <3> SUFFICES ASSUME NEW i \in 1..Hot
                 PROVE  /\ kept[i].id = n - Hot + i
                        /\ kept[i].kind = said[kept[i].id]
      BY <2>1 DEF EndsIn
    <3>1. m - Hot + i \in 1..m /\ m - Hot + i > Lead(state)
      BY <1>1, <1>5, <2>2
    <3>2. /\ ms[m - Hot + i].id = n - m + (m - Hot + i)
          /\ ms[m - Hot + i].kind = said[ms[m - Hot + i].id]
      BY <3>1, Place
    <3>3. n - m + (m - Hot + i) = n - Hot + i
      BY <1>1
    <3> QED BY <2>1, <3>2, <3>3
  <2>4. ~(n < Hot)
    BY <1>1, <2>2
  <2>5. /\ line.hot \in Items /\ Len(line.hot) = IF n < Hot THEN n ELSE Hot
        /\ EndsIn(line.hot, said, n)
    BY <1>2, <2>1, <2>3, <2>4 DEF Items
  <2>6. n \in 1..Len(said) /\ TurnsBy(said, n) = line.turn
    BY <1>1, <1>2
  <2> QED BY <2>5, <2>6 DEF Faithful
<1> QED BY <1>3, <1>4, <1>5

(* What a line holds stays true when more is said.                          *)
LEMMA FaithfulStays ==
    ASSUME NEW line, NEW said, said \in Seq(Kinds), NEW kind, kind \in Kinds,
           NEW turned, turned = Append(said, kind), Faithful(line, said)
    PROVE  Faithful(line, turned)
<1>1. PICK at \in 1..Len(said) :
        /\ line.hot \in Items
        /\ Len(line.hot) = IF at < Hot THEN at ELSE Hot
        /\ EndsIn(line.hot, said, at)
        /\ TurnsBy(said, at) = line.turn
  BY DEF Faithful
<1>2. /\ Len(said) \in Nat /\ Len(turned) = Len(said) + 1 /\ Hot \in Nat
      /\ \A i \in 1..Len(said) : turned[i] = said[i]
  BY ConstantsOK
<1>3. TurnsBy(turned, at) = TurnsBy(said, at)
  <2>1. \A n \in 0..Len(said) : TurnsBy(turned, n) = TurnsBy(said, n)
    BY TurnsCount
  <2> QED BY <1>2, <2>1
<1>4. EndsIn(line.hot, turned, at)
  <2> SUFFICES ASSUME NEW i \in 1..Len(line.hot)
               PROVE  /\ line.hot[i].id = at - Len(line.hot) + i
                      /\ line.hot[i].kind = turned[line.hot[i].id]
    BY DEF EndsIn
  <2>1. /\ line.hot[i].id = at - Len(line.hot) + i
        /\ line.hot[i].kind = said[line.hot[i].id]
    BY <1>1 DEF EndsIn
  <2>2. Len(line.hot) <= at /\ Len(line.hot) \in Nat
    BY <1>1, <1>2
  <2>3. at - Len(line.hot) + i \in 1..Len(said)
    BY <1>1, <1>2, <2>2
  <2> QED BY <1>2, <2>1, <2>3
<1>5. at \in 1..Len(turned)
  BY <1>2
<1> QED BY <1>1, <1>3, <1>4, <1>5 DEF Faithful

(* A save to a file whose last line has its end puts the line last.         *)
LEMMA SavedLast ==
    ASSUME FileInv, ~open, NEW line, line \in Line, Save(line)
    PROVE  ~open' /\ cold' # <<>> /\ cold'[Len(cold')] = line
<1>1. cold \in Seq(Line) /\ cold' = Append(cold, line) /\ open' = FALSE
  BY DEF Save, Put, FileInv
<1>2. cold' \in Seq(Line) /\ Len(cold') = Len(cold) + 1 /\ Len(cold) \in Nat
      /\ cold'[Len(cold) + 1] = line
  BY <1>1
<1> QED BY <1>1, <1>2

LEMMA InitKeepUp == Init => KeepUp
<1> SUFFICES ASSUME Init PROVE KeepUp
  OBVIOUS
<1>1. /\ pc = "idle" /\ turn = 0 /\ history = <<>> /\ open = FALSE
  BY DEF Init
<1>2. Every \in Nat \ {0}
  BY ConstantsOK
<1>3. Len(history) = 0
  BY <1>1
<1>4. TurnsBy(history, Len(history)) = 0
  <2>1. {i \in 1..0 : history[i] \in Assistants} = {}
    OBVIOUS
  <2> QED BY <1>3, <2>1, FS_EmptySet DEF TurnsBy
<1> QED BY <1>1, <1>2, <1>4 DEF KeepUp

(* A user's message is no turn.                                             *)
LEMMA AddKeepUp ==
    ASSUME IInv, KeepUp, NEW kind, kind \in {"prompt", "result"}, NEW size,
           Add(kind, size), pc \notin {"ended", "failed"},
           pc' \in {"idle", "ask"}
    PROVE  KeepUp'
<1>1. /\ history' = Append(history, kind)
      /\ UNCHANGED <<turn, cold, open, missed>>
  BY DEF Add
<1>2. history \in Seq(Kinds) /\ kind \in Kinds /\ kind \notin Assistants
  BY DEF IInv, Verbatim, Kinds, Assistants
<1>3. turn' = TurnsBy(history', Len(history'))
  BY <1>1, <1>2, TurnsCount DEF KeepUp
<1>4. Running /\ pc' # "ended"
  BY DEF Running
<1>5. ASSUME ~missed', turn' >= Every
      PROVE  /\ cold' # <<>>
             /\ Recent(cold'[Len(cold')], turn')
             /\ Faithful(cold'[Len(cold')], history')
  <2>1. /\ cold # <<>>
        /\ Recent(cold[Len(cold)], turn)
        /\ Faithful(cold[Len(cold)], history)
    BY <1>1, <1>4, <1>5 DEF KeepUp
  <2>2. Faithful(cold[Len(cold)], history')
    BY <1>1, <1>2, <2>1, FaithfulStays
  <2> QED BY <1>1, <2>1, <2>2
<1>6. ~missed' => ~open'
  BY <1>1, <1>4 DEF KeepUp
<1> QED BY <1>3, <1>4, <1>5, <1>6 DEF KeepUp

(* A turn that is not due leaves the last checkpoint one turn further back, *)
(* and one that is due takes the next.                                      *)
LEMMA TurnKeepUp ==
    ASSUME IInv, IInv', KeepUp, NEW kind, kind \in {"answer", "call"},
           pc = "call", pc' \in {"tools", "idle"},
           history' = Append(history, kind), turn' = turn + 1,
           \/ /\ Due(turn') => Save(Checkpoint(warm', messages', turn'))
              /\ ~Due(turn') => UNCHANGED <<cold, open>>
              /\ UNCHANGED missed
           \/ missed' = TRUE
    PROVE  KeepUp'
<1> DEFINE line == Checkpoint(warm', messages', turn')
<1>1. /\ history' = Append(history, kind) /\ turn' = turn + 1
      /\ pc = "call" /\ pc' \in {"tools", "idle"}
  OBVIOUS
<1>2. \/ /\ Due(turn') => Save(line)
         /\ ~Due(turn') => UNCHANGED <<cold, open>>
         /\ UNCHANGED missed
      \/ missed' = TRUE
  OBVIOUS
<1> HIDE DEF line
<1>3. /\ history \in Seq(Kinds) /\ kind \in Kinds /\ kind \in Assistants
      /\ Len(history) \in Nat /\ turn \in Nat /\ Every \in Nat \ {0}
  BY ConstantsOK DEF IInv, Verbatim, Kinds, Assistants
<1>4. turn' = TurnsBy(history', Len(history'))
  <2>1. TurnsBy(history', Len(history')) = TurnsBy(history, Len(history)) + 1
    BY <1>1, <1>3, TurnsCount
  <2> QED BY <1>1, <2>1 DEF KeepUp
<1>5. Running /\ pc' # "ended"
  BY <1>1 DEF Running
<1>6. ASSUME ~missed'
      PROVE  /\ ~open'
             /\ turn' >= Every =>
                   /\ cold' # <<>>
                   /\ Recent(cold'[Len(cold')], turn')
                   /\ Faithful(cold'[Len(cold')], history')
  <2>1. ~missed /\ ~open
    BY <1>2, <1>5, <1>6 DEF KeepUp
  <2>2. CASE Due(turn')
    <3>1. Save(line)
      BY <1>2, <1>6, <2>2
    <3>2. Verbatim(messages', history', warm') /\ turn' \in Nat
      BY DEF IInv
    <3>3. line \in Line
      BY <3>2, CheckpointIsLine DEF line, Verbatim
    <3>4. ~open' /\ cold' # <<>> /\ cold'[Len(cold')] = line
      BY <2>1, <3>1, <3>3, SavedLast DEF IInv
    <3>5. Len(history') >= 1
      BY <1>1, <1>3
    <3>6. Faithful(line, history') /\ Recent(line, turn')
      BY <1>4, <3>2, <3>5, CheckpointNow DEF line
    <3> QED BY <3>4, <3>6
  <2>3. CASE ~Due(turn')
    <3>1. UNCHANGED <<cold, open>>
      BY <1>2, <1>6, <2>3
    <3>2. SUFFICES ASSUME turn' >= Every
                   PROVE  /\ cold' # <<>>
                          /\ Recent(cold'[Len(cold')], turn')
                          /\ Faithful(cold'[Len(cold')], history')
      BY <2>1, <3>1
    <3>3. (turn + 1) % Every # 0
      BY <1>1, <2>3 DEF Due
    <3>4. turn + 1 # Every
      BY <1>3, <3>3, OwnRemainder
    <3>5. turn >= Every
      BY <1>1, <1>3, <3>2, <3>4
    <3>6. /\ cold # <<>>
          /\ Recent(cold[Len(cold)], turn)
          /\ Faithful(cold[Len(cold)], history)
      BY <1>5, <2>1, <3>5 DEF KeepUp
    <3>7. Faithful(cold[Len(cold)], history')
      BY <1>1, <1>3, <3>6, FaithfulStays
    <3>8. Recent(cold[Len(cold)], turn')
      <4>1. (turn + 1) % Every = (turn % Every) + 1
        BY <1>3, <3>3, NextRemainder
      <4>2. turn % Every \in Nat
        BY <1>3, Divided
      <4> DEFINE at == cold[Len(cold)].turn
      <4>3. at \in Nat /\ turn - at <= turn % Every
        BY <3>6 DEF Recent
      <4> HIDE DEF at
      <4>4. (turn + 1) - at <= (turn % Every) + 1
        BY <1>3, <4>2, <4>3
      <4>5. turn' - at <= turn' % Every
        BY <1>1, <4>1, <4>4
      <4> QED BY <3>6, <4>5 DEF Recent, at
    <3> QED BY <3>1, <3>6, <3>7, <3>8
  <2> QED BY <2>2, <2>3
<1> QED BY <1>4, <1>5, <1>6 DEF KeepUp

LEMMA AnswerKeepUp ==
    ASSUME IInv, KeepUp, NEW kind, kind \in {"answer", "call"},
           NEW size, size \in Sizes, Answer(kind, size) \/ AnswerRaises(kind, size)
    PROVE  KeepUp'
<1>1. IInv'
  BY AnswerIInv, AnswerRaisesIInv
<1>2. /\ pc = "call" /\ pc' \in {"tools", "idle"}
      /\ history' = Append(history, kind) /\ turn' = turn + 1
  BY DEF Answer, AnswerRaises, Goto
<1>3. \/ /\ Due(turn') => Save(Checkpoint(warm', messages', turn'))
         /\ ~Due(turn') => UNCHANGED <<cold, open>>
         /\ UNCHANGED missed
      \/ missed' = TRUE
  <2>1. CASE Answer(kind, size)
    BY <2>1 DEF Answer
  <2>2. CASE AnswerRaises(kind, size)
    <3>1. missed \in BOOLEAN /\ missed' = (missed \/ Due(turn'))
          /\ UNCHANGED <<cold, open>>
      BY <2>2 DEF AnswerRaises, IInv
    <3>2. CASE Due(turn')
      BY <3>1, <3>2
    <3>3. CASE ~Due(turn')
      BY <3>1, <3>3
    <3> QED BY <3>2, <3>3
  <2> QED BY <2>1, <2>2
<1> QED BY <1>1, <1>2, <1>3, TurnKeepUp

LEMMA ForceCheckpointKeepUp ==
    ASSUME IInv, KeepUp, ForceCheckpoint
    PROVE  KeepUp'
<1> DEFINE line == Checkpoint(warm, messages, turn)
<1>1. /\ pc = "idle" /\ ((Save(line) /\ UNCHANGED missed) \/ missed' = TRUE)
      /\ UNCHANGED <<pc, turn, history>>
  BY DEF ForceCheckpoint, memory
<1>2. line \in Line
  BY CheckpointIsLine DEF IInv, Verbatim
<1> HIDE DEF line
<1>3. turn' = TurnsBy(history', Len(history')) /\ Running /\ pc' # "ended"
  BY <1>1 DEF KeepUp, Running
<1>4. ASSUME ~missed'
      PROVE  /\ ~open'
             /\ turn' >= Every =>
                   /\ cold' # <<>>
                   /\ Recent(cold'[Len(cold')], turn')
                   /\ Faithful(cold'[Len(cold')], history')
  <2>1. Save(line) /\ ~missed
    BY <1>1, <1>4
  <2>2. ~open
    BY <1>3, <2>1 DEF KeepUp
  <2>3. ~open' /\ cold' # <<>> /\ cold'[Len(cold')] = line
    BY <1>2, <2>1, <2>2, SavedLast DEF IInv
  <2>4. ASSUME turn' >= Every
        PROVE  Faithful(line, history) /\ Recent(line, turn)
    <3>1. Len(history) >= 1
      <4>1. /\ turn >= Every /\ Every \in Nat \ {0} /\ turn \in Nat
            /\ turn <= Len(history) /\ Len(history) \in Nat
        BY <1>1, <2>4, ConstantsOK DEF IInv, Verbatim
      <4> QED BY <4>1
    <3>2. turn = TurnsBy(history, Len(history))
      BY DEF KeepUp
    <3> QED BY <3>1, <3>2, CheckpointNow DEF IInv, line
  <2> QED BY <1>1, <2>3, <2>4
<1> QED BY <1>3, <1>4 DEF KeepUp

LEMMA StepKeepUp == IInv /\ KeepUp /\ [Next]_vars => KeepUp'
<1> SUFFICES ASSUME IInv, KeepUp, [Next]_vars PROVE KeepUp'
  OBVIOUS
<1>1. ASSUME NEW size \in Sizes, Prompt(size) PROVE KeepUp'
  BY <1>1, AddKeepUp DEF Prompt, Goto
<1>2. ASSUME NEW size \in Sizes, Results(size) PROVE KeepUp'
  BY <1>2, AddKeepUp DEF Results, Goto
<1>3. ASSUME NEW kind \in {"answer", "call"}, NEW size \in Sizes,
             Answer(kind, size) \/ AnswerRaises(kind, size)
      PROVE  KeepUp'
  BY <1>3, AnswerKeepUp
<1>4. CASE GetMessages
  BY <1>4 DEF GetMessages, Goto, KeepUp, Running
<1>5. CASE ApiFails
  BY <1>5 DEF ApiFails, Goto, memory, ghosts, KeepUp, Running
<1>6. CASE Stop
  <2>1. pc' = "ended" /\ turn' = 0 /\ history' = <<>>
    BY <1>6 DEF Stop, Goto
  <2>2. TurnsBy(<<>>, Len(<<>>)) = 0
    <3>1. {i \in 1..0 : <<>>[i] \in Assistants} = {}
      OBVIOUS
    <3>2. Len(<<>>) = 0
      OBVIOUS
    <3> QED BY <3>1, <3>2, FS_EmptySet DEF TurnsBy
  <2> QED BY <2>1, <2>2 DEF KeepUp, Running
<1>7. CASE Create
  <2>1. /\ pc = "ended" /\ pc' = (IF cold = <<>> THEN "idle" ELSE "failed")
        /\ UNCHANGED <<turn, cold, open, history, missed>>
    BY <1>7 DEF Create, Goto, memory, ghosts
  <2>2. turn = 0 /\ Every \in Nat \ {0}
    BY <2>1, ConstantsOK DEF KeepUp
  <2>3. cold = <<>> => ~open
    BY DEF IInv, FileInv
  <2> QED BY <2>1, <2>2, <2>3 DEF KeepUp, Running
<1>8. CASE UNCHANGED vars
  BY <1>8 DEF vars, memory, ghosts, KeepUp, Running
<1> QED BY <1>1, <1>2, <1>3, <1>4, <1>5, <1>6, <1>7, <1>8,
           ForceCheckpointKeepUp DEF Next

(* While no save fails, the file ends in a checkpoint of fewer than         *)
(* CHECKPOINT_EVERY_N_TURNS turns ago that holds what the conversation      *)
(* ended with then (add_assistant_turn, _checkpoint).                       *)
THEOREM TheFileKeepsUp == Spec => []CheckpointsKeepUp
<1>1. IInv /\ KeepUp => CheckpointsKeepUp
  <2> SUFFICES ASSUME IInv, KeepUp, Running, ~missed, turn >= Every
               PROVE  LET last == cold[Len(cold)]
                      IN  /\ cold # <<>>
                          /\ last.whole
                          /\ turn - last.turn < Every
                          /\ \E at \in DOMAIN history :
                                /\ Len(last.hot) = IF at < Hot THEN at ELSE Hot
                                /\ EndsAt(last.hot, at)
                                /\ TurnsBy(history, at) = last.turn
    BY DEF CheckpointsKeepUp
  <2> DEFINE last == cold[Len(cold)]
  <2>1. cold # <<>> /\ Recent(last, turn) /\ Faithful(last, history)
    BY DEF KeepUp
  <2> HIDE DEF last
  <2>2. /\ turn \in Nat /\ Every \in Nat \ {0} /\ history \in Seq(Kinds)
    BY ConstantsOK DEF IInv, Verbatim
  <2>3. last.whole /\ turn - last.turn < Every
    <3>1. (turn % Every) \in 0..(Every - 1)
      BY <2>2, Divided
    <3>2. last.turn \in Nat /\ turn - last.turn <= turn % Every
      BY <2>1 DEF Recent
    <3>3. turn - last.turn < Every
      BY <2>2, <3>1, <3>2
    <3> QED BY <2>1, <3>3 DEF Recent
  <2>4. PICK at \in 1..Len(history) :
          /\ last.hot \in Items
          /\ Len(last.hot) = IF at < Hot THEN at ELSE Hot
          /\ EndsIn(last.hot, history, at)
          /\ TurnsBy(history, at) = last.turn
    BY <2>1 DEF Faithful
  <2>5. at \in DOMAIN history /\ DOMAIN last.hot = 1..Len(last.hot)
    BY <2>2, <2>4 DEF Items
  <2>6. EndsAt(last.hot, at)
    BY <2>4, <2>5 DEF EndsAt, EndsIn
  <2> QED BY <2>1, <2>3, <2>4, <2>5, <2>6 DEF last
<1>2. Spec => []KeepUp
  BY InitIInv, StepIInv, InitKeepUp, StepKeepUp, PTL DEF Spec
<1> QED BY <1>1, <1>2, InductiveIInv, PTL

===============================================================================
