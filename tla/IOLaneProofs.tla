---------------------------- MODULE IOLaneProofs ----------------------------
(* The invariants and action properties of IOLane, proved for any plans,    *)
(* settings and number of runs.                                             *)
EXTENDS IOLane, TLAPS

Writing == [file : Files, data : Contents]

(* An outcome commits just if its response is as expected.                  *)
Just(outcome) ==
    outcome \in Judged /\ (outcome.action = "commit" <=> outcome.response.status = Expected)

Fits(f, data) ==
    /\ f = Request => data \in Asked
    /\ f = Response => data \in Note
    /\ f = Outcome => Just(data)

(* Writes that are due: to different files, each of what the file is for.   *)
Writes(t) ==
    /\ t \in Seq(Writing)
    /\ \A i, j \in 1 .. Len(t) : t[i].file = t[j].file => i = j
    /\ \A i \in 1 .. Len(t) : Fits(t[i].file, t[i].data)

(* What a file of w will hold when the writes t have been made.             *)
Due(t, f) == {i \in 1 .. Len(t) : t[i].file = f}
HeldIn(w, t, f) ==
    IF Due(t, f) = {} THEN w[f] ELSE t[CHOOSE i \in Due(t, f) : TRUE].data
Held(f) == HeldIn(work, todo, f)

Shape ==
    /\ Writes(todo)
    /\ \A f \in Files : work[f] \notin {None, Torn} => Fits(f, work[f])
    /\ status = "running" /\ ending # None => next \in 1 .. Len(plan)

(* The responses to submissions that files tell of, or will.                *)
Seen ==
    ({Held(Response), work[Response]} \ {None, Torn})
    \cup {outcome.response : outcome \in {Held(Outcome), work[Outcome]} \ {None, Torn}}

(* A call has one response, in whichever file.                              *)
SeenInv ==
    /\ \A note \in Seen : note.call \in 1 .. calls
    /\ \A a, b \in Seen : a.call = b.call => a = b

(* A rollback record that is due is of the outcome on disk.                 *)
RecordInv ==
    \A i \in 1 .. Len(todo) : todo[i].file = Record =>
        /\ Len(todo) = 1
        /\ todo[i].data = [outcome |-> work[Outcome]]
        /\ work[Outcome].action = "rollback"

(* Steps whose handler has decided.                                         *)
Decided(i) == i < next \/ (i = next /\ ending # None)
Handled(effect) == \E i \in Position(effect) : Decided(i)

(* The request and the response are those of the last submission.           *)
SentInv ==
    /\ sent # None => /\ Held(Request) = [call |-> sent]
                      /\ Held(Response) \in Note
                      /\ Held(Response).call = sent
    /\ Handled("submit") => sent # None

Reconciling == Handled("reconcile") \/ reason = "IOAmbiguousResult"

(* A judgement stays one of the request and the response that are there, as *)
(* no submission comes after it.                                            *)
AgreeInv ==
    SubmitsFirst /\ Reconciling =>
        /\ Held(Outcome) \in Judged
        /\ Held(Outcome).request = Held(Request)
        /\ Held(Outcome).response = Held(Response)
        /\ Held(Report) = [outcome |-> Held(Outcome)]
        /\ Held(Outcome).action # "commit" =>
               Held(Remediation) = [outcome |-> Held(Outcome)]

(* A run goes on behind a reconciliation only if that commits.              *)
CommitInv ==
    /\ ending = "IOAmbiguousResult" => Current = "reconcile"
    /\ /\ status \in {"running", "completed"}
       /\ Handled("reconcile")
       /\ ending # "IOAmbiguousResult"
       => Held(Outcome) \in Judged /\ Held(Outcome).action = "commit"
    /\ status = "running" => reason = None
    /\ status = "completed" => next > Len(plan) /\ ending = None

(* A run that has neither raised nor been stopped.                          *)
Orderly == status \in {"running", "completed", "denied"}

RunInv == Orderly => SentInv /\ AgreeInv /\ CommitInv

IInv == TypeOK /\ Shape /\ SeenInv /\ RecordInv /\ RunInv

(* Of a plan that submits once, as those of the scheduler do.               *)
SubmitsOnce(p) ==
    \A i, j \in DOMAIN p : p[i] = "submit" /\ p[j] = "submit" => i = j

(* What was placed was sent last.                                           *)
PlacedInv ==
    Orderly => /\ placed \subseteq {sent}
               /\ status = "running" /\ ~Handled("submit") => placed = {}

-----------------------------------------------------------------------------
(* Writes                                                                   *)

LEMMA HeldIdle == ASSUME NEW w, NEW f PROVE HeldIn(w, <<>>, f) = w[f]
  BY DEF HeldIn, Due

LEMMA HeldDue ==
    ASSUME NEW w, NEW t, Writes(t), NEW i \in 1 .. Len(t)
    PROVE  HeldIn(w, t, t[i].file) = t[i].data
<1> DEFINE f == t[i].file
<1>1. i \in Due(t, f)
  BY DEF Due
<1>2. \A k \in Due(t, f) : k = i
  BY DEF Due, Writes
<1>3. (CHOOSE k \in Due(t, f) : TRUE) = i
  BY <1>1, <1>2
<1> QED BY <1>1, <1>3 DEF HeldIn

LEMMA HeldNotDue ==
    ASSUME NEW w, NEW t, NEW f, \A i \in 1 .. Len(t) : t[i].file # f
    PROVE  HeldIn(w, t, f) = w[f]
  BY DEF HeldIn, Due

(* Making the first of the writes leaves what will be held.                 *)
LEMMA HeldWrite ==
    ASSUME NEW w, DOMAIN w = Files, NEW t, Writes(t), t # <<>>, NEW f \in Files
    PROVE  /\ Writes(Tail(t))
           /\ Head(t) \in Writing /\ Head(t) = t[1] /\ 1 \in 1 .. Len(t)
           /\ HeldIn([w EXCEPT ![Head(t).file] = Head(t).data], Tail(t), f)
                = HeldIn(w, t, f)
<1> DEFINE w2 == [w EXCEPT ![Head(t).file] = Head(t).data]
           rest == Tail(t)
<1>1. t \in Seq(Writing)
  BY DEF Writes
<1>2. /\ Head(t) \in Writing /\ Head(t) = t[1] /\ 1 \in 1 .. Len(t)
      /\ rest \in Seq(Writing)
      /\ Len(rest) = Len(t) - 1
      /\ \A i \in 1 .. Len(rest) : i + 1 \in 1 .. Len(t) /\ rest[i] = t[i + 1]
  BY <1>1
<1>3. Writes(rest)
  BY <1>2 DEF Writes
<1>4. CASE f = Head(t).file
  <2>1. \A i \in 1 .. Len(rest) : rest[i].file # f
    BY <1>2, <1>4 DEF Writes
  <2>2. HeldIn(w2, rest, f) = w2[f]
    BY <2>1, HeldNotDue
  <2>3. w2[f] = t[1].data
    BY <1>2, <1>4
  <2>4. \A i \in 1 .. Len(t) : HeldIn(w, t, t[i].file) = t[i].data
    BY HeldDue
  <2> QED BY <1>2, <1>3, <1>4, <2>2, <2>3, <2>4
<1>5. CASE f # Head(t).file
  <2>0. w2[f] = w[f]
    BY <1>5
  <2>1. CASE \A i \in 1 .. Len(t) : t[i].file # f
    <3>1. HeldIn(w, t, f) = w[f]
      BY <2>1, HeldNotDue
    <3>2. \A i \in 1 .. Len(rest) : rest[i].file # f
      BY <1>2, <2>1
    <3>3. HeldIn(w2, rest, f) = w2[f]
      BY <3>2, HeldNotDue
    <3> QED BY <1>2, <1>3, <2>0, <3>1, <3>3
  <2>2. CASE \E i \in 1 .. Len(t) : t[i].file = f
    <3>1. PICK i \in 1 .. Len(t) : t[i].file = f
      BY <2>2
    <3>2. i - 1 \in 1 .. Len(rest) /\ rest[i - 1] = t[i]
      BY <1>1, <1>2, <1>5, <3>1
    <3>3. HeldIn(w2, rest, rest[i - 1].file) = rest[i - 1].data
      BY <1>3, <3>2, HeldDue
    <3>4. HeldIn(w, t, t[i].file) = t[i].data
      BY HeldDue
    <3> QED BY <1>2, <1>3, <3>1, <3>2, <3>3, <3>4
  <2> QED BY <2>1, <2>2
<1> HIDE DEF w2, rest
<1> QED BY <1>4, <1>5 DEF w2, rest

(* One, two or three writes to different files.                             *)
LEMMA HeldOne ==
    ASSUME NEW w, NEW a \in Writing, Fits(a.file, a.data)
    PROVE  /\ Writes(<<a>>)
           /\ \A f : HeldIn(w, <<a>>, f) = IF f = a.file THEN a.data ELSE w[f]
<1> DEFINE t == <<a>>
<1>1. t \in Seq(Writing) /\ Len(t) = 1 /\ t[1] = a
  OBVIOUS
<1>2. Writes(t)
  BY <1>1 DEF Writes
<1> HIDE DEF t
<1>3. \A i \in 1 .. Len(t) : HeldIn(w, t, t[i].file) = t[i].data
  BY <1>2, HeldDue
<1>4. \A f : f # a.file => HeldIn(w, t, f) = w[f]
  BY <1>1, HeldNotDue
<1> QED BY <1>1, <1>2, <1>3, <1>4 DEF t

LEMMA HeldTwo ==
    ASSUME NEW w, NEW a \in Writing, NEW b \in Writing, a.file # b.file,
           Fits(a.file, a.data), Fits(b.file, b.data)
    PROVE  /\ Writes(<<a, b>>)
           /\ \A f : HeldIn(w, <<a, b>>, f) = IF f = a.file THEN a.data
                                              ELSE IF f = b.file THEN b.data ELSE w[f]
<1> DEFINE t == <<a, b>>
<1>1. t \in Seq(Writing) /\ Len(t) = 2 /\ t[1] = a /\ t[2] = b
  OBVIOUS
<1>2. Writes(t)
  BY <1>1 DEF Writes
<1> HIDE DEF t
<1>3. \A i \in 1 .. Len(t) : HeldIn(w, t, t[i].file) = t[i].data
  BY <1>2, HeldDue
<1>4. \A f : f \notin {a.file, b.file} => HeldIn(w, t, f) = w[f]
  BY <1>1, HeldNotDue
<1> QED BY <1>1, <1>2, <1>3, <1>4 DEF t

LEMMA HeldThree ==
    ASSUME NEW w, NEW a \in Writing, NEW b \in Writing, NEW c \in Writing,
           a.file # b.file, a.file # c.file, b.file # c.file,
           Fits(a.file, a.data), Fits(b.file, b.data), Fits(c.file, c.data)
    PROVE  /\ Writes(<<a, b, c>>)
           /\ \A f : HeldIn(w, <<a, b, c>>, f) =
                 IF f = a.file THEN a.data ELSE IF f = b.file THEN b.data
                 ELSE IF f = c.file THEN c.data ELSE w[f]
<1> DEFINE t == <<a, b, c>>
<1>1. t \in Seq(Writing) /\ Len(t) = 3 /\ t[1] = a /\ t[2] = b /\ t[3] = c
  OBVIOUS
<1>2. Writes(t)
  BY <1>1 DEF Writes
<1> HIDE DEF t
<1>3. \A i \in 1 .. Len(t) : HeldIn(w, t, t[i].file) = t[i].data
  BY <1>2, HeldDue
<1>4. \A f : f \notin {a.file, b.file, c.file} => HeldIn(w, t, f) = w[f]
  BY <1>1, HeldNotDue
<1> QED BY <1>1, <1>2, <1>3, <1>4 DEF t

-----------------------------------------------------------------------------
(* What every step needs to know                                            *)

LEMMA FilesDiffer ==
    /\ {Request, Response, Outcome, Report, Remediation, Record} \subseteq Files
    /\ Request # Response /\ Request # Outcome /\ Request # Report
    /\ Request # Remediation /\ Request # Record
    /\ Response # Outcome /\ Response # Report /\ Response # Remediation
    /\ Response # Record /\ Outcome # Report /\ Outcome # Remediation
    /\ Outcome # Record /\ Report # Remediation /\ Report # Record
    /\ Remediation # Record
  BY DEF Files, Exchanges, Request, Response, Outcome, Report, Remediation, Record

LEMMA NoneDiffers ==
    /\ None # "ok" /\ None \notin Refusals /\ None # "IOAmbiguousResult"
    /\ None \notin Nat /\ None \notin Contents /\ Torn \notin Contents
    /\ "ok" # "IOAmbiguousResult"
  BY ConstantsOK DEF Refusals

LEMMA NoWrites == Writes(<<>>)
  BY DEF Writes

LEMMA PlanTyped ==
    ASSUME TypeOK
    PROVE  plan \in Seq(Effects) /\ Len(plan) \in Nat /\ DOMAIN plan = 1 .. Len(plan)
           /\ next \in Nat
<1>1. <<>> \in Seq(Effects)
  OBVIOUS
<1>2. plan \in Seq(Effects)
  BY <1>1, ConstantsOK DEF TypeOK
<1> QED BY <1>2 DEF TypeOK

(* A handler that is asked finds nothing under way.                         *)
LEMMA AtStepFinds ==
    ASSUME IInv, AtStep
    PROVE  /\ todo = <<>> /\ ending = None /\ status = "running" /\ reason = None
           /\ next \in 1 .. Len(plan) /\ Current \in Effects
           /\ \A f : Held(f) = work[f]
           /\ SentInv /\ AgreeInv /\ CommitInv
<1>1. ending = None /\ status = "running" /\ next <= Len(plan)
  BY DEF AtStep
<1>2. todo = <<>>
  BY <1>1 DEF IInv, TypeOK
<1>3. next \in 1 .. Len(plan) /\ Current \in Effects
  BY <1>1, PlanTyped DEF IInv, TypeOK, Current
<1>4. \A f : Held(f) = work[f]
  BY <1>2, HeldIdle DEF Held
<1>5. RunInv /\ Orderly
  BY <1>1 DEF IInv, Orderly
<1> QED BY <1>1, <1>2, <1>3, <1>4, <1>5 DEF RunInv, CommitInv

LEMMA ChargedTyped ==
    ASSUME TypeOK, BudgetLeft PROVE Charged \in Nat \cup {None}
  BY DEF TypeOK, BudgetLeft, Charged

(* When a handler has decided, its step counts as handled.                  *)
LEMMA HandledNow ==
    ASSUME TypeOK, AtStep, plan' = plan, next' = next, ending' # None, NEW effect
    PROVE  Handled(effect)' <=> Handled(effect) \/ Current = effect
<1>1. next \in DOMAIN plan /\ ending = None
  BY PlanTyped DEF AtStep, TypeOK
<1> QED BY <1>1 DEF Handled, Decided, Position, Current

(* A step that shows no new response leaves the responses as they are.      *)
LEMMA SeenKept ==
    ASSUME IInv, calls' = calls \/ calls' = calls + 1, Seen' \subseteq Seen
    PROVE  SeenInv'
<1>1. calls \in Nat /\ SeenInv
  BY DEF IInv, TypeOK
<1> QED BY <1>1 DEF SeenInv

LEMMA NothingDueIInv ==
    ASSUME IInv, TypeOK', todo' = <<>>, calls' = calls, ~Orderly',
           status' # "running",
           \A f \in Files : work'[f] \in {work[f], None, Torn}
    PROVE  IInv'
<1>1. Shape'
  BY NoWrites DEF Shape, IInv
<1>2. RecordInv'
  BY DEF RecordInv
<1>3. Held(Response)' = work'[Response] /\ Held(Outcome)' = work'[Outcome]
  BY HeldIdle DEF Held
<1>4. Seen' \subseteq Seen
  BY <1>3, FilesDiffer DEF Seen
<1> QED BY <1>1, <1>2, <1>4, SeenKept DEF IInv, RunInv

-----------------------------------------------------------------------------
(* Runs begin, are denied, raise or die                                     *)

LEMMA InitIInv == Init => IInv
<1> SUFFICES ASSUME Init PROVE IInv
  OBVIOUS
<1>1. todo = <<>> /\ status = "idle" /\ calls = 0 /\ \A f \in Files : work[f] = None
  BY DEF Init
<1>2. TypeOK
  BY ConstantsOK DEF Init, TypeOK
<1>3. Shape
  BY <1>1, NoWrites DEF Shape
<1>4. Seen = {}
  BY <1>1, HeldIdle, FilesDiffer DEF Seen, Held
<1> QED BY <1>1, <1>2, <1>3, <1>4 DEF IInv, SeenInv, RecordInv, RunInv, Orderly

LEMMA StartIInv ==
    ASSUME IInv, NEW p \in Plans, NEW s \in Settings, NEW wipe \in BOOLEAN,
           Start(p, s, wipe)
    PROVE  IInv'
<1>1. p \in Seq(Effects) /\ s.budget \in Nat \cup {None}
  BY ConstantsOK DEF Setting
<1>2. TypeOK'
  <2>1. runs' \in 0 .. MaxRuns
    BY ConstantsOK DEF Start, IInv, TypeOK
  <2>2. next' \in 1 .. Len(plan)' + 1
    BY <1>1 DEF Start
  <2>3. DOMAIN work' = Files
    BY DEF Start, IInv, TypeOK
  <2> QED BY <1>1, <2>1, <2>2, <2>3 DEF Start, IInv, TypeOK
<1>3. todo' = <<>> /\ ending' = None /\ next' = 1 /\ sent' = None /\ reason' = None
      /\ calls' = calls /\ status' = "running" /\ plan' = p
  BY DEF Start
<1>4. \A f \in Files : work'[f] \in {work[f], None}
  BY DEF Start
<1>5. Shape'
  BY <1>3, <1>4, NoWrites DEF Shape, IInv
<1>6. RecordInv'
  BY <1>3 DEF RecordInv
<1>7. Held(Response)' = work'[Response] /\ Held(Outcome)' = work'[Outcome]
  BY <1>3, HeldIdle DEF Held
<1>8. Seen' \subseteq Seen
  BY <1>4, <1>7, FilesDiffer DEF Seen
<1>9. \A effect : ~Handled(effect)'
  BY <1>1, <1>3 DEF Handled, Decided, Position
<1>10. SentInv' /\ AgreeInv' /\ CommitInv'
  BY <1>3, <1>9, NoneDiffers DEF SentInv, AgreeInv, CommitInv, Reconciling
<1> QED BY <1>2, <1>3, <1>5, <1>6, <1>8, <1>10, SeenKept DEF IInv, RunInv

LEMMA DenyIInv ==
    ASSUME IInv, AtStep, NEW refusal \in Refusals \ {"IOAmbiguousResult"},
           Deny(refusal)
    PROVE  IInv'
<1>1. UNCHANGED <<disk, setting, plan, next, budget, todo, ending, sent, placed>>
      /\ status' = "denied" /\ reason' = refusal
  BY DEF Deny
<1>2. TypeOK'
  BY <1>1, AtStepFinds DEF disk, IInv, TypeOK
<1>3. /\ \A f : Held(f)' = Held(f)
      /\ \A effect : Handled(effect)' = Handled(effect)
      /\ SubmitsFirst' = SubmitsFirst
      /\ Current' = Current
  BY <1>1 DEF disk, Held, Handled, Decided, Position, SubmitsFirst, Current
<1>4. Shape' /\ RecordInv'
  BY <1>1, AtStepFinds DEF disk, IInv, Shape, RecordInv
<1>5. Seen' = Seen
  BY <1>1, <1>3 DEF disk, Seen
<1>6. SeenInv'
  BY <1>1, <1>5 DEF disk, IInv, SeenInv
<1>7. SentInv' /\ AgreeInv' /\ CommitInv'
  BY <1>1, <1>3, AtStepFinds, NoneDiffers
  DEF SentInv, AgreeInv, CommitInv, Reconciling
<1> QED BY <1>2, <1>4, <1>6, <1>7 DEF IInv, RunInv

LEMMA RaiseIInv ==
    ASSUME IInv, Raise PROVE IInv'
<1>1. UNCHANGED <<disk, setting, plan, next, budget, ending, reason, sent, placed>>
      /\ status' = "raised" /\ todo' = <<>>
  BY DEF Raise
<1>2. TypeOK'
  BY <1>1 DEF disk, IInv, TypeOK
<1> QED BY <1>1, <1>2, NothingDueIInv DEF disk, Orderly

LEMMA CrashIInv ==
    ASSUME IInv, Crash PROVE IInv'
<1>1. UNCHANGED <<orders, calls, runs, setting, plan, next, budget, ending, reason,
                  sent, placed>>
      /\ status' = "crashed" /\ todo' = <<>>
  BY DEF Crash
<1>2. DOMAIN work' = Files /\ \A f \in Files : work'[f] \in {work[f], Torn}
  BY DEF Crash, IInv, TypeOK
<1>3. TypeOK'
  BY <1>1, <1>2 DEF IInv, TypeOK
<1> QED BY <1>1, <1>2, <1>3, NothingDueIInv DEF Orderly

-----------------------------------------------------------------------------
(* Exchanges and events                                                     *)

(* A handler that has decided on its writes.                                *)
LEMMA HandleTyped ==
    ASSUME IInv, AtStep, BudgetLeft, NEW writes, writes # <<>>, Writes(writes),
           NEW result \in {"ok", "IOAmbiguousResult"}, Handle(writes, result),
           calls' = calls \/ calls' = calls + 1,
           orders' \subseteq 1 .. calls', placed' \subseteq 1 .. calls',
           sent' \in {None} \cup 1 .. calls'
    PROVE  TypeOK' /\ Shape'
<1>1. UNCHANGED <<work, runs, setting, plan, status, next, reason>>
      /\ todo' = writes /\ ending' = result /\ budget' = Charged
  BY DEF Handle
<1>2. TypeOK
  BY DEF IInv
<1>3. TypeOK'
  <2>1. calls' \in Nat
    BY <1>2 DEF TypeOK
  <2>2. budget' \in Nat \cup {None}
    BY <1>1, <1>2, ChargedTyped
  <2>3. ending' # None /\ status' = "running" /\ ending' \in {"ok", "IOAmbiguousResult"}
    BY <1>1, AtStepFinds, NoneDiffers
  <2>4. /\ DOMAIN work' = Files /\ runs' \in 0 .. MaxRuns /\ setting' \in Settings
        /\ plan' \in Plans \cup {<<>>} /\ next' \in 1 .. Len(plan') + 1
        /\ reason' \in Refusals \cup {None}
    BY <1>1, <1>2 DEF TypeOK
  <2> QED BY <2>1, <2>2, <2>3, <2>4 DEF TypeOK
<1>4. Shape'
  BY <1>1, AtStepFinds DEF IInv, Shape
<1> QED BY <1>3, <1>4

(* The three files of an exchange, and what they will hold.                 *)
LEMMA ArtifactsWritten ==
    ASSUME TypeOK, NEW effect \in Exchanges,
           NEW reply \in {"ok", "error", "accepted", "done"}, NEW w
    PROVE  LET t == Artifacts(effect, reply)
               note == [call |-> calls + 1, status |-> reply]
           IN  /\ Writes(t) /\ t # <<>> /\ note \in Note
               /\ \A i \in 1 .. Len(t) : t[i].file # Record
               /\ \A f \in {Outcome, Report, Remediation} : HeldIn(w, t, f) = w[f]
               /\ HeldIn(w, t, Request) = IF effect = "submit" THEN [call |-> calls + 1]
                                          ELSE w[Request]
               /\ HeldIn(w, t, Response) = IF effect = "submit" THEN note
                                           ELSE w[Response]
<1> DEFINE note == [call |-> calls + 1, status |-> reply]
           a == [file |-> <<"request", effect>>, data |-> [call |-> calls + 1]]
           b == [file |-> <<"response", effect>>, data |-> note]
           c == [file |-> <<"event", effect>>, data |-> note]
<1>1. calls + 1 \in Nat
  BY DEF TypeOK
<1>2. note \in Note /\ [call |-> calls + 1] \in Asked
  BY <1>1 DEF Note, Asked
<1>3. a \in Writing /\ b \in Writing /\ c \in Writing
  BY <1>2 DEF Writing, Files, Contents
<1>4. a.file # b.file /\ a.file # c.file /\ b.file # c.file
  OBVIOUS
<1>5. Fits(a.file, a.data) /\ Fits(b.file, b.data) /\ Fits(c.file, c.data)
  BY <1>2 DEF Fits, Request, Response, Outcome
<1>6. Artifacts(effect, reply) = <<a, b, c>>
  BY DEF Artifacts
<1>7. \A i \in 1 .. Len(<<a, b, c>>) : <<a, b, c>>[i].file # Record
  BY DEF Record
<1>8. /\ a.file = Request <=> effect = "submit"
      /\ b.file = Response <=> effect = "submit"
      /\ a.file # Response /\ b.file # Request /\ c.file # Request /\ c.file # Response
      /\ \A f \in {Outcome, Report, Remediation} :
             f # a.file /\ f # b.file /\ f # c.file
  BY DEF Request, Response, Outcome, Report, Remediation
<1>9. a.data = [call |-> calls + 1] /\ b.data = note
  OBVIOUS
<1> HIDE DEF a, b, c
<1>10. <<a, b, c>> # <<>>
  OBVIOUS
<1>11. /\ Writes(<<a, b, c>>)
      /\ \A f : HeldIn(w, <<a, b, c>>, f) =
            IF f = a.file THEN a.data ELSE IF f = b.file THEN b.data
            ELSE IF f = c.file THEN c.data ELSE w[f]
  <2>1. Writes(<<a, b, c>>)
    BY <1>3, <1>4, <1>5, HeldThree, Zenon
  <2>2. \A f : HeldIn(w, <<a, b, c>>, f) =
            IF f = a.file THEN a.data ELSE IF f = b.file THEN b.data
            ELSE IF f = c.file THEN c.data ELSE w[f]
    <3> DEFINE Hold(x, y, z) ==
                   \A f : HeldIn(w, <<x, y, z>>, f) =
                       IF f = x.file THEN x.data ELSE IF f = y.file THEN y.data
                       ELSE IF f = z.file THEN z.data ELSE w[f]
    <3> HIDE DEF Hold
    <3>1. Hold(a, b, c)
      BY <1>3, <1>4, <1>5, HeldThree DEF Hold
    <3> QED BY <3>1 DEF Hold
  <2> QED BY <2>1, <2>2
<1> QED BY <1>2, <1>6, <1>7, <1>8, <1>9, <1>10, <1>11

(* Every exchange, whatever it does to the orders.                          *)
LEMMA ExchangedIInv ==
    ASSUME IInv, NEW effect \in Exchanges,
           NEW reply \in {"ok", "error", "accepted", "done"}, Reachable(effect),
           Exchanged(effect, reply),
           sent' = IF effect = "submit" THEN calls + 1 ELSE sent,
           orders' \subseteq 1 .. calls + 1, placed' \subseteq 1 .. calls + 1
    PROVE  IInv'
<1> DEFINE note == [call |-> calls + 1, status |-> reply]
           t == Artifacts(effect, reply)
<1>1. /\ AtStep /\ BudgetLeft /\ Current = effect /\ Handling(effect)
      /\ Handle(t, "ok") /\ calls' = calls + 1 /\ calls \in Nat
  BY DEF Reachable, Handling, Exchanged, IInv, TypeOK
<1>2. /\ Writes(t) /\ t # <<>> /\ note \in Note
      /\ \A i \in 1 .. Len(t) : t[i].file # Record
      /\ \A f \in {Outcome, Report, Remediation} : HeldIn(work, t, f) = work[f]
      /\ HeldIn(work, t, Request) = IF effect = "submit" THEN [call |-> calls + 1]
                                    ELSE work[Request]
      /\ HeldIn(work, t, Response) = IF effect = "submit" THEN note ELSE work[Response]
  <2>1. TypeOK
    BY DEF IInv
  <2> QED BY <2>1, ArtifactsWritten, SMTT(30)
<1>3. UNCHANGED <<work, runs, setting, plan, status, next, reason>>
      /\ todo' = t /\ ending' = "ok"
  BY <1>1 DEF Handle
<1> HIDE DEF t, note
<1>4. sent' \in {None} \cup 1 .. calls'
  BY <1>1 DEF IInv, TypeOK
<1>5. TypeOK' /\ Shape'
  BY <1>1, <1>2, <1>4, HandleTyped
<1>6. RecordInv'
  BY <1>2, <1>3 DEF RecordInv
<1>7. \A f \in {Outcome, Report, Remediation} : Held(f)' = work[f] /\ Held(f) = work[f]
  BY <1>1, <1>2, <1>3, AtStepFinds DEF Held
<1>8. /\ Held(Request)' = IF effect = "submit" THEN [call |-> calls + 1] ELSE Held(Request)
      /\ Held(Response)' = IF effect = "submit" THEN note ELSE Held(Response)
  BY <1>1, <1>2, <1>3, AtStepFinds DEF Held
<1>9. SeenInv'
  <2>1. Seen' \subseteq Seen \cup {note}
    BY <1>3, <1>7, <1>8 DEF Seen
  <2>2. note.call = calls + 1
    BY DEF note
  <2>3. \A n \in Seen : n.call \in 1 .. calls
    BY DEF IInv, SeenInv
  <2>4. \A x, y \in Seen : x.call = y.call => x = y
    BY DEF IInv, SeenInv
  <2>5. \A x, y \in Seen \cup {note} : x.call = y.call => x = y
    BY <1>1, <2>2, <2>3, <2>4
  <2>6. \A n \in Seen \cup {note} : n.call \in 1 .. calls + 1
    BY <1>1, <2>2, <2>3
  <2> QED BY <1>1, <2>1, <2>5, <2>6 DEF SeenInv
<1>10. \A e : Handled(e)' <=> Handled(e) \/ effect = e
  BY <1>1, <1>3, HandledNow, NoneDiffers DEF IInv
<1>11. SubmitsFirst' = SubmitsFirst /\ Current' = Current /\ Orderly' = Orderly
  BY <1>3 DEF SubmitsFirst, Position, Current, Orderly
<1>12. effect = "submit" /\ SubmitsFirst => ~Handled("reconcile")
  <2> SUFFICES ASSUME effect = "submit", SubmitsFirst, Handled("reconcile") PROVE FALSE
    OBVIOUS
  <2>1. PICK i \in Position("reconcile") : Decided(i)
    BY DEF Handled
  <2>2. next \in Position("submit") /\ next \in Nat /\ ending = None
    BY <1>1, AtStepFinds, PlanTyped DEF IInv, Position, Current
  <2>3. next < i
    BY <2>2 DEF SubmitsFirst
  <2>4. i < next
    BY <2>1, <2>2 DEF Decided
  <2>5. i \in Nat
    BY PlanTyped DEF IInv, Position
  <2> QED BY <2>2, <2>3, <2>4, <2>5
<1>13. SentInv'
  <2>1. effect = "submit" => sent' = calls + 1 /\ note.call = calls + 1
    BY DEF note
  <2>2. calls + 1 # None
    BY <1>1, NoneDiffers
  <2> QED BY <1>1, <1>2, <1>8, <1>10, <2>1, <2>2, AtStepFinds DEF SentInv
<1>14. effect # "reconcile"
  BY DEF Exchanges
<1>15. AgreeInv'
  <2>1. CASE effect = "submit"
    BY <1>1, <1>3, <1>10, <1>11, <1>12, <1>14, <2>1, AtStepFinds, NoneDiffers
    DEF AgreeInv, Reconciling
  <2>2. CASE effect # "submit"
    BY <1>1, <1>3, <1>7, <1>8, <1>10, <1>11, <1>14, <2>2, AtStepFinds
    DEF AgreeInv, Reconciling
  <2> QED BY <2>1, <2>2
<1>16. CommitInv'
  BY <1>1, <1>3, <1>7, <1>10, <1>11, <1>14, AtStepFinds, NoneDiffers DEF CommitInv
<1> QED BY <1>5, <1>6, <1>9, <1>13, <1>15, <1>16 DEF IInv, RunInv

(* A handler that leaves submissions and judgements alone.                  *)
LEMMA AsideIInv ==
    ASSUME IInv, NEW effect \in Effects \ {"submit", "reconcile"}, Handling(effect),
           NEW t, Writes(t), t # <<>>, Handle(t, "ok"),
           UNCHANGED <<orders, calls, sent, placed>>,
           \A f \in {Request, Response, Outcome, Report, Remediation} :
               HeldIn(work, t, f) = work[f],
           RecordInv'
    PROVE  IInv'
<1>1. AtStep /\ BudgetLeft /\ Current = effect
  BY DEF Handling
<1>2. UNCHANGED <<work, runs, setting, plan, status, next, reason>>
      /\ todo' = t /\ ending' = "ok"
  BY DEF Handle
<1>3. TypeOK' /\ Shape'
  BY <1>1, HandleTyped DEF IInv, TypeOK
<1>4. \A f \in {Request, Response, Outcome, Report, Remediation} : Held(f)' = Held(f)
  BY <1>1, <1>2, AtStepFinds DEF Held
<1>5. Seen' = Seen
  BY <1>2, <1>4 DEF Seen
<1>6. \A e : Handled(e)' <=> Handled(e) \/ effect = e
  BY <1>1, <1>2, HandledNow, NoneDiffers DEF IInv
<1>7. SubmitsFirst' = SubmitsFirst /\ Current' = Current
  BY <1>2 DEF SubmitsFirst, Position, Current
<1>8. SentInv' /\ AgreeInv' /\ CommitInv'
  BY <1>1, <1>2, <1>4, <1>6, <1>7, AtStepFinds, NoneDiffers
  DEF SentInv, AgreeInv, CommitInv, Reconciling
<1> QED BY <1>3, <1>5, <1>8, SeenKept DEF IInv, RunInv

LEMMA EmitEventIInv ==
    ASSUME IInv, EmitEvent PROVE IInv'
<1> DEFINE a == [file |-> <<"event", "event">>,
                 data |-> [call |-> None, status |-> "io_event"]]
<1>1. Handling("event") /\ Handle(<<a>>, "ok") /\ UNCHANGED <<orders, calls, sent, placed>>
  BY DEF EmitEvent
<1>2. a \in Writing
  BY DEF Writing, Files, Contents, Note
<1>3. /\ Fits(a.file, a.data) /\ a.file # Record
      /\ a.file \notin {Request, Response, Outcome, Report, Remediation}
  BY DEF Fits, Request, Response, Outcome, Report, Remediation, Record
<1> HIDE DEF a
<1>4. Writes(<<a>>)
      /\ \A f : HeldIn(work, <<a>>, f) = IF f = a.file THEN a.data ELSE work[f]
  BY <1>2, <1>3, HeldOne
<1>5. RecordInv'
  BY <1>1, <1>3 DEF RecordInv, Handle
<1> QED BY <1>1, <1>3, <1>4, <1>5, AsideIInv DEF Effects

-----------------------------------------------------------------------------
(* Reconciliation and rollback                                              *)

(* What can be read has been written whole.                                 *)
LEMMA ReadableFits ==
    ASSUME Shape, NEW files \in SUBSET Files, Readable(files), NEW f \in files
    PROVE  work[f] \notin {None, Torn} /\ Fits(f, work[f])
  BY DEF Readable, Unreadable, Missing, Shape

(* The two or three files of a reconciliation, and what they will hold.     *)
LEMMA FindingsWritten ==
    ASSUME NEW outcome, Just(outcome), NEW w
    PROVE  LET t == Findings(outcome)
           IN  /\ Writes(t) /\ t # <<>>
               /\ \A i \in 1 .. Len(t) : t[i].file # Record
               /\ \A f \in {Request, Response} : HeldIn(w, t, f) = w[f]
               /\ HeldIn(w, t, Outcome) = outcome
               /\ HeldIn(w, t, Report) = [outcome |-> outcome]
               /\ outcome.action # "commit" =>
                      HeldIn(w, t, Remediation) = [outcome |-> outcome]
<1> DEFINE a == [file |-> Outcome, data |-> outcome]
           b == [file |-> Report, data |-> [outcome |-> outcome]]
           c == [file |-> Remediation, data |-> [outcome |-> outcome]]
<1>1. a \in Writing /\ b \in Writing /\ c \in Writing
  BY FilesDiffer DEF Writing, Contents, Just
<1>2. /\ a.file = Outcome /\ b.file = Report /\ c.file = Remediation
      /\ a.data = outcome /\ b.data = [outcome |-> outcome]
      /\ c.data = [outcome |-> outcome]
  OBVIOUS
<1>3. Findings(outcome) = <<a, b>> \o IF outcome.action = "commit" THEN <<>> ELSE <<c>>
  BY DEF Findings
<1> HIDE DEF a, b, c
<1>4. Fits(a.file, a.data) /\ Fits(b.file, b.data) /\ Fits(c.file, c.data)
  BY <1>2, FilesDiffer DEF Fits
<1>5. CASE outcome.action = "commit"
  <2>1. Findings(outcome) = <<a, b>>
    BY <1>3, <1>5
  <2>2. Writes(<<a, b>>)
    BY <1>1, <1>2, <1>4, FilesDiffer, HeldTwo
  <2>3. \A f : HeldIn(w, <<a, b>>, f) = IF f = a.file THEN a.data
                                        ELSE IF f = b.file THEN b.data ELSE w[f]
    BY <1>1, <1>2, <1>4, FilesDiffer, HeldTwo
  <2>4. \A i \in 1 .. Len(<<a, b>>) : <<a, b>>[i].file # Record
    BY <1>2, FilesDiffer
  <2>5. <<a, b>> # <<>>
    OBVIOUS
  <2> QED BY <1>2, <1>5, <2>1, <2>2, <2>3, <2>4, <2>5, FilesDiffer
<1>6. CASE outcome.action # "commit"
  <2> DEFINE t == <<a, b>> \o <<c>>
  <2>0. t = <<a, b, c>>
    <3>1. t \in Seq(Writing) /\ <<a, b, c>> \in Seq(Writing) /\ Len(t) = 3
      BY <1>1
    <3>2. t[1] = a /\ t[2] = b /\ t[3] = c
      BY <1>1
    <3> HIDE DEF t
    <3> QED BY <3>1, <3>2
  <2>1. Findings(outcome) = <<a, b, c>>
    BY <1>3, <1>6, <2>0
  <2> DEFINE Hold(x, y, z) ==
                 \A f : HeldIn(w, <<x, y, z>>, f) =
                     IF f = x.file THEN x.data ELSE IF f = y.file THEN y.data
                     ELSE IF f = z.file THEN z.data ELSE w[f]
  <2> HIDE DEF Hold
  <2>2. Writes(<<a, b, c>>) /\ Hold(a, b, c)
    BY <1>1, <1>2, <1>4, FilesDiffer, HeldThree DEF Hold
  <2>3. \A i \in 1 .. Len(<<a, b, c>>) : <<a, b, c>>[i].file # Record
    BY <1>2, FilesDiffer
  <2>4. <<a, b, c>> # <<>>
    OBVIOUS
  <2> QED BY <1>2, <1>6, <2>1, <2>2, <2>3, <2>4, FilesDiffer DEF Hold
<1> QED BY <1>5, <1>6

LEMMA ReconcileIInv ==
    ASSUME IInv, Reconcile PROVE IInv'
<1> DEFINE action == Verdict(work[Response])
           outcome == [action |-> action, request |-> work[Request],
                       response |-> work[Response]]
           result == IF action = "commit" THEN "ok" ELSE "IOAmbiguousResult"
           t == Findings(outcome)
<1>1. /\ Handling("reconcile") /\ Readable({Request, Response})
      /\ Handle(t, result) /\ UNCHANGED <<orders, calls, sent, placed>>
  BY DEF Reconcile
<1>2. AtStep /\ BudgetLeft /\ Current = "reconcile"
  BY <1>1 DEF Handling
<1>3. work[Request] \in Asked /\ work[Response] \in Note
      /\ work[Response] \notin {None, Torn}
  BY <1>1, FilesDiffer, ReadableFits DEF IInv, Fits
<1>4. /\ action \in {"commit", "rollback", "refuse"}
      /\ action = "commit" <=> work[Response].status = Expected
  BY DEF Verdict, Agreed
<1> HIDE DEF action
<1>5. Just(outcome)
  BY <1>3, <1>4 DEF Just, Judged
<1>6. outcome.request = work[Request] /\ outcome.response = work[Response]
      /\ outcome.action = action
  OBVIOUS
<1> HIDE DEF outcome
<1>7. /\ Writes(t) /\ t # <<>>
      /\ \A i \in 1 .. Len(t) : t[i].file # Record
      /\ \A f \in {Request, Response} : HeldIn(work, t, f) = work[f]
      /\ HeldIn(work, t, Outcome) = outcome
      /\ HeldIn(work, t, Report) = [outcome |-> outcome]
      /\ outcome.action # "commit" =>
             HeldIn(work, t, Remediation) = [outcome |-> outcome]
  BY <1>5, FindingsWritten
<1>8. UNCHANGED <<work, runs, setting, plan, status, next, reason>>
      /\ todo' = t /\ ending' = result
  BY <1>1 DEF Handle
<1>9. /\ result \in {"ok", "IOAmbiguousResult"} /\ result # None
      /\ result = "IOAmbiguousResult" <=> action # "commit"
  BY NoneDiffers
<1> HIDE DEF t, result
<1>10. TypeOK' /\ Shape'
  BY <1>1, <1>2, <1>7, <1>9, HandleTyped DEF IInv, TypeOK
<1>11. RecordInv'
  BY <1>7, <1>8 DEF RecordInv
<1>12. /\ Held(Request)' = Held(Request) /\ Held(Response)' = Held(Response)
       /\ Held(Request) = work[Request] /\ Held(Response) = work[Response]
       /\ Held(Outcome)' = outcome /\ Held(Report)' = [outcome |-> outcome]
       /\ outcome.action # "commit" => Held(Remediation)' = [outcome |-> outcome]
  BY <1>2, <1>7, <1>8, AtStepFinds DEF Held
<1>13. Seen' \subseteq Seen
  BY <1>3, <1>6, <1>8, <1>12 DEF Seen
<1>14. \A e : Handled(e)' <=> Handled(e) \/ "reconcile" = e
  BY <1>2, <1>8, <1>9, HandledNow DEF IInv
<1>15. SubmitsFirst' = SubmitsFirst /\ Current' = Current
  BY <1>8 DEF SubmitsFirst, Position, Current
<1>16. SentInv'
  BY <1>1, <1>2, <1>12, <1>14, AtStepFinds DEF SentInv
<1>17. outcome \in Judged
  BY <1>5 DEF Just
<1>18. AgreeInv'
  BY <1>6, <1>12, <1>17 DEF AgreeInv
<1>19. CommitInv'
  BY <1>2, <1>6, <1>8, <1>9, <1>12, <1>15, <1>17, AtStepFinds DEF CommitInv
<1> QED BY <1>1, <1>10, <1>11, <1>13, <1>16, <1>18, <1>19, SeenKept DEF IInv, RunInv

LEMMA RollbackIInv ==
    ASSUME IInv, Rollback PROVE IInv'
<1> DEFINE a == [file |-> Record, data |-> [outcome |-> work[Outcome]]]
<1>1. /\ Handling("rollback") /\ Readable({Outcome}) /\ RollbackRequired(work[Outcome])
      /\ Handle(<<a>>, "ok") /\ UNCHANGED <<orders, calls, sent, placed>>
  BY DEF Rollback
<1>2. work[Outcome] \in Judged
  BY <1>1, FilesDiffer, ReadableFits DEF IInv, Fits, Just
<1>3. a \in Writing
  BY <1>2, FilesDiffer DEF Writing, Contents
<1>4. a.file = Record /\ a.data = [outcome |-> work[Outcome]]
  OBVIOUS
<1> HIDE DEF a
<1>5. Fits(a.file, a.data)
  BY <1>4, FilesDiffer DEF Fits
<1>6. Writes(<<a>>)
      /\ \A f : HeldIn(work, <<a>>, f) = IF f = a.file THEN a.data ELSE work[f]
  BY <1>3, <1>5, HeldOne
<1>7. todo' = <<a>> /\ work' = work
  BY <1>1 DEF Handle
<1>8. RecordInv'
  BY <1>1, <1>4, <1>7 DEF RecordInv, RollbackRequired
<1> QED BY <1>1, <1>4, <1>6, <1>8, FilesDiffer, AsideIInv DEF Effects

-----------------------------------------------------------------------------
(* Writes, the end of a step and of a run                                   *)

LEMMA WriteIInv ==
    ASSUME IInv, Write
    PROVE  /\ IInv'
           /\ todo # <<>> /\ todo[1] \in Writing /\ 1 \in 1 .. Len(todo)
           /\ work' = [work EXCEPT ![todo[1].file] = todo[1].data]
           /\ \A f \in Files : Held(f)' = Held(f)
           /\ Held(todo[1].file) = todo[1].data
<1>1. /\ status = "running" /\ todo # <<>>
      /\ work' = [work EXCEPT ![Head(todo).file] = Head(todo).data]
      /\ todo' = Tail(todo)
      /\ UNCHANGED <<orders, calls, runs, setting, plan, status, next, budget,
                     ending, reason, sent, placed>>
  BY DEF Write
<1>2. Writes(todo) /\ DOMAIN work = Files
  BY DEF IInv, Shape, TypeOK
<1>3. \A f \in Files :
          /\ Writes(Tail(todo))
          /\ Head(todo) \in Writing /\ Head(todo) = todo[1] /\ 1 \in 1 .. Len(todo)
          /\ HeldIn(work', Tail(todo), f) = HeldIn(work, todo, f)
  BY <1>1, <1>2, HeldWrite
<1>4. /\ Writes(todo') /\ todo[1] \in Writing /\ 1 \in 1 .. Len(todo)
      /\ Head(todo) = todo[1]
      /\ \A f \in Files : Held(f)' = Held(f)
  BY <1>1, <1>3, FilesDiffer DEF Held
<1>5. Fits(todo[1].file, todo[1].data)
  BY <1>2, <1>4 DEF Writes
<1>6. Held(todo[1].file) = todo[1].data
  BY <1>2, <1>4, HeldDue DEF Held
<1>7. \A f \in Files : work'[f] = IF f = todo[1].file THEN todo[1].data ELSE work[f]
  BY <1>1, <1>2, <1>4
<1>8. TypeOK'
  BY <1>1, <1>2 DEF IInv, TypeOK
<1>9. Shape'
  BY <1>1, <1>4, <1>5, <1>7 DEF IInv, Shape
<1>10. RecordInv'
  <2>1. todo \in Seq(Writing)
    BY <1>2 DEF Writes
  <2>2. \A i \in 1 .. Len(todo') : i + 1 \in 1 .. Len(todo) /\ todo'[i] = todo[i + 1]
    BY <1>1, <2>1
  <2>3. \A i \in 1 .. Len(todo) : todo[i].file = Record => Len(todo) = 1
    BY DEF IInv, RecordInv
  <2>4. \A i \in 1 .. Len(todo') : todo'[i].file # Record
    BY <2>1, <2>2, <2>3
  <2> QED BY <2>4 DEF RecordInv
<1>11. Seen' \subseteq Seen
  <2>1. \A f \in Files : work'[f] \in {work[f], Held(f)}
    BY <1>6, <1>7
  <2> QED BY <1>4, <2>1, FilesDiffer DEF Seen
<1>12. RunInv'
  <2>1. /\ Orderly /\ \A e : Handled(e)' = Handled(e)
        /\ SubmitsFirst' = SubmitsFirst /\ Current' = Current
    BY <1>1 DEF Orderly, Handled, Decided, Position, SubmitsFirst, Current
  <2>2. SentInv /\ AgreeInv /\ CommitInv
    BY <2>1 DEF IInv, RunInv
  <2>3. SentInv' /\ AgreeInv' /\ CommitInv'
    BY <1>1, <1>4, <2>1, <2>2, FilesDiffer DEF SentInv, AgreeInv, CommitInv, Reconciling
  <2> QED BY <2>3 DEF RunInv
<1> QED BY <1>1, <1>4, <1>6, <1>8, <1>9, <1>10, <1>11, <1>12, SeenKept DEF IInv

LEMMA EndStepIInv ==
    ASSUME IInv, EndStep PROVE IInv'
<1>1. /\ status = "running" /\ ending # None /\ todo = <<>> /\ ending' = None
      /\ UNCHANGED <<work, orders, calls, runs, setting, plan, budget, todo, sent, placed>>
  BY DEF EndStep, disk
<1>2. next \in 1 .. Len(plan) /\ next \in Nat /\ Len(plan) \in Nat /\ next \in DOMAIN plan
  BY <1>1, PlanTyped DEF IInv, Shape
<1>3. /\ \A f : Held(f)' = Held(f)
      /\ SubmitsFirst' = SubmitsFirst /\ \A e : Position(e)' = Position(e)
  BY <1>1 DEF Held, SubmitsFirst, Position
<1>4. RecordInv' /\ Seen' = Seen
  BY <1>1, <1>3 DEF RecordInv, Seen, IInv
<1>5. Orderly /\ SentInv /\ AgreeInv /\ CommitInv
  BY <1>1 DEF Orderly, IInv, RunInv
<1>6. CASE ending = "ok"
  <2>1. next' = next + 1 /\ UNCHANGED <<status, reason>>
    BY <1>6 DEF EndStep
  <2>2. TypeOK'
    BY <1>1, <1>2, <2>1 DEF IInv, TypeOK
  <2>3. Shape'
    BY <1>1, NoWrites DEF IInv, Shape
  <2>4. \A e : Handled(e)' <=> Handled(e)
    BY <1>1, <1>2, <1>3, <2>1, PlanTyped DEF Handled, Decided, Position, IInv
  <2>5. SentInv' /\ AgreeInv' /\ CommitInv'
    BY <1>1, <1>3, <1>5, <1>6, <2>1, <2>4, NoneDiffers
    DEF SentInv, AgreeInv, CommitInv, Reconciling
  <2> QED BY <1>1, <1>4, <2>2, <2>3, <2>5, SeenKept DEF IInv, RunInv
<1>7. CASE ending # "ok"
  <2>1. ending = "IOAmbiguousResult"
    BY <1>1, <1>7 DEF IInv, TypeOK
  <2>2. status' = "denied" /\ reason' = "IOAmbiguousResult" /\ next' = next
    BY <1>7, <2>1 DEF EndStep
  <2>3. TypeOK'
    BY <1>1, <2>2 DEF IInv, TypeOK, Refusals
  <2>4. Shape'
    BY <1>1, NoWrites DEF IInv, Shape
  <2>5. \A e : Handled(e)' => Handled(e)
    BY <1>1, <1>3, <2>2 DEF Handled, Decided
  <2>6. Handled("reconcile")
    BY <1>1, <1>2, <1>5, <2>1 DEF Handled, Decided, Position, CommitInv, Current
  <2>7. SentInv' /\ AgreeInv' /\ CommitInv'
    BY <1>1, <1>3, <1>5, <2>2, <2>5, <2>6, NoneDiffers
    DEF SentInv, AgreeInv, CommitInv, Reconciling
  <2> QED BY <1>1, <1>4, <2>3, <2>4, <2>7, SeenKept DEF IInv, RunInv
<1> QED BY <1>6, <1>7

LEMMA CompleteIInv ==
    ASSUME IInv, Complete PROVE IInv'
<1>1. /\ status = "running" /\ ending = None /\ next > Len(plan)
      /\ status' = "completed"
      /\ UNCHANGED <<work, orders, calls, runs, setting, plan, next, budget, todo,
                     ending, reason, sent, placed>>
  BY DEF Complete, disk
<1>2. todo = <<>>
  BY <1>1 DEF IInv, TypeOK
<1>3. TypeOK'
  BY <1>1, <1>2 DEF IInv, TypeOK
<1>4. Shape' /\ RecordInv'
  BY <1>1 DEF IInv, Shape, RecordInv
<1>5. /\ \A f : Held(f)' = Held(f)
      /\ \A e : Handled(e)' = Handled(e)
      /\ SubmitsFirst' = SubmitsFirst /\ Current' = Current
  BY <1>1 DEF Held, Handled, Decided, Position, SubmitsFirst, Current
<1>6. Seen' = Seen
  BY <1>1, <1>5 DEF Seen
<1>7. SentInv /\ AgreeInv /\ CommitInv
  BY <1>1 DEF Orderly, IInv, RunInv
<1>8. SentInv' /\ AgreeInv' /\ CommitInv'
  BY <1>1, <1>5, <1>7, NoneDiffers DEF SentInv, AgreeInv, CommitInv, Reconciling
<1> QED BY <1>1, <1>3, <1>4, <1>6, <1>8, SeenKept DEF IInv, RunInv

LEMMA StutterIInv ==
    ASSUME IInv, UNCHANGED vars PROVE IInv'
<1>1. UNCHANGED <<work, orders, calls, runs, setting, plan, status, next, budget,
                  todo, ending, reason, sent, placed>>
  BY DEF vars, disk, local
<1>2. TypeOK'
  BY <1>1 DEF IInv, TypeOK
<1>3. /\ \A f : Held(f)' = Held(f)
      /\ \A e : Handled(e)' = Handled(e)
      /\ SubmitsFirst' = SubmitsFirst /\ Current' = Current
  BY <1>1 DEF Held, Handled, Decided, Position, SubmitsFirst, Current
<1>4. Shape' /\ RecordInv'
  BY <1>1 DEF IInv, Shape, RecordInv
<1>5. Seen' = Seen
  BY <1>1, <1>3 DEF Seen
<1>6. RunInv'
  BY <1>1, <1>3 DEF IInv, RunInv, Orderly, SentInv, AgreeInv, CommitInv, Reconciling
<1> QED BY <1>1, <1>2, <1>4, <1>5, <1>6, SeenKept DEF IInv

-----------------------------------------------------------------------------
(* The invariant                                                            *)

(* Whatever a run does by itself keeps the invariant.                       *)
LEMMA WorkIInv ==
    ASSUME IInv, Work PROVE IInv'
<1>1. CASE PolicyDenied
  <2>1. AtStep /\ (Deny("IOBudgetExceeded") \/ Deny("IOPermissionDenied"))
    BY <1>1 DEF PolicyDenied
  <2> QED BY <2>1, DenyIInv DEF Refusals
<1>2. CASE AdapterDenied \/ OrderIdDenied
  <2>1. AtStep /\ (\/ Deny("IOGuardNotEnabled") \/ Deny("IOAdapterUnavailable")
                  \/ Deny("OrderIdMissing"))
    BY <1>2 DEF AdapterDenied, OrderIdDenied, Handling
  <2> QED BY <2>1, DenyIInv DEF Refusals
<1>3. ASSUME NEW effect \in Exchanges, Simulate(effect) PROVE IInv'
  <2>1. /\ Reachable(effect) /\ Exchanged(effect, Simulated(effect))
        /\ sent' = IF effect = "submit" THEN calls + 1 ELSE sent
        /\ UNCHANGED <<orders, placed>>
    BY <1>3 DEF Simulate
  <2>2. Simulated(effect) \in {"ok", "error", "accepted", "done"}
    BY DEF Simulated
  <2>3. orders' \subseteq 1 .. calls + 1 /\ placed' \subseteq 1 .. calls + 1
    BY <2>1 DEF IInv, TypeOK
  <2> QED BY <2>1, <2>2, <2>3, ExchangedIInv
<1>4. ASSUME NEW reply \in {"ok", "error"}, NEW accepted \in BOOLEAN,
             Submit(reply, accepted)
      PROVE  IInv'
  <2>1. Reachable("submit") /\ Exchanged("submit", reply) /\ sent' = calls + 1
    BY <1>4 DEF Submit
  <2>2. orders' \subseteq 1 .. calls + 1 /\ placed' \subseteq 1 .. calls + 1
    BY <1>4 DEF Submit, IInv, TypeOK
  <2>3. "submit" \in Exchanges
    BY DEF Exchanges
  <2> QED BY <2>1, <2>2, <2>3, ExchangedIInv
<1>5. ASSUME NEW reply \in {"ok", "error"}, NEW cancelled \in orders \cup {None},
             Cancel(reply, cancelled)
      PROVE  IInv'
  <2>1. Reachable("cancel") /\ Exchanged("cancel", reply) /\ sent' = sent
    BY <1>5 DEF Cancel
  <2>2. orders' \subseteq 1 .. calls + 1 /\ placed' \subseteq 1 .. calls + 1
    BY <1>5 DEF Cancel, IInv, TypeOK
  <2>3. "cancel" \in Exchanges
    BY DEF Exchanges
  <2> QED BY <2>1, <2>2, <2>3, ExchangedIInv
<1>6. ASSUME NEW effect \in {"connect", "query"}, NEW reply \in {"ok", "error"},
             Ask(effect, reply)
      PROVE  IInv'
  <2>1. Reachable(effect) /\ Exchanged(effect, reply) /\ UNCHANGED <<orders, sent, placed>>
    BY <1>6 DEF Ask
  <2>2. orders' \subseteq 1 .. calls + 1 /\ placed' \subseteq 1 .. calls + 1
    BY <2>1 DEF IInv, TypeOK
  <2>3. effect \in Exchanges
    BY DEF Exchanges
  <2> QED BY <2>1, <2>2, <2>3, ExchangedIInv
<1>7. CASE AdapterRaises
  BY <1>7, RaiseIInv DEF AdapterRaises
<1>8. CASE EmitEvent
  BY <1>8, EmitEventIInv
<1>9. CASE Reconcile
  BY <1>9, ReconcileIInv
<1>10. CASE ReconcileDenied
  <2>1. AtStep /\ Deny("IOReconciliationInputsMissing")
    BY <1>10 DEF ReconcileDenied, Handling
  <2> QED BY <2>1, DenyIInv DEF Refusals
<1>11. CASE Rollback
  BY <1>11, RollbackIInv
<1>12. CASE RollbackDenied
  <2>1. AtStep /\ (Deny("IORollbackMissingOutcome") \/ Deny("IORollbackNotRequired"))
    BY <1>12 DEF RollbackDenied, Handling
  <2> QED BY <2>1, DenyIInv DEF Refusals
<1>13. CASE ReadRaises
  BY <1>13, RaiseIInv DEF ReadRaises
<1>14. CASE Write
  BY <1>14, WriteIInv
<1>15. CASE EndStep
  BY <1>15, EndStepIInv
<1>16. CASE Complete
  BY <1>16, CompleteIInv
<1> QED BY <1>1, <1>2, <1>3, <1>4, <1>5, <1>6, <1>7, <1>8, <1>9, <1>10, <1>11,
           <1>12, <1>13, <1>14, <1>15, <1>16 DEF Work

(* The invariant all the properties follow from: what the files will hold   *)
(* once the writes under way are made belongs together, in every state that *)
(* runs, refusals, exceptions and crashes in any order lead to.             *)
THEOREM InductiveIInv == Spec => []IInv
<1>1. IInv /\ [Next]_vars => IInv'
  BY StartIInv, WorkIInv, CrashIInv, StutterIInv DEF Next
<1> QED BY <1>1, InitIInv, PTL DEF Spec

(* The variables keep to their types, and a file is due to be written only  *)
(* while a handler of a running run is at work.                             *)
THEOREM TypeCorrect == Spec => []TypeOK
<1>1. IInv => TypeOK
  BY DEF IInv
<1> QED BY <1>1, InductiveIInv, PTL

(* The commit that a completed run ends with rests on the reply to its own  *)
(* submission, whatever the runs before it left behind.                     *)
THEOREM CommitsAreOfTheRun == Spec => []CommitIsOfThisRun
<1>1. IInv => CommitIsOfThisRun
  <2> SUFFICES ASSUME IInv, status = "completed", SubmitsFirst,
                      Position("submit") # {}, Position("reconcile") # {}
               PROVE  /\ work[Outcome].action = "commit"
                      /\ work[Outcome].request.call = sent
                      /\ work[Outcome].response = [call |-> sent, status |-> Expected]
    BY DEF CommitIsOfThisRun
  <2>1. SentInv /\ AgreeInv /\ CommitInv
    BY DEF IInv, RunInv, Orderly
  <2>2. todo = <<>> /\ \A f : Held(f) = work[f]
    BY HeldIdle DEF IInv, TypeOK, Held
  <2>3. \A e : \A i \in Position(e) : i < next
    BY <2>1, PlanTyped DEF IInv, Position, CommitInv
  <2>4. Handled("submit") /\ Handled("reconcile")
    BY <2>3 DEF Handled, Decided
  <2>5. sent # None /\ work[Request] = [call |-> sent]
        /\ work[Response] \in Note /\ work[Response].call = sent
    BY <2>1, <2>2, <2>4 DEF SentInv
  <2>6. work[Outcome] \in Judged /\ work[Outcome].request = work[Request]
        /\ work[Outcome].response = work[Response]
    BY <2>1, <2>2, <2>4 DEF AgreeInv, Reconciling
  <2>7. work[Outcome].action = "commit"
    BY <2>1, <2>2, <2>4, NoneDiffers DEF CommitInv, IInv, TypeOK
  <2>8. Just(work[Outcome])
    BY <2>6, FilesDiffer, NoneDiffers DEF IInv, Shape, Fits, Contents
  <2>9. work[Response].status = Expected
    BY <2>6, <2>7, <2>8 DEF Just
  <2>10. work[Response] = [call |-> sent, status |-> Expected]
    BY <2>5, <2>9 DEF Note
  <2> QED BY <2>5, <2>6, <2>7, <2>10
<1> QED BY <1>1, InductiveIInv, PTL

(* A run that comes to its own end after a reconciliation leaves files that *)
(* agree with each other, wherever earlier runs stopped between writes.     *)
THEOREM EvidenceStaysConsistent == Spec => []EvidenceAgrees
<1>1. IInv => EvidenceAgrees
  <2> SUFFICES ASSUME IInv, status \in {"completed", "denied"}, SubmitsFirst, Reconciled
               PROVE  /\ work[Outcome].request = work[Request]
                      /\ work[Outcome].response = work[Response]
                      /\ work[Report].outcome = work[Outcome]
                      /\ work[Outcome].action # "commit" =>
                             work[Remediation].outcome = work[Outcome]
    BY DEF EvidenceAgrees
  <2>1. AgreeInv
    BY DEF IInv, RunInv, Orderly
  <2>2. \A f : Held(f) = work[f]
    BY HeldIdle DEF IInv, TypeOK, Held
  <2>3. Reconciling
    BY DEF Reconciled, Reconciling, Handled, Decided
  <2> QED BY <2>1, <2>2, <2>3 DEF AgreeInv
<1> QED BY <1>1, InductiveIInv, PTL

(* Data gets into a file by a write that was due.                           *)
LEMMA OnlyWritesFill ==
    ASSUME IInv, [Next]_vars, NEW f \in Files, work'[f] \notin {work[f], None, Torn}
    PROVE  Write
<1>1. CASE \E p \in Plans, s \in Settings, wipe \in BOOLEAN : Start(p, s, wipe)
  BY <1>1 DEF Start
<1>2. CASE Work
  BY <1>2 DEF Work, PolicyDenied, AdapterDenied, OrderIdDenied, Deny, disk, Simulate, Exchanged,
         Handle, Submit, Cancel, Ask, AdapterRaises, Raise, EmitEvent, Reconcile,
         ReconcileDenied, Rollback, RollbackDenied, ReadRaises, EndStep, Complete
<1>3. CASE Crash
  BY <1>3 DEF Crash, IInv, TypeOK
<1>4. CASE UNCHANGED vars
  BY <1>4 DEF vars, disk
<1> QED BY <1>1, <1>2, <1>3, <1>4 DEF Next

(* No run turns a judgement that is no commit into a commit, but on the     *)
(* response to another submission.                                          *)
THEOREM JudgementsStand == Spec => NoSecondThoughts
<1> DEFINE Stands ==
        LET before == work[Outcome]
            after  == work'[Outcome]
        IN  before \notin {None, Torn} /\ after \notin {None, Torn} =>
                (before.action # "commit" /\ after.action = "commit" =>
                     before.response.call # after.response.call)
<1>1. IInv /\ IInv' /\ [Next]_vars => Stands
  <2> SUFFICES ASSUME IInv, IInv', [Next]_vars,
                      work[Outcome] \notin {None, Torn},
                      work'[Outcome] \notin {None, Torn},
                      work[Outcome].action # "commit",
                      work'[Outcome].action = "commit",
                      work[Outcome].response.call = work'[Outcome].response.call
               PROVE  FALSE
    OBVIOUS
  <2>1. Just(work[Outcome]) /\ Just(work'[Outcome])
    BY FilesDiffer DEF IInv, Shape, Fits
  <2>2. work'[Outcome] # work[Outcome]
    BY DEF Just
  <2>3. Write
    BY <2>2, OnlyWritesFill, FilesDiffer
  <2>4. work'[Outcome] = Held(Outcome)
    BY <2>3, WriteIInv, FilesDiffer DEF IInv, TypeOK
  <2>5. work[Outcome].response \in Seen /\ work'[Outcome].response \in Seen
    BY <2>4 DEF Seen
  <2>6. work[Outcome].response = work'[Outcome].response
    BY <2>5 DEF IInv, SeenInv
  <2> QED BY <2>1, <2>6 DEF Just
<1>2. NoSecondThoughts <=> [][Stands]_vars
  BY DEF NoSecondThoughts
<1> HIDE DEF Stands
<1> QED BY <1>1, <1>2, InductiveIInv, PTL DEF Spec

(* A rollback is recorded only for the outcome that is on disk, and only if *)
(* that requires it.                                                        *)
THEOREM RollbacksAreCalledFor == Spec => RollbackFollowsOutcome
<1> DEFINE CalledFor ==
        work'[Record] \notin {work[Record], None, Torn} =>
            /\ work'[Record].outcome = work[Outcome]
            /\ work[Outcome].action = "rollback"
<1>1. IInv /\ [Next]_vars => CalledFor
  <2> SUFFICES ASSUME IInv, [Next]_vars, work'[Record] \notin {work[Record], None, Torn}
               PROVE  /\ work'[Record].outcome = work[Outcome]
                      /\ work[Outcome].action = "rollback"
    OBVIOUS
  <2>1. Write
    BY OnlyWritesFill, FilesDiffer
  <2>2. work' = [work EXCEPT ![todo[1].file] = todo[1].data] /\ 1 \in 1 .. Len(todo)
    BY <2>1, WriteIInv
  <2>3. todo[1].file = Record /\ work'[Record] = todo[1].data
    BY <2>2, FilesDiffer DEF IInv, TypeOK
  <2>4. todo[1].data = [outcome |-> work[Outcome]] /\ work[Outcome].action = "rollback"
    BY <2>2, <2>3 DEF IInv, RecordInv
  <2> QED BY <2>3, <2>4
<1>2. RollbackFollowsOutcome <=> [][CalledFor]_vars
  BY DEF RollbackFollowsOutcome
<1> HIDE DEF CalledFor
<1> QED BY <1>1, <1>2, InductiveIInv, PTL DEF Spec

-----------------------------------------------------------------------------
(* Orders                                                                   *)

(* A run that is to submit has placed nothing yet.                          *)
LEMMA FirstSubmission ==
    ASSUME IInv, PlacedInv, \A p \in Plans : SubmitsOnce(p), Reachable("submit")
    PROVE  placed = {}
<1>1. AtStep /\ Current = "submit" /\ status = "running" /\ ending = None
  BY DEF Reachable, Handling, AtStep
<1>2. plan \in Plans /\ next \in DOMAIN plan /\ DOMAIN plan = 1 .. Len(plan)
      /\ Len(plan) \in Nat
  BY <1>1, AtStepFinds, PlanTyped DEF IInv, TypeOK
<1>3. SubmitsOnce(plan)
  BY <1>2
<1>4. ~Handled("submit")
  BY <1>1, <1>2, <1>3 DEF Handled, Decided, Position, SubmitsOnce, Current
<1> QED BY <1>1, <1>4 DEF PlacedInv, Orderly

LEMMA PlacedStep ==
    ASSUME IInv, IInv', PlacedInv, [Next]_vars, \A p \in Plans : SubmitsOnce(p)
    PROVE  PlacedInv'
<1>1. CASE \E p \in Plans, s \in Settings, wipe \in BOOLEAN : Start(p, s, wipe)
  BY <1>1 DEF Start, PlacedInv
<1>2. CASE \E reply \in {"ok", "error"}, accepted \in BOOLEAN : Submit(reply, accepted)
  <2>1. PICK reply \in {"ok", "error"}, accepted \in BOOLEAN : Submit(reply, accepted)
    BY <1>2
  <2>2. placed = {}
    BY <2>1, FirstSubmission DEF Submit
  <2>3. placed' \subseteq {calls + 1} /\ sent' = calls + 1
    BY <2>1, <2>2 DEF Submit
  <2>4. Handled("submit")'
    <3>1. AtStep /\ Current = "submit" /\ plan' = plan /\ next' = next /\ ending' = "ok"
      BY <2>1 DEF Submit, Reachable, Handling, Exchanged, Handle
    <3> QED BY <3>1, HandledNow, NoneDiffers DEF IInv
  <2> QED BY <2>3, <2>4 DEF PlacedInv
<1>3. CASE \E effect \in Exchanges : Simulate(effect)
  <2>1. PICK effect \in Exchanges : Simulate(effect)
    BY <1>3
  <2>2. /\ AtStep /\ Current = effect /\ plan' = plan /\ next' = next /\ ending' = "ok"
        /\ status' = status /\ placed' = placed
        /\ sent' = IF effect = "submit" THEN calls + 1 ELSE sent
    BY <2>1 DEF Simulate, Reachable, Handling, Exchanged, Handle
  <2>3. Handled("submit")' <=> Handled("submit") \/ effect = "submit"
    BY <2>2, HandledNow, NoneDiffers DEF IInv
  <2>4. effect = "submit" => placed = {}
    BY <2>1, FirstSubmission DEF Simulate
  <2> QED BY <2>2, <2>3, <2>4 DEF PlacedInv, Orderly
<1>4. ASSUME UNCHANGED <<plan, sent, placed>>, Orderly' => Orderly,
             status' = "running" => status = "running" /\ (Handled("submit") => Handled("submit")')
      PROVE  PlacedInv'
  BY <1>4 DEF PlacedInv
<1>5. ASSUME NEW t, NEW result, result # None, AtStep, Handle(t, result),
             UNCHANGED <<sent, placed>>
      PROVE  PlacedInv'
  <2>1. plan' = plan /\ next' = next /\ ending' # None /\ status' = status
    BY <1>5 DEF Handle
  <2>2. Handled("submit") => Handled("submit")'
    BY <1>5, <2>1, HandledNow DEF IInv
  <2> QED BY <1>4, <1>5, <2>1, <2>2 DEF Orderly
<1>6. CASE \/ \E reply \in {"ok", "error"}, cancelled \in orders \cup {None} :
                  Cancel(reply, cancelled)
           \/ \E effect \in {"connect", "query"}, reply \in {"ok", "error"} :
                  Ask(effect, reply)
  <2>1. PICK effect \in Exchanges, reply \in {"ok", "error"} :
            Reachable(effect) /\ Exchanged(effect, reply) /\ UNCHANGED <<sent, placed>>
    BY <1>6 DEF Cancel, Ask, Exchanges
  <2>2. AtStep /\ Handle(Artifacts(effect, reply), "ok")
    BY <2>1 DEF Reachable, Handling, Exchanged
  <2> QED BY <1>5, <2>1, <2>2, NoneDiffers
<1>7. CASE EmitEvent \/ Reconcile \/ Rollback
  <2>1. AtStep /\ UNCHANGED <<sent, placed>>
    BY <1>7 DEF EmitEvent, Reconcile, Rollback, Handling
  <2>2. \E t, result : result # None /\ Handle(t, result)
    BY <1>7, NoneDiffers DEF EmitEvent, Reconcile, Rollback
  <2> QED BY <1>5, <2>1, <2>2
<1>8. CASE PolicyDenied \/ AdapterDenied \/ OrderIdDenied \/ ReconcileDenied
           \/ RollbackDenied \/ AdapterRaises \/ ReadRaises \/ Crash
  <2>1. UNCHANGED <<plan, sent, placed>> /\ status' # "running"
    BY <1>8 DEF PolicyDenied, AdapterDenied, OrderIdDenied, ReconcileDenied, RollbackDenied,
         AdapterRaises, ReadRaises, Crash, Deny, Raise
  <2>2. Orderly' => Orderly
    BY <1>8 DEF PolicyDenied, AdapterDenied, OrderIdDenied, ReconcileDenied, RollbackDenied,
         AdapterRaises, ReadRaises, Crash, Deny, Raise, Handling, Reachable, AtStep, Orderly
  <2> QED BY <1>4, <2>1, <2>2
<1>9. CASE Write \/ Complete \/ UNCHANGED vars
  <2>1. UNCHANGED <<plan, next, ending, sent, placed>>
        /\ (status' = status \/ (status = "running" /\ status' = "completed"))
    BY <1>9 DEF Write, Complete, vars, local
  <2>2. Handled("submit")' <=> Handled("submit")
    BY <2>1 DEF Handled, Decided, Position
  <2> QED BY <1>4, <2>1, <2>2 DEF Orderly
<1>10. CASE EndStep
  <2>1. /\ UNCHANGED <<plan, sent, placed>> /\ status = "running" /\ ending # None
        /\ ending' = None
        /\ status' = "running" => next' = next + 1
    BY <1>10 DEF EndStep
  <2>2. next \in Nat /\ DOMAIN plan = 1 .. Len(plan) /\ Len(plan) \in Nat
    BY PlanTyped DEF IInv
  <2>3. status' = "running" => (Handled("submit") => Handled("submit")')
    BY <2>1, <2>2 DEF Handled, Decided, Position
  <2> QED BY <1>4, <2>1, <2>3 DEF Orderly
<1> QED BY <1>1, <1>2, <1>3, <1>6, <1>7, <1>8, <1>9, <1>10 DEF Next, Work

(* Of plans that submit once, every order a run placed is in its files when *)
(* it comes to its own end, the order that was taken though the adapter     *)
(* reported an error included.  A second submission would write over the    *)
(* files of the first.                                                      *)
THEOREM OrdersAreLogged ==
    ASSUME \A p \in Plans : SubmitsOnce(p)
    PROVE  Spec => []PlacedOrdersAreLogged
<1>1. Init => PlacedInv
  BY DEF Init, PlacedInv, Orderly
<1>2. IInv /\ IInv' /\ PlacedInv /\ [Next]_vars => PlacedInv'
  BY PlacedStep
<1>3. IInv /\ PlacedInv => PlacedOrdersAreLogged
  <2> SUFFICES ASSUME IInv, PlacedInv, status \in {"completed", "denied"}, NEW n \in placed
               PROVE  /\ work[Request] \notin {None, Torn} /\ work[Request].call = n
                      /\ work[Response] \notin {None, Torn} /\ work[Response].call = n
    BY DEF PlacedOrdersAreLogged
  <2>1. n = sent /\ n \in Nat /\ sent # None
    BY NoneDiffers DEF PlacedInv, Orderly, IInv, TypeOK
  <2>2. \A f : Held(f) = work[f]
    BY HeldIdle DEF IInv, TypeOK, Held
  <2>3. work[Request] = [call |-> n] /\ work[Response] \in Note /\ work[Response].call = n
    BY <2>1, <2>2 DEF IInv, RunInv, Orderly, SentInv
  <2>4. work[Request] \in Contents /\ work[Response] \in Contents
    BY <2>1, <2>3 DEF Contents, Asked
  <2> QED BY <2>3, <2>4, NoneDiffers
<1> QED BY <1>1, <1>2, <1>3, InductiveIInv, PTL DEF Spec
=============================================================================
