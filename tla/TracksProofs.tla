---------------------------- MODULE TracksProofs ----------------------------
(***************************************************************************)
(* What holds of every plan the scheduler makes, before it is run: its     *)
(* steps find the files they read among those that an earlier step writes, *)
(* and together they write what the command collects.                      *)
(***************************************************************************)
EXTENDS Tracks, Naturals, TLAPS

(* A step, and a sequence of steps.                                        *)
IsStep(s) ==
    DOMAIN s =
        {"effect", "files", "rootFirst", "given", "out", "refuses", "needs"}

IsPlan(steps) ==
    /\ \E S : steps \in Seq(S)
    /\ \A i \in 1..Len(steps) : IsStep(steps[i])

(* The files that the first k steps write.                                 *)
OutsOf(steps, k) == UNION {steps[i].out : i \in 1..k}

(* A plan that begins with the files "had" there: each step finds its own, *)
(* and at the end there are the roles.                                     *)
Fed(steps, had) ==
    \A i \in 1..Len(steps) :
        steps[i].files \subseteq had \cup OutsOf(steps, i - 1)

Serves(steps, had, roles) ==
    /\ IsPlan(steps)
    /\ Fed(steps, had)
    /\ roles \subseteq had \cup OutsOf(steps, Len(steps))

(* No step asks the root before the directory of outputs.                  *)
Beside(steps) == \A i \in 1..Len(steps) : ~steps[i].rootFirst

-----------------------------------------------------------------------------

(* What a step may refuse, where it looks first and what it needs change   *)
(* nothing else of it.                                                     *)
LEMMA StepFields ==
    /\ \A effect, files, given, out :
           LET s == Reads(effect, files, given, out) IN
           /\ IsStep(s) /\ s.files = files /\ s.out = out
           /\ s.rootFirst = FALSE
    /\ \A s, when :
           IsStep(s) => /\ IsStep(Checks(s, when))
                        /\ Checks(s, when).files = s.files
                        /\ Checks(s, when).out = s.out
                        /\ Checks(s, when).rootFirst = s.rootFirst
    /\ \A s, grant :
           IsStep(s) => /\ IsStep([s EXCEPT !.needs = grant])
                        /\ [s EXCEPT !.needs = grant].files = s.files
                        /\ [s EXCEPT !.needs = grant].out = s.out
                        /\ [s EXCEPT !.needs = grant].rootFirst = s.rootFirst
    /\ \A s :
           IsStep(s) => /\ IsStep(RootFirst(s))
                        /\ RootFirst(s).files = s.files
                        /\ RootFirst(s).out = s.out
  BY DEF Reads, Checks, RootFirst, IsStep

(* A function on 1..m is a sequence.                                       *)
LEMMA IsASeq ==
    ASSUME NEW S, NEW m \in Nat, NEW f \in [1..m -> S]
    PROVE  f \in Seq(S)
  OBVIOUS

(* A grant asked of every step changes nothing of what they read and write.*)
LEMMA NeedsKeeps ==
    ASSUME NEW grant, NEW steps, IsPlan(steps)
    PROVE  /\ IsPlan(Needs(grant, steps))
           /\ Len(Needs(grant, steps)) = Len(steps)
           /\ \A i \in 1..Len(steps) :
                  /\ Needs(grant, steps)[i].files = steps[i].files
                  /\ Needs(grant, steps)[i].out = steps[i].out
                  /\ Needs(grant, steps)[i].rootFirst = steps[i].rootFirst
<1>1. PICK S : steps \in Seq(S)
  BY DEF IsPlan
<1>2. DOMAIN steps = 1..Len(steps) /\ Len(steps) \in Nat
  BY <1>1
<1> DEFINE asked(i) == [steps[i] EXCEPT !.needs = grant]
           S2 == {asked(i) : i \in 1..Len(steps)}
<1>3. \A i \in 1..Len(steps) : /\ IsStep(asked(i))
                               /\ asked(i).files = steps[i].files
                               /\ asked(i).out = steps[i].out
                               /\ asked(i).rootFirst = steps[i].rootFirst
  BY StepFields DEF IsPlan
<1>4. \A i \in 1..Len(steps) : asked(i) \in S2
  OBVIOUS
<1>5. Needs(grant, steps) = [i \in 1..Len(steps) |-> asked(i)]
  BY <1>2 DEF Needs
<1> HIDE DEF asked, S2
<1>6. Needs(grant, steps) \in [1..Len(steps) -> S2]
  BY <1>4, <1>5
<1>7. Needs(grant, steps) \in Seq(S2)
  BY <1>2, <1>6, IsASeq
<1>8. Len(Needs(grant, steps)) = Len(steps)
  <2>1. DOMAIN Needs(grant, steps) = 1..Len(steps)
    BY <1>6
  <2>2. QED
    BY <1>2, <1>7, <2>1
<1>9. QED
  BY <1>3, <1>5, <1>7, <1>8 DEF IsPlan

(* So a plan with a grant serves as the plan without.                      *)
LEMMA NeedsServe ==
    ASSUME NEW grant, NEW steps, NEW had, NEW roles,
           Serves(steps, had, roles)
    PROVE  /\ Serves(Needs(grant, steps), had, roles)
           /\ Beside(steps) => Beside(Needs(grant, steps))
<1> DEFINE asked == Needs(grant, steps)
<1>1. IsPlan(steps) /\ Len(steps) \in Nat
  BY DEF Serves, IsPlan
<1>2. /\ IsPlan(asked) /\ Len(asked) = Len(steps)
      /\ \A i \in 1..Len(steps) : /\ asked[i].files = steps[i].files
                                  /\ asked[i].out = steps[i].out
                                  /\ asked[i].rootFirst = steps[i].rootFirst
  BY <1>1, NeedsKeeps
<1> HIDE DEF asked
<1>3. \A k \in 0..Len(steps) : OutsOf(asked, k) = OutsOf(steps, k)
  BY <1>1, <1>2 DEF OutsOf
<1>4. Fed(asked, had)
  <2> SUFFICES ASSUME NEW i \in 1..Len(steps)
               PROVE  asked[i].files \subseteq had \cup OutsOf(asked, i - 1)
    BY <1>2 DEF Fed
  <2>1. i - 1 \in 0..Len(steps)
    BY <1>1
  <2>2. steps[i].files \subseteq had \cup OutsOf(steps, i - 1)
    BY DEF Serves, Fed
  <2>3. QED
    BY <1>2, <1>3, <2>1, <2>2
<1>5. roles \subseteq had \cup OutsOf(asked, Len(asked))
  BY <1>1, <1>2, <1>3 DEF Serves
<1>6. QED
  BY <1>2, <1>4, <1>5 DEF Serves, Beside, asked

(* Of two plans that find their files each by itself, one may follow the   *)
(* other.                                                                  *)
LEMMA BothServe ==
    ASSUME NEW first, NEW steps, NEW had, NEW some, NEW roles,
           Serves(first, had, some), Serves(steps, had, roles)
    PROVE  /\ Serves(first \o steps, had, some \cup roles)
           /\ Beside(first) /\ Beside(steps) => Beside(first \o steps)
<1> DEFINE both == first \o steps
<1>1. \E U : first \in Seq(U) /\ steps \in Seq(U)
  <2>1. PICK S, T : first \in Seq(S) /\ steps \in Seq(T)
    BY DEF Serves, IsPlan
  <2>2. first \in Seq(S \cup T) /\ steps \in Seq(S \cup T)
    BY <2>1
  <2>3. QED
    BY <2>2
<1>2. /\ \E U : both \in Seq(U)
      /\ Len(steps) \in Nat /\ Len(first) \in Nat
      /\ Len(both) = Len(first) + Len(steps)
      /\ \A i \in 1..Len(first) : both[i] = first[i]
      /\ \A i \in 1..Len(steps) : both[Len(first) + i] = steps[i]
  <2>1. PICK U : first \in Seq(U) /\ steps \in Seq(U)
    BY <1>1
  <2>2. both \in Seq(U)
    BY <2>1
  <2>3. QED
    BY <2>1, <2>2
<1> HIDE DEF both
<1>3. ASSUME NEW i \in 1..Len(both)
      PROVE  \/ i \in 1..Len(first) /\ both[i] = first[i]
             \/ \E k \in 1..Len(steps) :
                    /\ i = Len(first) + k /\ i - 1 = Len(first) + (k - 1)
                    /\ k - 1 \in 0..Len(steps) /\ both[i] = steps[k]
  <2>1. CASE i <= Len(first)
    BY <1>2, <2>1
  <2>2. CASE ~(i <= Len(first))
    <3>1. /\ i - Len(first) \in 1..Len(steps)
          /\ i = Len(first) + (i - Len(first))
          /\ i - 1 = Len(first) + ((i - Len(first)) - 1)
          /\ (i - Len(first)) - 1 \in 0..Len(steps)
      BY <1>2, <2>2
    <3>2. QED
      BY <1>2, <3>1
  <2>3. QED
    BY <2>1, <2>2
<1>4. ASSUME NEW k \in 0..Len(first)
      PROVE  OutsOf(first, k) \subseteq OutsOf(both, k)
  <2>1. \A i \in 1..k : both[i] = first[i]
    BY <1>2
  <2>2. QED
    BY <2>1 DEF OutsOf
<1>5. ASSUME NEW k \in 0..Len(steps)
      PROVE  OutsOf(steps, k) \subseteq OutsOf(both, Len(first) + k)
  <2>1. \A i \in 1..k : /\ Len(first) + i \in 1..(Len(first) + k)
                        /\ both[Len(first) + i] = steps[i]
    BY <1>2
  <2>2. QED
    BY <2>1 DEF OutsOf
<1>6. IsPlan(both)
  BY <1>2, <1>3 DEF IsPlan, Serves
<1>7. ASSUME NEW i \in 1..Len(both)
      PROVE  both[i].files \subseteq had \cup OutsOf(both, i - 1)
  <2>1. CASE i \in 1..Len(first) /\ both[i] = first[i]
    <3>1. i - 1 \in 0..Len(first)
      BY <1>2, <2>1
    <3>2. first[i].files \subseteq had \cup OutsOf(first, i - 1)
      BY <2>1 DEF Serves, Fed
    <3>3. QED
      BY <1>4, <2>1, <3>1, <3>2
  <2>2. ASSUME NEW k \in 1..Len(steps),
               i - 1 = Len(first) + (k - 1), k - 1 \in 0..Len(steps),
               both[i] = steps[k]
        PROVE  both[i].files \subseteq had \cup OutsOf(both, i - 1)
    <3>1. steps[k].files \subseteq had \cup OutsOf(steps, k - 1)
      BY DEF Serves, Fed
    <3>2. OutsOf(steps, k - 1) \subseteq OutsOf(both, i - 1)
      BY <1>5, <2>2
    <3>3. QED
      BY <2>2, <3>1, <3>2
  <2>3. QED
    BY <1>3, <2>1, <2>2
<1>8. some \cup roles \subseteq had \cup OutsOf(both, Len(both))
  <2>1. roles \subseteq had \cup OutsOf(both, Len(both))
    BY <1>2, <1>5 DEF Serves
  <2>2. OutsOf(both, Len(first)) \subseteq OutsOf(both, Len(both))
    BY <1>2 DEF OutsOf
  <2>3. some \subseteq had \cup OutsOf(both, Len(both))
    BY <1>2, <1>4, <2>2 DEF Serves
  <2>4. QED
    BY <2>1, <2>3
<1>9. Beside(first) /\ Beside(steps) => Beside(both)
  BY <1>3 DEF Beside
<1>10. QED
  BY <1>6, <1>7, <1>8, <1>9 DEF Serves, Fed, both

(* What is there besides does no harm.                                     *)
LEMMA MoreServes ==
    ASSUME NEW steps, NEW less, NEW had, NEW roles,
           Serves(steps, less, roles), less \subseteq had
    PROVE  Serves(steps, had, roles)
  BY DEF Serves, Fed

(* Steps that read no file of the plan.                                    *)
Standing(v) == IsPlan(v) /\ Beside(v) /\ \A i \in 1..Len(v) : v[i].files = {}

(* They serve whatever is there.                                           *)
LEMMA StandingServes ==
    ASSUME NEW v, Standing(v), NEW had
    PROVE  Serves(v, had, {})
  BY DEF Standing, Serves, Fed

(* No step, and one step, are plans.                                       *)
LEMMA NoStep ==
    Standing(<<>>)
<1>1. <<>> \in Seq({}) /\ Len(<<>>) = 0
  OBVIOUS
<1>2. QED
  BY <1>1 DEF Standing, IsPlan, Beside

LEMMA OneStep ==
    ASSUME NEW s, IsStep(s), NEW had, s.files \subseteq had
    PROVE  /\ Serves(<<s>>, had, s.out)
           /\ ~s.rootFirst => Beside(<<s>>)
           /\ ~s.rootFirst /\ s.files = {} => Standing(<<s>>)
<1>1. <<s>> \in Seq({s}) /\ Len(<<s>>) = 1 /\ <<s>>[1] = s
  OBVIOUS
<1> DEFINE steps == <<s>>
<1>2. /\ steps \in Seq({s})
      /\ \A i \in 1..Len(steps) : i = 1 /\ steps[i] = s
      /\ Len(steps) = 1 /\ steps[1] = s
  BY <1>1
<1> HIDE DEF steps
<1>3. /\ IsPlan(steps) /\ Fed(steps, had)
      /\ ~s.rootFirst => Beside(steps)
      /\ s.files = {} => \A i \in 1..Len(steps) : steps[i].files = {}
      /\ s.out \subseteq OutsOf(steps, 1)
  BY <1>2 DEF IsPlan, Fed, Beside, OutsOf
<1>4. QED
  BY <1>2, <1>3 DEF steps, Serves, Standing

(* The steps of the lanes.                                                 *)
LEMMA ExchangeFields ==
    /\ \A effect, log :
           LET s == Exchange(effect, log) IN
           IsStep(s) /\ ~s.rootFirst /\ s.files = {} /\ s.out = {log}
    /\ \A log :
           LET s == Reconcile(log) IN
           /\ IsStep(s) /\ ~s.rootFirst /\ s.files = {log}
           /\ s.out = {"reconciliation"}
    /\ \A effect, log :
           LET s == NetExchange(effect, log) IN
           /\ IsStep(s) /\ ~s.rootFirst /\ s.files = {}
           /\ s.out = {log, "net_session_manifest"}
<1>1. \A effect, log :
          LET s == Exchange(effect, log) IN
          IsStep(s) /\ ~s.rootFirst /\ s.files = {} /\ s.out = {log}
  BY DEF Exchange, Reads, IsStep
<1>2. \A log :
          LET s == Reconcile(log) IN
          /\ IsStep(s) /\ ~s.rootFirst /\ s.files = {log}
          /\ s.out = {"reconciliation"}
  BY DEF Reconcile, Reads, IsStep
<1>3. \A effect, log :
          LET s == NetExchange(effect, log) IN
          /\ IsStep(s) /\ ~s.rootFirst /\ s.files = {}
          /\ s.out = {log, "net_session_manifest"}
  BY DEF NetExchange, Reads, IsStep
<1>4. QED
  BY <1>1, <1>2, <1>3

(* What the first k steps write, step by step.                             *)
LEMMA OutsGrow ==
    ASSUME NEW steps, NEW k \in Nat, NEW i \in 1..k
    PROVE  steps[i].out \subseteq OutsOf(steps, k)
  BY DEF OutsOf

-----------------------------------------------------------------------------

(* The plans of the tracks, each with what its command collects.  First    *)
(* that of trading on paper.                                               *)
LEMMA PaperServes ==
    ASSUME NEW v, NEW had, Serves(v, had, {}), Beside(v)
    PROVE  /\ Serves(PaperSteps(v), had, PaperDemo.roles)
           /\ Beside(PaperSteps(v))
<1> DEFINE s1 == IngestFixture
           s2 == ComputeSignal("market_snapshot")
           s3 == SimulateOrder("market_snapshot", {})
           s4 == UpdateRisk("trade_fill")
           s5 == EmitReport("market_snapshot", "trade_fill")
           steps == <<s1, s2, s3, s4, s5>>
<1>1. /\ IsStep(s1) /\ ~s1.rootFirst /\ s1.files = {}
      /\ s1.out = {"market_snapshot"}
      /\ IsStep(s2) /\ ~s2.rootFirst /\ s2.files = {"market_snapshot"}
      /\ s2.out = {"signal"}
      /\ IsStep(s3) /\ ~s3.rootFirst
      /\ s3.files = {"market_snapshot", "signal"}
      /\ s3.out = {"trade_fill"}
      /\ IsStep(s4) /\ ~s4.rootFirst /\ s4.files = {"trade_fill"}
      /\ s4.out = {"risk_envelope"}
      /\ IsStep(s5) /\ ~s5.rootFirst
      /\ s5.files = {"market_snapshot", "signal", "trade_fill",
                     "risk_envelope"}
      /\ s5.out = {"trade_report", "trade_report_md"}
  BY StepFields DEF IngestFixture, ComputeSignal, SimulateOrder, UpdateRisk,
           EmitReport
<1>2. PaperSteps(v) = v \o Needs("classical", steps)
  BY DEF PaperSteps
<1> HIDE DEF s1, s2, s3, s4, s5
<1>3. /\ Len(steps) = 5 /\ steps \in Seq({s1, s2, s3, s4, s5})
      /\ steps[1] = s1 /\ steps[2] = s2 /\ steps[3] = s3 /\ steps[4] = s4
      /\ steps[5] = s5
  OBVIOUS
<1> HIDE DEF steps
<1>4. IsPlan(steps) /\ Beside(steps)
  BY <1>1, <1>3 DEF IsPlan, Beside
<1>5. \A k \in 0..5 : \A i \in 1..k : steps[i].out \subseteq OutsOf(steps, k)
  BY OutsGrow
<1>6. Fed(steps, {})
  <2>1. /\ s1.files \subseteq OutsOf(steps, 0)
        /\ s2.files \subseteq OutsOf(steps, 1)
        /\ s3.files \subseteq OutsOf(steps, 2)
        /\ s4.files \subseteq OutsOf(steps, 3)
        /\ s5.files \subseteq OutsOf(steps, 4)
    BY <1>1, <1>3, <1>5
  <2>2. QED
    BY <1>3, <2>1 DEF Fed
<1>7. PaperDemo.roles \subseteq OutsOf(steps, 5)
  BY <1>1, <1>3, <1>5 DEF PaperDemo, Demo
<1>8. Serves(steps, {}, PaperDemo.roles)
  BY <1>3, <1>4, <1>6, <1>7 DEF Serves
<1>9. /\ Serves(Needs("classical", steps), {}, PaperDemo.roles)
       /\ Beside(Needs("classical", steps))
  BY <1>4, <1>8, NeedsServe
<1>10. Serves(Needs("classical", steps), had, PaperDemo.roles)
  BY <1>9, MoreServes
<1>11. /\ Serves(v \o Needs("classical", steps), had, {} \cup PaperDemo.roles)
       /\ Beside(v \o Needs("classical", steps))
  BY <1>9, <1>10, BothServe
<1>12. {} \cup PaperDemo.roles = PaperDemo.roles
  OBVIOUS
<1>13. QED
  BY <1>2, <1>11, <1>12

(* Trading against a model of the market.                                  *)
LEMMA ShadowServes ==
    ASSUME NEW v, NEW had, Serves(v, had, {}), Beside(v)
    PROVE  /\ Serves(ShadowSteps(v), had, ShadowDemo.roles)
           /\ Beside(ShadowSteps(v))
<1> DEFINE s1 == LoadModel
           s2 == IngestFixture
           s3 == RegimeShift
           s4 == ApplyLatency
           s5 == ComputeSignal("latency_snapshot")
           s6 == SimulateOrder("latency_snapshot", {"model"})
           s7 == PartialFill
           s8 == UpdateRisk("shadow_fill")
           s9 == OrderLifecycle
           s10 == EmitLedger
           s11 == EmitReport("latency_snapshot", "shadow_fill")
           steps == <<s1, s2, s3, s4, s5, s6, s7, s8, s9, s10, s11>>
<1>1. /\ IsStep(s1) /\ ~s1.rootFirst /\ s1.files = {}
      /\ s1.out = {"shadow_model", "shadow_seed"}
      /\ IsStep(s2) /\ ~s2.rootFirst /\ s2.files = {}
      /\ s2.out = {"market_snapshot"}
      /\ IsStep(s3) /\ ~s3.rootFirst /\ s3.files = {"market_snapshot"}
      /\ s3.out = {"regime_snapshot"}
      /\ IsStep(s4) /\ ~s4.rootFirst /\ s4.files = {"regime_snapshot"}
      /\ s4.out = {"latency_snapshot"}
      /\ IsStep(s5) /\ ~s5.rootFirst /\ s5.files = {"latency_snapshot"}
      /\ s5.out = {"signal"}
      /\ IsStep(s6) /\ ~s6.rootFirst
      /\ s6.files = {"latency_snapshot", "signal"}
      /\ s6.out = {"trade_fill"}
      /\ IsStep(s7) /\ ~s7.rootFirst /\ s7.files = {"trade_fill"}
      /\ s7.out = {"shadow_fill"}
      /\ IsStep(s8) /\ ~s8.rootFirst /\ s8.files = {"shadow_fill"}
      /\ s8.out = {"risk_envelope"}
      /\ IsStep(s9) /\ ~s9.rootFirst /\ s9.files = {"shadow_fill"}
      /\ s9.out = {"shadow_execution_log"}
      /\ IsStep(s10) /\ ~s10.rootFirst
      /\ s10.files = {"shadow_fill", "risk_envelope", "signal"}
      /\ s10.out = {"shadow_trade_ledger"}
      /\ IsStep(s11) /\ ~s11.rootFirst
      /\ s11.files = {"latency_snapshot", "signal", "shadow_fill",
                      "risk_envelope"}
      /\ s11.out = {"trade_report", "trade_report_md"}
  BY StepFields DEF LoadModel, IngestFixture, RegimeShift, ApplyLatency,
           ComputeSignal, SimulateOrder, PartialFill, UpdateRisk,
           OrderLifecycle, EmitLedger, EmitReport
<1>2. ShadowSteps(v) = v \o Needs("classical", steps)
  BY DEF ShadowSteps
<1> HIDE DEF s1, s2, s3, s4, s5, s6, s7, s8, s9, s10, s11
<1>3. /\ Len(steps) = 11
      /\ steps \in Seq({s1, s2, s3, s4, s5, s6, s7, s8, s9, s10, s11})
      /\ steps[1] = s1 /\ steps[2] = s2 /\ steps[3] = s3 /\ steps[4] = s4
      /\ steps[5] = s5 /\ steps[6] = s6 /\ steps[7] = s7 /\ steps[8] = s8
      /\ steps[9] = s9 /\ steps[10] = s10 /\ steps[11] = s11
  OBVIOUS
<1> HIDE DEF steps
<1>4. IsPlan(steps) /\ Beside(steps)
  BY <1>1, <1>3 DEF IsPlan, Beside
<1>5. \A k \in 0..11 : \A i \in 1..k : steps[i].out \subseteq OutsOf(steps, k)
  BY OutsGrow
<1>6. Fed(steps, {})
  <2>1. /\ s1.files \subseteq OutsOf(steps, 0)
        /\ s2.files \subseteq OutsOf(steps, 1)
        /\ s3.files \subseteq OutsOf(steps, 2)
        /\ s4.files \subseteq OutsOf(steps, 3)
        /\ s5.files \subseteq OutsOf(steps, 4)
        /\ s6.files \subseteq OutsOf(steps, 5)
        /\ s7.files \subseteq OutsOf(steps, 6)
        /\ s8.files \subseteq OutsOf(steps, 7)
        /\ s9.files \subseteq OutsOf(steps, 8)
        /\ s10.files \subseteq OutsOf(steps, 9)
        /\ s11.files \subseteq OutsOf(steps, 10)
    BY <1>1, <1>3, <1>5
  <2>2. QED
    BY <1>3, <2>1 DEF Fed
<1>7. ShadowDemo.roles \subseteq OutsOf(steps, 11)
  BY <1>1, <1>3, <1>5 DEF ShadowDemo, Demo
<1>8. Serves(steps, {}, ShadowDemo.roles)
  BY <1>3, <1>4, <1>6, <1>7 DEF Serves
<1>9. /\ Serves(Needs("classical", steps), {}, ShadowDemo.roles)
       /\ Beside(Needs("classical", steps))
  BY <1>4, <1>8, NeedsServe
<1>10. Serves(Needs("classical", steps), had, ShadowDemo.roles)
  BY <1>9, MoreServes
<1>11. /\ Serves(v \o Needs("classical", steps), had, {} \cup ShadowDemo.roles)
       /\ Beside(v \o Needs("classical", steps))
  BY <1>9, <1>10, BothServe
<1>12. {} \cup ShadowDemo.roles = ShadowDemo.roles
  OBVIOUS
<1>13. QED
  BY <1>2, <1>11, <1>12

(* Asking a broker for fills.                                              *)
LEMMA IoShadowServes ==
    ASSUME NEW v, NEW had, Serves(v, had, {}), Beside(v)
    PROVE  /\ Serves(IoShadowSteps(v), had, IoShadowDemo.roles)
           /\ Beside(IoShadowSteps(v))
<1> DEFINE s1 == Exchange("IO_CONNECT", "io_connect")
           s2 == Exchange("IO_QUERY_FILLS", "io_query")
           s3 == Reconcile("io_query")
           steps == <<s1, s2, s3>>
<1>1. /\ IsStep(s1) /\ ~s1.rootFirst /\ s1.files = {}
      /\ s1.out = {"io_connect"}
      /\ IsStep(s2) /\ ~s2.rootFirst /\ s2.files = {} /\ s2.out = {"io_query"}
      /\ IsStep(s3) /\ ~s3.rootFirst /\ s3.files = {"io_query"}
      /\ s3.out = {"reconciliation"}
  BY ExchangeFields
<1>2. IoShadowSteps(v) = v \o steps
  BY DEF IoShadowSteps
<1> HIDE DEF s1, s2, s3
<1>3. /\ Len(steps) = 3 /\ steps \in Seq({s1, s2, s3})
      /\ steps[1] = s1 /\ steps[2] = s2 /\ steps[3] = s3
  OBVIOUS
<1> HIDE DEF steps
<1>4. IsPlan(steps) /\ Beside(steps)
  BY <1>1, <1>3 DEF IsPlan, Beside
<1>5. \A k \in 0..3 : \A i \in 1..k : steps[i].out \subseteq OutsOf(steps, k)
  BY OutsGrow
<1>6. Fed(steps, {})
  <2>1. /\ s1.files \subseteq OutsOf(steps, 0)
        /\ s2.files \subseteq OutsOf(steps, 1)
        /\ s3.files \subseteq OutsOf(steps, 2)
    BY <1>1, <1>3, <1>5
  <2>2. QED
    BY <1>3, <2>1 DEF Fed
<1>7. IoShadowDemo.roles \subseteq OutsOf(steps, 3)
  BY <1>1, <1>3, <1>5 DEF IoShadowDemo, Demo
<1>8. Serves(steps, {}, IoShadowDemo.roles)
  BY <1>3, <1>4, <1>6, <1>7 DEF Serves
<1>9. Serves(steps, {}, IoShadowDemo.roles) /\ Beside(steps)
  BY <1>4, <1>8
<1>10. Serves(steps, had, IoShadowDemo.roles)
  BY <1>9, MoreServes
<1>11. /\ Serves(v \o steps, had, {} \cup IoShadowDemo.roles)
       /\ Beside(v \o steps)
  BY <1>9, <1>10, BothServe
<1>12. {} \cup IoShadowDemo.roles = IoShadowDemo.roles
  OBVIOUS
<1>13. QED
  BY <1>2, <1>11, <1>12

(* Placing an order with a broker.                                         *)
LEMMA IoLiveMinServes ==
    ASSUME NEW v, NEW had, Serves(v, had, {}), Beside(v)
    PROVE  /\ Serves(IoLiveMinSteps(v), had, IoLiveMinDemo.roles)
           /\ Beside(IoLiveMinSteps(v))
<1> DEFINE s1 == Exchange("IO_CONNECT", "io_connect")
           s2 == Exchange("IO_SUBMIT_ORDER", "io_submit")
           s3 == Reconcile("io_submit")
           steps == <<s1, s2, s3>>
<1>1. /\ IsStep(s1) /\ ~s1.rootFirst /\ s1.files = {}
      /\ s1.out = {"io_connect"}
      /\ IsStep(s2) /\ ~s2.rootFirst /\ s2.files = {}
      /\ s2.out = {"io_submit"}
      /\ IsStep(s3) /\ ~s3.rootFirst /\ s3.files = {"io_submit"}
      /\ s3.out = {"reconciliation"}
  BY ExchangeFields
<1>2. IoLiveMinSteps(v) = v \o steps
  BY DEF IoLiveMinSteps
<1> HIDE DEF s1, s2, s3
<1>3. /\ Len(steps) = 3 /\ steps \in Seq({s1, s2, s3})
      /\ steps[1] = s1 /\ steps[2] = s2 /\ steps[3] = s3
  OBVIOUS
<1> HIDE DEF steps
<1>4. IsPlan(steps) /\ Beside(steps)
  BY <1>1, <1>3 DEF IsPlan, Beside
<1>5. \A k \in 0..3 : \A i \in 1..k : steps[i].out \subseteq OutsOf(steps, k)
  BY OutsGrow
<1>6. Fed(steps, {})
  <2>1. /\ s1.files \subseteq OutsOf(steps, 0)
        /\ s2.files \subseteq OutsOf(steps, 1)
        /\ s3.files \subseteq OutsOf(steps, 2)
    BY <1>1, <1>3, <1>5
  <2>2. QED
    BY <1>3, <2>1 DEF Fed
<1>7. IoLiveMinDemo.roles \subseteq OutsOf(steps, 3)
  BY <1>1, <1>3, <1>5 DEF IoLiveMinDemo, Demo
<1>8. Serves(steps, {}, IoLiveMinDemo.roles)
  BY <1>3, <1>4, <1>6, <1>7 DEF Serves
<1>9. Serves(steps, {}, IoLiveMinDemo.roles) /\ Beside(steps)
  BY <1>4, <1>8
<1>10. Serves(steps, had, IoLiveMinDemo.roles)
  BY <1>9, MoreServes
<1>11. /\ Serves(v \o steps, had, {} \cup IoLiveMinDemo.roles)
       /\ Beside(v \o steps)
  BY <1>9, <1>10, BothServe
<1>12. {} \cup IoLiveMinDemo.roles = IoLiveMinDemo.roles
  OBVIOUS
<1>13. QED
  BY <1>2, <1>11, <1>12

(* Evolving a state; the root is asked first.                              *)
LEMMA NavierStokesServes ==
    ASSUME NEW v, NEW had, Serves(v, had, {}), Beside(v)
    PROVE  Serves(NavierStokesSteps(v), had, NavierStokesDemo.roles)
<1> DEFINE s1 == EvolveLinear
           s2 == ApplyDuhamel
           s3 == ProjectLeray
           s4 == RecoverPressure
           s5 == MeasureObservables
           s6 == CheckBarrier
           s7 == EmitState
           steps == <<s1, s2, s3, s4, s5, s6, s7>>
<1>1. /\ IsStep(s1) /\ s1.files = {} /\ s1.out = {"ns_state_linear"}
      /\ IsStep(s2) /\ s2.files = {"ns_state_linear"}
      /\ s2.out = {"ns_state_nonlinear"}
      /\ IsStep(s3) /\ s3.files = {"ns_state_nonlinear"}
      /\ s3.out = {"ns_state_projected"}
      /\ IsStep(s4) /\ s4.files = {"ns_state_projected"}
      /\ s4.out = {"ns_pressure"}
      /\ IsStep(s5) /\ s5.files = {"ns_state_projected"}
      /\ s5.out = {"ns_observables"}
      /\ IsStep(s6) /\ s6.files = {"ns_observables"}
      /\ s6.out = {"ns_gate_certificate"}
      /\ IsStep(s7) /\ s7.files = {"ns_state_projected"}
      /\ s7.out = {"ns_state_final"}
  BY StepFields DEF EvolveLinear, ApplyDuhamel, ProjectLeray,
           RecoverPressure, MeasureObservables, CheckBarrier, EmitState
<1>2. NavierStokesSteps(v) = v \o Needs("classical", steps)
  BY DEF NavierStokesSteps
<1> HIDE DEF s1, s2, s3, s4, s5, s6, s7
<1>3. /\ Len(steps) = 7 /\ steps \in Seq({s1, s2, s3, s4, s5, s6, s7})
      /\ steps[1] = s1 /\ steps[2] = s2 /\ steps[3] = s3 /\ steps[4] = s4
      /\ steps[5] = s5 /\ steps[6] = s6 /\ steps[7] = s7
  OBVIOUS
<1> HIDE DEF steps
<1>4. IsPlan(steps)
  BY <1>1, <1>3 DEF IsPlan
<1>5. \A k \in 0..7 : \A i \in 1..k : steps[i].out \subseteq OutsOf(steps, k)
  BY OutsGrow
<1>6. Fed(steps, {})
  <2>1. /\ s1.files \subseteq OutsOf(steps, 0)
        /\ s2.files \subseteq OutsOf(steps, 1)
        /\ s3.files \subseteq OutsOf(steps, 2)
        /\ s4.files \subseteq OutsOf(steps, 3)
        /\ s5.files \subseteq OutsOf(steps, 4)
        /\ s6.files \subseteq OutsOf(steps, 5)
        /\ s7.files \subseteq OutsOf(steps, 6)
    BY <1>1, <1>3, <1>5
  <2>2. QED
    BY <1>3, <2>1 DEF Fed
<1>7. NavierStokesDemo.roles \subseteq OutsOf(steps, 7)
  BY <1>1, <1>3, <1>5 DEF NavierStokesDemo, Demo
<1>8. Serves(steps, {}, NavierStokesDemo.roles)
  BY <1>3, <1>4, <1>6, <1>7 DEF Serves
<1>9. Serves(Needs("classical", steps), {}, NavierStokesDemo.roles)
  BY <1>4, <1>8, NeedsServe
<1>10. Serves(Needs("classical", steps), had, NavierStokesDemo.roles)
  BY <1>9, MoreServes
<1>11. Serves(v \o Needs("classical", steps), had,
              {} \cup NavierStokesDemo.roles)
  BY <1>9, <1>10, BothServe
<1>12. {} \cup NavierStokesDemo.roles = NavierStokesDemo.roles
  OBVIOUS
<1>13. QED
  BY <1>2, <1>11, <1>12

(* Governance of an agent.                                                 *)
LEMMA AgentServes ==
    ASSUME NEW v, NEW had, Serves(v, had, {}), Beside(v),
           AgentDemo.writes \subseteq had
    PROVE  /\ Serves(AgentSteps(v), had, AgentDemo.roles)
           /\ Beside(AgentSteps(v))
<1> DEFINE s == EvaluateProposal
<1>1. /\ IsStep(s) /\ ~s.rootFirst
      /\ s.files = AgentDemo.writes /\ s.out = {"agent_decision"}
  BY StepFields DEF EvaluateProposal, AgentDemo, Demo
<1>2. AgentSteps(v) = v \o <<s>>
  BY DEF AgentSteps
<1> HIDE DEF s
<1>3. Serves(<<s>>, AgentDemo.writes, s.out) /\ Beside(<<s>>)
  BY <1>1, OneStep
<1>4. AgentDemo.roles \subseteq AgentDemo.writes \cup s.out
  BY <1>1 DEF AgentDemo, Demo
<1>5. Serves(<<s>>, AgentDemo.writes, AgentDemo.roles)
  BY <1>3, <1>4 DEF Serves
<1>6. Serves(<<s>>, had, AgentDemo.roles)
  BY <1>5, MoreServes
<1>7. /\ Serves(v \o <<s>>, had, {} \cup AgentDemo.roles)
      /\ Beside(v \o <<s>>)
  BY <1>3, <1>6, BothServe
<1>8. {} \cup AgentDemo.roles = AgentDemo.roles
  OBVIOUS
<1>9. QED
  BY <1>2, <1>7, <1>8

(* Governance of a repository.                                             *)
LEMMA CiServes ==
    ASSUME NEW v, NEW had, Serves(v, had, {}), Beside(v),
           CiDemo.writes \subseteq had
    PROVE  /\ Serves(CiSteps(v), had, CiDemo.roles)
           /\ Beside(CiSteps(v))
<1> DEFINE s1 == CheckRepoState
           s2 == ValidateRegistries
           s3 == ValidateCoupling
           s4 == LowerBackendIr
           checks == <<s1, s2, s3>>
           lowers == Needs("backend", <<s4>>)
<1>1. /\ IsStep(s1) /\ ~s1.rootFirst /\ s1.files = CiDemo.writes
      /\ IsStep(s2) /\ ~s2.rootFirst /\ s2.files = {}
      /\ IsStep(s3) /\ ~s3.rootFirst /\ s3.files = {}
      /\ IsStep(s4) /\ ~s4.rootFirst /\ s4.files = {}
      /\ s4.out = CiDemo.roles
  BY StepFields DEF CheckRepoState, ValidateRegistries, ValidateCoupling,
                    LowerBackendIr, CiDemo, Demo
<1>2. CiSteps(v) = (checks \o v) \o lowers
  BY DEF CiSteps
<1> HIDE DEF s1, s2, s3, s4
<1>3. /\ Len(checks) = 3 /\ checks \in Seq({s1, s2, s3})
      /\ checks[1] = s1 /\ checks[2] = s2 /\ checks[3] = s3
  OBVIOUS
<1> HIDE DEF checks
<1>4. Serves(checks, had, {}) /\ Beside(checks)
  BY <1>1, <1>3 DEF Serves, IsPlan, Fed, Beside
<1>5. Serves(<<s4>>, had, CiDemo.roles) /\ Beside(<<s4>>)
  BY <1>1, OneStep
<1>6. Serves(lowers, had, CiDemo.roles) /\ Beside(lowers)
  BY <1>5, NeedsServe
<1> HIDE DEF lowers
<1>7. Serves(checks \o v, had, {} \cup {}) /\ Beside(checks \o v)
  BY <1>4, BothServe
<1>8. /\ Serves((checks \o v) \o lowers, had, ({} \cup {}) \cup CiDemo.roles)
      /\ Beside((checks \o v) \o lowers)
  BY <1>6, <1>7, BothServe
<1>9. ({} \cup {}) \cup CiDemo.roles = CiDemo.roles
  OBVIOUS
<1>10. QED
  BY <1>2, <1>8, <1>9

(* A session with a peer.                                                  *)
LEMMA NetServes ==
    ASSUME NEW had
    PROVE  Serves(NetSteps, had, NetDemo.roles) /\ Beside(NetSteps)
<1> DEFINE s1 == NetExchange("NET_CONNECT", "net_connect")
           s2 == NetExchange("NET_HANDSHAKE", "net_handshake")
           s3 == NetExchange("NET_KEY_EXCHANGE", "net_key_exchange")
           s4 == NetExchange("NET_SEND", "net_send")
           s5 == NetExchange("NET_RECV", "net_recv")
           s6 == NetExchange("NET_CLOSE", "net_close")
           steps == <<s1, s2, s3, s4, s5, s6>>
<1>1. /\ IsStep(s1) /\ ~s1.rootFirst /\ s1.files = {}
      /\ s1.out = {"net_connect", "net_session_manifest"}
      /\ IsStep(s2) /\ ~s2.rootFirst /\ s2.files = {}
      /\ s2.out = {"net_handshake", "net_session_manifest"}
      /\ IsStep(s3) /\ ~s3.rootFirst /\ s3.files = {}
      /\ s3.out = {"net_key_exchange", "net_session_manifest"}
      /\ IsStep(s4) /\ ~s4.rootFirst /\ s4.files = {}
      /\ s4.out = {"net_send", "net_session_manifest"}
      /\ IsStep(s5) /\ ~s5.rootFirst /\ s5.files = {}
      /\ s5.out = {"net_recv", "net_session_manifest"}
      /\ IsStep(s6) /\ ~s6.rootFirst /\ s6.files = {}
      /\ s6.out = {"net_close", "net_session_manifest"}
  BY ExchangeFields
<1>2. NetSteps = steps
  BY DEF NetSteps
<1> HIDE DEF s1, s2, s3, s4, s5, s6
<1>3. /\ Len(steps) = 6 /\ steps \in Seq({s1, s2, s3, s4, s5, s6})
      /\ steps[1] = s1 /\ steps[2] = s2 /\ steps[3] = s3 /\ steps[4] = s4
      /\ steps[5] = s5 /\ steps[6] = s6
  OBVIOUS
<1> HIDE DEF steps
<1>4. IsPlan(steps) /\ Beside(steps)
  BY <1>1, <1>3 DEF IsPlan, Beside
<1>5. \A k \in 0..6 : \A i \in 1..k : steps[i].out \subseteq OutsOf(steps, k)
  BY OutsGrow
<1>6. Fed(steps, {})
  <2>1. /\ s1.files \subseteq OutsOf(steps, 0)
        /\ s2.files \subseteq OutsOf(steps, 1)
        /\ s3.files \subseteq OutsOf(steps, 2)
        /\ s4.files \subseteq OutsOf(steps, 3)
        /\ s5.files \subseteq OutsOf(steps, 4)
        /\ s6.files \subseteq OutsOf(steps, 5)
    BY <1>1, <1>3, <1>5
  <2>2. QED
    BY <1>3, <2>1 DEF Fed
<1>7. NetDemo.roles \subseteq OutsOf(steps, 6)
  BY <1>1, <1>3, <1>5 DEF NetDemo, Demo
<1>8. Serves(steps, {}, NetDemo.roles)
  BY <1>3, <1>4, <1>6, <1>7 DEF Serves
<1>9. QED
  BY <1>2, <1>4, <1>8, MoreServes

(* Lowering, after a selection where one is asked for.                     *)
LEMMA KernelServes ==
    ASSUME NEW selection, Standing(selection), NEW had,
           NEW v, Serves(v, had, {}), Beside(v), NEW qasm
    PROVE  /\ Serves(KernelSteps(selection, v, qasm), had, {})
           /\ Beside(KernelSteps(selection, v, qasm))
<1> DEFINE s1 == LowerBackendIr
           s2 == LowerQasm
           more == IF qasm THEN <<s2>> ELSE <<>>
           lowers == <<s1>> \o more
           asked == Needs("backend", lowers)
<1>1. /\ IsStep(s1) /\ ~s1.rootFirst /\ s1.files = {}
      /\ IsStep(s2) /\ ~s2.rootFirst /\ s2.files = {}
  BY StepFields DEF LowerBackendIr, LowerQasm
<1>2. KernelSteps(selection, v, qasm) = (selection \o v) \o asked
  BY DEF KernelSteps
<1> HIDE DEF s1, s2
<1>3. Standing(<<s1>>) /\ Standing(<<s2>>) /\ Standing(<<>>)
  BY <1>1, OneStep, NoStep
<1>4. Standing(more)
  BY <1>3
<1> HIDE DEF more
<1>5. Serves(lowers, had, {} \cup {}) /\ Beside(lowers)
  BY <1>3, <1>4, StandingServes, BothServe DEF Standing
<1> HIDE DEF lowers
<1>6. Serves(asked, had, {} \cup {}) /\ Beside(asked)
  BY <1>5, NeedsServe
<1> HIDE DEF asked
<1>7. /\ Serves(selection \o v, had, {} \cup {})
      /\ Beside(selection \o v)
  BY StandingServes, BothServe DEF Standing
<1>8. /\ Serves((selection \o v) \o asked, had, ({} \cup {}) \cup ({} \cup {}))
      /\ Beside((selection \o v) \o asked)
  BY <1>6, <1>7, BothServe
<1>9. ({} \cup {}) \cup ({} \cup {}) = {}
  OBVIOUS
<1>10. QED
  BY <1>2, <1>8, <1>9

(* The operators of the program.                                           *)
LEMMA LegacyServes ==
    ASSUME NEW had
    PROVE  Serves(LegacySteps, had, {}) /\ Beside(LegacySteps)
<1> DEFINE s == Reads("NOOP", {}, {}, {})
<1>1. IsStep(s) /\ ~s.rootFirst /\ s.files = {} /\ s.out = {}
  BY StepFields
<1> HIDE DEF s
<1>2. Serves(<<s>>, had, {}) /\ Beside(<<s>>)
  BY <1>1, OneStep
<1>3. QED
  BY <1>2, NeedsServe DEF LegacySteps, s

(* The two steps of an epoch look for the public key beside the outputs    *)
(* where its path is relative; the one of the selection reads no file.     *)
LEMMA EpochServes ==
    ASSUME NEW required, NEW pub, NEW had,
           required /\ pub = "relative" => "pub" \in had
    PROVE  Serves(Epoch(required, pub), had, {}) /\ Beside(Epoch(required, pub))
<1> DEFINE s1 == VerifyEpoch
           s2 == VerifySignature(pub)
           steps == <<s1, s2>>
<1>1. CASE required
  <2>1. /\ IsStep(s1) /\ ~s1.rootFirst /\ s1.files \subseteq had
        /\ IsStep(s2) /\ ~s2.rootFirst /\ s2.files \subseteq had
    BY <1>1, StepFields DEF VerifyEpoch, VerifySignature
  <2>2. Epoch(required, pub) = steps
    BY <1>1 DEF Epoch
  <2> HIDE DEF s1, s2
  <2>3. /\ Len(steps) = 2 /\ steps \in Seq({s1, s2})
        /\ steps[1] = s1 /\ steps[2] = s2
    OBVIOUS
  <2> HIDE DEF steps
  <2>4. QED
    BY <2>1, <2>2, <2>3 DEF Serves, IsPlan, Fed, Beside
<1>2. CASE ~required
  BY <1>2, NoStep, StandingServes DEF Epoch, Standing
<1>3. QED
  BY <1>1, <1>2

LEMMA SelectionStands ==
    ASSUME NEW out
    PROVE  Standing(<<SelectTrack(out)>>)
<1>1. /\ IsStep(SelectTrack(out)) /\ ~SelectTrack(out).rootFirst
      /\ SelectTrack(out).files = {}
  BY StepFields DEF SelectTrack
<1>2. QED
  BY <1>1, OneStep

=============================================================================
