--------------------------- MODULE TokenTreeProofs ---------------------------
(* The invariants of TokenTree and its refinement of BudgetLease, proved    *)
(* for every root scope, every set of requests and every number of          *)
(* children.                                                                *)
EXTENDS TokenTree, SequenceTheorems, TLAPS

(* Cutting a request to the root's scope gives a scope within the root's.   *)
LEMMA IntersectAttenuates ==
    ASSUME NEW request \in Scope
    PROVE  /\ Intersect(Root, request) \in Scope
           /\ Intersect(Root, request).budget <= Root.budget
           /\ Intersect(Root, request).tools \subseteq Root.tools
           /\ Intersect(Root, request).caps \subseteq Root.caps
<1>1. /\ Root.budget \in Nat /\ request.budget \in Nat
      /\ Root.tools \subseteq Tools /\ Root.caps \subseteq Caps
  BY ConstantsOK DEF Scope
<1>2. /\ Lower(Root.budget, request.budget) \in Nat
      /\ Lower(Root.budget, request.budget) <= Root.budget
  BY <1>1 DEF Lower
<1>3. /\ request.tools \cap Root.tools \in SUBSET Tools
      /\ request.caps \cap Root.caps \in SUBSET Caps
  BY <1>1
<1> QED BY <1>2, <1>3 DEF Intersect, Scope

(* Every session has a token, and the token a budget state.                 *)
LEMMA SessionHasToken ==
    ASSUME TypeOK, NEW i \in DOMAIN sessions
    PROVE  /\ i \in DOMAIN children
           /\ i \in 1 .. Len(children)
           /\ children[i] \in Scope
           /\ children[i] \in DOMAIN recorded
           /\ recorded[children[i]] \in Nat
           /\ sessions[i] \in Session
  BY DEF TypeOK

(* What a witness reports is at least what the session will have counted.   *)
LEMMA ReportTyped ==
    ASSUME TypeOK, NEW i \in DOMAIN sessions, NEW n \in 1 .. MaxTurn
    PROVE  Report(i, n) \in Nat /\ Report(i, n) = sessions[i].steps + n
<1>1. sessions[i].steps \in Nat
  BY SessionHasToken DEF Session
<1> QED BY <1>1, ConstantsOK DEF Report

(* Receiving a witness adds to one budget state and revokes at most its     *)
(* token, which is in the set of revoked ones afterwards if the report      *)
(* alone exceeds the budget.                                                *)
LEMMA ReceiveEffect ==
    ASSUME TypeOK, NEW id \in DOMAIN recorded, NEW steps \in Nat,
           Receive(id, steps)
    PROVE  /\ DOMAIN recorded' = DOMAIN recorded
           /\ \A x \in DOMAIN recorded : recorded'[x] \in Nat
           /\ \/ UNCHANGED <<revoked, log>>
              \/ /\ id \notin revoked
                 /\ revoked' = revoked \cup {id}
                 /\ log' = Append(log, id)
           /\ steps > id.budget => id \in revoked'
<1>1. recorded[id] \in Nat /\ id.budget \in Nat
  BY DEF TypeOK, Scope
<1>2. CASE id \in revoked
  BY <1>2 DEF Receive, TypeOK
<1>3. CASE id \notin revoked
  <2> DEFINE total == recorded[id] + steps
  <2>1. /\ recorded' = [recorded EXCEPT ![id] = total]
        /\ IF total > id.budget
           THEN revoked' = revoked \cup {id} /\ log' = Append(log, id)
           ELSE UNCHANGED <<revoked, log>>
    BY <1>3 DEF Receive
  <2>2. total \in Nat /\ (steps > id.budget => total > id.budget)
    BY <1>1
  <2>3. DOMAIN recorded' = DOMAIN recorded
    BY <2>1
  <2>4. \A x \in DOMAIN recorded : recorded'[x] \in Nat
    BY <2>1, <2>2 DEF TypeOK
  <2> QED BY <1>3, <2>1, <2>2, <2>3, <2>4
<1> QED BY <1>2, <1>3

(* A session that is replaced by one of the right type.                     *)
LEMMA SessionsUpdated ==
    ASSUME TypeOK, NEW i \in DOMAIN sessions, NEW after \in Session,
           sessions' = [sessions EXCEPT ![i] = after]
    PROVE  /\ sessions' \in Seq(Session)
           /\ Len(sessions') = Len(sessions)
           /\ DOMAIN sessions' = DOMAIN sessions
           /\ sessions'[i] = after
           /\ \A j \in DOMAIN sessions : j # i => sessions'[j] = sessions[j]
<1>1. sessions \in Seq(Session)
  BY DEF TypeOK
<1> QED BY <1>1

(* The session at i after each of the three steps it takes.                 *)
Begun(i, toolbox) ==
    [sessions[i] EXCEPT
        !.busy = TRUE,
        !.offered = @ \cup IF children[i].tools = {} THEN toolbox
                           ELSE toolbox \cap children[i].tools]

Ended(i, n) ==
    [sessions[i] EXCEPT
        !.busy = FALSE,
        !.steps = @ + n,
        !.worked = @ + n,
        !.active = StillActive(children[i]),
        !.late = IF children[i] \in revoked THEN @ + 1 ELSE @]

Failed(i, n) == [sessions[i] EXCEPT !.busy = FALSE, !.worked = @ + n]

LEMMA StepsOfASession ==
    ASSUME TypeOK, NEW i \in DOMAIN sessions
    PROVE  /\ \A toolbox \in Toolboxes :
                  /\ Begun(i, toolbox) \in Session
                  /\ BeginTurn(i, toolbox) =>
                        sessions' = [sessions EXCEPT ![i] = Begun(i, toolbox)]
           /\ \A n \in 1 .. MaxTurn :
                  /\ Ended(i, n) \in Session
                  /\ EndTurn(i, n) =>
                        sessions' = [sessions EXCEPT ![i] = Ended(i, n)]
           /\ \A n \in 0 .. MaxTurn :
                  /\ Failed(i, n) \in Session
                  /\ FailTurn(i, n) =>
                        sessions' = [sessions EXCEPT ![i] = Failed(i, n)]
<1>1. /\ sessions[i] \in Session
      /\ sessions[i].steps \in Nat /\ sessions[i].worked \in Nat
      /\ sessions[i].late \in Nat /\ sessions[i].offered \subseteq Tools
  BY SessionHasToken DEF Session
<1>2. ASSUME NEW toolbox \in Toolboxes
      PROVE  /\ Begun(i, toolbox) \in Session
             /\ BeginTurn(i, toolbox) =>
                    sessions' = [sessions EXCEPT ![i] = Begun(i, toolbox)]
  <2> DEFINE offered == sessions[i].offered \cup
                            IF children[i].tools = {} THEN toolbox
                            ELSE toolbox \cap children[i].tools
  <2>a. toolbox \subseteq Tools
    BY ConstantsOK
  <2>1. offered \in SUBSET Tools
    BY <1>1, <2>a
  <2>b. Begun(i, toolbox) =
            [sessions[i] EXCEPT !.busy = TRUE, !.offered = offered]
    BY DEF Begun
  <2> HIDE DEF offered
  <2>2. Begun(i, toolbox) \in Session
    BY <1>1, <2>1, <2>b DEF Session
  <2> QED BY <2>2 DEF BeginTurn, Begun
<1>3. ASSUME NEW n \in 1 .. MaxTurn
      PROVE  /\ Ended(i, n) \in Session
             /\ EndTurn(i, n) =>
                    sessions' = [sessions EXCEPT ![i] = Ended(i, n)]
  <2> DEFINE late == IF children[i] \in revoked THEN sessions[i].late + 1
                     ELSE sessions[i].late
             active == StillActive(children[i])
  <2>1. n \in Nat /\ late \in Nat
    BY <1>1, ConstantsOK
  <2>2. active \in BOOLEAN
    BY DEF StillActive
  <2>3. sessions[i].steps + n \in Nat /\ sessions[i].worked + n \in Nat
    BY <1>1, <2>1
  <2>4. Ended(i, n) = [sessions[i] EXCEPT
            !.busy = FALSE, !.steps = @ + n, !.worked = @ + n,
            !.active = active, !.late = late]
    BY DEF Ended
  <2> HIDE DEF late, active
  <2>5. Ended(i, n) \in Session
    BY <1>1, <2>1, <2>2, <2>3, <2>4 DEF Session
  <2> QED BY <2>5 DEF EndTurn, Ended
<1>4. ASSUME NEW n \in 0 .. MaxTurn
      PROVE  /\ Failed(i, n) \in Session
             /\ FailTurn(i, n) =>
                    sessions' = [sessions EXCEPT ![i] = Failed(i, n)]
  <2>1. n \in Nat /\ sessions[i].worked + n \in Nat
    BY <1>1, ConstantsOK
  <2>2. Failed(i, n) \in Session
    BY <1>1, <2>1 DEF Failed, Session
  <2> QED BY <2>2 DEF FailTurn, Failed
<1> QED BY <1>2, <1>3, <1>4

LEMMA TypeStep == TypeOK /\ [Next]_vars => TypeOK'
<1> SUFFICES ASSUME TypeOK, [Next]_vars PROVE TypeOK'
  OBVIOUS
<1>1. ASSUME NEW request \in Requests, Spawn(request) PROVE TypeOK'
  <2> DEFINE child == Intersect(Root, request)
  <2>1. child \in Scope
    BY IntersectAttenuates, ConstantsOK
  <2>2. Idle \in Session
    BY DEF Idle, Session
  <2>3. /\ Len(children) < MaxChildren
        /\ children' = Append(children, child)
        /\ recorded' = [id \in DOMAIN recorded \cup {child} |->
                            IF id = child THEN 0 ELSE recorded[id]]
        /\ sessions' = Append(sessions, Idle)
        /\ UNCHANGED <<revoked, log>>
    BY <1>1 DEF Spawn
  <2>4. /\ children' \in Seq(Scope)
        /\ Len(children') = Len(children) + 1
        /\ Len(children') <= MaxChildren
        /\ sessions' \in Seq(Session)
        /\ Len(sessions') = Len(children')
    BY <2>1, <2>2, <2>3, ConstantsOK DEF TypeOK
  <2>5. \A i \in 1 .. Len(children') : children'[i] \in DOMAIN recorded'
    BY <2>1, <2>3 DEF TypeOK
  <2>6. \A id \in DOMAIN recorded' : id \in Scope /\ recorded'[id] \in Nat
    BY <2>1, <2>3 DEF TypeOK
  <2>7. revoked' \subseteq DOMAIN recorded' /\ log' \in Seq(Scope)
    BY <2>3 DEF TypeOK
  <2> QED BY <2>4, <2>5, <2>6, <2>7 DEF TypeOK
<1>2. ASSUME NEW i \in DOMAIN sessions, NEW toolbox \in Toolboxes,
             BeginTurn(i, toolbox)
      PROVE  TypeOK'
  <2>1. sessions' \in Seq(Session) /\ Len(sessions') = Len(sessions)
    BY <1>2, StepsOfASession, SessionsUpdated
  <2> QED BY <1>2, <2>1 DEF BeginTurn, TypeOK
<1>3. ASSUME NEW i \in DOMAIN sessions, NEW n \in 1 .. MaxTurn, EndTurn(i, n)
      PROVE  TypeOK'
  <2> DEFINE id == children[i]
  <2>a. sessions' = [sessions EXCEPT ![i] = Ended(i, n)] /\ Ended(i, n) \in Session
    BY <1>3, StepsOfASession
  <2>b. sessions' \in Seq(Session) /\ Len(sessions') = Len(sessions)
    BY <2>a, SessionsUpdated
  <2>1. /\ sessions' \in Seq(Session) /\ Len(sessions') = Len(sessions)
        /\ children' = children
    BY <1>3, <2>b DEF EndTurn
  <2>2. id \in DOMAIN recorded /\ id \in Scope
    BY SessionHasToken
  <2>3. Receive(id, Report(i, n))
    BY <1>3 DEF EndTurn
  <2> HIDE DEF id
  <2>4. /\ DOMAIN recorded' = DOMAIN recorded
        /\ \A x \in DOMAIN recorded : recorded'[x] \in Nat
        /\ \/ UNCHANGED <<revoked, log>>
           \/ revoked' = revoked \cup {id} /\ log' = Append(log, id)
    BY <2>2, <2>3, ReportTyped, ReceiveEffect
  <2>5. log \in Seq(Scope) /\ revoked \subseteq DOMAIN recorded
    BY DEF TypeOK
  <2>6. revoked' \subseteq DOMAIN recorded'
    BY <2>2, <2>4, <2>5
  <2>7. log' \in Seq(Scope)
    BY <2>2, <2>4, <2>5
  <2> QED BY <2>1, <2>4, <2>6, <2>7 DEF TypeOK
<1>4. ASSUME NEW i \in DOMAIN sessions, NEW n \in 0 .. MaxTurn, FailTurn(i, n)
      PROVE  TypeOK'
  <2>1. sessions' \in Seq(Session) /\ Len(sessions') = Len(sessions)
    BY <1>4, StepsOfASession, SessionsUpdated
  <2> QED BY <1>4, <2>1 DEF FailTurn, TypeOK
<1>5. CASE UNCHANGED vars
  BY <1>5 DEF vars, TypeOK
<1> QED BY <1>1, <1>2, <1>3, <1>4, <1>5 DEF Next

(* The type invariant of the scheduler's tables and its children.           *)
THEOREM TypesHold == Spec => []TypeOK
<1>1. Init => TypeOK
  BY ConstantsOK DEF Init, TypeOK
<1> QED BY <1>1, TypeStep, PTL DEF Spec

-----------------------------------------------------------------------------
(* No child has an authority that the root lacks: its scope is cut when it  *)
(* is minted (TokenScope.intersect) and never changes.                      *)
THEOREM ChildrenAreAttenuated == Spec => []Attenuated
<1>1. Init => Attenuated
  <2> SUFFICES ASSUME Init PROVE Attenuated
    OBVIOUS
  <2>1. children = <<>> /\ DOMAIN children = {}
    BY DEF Init
  <2> QED BY <2>1 DEF Attenuated
<1>2. TypeOK /\ Attenuated /\ [Next]_vars => Attenuated'
  <2> SUFFICES ASSUME TypeOK, Attenuated, [Next]_vars PROVE Attenuated'
    OBVIOUS
  <2>1. ASSUME NEW request \in Requests, Spawn(request) PROVE Attenuated'
    <3> DEFINE child == Intersect(Root, request)
    <3>1. /\ child.budget <= Root.budget
          /\ child.tools \subseteq Root.tools
          /\ child.caps \subseteq Root.caps
      BY IntersectAttenuates, ConstantsOK
    <3>2. children' = Append(children, child) /\ children \in Seq(Scope)
      BY <2>1 DEF Spawn, TypeOK
    <3> HIDE DEF child
    <3> QED BY <3>1, <3>2 DEF Attenuated
  <2>2. ASSUME UNCHANGED children PROVE Attenuated'
    BY <2>2 DEF Attenuated
  <2> QED BY <2>1, <2>2 DEF Next, vars, BeginTurn, EndTurn, FailTurn
<1> QED BY <1>1, <1>2, TypesHold, PTL DEF Spec

(* The revocation log and the revoked set are one record: a token that is   *)
(* revoked already is not counted and not logged again (receive_witness).   *)
THEOREM RevocationsAreLogged == Spec => []LogIsComplete
<1>1. Init => LogIsComplete
  BY DEF Init, LogIsComplete
<1>2. TypeOK /\ LogIsComplete /\ [Next]_vars => LogIsComplete'
  <2> SUFFICES ASSUME TypeOK, LogIsComplete, [Next]_vars PROVE LogIsComplete'
    OBVIOUS
  <2>1. ASSUME UNCHANGED <<revoked, log>> PROVE LogIsComplete'
    BY <2>1 DEF LogIsComplete
  <2>2. ASSUME NEW i \in DOMAIN sessions, NEW n \in 1 .. MaxTurn, EndTurn(i, n)
        PROVE  LogIsComplete'
    <3> DEFINE id == children[i]
    <3>1. id \in DOMAIN recorded /\ Receive(id, Report(i, n))
      BY <2>2, SessionHasToken DEF EndTurn
    <3>2. log \in Seq(Scope)
      BY DEF TypeOK
    <3> HIDE DEF id
    <3>3. \/ UNCHANGED <<revoked, log>>
          \/ /\ id \notin revoked
             /\ revoked' = revoked \cup {id}
             /\ log' = Append(log, id)
      BY <3>1, ReportTyped, ReceiveEffect
    <3>4. CASE /\ id \notin revoked
               /\ revoked' = revoked \cup {id}
               /\ log' = Append(log, id)
      <4>1. DOMAIN log' = DOMAIN log \cup {Len(log) + 1}
        BY <3>2, <3>4
      <4>2. /\ log'[Len(log) + 1] = id
            /\ \A k \in DOMAIN log : log'[k] = log[k] /\ log[k] \in revoked
        BY <3>2, <3>4 DEF LogIsComplete
      <4>3. revoked' = {log'[k] : k \in DOMAIN log'}
        BY <3>4, <4>1, <4>2 DEF LogIsComplete
      <4>4. \A k, l \in DOMAIN log' : log'[k] = log'[l] => k = l
        BY <3>4, <4>1, <4>2 DEF LogIsComplete
      <4> QED BY <4>3, <4>4 DEF LogIsComplete
    <3> QED BY <2>1, <3>3, <3>4
  <2> QED BY <2>1, <2>2 DEF Next, vars, Spawn, BeginTurn, FailTurn
<1> QED BY <1>1, <1>2, TypesHold, PTL DEF Spec

-----------------------------------------------------------------------------
(* What makes the two statements of a session inductive: a turn is only     *)
(* under way in a session that is active, and an active one has not         *)
(* exceeded the budget of its token.                                        *)
SessionInv ==
    \A i \in DOMAIN sessions :
        /\ sessions[i].late <= 1
        /\ sessions[i].late = 1 => ~sessions[i].active
        /\ sessions[i].busy => sessions[i].active
        /\ sessions[i].active => sessions[i].steps <= children[i].budget

(* What a turn that ends does to its own session.                           *)
LEMMA EndTurnEffect ==
    ASSUME TypeOK, SessionInv, NEW i \in DOMAIN sessions,
           NEW n \in 1 .. MaxTurn, EndTurn(i, n)
    PROVE  /\ sessions[i].active
           /\ children' = children
           /\ sessions' = [sessions EXCEPT ![i] = Ended(i, n)]
           /\ Ended(i, n) \in Session
           /\ ~Ended(i, n).busy
           /\ Ended(i, n).steps = sessions[i].steps + n
           /\ Ended(i, n).active \in BOOLEAN
           /\ Ended(i, n).active => Ended(i, n).steps <= children[i].budget
           /\ Ended(i, n).late <= 1
           /\ Ended(i, n).late = 1 => ~Ended(i, n).active
<1> DEFINE id == children[i]
<1>1. /\ sessions[i].busy /\ children' = children
      /\ Receive(id, Report(i, n))
  BY DEF EndTurn
<1>2. sessions[i].active /\ sessions[i].late <= 1 /\ sessions[i].late # 1
  BY <1>1 DEF SessionInv
<1>3. /\ sessions' = [sessions EXCEPT ![i] = Ended(i, n)]
      /\ Ended(i, n) \in Session
  BY StepsOfASession
<1>4. /\ sessions[i] \in Session
      /\ sessions[i].steps \in Nat /\ sessions[i].late \in Nat
      /\ id \in DOMAIN recorded /\ id.budget \in Nat
      /\ n \in Nat
  BY SessionHasToken, ConstantsOK DEF Session, Scope
<1>5. /\ revoked \subseteq revoked'
      /\ sessions[i].steps + n > id.budget => id \in revoked'
  BY <1>1, <1>4, ReportTyped, ReceiveEffect
<1>6. /\ ~Ended(i, n).busy
      /\ Ended(i, n).steps = sessions[i].steps + n
      /\ Ended(i, n).active <=> id \notin revoked'
      /\ Ended(i, n).late = IF id \in revoked THEN sessions[i].late + 1
                            ELSE sessions[i].late
  BY <1>4 DEF Ended, StillActive, Session
<1> HIDE DEF id
<1>7. sessions[i].late = 0
  BY <1>2, <1>4
<1>8. Ended(i, n).late <= 1 /\ (Ended(i, n).late = 1 => ~Ended(i, n).active)
  BY <1>5, <1>6, <1>7
<1>9. Ended(i, n).active => Ended(i, n).steps <= id.budget
  BY <1>4, <1>5, <1>6
<1>10. Ended(i, n).active \in BOOLEAN
  BY <1>3 DEF Session
<1> QED BY <1>1, <1>2, <1>3, <1>6, <1>8, <1>9, <1>10 DEF id

LEMMA SessionStep == TypeOK /\ SessionInv /\ [Next]_vars => SessionInv'
<1> SUFFICES ASSUME TypeOK, SessionInv, [Next]_vars PROVE SessionInv'
  OBVIOUS
<1>1. ASSUME NEW request \in Requests, Spawn(request) PROVE SessionInv'
  <2> DEFINE child == Intersect(Root, request)
  <2>1. /\ children' = Append(children, child)
        /\ sessions' = Append(sessions, Idle)
        /\ children \in Seq(Scope) /\ sessions \in Seq(Session)
        /\ Len(sessions) = Len(children)
    BY <1>1 DEF Spawn, TypeOK
  <2>2. child.budget \in Nat
    BY IntersectAttenuates, ConstantsOK DEF Scope
  <2> HIDE DEF child
  <2>3. /\ DOMAIN sessions' = DOMAIN sessions \cup {Len(sessions) + 1}
        /\ sessions'[Len(sessions) + 1] = Idle
        /\ children'[Len(sessions) + 1] = child
        /\ \A i \in DOMAIN sessions :
               sessions'[i] = sessions[i] /\ children'[i] = children[i]
    BY <2>1
  <2> QED BY <2>2, <2>3 DEF SessionInv, Idle
<1>2. ASSUME NEW i \in DOMAIN sessions, NEW toolbox \in Toolboxes,
             BeginTurn(i, toolbox)
      PROVE  SessionInv'
  <2>1. /\ sessions[i].active /\ children' = children
        /\ sessions' = [sessions EXCEPT ![i] = Begun(i, toolbox)]
        /\ Begun(i, toolbox) \in Session
    BY <1>2, StepsOfASession DEF BeginTurn
  <2>2. /\ Begun(i, toolbox).late = sessions[i].late
        /\ Begun(i, toolbox).active = sessions[i].active
        /\ Begun(i, toolbox).steps = sessions[i].steps
    BY SessionHasToken DEF Begun, Session
  <2> QED BY <2>1, <2>2, SessionsUpdated DEF SessionInv
<1>3. ASSUME NEW i \in DOMAIN sessions, NEW n \in 1 .. MaxTurn, EndTurn(i, n)
      PROVE  SessionInv'
  BY <1>3, EndTurnEffect, SessionsUpdated DEF SessionInv
<1>4. ASSUME NEW i \in DOMAIN sessions, NEW n \in 0 .. MaxTurn, FailTurn(i, n)
      PROVE  SessionInv'
  <2>1. /\ children' = children
        /\ sessions' = [sessions EXCEPT ![i] = Failed(i, n)]
        /\ Failed(i, n) \in Session
    BY <1>4, StepsOfASession DEF FailTurn
  <2>2. /\ Failed(i, n).late = sessions[i].late
        /\ Failed(i, n).active = sessions[i].active
        /\ Failed(i, n).steps = sessions[i].steps
        /\ Failed(i, n).busy = FALSE
    BY SessionHasToken DEF Failed, Session
  <2> QED BY <2>1, <2>2, SessionsUpdated DEF SessionInv
<1>5. CASE UNCHANGED vars
  BY <1>5 DEF vars, SessionInv
<1> QED BY <1>1, <1>2, <1>3, <1>4, <1>5 DEF Next

LEMMA SessionsCorrect == Spec => []SessionInv
<1>1. Init => SessionInv
  BY DEF Init, SessionInv
<1> QED BY <1>1, SessionStep, TypesHold, PTL DEF Spec

(* A session whose token is revoked, by its own report or by that of a      *)
(* session with an equal scope, ends at most one more turn.                 *)
THEOREM RevocationIsSeen == Spec => []OneLateTurn
<1>1. SessionInv => OneLateTurn
  BY DEF SessionInv, OneLateTurn
<1> QED BY <1>1, SessionsCorrect, PTL
-----------------------------------------------------------------------------

-----------------------------------------------------------------------------
(* The lease of a session as sequences of numbers and Booleans.             *)
LEMMA LeasesTyped ==
    ASSUME TypeOK
    PROVE  /\ Limits \in Seq(Nat) /\ Spent \in Seq(Nat) /\ Open \in Seq(BOOLEAN)
           /\ Len(Limits) = Len(children)
           /\ Len(Spent) = Len(children)
           /\ Len(Open) = Len(children)
<1>1. /\ Len(children) \in Nat
      /\ DOMAIN children = 1 .. Len(children)
      /\ DOMAIN sessions = 1 .. Len(children)
  BY DEF TypeOK
<1>2. \A i \in 1 .. Len(children) :
          /\ children[i].budget \in Nat
          /\ sessions[i].steps \in Nat
          /\ sessions[i].active \in BOOLEAN
  BY <1>1, SessionHasToken DEF Session, Scope
<1>3. Limits = [i \in 1 .. Len(children) |-> children[i].budget]
  BY <1>1 DEF Limits
<1>4. Spent = [i \in 1 .. Len(children) |-> sessions[i].steps]
  BY <1>1 DEF Spent
<1>5. Open = [i \in 1 .. Len(children) |-> sessions[i].active]
  BY <1>1 DEF Open
<1>6. Limits \in Seq(Nat) /\ Len(Limits) = Len(children)
  BY <1>1, <1>2, <1>3, IsASeq, LenProperties
<1>7. Spent \in Seq(Nat) /\ Len(Spent) = Len(children)
  BY <1>1, <1>2, <1>4, IsASeq, LenProperties
<1>8. Open \in Seq(BOOLEAN) /\ Len(Open) = Len(children)
  BY <1>1, <1>2, <1>5, IsASeq, LenProperties
<1> QED BY <1>6, <1>7, <1>8

LEMMA AppendAsFunction ==
    ASSUME NEW S, NEW seq \in Seq(S), NEW elt \in S
    PROVE  LET n == Len(seq)
           IN  Append(seq, elt) =
                   [i \in 1 .. n + 1 |-> IF i <= n THEN seq[i] ELSE elt]
<1> DEFINE n == Len(seq)
           f == [i \in 1 .. n + 1 |-> IF i <= n THEN seq[i] ELSE elt]
<1>1. /\ n \in Nat
      /\ \A i \in 1 .. n : seq[i] \in S
  OBVIOUS
<1>2. /\ Append(seq, elt) \in Seq(S)
      /\ Len(Append(seq, elt)) = n + 1
      /\ \A i \in 1 .. n : Append(seq, elt)[i] = seq[i]
      /\ Append(seq, elt)[n + 1] = elt
  BY AppendProperties
<1>3. /\ f \in Seq(S) /\ Len(f) = n + 1
  BY <1>1, IsASeq, LenProperties
<1>4. \A i \in 1 .. n + 1 : Append(seq, elt)[i] = f[i]
  BY <1>1, <1>2
<1> HIDE DEF f
<1>5. Append(seq, elt) = f
  BY <1>2, <1>3, <1>4, SeqEqual
<1> QED BY <1>5 DEF f

LEMMA LeaseStep == TypeOK /\ TypeOK' /\ SessionInv /\ [Next]_vars
                       => [Lease!Next]_Lease!vars
<1> SUFFICES ASSUME TypeOK, TypeOK', SessionInv, [Next]_vars
             PROVE  [Lease!Next]_Lease!vars
  OBVIOUS
<1>1. ASSUME NEW request \in Requests, Spawn(request) PROVE Lease!Grant
  <2> DEFINE child == Intersect(Root, request)
  <2>1. /\ children' = Append(children, child)
        /\ sessions' = Append(sessions, Idle)
        /\ children \in Seq(Scope) /\ sessions \in Seq(Session)
        /\ Len(sessions) = Len(children)
    BY <1>1 DEF Spawn, TypeOK
  <2>2. child.budget \in 0 .. Root.budget /\ child.budget \in Nat
    BY IntersectAttenuates, ConstantsOK DEF Scope
  <2> HIDE DEF child
  <2> DEFINE n == Len(children)
  <2>3. /\ n \in Nat
        /\ DOMAIN children = 1 .. n /\ DOMAIN sessions = 1 .. n
        /\ DOMAIN children' = 1 .. n + 1 /\ DOMAIN sessions' = 1 .. n + 1
        /\ children'[n + 1] = child /\ sessions'[n + 1] = Idle
        /\ \A i \in 1 .. n :
               sessions'[i] = sessions[i] /\ children'[i] = children[i]
    BY <2>1
  <2>a. /\ Limits \in Seq(Nat) /\ Spent \in Seq(Nat) /\ Open \in Seq(BOOLEAN)
        /\ n = Len(Limits) /\ n = Len(Spent) /\ n = Len(Open)
        /\ 0 \in Nat /\ TRUE \in BOOLEAN
    BY LeasesTyped
  <2> HIDE DEF n
  <2>4. Limits' = Append(Limits, child.budget)
    <3>1. Limits' = [i \in 1 .. n + 1 |-> children'[i].budget]
      BY <2>3 DEF Limits
    <3>2. Append(Limits, child.budget) =
              [i \in 1 .. n + 1 |-> IF i <= n THEN Limits[i] ELSE child.budget]
      <4>1. Limits \in Seq(Nat) /\ child.budget \in Nat /\ Len(Limits) = n
        BY <2>2, <2>a
      <4> QED BY <4>1, AppendAsFunction
    <3>3. \A i \in 1 .. n : Limits[i] = children[i].budget
      BY <2>3 DEF Limits
    <3> QED BY <2>3, <3>1, <3>2, <3>3
  <2>5. Spent' = Append(Spent, 0)
    <3>1. Spent' = [i \in 1 .. n + 1 |-> sessions'[i].steps]
      BY <2>3 DEF Spent
    <3>2. Append(Spent, 0) =
              [i \in 1 .. n + 1 |-> IF i <= n THEN Spent[i] ELSE 0]
      <4>1. Spent \in Seq(Nat) /\ 0 \in Nat /\ Len(Spent) = n
        BY <2>2, <2>a
      <4> QED BY <4>1, AppendAsFunction
    <3>3. \A i \in 1 .. n : Spent[i] = sessions[i].steps
      BY <2>3 DEF Spent
    <3> QED BY <2>3, <3>1, <3>2, <3>3 DEF Idle
  <2>6. Open' = Append(Open, TRUE)
    <3>1. Open' = [i \in 1 .. n + 1 |-> sessions'[i].active]
      BY <2>3 DEF Open
    <3>2. Append(Open, TRUE) =
              [i \in 1 .. n + 1 |-> IF i <= n THEN Open[i] ELSE TRUE]
      <4>1. Open \in Seq(BOOLEAN) /\ Len(Open) = n
        BY <2>a
      <4>2. ASSUME NEW elt \in BOOLEAN
            PROVE  Append(Open, elt) =
                       [i \in 1 .. n + 1 |-> IF i <= n THEN Open[i] ELSE elt]
        BY <4>1, AppendAsFunction
      <4> QED BY <4>2, Zenon
    <3>3. \A i \in 1 .. n : Open[i] = sessions[i].active
      BY <2>3 DEF Open
    <3>4. /\ \A i \in 1 .. n : sessions'[i].active = Open[i]
          /\ sessions'[n + 1].active = TRUE
      <4>1. \A i \in 1 .. n : sessions'[i].active = Open[i]
        BY <2>3, <3>3, Zenon
      <4>2. Idle.active = TRUE
        BY DEF Idle
      <4> QED BY <2>3, <4>1, <4>2, Zenon
    <3>5. \A i \in 1 .. n + 1 : IF i <= n THEN i \in 1 .. n ELSE i = n + 1
      BY <2>3
    <3>6. \A i \in 1 .. n + 1 :
              sessions'[i].active = IF i <= n THEN Open[i] ELSE TRUE
      BY <3>4, <3>5, Zenon
    <3> QED BY <3>1, <3>2, <3>6, Zenon
  <2> QED BY <2>2, <2>4, <2>5, <2>6 DEF Lease!Grant
<1>2. ASSUME UNCHANGED children,
             NEW i \in DOMAIN sessions, NEW after \in Session,
             sessions' = [sessions EXCEPT ![i] = after],
             after.steps = sessions[i].steps, after.active = sessions[i].active
      PROVE  UNCHANGED Lease!vars
  <2>1. /\ DOMAIN sessions' = DOMAIN sessions
        /\ \A j \in DOMAIN sessions :
               /\ sessions'[j].steps = sessions[j].steps
               /\ sessions'[j].active = sessions[j].active
    BY <1>2, SessionsUpdated
  <2>2. Spent' = Spent
    BY <2>1 DEF Spent
  <2>3. Open' = Open
    BY <2>1 DEF Open
  <2>4. Limits' = Limits
    BY <1>2 DEF Limits
  <2> QED BY <2>2, <2>3, <2>4 DEF Lease!vars
<1>3. ASSUME NEW i \in DOMAIN sessions, NEW toolbox \in Toolboxes,
             BeginTurn(i, toolbox)
      PROVE  UNCHANGED Lease!vars
  <2>1. /\ children' = children
        /\ sessions' = [sessions EXCEPT ![i] = Begun(i, toolbox)]
        /\ Begun(i, toolbox) \in Session
    BY <1>3, StepsOfASession DEF BeginTurn
  <2>2. /\ Begun(i, toolbox).active = sessions[i].active
        /\ Begun(i, toolbox).steps = sessions[i].steps
    BY SessionHasToken DEF Begun, Session
  <2> QED BY <1>2, <2>1, <2>2
<1>4. ASSUME NEW i \in DOMAIN sessions, NEW n \in 1 .. MaxTurn, EndTurn(i, n)
      PROVE  Lease!Use(i)
  <2> DEFINE after == Ended(i, n)
  <2>1. /\ sessions[i].active /\ children' = children
        /\ sessions' = [sessions EXCEPT ![i] = after] /\ after \in Session
        /\ after.steps = sessions[i].steps + n /\ after.active \in BOOLEAN
        /\ after.active => after.steps <= children[i].budget
    BY <1>4, EndTurnEffect
  <2>2. sessions[i].steps <= children[i].budget /\ sessions[i].steps \in Nat
    BY <2>1, SessionHasToken DEF SessionInv, Session
  <2> HIDE DEF after
  <2>3. /\ DOMAIN sessions' = DOMAIN sessions
        /\ sessions'[i] = after
        /\ \A j \in DOMAIN sessions : j # i => sessions'[j] = sessions[j]
    BY <2>1, SessionsUpdated
  <2>4. /\ Open[i] = sessions[i].active /\ Spent[i] = sessions[i].steps
        /\ Limits[i] = children[i].budget /\ Spent'[i] = after.steps
    BY <2>3, SessionHasToken DEF Open, Spent, Limits
  <2>5. n \in Nat /\ n > 0
    BY ConstantsOK
  <2>6. Spent' = [Spent EXCEPT ![i] = after.steps]
    BY <2>3 DEF Spent
  <2>7. Open' = [Open EXCEPT ![i] = after.active]
    BY <2>3 DEF Open
  <2>8. Limits' = Limits
    BY <2>1 DEF Limits
  <2>9. /\ Open[i] /\ Spent[i] <= Limits[i]
        /\ Spent'[i] \in Nat /\ Spent'[i] > Spent[i]
        /\ after.active => Spent'[i] <= Limits[i]
    BY <2>1, <2>2, <2>4, <2>5
  <2>10. Spent' = [Spent EXCEPT ![i] = Spent'[i]]
    BY <2>4, <2>6
  <2>11. \E still \in BOOLEAN :
            /\ still => Spent'[i] <= Limits[i]
            /\ Open' = [Open EXCEPT ![i] = still]
    BY <2>1, <2>7, <2>9, Zenon
  <2> QED BY <2>8, <2>9, <2>10, <2>11 DEF Lease!Use
<1>5. ASSUME NEW i \in DOMAIN sessions, NEW n \in 0 .. MaxTurn, FailTurn(i, n)
      PROVE  UNCHANGED Lease!vars
  <2>1. /\ children' = children
        /\ sessions' = [sessions EXCEPT ![i] = Failed(i, n)]
        /\ Failed(i, n) \in Session
    BY <1>5, StepsOfASession DEF FailTurn
  <2>2. /\ Failed(i, n).active = sessions[i].active
        /\ Failed(i, n).steps = sessions[i].steps
    BY SessionHasToken DEF Failed, Session
  <2> QED BY <1>2, <2>1, <2>2
<1>6. CASE UNCHANGED vars
  BY <1>6 DEF vars, Lease!vars, Limits, Spent, Open
<1>7. DOMAIN Limits = DOMAIN sessions
  BY DEF TypeOK, Limits
<1> QED BY <1>1, <1>3, <1>4, <1>5, <1>6, <1>7 DEF Next, Lease!Next

(* Every session holds a lease on its budget: it uses it until the use that *)
(* exceeds it, which closes it for good, and the limit never exceeds the    *)
(* root's (safety and the whole of BudgetLease, which has no fairness).     *)
THEOREM ChildrenHoldLeases == Spec => IsLease
<1>1. Init => Lease!Init
  <2> SUFFICES ASSUME Init PROVE Limits = <<>> /\ Spent = <<>> /\ Open = <<>>
    BY DEF Lease!Init
  <2>1. DOMAIN children = {} /\ DOMAIN sessions = {}
    BY DEF Init
  <2> QED BY <2>1 DEF Limits, Spent, Open
<1> QED BY <1>1, LeaseStep, TypesHold, SessionsCorrect, PTL
        DEF Spec, IsLease, Lease!Spec
=============================================================================
