-------------------------- MODULE ContextBrokerProofs --------------------------
(***************************************************************************)
(* Proofs about ContextBroker, for any Runs, Shares, Agents, scopes,       *)
(* Evidence, grants and bounds.                                            *)
(***************************************************************************)
EXTENDS ContextBroker, SequenceTheorems, TLAPS

(***************************************************************************)
(* The data.                                                               *)
(***************************************************************************)
LEMMA CandidateFacts ==
    /\ Len(Candidates) \in Nat /\ DOMAIN Candidates = 1 .. Len(Candidates)
    /\ \A e \in Evidence : \E j \in 1 .. Len(Candidates) : Candidates[j] = e
    /\ \A j \in 1 .. Len(Candidates) : Candidates[j] \in Evidence
<1>1. Len(Candidates) \in Nat /\ DOMAIN Candidates = 1 .. Len(Candidates)
  BY BrokerAssumption
<1> QED BY <1>1 DEF Evidence

LEMMA GrantFacts ==
    ASSUME StateTyped
    PROVE  /\ \A i \in DOMAIN grants : grants[i] \in Grant
           /\ AllGrants \subseteq Grant
<1>1. \A i \in DOMAIN grants : grants[i] \in Grant
  <2>1. grants \in Seq(Grant)
    BY DEF StateTyped
  <2> QED BY <2>1
<1> QED BY <1>1 DEF AllGrants

\* A grant that is issued joins the others.
LEMMA IssueFacts ==
    ASSUME StateTyped, NEW g \in Grant, Issue(g)
    PROVE  /\ grants' \in Seq(Grant) /\ Len(grants') <= MaxGrants
           /\ AllGrants' = AllGrants \cup {g}
<1>1. grants \in Seq(Grant) /\ Len(grants) \in Nat /\ Len(grants) < MaxGrants /\ grants' = Append(grants, g)
  BY DEF StateTyped, Issue
<1>2. grants' \in Seq(Grant) /\ Len(grants') = Len(grants) + 1
  BY <1>1
<1>3. Len(grants') <= MaxGrants
  BY <1>1, <1>2, BrokerAssumption
<1>4. /\ DOMAIN grants = 1 .. Len(grants) /\ DOMAIN grants' = 1 .. Len(grants) + 1
      /\ \A i \in 1 .. Len(grants) : grants'[i] = grants[i]
      /\ grants'[Len(grants) + 1] = g
  BY <1>1, <1>2
<1>5. AllGrants' \subseteq AllGrants \cup {g}
  BY <1>1, <1>4 DEF AllGrants
<1>6. \A i \in 1 .. Len(grants) : i \in 1 .. Len(grants) + 1
  BY <1>1
<1>7. Len(grants) + 1 \in 1 .. Len(grants) + 1
  BY <1>1
<1>8. AllGrants \cup {g} \subseteq AllGrants'
  BY <1>4, <1>6, <1>7 DEF AllGrants
<1> QED BY <1>2, <1>3, <1>5, <1>8

\* A grant that is closed is what it was, but for that.
Alike(g, h) ==
    /\ g.agent = h.agent /\ g.principal = h.principal /\ g.covers = h.covers
    /\ g.action = h.action /\ g.by = h.by

LEMMA RevokeFacts ==
    ASSUME StateTyped, NEW i \in DOMAIN grants, Revoke(i)
    PROVE  /\ grants' \in Seq(Grant) /\ Len(grants') <= MaxGrants
           /\ \A g \in AllGrants' : \E h \in AllGrants : Alike(g, h)
<1>1. /\ grants \in Seq(Grant) /\ Len(grants) <= MaxGrants
      /\ grants' = [grants EXCEPT ![i] = [grants[i] EXCEPT !.closed = TRUE]]
  BY DEF StateTyped, Revoke
<1>2. grants[i] \in Grant
  BY GrantFacts
<1> DEFINE h == [grants[i] EXCEPT !.closed = TRUE]
<1>3. h \in Grant /\ Alike(h, grants[i])
  BY <1>2 DEF Grant, Alike
<1> HIDE DEF h
<1>4. grants' = [grants EXCEPT ![i] = h]
  BY <1>1 DEF h
<1>5. grants' \in Seq(Grant) /\ Len(grants') = Len(grants) /\ DOMAIN grants' = DOMAIN grants
  <2>1. DOMAIN grants = 1 .. Len(grants)
    BY <1>1
  <2>2. [grants EXCEPT ![i] = h] \in Seq(Grant) /\ Len([grants EXCEPT ![i] = h]) = Len(grants)
    BY <1>1, <1>3, <2>1, ExceptSeq
  <2>3. DOMAIN grants' = 1 .. Len(grants')
    BY <1>4, <2>2
  <2> QED BY <1>4, <2>1, <2>2, <2>3
<1>6. ASSUME NEW g \in AllGrants' PROVE \E k \in AllGrants : Alike(g, k)
  <2>1. PICK j \in DOMAIN grants' : g = grants'[j]
    BY DEF AllGrants
  <2>2. grants[j] \in AllGrants
    BY <1>5, <2>1 DEF AllGrants
  <2>3. CASE j = i
    BY <1>1, <1>3, <1>4, <2>1, <2>2, <2>3
  <2>4. CASE j # i
    BY <1>4, <1>5, <2>1, <2>2, <2>4 DEF Alike
  <2> QED BY <2>3, <2>4
<1> QED BY <1>1, <1>5, <1>6

(***************************************************************************)
(* authorize decides by what is permitted: it says AUTHORIZED exactly of   *)
(* active Evidence that its definition permits.                            *)
(***************************************************************************)
LEMMA LegFacts ==
    ASSUME NEW gs, NEW c, NEW missing, missing # "AUTHORIZED"
    PROVE  Leg(gs, c, missing) = "AUTHORIZED" <=>
              \A scope \in Range(RequiredScopes[c.evidence]) :
                  \E g \in gs : g.action = c.action /\ scope \in g.covers /\ IsValidNow(g, c.now)
<1>1. Leg(gs, c, missing) = "AUTHORIZED" <=> Uncovered(gs, c) = {}
  BY DEF Leg
<1>2. Uncovered(gs, c) = {} <=>
         \A i \in DOMAIN RequiredScopes[c.evidence] :
             \E g \in Covering(gs, c.action, RequiredScopes[c.evidence][i]) : IsValidNow(g, c.now)
  BY DEF Uncovered
<1> QED BY <1>1, <1>2 DEF Covering, Range

LEMMA ValidFacts ==
    ASSUME NEW g \in Grant, NEW t \in Times
    PROVE  IsValidNow(g, t) <=> ~g.closed /\ t \in g.from .. g.until - 1
<1>1. g.from \in Int /\ g.until \in Int /\ t \in Int
  BY BrokerAssumption DEF Grant, Times, Forever
<1> QED BY <1>1 DEF IsValidNow

LEMMA AuthorizeIsExact ==
    ASSUME StateTyped, NEW c \in Call, NEW st \in Statuses
    PROVE  ReasonFor(c, st) = "AUTHORIZED" <=>
              st = "ACTIVE" /\ Permitted(c.agent, c.principal, c.evidence, c.action, c.now)
<1>1. c.agent \in Agents /\ c.evidence \in Evidence /\ c.now \in Times
  BY DEF Call
<1>2. Level[c.evidence] \in Nat /\ Ceiling[c.agent] \in Nat
  BY <1>1, BrokerAssumption
<1>3. AgentLeg(c) = "AUTHORIZED" <=>
         \A scope \in Range(RequiredScopes[c.evidence]) :
             \E g \in AllGrants : /\ g.agent = c.agent /\ g.principal = None
                                  /\ g.action = c.action /\ scope \in g.covers
                                  /\ ~g.closed /\ c.now \in g.from .. g.until - 1
  <2>1. AgentLeg(c) = "AUTHORIZED" <=>
           \A scope \in Range(RequiredScopes[c.evidence]) :
               \E g \in AgentGrants(c) : g.action = c.action /\ scope \in g.covers /\ IsValidNow(g, c.now)
    BY LegFacts DEF AgentLeg
  <2>2. \A g : g \in AgentGrants(c) <=> g \in AllGrants /\ g.agent = c.agent /\ g.principal = None
    BY DEF AgentGrants, IsUsableBy
  <2>3. \A g \in AllGrants : IsValidNow(g, c.now) <=> ~g.closed /\ c.now \in g.from .. g.until - 1
    BY <1>1, GrantFacts, ValidFacts
  <2> QED BY <2>1, <2>2, <2>3
<1>4. PrincipalLeg(c) = "AUTHORIZED" <=>
         (c.principal # None =>
          \A scope \in Range(RequiredScopes[c.evidence]) :
              \E g \in AllGrants : /\ g.agent \in {c.agent, Everyone} /\ g.principal = c.principal
                                   /\ g.action = c.action /\ scope \in g.covers
                                   /\ ~g.closed /\ c.now \in g.from .. g.until - 1)
  <2>1. CASE c.principal = None
    BY <2>1 DEF PrincipalLeg
  <2>2. CASE c.principal # None
    <3>1. PrincipalLeg(c) = "AUTHORIZED" <=>
             \A scope \in Range(RequiredScopes[c.evidence]) :
                 \E g \in PrincipalGrants(c) : g.action = c.action /\ scope \in g.covers /\ IsValidNow(g, c.now)
      BY <2>2, LegFacts DEF PrincipalLeg
    <3>2. \A g : g \in PrincipalGrants(c) <=>
                    g \in AllGrants /\ g.agent \in {c.agent, Everyone} /\ g.principal = c.principal
      BY <2>2 DEF PrincipalGrants, IsUsableBy
    <3>3. \A g \in AllGrants : IsValidNow(g, c.now) <=> ~g.closed /\ c.now \in g.from .. g.until - 1
      BY <1>1, GrantFacts, ValidFacts
    <3> QED BY <2>2, <3>1, <3>2, <3>3
  <2> QED BY <2>1, <2>2
<1>5. ReasonFor(c, st) = "AUTHORIZED" <=>
         /\ c.agent \notin DenyAgents /\ st = "ACTIVE" /\ ~(Level[c.evidence] > Ceiling[c.agent])
         /\ AgentLeg(c) = "AUTHORIZED" /\ PrincipalLeg(c) = "AUTHORIZED"
  BY DEF ReasonFor, Statuses
<1>6. ~(Level[c.evidence] > Ceiling[c.agent]) <=> Level[c.evidence] <= Ceiling[c.agent]
  BY <1>2
<1> QED BY <1>3, <1>4, <1>5, <1>6 DEF Permitted, PermittedAll

\* Evidence that exists is given one of the reasons.
LEMMA ReasonTyping ==
    ASSUME NEW c, NEW st \in Statuses, st # "none"
    PROVE  ReasonFor(c, st) \in Reasons
<1>1. AgentLeg(c) \in {"AUTHORIZED", "GRANT_EXPIRED", "AGENT_SCOPE_MISSING"}
  BY DEF AgentLeg, Leg
<1>2. PrincipalLeg(c) \in {"AUTHORIZED", "GRANT_EXPIRED", "PRINCIPAL_SCOPE_MISSING"}
  BY DEF PrincipalLeg, Leg
<1> QED BY <1>1, <1>2 DEF ReasonFor, Statuses, Reasons

(***************************************************************************)
(* Types, and what belongs to a stage: a build has its Agent, a share its  *)
(* order, and a call of authorize is about Evidence that was read.         *)
(***************************************************************************)
Stages   == {"new"} \cup Building \cup Sharing \cup Final
Asking   == {"asked", "sender asked", "recipient asked", "again asked"}
Answered == {"decided", "sender decided", "recipient decided", "again decided"}

Placed(p) ==
    /\ p \in Runs => stage[p] \notin Sharing /\ (stage[p] # "new" => parties[p] \in Executors)
    /\ p \in Shares =>
          /\ stage[p] \notin Building
          /\ stage[p] # "new" => parties[p] \in Orders /\ reading[p][parties[p].evidence] # "none"
    /\ stage[p] \in Asking \cup Answered =>
          /\ call[p] \in Call /\ reading[p][call[p].evidence] # "none"
          /\ stage[p] \in Answered => call[p].reason \in Reasons
Typed == StateTyped /\ \A p \in Callers : Placed(p)

LEMMA GotoFacts ==
    ASSUME StateTyped, NEW p \in Callers, NEW s \in Stages, Goto(p, s)
    PROVE  /\ stage' \in [Callers -> Stages] /\ stage'[p] = s
           /\ \A q \in Callers : q # p => stage'[q] = stage[q]
  BY DEF StateTyped, Goto, Stages

LEMMA AskFacts ==
    ASSUME StateTyped, NEW p \in Callers, NEW a \in Agents, NEW u \in Principals \cup {None},
           NEW e \in Evidence, NEW x \in Actions, Ask(p, a, u, e, x)
    PROVE  /\ call' \in [Callers -> Call \cup {None}] /\ call'[p] \in Call
           /\ call'[p].agent = a /\ call'[p].principal = u /\ call'[p].evidence = e
           /\ call'[p].action = x /\ call'[p].now = clock
           /\ \A q \in Callers : q # p => call'[q] = call[q]
<1> DEFINE c == [agent |-> a, principal |-> u, evidence |-> e, action |-> x, now |-> clock, reason |-> None]
<1>1. c \in Call
  BY DEF Call, StateTyped
<1>2. c.agent = a /\ c.principal = u /\ c.evidence = e /\ c.action = x /\ c.now = clock
  OBVIOUS
<1>3. call' = [call EXCEPT ![p] = c] /\ call \in [Callers -> Call \cup {None}]
  BY DEF Ask, StateTyped
<1> HIDE DEF c
<1> QED BY <1>1, <1>2, <1>3

LEMMA DecideFacts ==
    ASSUME StateTyped, NEW p \in Callers, call[p] \in Call,
           reading[p][call[p].evidence] # "none", Decide(p)
    PROVE  /\ call' \in [Callers -> Call \cup {None}] /\ call'[p] \in Call
           /\ call'[p].agent = call[p].agent /\ call'[p].principal = call[p].principal
           /\ call'[p].evidence = call[p].evidence /\ call'[p].action = call[p].action
           /\ call'[p].now = call[p].now
           /\ call'[p].reason = ReasonFor(call[p], reading[p][call[p].evidence])
           /\ call'[p].reason \in Reasons
           /\ \A q \in Callers : q # p => call'[q] = call[q]
<1> DEFINE x == ReasonFor(call[p], reading[p][call[p].evidence])
           c == [call[p] EXCEPT !.reason = x]
<1>1. x \in Reasons
  <2>1. reading[p][call[p].evidence] \in Statuses
    BY DEF StateTyped, Call
  <2> QED BY <2>1, ReasonTyping
<1>2. call' = [call EXCEPT ![p] = c] /\ call \in [Callers -> Call \cup {None}]
  BY DEF Decide, StateTyped
<1> HIDE DEF x
<1>3. /\ c \in Call /\ c.reason = x /\ c.agent = call[p].agent /\ c.principal = call[p].principal
      /\ c.evidence = call[p].evidence /\ c.action = call[p].action /\ c.now = call[p].now
  BY <1>1 DEF Call
<1> HIDE DEF c
<1> QED BY <1>1, <1>2, <1>3 DEF x

LEMMA DecisionFacts ==
    ASSUME StateTyped, NEW p \in Callers, call[p] \in Call, call[p].reason \in Reasons, AppendDecision(p)
    PROVE  /\ decisions' \in SUBSET Decision
           /\ decisions' = decisions \cup {DecisionOf(p)}
           /\ DecisionOf(p).by = p /\ DecisionOf(p).evidence = call[p].evidence
           /\ DecisionOf(p).reason = call[p].reason
<1>1. DecisionOf(p) \in Decision
  BY DEF DecisionOf, Decision, Call
<1> QED BY <1>1 DEF DecisionOf, AppendDecision, StateTyped

LEMMA FinishFacts ==
    ASSUME StateTyped, NEW p \in Callers, NEW s \in Stages, Finish(p, s)
    PROVE  /\ stage' \in [Callers -> Stages] /\ stage'[p] = s
           /\ call' \in [Callers -> Call \cup {None}] /\ call'[p] = None
           /\ \A q \in Callers : q # p => stage'[q] = stage[q] /\ call'[q] = call[q]
  BY DEF StateTyped, Finish, Goto, Stages

LEMMA TypeInit == Init => Typed
<1> SUFFICES ASSUME Init PROVE Typed
  OBVIOUS
<1>1. Nothing \in [Evidence -> Statuses]
  BY DEF Nothing, Statuses
<1>2. /\ status \in [Evidence -> Statuses] /\ reading \in [Callers -> [Evidence -> Statuses]]
      /\ stage \in [Callers -> Stages] /\ position \in [Callers -> Nat \ {0}]
  BY <1>1 DEF Init, Statuses, Stages
<1>3. 0 \in Times /\ 0 \in 0 .. MaxFaults /\ 0 \in 0 .. MaxChanges
  BY BrokerAssumption DEF Times
<1>4. StateTyped
  BY <1>2, <1>3, BrokerAssumption DEF Init, StateTyped, Stages, Callers
<1>5. \A p \in Callers : stage[p] = "new"
  BY DEF Init
<1> QED BY <1>4, <1>5 DEF Typed, Placed, Asking, Answered, Building, Sharing

(***************************************************************************)
(* A step is of one build or share, or of none, and leaves the rest alone. *)
(***************************************************************************)
Untouched(q) ==
    /\ stage'[q] = stage[q] /\ call'[q] = call[q] /\ reading'[q] = reading[q]
    /\ parties'[q] = parties[q] /\ position'[q] = position[q]
    /\ \A d : d.by = q => (d \in decisions' <=> d \in decisions)
    /\ q \in Runs => /\ allowed'[q] = allowed[q] /\ denied'[q] = denied[q] /\ file'[q] = file[q]
                     /\ q \in index' <=> q \in index

LEMMA AppendFrame ==
    ASSUME NEW p \in Callers, NEW q \in Callers, q # p, AppendDecision(p)
    PROVE  \A d : d.by = q => (d \in decisions' <=> d \in decisions)
  BY DEF AppendDecision, DecisionOf

LEMMA StepFrame ==
    ASSUME Typed, NEW r \in Runs, Step(r), NEW q \in Callers, q # r
    PROVE  Untouched(q)
<1> USE DEF onDisk, Goto, Finish, Ask, Typed, StateTyped, Callers
<1>1. CASE Build(r)
  BY <1>1 DEF Build, Untouched
<1>2. CASE AskNext(r)
  BY <1>2 DEF AskNext, Untouched
<1>3. CASE DecideNext(r)
  BY <1>3 DEF DecideNext, Decide, Untouched
<1>4. CASE Collect(r)
  <2>1. \A d : d.by = q => (d \in decisions' <=> d \in decisions)
    BY <1>4, AppendFrame DEF Collect
  <2> QED BY <1>4, <2>1 DEF Collect, Untouched
<1>5. CASE Clarify(r) \/ HeadRead(r) \/ BuildFails(r)
  BY <1>5 DEF Clarify, HeadRead, BuildFails, Untouched
<1>6. CASE SaveCapsule(r) \/ SaveIndex(r)
  BY <1>6 DEF SaveCapsule, SaveIndex, Untouched
<1> QED BY <1>1, <1>2, <1>3, <1>4, <1>5, <1>6 DEF Step

LEMMA ShareFrame ==
    ASSUME Typed, NEW s \in Shares, ShareStep(s), NEW q \in Callers, q # s
    PROVE  Untouched(q)
<1> USE DEF onDisk, Goto, Finish, Ask, AskRecipient, Typed, StateTyped, Callers
<1>1. CASE Share(s)
  BY <1>1 DEF Share, Untouched
<1>2. CASE ShareDecides(s)
  BY <1>2 DEF ShareDecides, Decide, Untouched
<1>3. CASE SenderDecided(s) \/ RecipientDecided(s) \/ DecidedAgain(s)
  <2>1. \A d : d.by = q => (d \in decisions' <=> d \in decisions)
    BY <1>3, AppendFrame DEF SenderDecided, RecipientDecided, DecidedAgain
  <2>2. CASE SenderDecided(s)
    BY <2>1, <2>2 DEF SenderDecided, Untouched
  <2>3. CASE RecipientDecided(s)
    BY <2>1, <2>3 DEF RecipientDecided, Untouched
  <2>4. CASE DecidedAgain(s)
    BY <2>1, <2>4 DEF DecidedAgain, Untouched
  <2> QED BY <1>3, <2>2, <2>3, <2>4
<1>4. CASE IssueToRecipient(s) \/ AskAgain(s) \/ ShareFails(s)
  BY <1>4 DEF IssueToRecipient, AskAgain, ShareFails, Untouched
<1> QED BY <1>1, <1>2, <1>3, <1>4 DEF ShareStep

\* What a route, the clock or nobody does.
Elsewhere ==
    \/ IssueGrant \/ Tick \/ UNCHANGED vars
    \/ \E i \in DOMAIN grants : RevokeGrant(i)
    \/ \E e \in Evidence : Commit(e) \/ End(e)

LEMMA ElsewhereFrame == ASSUME Elsewhere PROVE UNCHANGED Others
<1>1. CASE IssueGrant \/ Tick
  BY <1>1 DEF IssueGrant, Tick
<1>2. CASE UNCHANGED vars
  BY <1>2 DEF vars, Others
<1>3. ASSUME NEW i \in DOMAIN grants, RevokeGrant(i) PROVE UNCHANGED Others
  BY <1>3 DEF RevokeGrant
<1>4. ASSUME NEW e \in Evidence, Commit(e) \/ End(e) PROVE UNCHANGED Others
  BY <1>4 DEF Commit, End
<1> QED BY <1>1, <1>2, <1>3, <1>4 DEF Elsewhere

\* The ways of a step.
LEMMA Ways ==
    ASSUME [Next]_vars
    PROVE  \/ \E r \in Runs : Step(r) /\ UNCHANGED <<status, clock, changes>> /\ Observe
           \/ \E s \in Shares : ShareStep(s) /\ UNCHANGED <<status, clock, changes>> /\ Observe
           \/ Elsewhere /\ (Observe \/ UNCHANGED vars)
           \/ Crash /\ Observe
  BY DEF Next, Elsewhere

(***************************************************************************)
(* The state keeps its types.                                              *)
(***************************************************************************)
LEMMA BuildTypeStep ==
    ASSUME Typed, NEW r \in Runs, Step(r), UNCHANGED <<status, clock, changes>>
    PROVE  StateTyped' /\ Placed(r)'
<1> USE DEF onDisk, Typed
<1>1. r \in Callers /\ r \notin Shares /\ Placed(r) /\ StateTyped
  BY BrokerAssumption DEF Callers
<1>2. \A s \in Building \cup Final : s \in Stages
  BY DEF Stages
<1>3. stage[r] \in Asking \cup Answered \cup {"listed", "clear", "written"} => parties[r] \in Executors
  BY <1>1 DEF Placed, Asking, Answered
<1>4. CASE Build(r)
  <2>1. PICK i \in RunInputs :
            /\ parties' = [parties EXCEPT ![r] = i]
            /\ \/ Goto(r, "denied") /\ UNCHANGED reading
               \/ Goto(r, "listed") /\ reading' = [reading EXCEPT ![r] = status]
    BY <1>4 DEF Build
  <2>2. i \in Executors
    BY BrokerAssumption
  <2>3. stage' \in [Callers -> Stages] /\ stage'[r] \in {"denied", "listed"}
    BY <1>1, <2>1, GotoFacts DEF Stages, Building, Final
  <2>4. reading' \in [Callers -> [Evidence -> Statuses]]
    BY <1>1, <2>1 DEF StateTyped
  <2>5. /\ parties' \in [Callers -> Executors \cup Orders \cup {None}] /\ parties'[r] = i
        /\ \A p \in Callers : p # r => parties'[p] = parties[p]
    BY <1>1, <2>1, <2>2 DEF StateTyped
  <2>6. Placed(r)'
    BY <1>1, <2>2, <2>3, <2>5 DEF Placed, Sharing, Asking, Answered
  <2>7. (\A p \in Runs : parties'[p] \in Executors \cup {None}) /\ (\A p \in Shares : parties'[p] \in Orders \cup {None})
    BY <1>1, <2>2, <2>5 DEF StateTyped, Callers
  <2> QED BY <1>4, <2>3, <2>4, <2>5, <2>6, <2>7 DEF Build, StateTyped, Stages, Step
<1>5. CASE AskNext(r)
  <2>1. PICK j \in NextFrom(r, position[r]) :
            /\ Ask(r, parties[r].agent, parties[r].principal, Candidates[j], "consume")
            /\ position' = [position EXCEPT ![r] = j + 1]
    BY <1>5 DEF AskNext
  <2>2. position[r] \in Nat \ {0} /\ Len(Candidates) \in Nat
    BY <1>1, CandidateFacts DEF StateTyped
  <2>3. j \in 1 .. Len(Candidates) /\ reading[r][Candidates[j]] # "none"
    BY <2>2 DEF NextFrom
  <2>4. Candidates[j] \in Evidence /\ j + 1 \in Nat \ {0}
    BY <2>3, CandidateFacts
  <2>5. parties[r].agent \in Agents /\ parties[r].principal \in Principals \cup {None}
    BY <1>3, <1>5 DEF AskNext, Executors
  <2>6. "consume" \in Actions /\ "asked" \in Stages
    BY DEF Actions, Stages, Building
  <2>7. stage' \in [Callers -> Stages] /\ stage'[r] = "asked"
    BY <1>1, <1>5, <2>6, GotoFacts DEF AskNext
  <2>8. call' \in [Callers -> Call \cup {None}] /\ call'[r] \in Call /\ call'[r].evidence = Candidates[j]
    <3>1. PICK a \in Agents, u \in Principals \cup {None}, e \in Evidence :
              a = parties[r].agent /\ u = parties[r].principal /\ e = Candidates[j]
      BY <2>4, <2>5
    <3>2. Ask(r, a, u, e, "consume")
      BY <2>1, <3>1
    <3> QED BY <1>1, <2>6, <3>1, <3>2, AskFacts
  <2>9. position' \in [Callers -> Nat \ {0}]
    BY <1>1, <2>1, <2>4 DEF StateTyped
  <2>10. UNCHANGED <<reading, parties, allowed, denied, onDisk, faults>>
    BY <1>5 DEF AskNext
  <2>11. Placed(r)'
    BY <1>1, <1>3, <1>5, <2>3, <2>7, <2>8, <2>10 DEF AskNext, Placed, Sharing, Asking, Answered
  <2> QED BY <2>7, <2>8, <2>9, <2>10, <2>11 DEF StateTyped, Stages, Step
<1>6. CASE DecideNext(r)
  <2>1. call[r] \in Call /\ reading[r][call[r].evidence] # "none"
    BY <1>1, <1>6 DEF DecideNext, Placed, Asking
  <2>2. stage' \in [Callers -> Stages] /\ stage'[r] = "decided"
    BY <1>1, <1>6, GotoFacts DEF DecideNext, Stages, Building
  <2>3. /\ call' \in [Callers -> Call \cup {None}] /\ call'[r] \in Call /\ call'[r].reason \in Reasons
        /\ call'[r].evidence = call[r].evidence
    BY <1>1, <1>6, <2>1, DecideFacts DEF DecideNext
  <2>4. UNCHANGED <<reading, position, parties, allowed, denied, onDisk, faults>>
    BY <1>6 DEF DecideNext
  <2>5. Placed(r)'
    BY <1>1, <1>3, <1>6, <2>1, <2>2, <2>3, <2>4 DEF DecideNext, Placed, Sharing, Asking, Answered
  <2> QED BY <2>2, <2>3, <2>4, <2>5 DEF StateTyped, Stages, Step
\* A build that waits for no answer has nothing but its Agent.
<1>7. ASSUME NEW s \in Building \cup Final, s \notin Asking \cup Answered, stage'[r] = s,
             stage[r] # "new", UNCHANGED parties
      PROVE  Placed(r)'
  BY <1>1, <1>7 DEF Placed, Sharing, Building, Final
<1>8. CASE Collect(r)
  <2>1. call[r] \in Call /\ call[r].reason \in Reasons
    BY <1>1, <1>8 DEF Collect, Placed, Answered
  <2>2. decisions' \in SUBSET Decision
    BY <1>1, <1>8, <2>1, DecisionFacts DEF Collect
  <2>3. stage' \in [Callers -> Stages] /\ stage'[r] = "listed" /\ call' \in [Callers -> Call \cup {None}]
    BY <1>1, <1>8, FinishFacts DEF Collect, Stages, Building
  <2>4. call[r].evidence \in Evidence
    BY <2>1 DEF Call
  <2>5. allowed' \in [Runs -> SUBSET Evidence] /\ denied' \in [Runs -> SUBSET Evidence]
    <3>1. /\ allowed \in [Runs -> SUBSET Evidence] /\ denied \in [Runs -> SUBSET Evidence]
          /\ allowed[r] \cup {call[r].evidence} \in SUBSET Evidence
          /\ denied[r] \cup {call[r].evidence} \in SUBSET Evidence
      BY <1>1, <2>4 DEF StateTyped
    <3>2. CASE call[r].reason = "AUTHORIZED"
      BY <1>8, <3>1, <3>2 DEF Collect
    <3>3. CASE call[r].reason # "AUTHORIZED"
      BY <1>8, <3>1, <3>3 DEF Collect
    <3> QED BY <3>2, <3>3
  <2>6. Placed(r)'
    BY <1>7, <1>8, <2>3 DEF Collect, Building, Asking, Answered
  <2> QED BY <1>8, <2>2, <2>3, <2>5, <2>6 DEF Collect, StateTyped, Stages, Step
<1>9. CASE Clarify(r) \/ HeadRead(r)
  <2>1. stage' \in [Callers -> Stages] /\ stage'[r] \in {"question", "clear"}
    BY <1>1, <1>9, GotoFacts DEF Clarify, HeadRead, Stages, Building, Final
  <2>2. question' \in SUBSET Runs
    BY <1>1, <1>9 DEF Clarify, HeadRead, SaveQuestion, StateTyped
  <2>3. Placed(r)'
    BY <1>7, <1>9, <2>1 DEF Clarify, HeadRead, Building, Final, Asking, Answered
  <2>4. UNCHANGED <<reading, position, call, allowed, denied, parties, decisions, file, index, faults>>
    BY <1>9 DEF Clarify, HeadRead
  <2> QED BY <2>1, <2>2, <2>3, <2>4 DEF StateTyped, Stages, Step
<1>10. CASE SaveCapsule(r)
  <2>1. stage' \in [Callers -> Stages] /\ stage'[r] = "written"
    BY <1>1, <1>10, GotoFacts DEF SaveCapsule, Stages, Building
  <2>2. [evidence |-> allowed[r], denied |-> denied[r]] \in Capsule
    BY <1>1 DEF Capsule, StateTyped
  <2>3. file' \in [Runs -> Capsule \cup {None}]
    BY <1>1, <1>10, <2>2 DEF SaveCapsule, StateTyped
  <2>4. Placed(r)'
    BY <1>7, <1>10, <2>1 DEF SaveCapsule, Building, Asking, Answered
  <2> QED BY <1>10, <2>1, <2>3, <2>4 DEF SaveCapsule, StateTyped, Stages, Step
<1>11. CASE SaveIndex(r)
  <2>1. stage' \in [Callers -> Stages] /\ stage'[r] = "ok"
    BY <1>1, <1>11, GotoFacts DEF SaveIndex, Stages, Final
  <2>2. Placed(r)'
    BY <1>7, <1>11, <2>1 DEF SaveIndex, Final, Asking, Answered
  <2> QED BY <1>11, <2>1, <2>2 DEF SaveIndex, StateTyped, Stages, Step
<1>12. CASE BuildFails(r)
  <2>1. stage' \in [Callers -> Stages] /\ stage'[r] = "failed" /\ call' \in [Callers -> Call \cup {None}]
    BY <1>1, <1>12, FinishFacts DEF BuildFails, Stages, Final
  <2>2. faults' \in 0 .. MaxFaults
    BY <1>1, <1>12, BrokerAssumption DEF BuildFails, StateTyped
  <2>3. Placed(r)'
    BY <1>7, <1>12, <2>1 DEF BuildFails, Final, Asking, Answered
  <2> QED BY <1>12, <2>1, <2>2, <2>3 DEF BuildFails, StateTyped, Stages, Step
<1> QED BY <1>4, <1>5, <1>6, <1>8, <1>9, <1>10, <1>11, <1>12 DEF Step

LEMMA ShareTypeStep ==
    ASSUME Typed, NEW s \in Shares, ShareStep(s), UNCHANGED <<status, clock, changes>>
    PROVE  StateTyped' /\ Placed(s)'
<1> USE DEF onDisk, Typed
<1>1. s \in Callers /\ s \notin Runs /\ Placed(s) /\ StateTyped
  BY BrokerAssumption DEF Callers
<1>2. \A x \in Sharing \cup Final : x \in Stages
  BY DEF Stages
<1>3. stage[s] \in Asking \cup Answered \cup {"granting"} =>
         parties[s] \in Orders /\ reading[s][parties[s].evidence] # "none"
  BY <1>1 DEF Placed, Asking, Answered
<1>4. stage[s] \in Answered => call[s] \in Call /\ call[s].reason \in Reasons
  BY <1>1 DEF Placed
<1>5. ASSUME parties[s] \in Orders
      PROVE  parties[s].to \in Agents /\ parties[s].evidence \in Evidence
  BY <1>5 DEF Orders
\* The recipient is asked about what was read.
<1>6. ASSUME parties[s] \in Orders, reading[s][parties[s].evidence] # "none", AskRecipient(s),
             stage'[s] \in {"recipient asked", "again asked"}, UNCHANGED <<parties, reading>>
      PROVE  call' \in [Callers -> Call \cup {None}] /\ Placed(s)'
  <2>1. PICK a \in Agents, e \in Evidence : a = parties[s].to /\ e = parties[s].evidence
    BY <1>5, <1>6
  <2>2. Ask(s, a, None, e, "consume") /\ "consume" \in Actions /\ None \in Principals \cup {None}
    BY <1>6, <2>1 DEF AskRecipient, Actions
  <2>3. call' \in [Callers -> Call \cup {None}] /\ call'[s] \in Call /\ call'[s].evidence = parties[s].evidence
    BY <1>1, <2>1, <2>2, AskFacts
  <2> QED BY <1>1, <1>6, <2>3 DEF Placed, Building, Asking, Answered
\* A share that waits for no answer has nothing but its order.
<1>7. ASSUME NEW x \in {"granting"} \cup Final, stage'[s] = x, stage[s] # "new",
             UNCHANGED <<parties, reading>>
      PROVE  Placed(s)'
  BY <1>1, <1>7 DEF Placed, Building, Final, Asking, Answered
<1>8. CASE Share(s)
  <2>1. PICK i \in ShareInputs :
            /\ status[i.evidence] # "none"
            /\ parties' = [parties EXCEPT ![s] =
                   [from |-> i.from, to |-> i.to, evidence |-> i.evidence,
                    principal |-> i.principal, now |-> clock]]
            /\ Ask(s, i.from, i.principal, i.evidence, "share")
            /\ reading' = [reading EXCEPT ![s][i.evidence] = status[i.evidence]]
    BY <1>8 DEF Share
  <2>2. /\ i.from \in Agents /\ i.to \in Agents /\ i.evidence \in Evidence
        /\ i.principal \in Principals \cup {None}
    BY BrokerAssumption DEF Inputs
  <2> DEFINE o == [from |-> i.from, to |-> i.to, evidence |-> i.evidence,
                   principal |-> i.principal, now |-> clock]
  <2>3. o \in Orders /\ o.evidence = i.evidence
    BY <1>1, <2>2 DEF Orders, StateTyped
  <2>4. parties' = [parties EXCEPT ![s] = o]
    BY <2>1
  <2> HIDE DEF o
  <2>5. /\ parties' \in [Callers -> Executors \cup Orders \cup {None}] /\ parties'[s] = o
        /\ \A p \in Callers : p # s => parties'[p] = parties[p]
    BY <1>1, <2>3, <2>4 DEF StateTyped
  <2>6. stage' \in [Callers -> Stages] /\ stage'[s] = "sender asked"
    BY <1>1, <1>8, GotoFacts DEF Share, Stages, Sharing
  <2>7. call' \in [Callers -> Call \cup {None}] /\ call'[s] \in Call /\ call'[s].evidence = i.evidence
    <3>1. PICK a \in Agents, u \in Principals \cup {None}, e \in Evidence :
              a = i.from /\ u = i.principal /\ e = i.evidence
      BY <2>2
    <3>2. Ask(s, a, u, e, "share") /\ "share" \in Actions
      BY <2>1, <3>1 DEF Actions
    <3> QED BY <1>1, <3>1, <3>2, AskFacts
  <2>8. reading' \in [Callers -> [Evidence -> Statuses]] /\ reading'[s][i.evidence] = status[i.evidence]
    BY <1>1, <2>1, <2>2 DEF StateTyped
  <2>9. Placed(s)'
    BY <1>1, <2>1, <2>3, <2>5, <2>6, <2>7, <2>8 DEF Placed, Building, Asking, Answered
  <2>10. (\A p \in Runs : parties'[p] \in Executors \cup {None}) /\ (\A p \in Shares : parties'[p] \in Orders \cup {None})
    BY <1>1, <2>3, <2>5 DEF StateTyped, Callers
  <2>11. UNCHANGED <<position, allowed, denied, onDisk, grants, faults>>
    BY <1>8 DEF Share
  <2> QED BY <2>5, <2>6, <2>7, <2>8, <2>9, <2>10, <2>11 DEF StateTyped, Stages
<1>9. CASE ShareDecides(s)
  <2>1. call[s] \in Call /\ reading[s][call[s].evidence] # "none"
    BY <1>1, <1>9 DEF ShareDecides, Placed, Asking
  <2>2. stage' \in [Callers -> Stages] /\ stage'[s] \in {"sender decided", "recipient decided", "again decided"}
    BY <1>1, <1>9, GotoFacts DEF ShareDecides, Stages, Sharing
  <2>3. /\ call' \in [Callers -> Call \cup {None}] /\ call'[s] \in Call /\ call'[s].reason \in Reasons
        /\ call'[s].evidence = call[s].evidence
    BY <1>1, <1>9, <2>1, DecideFacts DEF ShareDecides
  <2>4. UNCHANGED <<reading, position, allowed, denied, parties, onDisk, grants, faults>>
    BY <1>9 DEF ShareDecides
  <2>5. Placed(s)'
    BY <1>1, <1>3, <1>9, <2>1, <2>2, <2>3, <2>4 DEF ShareDecides, Placed, Building, Asking, Answered
  <2> QED BY <2>2, <2>3, <2>4, <2>5 DEF StateTyped, Stages
<1>10. CASE SenderDecided(s)
  <2>1. decisions' \in SUBSET Decision
    BY <1>1, <1>4, <1>10, DecisionFacts DEF SenderDecided, Answered
  <2>2. UNCHANGED <<reading, position, allowed, denied, parties, file, index, question, grants, faults>>
    BY <1>10 DEF SenderDecided
  <2>3. stage' \in [Callers -> Stages] /\ call' \in [Callers -> Call \cup {None}] /\ Placed(s)'
    <3>1. CASE SenderMay(s)
      <4>1. stage' \in [Callers -> Stages] /\ stage'[s] = "recipient asked"
        BY <1>1, <1>10, <3>1, GotoFacts DEF SenderDecided, Stages, Sharing
      <4> QED BY <1>3, <1>6, <1>10, <2>2, <3>1, <4>1 DEF SenderDecided, Answered
    <3>2. CASE ~SenderMay(s)
      <4>1. stage' \in [Callers -> Stages] /\ stage'[s] = "refused" /\ call' \in [Callers -> Call \cup {None}]
        BY <1>1, <1>10, <3>2, FinishFacts DEF SenderDecided, Stages, Final
      <4> QED BY <1>7, <1>10, <2>2, <4>1 DEF SenderDecided, Final
    <3> QED BY <3>1, <3>2
  <2> QED BY <2>1, <2>2, <2>3 DEF StateTyped, Stages
<1>11. CASE RecipientDecided(s)
  <2>1. decisions' \in SUBSET Decision
    BY <1>1, <1>4, <1>11, DecisionFacts DEF RecipientDecided, Answered
  <2>2. UNCHANGED <<reading, position, allowed, denied, file, index, question, grants, faults>>
    BY <1>11 DEF RecipientDecided
  <2>3. PICK x \in {"granting", "shared", "refused"} : Finish(s, x)
    BY <1>11 DEF RecipientDecided
  <2>4. /\ stage' \in [Callers -> Stages] /\ stage'[s] = x /\ call' \in [Callers -> Call \cup {None}]
    BY <1>1, <2>3, FinishFacts DEF Stages, Sharing, Final
  <2>5. CASE UNCHANGED parties
    <3>1. Placed(s)'
      BY <1>7, <1>11, <2>2, <2>4, <2>5 DEF RecipientDecided, Final
    <3> QED BY <2>1, <2>2, <2>4, <2>5, <3>1 DEF StateTyped, Stages
  <2>6. CASE parties' = [parties EXCEPT ![s].now = clock]
    <3> DEFINE o == [parties[s] EXCEPT !.now = clock]
    <3>1. o \in Orders /\ o.evidence = parties[s].evidence
      BY <1>1, <1>3, <1>11 DEF RecipientDecided, Answered, Orders, StateTyped
    <3>2. parties' = [parties EXCEPT ![s] = o]
      BY <2>6
    <3> HIDE DEF o
    <3>3. /\ parties' \in [Callers -> Executors \cup Orders \cup {None}] /\ parties'[s] = o
          /\ \A p \in Callers : p # s => parties'[p] = parties[p]
      BY <1>1, <3>1, <3>2 DEF StateTyped
    <3>4. (\A p \in Runs : parties'[p] \in Executors \cup {None}) /\ (\A p \in Shares : parties'[p] \in Orders \cup {None})
      BY <1>1, <3>1, <3>3 DEF StateTyped, Callers
    <3>5. Placed(s)'
      BY <1>1, <1>3, <1>11, <2>2, <2>4, <3>1, <3>3 DEF RecipientDecided, Placed, Building, Asking, Answered
    <3> QED BY <2>1, <2>2, <2>4, <3>3, <3>4, <3>5 DEF StateTyped, Stages
  <2> QED BY <1>11, <2>5, <2>6 DEF RecipientDecided
<1>12. CASE IssueToRecipient(s)
  <2>1. grants' \in Seq(Grant) /\ Len(grants') <= MaxGrants
    <3> DEFINE g == [agent |-> parties[s].to, principal |-> None,
                     covers |-> Matches[RequiredScopes[parties[s].evidence][position[s]]],
                     action |-> "consume", from |-> parties[s].now, until |-> Forever,
                     closed |-> FALSE, by |-> s]
    <3>1. parties[s] \in Orders
      BY <1>3, <1>12 DEF IssueToRecipient
    <3>2. Matches[RequiredScopes[parties[s].evidence][position[s]]] \in Patterns
      <4>1. RequiredScopes[parties[s].evidence] \in Seq(Scopes)
        BY <1>5, <3>1, BrokerAssumption
      <4>2. position[s] \in Nat \ {0} /\ position[s] <= Len(RequiredScopes[parties[s].evidence])
        BY <1>1, <1>12 DEF IssueToRecipient, StateTyped
      <4>3. RequiredScopes[parties[s].evidence][position[s]] \in Scopes
        BY <4>1, <4>2
      <4> QED BY <4>3, BrokerAssumption
    <3>3. parties[s].to \in Agents /\ parties[s].now \in Times
      BY <3>1 DEF Orders
    <3>4. Forever \in 0 .. Forever
      BY BrokerAssumption DEF Forever
    <3>5. g \in Grant
      BY <3>2, <3>3, <3>4 DEF Grant, Actions
    <3>6. Issue(g)
      BY <1>12 DEF IssueToRecipient
    <3> HIDE DEF g
    <3> QED BY <1>1, <3>5, <3>6, IssueFacts
  <2>2. position' \in [Callers -> Nat \ {0}]
    BY <1>1, <1>12 DEF IssueToRecipient, StateTyped
  <2>3. UNCHANGED <<stage, reading, call, allowed, denied, parties, onDisk, faults>>
    BY <1>12 DEF IssueToRecipient
  <2>4. Placed(s)'
    BY <1>1, <2>3 DEF Placed
  <2> QED BY <2>1, <2>2, <2>3, <2>4 DEF StateTyped
<1>13. CASE AskAgain(s)
  <2>1. stage' \in [Callers -> Stages] /\ stage'[s] = "again asked"
    BY <1>1, <1>13, GotoFacts DEF AskAgain, Stages, Sharing
  <2>2. UNCHANGED <<reading, position, allowed, denied, parties, onDisk, grants, faults>>
    BY <1>13 DEF AskAgain
  <2>3. call' \in [Callers -> Call \cup {None}] /\ Placed(s)'
    BY <1>3, <1>6, <1>13, <2>1, <2>2 DEF AskAgain
  <2> QED BY <2>1, <2>2, <2>3 DEF StateTyped, Stages
<1>14. CASE DecidedAgain(s)
  <2>1. decisions' \in SUBSET Decision
    BY <1>1, <1>4, <1>14, DecisionFacts DEF DecidedAgain, Answered
  <2>2. PICK x \in {"shared", "refused"} : Finish(s, x)
    BY <1>14 DEF DecidedAgain
  <2>3. stage' \in [Callers -> Stages] /\ stage'[s] = x /\ call' \in [Callers -> Call \cup {None}]
    BY <1>1, <2>2, FinishFacts DEF Stages, Final
  <2>4. UNCHANGED <<reading, position, allowed, denied, parties, file, index, question, grants, faults>>
    BY <1>14 DEF DecidedAgain
  <2>5. Placed(s)'
    BY <1>7, <1>14, <2>3, <2>4 DEF DecidedAgain, Final
  <2> QED BY <2>1, <2>3, <2>4, <2>5 DEF StateTyped, Stages
<1>15. CASE ShareFails(s)
  <2>1. stage' \in [Callers -> Stages] /\ stage'[s] = "failed" /\ call' \in [Callers -> Call \cup {None}]
    BY <1>1, <1>15, FinishFacts DEF ShareFails, Stages, Final
  <2>2. faults' \in 0 .. MaxFaults
    <3>1. faults \in 0 .. MaxFaults /\ faults < MaxFaults /\ faults' = faults + 1
      BY <1>1, <1>15 DEF ShareFails, StateTyped
    <3> QED BY <3>1, BrokerAssumption
  <2>3. UNCHANGED <<reading, position, allowed, denied, parties, onDisk, grants>>
    BY <1>15 DEF ShareFails
  <2>4. Placed(s)'
    BY <1>7, <1>15, <2>1, <2>3 DEF ShareFails, Final
  <2> QED BY <2>1, <2>2, <2>3, <2>4 DEF StateTyped, Stages
<1> QED BY <1>8, <1>9, <1>10, <1>11, <1>12, <1>13, <1>14, <1>15 DEF ShareStep

LEMMA ElsewhereTypeStep ==
    ASSUME Typed, Elsewhere
    PROVE  Typed'
<1> USE DEF Typed
<1>1. UNCHANGED Others
  BY ElsewhereFrame
<1>2. \A p \in Callers : Placed(p)'
  BY <1>1 DEF Others, memory, Placed
<1>3. UNCHANGED <<decisions, file, index, question, stage, reading, position, call, allowed, denied,
                  parties, faults>>
  BY <1>1 DEF Others, onDisk, memory
<1>4. ASSUME Change PROVE changes' \in 0 .. MaxChanges
  BY <1>4, BrokerAssumption DEF Change, StateTyped
<1>5. CASE IssueGrant
  <2>1. PICK o \in Offers :
            Issue([agent |-> o.agent, principal |-> o.principal, covers |-> o.covers,
                   action |-> o.action, from |-> clock, until |-> o.until,
                   closed |-> FALSE, by |-> None])
    BY <1>5 DEF IssueGrant
  <2> DEFINE g == [agent |-> o.agent, principal |-> o.principal, covers |-> o.covers,
                   action |-> o.action, from |-> clock, until |-> o.until,
                   closed |-> FALSE, by |-> None]
  <2>2. g \in Grant
    BY BrokerAssumption DEF Requests, Grant, StateTyped
  <2>3. Issue(g)
    BY <2>1
  <2> HIDE DEF g
  <2>4. grants' \in Seq(Grant) /\ Len(grants') <= MaxGrants
    BY <2>2, <2>3, IssueFacts
  <2> QED BY <1>2, <1>3, <1>4, <1>5, <2>4 DEF IssueGrant, StateTyped
<1>6. ASSUME NEW i \in DOMAIN grants, RevokeGrant(i) PROVE Typed'
  <2>1. grants' \in Seq(Grant) /\ Len(grants') <= MaxGrants
    BY <1>6, RevokeFacts DEF RevokeGrant
  <2> QED BY <1>2, <1>3, <1>4, <1>6, <2>1 DEF RevokeGrant, StateTyped
<1>7. ASSUME NEW e \in Evidence, Commit(e) \/ End(e) PROVE Typed'
  <2>1. status' \in [Evidence -> Statuses]
    BY <1>7 DEF Commit, End, StateTyped, Statuses
  <2>2. changes' \in 0 .. MaxChanges
    BY <1>4, <1>7 DEF Commit, End
  <2>3. UNCHANGED <<grants, clock>>
    BY <1>7 DEF Commit, End
  <2> QED BY <1>2, <1>3, <2>1, <2>2, <2>3 DEF StateTyped
<1>8. CASE Tick
  <2>1. clock' \in Times
    BY <1>8, BrokerAssumption DEF Tick, StateTyped, Times
  <2> QED BY <1>2, <1>3, <1>8, <2>1 DEF Tick, StateTyped
<1>9. CASE UNCHANGED vars
  BY <1>2, <1>3, <1>9 DEF vars, StateTyped
<1> QED BY <1>5, <1>6, <1>7, <1>8, <1>9 DEF Elsewhere

\* What a crash leaves of a build or a share.
LEMMA CrashFrame ==
    ASSUME Typed, Crash, NEW p \in Callers
    PROVE  /\ stage'[p] = IF UnderWay(p) THEN "lost" ELSE stage[p]
           /\ call'[p] = None
           /\ UNCHANGED <<status, grants, clock, changes, onDisk, reading, position, allowed, denied, parties>>
  BY DEF Crash

LEMMA CrashTypeStep ==
    ASSUME Typed, Crash
    PROVE  Typed'
<1> USE DEF onDisk, Typed
<1>1. stage' \in [Callers -> Stages] /\ call' \in [Callers -> Call \cup {None}]
  BY DEF Crash, StateTyped, Stages, Final
<1>2. faults' \in 0 .. MaxFaults
  <2>1. faults \in 0 .. MaxFaults /\ faults < MaxFaults /\ faults' = faults + 1
    BY DEF Crash, StateTyped
  <2> QED BY <2>1, BrokerAssumption
<1>3. UNCHANGED <<status, grants, clock, changes, onDisk, reading, position, allowed, denied, parties>>
  BY DEF Crash
<1>4. ASSUME NEW p \in Callers PROVE Placed(p)'
  <2>1. stage'[p] \in {"new"} \cup Final /\ (stage'[p] = "new" <=> stage[p] = "new")
    BY CrashFrame DEF UnderWay, Final
  <2> QED BY <1>3, <2>1 DEF Placed, Final, Building, Sharing, Asking, Answered
<1> QED BY <1>1, <1>2, <1>3, <1>4 DEF StateTyped, Stages

LEMMA TypeStep ==
    ASSUME Typed, [Next]_vars
    PROVE  Typed'
<1>1. ASSUME NEW p \in Callers, Untouched(p) PROVE Placed(p)'
  BY <1>1 DEF Typed, Untouched, Placed
<1>2. ASSUME NEW r \in Runs, Step(r), UNCHANGED <<status, clock, changes>> PROVE Typed'
  BY <1>1, <1>2, BuildTypeStep, StepFrame DEF Typed
<1>3. ASSUME NEW s \in Shares, ShareStep(s), UNCHANGED <<status, clock, changes>> PROVE Typed'
  BY <1>1, <1>3, ShareTypeStep, ShareFrame DEF Typed
<1> QED BY <1>2, <1>3, ElsewhereTypeStep, CrashTypeStep, Ways

(***************************************************************************)
(* The history.  It only grows, or only shrinks; and what holds after a    *)
(* step is in it.                                                          *)
(***************************************************************************)
GhostTyped == ever \in [Callers -> SUBSET Facts] /\ always \in [Runs -> SUBSET Facts]

LEMMA ConcernsTyping ==
    ASSUME Typed', NEW p \in Callers, stage'[p] # "new"
    PROVE  Concerns(p)' \subseteq Facts
<1>1. CASE p \in Runs
  BY <1>1 DEF Concerns, Facts
<1>2. CASE p \notin Runs
  <2>1. parties'[p].evidence \in Evidence
    BY <1>2 DEF Typed, Placed, Callers, Orders
  <2> QED BY <1>2, <2>1 DEF Concerns, Facts
<1> QED BY <1>1, <1>2

\* What has begun is not undone.
LEMMA Begun ==
    ASSUME Typed, [Next]_vars, NEW p \in Callers, stage[p] # "new"
    PROVE  stage'[p] # "new"
<1> USE DEF Typed
<1>1. CASE Untouched(p)
  BY <1>1 DEF Untouched
<1>2. CASE p \in Runs /\ Step(p)
  BY <1>2 DEF Step, Build, AskNext, DecideNext, Collect, Clarify, HeadRead, SaveCapsule, SaveIndex,
              BuildFails, Goto, Finish, StateTyped
<1>3. CASE p \in Shares /\ ShareStep(p)
  BY <1>3 DEF ShareStep, Share, ShareDecides, SenderDecided, RecipientDecided, IssueToRecipient, AskAgain,
              DecidedAgain, ShareFails, Goto, Finish, StateTyped
<1>4. CASE Elsewhere
  BY <1>4, ElsewhereFrame DEF Others, memory
<1>5. CASE Crash
  BY <1>5, CrashFrame
<1> QED BY <1>1, <1>2, <1>3, <1>4, <1>5, Ways, StepFrame, ShareFrame

LEMMA GhostStep ==
    ASSUME Typed, GhostTyped, [Next]_vars
    PROVE  GhostTyped'
<1>1. CASE UNCHANGED vars
  BY <1>1 DEF vars, GhostTyped
<1>2. CASE Observe
  <2>1. ASSUME NEW p \in Callers, UnderWay(p)' \/ UnderWay(p)
        PROVE  Once(p)' \subseteq Facts
    <3>1. stage'[p] # "new"
      BY <2>1, Begun DEF UnderWay
    <3>2. Concerns(p)' \subseteq Facts
      BY <3>1, TypeStep, ConcernsTyping
    <3> QED BY <3>2 DEF Once
  <2>2. \A p \in Callers : ever'[p] \in SUBSET Facts
    BY <1>2, <2>1 DEF Observe, GhostTyped
  <2>3. \A r \in Runs : always'[r] \in SUBSET Facts
    BY <1>2 DEF Observe, GhostTyped
  <2> QED BY <1>2, <2>2, <2>3 DEF Observe, GhostTyped
<1> QED BY <1>1, <1>2 DEF Next

LEMMA TypesHold == Spec => [](Typed /\ GhostTyped)
<1>1. Init => GhostTyped
  BY DEF Init, GhostTyped, Facts
<1>2. Typed /\ GhostTyped /\ [Next]_vars => (Typed /\ GhostTyped)'
  BY TypeStep, GhostStep
<1> QED BY TypeInit, <1>1, <1>2, PTL DEF Spec

\* The state stays in its types: every decision has one of the reasons, no more grants are
\* issued than the bound allows, no build is where a share can be.
THEOREM TypeCorrect == Spec => []TypeOK
<1>1. Typed /\ GhostTyped => TypeOK
  BY DEF Typed, GhostTyped, TypeOK
<1> QED BY TypesHold, <1>1, PTL

LEMMA Kept ==
    ASSUME Observe \/ UNCHANGED vars, NEW p \in Callers
    PROVE  /\ ever[p] \subseteq ever'[p]
           /\ p \in Runs => always'[p] \subseteq always[p]
  BY DEF Observe, vars

LEMMA SeenActive ==
    ASSUME Observe, NEW p \in Callers, UnderWay(p) \/ UnderWay(p)', NEW e \in Evidence,
           p \in Runs \/ e = parties'[p].evidence, status'[e] = "ACTIVE"
    PROVE  <<"active", e>> \in ever'[p]
<1>1. <<"active", e>> \in Concerns(p)'
  BY DEF Concerns
<1>2. clock' \in Moments(p)'
  BY DEF Moments
<1>3. Holds(p, <<"active", e>>, clock)'
  BY DEF Holds
<1>4. <<"active", e>> \in Once(p)'
  BY <1>1, <1>2, <1>3 DEF Once
<1> QED BY <1>4 DEF Observe

LEMMA SeenConsumer ==
    ASSUME Observe, NEW p \in Callers, UnderWay(p) \/ UnderWay(p)', NEW e \in Evidence,
           p \in Runs \/ e = parties'[p].evidence, NEW t \in Moments(p)', MayConsume(p, e, t)'
    PROVE  <<"consumer", e>> \in ever'[p]
<1>1. <<"consumer", e>> \in Concerns(p)'
  BY DEF Concerns
<1>2. Holds(p, <<"consumer", e>>, t)'
  BY DEF Holds
<1>3. <<"consumer", e>> \in Once(p)'
  BY <1>1, <1>2 DEF Once
<1> QED BY <1>3 DEF Observe

LEMMA ThroughActive ==
    ASSUME Observe, NEW r \in Runs, UnderWay(r) \/ UnderWay(r)', NEW e \in Evidence,
           <<"active", e>> \in always'[r]
    PROVE  status'[e] = "ACTIVE"
<1>1. <<"active", e>> \in Still(r)'
  BY DEF Observe
<1>2. clock' \in Moments(r)'
  BY DEF Moments
<1>3. Holds(r, <<"active", e>>, clock)'
  BY <1>1, <1>2 DEF Still
<1> QED BY <1>3 DEF Holds

LEMMA ThroughConsumer ==
    ASSUME Observe, NEW r \in Runs, UnderWay(r) \/ UnderWay(r)', NEW e \in Evidence,
           <<"consumer", e>> \in always'[r], NEW t \in Moments(r)'
    PROVE  MayConsume(r, e, t)'
<1>1. <<"consumer", e>> \in Still(r)'
  BY DEF Observe
<1>2. Holds(r, <<"consumer", e>>, t)'
  BY <1>1 DEF Still
<1> QED BY <1>2 DEF Holds

(***************************************************************************)
(* Capsules and decisions.  What a build has allowed and denied is what    *)
(* its decisions on disk say, and the capsule is a copy of it that nothing *)
(* is added to afterwards.                                                 *)
(***************************************************************************)
Saved == {"written", "ok", "failed", "lost"}
Backed(r) ==
    /\ \A d \in decisions : d.by = r =>
          d.evidence \in IF d.reason = "AUTHORIZED" THEN allowed[r] ELSE denied[r]
    /\ \A e \in allowed[r] \cup denied[r] : \E d \in decisions : d.by = r /\ d.evidence = e
    /\ file[r] # None => file[r] = [evidence |-> allowed[r], denied |-> denied[r]] /\ stage[r] \in Saved
    /\ stage[r] = "written" \/ r \in index => file[r] # None

LEMMA BackedStep ==
    ASSUME Typed, NEW r \in Runs, Backed(r), [Next]_vars
    PROVE  Backed(r)'
<1> USE DEF onDisk, Typed
<1>1. r \in Callers /\ r \notin Shares /\ Placed(r) /\ StateTyped
  BY BrokerAssumption DEF Callers
<1>2. CASE Untouched(r)
  BY <1>2 DEF Untouched, Backed
<1>3. CASE Elsewhere
  <2>1. Untouched(r)
    BY <1>3, ElsewhereFrame DEF Others, memory, Untouched
  <2> QED BY <1>2, <2>1
<1>4. CASE Crash
  <2>1. UNCHANGED <<decisions, allowed, denied, file, index>>
    BY <1>4 DEF Crash
  <2>2. stage'[r] = IF UnderWay(r) THEN "lost" ELSE stage[r]
    BY <1>1, <1>4, CrashFrame
  <2> QED BY <2>1, <2>2 DEF Backed, Saved, UnderWay, Final
<1>5. ASSUME Step(r) PROVE Backed(r)'
  <2>1. ASSUME UNCHANGED <<decisions, allowed, denied, file, index>>, stage[r] \notin Saved, stage'[r] # "written"
        PROVE  Backed(r)'
    BY <2>1 DEF Backed
  <2>2. CASE Build(r) \/ AskNext(r) \/ DecideNext(r) \/ Clarify(r) \/ HeadRead(r)
    <3>1. stage[r] \notin Saved /\ stage'[r] # "written"
      BY <1>1, <2>2 DEF Build, AskNext, DecideNext, Clarify, HeadRead, Goto, StateTyped, Saved
    <3>2. UNCHANGED <<decisions, allowed, denied, file, index>>
      BY <2>2 DEF Build, AskNext, DecideNext, Clarify, HeadRead
    <3> QED BY <2>1, <3>1, <3>2
  <2>3. CASE Collect(r)
    <3>1. call[r] \in Call /\ call[r].reason \in Reasons
      BY <1>1, <2>3 DEF Collect, Placed, Answered
    <3>2. /\ decisions' = decisions \cup {DecisionOf(r)} /\ DecisionOf(r).by = r
          /\ DecisionOf(r).evidence = call[r].evidence /\ DecisionOf(r).reason = call[r].reason
      BY <1>1, <2>3, <3>1, DecisionFacts DEF Collect
    <3>3. stage'[r] = "listed" /\ stage[r] = "decided" /\ UNCHANGED <<file, index>>
      BY <1>1, <2>3 DEF Collect, Finish, Goto, StateTyped
    <3>4. file[r] = None /\ r \notin index
      BY <3>3 DEF Backed, Saved
    <3>5. /\ allowed'[r] = IF call[r].reason = "AUTHORIZED" THEN allowed[r] \cup {call[r].evidence} ELSE allowed[r]
          /\ denied'[r] = IF call[r].reason = "AUTHORIZED" THEN denied[r] ELSE denied[r] \cup {call[r].evidence}
      BY <1>1, <2>3 DEF Collect, StateTyped
    <3>6. \A d \in decisions' : d.by = r =>
              d.evidence \in IF d.reason = "AUTHORIZED" THEN allowed'[r] ELSE denied'[r]
      BY <3>2, <3>5 DEF Backed
    <3>7. \A e \in allowed'[r] \cup denied'[r] : \E d \in decisions' : d.by = r /\ d.evidence = e
      BY <3>2, <3>5 DEF Backed
    <3> QED BY <3>3, <3>4, <3>6, <3>7 DEF Backed
  <2>4. CASE SaveCapsule(r)
    <3>1. /\ file'[r] = [evidence |-> allowed[r], denied |-> denied[r]] /\ stage'[r] = "written"
          /\ UNCHANGED <<decisions, allowed, denied, index>>
      BY <1>1, <2>4 DEF SaveCapsule, Goto, StateTyped
    <3>2. file'[r] # None
      <4>1. [evidence |-> allowed[r], denied |-> denied[r]] \in Capsule
        BY <1>1 DEF Capsule, StateTyped
      <4> QED BY <3>1, <4>1, NoneAssumption
    <3> QED BY <3>1, <3>2 DEF Backed, Saved
  <2>5. CASE SaveIndex(r)
    <3>1. /\ stage[r] = "written" /\ stage'[r] = "ok" /\ index' = index \cup {r}
          /\ UNCHANGED <<decisions, allowed, denied, file>>
      BY <1>1, <2>5 DEF SaveIndex, Goto, StateTyped
    <3> QED BY <3>1 DEF Backed, Saved
  <2>6. CASE BuildFails(r)
    <3>1. stage'[r] = "failed" /\ UNCHANGED <<decisions, allowed, denied, file, index>>
      BY <1>1, <2>6 DEF BuildFails, Finish, Goto, StateTyped
    <3> QED BY <3>1 DEF Backed, Saved
  <2> QED BY <1>5, <2>2, <2>3, <2>4, <2>5, <2>6 DEF Step
<1>6. ASSUME NEW q \in Runs, Step(q), q # r PROVE Backed(r)'
  BY <1>1, <1>2, <1>6, StepFrame
<1>7. ASSUME NEW q \in Shares, ShareStep(q) PROVE Backed(r)'
  BY <1>1, <1>2, <1>7, ShareFrame
<1> QED BY <1>3, <1>4, <1>5, <1>6, <1>7, Ways

LEMMA BackedHolds == Spec => [](Typed /\ \A r \in Runs : Backed(r))
<1>1. Init => \A r \in Runs : Backed(r)
  BY DEF Init, Backed, Callers
<1>2. Typed /\ (\A r \in Runs : Backed(r)) /\ [Next]_vars => (Typed /\ \A r \in Runs : Backed(r))'
  BY TypeStep, BackedStep
<1> QED BY TypeInit, <1>1, <1>2, PTL DEF Spec

\* A capsule that can be looked up is on disk, and every decision behind it too, for any
\* number of builds and shares, failing writes and crashes.
THEOREM CapsulesBacked == Spec => []CapsuleIsBacked
<1>1. ASSUME Typed, \A r \in Runs : Backed(r) PROVE CapsuleIsBacked
  <2>1. ASSUME NEW r \in index
        PROVE  /\ file[r] # None
               /\ \A e \in Evidence : \A d \in Decided(r, e) :
                     e \in IF d.reason = "AUTHORIZED" THEN file[r].evidence ELSE file[r].denied
               /\ \A e \in file[r].evidence \cup file[r].denied : Decided(r, e) # {}
    <3>1. r \in Runs
      BY <1>1, <2>1 DEF Typed, StateTyped
    <3>2. Backed(r)
      BY <1>1, <3>1
    <3>3. file[r] # None /\ file[r] = [evidence |-> allowed[r], denied |-> denied[r]]
      BY <2>1, <3>2 DEF Backed
    <3>4. file[r].evidence = allowed[r] /\ file[r].denied = denied[r]
      BY <3>3
    <3>5. \A e \in Evidence : \A d \in Decided(r, e) :
              e \in IF d.reason = "AUTHORIZED" THEN allowed[r] ELSE denied[r]
      BY <3>2 DEF Backed, Decided
    <3>6. \A e \in allowed[r] \cup denied[r] : Decided(r, e) # {}
      BY <3>2 DEF Backed, Decided
    <3> QED BY <3>3, <3>4, <3>5, <3>6
  <2> QED BY <2>1 DEF CapsuleIsBacked
<1> QED BY BackedHolds, <1>1, PTL

(***************************************************************************)
(* A capsule is exact.  A build knows of its reading what was so at the    *)
(* moment it read; what it is asked or told of a candidate is by its own   *)
(* Agent; and no candidate it has passed was usable throughout and left.   *)
(***************************************************************************)
Saw(r)  == {e \in Evidence : {<<"active", e>>, <<"consumer", e>>} \subseteq ever[r]}
Sure(r) == {e \in Evidence : {<<"active", e>>, <<"consumer", e>>} \subseteq always[r]}

Read(r) == stage[r] \notin {"new", "denied"} => \A e \in Evidence :
              /\ reading[r][e] = "ACTIVE" => <<"active", e>> \in ever[r]
              /\ <<"active", e>> \in always[r] => reading[r][e] = "ACTIVE"
Told(r) == stage[r] \in {"asked", "decided"} =>
              /\ call[r].agent = parties[r].agent /\ call[r].principal = parties[r].principal
              /\ call[r].action = "consume"
              /\ stage[r] = "decided" /\ call[r].reason = "AUTHORIZED" => call[r].evidence \in Saw(r)
Passed(r, j) ==
    Candidates[j] \in Sure(r) =>
        \/ Candidates[j] \in allowed[r]
        \/ /\ stage[r] \in {"asked", "decided"} /\ call[r].evidence = Candidates[j]
           /\ stage[r] = "decided" => call[r].reason = "AUTHORIZED"
Exact(r) ==
    /\ Read(r) /\ Told(r)
    /\ allowed[r] \subseteq Saw(r)
    /\ stage[r] = "new" => position[r] = 1
    /\ stage[r] \in {"listed", "asked", "decided"} =>
          \A j \in 1 .. Len(Candidates) : j < position[r] => Passed(r, j)
    /\ stage[r] = "clear" \/ file[r] # None => Sure(r) \subseteq allowed[r] /\ Conflicts(allowed[r]) = {}

LEMMA ExactUntouched ==
    ASSUME NEW r \in Runs, Exact(r), Untouched(r), Saw(r) \subseteq Saw(r)', Sure(r)' \subseteq Sure(r),
           ever[r] \subseteq ever'[r], always'[r] \subseteq always[r]
    PROVE  Exact(r)'
<1> USE DEF Untouched
<1>1. Read(r)'
  BY DEF Exact, Read
<1>2. Told(r)'
  BY DEF Exact, Told
<1>3. \A j : Passed(r, j) => Passed(r, j)'
  BY DEF Passed
<1>4. Conflicts(allowed[r])' = Conflicts(allowed[r])
  BY DEF Conflicts
<1> QED BY <1>1, <1>2, <1>3, <1>4 DEF Exact

LEMMA ExactStep ==
    ASSUME Typed, NEW r \in Runs, Backed(r), Exact(r), [Next]_vars
    PROVE  Exact(r)'
<1> USE DEF onDisk, Typed
<1>1. r \in Callers /\ r \notin Shares /\ Placed(r) /\ StateTyped /\ Typed'
  BY TypeStep, BrokerAssumption DEF Callers
<1>2. ever[r] \subseteq ever'[r] /\ always'[r] \subseteq always[r]
  BY <1>1, Kept, Ways
<1>3. Saw(r) \subseteq Saw(r)' /\ Sure(r)' \subseteq Sure(r)
  BY <1>2 DEF Saw, Sure
<1>4. CASE Untouched(r)
  BY <1>2, <1>3, <1>4, ExactUntouched
<1>5. CASE Elsewhere
  <2>1. Untouched(r)
    BY <1>5, ElsewhereFrame DEF Others, memory, Untouched
  <2> QED BY <1>4, <2>1
<1>6. CASE Crash
  <2>1. /\ stage'[r] = IF UnderWay(r) THEN "lost" ELSE stage[r]
        /\ UNCHANGED <<reading, allowed, file, position>>
    BY <1>1, <1>6, CrashFrame
  <2>2. stage'[r] \notin {"asked", "decided", "listed", "clear"}
    BY <2>1 DEF UnderWay, Final
  <2>3. stage'[r] \notin {"new", "denied"} => stage[r] \notin {"new", "denied"}
    BY <2>1 DEF UnderWay, Final
  <2>4. stage'[r] = "new" => stage[r] = "new"
    BY <2>1 DEF UnderWay, Final
  <2>5. Read(r)' /\ Told(r)'
    BY <1>2, <2>1, <2>2, <2>3 DEF Exact, Read, Told
  <2> QED BY <1>3, <2>1, <2>2, <2>4, <2>5 DEF Exact, Conflicts
<1>7. ASSUME Step(r), UNCHANGED <<status, clock, changes>>, Observe PROVE Exact(r)'
  <2> USE <1>1, <1>7
\* What a build has read stays what it has read, and what it knows of that too.
  <2>1. ASSUME stage[r] \notin {"new", "denied"}, UNCHANGED reading PROVE Read(r)'
    BY <1>2, <2>1 DEF Exact, Read
  <2>2. CASE Build(r)
    <3>1. UNCHANGED <<position, call, allowed, denied, file>> /\ position[r] = 1
      BY <2>2 DEF Build, Exact
    <3>2. \/ stage'[r] = "denied"
          \/ stage'[r] = "listed" /\ reading'[r] = status
      BY <2>2 DEF Build, Goto, StateTyped
    <3>3. ASSUME stage'[r] = "listed", NEW e \in Evidence
          PROVE  /\ status'[e] = "ACTIVE" => <<"active", e>> \in ever'[r]
                 /\ <<"active", e>> \in always'[r] => status'[e] = "ACTIVE"
      <4>1. UnderWay(r)'
        BY <3>3 DEF UnderWay, Final
      <4> QED BY <4>1, SeenActive, ThroughActive
    <3>4. Read(r)'
      BY <3>2, <3>3 DEF Read
    <3>5. \A j \in 1 .. Len(Candidates) : ~(j < position'[r])
      BY <3>1, CandidateFacts
    <3> QED BY <1>3, <3>1, <3>2, <3>4, <3>5 DEF Exact, Told, Conflicts
  <2>3. CASE AskNext(r)
    <3>1. PICK j \in NextFrom(r, position[r]) :
              /\ \A i \in NextFrom(r, position[r]) : j <= i
              /\ Ask(r, parties[r].agent, parties[r].principal, Candidates[j], "consume")
              /\ position' = [position EXCEPT ![r] = j + 1]
      BY <2>3 DEF AskNext
    <3>2. /\ stage[r] = "listed" /\ stage'[r] = "asked"
          /\ UNCHANGED <<reading, allowed, denied, parties, file>>
      BY <2>3 DEF AskNext, Goto, StateTyped
    <3>3. /\ call'[r].agent = parties[r].agent /\ call'[r].principal = parties[r].principal
          /\ call'[r].evidence = Candidates[j] /\ call'[r].action = "consume"
      BY <3>1 DEF Ask, StateTyped
    <3>4. /\ position[r] \in Nat \ {0} /\ Len(Candidates) \in Nat /\ position'[r] = j + 1
          /\ j \in position[r] .. Len(Candidates)
      BY <3>1, CandidateFacts DEF StateTyped, NextFrom
    <3>5. ASSUME NEW k \in 1 .. Len(Candidates), k < position'[r], Candidates[k] \in Sure(r)'
          PROVE  Candidates[k] \in allowed'[r] \/ call'[r].evidence = Candidates[k]
      <4>1. CASE k < position[r]
        BY <1>3, <3>2, <3>5, <4>1 DEF Exact, Passed
      <4>2. CASE k = j
        BY <3>3, <4>2
      <4>3. CASE ~(k < position[r]) /\ k # j
        <5>1. k \in position[r] .. Len(Candidates) /\ ~(j <= k)
          BY <3>4, <3>5, <4>3
        <5>2. reading[r][Candidates[k]] = "none"
          BY <3>1, <5>1 DEF NextFrom
        <5>3. Candidates[k] \in Evidence /\ <<"active", Candidates[k]>> \in always[r]
          BY <1>3, <3>5 DEF Sure
        <5>4. reading[r][Candidates[k]] = "ACTIVE"
          BY <3>2, <5>3 DEF Exact, Read
        <5> QED BY <5>2, <5>4
      <4> QED BY <4>1, <4>2, <4>3
    <3>6. \A k \in 1 .. Len(Candidates) : k < position'[r] => Passed(r, k)'
      BY <3>2, <3>5 DEF Passed
    <3>7. Read(r)' /\ Told(r)'
      BY <2>1, <3>2, <3>3 DEF Told
    <3> QED BY <1>3, <3>2, <3>6, <3>7 DEF Exact, Conflicts
  <2>4. CASE DecideNext(r)
    <3>1. /\ stage[r] = "asked" /\ stage'[r] = "decided" /\ Decide(r)
          /\ UNCHANGED <<reading, position, allowed, denied, parties, file, grants>>
      BY <2>4 DEF DecideNext, Goto, StateTyped, Step
    <3>2. call[r] \in Call /\ reading[r][call[r].evidence] # "none"
      BY <3>1 DEF Placed, Asking
    <3> DEFINE st == reading[r][call[r].evidence]
    <3>3. /\ call'[r] \in Call /\ call'[r].agent = call[r].agent /\ call'[r].principal = call[r].principal
          /\ call'[r].evidence = call[r].evidence /\ call'[r].action = call[r].action
          /\ call'[r].now = call[r].now /\ call'[r].reason = ReasonFor(call[r], st)
      BY <3>1, <3>2, DecideFacts
    <3>4. call[r].evidence \in Evidence /\ st \in Statuses
      BY <3>2 DEF Call, StateTyped
    <3>5. /\ call[r].agent = parties[r].agent /\ call[r].principal = parties[r].principal
          /\ call[r].action = "consume"
      BY <3>1 DEF Exact, Told
    <3>6. call'[r].reason = "AUTHORIZED" <=>
             st = "ACTIVE" /\ Permitted(call[r].agent, call[r].principal, call[r].evidence,
                                        call[r].action, call[r].now)
      BY <3>2, <3>3, <3>4, AuthorizeIsExact
    <3>7. PICK e \in Evidence, t \in Times : e = call[r].evidence /\ t = call[r].now
      BY <3>2 DEF Call
\* The grants it is decided by are those in force after the step, at the time of the call.
    <3>8. MayConsume(r, e, t)' <=> Permitted(call[r].agent, call[r].principal, e, call[r].action, t)
      <4>1. parties'[r] = parties[r] /\ AllGrants' = AllGrants
        BY <3>1 DEF AllGrants
      <4>2. MayConsume(r, e, t)' <=> Permitted(parties[r].agent, parties[r].principal, e, "consume", t)'
        BY <4>1 DEF MayConsume
      <4> QED BY <3>5, <4>1, <4>2, <3>7 DEF Permitted, PermittedAll
    <3>9. t \in Moments(r)' /\ UnderWay(r)
      <4>1. call'[r] # None
        BY <3>3, NoneAssumption
      <4> QED BY <3>1, <3>3, <3>7, <4>1 DEF Moments, UnderWay, Final
    <3> HIDE DEF st
    <3>10. call'[r].reason = "AUTHORIZED" => e \in Saw(r)'
      <4>1. ASSUME call'[r].reason = "AUTHORIZED"
            PROVE  <<"active", e>> \in ever'[r] /\ <<"consumer", e>> \in ever'[r]
        <5>1. <<"active", e>> \in ever[r]
          BY <3>1, <3>4, <3>6, <4>1, <3>7 DEF Exact, Read, st
        <5>2. MayConsume(r, e, t)'
          BY <3>6, <3>8, <4>1, <3>7
        <5>3. PICK k \in Evidence, m \in Moments(r)' : k = e /\ m = t
          BY <3>4, <3>9, <3>7
        <5>4. MayConsume(r, k, m)'
          BY <5>2, <5>3
        <5>5. <<"consumer", k>> \in ever'[r]
          BY <3>9, <5>4, SeenConsumer
        <5> QED BY <1>2, <5>1, <5>3, <5>5
      <4> QED BY <3>4, <4>1, <3>7 DEF Saw
    <3>11. e \in Sure(r)' => call'[r].reason = "AUTHORIZED"
      <4>1. ASSUME e \in Sure(r)'
            PROVE  st = "ACTIVE" /\ MayConsume(r, e, t)'
        <5>1. <<"active", e>> \in always[r] /\ <<"consumer", e>> \in always'[r]
          BY <1>3, <4>1 DEF Sure
        <5>2. st = "ACTIVE"
          BY <3>1, <3>4, <5>1, <3>7 DEF Exact, Read, st
        <5>3. PICK k \in Evidence, m \in Moments(r)' : k = e /\ m = t
          BY <3>4, <3>9, <3>7
        <5>4. MayConsume(r, k, m)'
          BY <3>9, <5>1, <5>3, ThroughConsumer
        <5> QED BY <5>2, <5>3, <5>4
      <4> QED BY <3>6, <3>8, <4>1, <3>7
    <3>12. ASSUME NEW j \in 1 .. Len(Candidates), j < position'[r], Candidates[j] \in Sure(r)'
           PROVE  \/ Candidates[j] \in allowed'[r]
                  \/ call'[r].evidence = Candidates[j] /\ call'[r].reason = "AUTHORIZED"
      BY <1>3, <3>1, <3>3, <3>11, <3>12, <3>7 DEF Exact, Passed
    <3>13. \A j \in 1 .. Len(Candidates) : j < position'[r] => Passed(r, j)'
      BY <3>1, <3>12 DEF Passed
    <3>14. Read(r)' /\ Told(r)'
      BY <2>1, <3>1, <3>3, <3>5, <3>10, <3>7 DEF Told
    <3> QED BY <1>3, <3>1, <3>13, <3>14 DEF Exact, Conflicts
  <2>5. CASE Collect(r)
    <3>1. /\ stage[r] = "decided" /\ stage'[r] = "listed"
          /\ UNCHANGED <<reading, position, parties, file>>
      BY <2>5 DEF Collect, Finish, Goto, StateTyped
    <3>2. allowed'[r] = IF call[r].reason = "AUTHORIZED" THEN allowed[r] \cup {call[r].evidence} ELSE allowed[r]
      BY <2>5 DEF Collect, StateTyped
    <3>3. file[r] = None \/ (allowed'[r] = allowed[r])
      BY <2>5, <3>1 DEF Backed, Saved
    <3>4. \A j : Passed(r, j) => Passed(r, j)'
      BY <1>3, <3>1, <3>2 DEF Passed
    <3>5. allowed'[r] \subseteq Saw(r)'
      BY <1>3, <3>1, <3>2 DEF Exact, Told
    <3>6. Read(r)' /\ Told(r)'
      BY <2>1, <3>1 DEF Told
    <3> QED BY <1>3, <3>1, <3>3, <3>4, <3>5, <3>6 DEF Exact, Conflicts
  <2>6. CASE HeadRead(r)
    <3>1. /\ stage[r] = "listed" /\ stage'[r] = "clear" /\ NextFrom(r, position[r]) = {}
          /\ Conflicts(allowed[r]) = {}
          /\ UNCHANGED <<reading, position, call, allowed, denied, parties, file>>
      BY <2>6 DEF HeadRead, Goto, StateTyped
    <3>2. ASSUME NEW e \in Sure(r) PROVE e \in allowed[r]
      <4>1. e \in Evidence /\ <<"active", e>> \in always[r]
        BY <3>2 DEF Sure
      <4>2. PICK j \in 1 .. Len(Candidates) : Candidates[j] = e
        BY <4>1, CandidateFacts
      <4>3. reading[r][Candidates[j]] # "none"
        BY <3>1, <4>1, <4>2 DEF Exact, Read
      <4>4. j < position[r]
        <5>1. position[r] \in Nat /\ Len(Candidates) \in Nat
          BY CandidateFacts DEF StateTyped
        <5>2. j \notin position[r] .. Len(Candidates)
          BY <3>1, <4>3 DEF NextFrom
        <5> QED BY <5>1, <5>2
      <4> QED BY <3>1, <3>2, <4>2, <4>4 DEF Exact, Passed
    <3>3. Read(r)' /\ Told(r)'
      BY <2>1, <3>1 DEF Told
    <3> QED BY <1>3, <3>1, <3>2, <3>3 DEF Exact, Conflicts
  <2>7. CASE SaveCapsule(r)
    <3>1. /\ stage[r] = "clear" /\ stage'[r] = "written"
          /\ UNCHANGED <<reading, position, call, allowed, denied, parties>>
      BY <2>7 DEF SaveCapsule, Goto, StateTyped
    <3>2. Read(r)' /\ Told(r)'
      BY <2>1, <3>1 DEF Told
    <3> QED BY <1>3, <3>1, <3>2 DEF Exact, Conflicts
  <2>8. CASE Clarify(r) \/ SaveIndex(r) \/ BuildFails(r)
    <3>1. /\ stage[r] \notin {"new", "denied"}
          /\ stage'[r] \notin {"new", "listed", "asked", "decided", "clear"}
          /\ UNCHANGED <<reading, position, allowed, file>>
      BY <2>8 DEF Clarify, SaveIndex, BuildFails, Finish, Goto, StateTyped
    <3>2. Read(r)' /\ Told(r)'
      BY <2>1, <3>1 DEF Told
    <3> QED BY <1>3, <3>1, <3>2 DEF Exact, Conflicts
  <2> QED BY <2>2, <2>3, <2>4, <2>5, <2>6, <2>7, <2>8 DEF Step
<1>8. ASSUME NEW q \in Runs, Step(q), q # r PROVE Exact(r)'
  BY <1>1, <1>4, <1>8, StepFrame
<1>9. ASSUME NEW q \in Shares, ShareStep(q) PROVE Exact(r)'
  BY <1>1, <1>4, <1>9, ShareFrame
<1> QED BY <1>5, <1>6, <1>7, <1>8, <1>9, Ways

\* What is in a capsule was active and permitted while it was built, what was both
\* throughout is in it, and its claims agree, for any grants, number of builds and shares,
\* failing writes and crashes.
THEOREM CapsulesExact == Spec => []CapsuleIsExact
<1>1. Init => \A r \in Runs : Exact(r)
  BY DEF Init, Exact, Read, Told, Callers
<1>2. /\ Typed /\ (\A r \in Runs : Backed(r)) /\ (\A r \in Runs : Exact(r))
      /\ [Next]_vars
      => (\A r \in Runs : Exact(r))'
  BY ExactStep
<1>3. ASSUME \A r \in Runs : Backed(r), \A r \in Runs : Exact(r) PROVE CapsuleIsExact
  <2>1. ASSUME NEW r \in Runs, file[r] # None
        PROVE  /\ {"active", "consumer"} \X file[r].evidence \subseteq ever[r]
               /\ \A e \in Evidence : {"active", "consumer"} \X {e} \subseteq always[r] => e \in file[r].evidence
               /\ \A e, f \in file[r].evidence : Topic[e] = Topic[f] =>
                     Topic[e] = None \/ ClaimHash[e] = ClaimHash[f]
    <3>1. file[r] = [evidence |-> allowed[r], denied |-> denied[r]] /\ Exact(r)
      BY <1>3, <2>1 DEF Backed
    <3>2. file[r].evidence = allowed[r]
      BY <3>1
    <3>3. allowed[r] \subseteq Saw(r) /\ Sure(r) \subseteq allowed[r] /\ Conflicts(allowed[r]) = {}
      BY <2>1, <3>1 DEF Exact
    <3>4. {"active", "consumer"} \X allowed[r] \subseteq ever[r]
      <4>1. \A e \in allowed[r], w \in {"active", "consumer"} : <<w, e>> \in ever[r]
        BY <3>3 DEF Saw
      <4>2. ASSUME NEW z \in {"active", "consumer"} \X allowed[r] PROVE z \in ever[r]
        <5>1. z = <<z[1], z[2]>> /\ z[1] \in {"active", "consumer"} /\ z[2] \in allowed[r]
          OBVIOUS
        <5> QED BY <4>1, <5>1
      <4> QED BY <4>2
    <3>5. \A e \in Evidence : {"active", "consumer"} \X {e} \subseteq always[r] => e \in allowed[r]
      BY <3>3 DEF Sure
    <3>6. ASSUME NEW e \in allowed[r], NEW f \in allowed[r], Topic[e] = Topic[f], Topic[e] # None
          PROVE  ClaimHash[e] = ClaimHash[f]
      <4>1. <<e, f>> \notin Conflicts(allowed[r])
        BY <3>3
      <4>2. <<e, f>> \in allowed[r] \X allowed[r] /\ <<e, f>>[1] = e /\ <<e, f>>[2] = f
        OBVIOUS
      <4> QED BY <3>6, <4>1, <4>2 DEF Conflicts
    <3> QED BY <3>2, <3>4, <3>5, <3>6
  <2> QED BY <2>1 DEF CapsuleIsExact
<1> QED BY BackedHolds, <1>1, <1>2, <1>3, PTL DEF Spec

(***************************************************************************)
(* A grant of a share.  The sender's right has been decided before the     *)
(* recipient is asked, the recipient's lack of one before a grant is       *)
(* issued, and a grant that is closed keeps what it covered.               *)
(***************************************************************************)
\* Whoever may share what needs certain scopes may share all that these match.
LEMMA ReachIsPermitted ==
    ASSUME StateTyped, NEW agent, NEW principal, NEW e \in Evidence, NEW action, NEW t,
           Permitted(agent, principal, e, action, t)
    PROVE  PermittedAll(agent, principal, e, Reach(e), action, t)
<1>1. \A g \in AllGrants : \A scope \in g.covers : Matches[scope] \subseteq g.covers
  <2>1. ASSUME NEW g \in AllGrants PROVE g.covers \in Patterns
    <3>1. PICK i \in DOMAIN grants : g = grants[i]
      BY DEF AllGrants
    <3>2. grants[i] \in Grant
      BY DEF StateTyped
    <3> QED BY <3>1, <3>2 DEF Grant
  <2> QED BY <2>1 DEF Patterns
<1>2. ASSUME NEW scope \in Reach(e)
      PROVE  \E whole \in Range(RequiredScopes[e]) :
                 \A g \in AllGrants : whole \in g.covers => scope \in g.covers
  <2>1. PICK whole \in Range(RequiredScopes[e]) : scope \in Matches[whole]
    BY DEF Reach
  <2> QED BY <1>1, <2>1
<1> HIDE DEF AllGrants
<1>3. ASSUME NEW scope \in Reach(e)
      PROVE  \E g \in AllGrants : /\ g.agent = agent /\ g.principal = None
                                  /\ g.action = action /\ scope \in g.covers
                                  /\ ~g.closed /\ t \in g.from .. g.until - 1
  BY <1>2 DEF Permitted, PermittedAll
<1>4. ASSUME principal # None, NEW scope \in Reach(e)
      PROVE  \E g \in AllGrants : /\ g.agent \in {agent, Everyone} /\ g.principal = principal
                                  /\ g.action = action /\ scope \in g.covers
                                  /\ ~g.closed /\ t \in g.from .. g.until - 1
  BY <1>2, <1>4 DEF Permitted, PermittedAll
<1> QED BY <1>3, <1>4 DEF Permitted, PermittedAll

LEMMA SeenSender ==
    ASSUME Observe, NEW s \in Shares, s \notin Runs, UnderWay(s) \/ UnderWay(s)', NEW e \in Evidence,
           e = parties'[s].evidence, NEW t \in Moments(s)',
           PermittedAll(parties[s].from, parties[s].principal, e, Reach(e), "share", t)'
    PROVE  <<"sender", e>> \in ever'[s]
<1>1. <<"sender", e>> \in Concerns(s)'
  BY DEF Concerns
<1>2. Holds(s, <<"sender", e>>, t)'
  BY DEF Holds
<1>3. <<"sender", e>> \in Once(s)'
  BY <1>1, <1>2 DEF Once
<1> QED BY <1>3 DEF Observe, Callers

PastSender == {"recipient asked", "recipient decided", "granting", "again asked", "again decided", "shared"}
MayGive(s) ==
    {<<"active", parties[s].evidence>>, <<"sender", parties[s].evidence>>} \subseteq ever[s]
Heard(s) ==
    /\ stage[s] \in {"sender asked", "sender decided"} =>
          /\ call[s].agent = parties[s].from /\ call[s].principal = parties[s].principal
          /\ call[s].evidence = parties[s].evidence /\ call[s].action = "share"
    /\ stage[s] \in {"recipient asked", "recipient decided", "again asked", "again decided"} =>
          /\ call[s].agent = parties[s].to /\ call[s].principal = None
          /\ call[s].evidence = parties[s].evidence /\ call[s].action = "consume"
Known(s) ==
    /\ stage[s] # "new" /\ reading[s][parties[s].evidence] = "ACTIVE" => <<"active", parties[s].evidence>> \in ever[s]
    /\ stage[s] = "sender decided" /\ call[s].reason = "AUTHORIZED" => MayGive(s)
    /\ stage[s] \in PastSender => MayGive(s)
    /\ stage[s] \in {"recipient decided", "again decided"} /\ call[s].reason = "AUTHORIZED"
          => <<"consumer", parties[s].evidence>> \in ever[s]
    /\ stage[s] = "shared" => <<"consumer", parties[s].evidence>> \in ever[s]
Narrow(s, g) ==
    /\ g.agent = parties[s].to /\ g.principal = None /\ g.action = "consume"
    /\ g.covers \subseteq Reach(parties[s].evidence)
Given(s) ==
    \A g \in AllGrants : g.by = s =>
        stage[s] \in {"granting", "again asked", "again decided"} \cup Final /\ MayGive(s) /\ Narrow(s, g)
Shared(s) == Heard(s) /\ Known(s) /\ Given(s)

\* No step but IssueToRecipient(s) adds a grant of s.
NoneNew(s) == \A g \in AllGrants' : g.by = s => \E h \in AllGrants : Alike(g, h)

LEMMA GrantFrame ==
    ASSUME Typed, NEW s \in Shares, [Next]_vars
    PROVE  NoneNew(s) \/ IssueToRecipient(s)
<1> USE DEF Typed
<1>1. ASSUME UNCHANGED grants PROVE NoneNew(s)
  BY <1>1 DEF NoneNew, AllGrants, Alike
<1>2. ASSUME NEW g \in Grant, Issue(g), g.by # s PROVE NoneNew(s)
  BY <1>2, IssueFacts DEF NoneNew, Alike
<1>3. ASSUME NEW q \in Shares, IssueToRecipient(q), q # s, q \in Callers PROVE NoneNew(s)
  <2> DEFINE g == [agent |-> parties[q].to, principal |-> None,
                   covers |-> Matches[RequiredScopes[parties[q].evidence][position[q]]],
                   action |-> "consume", from |-> parties[q].now, until |-> Forever,
                   closed |-> FALSE, by |-> q]
  <2>1. grants' = Append(grants, g) /\ g.by = q
    BY <1>3 DEF IssueToRecipient, Issue
  <2> HIDE DEF g
  <2>2. grants \in Seq(Grant) /\ Len(grants) \in Nat /\ DOMAIN grants = 1 .. Len(grants)
    BY DEF StateTyped
  <2>3. \A i \in DOMAIN grants' : (i \in DOMAIN grants /\ grants'[i] = grants[i]) \/ grants'[i] = g
    BY <2>1, <2>2
  <2> QED BY <1>3, <2>1, <2>3 DEF NoneNew, AllGrants, Alike
<1>4. CASE IssueGrant
  <2>1. PICK o \in Offers :
            Issue([agent |-> o.agent, principal |-> o.principal, covers |-> o.covers,
                   action |-> o.action, from |-> clock, until |-> o.until,
                   closed |-> FALSE, by |-> None])
    BY <1>4 DEF IssueGrant
  <2> DEFINE g == [agent |-> o.agent, principal |-> o.principal, covers |-> o.covers,
                   action |-> o.action, from |-> clock, until |-> o.until,
                   closed |-> FALSE, by |-> None]
  <2>2. g \in Grant /\ g.by # s
    BY BrokerAssumption DEF Requests, Grant, StateTyped
  <2>3. Issue(g)
    BY <2>1
  <2> HIDE DEF g
  <2> QED BY <1>2, <2>2, <2>3
<1>5. ASSUME NEW i \in DOMAIN grants, RevokeGrant(i) PROVE NoneNew(s)
  BY <1>5, RevokeFacts DEF RevokeGrant, NoneNew
<1>6. CASE Elsewhere
  <2>1. CASE Tick \/ UNCHANGED vars
    BY <1>1, <2>1 DEF Tick, vars
  <2>2. ASSUME NEW e \in Evidence, Commit(e) \/ End(e) PROVE NoneNew(s)
    BY <1>1, <2>2 DEF Commit, End
  <2> QED BY <1>4, <1>5, <1>6, <2>1, <2>2 DEF Elsewhere
<1>7. ASSUME NEW r \in Runs, Step(r) PROVE NoneNew(s)
  BY <1>1, <1>7 DEF Step
<1>8. CASE Crash
  BY <1>1, <1>8 DEF Crash
<1>9. ASSUME NEW q \in Shares, ShareStep(q) PROVE NoneNew(s) \/ IssueToRecipient(s)
  <2>1. CASE IssueToRecipient(q)
    BY <1>3, <2>1 DEF Callers
  <2>2. CASE Share(q) \/ ShareDecides(q) \/ SenderDecided(q) \/ RecipientDecided(q)
    BY <1>1, <2>2 DEF Share, ShareDecides, SenderDecided, RecipientDecided
  <2>3. CASE AskAgain(q) \/ DecidedAgain(q) \/ ShareFails(q)
    BY <1>1, <2>3 DEF AskAgain, DecidedAgain, ShareFails
  <2> QED BY <1>9, <2>1, <2>2, <2>3 DEF ShareStep
<1> QED BY <1>6, <1>7, <1>8, <1>9, Ways

\* What a share has given stays given: to the same recipient, of the same Evidence.
LEMMA GivenKept ==
    ASSUME NEW s \in Shares, Given(s), NoneNew(s), ever[s] \subseteq ever'[s],
           parties'[s].to = parties[s].to, parties'[s].evidence = parties[s].evidence,
           stage[s] \in {"granting", "again asked", "again decided"} \cup Final =>
               stage'[s] \in {"granting", "again asked", "again decided"} \cup Final
    PROVE  Given(s)'
<1>1. ASSUME NEW g \in AllGrants', g.by = s
      PROVE  stage'[s] \in {"granting", "again asked", "again decided"} \cup Final /\ MayGive(s)' /\ Narrow(s, g)'
  <2>1. PICK h \in AllGrants : Alike(g, h)
    BY <1>1 DEF NoneNew
  <2>2. stage[s] \in {"granting", "again asked", "again decided"} \cup Final /\ MayGive(s) /\ Narrow(s, h)
    BY <1>1, <2>1 DEF Given, Alike
  <2>3. MayGive(s)'
    BY <2>2 DEF MayGive
  <2>4. Narrow(s, g)'
    BY <2>1, <2>2 DEF Narrow, Alike
  <2> QED BY <2>2, <2>3, <2>4
<1> QED BY <1>1 DEF Given

LEMMA SharedStep ==
    ASSUME Typed, NEW s \in Shares, Shared(s), [Next]_vars
    PROVE  Shared(s)'
<1> USE DEF onDisk, Typed
<1>1. s \in Callers /\ s \notin Runs /\ Placed(s) /\ StateTyped
  BY BrokerAssumption DEF Callers
<1>2. ever[s] \subseteq ever'[s]
  BY <1>1, Kept, Ways
<1>3. stage[s] # "new" => parties[s] \in Orders
  BY <1>1 DEF Placed
<1>4. CASE Untouched(s)
  <2>1. NoneNew(s)
    <3>1. position'[s] = position[s] /\ position[s] \in Nat
      BY <1>1, <1>4 DEF Untouched, StateTyped
    <3>2. ~IssueToRecipient(s)
      BY <1>1, <3>1 DEF IssueToRecipient, StateTyped
    <3> QED BY <3>2, GrantFrame
  <2>2. Heard(s)' /\ Known(s)'
    BY <1>2, <1>4 DEF Untouched, Shared, Heard, Known, MayGive
  <2>3. Given(s)'
    BY <1>2, <1>4, <2>1, GivenKept DEF Untouched, Shared
  <2> QED BY <2>2, <2>3 DEF Shared
<1>5. CASE Elsewhere
  <2>1. Untouched(s)
    BY <1>1, <1>5, ElsewhereFrame DEF Others, memory, Untouched
  <2> QED BY <1>4, <2>1
<1>6. CASE Crash
  <2>1. /\ stage'[s] = IF UnderWay(s) THEN "lost" ELSE stage[s]
        /\ UNCHANGED <<reading, parties, grants>>
    BY <1>1, <1>6, CrashFrame
  <2>2. NoneNew(s)
    BY <2>1 DEF NoneNew, AllGrants, Alike
  <2>3. stage'[s] \in {"new"} \cup Final /\ (stage'[s] \in {"new", "shared"} => stage'[s] = stage[s])
    BY <2>1 DEF UnderWay, Final
  <2>4. Heard(s)' /\ Known(s)'
    BY <1>2, <2>1, <2>3 DEF Shared, Heard, Known, MayGive, Final, PastSender, UnderWay
  <2>5. Given(s)'
    BY <1>2, <2>1, <2>2, GivenKept DEF Shared, UnderWay, Final
  <2> QED BY <2>4, <2>5 DEF Shared
<1>7. ASSUME ShareStep(s), UNCHANGED <<status, clock, changes>>, Observe PROVE Shared(s)'
  <2> USE <1>1, <1>7
  <2>1. ASSUME UNCHANGED grants PROVE NoneNew(s)
    BY <2>1 DEF NoneNew, AllGrants, Alike
\* What was known of the reading and of the sender is known still.
  <2>2. ASSUME stage[s] # "new", UNCHANGED reading, parties'[s].evidence = parties[s].evidence
        PROVE  /\ reading'[s][parties'[s].evidence] = "ACTIVE" => <<"active", parties'[s].evidence>> \in ever'[s]
               /\ MayGive(s) => MayGive(s)'
    BY <1>2, <2>2 DEF Shared, Known, MayGive
  <2>3. CASE Share(s)
    <3>1. PICK i \in ShareInputs :
              /\ parties' = [parties EXCEPT ![s] =
                     [from |-> i.from, to |-> i.to, evidence |-> i.evidence,
                      principal |-> i.principal, now |-> clock]]
              /\ Ask(s, i.from, i.principal, i.evidence, "share")
              /\ reading' = [reading EXCEPT ![s][i.evidence] = status[i.evidence]]
      BY <2>3 DEF Share
    <3>2. /\ parties'[s].from = i.from /\ parties'[s].principal = i.principal
          /\ parties'[s].evidence = i.evidence /\ i.evidence \in Evidence
      <4>1. parties'[s] = [from |-> i.from, to |-> i.to, evidence |-> i.evidence,
                           principal |-> i.principal, now |-> clock]
        BY <3>1 DEF StateTyped
      <4> QED BY <4>1, BrokerAssumption DEF Inputs
    <3>3. /\ call'[s].agent = i.from /\ call'[s].principal = i.principal
          /\ call'[s].evidence = i.evidence /\ call'[s].action = "share"
      BY <3>1 DEF Ask, StateTyped
    <3>4. stage[s] = "new" /\ stage'[s] = "sender asked" /\ UNCHANGED grants
      BY <2>3 DEF Share, Goto, StateTyped
    <3>5. reading'[s][i.evidence] = status'[i.evidence]
      BY <3>1, <3>2 DEF StateTyped
    <3>6. reading'[s][parties'[s].evidence] = "ACTIVE" => <<"active", parties'[s].evidence>> \in ever'[s]
      <4>1. UnderWay(s)'
        BY <3>4 DEF UnderWay, Final
      <4>2. PICK e \in Evidence : e = parties'[s].evidence
        BY <3>2
      <4>3. status'[e] = "ACTIVE" => <<"active", e>> \in ever'[s]
        BY <4>1, <4>2, SeenActive
      <4> QED BY <3>2, <3>5, <4>2, <4>3
    <3>7. Given(s)'
      <4>1. \A g \in AllGrants' : g.by # s
        BY <2>1, <3>4 DEF NoneNew, Alike, Shared, Given, Final
      <4> QED BY <4>1 DEF Given
    <3> QED BY <3>2, <3>3, <3>4, <3>6, <3>7 DEF Shared, Heard, Known, PastSender
  <2>4. CASE ShareDecides(s)
    <3>1. /\ stage[s] \in Asking /\ Decide(s)
          /\ stage[s] = "sender asked" => stage'[s] = "sender decided"
          /\ stage[s] = "recipient asked" => stage'[s] = "recipient decided"
          /\ stage[s] = "again asked" => stage'[s] = "again decided"
          /\ stage[s] # "asked"
          /\ UNCHANGED <<reading, parties, grants>>
      BY <2>4 DEF ShareDecides, Goto, Asking, StateTyped
    <3>2. call[s] \in Call /\ reading[s][call[s].evidence] # "none"
      BY <3>1 DEF Placed
    <3> DEFINE st == reading[s][call[s].evidence]
    <3>3. /\ call'[s] \in Call /\ call'[s].agent = call[s].agent /\ call'[s].principal = call[s].principal
          /\ call'[s].evidence = call[s].evidence /\ call'[s].action = call[s].action
          /\ call'[s].now = call[s].now /\ call'[s].reason = ReasonFor(call[s], st)
      BY <3>1, <3>2, DecideFacts
    <3>4. PICK e \in Evidence, t \in Times : e = call[s].evidence /\ t = call[s].now
      BY <3>2 DEF Call
    <3>5. call'[s].reason = "AUTHORIZED" <=>
             st = "ACTIVE" /\ Permitted(call[s].agent, call[s].principal, call[s].evidence,
                                        call[s].action, call[s].now)
      BY <3>2, <3>3, <3>4, AuthorizeIsExact DEF StateTyped
    <3>6. e = parties[s].evidence
      BY <3>1, <3>4 DEF Shared, Heard, Asking
    <3>7. t \in Moments(s)' /\ UnderWay(s)
      <4>1. call'[s] # None
        BY <3>3, NoneAssumption
      <4> QED BY <3>1, <3>3, <3>4, <4>1 DEF Moments, UnderWay, Final, Asking
    <3>8. AllGrants' = AllGrants
      BY <3>1 DEF AllGrants
    <3>9. ASSUME call'[s].reason = "AUTHORIZED"
          PROVE  /\ <<"active", e>> \in ever'[s]
                 /\ stage[s] = "sender asked" => <<"sender", e>> \in ever'[s]
                 /\ stage[s] # "sender asked" => <<"consumer", e>> \in ever'[s]
      <4>1. <<"active", e>> \in ever'[s]
        BY <1>2, <3>1, <3>4, <3>5, <3>6, <3>9 DEF Shared, Known, Asking
      <4>2. CASE stage[s] = "sender asked"
        <5>1. Permitted(parties[s].from, parties[s].principal, e, "share", t)
          BY <3>4, <3>5, <3>9, <4>2 DEF Shared, Heard
        <5>p. PermittedAll(parties[s].from, parties[s].principal, e, Reach(e), "share", t)
          BY <5>1, ReachIsPermitted DEF Typed
        <5>2. PermittedAll(parties[s].from, parties[s].principal, e, Reach(e), "share", t)'
          BY <3>1, <3>8, <5>p DEF PermittedAll
        <5>3. <<"sender", e>> \in ever'[s]
          BY <3>1, <3>6, <3>7, <5>2, SeenSender
        <5> QED BY <4>1, <4>2, <5>3
      <4>3. CASE stage[s] # "sender asked"
        <5>1. Permitted(parties[s].to, None, e, "consume", t)
          BY <3>1, <3>4, <3>5, <3>9, <4>3 DEF Shared, Heard, Asking
        <5>2. MayConsume(s, e, t)'
          BY <3>1, <3>8, <5>1 DEF Permitted, PermittedAll, MayConsume
        <5>3. <<"consumer", e>> \in ever'[s]
          BY <3>1, <3>6, <3>7, <5>2, SeenConsumer
        <5> QED BY <4>1, <4>3, <5>3
      <4> QED BY <4>2, <4>3
    <3> HIDE DEF st
    <3>10. Heard(s)'
      BY <3>1, <3>3 DEF Shared, Heard, Asking
    <3>11. Known(s)'
      BY <1>2, <2>2, <3>1, <3>6, <3>9 DEF Shared, Known, MayGive, PastSender, Asking
    <3>12. Given(s)'
      BY <1>2, <2>1, <3>1, GivenKept DEF Shared, Asking, Final
    <3> QED BY <3>10, <3>11, <3>12 DEF Shared
  <2>5. CASE SenderDecided(s)
    <3>1. stage[s] = "sender decided" /\ UNCHANGED <<reading, parties, grants>>
      BY <2>5 DEF SenderDecided
    <3>2. CASE SenderMay(s)
      <4>1. /\ stage'[s] = "recipient asked" /\ MayGive(s)
            /\ Ask(s, parties[s].to, None, parties[s].evidence, "consume")
        BY <2>5, <3>1, <3>2 DEF SenderDecided, SenderMay, AskRecipient, Goto, StateTyped, Shared, Known
      <4>2. /\ call'[s].agent = parties[s].to /\ call'[s].principal = None
            /\ call'[s].evidence = parties[s].evidence /\ call'[s].action = "consume"
        BY <4>1 DEF Ask, StateTyped
      <4>3. Heard(s)' /\ Known(s)'
        BY <2>2, <3>1, <4>1, <4>2 DEF Heard, Known, PastSender
      <4>4. Given(s)'
        BY <1>2, <2>1, <3>1, GivenKept DEF Shared, Final
      <4> QED BY <4>3, <4>4 DEF Shared
    <3>3. CASE ~SenderMay(s)
      <4>1. stage'[s] = "refused"
        BY <2>5, <3>3 DEF SenderDecided, Finish, Goto, StateTyped
      <4>2. Heard(s)' /\ Known(s)'
        BY <2>2, <3>1, <4>1 DEF Heard, Known, PastSender
      <4>3. Given(s)'
        BY <1>2, <2>1, <3>1, GivenKept DEF Shared, Final
      <4> QED BY <4>2, <4>3 DEF Shared
    <3> QED BY <3>2, <3>3
  <2>6. CASE RecipientDecided(s)
    <3>1. stage[s] = "recipient decided" /\ UNCHANGED <<reading, grants>>
      BY <2>6 DEF RecipientDecided
    <3>2. parties'[s].to = parties[s].to /\ parties'[s].evidence = parties[s].evidence
      <4>1. parties'[s] = parties[s] \/ parties'[s] = [parties[s] EXCEPT !.now = clock]
        BY <2>6 DEF RecipientDecided, StateTyped
      <4>2. parties[s] \in Orders
        BY <1>3, <3>1
      <4> QED BY <4>1, <4>2 DEF Orders
    <3>3. /\ stage'[s] \in {"granting", "shared", "refused"} /\ MayGive(s)
          /\ stage'[s] = "shared" => call[s].reason = "AUTHORIZED"
      BY <2>6, <3>1 DEF RecipientDecided, Finish, Goto, StateTyped, Shared, Known, PastSender
    <3>4. Heard(s)' /\ Known(s)'
      BY <1>2, <2>2, <3>1, <3>2, <3>3 DEF Shared, Heard, Known, PastSender
    <3>5. Given(s)'
      BY <1>2, <2>1, <3>1, <3>2, GivenKept DEF Shared, Final
    <3> QED BY <3>4, <3>5 DEF Shared
  <2>7. CASE IssueToRecipient(s)
    <3> DEFINE scopes == RequiredScopes[parties[s].evidence]
               g == [agent |-> parties[s].to, principal |-> None, covers |-> Matches[scopes[position[s]]],
                     action |-> "consume", from |-> parties[s].now, until |-> Forever,
                     closed |-> FALSE, by |-> s]
    <3>1. /\ stage[s] = "granting" /\ position[s] <= Len(scopes) /\ Issue(g)
          /\ UNCHANGED <<stage, reading, call, parties>>
      BY <2>7 DEF IssueToRecipient
    <3>2. /\ g.agent = parties[s].to /\ g.principal = None /\ g.action = "consume"
          /\ g.covers = Matches[scopes[position[s]]]
      OBVIOUS
    <3>3. scopes[position[s]] \in Range(scopes)
      <4>1. scopes \in Seq(Scopes)
        BY <1>3, <3>1, BrokerAssumption DEF Orders
      <4>2. position[s] \in DOMAIN scopes
        BY <3>1, <4>1 DEF StateTyped
      <4> QED BY <4>2 DEF Range
    <3>4. Narrow(s, g)
      BY <3>2, <3>3 DEF Narrow, Reach
    <3>5. grants \in Seq(Grant) /\ grants' = Append(grants, g)
      BY <3>1 DEF Issue, StateTyped
    <3> HIDE DEF g
    <3>6. \A h \in AllGrants' : h \in AllGrants \/ h = g
      <4>1. \A i \in DOMAIN grants' : (i \in DOMAIN grants /\ grants'[i] = grants[i]) \/ grants'[i] = g
        BY <3>5
      <4> QED BY <4>1 DEF AllGrants
    <3>7. Heard(s)' /\ Known(s)' /\ MayGive(s)'
      BY <1>2, <2>2, <3>1 DEF Shared, Heard, Known, PastSender
    <3>8. ASSUME NEW h \in AllGrants', h.by = s PROVE Narrow(s, h)'
      BY <3>1, <3>4, <3>6, <3>8 DEF Shared, Given, Narrow
    <3> QED BY <3>1, <3>7, <3>8 DEF Shared, Given
  <2>8. CASE AskAgain(s)
    <3>1. /\ stage[s] = "granting" /\ stage'[s] = "again asked" /\ UNCHANGED <<reading, parties, grants>>
          /\ Ask(s, parties[s].to, None, parties[s].evidence, "consume")
      BY <2>8 DEF AskAgain, AskRecipient, Goto, StateTyped
    <3>2. /\ call'[s].agent = parties[s].to /\ call'[s].principal = None
          /\ call'[s].evidence = parties[s].evidence /\ call'[s].action = "consume"
      BY <3>1 DEF Ask, StateTyped
    <3>3. Heard(s)' /\ Known(s)'
      BY <2>2, <3>1, <3>2 DEF Shared, Heard, Known, PastSender
    <3>4. Given(s)'
      BY <1>2, <2>1, <3>1, GivenKept DEF Shared
    <3> QED BY <3>3, <3>4 DEF Shared
  <2>9. CASE DecidedAgain(s)
    <3>1. /\ stage[s] = "again decided" /\ UNCHANGED <<reading, parties, grants>>
          /\ stage'[s] \in {"shared", "refused"}
          /\ stage'[s] = "shared" => call[s].reason = "AUTHORIZED"
      BY <2>9 DEF DecidedAgain, Finish, Goto, StateTyped
    <3>2. Heard(s)' /\ Known(s)'
      BY <1>2, <2>2, <3>1 DEF Shared, Heard, Known, PastSender
    <3>3. Given(s)'
      BY <1>2, <2>1, <3>1, GivenKept DEF Shared, Final
    <3> QED BY <3>2, <3>3 DEF Shared
  <2>10. CASE ShareFails(s)
    <3>1. stage[s] # "new" /\ stage'[s] = "failed" /\ UNCHANGED <<reading, parties, grants>>
      BY <2>10 DEF ShareFails, Finish, Goto, StateTyped
    <3>2. Heard(s)' /\ Known(s)'
      BY <2>2, <3>1 DEF Heard, Known, PastSender
    <3>3. Given(s)'
      BY <1>2, <2>1, <3>1, GivenKept DEF Shared, Final
    <3> QED BY <3>2, <3>3 DEF Shared
  <2> QED BY <2>3, <2>4, <2>5, <2>6, <2>7, <2>8, <2>9, <2>10 DEF ShareStep
<1>8. ASSUME NEW q \in Shares, ShareStep(q), q # s PROVE Shared(s)'
  BY <1>1, <1>4, <1>8, ShareFrame
<1>9. ASSUME NEW r \in Runs, Step(r) PROVE Shared(s)'
  BY <1>1, <1>4, <1>9, StepFrame
<1> QED BY <1>5, <1>6, <1>7, <1>8, <1>9, Ways

\* A share gives its recipient what its sender might share, and no more, also where a scope
\* matches others when the grant takes it for a pattern: what the grant covers the sender
\* might share, together with the Evidence, while that was active.  A share that succeeds
\* leaves a recipient who might consume: for any scopes, shares, builds, failing writes and
\* crashes.
THEOREM SharesBacked == Spec => []ShareIsBacked
<1>1. ASSUME Init, NEW s \in Shares PROVE Shared(s)
  <2>1. stage[s] = "new"
    BY <1>1 DEF Init, Callers
  <2>2. \A g \in AllGrants : g.by # s
    BY <1>1, BrokerAssumption DEF Init, AllGrants
  <2> QED BY <2>1, <2>2 DEF Shared, Heard, Known, Given, PastSender
<1>2. Init => \A s \in Shares : Shared(s)
  BY <1>1
<1>3. Typed /\ (\A s \in Shares : Shared(s)) /\ [Next]_vars => (Typed /\ \A s \in Shares : Shared(s))'
  BY TypeStep, SharedStep
<1>4. (\A s \in Shares : Shared(s)) => ShareIsBacked
  BY DEF Shared, Known, Given, MayGive, Narrow, PastSender, ShareIsBacked
<1> QED BY TypeInit, <1>2, <1>3, <1>4, PTL DEF Spec

(***************************************************************************)
(* The Evidence that builds and shares see is that of EvidenceStore: they  *)
(* are proved against nothing it cannot do, and against all that it can.   *)
(***************************************************************************)
LEMMA StoreMoves ==
    ASSUME NEW e \in Evidence
    PROVE  /\ Commit(e) => Promise!Commit(e)
           /\ End(e) => Promise!Supersede(e) \/ Promise!End(e)
<1> DEFINE none == [x \in Evidence |-> {}]
<1>1. [none EXCEPT ![e] = {}] = none
  OBVIOUS
<1>2. ASSUME Commit(e) PROVE Promise!Commit(e)
  <2>1. none' = [none EXCEPT ![e] = {}]
    BY <1>1
  <2> QED BY <1>2, <2>1 DEF Commit, Promise!Commit, Promise!Recorded
<1>3. ASSUME End(e) PROVE Promise!Supersede(e) \/ Promise!End(e)
  BY <1>3 DEF End, Promise!Supersede, Promise!End, Promise!Recorded
<1> QED BY <1>2, <1>3

\* Whatever the Evidence store may do next it may do between any two awaits of a build or a
\* share, as long as the bound on such changes allows one more.
THEOREM StoreIsFree ==
    ASSUME Promise!Next, Change, UNCHANGED <<grants, clock, Others>>, Observe
    PROVE  Next
<1>1. PICK e \in Evidence : Promise!Commit(e) \/ Promise!Supersede(e) \/ Promise!End(e)
  BY DEF Promise!Next
<1>2. Commit(e) \/ End(e)
  BY <1>1 DEF Commit, End, Promise!Commit, Promise!Supersede, Promise!End, Promise!Recorded
<1> QED BY <1>2 DEF Next

\* Every step of builds, shares, grants and mishaps is one of the Evidence store's or leaves
\* it alone.
THEOREM BrokerRefinesStore == Spec => RefinesStore
<1>1. Init => Promise!Init
  BY DEF Init, Promise!Init
<1>2. ASSUME [Next]_vars PROVE [Promise!Next]_(Promise!vars)
  <2>1. CASE status' = status
    BY <2>1 DEF Promise!vars
  <2>2. CASE \E e \in Evidence : Commit(e) \/ End(e)
    BY <2>2, StoreMoves DEF Promise!Next
  <2>3. status' = status \/ \E e \in Evidence : Commit(e) \/ End(e)
    BY <1>2 DEF Next, IssueGrant, RevokeGrant, Tick, Crash, vars
  <2> QED BY <2>1, <2>2, <2>3
<1> QED BY <1>1, <1>2, PTL DEF Spec, RefinesStore, Promise!Spec
=============================================================================
