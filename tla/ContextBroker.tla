---------------------------- MODULE ContextBroker ----------------------------
(***************************************************************************)
(* ContextBroker: the capsule of a Run is built from one reading of the    *)
(* Evidence, whose candidates are authorized one after the other, each     *)
(* against the grants of that moment.  Meanwhile Evidence is committed and *)
(* ended, grants are issued, closed and expire, and ShareService issues    *)
(* grants to the recipient of a share.  Appends may fail; the server may   *)
(* die.  What was decided, granted and saved is on disk.                   *)
(*                                                                         *)
(* Claims, labels and hashes are left out, and a resource pattern is the   *)
(* set of scopes it matches.  A scope is a pattern itself where a share    *)
(* stores it as one: no scope is refused for what it would match.  The     *)
(* stores have been read once before anything is written to them.          *)
(***************************************************************************)
EXTENDS Naturals, FiniteSets, SequencesExt

CONSTANTS
    Runs, Shares, Agents, Principals, Scopes, Candidates,
    None,
    Everyone,       \* agentId "*"
    RunInputs,      \* the Agents that execute Runs, and on whose behalf, or None
    RequiredScopes, \* Evidence -> its scopes, in their order
    Matches,        \* Scope -> the scopes it matches where it is taken for a pattern
    Level,          \* Evidence -> CLASSIFICATION_ORDER of its classification
    Ceiling,        \* Agent -> the highest level it may consume
    DenyAgents,     \* policy.denyAgentIds
    Topic,          \* Evidence -> <<subjectKey, predicate>>, or None
    ClaimHash,
    Granted,        \* the grants at the start
    Offers,         \* what an operator may ask to be granted
    ShareInputs,    \* what a share may be asked for
    Existing,       \* the Evidence at the start
    MaxGrants, MaxClock,
    MaxChanges,     \* bound: requests that change grants or Evidence
    MaxFaults       \* bound: writes that fail, and crashes

\* The store's order is that of Candidates.
Evidence == {Candidates[i] : i \in DOMAIN Candidates}
Callers  == Runs \cup Shares
Actions  == {"consume", "share"}
Statuses == {"none", "ACTIVE", "SUPERSEDED", "REVOKED", "COMPROMISED"}
Forever  == MaxClock + 1
Times    == 0 .. MaxClock

\* What a pattern matches: with a scope, all that this one would match.  A `*` in the text
\* of a scope is matched by a `*` of the pattern, which matches what may stand there, too.
Patterns == {c \in SUBSET Scopes : \A scope \in c : Matches[scope] \subseteq c}

Requests == [agent : Agents \cup {Everyone}, principal : Principals \cup {None},
             covers : Patterns, action : Actions, until : 0 .. Forever]
Grant    == [agent : Agents \cup {Everyone}, principal : Principals \cup {None},
             covers : Patterns, action : Actions, from : Times,
             until : 0 .. Forever, closed : BOOLEAN, by : Shares \cup {None}]
Executors == [agent : Agents, principal : Principals \cup {None}]
Orders   == [from : Agents, to : Agents, evidence : Evidence, principal : Principals \cup {None},
             now : Times]
Inputs   == [from : Agents, to : Agents, evidence : Evidence, principal : Principals \cup {None}]

ASSUME BrokerAssumption ==
    /\ Runs \cap Shares = {}
    /\ None \notin Principals \cup Shares
    /\ RunInputs \subseteq Executors /\ ShareInputs \subseteq Inputs
    /\ Candidates \in Seq(Evidence)
    /\ RequiredScopes \in [Evidence -> Seq(Scopes)]
    /\ Matches \in [Scopes -> Patterns] /\ \A scope \in Scopes : scope \in Matches[scope]
    /\ Level \in [Evidence -> Nat] /\ Ceiling \in [Agents -> Nat]
    /\ Granted \in Seq(Grant) /\ Len(Granted) <= MaxGrants
    /\ \A i \in DOMAIN Granted : Granted[i].by = None
    /\ Offers \subseteq Requests /\ Existing \subseteq Evidence
    /\ MaxGrants \in Nat /\ MaxClock \in Nat /\ MaxChanges \in Nat /\ MaxFaults \in Nat

Reasons == {"AUTHORIZED", "POLICY_DENIED", "SUPERSEDED", "REVOKED", "COMPROMISED",
            "CLASSIFICATION_DENIED", "GRANT_EXPIRED", "AGENT_SCOPE_MISSING",
            "PRINCIPAL_SCOPE_MISSING"}

VARIABLES
    status,    \* Evidence -> the status of its current version
    grants,    \* grants.json
    decisions, \* decisions.json
    file,      \* Run -> its capsule file, or None
    index,     \* index.json: the Runs whose capsule can be looked up
    question,  \* Runs with a clarification request
    stage,     \* where each build and each share stands
    reading,   \* the statuses a caller has read
    position,  \* build: the candidate under way; share: the scope
    call,      \* the call of authorize under way
    allowed, denied,  \* build: the candidates decided so far
    parties,   \* build: RunInputs; share: its input, and the time it issues grants at
    clock, faults, changes,
    ever, always   \* history: what held at a moment, and throughout, since p began

onDisk == <<decisions, file, index, question>>
memory == <<stage, reading, position, call, allowed, denied, parties>>
vars   == <<status, grants, onDisk, memory, clock, faults, changes, ever, always>>

Decision == [by : Callers, agent : Agents, principal : Principals \cup {None},
             evidence : Evidence, action : Actions, reason : Reasons]
Call     == [agent : Agents, principal : Principals \cup {None}, evidence : Evidence,
             action : Actions, now : Times, reason : Reasons \cup {None}]
Capsule  == [evidence : SUBSET Evidence, denied : SUBSET Evidence]
Facts    == {"active", "consumer", "sender"} \X Evidence

Final    == {"denied", "question", "ok", "refused", "shared", "failed", "lost"}
Building == {"listed", "asked", "decided", "clear", "written"}
Sharing  == {"sender asked", "sender decided", "recipient asked", "recipient decided",
             "granting", "again asked", "again decided"}

ASSUME NoneAssumption == \A c \in Capsule \cup Call : c # None

\* All but the history.
StateTyped ==
    /\ status \in [Evidence -> Statuses]
    /\ grants \in Seq(Grant) /\ Len(grants) <= MaxGrants
    /\ decisions \in SUBSET Decision
    /\ file \in [Runs -> Capsule \cup {None}]
    /\ index \in SUBSET Runs /\ question \in SUBSET Runs
    /\ stage \in [Callers -> {"new"} \cup Building \cup Sharing \cup Final]
    /\ reading \in [Callers -> [Evidence -> Statuses]]
    /\ position \in [Callers -> Nat \ {0}]
    /\ call \in [Callers -> Call \cup {None}]
    /\ allowed \in [Runs -> SUBSET Evidence] /\ denied \in [Runs -> SUBSET Evidence]
    /\ parties \in [Callers -> Executors \cup Orders \cup {None}]
    /\ \A r \in Runs : parties[r] \in Executors \cup {None}
    /\ \A s \in Shares : parties[s] \in Orders \cup {None}
    /\ clock \in Times /\ faults \in 0 .. MaxFaults /\ changes \in 0 .. MaxChanges

TypeOK ==
    /\ StateTyped
    /\ ever \in [Callers -> SUBSET Facts] /\ always \in [Runs -> SUBSET Facts]

Nothing == [e \in Evidence |-> "none"]

Init ==
    /\ status = [e \in Evidence |-> IF e \in Existing THEN "ACTIVE" ELSE "none"]
    /\ grants = Granted
    /\ decisions = {} /\ index = {} /\ question = {}
    /\ file = [r \in Runs |-> None]
    /\ stage = [p \in Callers |-> "new"]
    /\ reading = [p \in Callers |-> Nothing]
    /\ position = [p \in Callers |-> 1]
    /\ call = [p \in Callers |-> None]
    /\ allowed = [r \in Runs |-> {}] /\ denied = [r \in Runs |-> {}]
    /\ parties = [p \in Callers |-> None]
    /\ clock = 0 /\ faults = 0 /\ changes = 0
    /\ ever = [p \in Callers |-> {}] /\ always = [r \in Runs |-> {"active", "consumer"} \X Evidence]

(***************************************************************************)
(* GrantStore: a grant is added, or closed once.                           *)
(***************************************************************************)
Issue(g)  == Len(grants) < MaxGrants /\ grants' = Append(grants, g)
Revoke(i) == ~grants[i].closed /\ grants' = [grants EXCEPT ![i].closed = TRUE]

(***************************************************************************)
(* AuthorizationEvaluatorImpl.authorize.                                   *)
(***************************************************************************)
AllGrants == {grants[i] : i \in DOMAIN grants}

\* listFor.  A grant without a principal is the Agent's, and not the principal's.
IsUsableBy(g, agent, principal) ==
    IF g.principal = None THEN g.agent = agent
                          ELSE g.principal = principal /\ g.agent \in {Everyone, agent}
AgentGrants(c)     == {g \in AllGrants : IsUsableBy(g, c.agent, c.principal) /\ g.principal = None}
PrincipalGrants(c) == {g \in AllGrants : IsUsableBy(g, c.agent, c.principal) /\ g.principal # None}

\* Mutant: a closed grant counts until it expires.
IsValidNow_Closed(g, now) == g.from <= now /\ now < g.until
IsValidNow(g, now) == ~g.closed /\ g.from <= now /\ now < g.until

Covering(gs, action, scope) == {g \in gs : g.action = action /\ scope \in g.covers}

\* The scopes, by position, that no valid grant covers.
Uncovered(gs, c) ==
    {i \in DOMAIN RequiredScopes[c.evidence] :
        \A g \in Covering(gs, c.action, RequiredScopes[c.evidence][i]) : ~IsValidNow(g, c.now)}

\* The first scope that fails gives the reason; an empty leg is satisfied.
Leg(gs, c, missing) ==
    LET fails == Uncovered(gs, c)
        foremost == CHOOSE i \in fails : \A j \in fails : i <= j
    IN  IF fails = {} THEN "AUTHORIZED"
        ELSE IF Covering(gs, c.action, RequiredScopes[c.evidence][foremost]) # {}
             THEN "GRANT_EXPIRED" ELSE missing

\* Mutant: the leg's reason is not told apart by leg.
AgentLeg_Unnamed(c) == Leg(AgentGrants(c), c, "SCOPE_MISSING")
AgentLeg(c) == Leg(AgentGrants(c), c, "AGENT_SCOPE_MISSING")
PrincipalLeg(c) ==
    IF c.principal = None THEN "AUTHORIZED"
                          ELSE Leg(PrincipalGrants(c), c, "PRINCIPAL_SCOPE_MISSING")

\* The precedence of the reasons, for Evidence read with status st.
ReasonFor(c, st) ==
    IF c.agent \in DenyAgents THEN "POLICY_DENIED"
    ELSE IF st # "ACTIVE" THEN st
    ELSE IF Level[c.evidence] > Ceiling[c.agent] THEN "CLASSIFICATION_DENIED"
    ELSE IF AgentLeg(c) # "AUTHORIZED" THEN AgentLeg(c)
    ELSE PrincipalLeg(c)

\* The call takes its `now` before it waits for the grants.
Ask(p, agent, principal, e, action) ==
    call' = [call EXCEPT ![p] = [agent |-> agent, principal |-> principal, evidence |-> e,
                                 action |-> action, now |-> clock, reason |-> None]]

Decide(p) ==
    call' = [call EXCEPT ![p].reason = ReasonFor(call[p], reading[p][call[p].evidence])]

DecisionOf(p) ==
    [by |-> p, agent |-> call[p].agent, principal |-> call[p].principal,
     evidence |-> call[p].evidence, action |-> call[p].action, reason |-> call[p].reason]

\* appendDecision has persisted.  Mutant: a denial is not recorded.
AppendDecision_AllowOnly(p) ==
    decisions' = IF call[p].reason = "AUTHORIZED" THEN decisions \cup {DecisionOf(p)} ELSE decisions
AppendDecision(p) == decisions' = decisions \cup {DecisionOf(p)}

Goto(p, s) == stage' = [stage EXCEPT ![p] = s]
Finish(p, s) == Goto(p, s) /\ call' = [call EXCEPT ![p] = None]

(***************************************************************************)
(* ContextBrokerImpl.build.                                                *)
(***************************************************************************)
\* The candidates read exist; the next one from position i on, if any.
NextFrom(r, i) == {j \in i .. Len(Candidates) : reading[r][Candidates[j]] # "none"}

Build(r) ==
    /\ stage[r] = "new"
    /\ \E i \in RunInputs :
          /\ parties' = [parties EXCEPT ![r] = i]
          /\ \/ i.agent \in DenyAgents /\ Goto(r, "denied") /\ UNCHANGED reading
             \/ i.agent \notin DenyAgents /\ Goto(r, "listed")
                /\ reading' = [reading EXCEPT ![r] = status]
    /\ UNCHANGED <<position, call, allowed, denied, onDisk, faults>>

AskNext(r) ==
    /\ stage[r] = "listed"
    /\ \E j \in NextFrom(r, position[r]) :
          /\ \A i \in NextFrom(r, position[r]) : j <= i
          /\ Ask(r, parties[r].agent, parties[r].principal, Candidates[j], "consume")
          /\ position' = [position EXCEPT ![r] = j + 1]
    /\ Goto(r, "asked")
    /\ UNCHANGED <<reading, allowed, denied, parties, onDisk, faults>>

DecideNext(r) ==
    /\ stage[r] = "asked"
    /\ Decide(r) /\ Goto(r, "decided")
    /\ UNCHANGED <<reading, position, allowed, denied, parties, onDisk, faults>>

Collect(r) ==
    /\ stage[r] = "decided"
    /\ AppendDecision(r)
    /\ IF call[r].reason = "AUTHORIZED"
       THEN allowed' = [allowed EXCEPT ![r] = @ \cup {call[r].evidence}] /\ UNCHANGED denied
       ELSE denied' = [denied EXCEPT ![r] = @ \cup {call[r].evidence}] /\ UNCHANGED allowed
    /\ Finish(r, "listed")
    /\ UNCHANGED <<reading, position, parties, file, index, question, faults>>

\* ClarificationStoreImpl.save; nothing in the server resolves a request.
SaveQuestion(r) == question' = question \cup {r}

\* detectConflicts.
Conflicts(es) ==
    {pair \in es \X es : /\ Topic[pair[1]] # None /\ Topic[pair[1]] = Topic[pair[2]]
                         /\ ClaimHash[pair[1]] # ClaimHash[pair[2]]}

Clarify(r) ==
    /\ stage[r] = "listed" /\ NextFrom(r, position[r]) = {}
    /\ Conflicts(allowed[r]) # {}
    /\ SaveQuestion(r)
    /\ Goto(r, "question")
    /\ UNCHANGED <<reading, position, call, allowed, denied, parties, decisions, file, index, faults>>

\* The governance head is read; then save waits for its turn.
HeadRead(r) ==
    /\ stage[r] = "listed" /\ NextFrom(r, position[r]) = {}
    /\ Conflicts(allowed[r]) = {}
    /\ Goto(r, "clear")
    /\ UNCHANGED <<reading, position, call, allowed, denied, parties, onDisk, faults>>

\* save writes the capsule's file, and after it the index.
SaveCapsule(r) ==
    /\ stage[r] = "clear"
    /\ file[r] = None /\ r \notin index
    /\ file' = [file EXCEPT ![r] = [evidence |-> allowed[r], denied |-> denied[r]]]
    /\ Goto(r, "written")
    /\ UNCHANGED <<reading, position, call, allowed, denied, parties, decisions, index, question, faults>>

SaveIndex(r) ==
    /\ stage[r] = "written"
    /\ index' = index \cup {r}
    /\ Goto(r, "ok")
    /\ UNCHANGED <<reading, position, call, allowed, denied, parties, decisions, file, question, faults>>

\* A write fails (of a decision, the clarification, the capsule or the index), or
\* the reading of the governance chain.
BuildFails(r) ==
    /\ stage[r] \in {"listed", "decided", "clear", "written"}
    /\ faults < MaxFaults /\ faults' = faults + 1
    /\ Finish(r, "failed")
    /\ UNCHANGED <<reading, position, allowed, denied, parties, onDisk>>

(***************************************************************************)
(* ShareServiceImpl.share.  The Evidence is read once; both parties are    *)
(* authorized for what was read.                                           *)
(***************************************************************************)
Share(s) ==
    /\ stage[s] = "new"
    /\ \E i \in ShareInputs :
          /\ status[i.evidence] # "none"
          /\ parties' = [parties EXCEPT ![s] =
                 [from |-> i.from, to |-> i.to, evidence |-> i.evidence,
                  principal |-> i.principal, now |-> clock]]
          /\ Ask(s, i.from, i.principal, i.evidence, "share")
          /\ reading' = [reading EXCEPT ![s][i.evidence] = status[i.evidence]]
    /\ Goto(s, "sender asked")
    /\ UNCHANGED <<position, allowed, denied, onDisk, grants, faults>>

ShareDecides(s) ==
    /\ \/ stage[s] = "sender asked" /\ Goto(s, "sender decided")
       \/ stage[s] = "recipient asked" /\ Goto(s, "recipient decided")
       \/ stage[s] = "again asked" /\ Goto(s, "again decided")
    /\ Decide(s)
    /\ UNCHANGED <<reading, position, allowed, denied, parties, onDisk, grants, faults>>

AskRecipient(s) == Ask(s, parties[s].to, None, parties[s].evidence, "consume")

\* Mutant: the sender's decision is not looked at.
SenderMay_Always(s) == TRUE
SenderMay(s) == call[s].reason = "AUTHORIZED"

SenderDecided(s) ==
    /\ stage[s] = "sender decided"
    /\ AppendDecision(s)
    /\ IF SenderMay(s) THEN AskRecipient(s) /\ Goto(s, "recipient asked")
                       ELSE Finish(s, "refused")
    /\ UNCHANGED <<reading, position, allowed, denied, parties, file, index, question, grants, faults>>

\* What a share may make up for: the recipient lacks a grant.
Transferable == {"AGENT_SCOPE_MISSING", "GRANT_EXPIRED"}

RecipientDecided(s) ==
    /\ stage[s] = "recipient decided"
    /\ AppendDecision(s)
    /\ IF call[s].reason \in Transferable
       THEN /\ parties' = [parties EXCEPT ![s].now = clock]
            /\ Finish(s, "granting")
       ELSE /\ Finish(s, IF call[s].reason = "AUTHORIZED" THEN "shared" ELSE "refused")
            /\ UNCHANGED parties
    /\ UNCHANGED <<reading, position, allowed, denied, file, index, question, grants, faults>>

\* One grant for each scope, whose text is the pattern of the grant.
IssueToRecipient(s) ==
    LET scopes == RequiredScopes[parties[s].evidence]
    IN  /\ stage[s] = "granting" /\ position[s] <= Len(scopes)
        /\ Issue([agent |-> parties[s].to, principal |-> None, covers |-> Matches[scopes[position[s]]],
                  action |-> "consume", from |-> parties[s].now, until |-> Forever,
                  closed |-> FALSE, by |-> s])
        /\ position' = [position EXCEPT ![s] = @ + 1]
        /\ UNCHANGED <<stage, reading, call, allowed, denied, parties, onDisk, faults>>

AskAgain(s) ==
    /\ stage[s] = "granting" /\ position[s] > Len(RequiredScopes[parties[s].evidence])
    /\ AskRecipient(s) /\ Goto(s, "again asked")
    /\ UNCHANGED <<reading, position, allowed, denied, parties, onDisk, grants, faults>>

DecidedAgain(s) ==
    /\ stage[s] = "again decided"
    /\ AppendDecision(s)
    /\ Finish(s, IF call[s].reason = "AUTHORIZED" THEN "shared" ELSE "refused")
    /\ UNCHANGED <<reading, position, allowed, denied, parties, file, index, question, grants, faults>>

\* A decision or a grant cannot be written; the grants issued before it stay.
ShareFails(s) ==
    /\ stage[s] \in {"sender decided", "recipient decided", "granting", "again decided"}
    /\ faults < MaxFaults /\ faults' = faults + 1
    /\ Finish(s, "failed")
    /\ UNCHANGED <<reading, position, allowed, denied, parties, onDisk, grants>>

(***************************************************************************)
(* The routes that issue and revoke grants, the Evidence store and time.   *)
(***************************************************************************)
Others == <<onDisk, memory, faults>>

Change == changes < MaxChanges /\ changes' = changes + 1

IssueGrant ==
    /\ Change
    /\ \E o \in Offers :
          Issue([agent |-> o.agent, principal |-> o.principal, covers |-> o.covers,
                 action |-> o.action, from |-> clock, until |-> o.until,
                 closed |-> FALSE, by |-> None])
    /\ UNCHANGED <<status, clock, Others>>

\* A grant that is closed already is refused, and the route has the Agent's own only.
RevokeGrant(i) ==
    /\ Change
    /\ grants[i].agent # Everyone
    /\ Revoke(i)
    /\ UNCHANGED <<status, clock, Others>>

Commit(e) ==
    /\ Change
    /\ status[e] = "none"
    /\ status' = [status EXCEPT ![e] = "ACTIVE"]
    /\ UNCHANGED <<grants, clock, Others>>

\* Only what is active is replaced; it may be revoked or compromised in any status.
End(e) ==
    /\ Change
    /\ status[e] # "none"
    /\ \/ status[e] = "ACTIVE" /\ status' = [status EXCEPT ![e] = "SUPERSEDED"]
       \/ \E s \in {"REVOKED", "COMPROMISED"} : status' = [status EXCEPT ![e] = s]
    /\ UNCHANGED <<grants, clock, Others>>

Tick ==
    /\ clock < MaxClock
    /\ clock' = clock + 1
    /\ UNCHANGED <<status, grants, changes, Others>>

UnderWay(p) == stage[p] \notin {"new"} \cup Final

\* The server dies: builds and shares under way are never heard of again.
Crash ==
    /\ faults < MaxFaults /\ faults' = faults + 1
    /\ stage' = [p \in Callers |-> IF UnderWay(p) THEN "lost" ELSE stage[p]]
    /\ call' = [p \in Callers |-> None]
    /\ UNCHANGED <<status, grants, clock, changes, onDisk, reading, position, allowed, denied, parties>>

(***************************************************************************)
(* What holds at a moment: Evidence is active; by the grants of the moment *)
(* the one who is to consume it may, and the sender may share it, and with *)
(* it all that its scopes match.                                           *)
(***************************************************************************)
PermittedAll(agent, principal, e, scopes, action, t) ==
    /\ agent \notin DenyAgents /\ Level[e] <= Ceiling[agent]
    /\ \A scope \in scopes :
          \E g \in AllGrants : /\ g.agent = agent /\ g.principal = None
                               /\ g.action = action /\ scope \in g.covers
                               /\ ~g.closed /\ t \in g.from .. g.until - 1
    /\ principal # None =>
          \A scope \in scopes :
              \E g \in AllGrants : /\ g.agent \in {agent, Everyone} /\ g.principal = principal
                                   /\ g.action = action /\ scope \in g.covers
                                   /\ ~g.closed /\ t \in g.from .. g.until - 1

Permitted(agent, principal, e, action, t) ==
    PermittedAll(agent, principal, e, Range(RequiredScopes[e]), action, t)

Reach(e) == UNION {Matches[scope] : scope \in Range(RequiredScopes[e])}

MayConsume(p, e, t) ==
    IF p \in Runs THEN Permitted(parties[p].agent, parties[p].principal, e, "consume", t)
                  ELSE Permitted(parties[p].to, None, e, "consume", t)

Concerns(p) ==
    IF p \in Runs THEN {"active", "consumer"} \X Evidence
                  ELSE {"active", "consumer", "sender"} \X {parties[p].evidence}

Holds(p, f, t) ==
    CASE f[1] = "active"   -> status[f[2]] = "ACTIVE"
      [] f[1] = "consumer" -> MayConsume(p, f[2], t)
      [] f[1] = "sender"   ->
            PermittedAll(parties[p].from, parties[p].principal, f[2], Reach(f[2]), "share", t)

\* The time a call goes by is the one at which it was made.
Moments(p) == {clock} \cup (IF call[p] = None THEN {} ELSE {call[p].now})
Once(p)    == {f \in Concerns(p) : \E t \in Moments(p) : Holds(p, f, t)}
Still(p)   == {f \in Concerns(p) : \A t \in Moments(p) : Holds(p, f, t)}

Observe ==
    /\ ever' = [p \in Callers |-> IF UnderWay(p)' \/ UnderWay(p) THEN ever[p] \cup Once(p)' ELSE ever[p]]
    /\ always' = [r \in Runs |-> IF UnderWay(r)' \/ UnderWay(r) THEN always[r] \cap Still(r)' ELSE always[r]]

Step(r) ==
    /\ \/ Build(r) \/ AskNext(r) \/ DecideNext(r) \/ Collect(r) \/ Clarify(r)
       \/ HeadRead(r) \/ SaveCapsule(r) \/ SaveIndex(r) \/ BuildFails(r)
    /\ UNCHANGED grants

ShareStep(s) ==
    \/ Share(s) \/ ShareDecides(s) \/ SenderDecided(s) \/ RecipientDecided(s)
    \/ IssueToRecipient(s) \/ AskAgain(s) \/ DecidedAgain(s) \/ ShareFails(s)

Next ==
    /\ \/ (\E r \in Runs : Step(r)) /\ UNCHANGED <<status, clock, changes>>
       \/ (\E s \in Shares : ShareStep(s)) /\ UNCHANGED <<status, clock, changes>>
       \/ IssueGrant
       \/ \E i \in DOMAIN grants : RevokeGrant(i)
       \/ \E e \in Evidence : Commit(e) \/ End(e)
       \/ Tick
       \/ Crash
    /\ Observe

Spec == Init /\ [][Next]_vars

(***************************************************************************)
(* Properties.                                                             *)
(***************************************************************************)
\* INV-1/INV-8 as far as build keeps them: what a capsule contains was active, and
\* permitted by the grants of one moment, while the capsule was built; what was both
\* throughout is not missing; and no two of its claims contradict each other.
CapsuleIsExact ==
    \A r \in Runs : file[r] # None =>
        /\ {"active", "consumer"} \X file[r].evidence \subseteq ever[r]
        /\ \A e \in Evidence : {"active", "consumer"} \X {e} \subseteq always[r] => e \in file[r].evidence
        /\ \A e, f \in file[r].evidence : Topic[e] = Topic[f] =>
              Topic[e] = None \/ ClaimHash[e] = ClaimHash[f]

\* INV-2: a capsule that can be looked up is on disk, and so is a decision of its own
\* build for each candidate in it and each left out, whatever failed or crashed.
Decided(r, e) == {d \in decisions : d.by = r /\ d.evidence = e}
CapsuleIsBacked ==
    \A r \in index :
        /\ file[r] # None
        /\ \A e \in Evidence : \A d \in Decided(r, e) :
              e \in IF d.reason = "AUTHORIZED" THEN file[r].evidence ELSE file[r].denied
        /\ \A e \in file[r].evidence \cup file[r].denied : Decided(r, e) # {}

\* INV-3: a grant that a share issued gives its recipient nothing that the sender might
\* not have shared: while the share was under way the Evidence was active, and the sender
\* might share it and whatever its scopes match where the grants take them for patterns; the
\* grant covers no more than that.  A share that succeeds leaves a recipient who might
\* consume.
ShareIsBacked ==
    \A s \in Shares :
        /\ \A g \in AllGrants : g.by = s =>
              /\ {<<"active", parties[s].evidence>>, <<"sender", parties[s].evidence>>} \subseteq ever[s]
              /\ g.agent = parties[s].to /\ g.principal = None /\ g.action = "consume"
              /\ g.covers \subseteq Reach(parties[s].evidence)
        /\ stage[s] = "shared" => {<<"sender", parties[s].evidence>>, <<"consumer", parties[s].evidence>>} \subseteq ever[s]

(***************************************************************************)
(* EvidenceStore, which EvidenceWrite implements, without the derivations: *)
(* a build and a share look at none.                                       *)
(***************************************************************************)
Promise == INSTANCE EvidenceStore WITH derived <- [e \in Evidence |-> {}]

\* Evidence changes under a build or a share in no way that the Evidence store does not
\* promise.
RefinesStore == Promise!Spec
=============================================================================
