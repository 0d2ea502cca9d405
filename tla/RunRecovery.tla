------------------------------ MODULE RunRecovery ------------------------------
(***************************************************************************)
(* What becomes of Runs when Evidence they rest on is ended.  The revoke   *)
(* and compromise routes end Evidence, read the stores into a dependency   *)
(* graph, and tag the Runs they reach in it, one write each.  A tagged Run *)
(* may be reconciled: ReconciliationService starts a Run in its place,     *)
(* waits for the capsule, marks the old Run recovered and records the      *)
(* outcome, one request at a time.  Meanwhile Runs build capsules and      *)
(* produce Evidence, Agents are deleted, writes fail and the server dies.  *)
(*                                                                         *)
(* Whom a capsule's Evidence is granted to does not change here            *)
(* (ContextBroker), and whether sendMessage admits a Run is left open      *)
(* (AgentLifecycle).  A Run has one build, so one capsule.                 *)
(***************************************************************************)
EXTENDS Naturals, FiniteSets, SequencesExt

CONSTANTS
    Runs, Agents, Evidence, None,
    Requests,     \* what the revoke and compromise routes are asked, once each
    Reconciles,   \* of the reconcile route
    AgentOf,      \* Run -> its Agent
    Permitted,    \* Agent -> the Evidence it is granted
    Existing,     \* the Evidence at the start
    Past,         \* the Runs that have read it
    Sent,         \* the Runs that users start
    Proposals,    \* what Runs may write to the outbox
    MaxMishaps    \* bound: writes that fail, crashes, and Agents deleted

VARIABLES
    status,    \* Evidence -> the status of its current version
    producer,  \* Evidence -> its producerRunId, or None for a Run before these
    derived,   \* Evidence -> derivedFromEvidenceIds
    listed,    \* the Runs of the launchpad store
    gone,      \* the Agents deleted from it
    capsule,   \* Run -> the Evidence in its capsule file, or None
    index,     \* the Runs whose capsule can be looked up
    history,   \* Run -> its history in run-states.json
    records,   \* reconciliations.json
    build,     \* Run -> where the build of its capsule stands
    reading,   \* Run -> the Evidence read active for it
    route,     \* Request -> where it stands
    seen,      \* its snapshot of the Runs, and the capsules and Evidence read
    queue,     \* the reconciles under way, in their order
    stage,     \* Reconcile -> where it stands
    job,       \* the stale Run, the triggers read and the replacement
    mishaps,
    ended,     \* history: every end of Evidence
    due,       \* history: the Runs reachable at a Request's snapshot
    length     \* history: how long a Run's history was when its state was checked

stores == <<status, producer, derived>>
plane  == <<listed, gone>>
saved  == <<capsule, index>>
builds == <<build, reading>>
routes == <<route, seen>>
work   == <<queue, stage, job>>
ghosts == <<ended, due, length>>
vars   == <<stores, plane, saved, history, records, builds, routes, work, mishaps, ghosts>>

Ends    == {"REVOKED", "COMPROMISED"}
Entry   == [state : {"STALE", "TAINTED", "RECOVERED"}, trigger : Evidence \cup {None},
            by : Runs \cup {None}]
Reading == [runs : SUBSET Runs, capsules : SUBSET Runs, evidence : SUBSET Evidence,
            todo : SUBSET Runs]
Job     == [stale : Runs, triggers : SUBSET Evidence, replacement : Runs \cup {None}]
Record  == [id : Reconciles, stale : Runs, triggers : SUBSET Evidence, replacement : Runs,
            newCapsule : BOOLEAN, result : {"COMPLETED", "FAILED"}]
NotRead == [runs |-> {}, capsules |-> {}, evidence |-> {}, todo |-> {}]

ASSUME RecoveryAssumption ==
    /\ Proposals \subseteq [run : Runs, evidence : Evidence, contributors : SUBSET Evidence]
    /\ None \notin Runs \cup Evidence
    /\ (\A S \in SUBSET Evidence : S # None) /\ (\A j \in Job : j # None)
    /\ Runs \cap Evidence = {}
    /\ AgentOf \in [Runs -> Agents]
    /\ Permitted \in [Agents -> SUBSET Evidence]
    /\ Requests \subseteq [evidence : Evidence, end : {"REVOKED", "COMPROMISED"}]
    /\ Existing \subseteq Evidence /\ Past \cup Sent \subseteq Runs
    /\ MaxMishaps \in Nat
\* What a store has loaded is finite, and so the walk ends.
ASSUME FiniteAssumption == IsFiniteSet(Runs \cup Evidence)

Building    == {"admitted", "read", "written"}
Reconciling == {"queued", "checked", "starting", "polling", "unfound", "unrecovered", "recovered"}

TypeOK ==
    /\ status \in [Evidence -> {"none", "ACTIVE"} \cup Ends]
    /\ producer \in [Evidence -> Runs \cup {None}]
    /\ derived \in [Evidence -> SUBSET Evidence]
    /\ listed \in SUBSET Runs /\ gone \in SUBSET Agents
    /\ capsule \in [Runs -> (SUBSET Evidence) \cup {None}]
    /\ index \in SUBSET Runs
    /\ history \in [Runs -> Seq(Entry)]
    /\ records \in SUBSET Record
    /\ build \in [Runs -> {"new", "ok", "failed"} \cup Building]
    /\ reading \in [Runs -> SUBSET Evidence]
    /\ route \in [Requests -> {"new", "ended", "graph", "capsules", "evidence", "tagging",
                               "done", "failed"}]
    /\ seen \in [Requests -> Reading]
    /\ queue \in Seq(Reconciles)
    /\ stage \in [Reconciles -> {"new", "rejected", "failed", "completed"} \cup Reconciling]
    /\ job \in [Reconciles -> Job \cup {None}]
    /\ mishaps \in 0 .. MaxMishaps
    /\ ended \in SUBSET Requests
    /\ due \in [Requests -> SUBSET Runs]
    /\ length \in [Reconciles -> Nat]

Init ==
    /\ status = [e \in Evidence |-> IF e \in Existing THEN "ACTIVE" ELSE "none"]
    /\ producer = [e \in Evidence |-> None]
    /\ derived = [e \in Evidence |-> {}]
    /\ listed = Past /\ index = Past
    /\ gone = {} /\ records = {} /\ ended = {}
    /\ capsule = [r \in Runs |-> IF r \in Past THEN Existing \cap Permitted[AgentOf[r]] ELSE None]
    /\ history = [r \in Runs |-> << >>]
    /\ build = [r \in Runs |-> IF r \in Past THEN "ok" ELSE "new"]
    /\ reading = [r \in Runs |-> {}]
    /\ route = [q \in Requests |-> "new"]
    /\ seen = [q \in Requests |-> NotRead]
    /\ queue = << >>
    /\ stage = [c \in Reconciles |-> "new"]
    /\ job = [c \in Reconciles |-> None]
    /\ mishaps = 0
    /\ due = [q \in Requests |-> {}]
    /\ length = [c \in Reconciles |-> 0]

Active == {e \in Evidence : status[e] = "ACTIVE"}
Known  == {e \in Evidence : status[e] # "none"}
Mishap == mishaps < MaxMishaps /\ mishaps' = mishaps + 1

(***************************************************************************)
(* WalnutRunStateStore.                                                    *)
(***************************************************************************)
StateOf(r) == IF history[r] = << >> THEN "CLEAN" ELSE Last(history[r]).state

Recoverable == {"STALE", "TAINTED"}

Transition(r, state, trigger, by) ==
    history' = [history EXCEPT ![r] = Append(@, [state |-> state, trigger |-> trigger, by |-> by])]

(***************************************************************************)
(* The Runs: admitted, their capsule built and saved, their Evidence       *)
(* committed.  A capsule's file is written before the index.               *)
(***************************************************************************)
Admit(r) ==
    /\ build[r] = "new" /\ AgentOf[r] \notin gone
    /\ build' = [build EXCEPT ![r] = "admitted"]
    /\ listed' = listed \cup {r}
    /\ UNCHANGED <<reading, gone>>

SendMessage(r) ==
    /\ r \in Sent /\ Admit(r)
    /\ UNCHANGED <<stores, saved, history, records, routes, work, mishaps, ghosts>>

\* Mutant: Evidence is taken whatever its status.
Readable_AnyStatus == Known
Readable == Active

Read(r) ==
    /\ build[r] = "admitted"
    /\ build' = [build EXCEPT ![r] = "read"]
    /\ reading' = [reading EXCEPT ![r] = Readable \cap Permitted[AgentOf[r]]]
    /\ UNCHANGED <<stores, plane, saved, history, records, routes, work, mishaps, ghosts>>

WriteCapsule(r) ==
    /\ build[r] = "read"
    /\ build' = [build EXCEPT ![r] = "written"]
    /\ capsule' = [capsule EXCEPT ![r] = reading[r]]
    /\ reading' = [reading EXCEPT ![r] = {}]
    /\ UNCHANGED <<stores, plane, index, history, records, routes, work, mishaps, ghosts>>

WriteIndex(r) ==
    /\ build[r] = "written"
    /\ build' = [build EXCEPT ![r] = "ok"]
    /\ index' = index \cup {r}
    /\ UNCHANGED <<stores, plane, capsule, history, records, reading, routes, work, mishaps, ghosts>>

BuildFails(r) ==
    /\ build[r] \in Building
    /\ Mishap
    /\ build' = [build EXCEPT ![r] = "failed"]
    /\ reading' = [reading EXCEPT ![r] = {}]
    /\ UNCHANGED <<stores, plane, saved, history, records, routes, work, ghosts>>

\* The outbox of a Run that has run: a contributor must exist, in whatever status.
Commit(p) ==
    /\ status[p.evidence] = "none"
    /\ build[p.run] = "ok" /\ AgentOf[p.run] \notin gone
    /\ p.contributors \subseteq Known
    /\ derived' = [derived EXCEPT ![p.evidence] = p.contributors]
    /\ status' = [status EXCEPT ![p.evidence] = "ACTIVE"]
    /\ producer' = [producer EXCEPT ![p.evidence] = p.run]
    /\ UNCHANGED <<plane, saved, history, records, builds, routes, work, mishaps, ghosts>>

\* The Agent's executions are over before its Runs are purged; nothing else is.
Delete(a) ==
    /\ Mishap
    /\ a \notin gone
    /\ \A r \in Runs : AgentOf[r] = a => build[r] \notin Building
    /\ gone' = gone \cup {a}
    /\ listed' = {r \in listed : AgentOf[r] # a}
    /\ UNCHANGED <<stores, saved, history, records, builds, routes, work, ghosts>>

(***************************************************************************)
(* The graph, from readings that are not of one moment.  An edge needs     *)
(* both its ends: Runs of the snapshot, Evidence that was read.  A capsule *)
(* is its Run's, and Agents, sources and artifacts lead nowhere.  Edges    *)
(* are written in the direction of the walk.                               *)
(***************************************************************************)
Nodes(g) == g.runs \cup g.evidence

\* Mutant: a Run is reached if it has a capsule at all.
ContainsEvidence_Any(g) == g.evidence \X (g.runs \cap g.capsules)
ContainsEvidence(g) == 
    {edge \in g.evidence \X (g.runs \cap g.capsules) : edge[1] \in capsule[edge[2]]}

\* Mutant: what a Run has produced is not linked to it.
Produced_None(g) == {}
Produced(g) == {edge \in g.runs \X g.evidence : producer[edge[2]] = edge[1]}

DerivedFrom(g) == {edge \in g.evidence \X g.evidence : edge[1] \in derived[edge[2]]}

Edges(g) == ContainsEvidence(g) \cup Produced(g) \cup DerivedFrom(g)

\* One step of computeBlastRadius from what it has visited.
Visits(nodes, edges, visited) == {n \in nodes : \E m \in visited : <<m, n>> \in edges}

\* The queue of the walk is empty after as many steps as there are nodes.
Walk(g, e) ==
    LET nodes == Nodes(g)
        edges == Edges(g)
        visited[n \in 0 .. Cardinality(Runs \cup Evidence)] ==
            IF n = 0 THEN {e} ELSE visited[n-1] \cup Visits(nodes, edges, visited[n-1])
    IN  visited[Cardinality(Runs \cup Evidence)]

RunIds(g, e) == Walk(g, e) \cap Runs

(***************************************************************************)
(* What the walk is to find, by its definition: the least set with the     *)
(* Evidence in it that holds, with what it holds, the Runs that read it,   *)
(* and the Evidence they produced or that is derived from it.              *)
(***************************************************************************)
Closed(S, runs) ==
    /\ \A r \in runs : capsule[r] # None => (capsule[r] \cap S # {} => r \in S)
    /\ \A e \in Known : (derived[e] \cap S # {} \/ producer[e] \in S \cap runs) => e \in S

Affected(e, runs) ==
    {r \in runs : \A S \in SUBSET (Runs \cup Evidence) : e \in S /\ r \notin S => ~Closed(S, runs)}

(***************************************************************************)
(* The routes that revoke and compromise Evidence.                         *)
(***************************************************************************)
Goto(q, s) == route' = [route EXCEPT ![q] = s]

\* transitionEvidence takes Evidence of any status.
EndEvidence(q) ==
    /\ route[q] = "new"
    /\ status[q.evidence] # "none"
    /\ status' = [status EXCEPT ![q.evidence] = q.end]
    /\ ended' = ended \cup {q}
    /\ Goto(q, "ended")
    /\ UNCHANGED <<producer, derived, plane, saved, history, records, builds, seen, work, mishaps, due, length>>

\* The governance event is appended, and the launchpad store read.
Snapshot(q) ==
    /\ route[q] = "ended"
    /\ Goto(q, "graph")
    /\ seen' = [seen EXCEPT ![q].runs = listed]
    /\ due' = [due EXCEPT ![q] = Affected(q.evidence, listed)]
    /\ UNCHANGED <<stores, plane, saved, history, records, builds, work, mishaps, ended, length>>

\* The other stores are read side by side: capsule files, with or without an index entry.
\* When both are there, the graph is made and walked.
Arrives(q, g, next) ==
    LET todo == RunIds(g, q.evidence)
    IN  IF route[q] = "graph" THEN Goto(q, next) /\ seen' = [seen EXCEPT ![q] = g]
        ELSE /\ Goto(q, IF todo = {} THEN "done" ELSE "tagging")
             /\ seen' = [seen EXCEPT ![q] = [NotRead EXCEPT !.todo = todo]]

ReadCapsules(q) ==
    /\ route[q] \in {"graph", "evidence"}
    /\ Arrives(q, [seen[q] EXCEPT !.capsules = {r \in Runs : capsule[r] # None}], "capsules")
    /\ UNCHANGED <<stores, plane, saved, history, records, builds, work, mishaps, ghosts>>

ReadEvidence(q) ==
    /\ route[q] \in {"graph", "capsules"}
    /\ Arrives(q, [seen[q] EXCEPT !.evidence = Known], "evidence")
    /\ UNCHANGED <<stores, plane, saved, history, records, builds, work, mishaps, ghosts>>

\* tagBlastRadius: a Run is tagged whatever its state.
TagOf(q) == IF q.end = "COMPROMISED" THEN "TAINTED" ELSE "STALE"
Tag(q, r) ==
    /\ route[q] = "tagging" /\ r \in seen[q].todo
    /\ Transition(r, TagOf(q), q.evidence, None)
    /\ seen' = [seen EXCEPT ![q].todo = @ \ {r}]
    /\ Goto(q, IF seen[q].todo = {r} THEN "done" ELSE "tagging")
    /\ UNCHANGED <<stores, plane, saved, records, builds, work, mishaps, ghosts>>

\* The event or a tag cannot be written: what is left is not tagged.
RouteFails(q) ==
    /\ route[q] \in {"ended", "tagging"}
    /\ Mishap
    /\ Goto(q, "failed")
    /\ seen' = [seen EXCEPT ![q] = NotRead]
    /\ due' = [due EXCEPT ![q] = {}]
    /\ UNCHANGED <<stores, plane, saved, history, records, builds, work, ended, length>>

(***************************************************************************)
(* ReconciliationServiceImpl.reconcile.                                    *)
(***************************************************************************)
\* Mutant: requests do not wait for each other.
Turn_Any(c) == TRUE
Turn(c) == Head(queue) = c

At(c, s) == stage[c] = s /\ Turn(c)
Moves(c, s) == stage' = [stage EXCEPT ![c] = s] /\ UNCHANGED queue

\* A request that has failed does not keep the next one from its turn.
Answers(c, s) == stage' = [stage EXCEPT ![c] = s] /\ queue' = Tail(queue)

\* Nothing was started: the request throws.
Rejects(c) == Answers(c, "rejected") /\ job' = [job EXCEPT ![c] = None]

\* The route looks the Run up; the request is queued.
Reconcile(c) ==
    /\ stage[c] = "new"
    /\ \E r \in listed :
          job' = [job EXCEPT ![c] = [stale |-> r, triggers |-> {}, replacement |-> None]]
    /\ stage' = [stage EXCEPT ![c] = "queued"]
    /\ queue' = Append(queue, c)
    /\ UNCHANGED <<stores, plane, saved, history, records, builds, routes, mishaps, ghosts>>

Check(c) ==
    /\ At(c, "queued")
    /\ IF StateOf(job[c].stale) \in Recoverable
       THEN /\ Moves(c, "checked")
            /\ length' = [length EXCEPT ![c] = Len(history[job[c].stale])]
            /\ UNCHANGED job
       ELSE Rejects(c) /\ UNCHANGED length
    /\ UNCHANGED <<stores, plane, saved, history, records, builds, routes, mishaps, ended, due>>

\* The old capsule is looked up and the triggers of the history are read.
LookUp(c) ==
    /\ At(c, "checked")
    /\ IF job[c].stale \in index
       THEN /\ job' = [job EXCEPT ![c].triggers =
                          {h.trigger : h \in Range(history[job[c].stale])} \ {None}]
            /\ Moves(c, "starting")
       ELSE Rejects(c)
    /\ UNCHANGED <<stores, plane, saved, history, records, builds, routes, mishaps, ghosts>>

\* After the started event, sendMessage.
StartRun(c) ==
    /\ At(c, "starting")
    /\ \E r \in Runs :
          /\ AgentOf[r] = AgentOf[job[c].stale]
          /\ Admit(r)
          /\ job' = [job EXCEPT ![c].replacement = r]
    /\ Moves(c, "polling")
    /\ UNCHANGED <<stores, saved, history, records, routes, mishaps, ghosts>>

\* The event cannot be appended, or sendMessage refuses.
StartFails(c) ==
    /\ At(c, "starting")
    /\ Rejects(c)
    /\ UNCHANGED <<stores, plane, saved, history, records, builds, routes, mishaps, ghosts>>

\* The attempts may be over at any moment of the build.
PollFails(c) ==
    /\ At(c, "polling")
    /\ job[c].replacement \notin index
    /\ Moves(c, "unfound")
    /\ UNCHANGED <<stores, plane, saved, history, records, builds, routes, job, mishaps, ghosts>>

\* The capsule is there; the state is checked again in the transition.
MarkRecovered(c) ==
    /\ At(c, "polling")
    /\ job[c].replacement \in index
    /\ IF StateOf(job[c].stale) \in Recoverable
       THEN Transition(job[c].stale, "RECOVERED", None, job[c].replacement) /\ Moves(c, "recovered")
       ELSE Moves(c, "unrecovered") /\ UNCHANGED history
    /\ UNCHANGED <<stores, plane, saved, records, builds, routes, job, mishaps, ghosts>>

MarkRecoveredFails(c) ==
    /\ At(c, "polling")
    /\ job[c].replacement \in index
    /\ Mishap
    /\ Moves(c, "unrecovered")
    /\ UNCHANGED <<stores, plane, saved, history, records, builds, routes, job, ghosts>>

RecordOf(c, result) ==
    [id |-> c, stale |-> job[c].stale, triggers |-> job[c].triggers,
     replacement |-> job[c].replacement, newCapsule |-> stage[c] # "unfound", result |-> result]

\* Mutants: the record is written when the Run is started; it is recorded as completed
\* whether or not the old Run was marked.
Result_Started(c) == "STARTED"
Result_Always(c) == "COMPLETED"
Result(c) == IF stage[c] = "recovered" THEN "COMPLETED" ELSE "FAILED"

RecordOutcome(c) ==
    /\ At(c, "unfound") \/ At(c, "unrecovered") \/ At(c, "recovered")
    /\ records' = records \cup {RecordOf(c, Result(c))}
    /\ Answers(c, IF stage[c] = "recovered" THEN "completed" ELSE "failed")
    /\ UNCHANGED <<stores, plane, saved, history, builds, routes, job, mishaps, ghosts>>

RecordFails(c) ==
    /\ At(c, "unfound") \/ At(c, "unrecovered") \/ At(c, "recovered")
    /\ Mishap
    /\ Answers(c, "failed")
    /\ UNCHANGED <<stores, plane, saved, history, records, builds, routes, job, ghosts>>

\* The server dies; what is under way is never heard of again.
Crash ==
    /\ Mishap
    /\ build' = [r \in Runs |-> IF build[r] \in Building THEN "failed" ELSE build[r]]
    /\ route' = [q \in Requests |-> IF route[q] \in {"new", "done"} THEN route[q] ELSE "failed"]
    /\ stage' = [c \in Reconciles |-> IF stage[c] \in Reconciling THEN "failed" ELSE stage[c]]
    /\ queue' = << >>
    /\ reading' = [r \in Runs |-> {}] /\ seen' = [q \in Requests |-> NotRead]
    /\ UNCHANGED <<stores, plane, saved, history, records, job, ghosts>>

RunStep(r) ==
    \/ SendMessage(r) \/ Read(r) \/ WriteCapsule(r) \/ WriteIndex(r) \/ BuildFails(r)

RouteStep(q) ==
    \/ EndEvidence(q) \/ Snapshot(q) \/ ReadCapsules(q) \/ ReadEvidence(q)
    \/ \E r \in Runs : Tag(q, r)
    \/ RouteFails(q)

ReconcileStep(c) ==
    \/ Reconcile(c) \/ Check(c) \/ LookUp(c) \/ StartRun(c) \/ StartFails(c) \/ PollFails(c)
    \/ MarkRecovered(c) \/ MarkRecoveredFails(c) \/ RecordOutcome(c) \/ RecordFails(c)

Next ==
    \/ \E r \in Runs : RunStep(r)
    \/ \E p \in Proposals : Commit(p)
    \/ \E a \in Agents : Delete(a)
    \/ \E q \in Requests : RouteStep(q)
    \/ \E c \in Reconciles : ReconcileStep(c)
    \/ Crash

Spec == Init /\ [][Next]_vars

(***************************************************************************)
(* Properties.                                                             *)
(***************************************************************************)
\* INV-12, no false alarm: a Run is tagged on account of Evidence that was ended that
\* way and that it rests on, and recovered only from such a tag, by another Run of its Agent.
TagsAreDownstream ==
    \A r \in Runs : \A i \in DOMAIN history[r] :
        LET h == history[r][i] IN
        IF h.state = "RECOVERED"
        THEN /\ i > 1 /\ history[r][i-1].state \in Recoverable
             /\ h.by \in Runs \ {r} /\ AgentOf[h.by] = AgentOf[r]
        ELSE /\ r \in Affected(h.trigger, Runs)
             /\ [evidence |-> h.trigger,
                 end |-> IF h.state = "TAINTED" THEN "COMPROMISED" ELSE "REVOKED"] \in ended

\* INV-12, none missing: a revocation or a compromise that is answered has tagged every
\* Run of the store that rested on the Evidence when the graph began to be read.
TagsAreComplete ==
    \A q \in Requests : route[q] = "done" =>
        \A r \in due[q] : \E h \in Range(history[r]) :
            h.state = TagOf(q) /\ h.trigger = q.evidence

\* INV-10: two requests for one Run never replace it on account of the same tags: when
\* both have started a Run, and neither has failed, the later one answers a later tag.
OneReplacementPerTag ==
    \A c, d \in Reconciles :
        /\ c # d /\ job[c] # None /\ job[d] # None
        /\ job[c].stale = job[d].stale
        /\ job[c].replacement # None /\ job[d].replacement # None
        /\ "failed" \notin {stage[c], stage[d]}
        => length[c] # length[d]

\* INV-8 and R-10: a COMPLETED record is of a Run that was marked recovered by the
\* replacement it names, whose capsule can be looked up and holds none of the triggers;
\* and a recovery is recorded, unless the request that made it has failed.
RecoveryIsReal ==
    /\ \A x \in records : x.result = "COMPLETED" =>
          /\ \E h \in Range(history[x.stale]) : h.state = "RECOVERED" /\ h.by = x.replacement
          /\ x.replacement \in index /\ capsule[x.replacement] \cap x.triggers = {}
          /\ x.triggers # {} /\ x.newCapsule
    /\ \A r \in Runs : \A h \in Range(history[r]) : h.state = "RECOVERED" =>
          \E c \in Reconciles :
              /\ job[c] # None /\ job[c].replacement = h.by /\ job[c].stale = r
              /\ stage[c] \in {"recovered", "failed"}
                    \/ \E x \in records : x.id = c /\ x.result = "COMPLETED"

(***************************************************************************)
(* EvidenceStore, which EvidenceWrite implements: the stores that the      *)
(* graph is read from change here in no way that createEvidence and the    *)
(* transitions do not.                                                     *)
(***************************************************************************)
Promise == INSTANCE EvidenceStore

\* What Runs commit and the routes end is what the Evidence store promises: nothing is
\* derived from what is not there, committed twice or revived, whatever else goes on.
RefinesStore == Promise!Spec
=============================================================================
