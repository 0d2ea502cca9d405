--------------------------- MODULE RunRecoveryProofs ---------------------------
(***************************************************************************)
(* Proofs about RunRecovery, for any Runs, Agents, Evidence, requests and  *)
(* bounds.  What the walk of the graph finds is in RunRecoveryTagsProofs:  *)
(* here it is some of the Runs.                                            *)
(***************************************************************************)
EXTENDS RunRecovery, SequenceTheorems, TLAPS

USE RecoveryAssumption

(***************************************************************************)
(* Types, and which requests have a job.                                   *)
(***************************************************************************)
Started == {"polling", "unfound", "unrecovered", "recovered", "completed"}
JobTyped ==
    \A c \in Reconciles :
        /\ stage[c] \in {"new", "rejected"} => job[c] = None
        /\ stage[c] \in Reconciling \cup {"completed", "failed"} => job[c] # None
        /\ stage[c] \in {"queued", "checked", "starting"} => job[c].replacement = None
        /\ stage[c] \in Started => job[c].replacement \in Runs
Typed == TypeOK /\ JobTyped

RouteStates == {"new", "ended", "graph", "capsules", "evidence", "tagging", "done", "failed"}
Stages == {"new", "rejected", "failed", "completed"} \cup Reconciling

LEMMA TypeInit == Init => Typed
<1> SUFFICES ASSUME Init PROVE Typed
  OBVIOUS
<1>1. NotRead \in Reading
  BY DEF NotRead, Reading
<1>2. << >> \in Seq(Entry) /\ << >> \in Seq(Reconciles)
  BY EmptySeq
<1>3. capsule \in [Runs -> (SUBSET Evidence) \cup {None}]
  <2>1. \A r \in Runs : Existing \cap Permitted[AgentOf[r]] \in SUBSET Evidence
    OBVIOUS
  <2>2. \A r \in Runs : (IF r \in Past THEN Existing \cap Permitted[AgentOf[r]] ELSE None)
                           \in (SUBSET Evidence) \cup {None}
    BY <2>1
  <2> QED BY <2>2 DEF Init
<1>4. JobTyped
  BY DEF Init, JobTyped, Reconciling, Started
<1> QED BY <1>1, <1>2, <1>3, <1>4 DEF Init, TypeOK, Typed, Reconciling

LEMMA TransitionTyping ==
    ASSUME TypeOK, NEW r \in Runs, NEW s \in {"STALE", "TAINTED", "RECOVERED"},
           NEW t \in Evidence \cup {None}, NEW b \in Runs \cup {None}, Transition(r, s, t, b)
    PROVE  history' \in [Runs -> Seq(Entry)]
<1>1. [state |-> s, trigger |-> t, by |-> b] \in Entry
  BY DEF Entry
<1>2. Append(history[r], [state |-> s, trigger |-> t, by |-> b]) \in Seq(Entry)
  BY <1>1 DEF TypeOK
<1> QED BY <1>2 DEF TypeOK, Transition

LEMMA ReadingTyping ==
    ASSUME NEW g \in Reading
    PROVE  /\ \A S \in SUBSET Runs : /\ [g EXCEPT !.runs = S] \in Reading
                                     /\ [g EXCEPT !.capsules = S] \in Reading
                                     /\ [g EXCEPT !.todo = S] \in Reading
           /\ \A S \in SUBSET Evidence : [g EXCEPT !.evidence = S] \in Reading
  BY DEF Reading

\* An answer, by the request that is its turn.
LEMMA AnswerTyping ==
    ASSUME TypeOK, NEW c \in Reconciles, NEW s \in {"rejected", "failed", "completed"},
           queue # << >>, Answers(c, s)
    PROVE  queue' \in Seq(Reconciles) /\ stage' \in [Reconciles -> Stages]
  BY DEF TypeOK, Answers, Stages

(***************************************************************************)
(* Requests have their turns: what is queued is in the queue, and all that *)
(* is further is at its head.                                              *)
(***************************************************************************)
Serial ==
    \A c \in Reconciles :
        /\ stage[c] = "queued" => \E i \in DOMAIN queue : queue[i] = c
        /\ stage[c] \in Reconciling \ {"queued"} => queue # << >> /\ Head(queue) = c

LEMMA InQueue ==
    ASSUME TypeOK, Serial, NEW c \in Reconciles, stage[c] \in Reconciling
    PROVE  queue # << >>
<1>1. DOMAIN << >> = {}
  OBVIOUS
<1> QED BY <1>1 DEF Serial

\* What any step of a request but Reconcile does to its turn.
LEMMA SerialStep ==
    ASSUME TypeOK, Serial, NEW c \in Reconciles, stage[c] \in Reconciling, Turn(c), NEW s,
           \/ s \in Reconciling \ {"queued"} /\ Moves(c, s)
           \/ s \in {"rejected", "failed", "completed"} /\ Answers(c, s)
    PROVE  Serial'
<1>1. stage' = [stage EXCEPT ![c] = s] /\ stage \in [Reconciles -> Stages] /\ queue \in Seq(Reconciles)
  BY DEF Moves, Answers, TypeOK, Stages
<1>2. queue # << >> /\ Head(queue) = c
  BY InQueue DEF Turn
<1>3. ASSUME NEW d \in Reconciles, d # c
      PROVE  stage'[d] = stage[d] /\ stage[d] \notin Reconciling \ {"queued"}
  BY <1>1, <1>2, <1>3 DEF Serial
<1>4. CASE s \in Reconciling \ {"queued"} /\ Moves(c, s)
  BY <1>1, <1>2, <1>3, <1>4 DEF Serial, Moves
<1>5. CASE s \in {"rejected", "failed", "completed"} /\ Answers(c, s)
  <2>1. stage'[c] \notin Reconciling
    BY <1>1, <1>5 DEF Reconciling
  <2>2. ASSUME NEW d \in Reconciles, d # c, stage[d] = "queued"
        PROVE  \E i \in DOMAIN queue' : queue'[i] = d
    <3>1. PICK i \in DOMAIN queue : queue[i] = d
      BY <2>2 DEF Serial
    <3>2. i # 1
      BY <1>2, <2>2, <3>1
    <3>3. queue' = Tail(queue)
      BY <1>5 DEF Answers
    <3>4. i - 1 \in DOMAIN queue' /\ queue'[i - 1] = queue[i]
      BY <1>1, <1>2, <3>1, <3>2, <3>3
    <3> QED BY <3>1, <3>4
  <2> QED BY <1>3, <2>1, <2>2 DEF Serial, Reconciling
<1> QED BY <1>4, <1>5

LEMMA SerialInit == Init => Serial
  BY DEF Init, Serial, Reconciling

LEMMA TypeAndTurnStep ==
    ASSUME Typed, Serial, [Next]_vars
    PROVE  Typed' /\ Serial'
<1> USE DEF stores, plane, saved, builds, routes, work, ghosts, Typed
<1>1. /\ history \in [Runs -> Seq(Entry)] /\ stage \in [Reconciles -> Stages]
      /\ job \in [Reconciles -> Job \cup {None}] /\ queue \in Seq(Reconciles)
      /\ None \notin Job
  BY DEF TypeOK, Stages
<1>2. ASSUME UNCHANGED <<queue, stage>> PROVE Serial'
  BY <1>2 DEF Serial
<1>3. ASSUME UNCHANGED work PROVE Serial' /\ JobTyped'
  BY <1>2, <1>3 DEF JobTyped
<1>4. ASSUME UNCHANGED vars PROVE Typed' /\ Serial'
  BY <1>3, <1>4 DEF vars, TypeOK
\* The Runs.
<1>5. ASSUME NEW r \in Runs, Admit(r) PROVE build' \in [Runs -> {"new", "ok", "failed"} \cup Building] /\ listed' \in SUBSET Runs
  BY <1>5 DEF Admit, TypeOK, Building
<1>6. ASSUME NEW r \in Runs, SendMessage(r) PROVE Typed' /\ Serial'
  BY <1>3, <1>5, <1>6 DEF SendMessage, Admit, TypeOK
<1>7. ASSUME NEW r \in Runs, Read(r) \/ WriteCapsule(r) \/ WriteIndex(r) \/ BuildFails(r)
      PROVE  Typed' /\ Serial'
  <2>1. build' \in [Runs -> {"new", "ok", "failed"} \cup Building]
    <3>1. \E s \in {"ok", "failed"} \cup Building : build' = [build EXCEPT ![r] = s]
      <4>1. "read" \in Building /\ "written" \in Building
        BY DEF Building
      <4> QED BY <1>7, <4>1 DEF Read, WriteCapsule, WriteIndex, BuildFails
    <3>2. build \in [Runs -> {"new", "ok", "failed"} \cup Building]
      BY DEF TypeOK
    <3> QED BY <3>1, <3>2
  <2>2. reading' \in [Runs -> SUBSET Evidence]
    <3>1. Readable \cap Permitted[AgentOf[r]] \in SUBSET Evidence
      BY DEF Readable, Active
    <3>2. reading' = reading \/ \E S \in SUBSET Evidence : reading' = [reading EXCEPT ![r] = S]
      <4>1. {} \in SUBSET Evidence
        OBVIOUS
      <4> QED BY <1>7, <3>1, <4>1 DEF Read, WriteCapsule, WriteIndex, BuildFails
    <3>3. reading \in [Runs -> SUBSET Evidence]
      BY DEF TypeOK
    <3> QED BY <3>2, <3>3
  <2>3. capsule' \in [Runs -> (SUBSET Evidence) \cup {None}]
    <3>1. reading[r] \in SUBSET Evidence
      BY DEF TypeOK
    <3>2. capsule' = capsule \/ capsule' = [capsule EXCEPT ![r] = reading[r]]
      BY <1>7 DEF Read, WriteCapsule, WriteIndex, BuildFails
    <3> QED BY <3>1, <3>2 DEF TypeOK
  <2>4. index' \in SUBSET Runs
    <3>1. index' = index \/ index' = index \cup {r}
      BY <1>7 DEF Read, WriteCapsule, WriteIndex, BuildFails
    <3> QED BY <3>1 DEF TypeOK
  <2>5. mishaps' \in 0 .. MaxMishaps
    <3>1. mishaps' = mishaps \/ Mishap
      BY <1>7 DEF Read, WriteCapsule, WriteIndex, BuildFails
    <3>2. mishaps \in 0 .. MaxMishaps
      BY DEF TypeOK
    <3> QED BY <3>1, <3>2 DEF Mishap
  <2>6. UNCHANGED <<stores, plane, history, records, routes, work, ghosts>>
    BY <1>7 DEF Read, WriteCapsule, WriteIndex, BuildFails
  <2> QED BY <1>3, <2>1, <2>2, <2>3, <2>4, <2>5, <2>6 DEF TypeOK
<1>8. ASSUME NEW p \in Proposals, Commit(p) PROVE Typed' /\ Serial'
  <2>1. p.run \in Runs /\ p.evidence \in Evidence /\ p.contributors \in SUBSET Evidence
    OBVIOUS
  <2> QED BY <1>3, <1>8, <2>1 DEF Commit, TypeOK
<1>9. ASSUME NEW a \in Agents, Delete(a) PROVE Typed' /\ Serial'
  BY <1>3, <1>9 DEF Delete, Mishap, TypeOK
\* The routes.
<1>10. ASSUME NEW q \in Requests, NEW s \in RouteStates, Goto(q, s)
       PROVE  route' \in [Requests -> RouteStates]
  BY <1>10 DEF Goto, TypeOK, RouteStates
<1>11. ASSUME NEW q \in Requests, EndEvidence(q) PROVE Typed' /\ Serial'
  <2>1. q.evidence \in Evidence /\ q.end \in Ends
    BY DEF Ends
  <2>2. status' \in [Evidence -> {"none", "ACTIVE"} \cup Ends]
    BY <1>11, <2>1 DEF EndEvidence, TypeOK
  <2>3. route' \in [Requests -> RouteStates]
    BY <1>10, <1>11 DEF EndEvidence, RouteStates
  <2> QED BY <1>3, <1>11, <2>2, <2>3 DEF EndEvidence, TypeOK, RouteStates
<1>12. ASSUME NEW q \in Requests, Snapshot(q) PROVE Typed' /\ Serial'
  <2>1. route' \in [Requests -> RouteStates]
    BY <1>10, <1>12 DEF Snapshot, RouteStates
  <2>2. seen' \in [Requests -> Reading]
    <3>1. seen' = [seen EXCEPT ![q] = [seen[q] EXCEPT !.runs = listed]]
      BY <1>12 DEF Snapshot
    <3>2. [seen[q] EXCEPT !.runs = listed] \in Reading
      BY ReadingTyping DEF TypeOK
    <3> QED BY <3>1, <3>2 DEF TypeOK
  <2>3. due' \in [Requests -> SUBSET Runs]
    <3>1. Affected(q.evidence, listed) \in SUBSET Runs
      BY DEF Affected, TypeOK
    <3> QED BY <1>12, <3>1 DEF Snapshot, TypeOK
  <2> QED BY <1>3, <1>12, <2>1, <2>2, <2>3 DEF Snapshot, TypeOK, RouteStates
<1>13. ASSUME NEW q \in Requests, NEW g \in Reading, NEW s \in {"capsules", "evidence"}, Arrives(q, g, s)
       PROVE  route' \in [Requests -> RouteStates] /\ seen' \in [Requests -> Reading]
  <2>1. CASE route[q] = "graph"
    <3>1. Goto(q, s) /\ seen' = [seen EXCEPT ![q] = g]
      BY <1>13, <2>1 DEF Arrives
    <3>2. s \in RouteStates
      BY DEF RouteStates
    <3> QED BY <1>10, <3>1, <3>2 DEF TypeOK
  <2>2. CASE route[q] # "graph"
    <3>1. RunIds(g, q.evidence) \in SUBSET Runs
      BY DEF RunIds
    <3>2. [NotRead EXCEPT !.todo = RunIds(g, q.evidence)] \in Reading
      BY <3>1 DEF NotRead, Reading
    <3>3. seen' = [seen EXCEPT ![q] = [NotRead EXCEPT !.todo = RunIds(g, q.evidence)]]
      BY <1>13, <2>2 DEF Arrives
    <3>4. \E x \in {"done", "tagging"} : Goto(q, x)
      BY <1>13, <2>2 DEF Arrives
    <3> QED BY <1>10, <3>2, <3>3, <3>4 DEF TypeOK, RouteStates
  <2> QED BY <2>1, <2>2
<1>14. ASSUME NEW q \in Requests, ReadCapsules(q) \/ ReadEvidence(q) PROVE Typed' /\ Serial'
  <2>1. [seen[q] EXCEPT !.capsules = {r \in Runs : capsule[r] # None}] \in Reading
    BY ReadingTyping DEF TypeOK
  <2>2. [seen[q] EXCEPT !.evidence = Known] \in Reading
    BY ReadingTyping DEF TypeOK, Known
  <2>3. route' \in [Requests -> RouteStates] /\ seen' \in [Requests -> Reading]
    BY <1>13, <1>14, <2>1, <2>2 DEF ReadCapsules, ReadEvidence
  <2>4. UNCHANGED <<stores, plane, saved, history, records, builds, work, mishaps, ghosts>>
    BY <1>14 DEF ReadCapsules, ReadEvidence
  <2> QED BY <1>3, <2>3, <2>4 DEF TypeOK, RouteStates
<1>15. ASSUME NEW q \in Requests, NEW r \in Runs, Tag(q, r) PROVE Typed' /\ Serial'
  <2>1. history' \in [Runs -> Seq(Entry)]
    BY <1>15, TransitionTyping DEF Tag, TagOf
  <2>2. seen' \in [Requests -> Reading]
    <3>1. seen' = [seen EXCEPT ![q] = [seen[q] EXCEPT !.todo = seen[q].todo \ {r}]]
      BY <1>15 DEF Tag
    <3>2. seen[q].todo \ {r} \in SUBSET Runs /\ seen[q] \in Reading
      BY DEF TypeOK, Reading
    <3> QED BY <3>1, <3>2, ReadingTyping DEF TypeOK
  <2>3. route' \in [Requests -> RouteStates]
    BY <1>10, <1>15 DEF Tag, RouteStates
  <2> QED BY <1>3, <1>15, <2>1, <2>2, <2>3 DEF Tag, TypeOK, RouteStates
<1>16. ASSUME NEW q \in Requests, RouteFails(q) PROVE Typed' /\ Serial'
  <2>1. seen' \in [Requests -> Reading]
    BY <1>16 DEF RouteFails, TypeOK, Reading, NotRead
  <2>2. route' \in [Requests -> RouteStates]
    BY <1>10, <1>16 DEF RouteFails, RouteStates
  <2> QED BY <1>3, <1>16, <2>1, <2>2 DEF RouteFails, Mishap, TypeOK, RouteStates
\* The requests to reconcile.
<1>17. ASSUME NEW c \in Reconciles, Reconcile(c) PROVE Typed' /\ Serial'
  <2>1. PICK r \in listed : job' = [job EXCEPT ![c] = [stale |-> r, triggers |-> {}, replacement |-> None]]
    BY <1>17 DEF Reconcile
  <2>2. [stale |-> r, triggers |-> {}, replacement |-> None] \in Job
    BY DEF Job, TypeOK
  <2>3. job' \in [Reconciles -> Job \cup {None}] /\ job'[c] # None /\ job'[c].replacement = None
    BY <1>1, <2>1, <2>2
  <2>4. stage' = [stage EXCEPT ![c] = "queued"] /\ queue' = Append(queue, c) /\ stage[c] = "new"
    BY <1>17 DEF Reconcile
  <2>5. queue' \in Seq(Reconciles) /\ stage' \in [Reconciles -> Stages]
    BY <1>1, <2>4 DEF Stages, Reconciling
  <2>6. JobTyped'
    BY <1>1, <2>1, <2>3, <2>4 DEF JobTyped, Started, Reconciling
  <2>7. Serial'
    <3>1. /\ Len(queue) + 1 \in DOMAIN queue' /\ queue'[Len(queue) + 1] = c
          /\ DOMAIN queue \subseteq DOMAIN queue' /\ \A i \in DOMAIN queue : queue'[i] = queue[i]
      BY <1>1, <2>4
    <3>2. queue # << >> => queue' # << >> /\ Head(queue') = Head(queue)
      BY <1>1, <2>4
    <3> QED BY <1>1, <2>4, <3>1, <3>2 DEF Serial, Reconciling
  <2> QED BY <1>17, <2>3, <2>5, <2>6, <2>7 DEF Reconcile, TypeOK, Stages
\* A request in its turn gets on, or is answered.
<1>18. ASSUME NEW c \in Reconciles, stage[c] \in Reconciling, Turn(c), NEW s,
              \/ s \in Reconciling \ {"queued"} /\ Moves(c, s)
              \/ s \in {"rejected", "failed", "completed"} /\ Answers(c, s)
       PROVE  /\ Serial' /\ queue' \in Seq(Reconciles) /\ stage' = [stage EXCEPT ![c] = s]
              /\ stage' \in [Reconciles -> Stages]
  <2>1. Serial'
    BY <1>18, SerialStep
  <2>2. queue # << >>
    BY <1>18, InQueue
  <2>3. CASE Moves(c, s)
    BY <1>1, <1>18, <2>1, <2>3 DEF Moves, Stages
  <2>4. CASE s \in {"rejected", "failed", "completed"} /\ Answers(c, s)
    BY <2>1, <2>2, <2>4, AnswerTyping DEF Answers
  <2> QED BY <1>18, <2>3, <2>4
<1>19. ASSUME NEW c \in Reconciles, stage[c] \in {"queued", "checked", "starting"}, Turn(c), Rejects(c)
       PROVE  /\ Serial' /\ queue' \in Seq(Reconciles) /\ stage' \in [Reconciles -> Stages]
              /\ job' \in [Reconciles -> Job \cup {None}] /\ JobTyped'
  <2>1. Answers(c, "rejected") /\ job' = [job EXCEPT ![c] = None]
    BY <1>19 DEF Rejects
  <2>2. Serial' /\ queue' \in Seq(Reconciles) /\ stage' \in [Reconciles -> Stages] /\ stage' = [stage EXCEPT ![c] = "rejected"]
    BY <1>18, <1>19, <2>1 DEF Reconciling
  <2> QED BY <1>1, <2>1, <2>2 DEF JobTyped, Started, Reconciling
<1>20. ASSUME NEW c \in Reconciles, stage[c] \in Reconciling, Turn(c), NEW s,
              UNCHANGED job,
              \/ stage[c] = "queued" /\ s = "checked" /\ Moves(c, s)
              \/ stage[c] = "polling" /\ s \in {"unfound", "unrecovered", "recovered"} /\ Moves(c, s)
              \/ stage[c] = "recovered" /\ s = "completed" /\ Answers(c, s)
              \/ s = "failed" /\ Answers(c, s)
       PROVE  Serial' /\ queue' \in Seq(Reconciles) /\ stage' \in [Reconciles -> Stages] /\ JobTyped'
  <2>1. Serial' /\ queue' \in Seq(Reconciles) /\ stage' \in [Reconciles -> Stages] /\ stage' = [stage EXCEPT ![c] = s]
    BY <1>18, <1>20 DEF Reconciling
  <2> QED BY <1>1, <1>20, <2>1 DEF JobTyped, Started, Reconciling
<1>21. ASSUME NEW c \in Reconciles, Check(c) PROVE Typed' /\ Serial'
  <2>1. stage[c] = "queued" /\ Turn(c) /\ stage[c] \in Reconciling
    BY <1>21 DEF Check, At, Reconciling
  <2>2. job[c] \in Job
    BY <1>1, <2>1 DEF JobTyped
  <2>3. Len(history[job[c].stale]) \in Nat
    BY <1>1, <2>2 DEF Job
  <2>4. /\ UNCHANGED <<stores, plane, saved, history, records, builds, routes, mishaps, ended, due>>
        /\ \/ Moves(c, "checked") /\ length' = [length EXCEPT ![c] = Len(history[job[c].stale])] /\ UNCHANGED job
           \/ Rejects(c) /\ UNCHANGED length
    BY <1>21 DEF Check
  <2>5. length' \in [Reconciles -> Nat]
    <3>1. length \in [Reconciles -> Nat]
      BY DEF TypeOK
    <3>2. \A n \in Nat : [length EXCEPT ![c] = n] \in [Reconciles -> Nat]
      BY <3>1
    <3> QED BY <2>3, <2>4, <3>1, <3>2
  <2>6. Serial' /\ queue' \in Seq(Reconciles) /\ stage' \in [Reconciles -> Stages] /\ JobTyped'
        /\ job' \in [Reconciles -> Job \cup {None}]
    BY <1>1, <1>19, <1>20, <2>1, <2>4
  <2> QED BY <2>4, <2>5, <2>6 DEF TypeOK, Stages
<1>22. ASSUME NEW c \in Reconciles, LookUp(c) PROVE Typed' /\ Serial'
  <2>1. stage[c] = "checked" /\ Turn(c) /\ stage[c] \in Reconciling
    BY <1>22 DEF LookUp, At, Reconciling
  <2>2. job[c] \in Job /\ job[c].replacement = None
    BY <1>1, <2>1 DEF JobTyped
  <2> DEFINE ts == {h.trigger : h \in Range(history[job[c].stale])} \ {None}
  <2>3. ts \in SUBSET Evidence
    <3>1. history[job[c].stale] \in Seq(Entry)
      BY <1>1, <2>2 DEF Job
    <3>2. \A i \in DOMAIN history[job[c].stale] : history[job[c].stale][i].trigger \in Evidence \cup {None}
      <4>1. \A i \in DOMAIN history[job[c].stale] : history[job[c].stale][i] \in Entry
        BY <3>1
      <4> QED BY <4>1 DEF Entry
    <3> QED BY <3>2 DEF Range
  <2>4. CASE job' = [job EXCEPT ![c].triggers = ts] /\ Moves(c, "starting")
    <3>1. job'[c] \in Job /\ job'[c].replacement = None /\ job' \in [Reconciles -> Job \cup {None}]
      <4> HIDE DEF ts
      <4> QED BY <1>1, <2>2, <2>3, <2>4 DEF Job
    <3>2. Serial' /\ queue' \in Seq(Reconciles) /\ stage' \in [Reconciles -> Stages] /\ stage' = [stage EXCEPT ![c] = "starting"]
      BY <1>18, <2>1, <2>4 DEF Reconciling
    <3>3. \A d \in Reconciles : d # c => job'[d] = job[d]
      BY <1>1, <2>4
    <3>4. JobTyped'
      BY <1>1, <3>1, <3>2, <3>3 DEF JobTyped, Started, Reconciling
    <3> QED BY <1>22, <3>1, <3>2, <3>4 DEF LookUp, TypeOK, Stages
  <2>5. CASE Rejects(c)
    BY <1>19, <1>22, <2>1, <2>5 DEF LookUp, TypeOK, Stages
  <2> QED BY <1>22, <2>4, <2>5 DEF LookUp
<1>23. ASSUME NEW c \in Reconciles, StartRun(c) PROVE Typed' /\ Serial'
  <2>1. stage[c] = "starting" /\ Turn(c) /\ stage[c] \in Reconciling /\ Moves(c, "polling")
    BY <1>23 DEF StartRun, At, Reconciling
  <2>2. PICK r \in Runs : Admit(r) /\ job' = [job EXCEPT ![c].replacement = r]
    BY <1>23 DEF StartRun
  <2>3. job[c] \in Job
    BY <1>1, <2>1 DEF JobTyped
  <2>4. job'[c] \in Job /\ job'[c].replacement = r /\ job' \in [Reconciles -> Job \cup {None}]
    BY <1>1, <2>2, <2>3 DEF Job
  <2>5. Serial' /\ queue' \in Seq(Reconciles) /\ stage' \in [Reconciles -> Stages] /\ stage' = [stage EXCEPT ![c] = "polling"]
    BY <1>18, <2>1 DEF Reconciling
  <2>6. \A d \in Reconciles : d # c => job'[d] = job[d]
    BY <1>1, <2>2
  <2>7. JobTyped'
    BY <1>1, <2>4, <2>5, <2>6 DEF JobTyped, Started, Reconciling
  <2> QED BY <1>5, <1>23, <2>2, <2>4, <2>5, <2>7 DEF StartRun, Admit, TypeOK, Stages
<1>24. ASSUME NEW c \in Reconciles, StartFails(c) PROVE Typed' /\ Serial'
  BY <1>19, <1>24 DEF StartFails, At, TypeOK, Stages
<1>25. ASSUME NEW c \in Reconciles, PollFails(c) \/ MarkRecoveredFails(c) PROVE Typed' /\ Serial'
  <2>1. /\ stage[c] = "polling" /\ Turn(c) /\ stage[c] \in Reconciling /\ UNCHANGED job
        /\ \E s \in {"unfound", "unrecovered"} : Moves(c, s)
    BY <1>25 DEF PollFails, MarkRecoveredFails, At, Reconciling
  <2>2. mishaps' \in 0 .. MaxMishaps
    BY <1>25 DEF PollFails, MarkRecoveredFails, Mishap, TypeOK
  <2>3. Serial' /\ queue' \in Seq(Reconciles) /\ stage' \in [Reconciles -> Stages] /\ JobTyped'
    BY <1>20, <2>1
  <2> QED BY <1>25, <2>1, <2>2, <2>3 DEF PollFails, MarkRecoveredFails, TypeOK, Stages
<1>26. ASSUME NEW c \in Reconciles, MarkRecovered(c) PROVE Typed' /\ Serial'
  <2>1. /\ stage[c] = "polling" /\ Turn(c) /\ stage[c] \in Reconciling /\ UNCHANGED job
        /\ \E s \in {"unrecovered", "recovered"} : Moves(c, s)
    BY <1>26 DEF MarkRecovered, At, Reconciling
  <2>2. job[c] \in Job
    BY <1>1, <2>1 DEF JobTyped
  <2>3. history' \in [Runs -> Seq(Entry)]
    BY <1>1, <1>26, <2>2, TransitionTyping DEF MarkRecovered, Job
  <2>4. Serial' /\ queue' \in Seq(Reconciles) /\ stage' \in [Reconciles -> Stages] /\ JobTyped'
    BY <1>20, <2>1
  <2> QED BY <1>26, <2>1, <2>3, <2>4 DEF MarkRecovered, TypeOK, Stages
<1>27. ASSUME NEW c \in Reconciles, RecordOutcome(c) \/ RecordFails(c) PROVE Typed' /\ Serial'
  <2>1. /\ stage[c] \in {"unfound", "unrecovered", "recovered"} /\ Turn(c) /\ stage[c] \in Reconciling
        /\ UNCHANGED job
    BY <1>27 DEF RecordOutcome, RecordFails, At, Reconciling
  <2>2. \/ stage[c] = "recovered" /\ Answers(c, "completed")
        \/ Answers(c, "failed")
    BY <1>27 DEF RecordOutcome, RecordFails
  <2>3. job[c] \in Job /\ job[c].replacement \in Runs
    BY <1>1, <2>1 DEF JobTyped, Started
  <2>4. RecordOf(c, Result(c)) \in Record
    BY <2>3 DEF RecordOf, Result, Record, Job
  <2>5. records' \in SUBSET Record
    BY <1>27, <2>4 DEF RecordOutcome, RecordFails, TypeOK
  <2>6. mishaps' \in 0 .. MaxMishaps
    BY <1>27 DEF RecordOutcome, RecordFails, Mishap, TypeOK
  <2>7. Serial' /\ queue' \in Seq(Reconciles) /\ stage' \in [Reconciles -> Stages] /\ JobTyped'
    BY <1>20, <2>1, <2>2
  <2> QED BY <1>27, <2>1, <2>5, <2>6, <2>7 DEF RecordOutcome, RecordFails, TypeOK, Stages
<1>28. ASSUME Crash PROVE Typed' /\ Serial'
  <2>1. NotRead \in Reading /\ << >> \in Seq(Reconciles)
    BY DEF NotRead, Reading
  <2>2. /\ build' \in [Runs -> {"new", "ok", "failed"} \cup Building]
        /\ route' \in [Requests -> RouteStates] /\ stage' \in [Reconciles -> Stages]
        /\ reading' \in [Runs -> SUBSET Evidence] /\ seen' \in [Requests -> Reading]
    BY <1>28, <2>1 DEF Crash, TypeOK, RouteStates, Stages
  <2>3. \A c \in Reconciles : stage'[c] \notin Reconciling
    BY <1>1, <1>28 DEF Crash, Reconciling
  <2>4. Serial'
    BY <2>3 DEF Serial, Reconciling
  <2>5. JobTyped'
    <3>1. UNCHANGED job /\ \A c \in Reconciles : stage'[c] = IF stage[c] \in Reconciling THEN "failed" ELSE stage[c]
      BY <1>1, <1>28 DEF Crash
    <3> QED BY <3>1 DEF JobTyped, Started, Reconciling
  <2> QED BY <1>28, <2>1, <2>2, <2>4, <2>5 DEF Crash, Mishap, TypeOK, RouteStates, Stages
<1> QED BY <1>4, <1>6, <1>7, <1>8, <1>9, <1>11, <1>12, <1>14, <1>15, <1>16, <1>17, <1>21, <1>22,
           <1>23, <1>24, <1>25, <1>26, <1>27, <1>28
        DEF Next, RunStep, RouteStep, ReconcileStep

LEMMA TypesHold == Spec => [](Typed /\ Serial)
<1>1. Typed /\ Serial /\ [Next]_vars => (Typed /\ Serial)'
  BY TypeAndTurnStep
<1> QED BY TypeInit, SerialInit, <1>1, PTL DEF Spec

\* The state stays in its types: only Runs are listed, tagged and started, and a record is
\* of a request that started one.
THEOREM TypeCorrect == Spec => []TypeOK
<1>1. Typed => TypeOK
  BY DEF Typed
<1> QED BY TypesHold, <1>1, PTL

(***************************************************************************)
(* What steps leave alone, by actor.                                       *)
(***************************************************************************)
Rest == <<history, records, route, queue, stage, job, length>>
Plain == \/ \E r \in Runs : RunStep(r)
         \/ \E p \in Proposals : Commit(p)
         \/ \E a \in Agents : Delete(a)
         \/ UNCHANGED vars

LEMMA Frames ==
    /\ Plain => UNCHANGED Rest
    /\ \A q \in Requests : RouteStep(q) => UNCHANGED <<records, saved, builds, work, length>>
    /\ \A q \in Requests : RouteStep(q) => UNCHANGED history \/ \E r \in Runs : Tag(q, r)
    /\ \A c \in Reconciles : ReconcileStep(c) => UNCHANGED <<status, saved, route>>
<1> USE DEF stores, plane, saved, builds, routes, work, ghosts
<1>1. ASSUME Plain PROVE UNCHANGED Rest
  <2>1. ASSUME NEW r \in Runs, RunStep(r) PROVE UNCHANGED Rest
    BY <2>1 DEF RunStep, SendMessage, Read, WriteCapsule, WriteIndex, BuildFails, Rest
  <2>2. ASSUME NEW p \in Proposals, Commit(p) PROVE UNCHANGED Rest
    BY <2>2 DEF Commit, Rest
  <2>3. ASSUME NEW a \in Agents, Delete(a) PROVE UNCHANGED Rest
    BY <2>3 DEF Delete, Rest
  <2>4. ASSUME UNCHANGED vars PROVE UNCHANGED Rest
    BY <2>4 DEF vars, Rest
  <2> QED BY <1>1, <2>1, <2>2, <2>3, <2>4 DEF Plain
<1>2. ASSUME NEW q \in Requests, RouteStep(q)
      PROVE  /\ UNCHANGED <<records, saved, builds, work, length>>
             /\ UNCHANGED history \/ \E r \in Runs : Tag(q, r)
  BY <1>2 DEF RouteStep, EndEvidence, Snapshot, ReadCapsules, ReadEvidence, Tag, RouteFails
<1>3. ASSUME NEW c \in Reconciles, ReconcileStep(c) PROVE UNCHANGED <<status, saved, route>>
  <2>1. CASE Reconcile(c) \/ Check(c) \/ LookUp(c) \/ StartRun(c) \/ StartFails(c)
    BY <2>1 DEF Reconcile, Check, LookUp, StartRun, StartFails
  <2>2. CASE PollFails(c) \/ MarkRecovered(c) \/ MarkRecoveredFails(c) \/ RecordOutcome(c) \/ RecordFails(c)
    BY <2>2 DEF PollFails, MarkRecovered, MarkRecoveredFails, RecordOutcome, RecordFails
  <2> QED BY <1>3, <2>1, <2>2 DEF ReconcileStep
<1> QED BY <1>1, <1>2, <1>3

\* A request to reconcile is queued; or in its turn it is rejected, or gets on from one
\* stage to the next with its stale Run, or is answered.
Forward == {<<"queued", "checked">>, <<"checked", "starting">>, <<"starting", "polling">>,
            <<"polling", "unfound">>, <<"polling", "unrecovered">>, <<"polling", "recovered">>,
            <<"unfound", "failed">>, <<"unrecovered", "failed">>, <<"recovered", "failed">>,
            <<"recovered", "completed">>}
GetsOn(c, s) ==
    /\ <<stage[c], s>> \in Forward
    /\ stage' = [stage EXCEPT ![c] = s]
    /\ \A d \in Reconciles \ {c} : job'[d] = job[d]
    /\ job'[c].stale = job[c].stale /\ job[c].stale \in Runs
    /\ s \notin {"starting", "polling"} => job' = job
    /\ s # "starting" => job'[c].triggers = job[c].triggers
    /\ s # "checked" => UNCHANGED length
IsRejected(c) ==
    /\ stage[c] \in {"queued", "checked", "starting"} /\ stage' = [stage EXCEPT ![c] = "rejected"]
    /\ job' = [job EXCEPT ![c] = None] /\ UNCHANGED <<history, records, length>>

LEMMA ReconcileSteps ==
    ASSUME Typed, NEW c \in Reconciles, ReconcileStep(c)
    PROVE  \/ Reconcile(c) \/ IsRejected(c)
           \/ Check(c) /\ GetsOn(c, "checked")
           \/ LookUp(c) /\ GetsOn(c, "starting")
           \/ StartRun(c) /\ GetsOn(c, "polling")
           \/ MarkRecovered(c) /\ GetsOn(c, "recovered")
           \/ /\ \E s \in {"unfound", "unrecovered"} : GetsOn(c, s)
              /\ UNCHANGED <<history, records>>
           \/ RecordOutcome(c) /\ \E s \in {"failed", "completed"} : GetsOn(c, s)
           \/ RecordFails(c) /\ GetsOn(c, "failed")
<1> USE DEF stores, plane, saved, builds, routes, work, ghosts, Moves, Answers, Forward
<1>1. stage \in [Reconciles -> Stages] /\ job \in [Reconciles -> Job \cup {None}]
  BY DEF Typed, TypeOK, Stages
<1>2. ASSUME stage[c] \in Reconciling PROVE job[c] \in Job /\ job[c].stale \in Runs
  BY <1>1, <1>2 DEF Typed, JobTyped, Job
<1>3. CASE Check(c)
  <2>1. stage[c] = "queued" /\ UNCHANGED <<history, records>>
    BY <1>3 DEF Check, At
  <2>2. job[c].stale \in Runs
    BY <1>2, <2>1 DEF Reconciling
  <2> QED BY <1>1, <1>3, <2>1, <2>2 DEF Check, Rejects, GetsOn, IsRejected
<1>4. CASE LookUp(c)
  <2>1. stage[c] = "checked" /\ UNCHANGED <<history, records, length>>
    BY <1>4 DEF LookUp, At
  <2>2. job[c] \in Job /\ job[c].stale \in Runs
    BY <1>2, <2>1 DEF Reconciling
  <2>3. ASSUME NEW ts, job' = [job EXCEPT ![c].triggers = ts]
        PROVE  job'[c].stale = job[c].stale /\ \A d \in Reconciles \ {c} : job'[d] = job[d]
    BY <1>1, <2>2, <2>3 DEF Job
  <2> QED BY <1>1, <1>4, <2>1, <2>2, <2>3 DEF LookUp, Rejects, GetsOn, IsRejected
<1>5. CASE StartRun(c)
  <2>1. stage[c] = "starting" /\ UNCHANGED <<history, records, length>> /\ Moves(c, "polling")
    BY <1>5 DEF StartRun, At
  <2>2. job[c] \in Job /\ job[c].stale \in Runs
    BY <1>2, <2>1 DEF Reconciling
  <2>3. PICK r \in Runs : job' = [job EXCEPT ![c].replacement = r]
    BY <1>5 DEF StartRun
  <2>4. /\ job'[c].stale = job[c].stale /\ job'[c].triggers = job[c].triggers
        /\ \A d \in Reconciles \ {c} : job'[d] = job[d]
    BY <1>1, <2>2, <2>3 DEF Job
  <2> QED BY <1>5, <2>1, <2>2, <2>4 DEF GetsOn
<1>6. CASE StartFails(c)
  BY <1>6 DEF StartFails, At, Rejects, IsRejected
<1>7. CASE PollFails(c) \/ MarkRecoveredFails(c) \/ MarkRecovered(c)
  <2>1. stage[c] = "polling" /\ UNCHANGED <<records, length, job>>
    BY <1>7 DEF PollFails, MarkRecoveredFails, MarkRecovered, At
  <2>2. job[c].stale \in Runs
    BY <1>2, <2>1 DEF Reconciling
  <2>3. \/ \E s \in {"unfound", "unrecovered"} : Moves(c, s) /\ UNCHANGED history
        \/ MarkRecovered(c) /\ Moves(c, "recovered")
    BY <1>7 DEF PollFails, MarkRecoveredFails, MarkRecovered
  <2> QED BY <2>1, <2>2, <2>3 DEF GetsOn
<1>8. CASE RecordOutcome(c) \/ RecordFails(c)
  <2>1. stage[c] \in {"unfound", "unrecovered", "recovered"} /\ UNCHANGED <<length, job>>
    BY <1>8 DEF RecordOutcome, RecordFails, At
  <2>2. job[c].stale \in Runs
    BY <1>2, <2>1 DEF Reconciling
  <2>3. \/ RecordOutcome(c) /\ stage[c] = "recovered" /\ Answers(c, "completed")
        \/ RecordOutcome(c) /\ Answers(c, "failed")
        \/ RecordFails(c) /\ Answers(c, "failed")
    BY <1>8 DEF RecordOutcome, RecordFails
  <2> QED BY <2>1, <2>2, <2>3 DEF GetsOn
<1> QED BY <1>3, <1>4, <1>5, <1>6, <1>7, <1>8 DEF ReconcileStep

\* Histories only grow, at their end.
Grow == \A r \in Runs : /\ Len(history'[r]) >= Len(history[r])
                        /\ \A i \in DOMAIN history[r] : i \in DOMAIN history'[r] /\ history'[r][i] = history[r][i]

LEMMA TransitionGrows ==
    ASSUME Typed, NEW r \in Runs, NEW s, NEW t, NEW b, Transition(r, s, t, b)
    PROVE  /\ Grow
           /\ Len(history'[r]) = Len(history[r]) + 1
           /\ DOMAIN history'[r] = 1 .. Len(history[r]) + 1 /\ DOMAIN history[r] = 1 .. Len(history[r])
           /\ history'[r][Len(history[r]) + 1] = [state |-> s, trigger |-> t, by |-> b]
           /\ \A q \in Runs \ {r} : history'[q] = history[q]
<1> DEFINE e == [state |-> s, trigger |-> t, by |-> b]
<1>1. history \in [Runs -> Seq(Entry)]
  BY DEF Typed, TypeOK
<1>2. history' = [history EXCEPT ![r] = Append(history[r], e)]
  BY DEF Transition
<1> HIDE DEF e
<1>3. history'[r] = Append(history[r], e) /\ \A q \in Runs \ {r} : history'[q] = history[q]
  BY <1>1, <1>2
<1>4. \A q \in Runs : Len(history[q]) \in Nat /\ DOMAIN history[q] = 1 .. Len(history[q])
  BY <1>1
<1>5. /\ Len(history'[r]) = Len(history[r]) + 1 /\ DOMAIN history'[r] = 1 .. Len(history[r]) + 1
      /\ history'[r][Len(history[r]) + 1] = e
      /\ \A i \in 1 .. Len(history[r]) : history'[r][i] = history[r][i]
  <2>1. history[r] \in Seq(Entry)
    BY <1>1
  <2>2. history[r] \in Seq(Entry \cup {e}) /\ e \in Entry \cup {e}
    BY <2>1, SeqMonotonic
  <2> QED BY <1>3, <2>2
<1>6. Grow
  <2>1. \A i \in DOMAIN history[r] : i \in DOMAIN history'[r] /\ history'[r][i] = history[r][i]
    <3>1. DOMAIN history[r] = 1 .. Len(history[r]) /\ Len(history[r]) \in Nat
      BY <1>4
    <3> QED BY <1>5, <3>1
  <2> QED BY <1>3, <2>1 DEF Grow
<1>7. DOMAIN history[r] = 1 .. Len(history[r])
  BY <1>4
<1> QED BY <1>3, <1>5, <1>6, <1>7 DEF e

LEMMA HistoryGrows == ASSUME Typed, [Next]_vars PROVE Grow
<1> USE DEF stores, plane, saved, builds, routes, work, ghosts
<1>1. history \in [Runs -> Seq(Entry)]
  BY DEF Typed, TypeOK
<1>2. ASSUME UNCHANGED history PROVE Grow
  <2>1. \A r \in Runs : Len(history[r]) \in Nat
    BY <1>1
  <2> QED BY <1>2, <2>1 DEF Grow
<1>3. ASSUME NEW q \in Requests, NEW r \in Runs, Tag(q, r) PROVE Grow
  BY <1>3, TransitionGrows DEF Tag
<1>4. ASSUME NEW c \in Reconciles, ReconcileStep(c) PROVE Grow
  <2>1. CASE Reconcile(c) \/ Check(c) \/ LookUp(c) \/ StartRun(c) \/ StartFails(c)
    BY <1>2, <2>1 DEF Reconcile, Check, LookUp, StartRun, StartFails
  <2>2. CASE PollFails(c) \/ MarkRecoveredFails(c) \/ RecordOutcome(c) \/ RecordFails(c)
    BY <1>2, <2>2 DEF PollFails, MarkRecoveredFails, RecordOutcome, RecordFails
  <2>3. CASE MarkRecovered(c)
    <3>1. stage[c] = "polling"
      BY <2>3 DEF MarkRecovered, At
    <3>2. job[c] \in Job
      BY <3>1 DEF Typed, TypeOK, JobTyped, Reconciling
    <3>3. job[c].stale \in Runs
      BY <3>2 DEF Job
    <3> QED BY <1>2, <2>3, <3>3, TransitionGrows DEF MarkRecovered
  <2> QED BY <1>4, <2>1, <2>2, <2>3 DEF ReconcileStep
<1>5. Crash => UNCHANGED history
  BY DEF Crash
<1>6. Plain => UNCHANGED history
  BY Frames DEF Rest
<1> QED BY <1>2, <1>3, <1>4, <1>5, <1>6, Frames DEF Next, Plain

(***************************************************************************)
(* How long a Run's history was.  A request that is past its check counts  *)
(* the tags there were; one that has marked the Run has made it longer; so *)
(* the next one counts more.                                               *)
(***************************************************************************)
Checked == {"checked", "starting"} \cup Started
Counted ==
    \A c \in Reconciles :
        /\ stage[c] \in Checked => length[c] <= Len(history[job[c].stale])
        /\ stage[c] \in {"recovered", "completed"} => length[c] < Len(history[job[c].stale])
Apart ==
    \A c, d \in Reconciles :
        c # d /\ stage[c] = "completed" /\ stage[d] \in Checked /\ job[c].stale = job[d].stale
        => length[c] # length[d]

LEMMA CountStep ==
    ASSUME Typed, Serial, Counted, Apart, [Next]_vars
    PROVE  Counted' /\ Apart'
<1> USE DEF stores, plane, saved, builds, routes, work, ghosts
<1>1. /\ history \in [Runs -> Seq(Entry)] /\ stage \in [Reconciles -> Stages]
      /\ job \in [Reconciles -> Job \cup {None}] /\ length \in [Reconciles -> Nat]
      /\ \A r \in Runs : Len(history[r]) \in Nat
      /\ \A r \in Runs : Len(history'[r]) \in Nat
  <2>1. Typed'
    BY TypeAndTurnStep
  <2> QED BY <2>1 DEF Typed, TypeOK, Stages
<1>2. Grow
  BY HistoryGrows
<1>3. \A c \in Reconciles : stage[c] \in Checked => job[c].stale \in Runs
  BY <1>1 DEF Typed, JobTyped, Checked, Started, Reconciling, Job
<1>4. ASSUME UNCHANGED <<stage, job, length>> PROVE Counted' /\ Apart'
  <2>1. \A c \in Reconciles : stage[c] \in Checked => Len(history'[job[c].stale]) >= Len(history[job[c].stale])
    BY <1>2, <1>3 DEF Grow
  <2>2. Counted'
    BY <1>1, <1>3, <1>4, <2>1 DEF Counted, Checked, Started
  <2> QED BY <1>4, <2>2 DEF Apart
\* The requests but c stay as they are, and count as they did.
<1>5. ASSUME NEW c \in Reconciles, NEW s, stage' = [stage EXCEPT ![c] = s],
             \A d \in Reconciles \ {c} : job'[d] = job[d] /\ length'[d] = length[d],
             s \in Checked => /\ length'[c] <= Len(history'[job'[c].stale])
                              /\ s \in {"recovered", "completed"} => length'[c] < Len(history'[job'[c].stale])
      PROVE  Counted'
  <2>1. ASSUME NEW d \in Reconciles, d # c, stage'[d] \in Checked
        PROVE  /\ length'[d] <= Len(history'[job'[d].stale])
               /\ stage'[d] \in {"recovered", "completed"} => length'[d] < Len(history'[job'[d].stale])
    <3>1. stage'[d] = stage[d] /\ job'[d] = job[d] /\ length'[d] = length[d]
      BY <1>1, <1>5, <2>1
    <3>2. job[d].stale \in Runs /\ Len(history'[job[d].stale]) >= Len(history[job[d].stale])
      BY <1>2, <1>3, <2>1, <3>1 DEF Grow
    <3>3. /\ length[d] <= Len(history[job[d].stale])
          /\ stage[d] \in {"recovered", "completed"} => length[d] < Len(history[job[d].stale])
      BY <2>1, <3>1 DEF Counted
    <3>4. /\ length[d] \in Nat /\ Len(history[job[d].stale]) \in Nat
          /\ Len(history'[job[d].stale]) \in Nat
      BY <1>1, <3>2
    <3>5. /\ length[d] <= Len(history'[job[d].stale])
          /\ stage[d] \in {"recovered", "completed"} => length[d] < Len(history'[job[d].stale])
      BY <3>2, <3>3, <3>4
    <3> QED BY <3>1, <3>5
  <2>2. stage'[c] = s
    BY <1>1, <1>5
  <2>3. {"recovered", "completed"} \subseteq Checked
    BY DEF Checked, Started
  <2>4. ASSUME stage'[c] \in Checked
        PROVE  /\ length'[c] <= Len(history'[job'[c].stale])
               /\ stage'[c] \in {"recovered", "completed"} => length'[c] < Len(history'[job'[c].stale])
    <3>1. s \in Checked
      BY <2>2, <2>4
    <3>2. /\ length'[c] <= Len(history'[job'[c].stale])
          /\ s \in {"recovered", "completed"} => length'[c] < Len(history'[job'[c].stale])
      BY <1>5, <3>1
    <3> QED BY <2>2, <3>2
  <2>5. \A d \in Reconciles : stage'[d] \in {"recovered", "completed"} => stage'[d] \in Checked
    BY <2>3
  <2> QED BY <2>1, <2>4, <2>5 DEF Counted
<1>6. ASSUME NEW c \in Reconciles, NEW s, stage' = [stage EXCEPT ![c] = s], s # "completed",
             \A d \in Reconciles \ {c} : job'[d] = job[d] /\ length'[d] = length[d],
             s \in Checked => \A d \in Reconciles \ {c} :
                 stage[d] = "completed" /\ job[d].stale = job'[c].stale => length[d] # length'[c]
      PROVE  Apart'
  BY <1>1, <1>6 DEF Apart
<1>7. ASSUME NEW c \in Reconciles, Reconcile(c) PROVE Counted' /\ Apart'
  <2>1. stage' = [stage EXCEPT ![c] = "queued"] /\ UNCHANGED length /\ \A d \in Reconciles \ {c} : job'[d] = job[d]
    BY <1>1, <1>7 DEF Reconcile
  <2>2. "queued" \notin Checked
    BY DEF Checked, Started
  <2> QED BY <1>5, <1>6, <2>1, <2>2
<1>8. ASSUME NEW c \in Reconciles, IsRejected(c) PROVE Counted' /\ Apart'
  <2>1. stage' = [stage EXCEPT ![c] = "rejected"] /\ UNCHANGED length /\ \A d \in Reconciles \ {c} : job'[d] = job[d]
    BY <1>1, <1>8 DEF IsRejected
  <2>2. "rejected" \notin Checked
    BY DEF Checked, Started
  <2> QED BY <1>5, <1>6, <2>1, <2>2
<1>9. ASSUME NEW c \in Reconciles, Check(c), GetsOn(c, "checked") PROVE Counted' /\ Apart'
  <2>1. length' = [length EXCEPT ![c] = Len(history[job[c].stale])] /\ UNCHANGED history
    <3>1. stage'[c] = "checked"
      BY <1>1, <1>9 DEF GetsOn
    <3> QED BY <1>1, <1>9, <3>1 DEF Check, Rejects, Answers
  <2>2. stage' = [stage EXCEPT ![c] = "checked"] /\ job' = job /\ job[c].stale \in Runs
    BY <1>9 DEF GetsOn
  <2>3. ASSUME NEW d \in Reconciles \ {c}, stage[d] = "completed", job[d].stale = job[c].stale
        PROVE  length[d] # length'[c]
    BY <1>1, <2>1, <2>2, <2>3 DEF Counted
  <2>4. length'[c] <= Len(history'[job'[c].stale])
    BY <1>1, <2>1, <2>2
  <2>5. Counted'
    BY <1>1, <1>5, <2>1, <2>2, <2>4
  <2> QED BY <1>1, <1>6, <2>1, <2>2, <2>3, <2>5
\* From then on the count stays.
<1>10. ASSUME NEW c \in Reconciles, NEW s, GetsOn(c, s), s \notin {"checked", "completed"},
              s = "recovered" => length[c] < Len(history'[job[c].stale])
       PROVE  Counted' /\ Apart'
  <2>1. /\ stage' = [stage EXCEPT ![c] = s] /\ UNCHANGED length
        /\ \A d \in Reconciles \ {c} : job'[d] = job[d]
        /\ job'[c].stale = job[c].stale
    BY <1>10 DEF GetsOn
  <2>2. s \in Checked => stage[c] \in Checked
    BY <1>10 DEF GetsOn, Forward, Checked, Started
  <2>3. s \in Checked => length'[c] <= Len(history'[job'[c].stale])
    <3>1. ASSUME stage[c] \in Checked PROVE length[c] <= Len(history'[job[c].stale])
      <4>1. job[c].stale \in Runs /\ length[c] <= Len(history[job[c].stale])
        BY <1>3, <3>1 DEF Counted
      <4>2. Len(history'[job[c].stale]) >= Len(history[job[c].stale])
        BY <1>2, <4>1 DEF Grow
      <4>3. /\ length[c] \in Nat /\ Len(history[job[c].stale]) \in Nat
            /\ Len(history'[job[c].stale]) \in Nat
        BY <1>1, <4>1
      <4> QED BY <4>1, <4>2, <4>3
    <3>2. length'[c] = length[c] /\ Len(history'[job'[c].stale]) = Len(history'[job[c].stale])
      BY <2>1
    <3> QED BY <2>2, <3>1, <3>2
  <2>4. ASSUME s \in {"recovered", "completed"} PROVE length'[c] < Len(history'[job'[c].stale])
    <3>1. s = "recovered" /\ length'[c] = length[c]
      BY <1>10, <2>1, <2>4
    <3>2. length[c] < Len(history'[job[c].stale])
      BY <1>10, <3>1
    <3>3. Len(history'[job'[c].stale]) = Len(history'[job[c].stale])
      BY <2>1
    <3> QED BY <3>1, <3>2, <3>3
  <2>6. Counted'
    BY <1>5, <2>1, <2>3, <2>4
  <2>5. s \in Checked => \A d \in Reconciles \ {c} :
                 stage[d] = "completed" /\ job[d].stale = job'[c].stale => length[d] # length'[c]
    BY <2>1, <2>2 DEF Apart
  <2> QED BY <1>6, <1>10, <2>1, <2>5, <2>6
<1>11. ASSUME NEW c \in Reconciles, MarkRecovered(c), GetsOn(c, "recovered") PROVE Counted' /\ Apart'
  <2>1. job[c].stale \in Runs /\ stage[c] = "polling" /\ stage'[c] = "recovered"
    BY <1>1, <1>11 DEF GetsOn, MarkRecovered, At
  <2>2. Transition(job[c].stale, "RECOVERED", None, job[c].replacement)
    BY <1>1, <1>11, <2>1 DEF MarkRecovered, Moves
  <2>3. Len(history'[job[c].stale]) = Len(history[job[c].stale]) + 1
    BY <2>1, <2>2, TransitionGrows
  <2>4. length[c] <= Len(history[job[c].stale])
    BY <2>1 DEF Counted, Checked, Started
  <2>5. length[c] < Len(history'[job[c].stale])
    <3>1. length[c] \in Nat /\ Len(history[job[c].stale]) \in Nat
      BY <1>1, <2>1
    <3> QED BY <2>3, <2>4, <3>1
  <2> QED BY <1>10, <1>11, <2>5
<1>12. ASSUME NEW c \in Reconciles, GetsOn(c, "completed"), UNCHANGED history, Turn(c) PROVE Counted' /\ Apart'
  <2>1. /\ stage' = [stage EXCEPT ![c] = "completed"] /\ UNCHANGED length /\ job' = job
        /\ stage[c] = "recovered"
    BY <1>12 DEF GetsOn, Forward
  <2>2. Counted'
    BY <1>5, <1>12, <2>1 DEF Counted, Checked, Started
  <2>3. ASSUME NEW d \in Reconciles \ {c}, stage[d] \in Checked PROVE stage[d] = "completed"
    <3>1. Head(queue) = c
      BY <1>12 DEF Turn
    <3> QED BY <2>3, <3>1 DEF Serial, Checked, Started, Reconciling
  <2>4. Apart'
    BY <1>1, <2>1, <2>3 DEF Apart, Checked, Started
  <2> QED BY <2>2, <2>4
<1>13. ASSUME NEW c \in Reconciles, ReconcileStep(c) PROVE Counted' /\ Apart'
  <2>1. ASSUME RecordOutcome(c), NEW s \in {"failed", "completed"}, GetsOn(c, s) PROVE Counted' /\ Apart'
    <3>1. UNCHANGED history /\ Turn(c)
      BY <2>1 DEF RecordOutcome, At
    <3> QED BY <1>10, <1>12, <2>1, <3>1
  <2> QED BY <1>7, <1>8, <1>9, <1>10, <1>11, <1>13, <2>1, ReconcileSteps
<1>14. ASSUME Crash PROVE Counted' /\ Apart'
  <2>1. /\ UNCHANGED <<history, job, length>>
        /\ \A c \in Reconciles : stage'[c] \in Checked => stage[c] = "completed" /\ stage'[c] = "completed"
    BY <1>1, <1>14 DEF Crash, Checked, Started, Reconciling
  <2>2. Counted'
    BY <2>1 DEF Counted, Checked, Started
  <2> QED BY <2>1, <2>2 DEF Apart, Checked, Started
<1>15. Plain => UNCHANGED <<stage, job, length>>
  BY Frames DEF Rest
<1> QED BY <1>4, <1>13, <1>14, <1>15, Frames DEF Next, Plain

LEMMA CountsHold == Spec => [](Typed /\ Serial /\ Counted /\ Apart)
<1>1. Init => Counted /\ Apart
  BY DEF Init, Counted, Apart, Checked, Started
<1>2. Typed /\ Serial /\ Counted /\ Apart /\ [Next]_vars => (Typed /\ Serial /\ Counted /\ Apart)'
  BY TypeAndTurnStep, CountStep
<1> QED BY TypeInit, SerialInit, <1>1, <1>2, PTL DEF Spec

\* However requests to reconcile, tags, builds and crashes interleave, a Run is not replaced
\* twice on account of the same tags.
THEOREM ReplacedOncePerTag == Spec => []OneReplacementPerTag
<1>1. ASSUME Typed, Serial, Apart PROVE OneReplacementPerTag
  <2>1. ASSUME NEW c \in Reconciles, job[c] # None, job[c].replacement # None, stage[c] # "failed"
        PROVE  stage[c] \in Started
    BY <1>1, <2>1 DEF Typed, JobTyped, TypeOK, Started, Reconciling
  <2>2. ASSUME NEW c \in Reconciles, NEW d \in Reconciles, c # d, stage[c] \in Started, stage[d] \in Started
        PROVE  stage[c] = "completed" \/ stage[d] = "completed"
    BY <1>1, <2>2 DEF Serial, Started, Reconciling
  <2> QED BY <1>1, <2>1, <2>2 DEF Apart, OneReplacementPerTag, Checked
<1> QED BY CountsHold, <1>1, PTL
=============================================================================
