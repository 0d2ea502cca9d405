------------------------ MODULE AgentLifecycleProofs ------------------------
(***************************************************************************)
(* Proofs about AgentLifecycle, for any number of Agents, Runs, Clients,   *)
(* any bound on the faults, and with or without crashes.                   *)
(***************************************************************************)
EXTENDS AgentLifecycle, TLAPS

\* Every helper and group of variables an action is written with.
USE DEF store, audit, runner, control, clients, faults, disk, env, vars,
        SkipRejected, ExecutionOver, Purge, RunnerFree, HandleOutbox, Interrupted

\* The queue of mutations stays a sequence of actors.
LEMMA QueueTyping ==
    ASSUME NEW S, NEW q \in Seq(S), NEW x \in S
    PROVE  /\ Append(q, x) \in Seq(S)
           /\ q # << >> => /\ Head(q) \in S
                           /\ Tail(q) \in Seq(S)
                           /\ Append(Tail(q), x) \in Seq(S)
  OBVIOUS

\* What a request knows while it is under way: what it asks, of which Agent,
\* and the Run it brings or waits for.
RequestsTyped ==
    \A c \in Clients :
        /\ phase[c] # "idle" => target[c] \in Agents
        /\ phase[c] \in {"settling", "awaiting", "archiving"} => op[c] \in {"stop", "delete"}
        /\ phase[c] \in {"settling", "awaiting"} => held[c] \in Runs
        /\ op[c] = "send" => phase[c] = "queued" /\ held[c] \in Runs

\* The initial state is typed.
LEMMA TypeInit == Init => TypeOK
  BY IdsAssumption, BoundsAssumption
  DEF Init, TypeOK, AgentStatus, RunStatus, ExecPhases, Over, ClientPhases

\* What joining an execution leaves of the request's and the queue's types.
LEMMA JoinTyping ==
    ASSUME TypeOK, NEW c \in Clients, NEW a \in Agents,
           NEW request \in {"stop", "delete"}, JoinExecution(c, request, a)
    PROVE  /\ phase' \in [Clients -> ClientPhases]
           /\ held' \in [Clients -> Runs \cup {NoRun}]
           /\ cancellationRequests' \in SUBSET Agents
           /\ queue' \in Seq(Clients \cup Runs)
<1>1. c \in Clients \cup Runs
  OBVIOUS
<1>2. Append(queue, c) \in Seq(Clients \cup Runs)
  BY <1>1, QueueTyping DEF TypeOK
<1>3. CASE executions[a] # NoRun
  BY <1>3 DEF TypeOK, ClientPhases, JoinExecution
<1>4. CASE executions[a] = NoRun
  <2>1. held' \in [Clients -> Runs \cup {NoRun}]
    BY <1>4 DEF TypeOK, JoinExecution
  <2>2. Proceed(c, request, a)
    BY <1>4 DEF JoinExecution
  <2> QED BY <1>2, <2>1, <2>2 DEF TypeOK, ClientPhases, Proceed, Enqueue
<1> QED BY <1>3, <1>4

\* A new request keeps the types.
LEMMA TypeRequest ==
    ASSUME TypeOK, NEW c \in Clients, ClientRequest(c)
    PROVE  TypeOK'
<1> PICK a \in Agents : \/ Create(c, a) \/ Start(c, a)
                        \/ Cancel(c, "stop", a) \/ Cancel(c, "delete", a)
                        \/ \E r \in Runs : Send(c, a, r)
  BY DEF ClientRequest
<1> USE DEF TypeOK, ClientPhases, AllOps
<1>1. CASE Create(c, a)
  BY <1>1, QueueTyping DEF Create, Begin, Enqueue
<1>2. CASE Start(c, a)
  BY <1>2, QueueTyping DEF Start, Begin, Enqueue
<1>3. ASSUME NEW request \in {"stop", "delete"}, Cancel(c, request, a)
      PROVE  TypeOK'
  <2>1. CASE KillProcess(c, a)
    BY <1>3, <2>1 DEF Cancel, KillProcess
  <2>2. CASE active[a] = NoRun /\ JoinExecution(c, request, a) /\ UNCHANGED killed
    BY <1>3, <2>2, JoinTyping DEF Cancel
  <2> QED BY <1>3, <2>1, <2>2 DEF Cancel
<1>4. ASSUME NEW r \in Runs, Send(c, a, r)
      PROVE  TypeOK'
  BY <1>4, QueueTyping DEF Send, Begin, Enqueue
<1> QED BY <1>1, <1>2, <1>3, <1>4

\* So does every later step of a request.
LEMMA TypeClientStep ==
    ASSUME TypeOK, RequestsTyped, NEW c \in Clients, ClientStep(c)
    PROVE  TypeOK'
<1>1. /\ queue # << >> => Tail(queue) \in Seq(Clients \cup Runs)
      /\ Append(queue, c) \in Seq(Clients \cup Runs)
      /\ \A r \in Runs : queue # << >> => Append(Tail(queue), r) \in Seq(Clients \cup Runs)
  BY QueueTyping DEF TypeOK
<1>2. CASE CommitCreate(c)
  BY <1>1, <1>2 DEF CommitCreate, Turn, InTurn, Dequeue, Answer, TypeOK,
                    AgentStatus, ClientPhases
<1>3. CASE AdmitRun(c)
  <2>1. held[c] \in Runs /\ target[c] \in Agents
    BY <1>3 DEF AdmitRun, Turn, RequestsTyped
  <2> QED BY <1>1, <1>3, <2>1
          DEF AdmitRun, Turn, InTurn, Answer, TypeOK, AgentStatus, RunStatus,
              ActiveStatus, ClientPhases, ExecPhases, Undecided
<1>4. CASE Refuse(c)
  BY <1>1, <1>4 DEF Refuse, InTurn, Dequeue, Answer, TypeOK, ClientPhases
<1>5. CASE CommitStatus(c)
  BY <1>1, <1>5 DEF CommitStatus, Turn, InTurn, Dequeue, Answer, TypeOK,
                    AgentStatus, ClientPhases
<1>6. CASE Settled(c)
  <2>1. target[c] \in Agents /\ op[c] \in {"stop", "delete"}
    BY <1>6 DEF Settled, RequestsTyped
  <2> QED BY <1>6, <2>1, JoinTyping DEF Settled, TypeOK
<1>7. CASE Joined(c)
  BY <1>1, <1>7 DEF Joined, Proceed, Enqueue, TypeOK, ClientPhases
<1>8. CASE JoinRejected(c)
  BY <1>8 DEF JoinRejected, Answer, TypeOK, ClientPhases
<1>9. CASE Archive(c)
  BY <1>1, <1>9 DEF Archive, Enqueue, TypeOK, ClientPhases
<1>10. CASE ArchiveFails(c)
  BY <1>10 DEF ArchiveFails, Answer, TypeOK, ClientPhases
<1>11. CASE CommitDelete(c)
  BY <1>1, <1>11 DEF CommitDelete, Turn, InTurn, Dequeue, Answer, TypeOK,
                     AgentStatus, RunStatus, ClientPhases
<1> QED BY <1>2, <1>3, <1>4, <1>5, <1>6, <1>7, <1>8, <1>9, <1>10, <1>11
        DEF ClientStep

\* So does every step of an execution.
LEMMA TypeRunStep ==
    ASSUME TypeOK, NEW r \in Runs, RunStep(r)
    PROVE  TypeOK'
<1>1. /\ queue # << >> => /\ Tail(queue) \in Seq(Clients \cup Runs)
                          /\ Append(Tail(queue), r) \in Seq(Clients \cup Runs)
      /\ Append(queue, r) \in Seq(Clients \cup Runs)
  BY QueueTyping DEF TypeOK
<1> USE DEF TypeOK, ExecPhases, Over, Undecided, Goto, Catch, InTurn, Enqueue, Dequeue
<1>2. CASE CommitStart(r)
  <2>1. run' \in [Runs -> RunStatus]
    BY <1>2 DEF CommitStart, RunStatus, ActiveStatus
  <2>2. CASE Catch(r, "cancelled") /\ queue' = Append(Tail(queue), r)
    BY <1>1, <1>2, <2>1, <2>2 DEF CommitStart
  <2>3. CASE Goto(r, "preparing") /\ Dequeue /\ UNCHANGED outcome
    BY <1>1, <1>2, <2>1, <2>3 DEF CommitStart
  <2> QED BY <1>2, <2>2, <2>3 DEF CommitStart
<1>3. CASE Prepare(r) \/ FinalizeCapsule(r)
  <2>1. ledger' \in [Runs -> SUBSET EventKinds]
    BY <1>3 DEF Prepare, FinalizeCapsule, Record, EventKinds
  <2>2. exec' \in [Runs -> ExecPhases]
    BY <1>3 DEF Prepare, FinalizeCapsule
  <2> QED BY <1>3, <2>1, <2>2 DEF Prepare, FinalizeCapsule
<1>4. CASE Build(r)
  BY <1>1, <1>4 DEF Build
<1>5. CASE RecordDenial(r)
  BY <1>1, <1>5 DEF RecordDenial, Record, EventKinds, VerdictEvents
<1>6. CASE CommitRefusal(r)
  BY <1>1, <1>6 DEF CommitRefusal, RunBecomes, AgentAfter, Finish, RunStatus,
                    Verdicts, AgentStatus
<1>7. CASE Launch(r)
  BY <1>7 DEF Launch
<1>8. CASE WorkspaceGone(r) \/ DiffAfterError(r)
  <2>1. CASE WorkspaceGone(r)
    BY <1>1, <2>1 DEF WorkspaceGone
  <2>2. CASE DiffAfterError(r)
    BY <1>1, <2>2 DEF DiffAfterError
  <2> QED BY <1>8, <2>1, <2>2
<1>9. CASE Close(r) \/ Drain(r)
  <2>1. CASE Close(r)
    BY <2>1 DEF Close
  <2>2. CASE Drain(r)
    BY <2>2 DEF Drain
  <2> QED BY <1>9, <2>1, <2>2
<1>10. CASE Diff(r) \/ Outbox(r)
  <2>1. CASE Diff(r)
    BY <1>1, <2>1 DEF Diff
  <2>2. CASE Outbox(r)
    BY <1>1, <2>2 DEF Outbox
  <2> QED BY <1>10, <2>1, <2>2
<1>11. CASE CommitComplete(r)
  <2>1. run' \in [Runs -> RunStatus]
    BY <1>11 DEF CommitComplete, RunStatus, Verdicts
  <2>2. agent' \in [Agents -> AgentStatus]
    BY <1>11 DEF CommitComplete, AgentStatus
  <2>3. exec' \in [Runs -> ExecPhases]
    BY <1>11 DEF CommitComplete
  <2>4. queue' \in Seq(Clients \cup Runs)
    BY <1>1, <1>11 DEF CommitComplete
  <2> QED BY <1>11, <2>1, <2>2, <2>3, <2>4 DEF CommitComplete
<1>12. CASE RecordCompletion(r)
  BY <1>12 DEF RecordCompletion, Record, Finish, EventKinds, VerdictEvents
<1>13. CASE CommitFailure(r)
  BY <1>1, <1>13 DEF CommitFailure, RunBecomes, AgentAfter, RunStatus, Verdicts,
                     AgentStatus
<1>14. CASE RecordFailure(r)
  BY <1>14 DEF RecordFailure, Record, Finish, EventKinds, VerdictEvents
<1> QED BY <1>2, <1>3, <1>4, <1>5, <1>6, <1>7, <1>8, <1>9, <1>10, <1>11, <1>12,
           <1>13, <1>14 DEF RunStep

\* So do failing writes and the death of the server.
LEMMA TypeFault ==
    ASSUME TypeOK, Fault
    PROVE  TypeOK'
<1> USE BoundsAssumption
        DEF TypeOK, ExecPhases, Over, Undecided, ClientPhases, Goto, Catch, Finish,
            InTurn, Enqueue, Dequeue
<1>1. \A x \in Clients \cup Runs :
          /\ Append(queue, x) \in Seq(Clients \cup Runs)
          /\ queue # << >> => /\ Tail(queue) \in Seq(Clients \cup Runs)
                              /\ Append(Tail(queue), x) \in Seq(Clients \cup Runs)
  BY QueueTyping
<1>2. PersistFails => storeFaults' \in 0 .. MaxStoreFaults
  BY DEF PersistFails
<1>3. ASSUME NEW c \in Clients, StoreFaultOfRequest(c)
      PROVE  TypeOK'
  <2>1. PersistFails /\ queue' \in Seq(Clients \cup Runs)
    BY <1>1, <1>3 DEF StoreFaultOfRequest
  <2> QED BY <1>2, <1>3, <2>1 DEF StoreFaultOfRequest, PersistFails, Answer
<1>4. ASSUME NEW r \in Runs, AuditFault(r) \/ FailureUnrecorded(r)
      PROVE  TypeOK'
  <2>1. auditFaults' \in 0 .. MaxAuditFaults
    BY <1>4 DEF AuditFault, FailureUnrecorded
  <2>2. CASE AuditFault(r)
    BY <1>1, <2>1, <2>2 DEF AuditFault
  <2>3. CASE FailureUnrecorded(r)
    BY <2>1, <2>3 DEF FailureUnrecorded
  <2> QED BY <1>4, <2>2, <2>3
<1>5. ASSUME NEW r \in Runs, StoreFaultInTry(r)
      PROVE  TypeOK'
  BY <1>1, <1>2, <1>5 DEF StoreFaultInTry, PersistFails
<1>6. ASSUME NEW r \in Runs, StoreFaultOutsideTry(r)
      PROVE  TypeOK'
  BY <1>1, <1>2, <1>6 DEF StoreFaultOutsideTry, PersistFails
<1>7. CASE Crash
  <2>1. exec' \in [Runs -> ExecPhases]
    BY <1>7 DEF Crash
  <2>2. queue' \in Seq(Clients \cup Runs)
    BY <1>7 DEF Crash
  <2>3. /\ phase' \in [Clients -> ClientPhases]
        /\ op' \in [Clients -> AllOps \cup {"none"}]
        /\ target' \in [Clients -> Agents \cup {NoAgent}]
        /\ held' \in [Clients -> Runs \cup {NoRun}]
    BY <1>7 DEF Crash
  <2>4. /\ executions' \in [Agents -> Runs \cup {NoRun}]
        /\ cancellationRequests' \in SUBSET Agents
        /\ active' \in [Agents -> Runs \cup {NoRun}]
        /\ killed' \in SUBSET Runs
        /\ up' \in BOOLEAN
        /\ orphans' \in SUBSET Runs
    BY <1>7 DEF Crash
  <2>5. UNCHANGED <<store, workspace, audit, outcome, faults>>
    BY <1>7 DEF Crash
  <2> QED BY <2>1, <2>2, <2>3, <2>4, <2>5
<1> QED BY <1>3, <1>4, <1>5, <1>6, <1>7 DEF Fault

\* A request under way has a target, and one that needs a Run holds one.
LEMMA RequestsTypedStep ==
    ASSUME TypeOK, RequestsTyped, Next
    PROVE  RequestsTyped'
<1> USE DEF RequestsTyped, TypeOK, ClientPhases
<1>1. ASSUME NEW c \in Clients, ClientRequest(c)
      PROVE  RequestsTyped'
  <2> PICK a \in Agents : \/ Create(c, a) \/ Start(c, a)
                          \/ Cancel(c, "stop", a) \/ Cancel(c, "delete", a)
                          \/ \E r \in Runs : Send(c, a, r)
    BY <1>1 DEF ClientRequest
  <2>1. CASE Create(c, a) \/ Start(c, a)
    BY <2>1 DEF Create, Start, Begin
  <2>2. ASSUME NEW request \in {"stop", "delete"}, Cancel(c, request, a)
        PROVE  RequestsTyped'
    <3>1. CASE KillProcess(c, a)
      BY <2>2, <3>1 DEF Cancel, KillProcess
    <3>2. CASE JoinExecution(c, request, a)
      BY <2>2, <3>2 DEF Cancel, JoinExecution, Proceed
    <3> QED BY <2>2, <3>1, <3>2 DEF Cancel
  <2>3. ASSUME NEW r \in Runs, Send(c, a, r)
        PROVE  RequestsTyped'
    BY <2>3 DEF Send, Begin
  <2> QED BY <2>1, <2>2, <2>3
<1>2. ASSUME NEW c \in Clients, ClientStep(c)
      PROVE  RequestsTyped'
  <2>1. CASE \/ CommitCreate(c) \/ AdmitRun(c) \/ Refuse(c) \/ CommitStatus(c)
             \/ JoinRejected(c) \/ ArchiveFails(c) \/ CommitDelete(c)
    BY <2>1 DEF CommitCreate, AdmitRun, Refuse, CommitStatus, JoinRejected,
                ArchiveFails, CommitDelete, Answer
  <2>2. CASE Settled(c)
    BY <2>2 DEF Settled, JoinExecution, Proceed
  <2>3. CASE Joined(c)
    BY <2>3 DEF Joined, Proceed
  <2>4. CASE Archive(c)
    BY <2>4 DEF Archive
  <2> QED BY <1>2, <2>1, <2>2, <2>3, <2>4 DEF ClientStep
<1>3. ASSUME UNCHANGED clients
      PROVE  RequestsTyped'
  BY <1>3
<1>4. ASSUME NEW r \in Runs, RunStep(r)
      PROVE  UNCHANGED clients
  BY <1>4
  DEF RunStep, CommitStart, Prepare, Build, RecordDenial, CommitRefusal,
      FinalizeCapsule, Launch, WorkspaceGone, Close, Drain, DiffAfterError, Diff,
      Outbox, CommitComplete, RecordCompletion, CommitFailure, RecordFailure
<1>5. ASSUME NEW c \in Clients, StoreFaultOfRequest(c)
      PROVE  RequestsTyped'
  BY <1>5 DEF StoreFaultOfRequest, Answer
<1>6. ASSUME NEW r \in Runs,
             \/ AuditFault(r) \/ FailureUnrecorded(r)
             \/ StoreFaultInTry(r) \/ StoreFaultOutsideTry(r)
      PROVE  UNCHANGED clients
  BY <1>6 DEF AuditFault, FailureUnrecorded, StoreFaultInTry, StoreFaultOutsideTry
<1>7. CASE Crash
  BY <1>7 DEF Crash
<1>8. CASE Initialize
  BY <1>8, <1>3 DEF Initialize
<1>o. ASSUME NEW r \in Runs, OrphanEnds(r)
      PROVE  UNCHANGED clients
  BY <1>o DEF OrphanEnds
<1> QED BY <1>1, <1>2, <1>3, <1>4, <1>5, <1>6, <1>7, <1>8, <1>o DEF Next, Fault

Typed == TypeOK /\ RequestsTyped

\* Both halves of the typing invariant together.
LEMMA TypedStep == Typed /\ [Next]_vars => Typed'
<1> SUFFICES ASSUME TypeOK, RequestsTyped, [Next]_vars
             PROVE  Typed'
  BY DEF Typed
<1>1. CASE Next
  <2>1. TypeOK'
    <3>1. Initialize => TypeOK'
      BY DEF Initialize, TypeOK, RunStatus, Verdicts, AgentStatus
    <3>o. ASSUME NEW r \in Runs, OrphanEnds(r)
          PROVE  TypeOK'
      BY <3>o DEF OrphanEnds, TypeOK
    <3> QED BY <1>1, <3>1, TypeRequest, TypeClientStep, TypeRunStep, TypeFault, <3>o DEF Next
  <2>2. RequestsTyped'
    BY <1>1, RequestsTypedStep
  <2> QED BY <2>1, <2>2 DEF Typed
<1>2. CASE UNCHANGED vars
  BY <1>2 DEF Typed, TypeOK, RequestsTyped
<1> QED BY <1>1, <1>2

\* Type correctness: every variable of AgentService, its store, its runner and
\* its requests keeps the shape the code gives it.
THEOREM TypeCorrect == Spec => []TypeOK
<1>1. Init => Typed
  BY TypeInit DEF Typed, Init, RequestsTyped
<1>2. Typed => TypeOK
  BY DEF Typed
<1> QED BY <1>1, <1>2, TypedStep, PTL DEF Spec

(***************************************************************************)
(* The store.  BusyHasActiveRun is not inductive: that the Run a mutation  *)
(* ends cannot be the one that keeps another Agent busy, nor a Run being   *)
(* admitted one that already is, needs the ids of waiting messages to be   *)
(* unused (FreshSends); ActiveRunIsExecuted needs the phases that follow   *)
(* the verdict to find none still missing (DecidedRuns).                   *)
(***************************************************************************)
FreshSends ==
    /\ \A c \in Clients : op[c] = "send" => run[held[c]] = "unused"
    /\ \A c, d \in Clients :
           op[c] = "send" /\ op[d] = "send" /\ held[c] = held[d] => c = d
    /\ \A r \in Runs : run[r] = "unused" => owner[r] = NoAgent /\ exec[r] = "none"

DecidedRuns ==
    \A r \in Runs : exec[r] \in {"logging", "logFailure"} => run[r] \notin ActiveStatus

StoreInv ==
    /\ FreshSends
    /\ ListedRunHasAgent
    /\ BusyHasActiveRun
    /\ DecidedRuns
    /\ ActiveRunIsExecuted

\* The steps that write the store.
LEMMA StoreSteps ==
    ASSUME Next
    PROVE  \/ UNCHANGED store
           \/ \E c \in Clients :
                  CommitCreate(c) \/ AdmitRun(c) \/ CommitStatus(c) \/ CommitDelete(c)
           \/ \E r \in Runs :
                  \/ CommitStart(r) \/ CommitRefusal(r) \/ CommitComplete(r)
                  \/ CommitFailure(r)
           \/ Initialize
<1>1. ASSUME NEW c \in Clients, ClientRequest(c)
      PROVE  UNCHANGED store
  BY <1>1 DEF ClientRequest, Create, Start, Cancel, Send
<1>2. ASSUME NEW c \in Clients, ClientStep(c)
      PROVE  \/ UNCHANGED store
             \/ CommitCreate(c) \/ AdmitRun(c) \/ CommitStatus(c) \/ CommitDelete(c)
  BY <1>2 DEF ClientStep, Refuse, Settled, Joined, JoinRejected, Archive, ArchiveFails
<1>3. ASSUME NEW r \in Runs, RunStep(r)
      PROVE  \/ UNCHANGED store
             \/ CommitStart(r) \/ CommitRefusal(r) \/ CommitComplete(r)
             \/ CommitFailure(r)
  BY <1>3
  DEF RunStep, Prepare, Build, RecordDenial, FinalizeCapsule, Launch, WorkspaceGone,
      Close, Drain, DiffAfterError, Diff, Outbox, RecordCompletion, RecordFailure
<1>4. Fault => UNCHANGED store
  BY DEF Fault, StoreFaultOfRequest, AuditFault, FailureUnrecorded, StoreFaultInTry,
         StoreFaultOutsideTry, PersistFails, Crash
<1>o. ASSUME NEW r \in Runs, OrphanEnds(r)
      PROVE  UNCHANGED store
  BY <1>o DEF OrphanEnds
<1> QED BY <1>1, <1>2, <1>3, <1>4, <1>o DEF Next

\* No step lists a Run whose Agent is not in the store.
LEMMA ListedStep ==
    ASSUME Typed, FreshSends, ListedRunHasAgent, Next
    PROVE  ListedRunHasAgent'
<1> USE DEF Typed, TypeOK, ListedRunHasAgent, Listed, Stored
<1>1. ASSUME UNCHANGED store
      PROVE  ListedRunHasAgent'
  BY <1>1
<1>2. ASSUME NEW c \in Clients, CommitCreate(c) \/ CommitStatus(c)
      PROVE  ListedRunHasAgent'
  BY <1>2 DEF CommitCreate, CommitStatus
<1>3. ASSUME NEW c \in Clients, AdmitRun(c)
      PROVE  ListedRunHasAgent'
  BY <1>3 DEF AdmitRun, Turn, RequestsTyped
<1>4. ASSUME NEW c \in Clients, CommitDelete(c)
      PROVE  ListedRunHasAgent'
  BY <1>4 DEF CommitDelete
<1>5. ASSUME NEW r \in Runs,
             CommitStart(r) \/ CommitRefusal(r) \/ CommitComplete(r) \/ CommitFailure(r)
      PROVE  ListedRunHasAgent'
  BY <1>5
  DEF CommitStart, CommitRefusal, CommitComplete, CommitFailure, RunBecomes, AgentAfter
<1>6. Initialize => ListedRunHasAgent'
  BY DEF Initialize, ActiveStatus
<1> QED BY <1>1, <1>2, <1>3, <1>4, <1>5, <1>6, StoreSteps

\* No step leaves an Agent busy without an active Run.
LEMMA BusyStep ==
    ASSUME Typed, FreshSends, ListedRunHasAgent, BusyHasActiveRun, Next
    PROVE  BusyHasActiveRun'
<1> USE DEF Typed, TypeOK, BusyHasActiveRun, ActiveStatus
<1>1. ASSUME UNCHANGED store
      PROVE  BusyHasActiveRun'
  BY <1>1
<1>2. ASSUME NEW c \in Clients, CommitCreate(c) \/ CommitStatus(c)
      PROVE  BusyHasActiveRun'
  BY <1>2 DEF CommitCreate, CommitStatus
<1>3. ASSUME NEW c \in Clients, AdmitRun(c)
      PROVE  BusyHasActiveRun'
  <2>1. /\ held[c] \in Runs /\ target[c] \in Agents
        /\ run[held[c]] = "unused"
    BY <1>3 DEF AdmitRun, Turn, RequestsTyped, FreshSends
  <2>2. ASSUME NEW a \in Agents, agent'[a] = "busy", a # target[c]
        PROVE  \E r \in Runs : owner'[r] = a /\ run'[r] \in ActiveStatus
    <3>1. PICK r \in Runs : owner[r] = a /\ run[r] \in ActiveStatus
      BY <1>3, <2>2 DEF AdmitRun
    <3>2. r # held[c]
      BY <2>1, <3>1
    <3> QED BY <1>3, <3>1, <3>2 DEF AdmitRun
  <2>3. owner'[held[c]] = target[c] /\ run'[held[c]] = "queued"
    BY <1>3, <2>1 DEF AdmitRun
  <2> QED BY <2>1, <2>2, <2>3
<1>4. ASSUME NEW c \in Clients, CommitDelete(c)
      PROVE  BusyHasActiveRun'
  BY <1>4 DEF CommitDelete
<1>5. ASSUME NEW r \in Runs, CommitStart(r)
      PROVE  BusyHasActiveRun'
  BY <1>5 DEF CommitStart
<1>6. ASSUME NEW r \in Runs, CommitRefusal(r) \/ CommitComplete(r) \/ CommitFailure(r)
      PROVE  BusyHasActiveRun'
  <2> SUFFICES ASSUME NEW a \in Agents, agent'[a] = "busy"
               PROVE  \E s \in Runs : owner'[s] = a /\ run'[s] \in ActiveStatus
    OBVIOUS
  <2>1. agent[a] = "busy"
    BY <1>6 DEF CommitRefusal, CommitComplete, CommitFailure, AgentAfter, Stored
  <2>2. PICK s \in Runs : owner[s] = a /\ run[s] \in ActiveStatus
    BY <2>1
  <2>3. s # r
    BY <1>6, <2>1, <2>2
    DEF CommitRefusal, CommitComplete, CommitFailure, AgentAfter, Stored, Listed
  <2> QED BY <1>6, <2>2, <2>3 DEF CommitRefusal, CommitComplete, CommitFailure, RunBecomes
<1>7. Initialize => BusyHasActiveRun'
  BY DEF Initialize
<1> QED BY <1>1, <1>2, <1>3, <1>4, <1>5, <1>6, <1>7, StoreSteps

\* Requests that leave Runs alone and bring no new message keep ids fresh.
LEMMA FreshFrame ==
    ASSUME FreshSends, UNCHANGED <<run, owner, exec>>,
           \A d \in Clients : op'[d] = "send" => op[d] = "send" /\ held'[d] = held[d]
    PROVE  FreshSends'
  BY DEF FreshSends

\* A Run that a send is about to admit is unused, and no other send holds it.
LEMMA FreshStep ==
    ASSUME Typed, FreshSends, Next
    PROVE  FreshSends'
<1> USE IdsAssumption DEF Typed, TypeOK, FreshSends
<1>1. ASSUME NEW c \in Clients, NEW a \in Agents, NEW r \in Runs, Send(c, a, r)
      PROVE  FreshSends'
  BY <1>1 DEF Send, Begin
<1>2. ASSUME NEW c \in Clients, NEW a \in Agents, Create(c, a) \/ Start(c, a)
      PROVE  FreshSends'
  <2>1. \A d \in Clients : op'[d] = "send" => op[d] = "send" /\ held'[d] = held[d]
    BY <1>2 DEF Create, Start, Begin
  <2>2. UNCHANGED <<run, owner, exec>>
    BY <1>2 DEF Create, Start
  <2> QED BY <2>1, <2>2, FreshFrame
<1>3. ASSUME NEW c \in Clients, NEW a \in Agents, NEW request, Cancel(c, request, a)
      PROVE  FreshSends'
  BY <1>3 DEF Cancel, KillProcess, JoinExecution
<1>4. ASSUME NEW c \in Clients,
             \/ CommitCreate(c) \/ Refuse(c) \/ CommitStatus(c) \/ JoinRejected(c)
             \/ ArchiveFails(c)
      PROVE  FreshSends'
  <2>1. Answer(c) /\ UNCHANGED <<run, owner, exec>>
    BY <1>4 DEF CommitCreate, Refuse, CommitStatus, JoinRejected, ArchiveFails
  <2>2. \A d \in Clients : op'[d] = "send" => op[d] = "send" /\ held'[d] = held[d]
    BY <2>1 DEF Answer
  <2> QED BY <2>1, <2>2, FreshFrame
<1>5. ASSUME NEW c \in Clients, AdmitRun(c)
      PROVE  FreshSends'
  <2>1. /\ op[c] = "send" /\ held[c] \in Runs
        /\ op'[c] = "none"
    BY <1>5 DEF AdmitRun, Turn, RequestsTyped, Answer
  <2>2. \A d \in Clients : op'[d] = "send" => d # c /\ op[d] = "send" /\ held'[d] = held[d]
    BY <1>5, <2>1 DEF AdmitRun, Answer
  <2>3. \A d \in Clients : op'[d] = "send" => held[d] # held[c]
    BY <2>1, <2>2
  <2>4. \A r \in Runs : r # held[c] => /\ run'[r] = run[r] /\ owner'[r] = owner[r]
                                     /\ exec'[r] = exec[r]
    BY <1>5 DEF AdmitRun
  <2>5. run'[held[c]] = "queued"
    BY <1>5, <2>1 DEF AdmitRun
  <2>6. \A d \in Clients : op'[d] = "send" => held[d] \in Runs
    BY <2>2 DEF RequestsTyped
  <2> QED BY <2>2, <2>3, <2>4, <2>5, <2>6
<1>6. ASSUME NEW c \in Clients, Settled(c)
      PROVE  FreshSends'
  <2>1. op[c] # "send"
    BY <1>6 DEF Settled, RequestsTyped
  <2>2. \A d \in Clients : op'[d] = "send" => op[d] = "send" /\ held'[d] = held[d]
    BY <1>6, <2>1 DEF Settled, JoinExecution
  <2>3. UNCHANGED <<run, owner, exec>>
    BY <1>6 DEF Settled
  <2> QED BY <2>2, <2>3, FreshFrame
<1>7. ASSUME NEW c \in Clients, Joined(c) \/ Archive(c)
      PROVE  FreshSends'
  BY <1>7 DEF Joined, Archive
<1>8. ASSUME NEW c \in Clients, CommitDelete(c)
      PROVE  FreshSends'
  <2>1. target[c] \in Agents
    BY <1>8 DEF CommitDelete, Turn, RequestsTyped
  <2>2. \A r \in Runs : (run'[r] = "unused") <=> (run[r] = "unused")
    BY <1>8, <2>1 DEF CommitDelete
  <2> QED BY <1>8, <2>2 DEF CommitDelete, Answer, RequestsTyped
<1>9. ASSUME NEW r \in Runs, RunStep(r)
      PROVE  FreshSends'
  <2>1. UNCHANGED <<owner, op, held>>
    BY <1>9
    DEF RunStep, CommitStart, Prepare, Build, RecordDenial, CommitRefusal,
        FinalizeCapsule, Launch, WorkspaceGone, Close, Drain, DiffAfterError, Diff,
        Outbox, CommitComplete, RecordCompletion, CommitFailure, RecordFailure
  <2>2. \A s \in Runs : (run'[s] = "unused") <=> (run[s] = "unused")
    BY <1>9
    DEF RunStep, CommitStart, Prepare, Build, RecordDenial, CommitRefusal,
        FinalizeCapsule, Launch, WorkspaceGone, Close, Drain, DiffAfterError, Diff,
        Outbox, CommitComplete, RecordCompletion, CommitFailure, RecordFailure,
        Listed, RunBecomes
  <2>3. exec[r] # "none" /\ \A s \in Runs : s # r => exec'[s] = exec[s]
    BY <1>9
    DEF RunStep, CommitStart, Prepare, Build, RecordDenial, CommitRefusal,
        FinalizeCapsule, Launch, WorkspaceGone, Close, Drain, DiffAfterError, Diff,
        Outbox, CommitComplete, RecordCompletion, CommitFailure, RecordFailure,
        Goto, Catch, Finish
  <2> QED BY <2>1, <2>2, <2>3 DEF RequestsTyped
<1>10. CASE Fault
  <2>1. ASSUME NEW c \in Clients, StoreFaultOfRequest(c)
        PROVE  FreshSends'
    BY <2>1 DEF StoreFaultOfRequest, PersistFails, Answer
  <2>2. ASSUME NEW r \in Runs,
               \/ AuditFault(r) \/ FailureUnrecorded(r)
               \/ StoreFaultInTry(r) \/ StoreFaultOutsideTry(r)
        PROVE  FreshSends'
    BY <2>2 DEF AuditFault, FailureUnrecorded, StoreFaultInTry, StoreFaultOutsideTry,
                PersistFails, Catch, Finish, Goto
  <2>3. CASE Crash
    BY <2>3 DEF Crash, Over
  <2> QED BY <1>10, <2>1, <2>2, <2>3 DEF Fault
<1>11. CASE Initialize
  BY <1>11 DEF Initialize, ActiveStatus, RequestsTyped
<1>o. ASSUME NEW r \in Runs, OrphanEnds(r)
      PROVE  FreshSends'
  BY <1>o DEF OrphanEnds
<1> QED BY <1>1, <1>2, <1>3, <1>4, <1>5, <1>6, <1>7, <1>8, <1>9, <1>10, <1>11, <1>o
        DEF Next, ClientRequest, ClientStep

\* An execution past its verdict's mutation has no active Run.
LEMMA DecidedStep ==
    ASSUME Typed, FreshSends, ListedRunHasAgent, DecidedRuns, Next
    PROVE  DecidedRuns'
<1> USE DEF Typed, TypeOK, DecidedRuns, ActiveStatus
<1>1. ASSUME UNCHANGED exec, UNCHANGED run
      PROVE  DecidedRuns'
  BY <1>1
<1>2. ASSUME NEW c \in Clients, ClientRequest(c)
      PROVE  UNCHANGED <<exec, run>>
  BY <1>2 DEF ClientRequest, Create, Start, Cancel, Send
<1>3. ASSUME NEW c \in Clients, AdmitRun(c) \/ CommitDelete(c)
      PROVE  DecidedRuns'
  BY <1>3 DEF AdmitRun, CommitDelete
<1>4. ASSUME NEW c \in Clients, ClientStep(c)
      PROVE  AdmitRun(c) \/ CommitDelete(c) \/ UNCHANGED <<exec, run>>
  BY <1>4 DEF ClientStep, CommitCreate, Refuse, CommitStatus, Settled, Joined,
              JoinRejected, Archive, ArchiveFails
<1>5. ASSUME NEW r \in Runs, CommitStart(r)
      PROVE  DecidedRuns'
  BY <1>5 DEF CommitStart, Goto, Catch
<1>6. ASSUME NEW r \in Runs, CommitComplete(r)
      PROVE  DecidedRuns'
  BY <1>6 DEF CommitComplete, Goto, ListedRunHasAgent, Listed
<1>7. ASSUME NEW r \in Runs, CommitFailure(r) \/ CommitRefusal(r)
      PROVE  DecidedRuns'
  BY <1>7 DEF CommitFailure, CommitRefusal, Goto, Finish, RunBecomes, Listed
<1>8. ASSUME NEW r \in Runs, RunStep(r)
      PROVE  \/ CommitStart(r) \/ CommitComplete(r) \/ CommitFailure(r)
             \/ CommitRefusal(r)
             \/ UNCHANGED run /\ \E next \in ExecPhases \ {"logging", "logFailure"} : Goto(r, next)
  BY <1>8
  DEF RunStep, Prepare, Build, RecordDenial, FinalizeCapsule, Launch, WorkspaceGone,
      Close, Drain, DiffAfterError, Diff, Outbox, RecordCompletion, RecordFailure,
      Catch, Finish, ExecPhases, Over, Undecided
<1>9. ASSUME NEW r \in Runs, NEW next \in ExecPhases \ {"logging", "logFailure"},
             UNCHANGED run, Goto(r, next)
      PROVE  DecidedRuns'
  BY <1>9 DEF Goto
<1>10. CASE Fault
  <2>1. ASSUME NEW c \in Clients, StoreFaultOfRequest(c)
        PROVE  UNCHANGED <<exec, run>>
    BY <2>1 DEF StoreFaultOfRequest, PersistFails
  <2>2. ASSUME NEW r \in Runs,
               \/ AuditFault(r) \/ FailureUnrecorded(r)
               \/ StoreFaultInTry(r) \/ StoreFaultOutsideTry(r)
        PROVE  DecidedRuns'
    BY <2>2 DEF AuditFault, FailureUnrecorded, StoreFaultInTry, StoreFaultOutsideTry,
                PersistFails, Catch, Finish, Goto
  <2>3. CASE Crash
    BY <2>3 DEF Crash, Over
  <2> QED BY <1>1, <1>10, <2>1, <2>2, <2>3 DEF Fault
<1>11. CASE Initialize
  BY <1>11 DEF Initialize
<1>o. ASSUME NEW r \in Runs, OrphanEnds(r)
      PROVE  UNCHANGED <<exec, run>>
  BY <1>o DEF OrphanEnds
<1> QED BY <1>1, <1>2, <1>3, <1>4, <1>5, <1>6, <1>7, <1>8, <1>9, <1>10, <1>11, <1>o DEF Next

\* No step leaves an active Run to nobody.
LEMMA ExecutedStep ==
    ASSUME Typed, FreshSends, DecidedRuns, ListedRunHasAgent, ActiveRunIsExecuted, Next
    PROVE  ActiveRunIsExecuted'
<1> USE DEF Typed, TypeOK, ActiveRunIsExecuted, ActiveStatus, Live, Over
<1>1. ASSUME UNCHANGED <<exec, run, up>>
      PROVE  ActiveRunIsExecuted'
  BY <1>1
<1>2. ASSUME NEW c \in Clients, ClientRequest(c)
      PROVE  UNCHANGED <<exec, run, up>>
  BY <1>2 DEF ClientRequest, Create, Start, Cancel, Send
<1>3. ASSUME NEW c \in Clients, AdmitRun(c) \/ CommitDelete(c)
      PROVE  ActiveRunIsExecuted'
  <2>1. CASE AdmitRun(c)
    <3>1. \A r \in Runs : r # held[c] => run'[r] = run[r] /\ exec'[r] = exec[r]
      BY <2>1 DEF AdmitRun
    <3>2. held[c] \in Runs => exec'[held[c]] = "starting"
      BY <2>1 DEF AdmitRun
    <3>3. up' = up
      BY <2>1 DEF AdmitRun
    <3> QED BY <3>1, <3>2, <3>3
  <2>2. CASE CommitDelete(c)
    BY <2>2 DEF CommitDelete
  <2> QED BY <1>3, <2>1, <2>2
<1>4. ASSUME NEW c \in Clients, ClientStep(c)
      PROVE  AdmitRun(c) \/ CommitDelete(c) \/ UNCHANGED <<exec, run, up>>
  BY <1>4 DEF ClientStep, CommitCreate, Refuse, CommitStatus, Settled, Joined,
              JoinRejected, Archive, ArchiveFails
<1>5. ASSUME NEW r \in Runs, CommitStart(r)
      PROVE  ActiveRunIsExecuted'
  BY <1>5 DEF CommitStart, Goto, Catch
<1>6. ASSUME NEW r \in Runs, CommitComplete(r) \/ CommitFailure(r)
      PROVE  ActiveRunIsExecuted'
  <2>1. CASE CommitComplete(r)
    BY <2>1 DEF CommitComplete, Goto
  <2>2. CASE CommitFailure(r)
    BY <2>2 DEF CommitFailure, Goto, RunBecomes
  <2> QED BY <1>6, <2>1, <2>2
<1>7. ASSUME NEW r \in Runs, CommitRefusal(r)
      PROVE  ActiveRunIsExecuted'
  BY <1>7 DEF CommitRefusal, RunBecomes, Listed, Goto, Finish
<1>8. ASSUME NEW r \in Runs, RecordCompletion(r) \/ RecordFailure(r)
      PROVE  ActiveRunIsExecuted'
  BY <1>8 DEF RecordCompletion, RecordFailure, DecidedRuns, Goto, Finish
<1>9. ASSUME NEW r \in Runs, RunStep(r)
      PROVE  \/ CommitStart(r) \/ CommitComplete(r) \/ CommitFailure(r)
             \/ CommitRefusal(r) \/ RecordCompletion(r) \/ RecordFailure(r)
             \/ UNCHANGED <<run, up>> /\ \E next \in Undecided : Goto(r, next)
  BY <1>9
  DEF RunStep, Prepare, Build, RecordDenial, FinalizeCapsule, Launch, WorkspaceGone,
      Close, Drain, DiffAfterError, Diff, Outbox, Catch, Undecided
<1>10. ASSUME NEW r \in Runs, NEW next \in Undecided, UNCHANGED <<run, up>>, Goto(r, next)
      PROVE  ActiveRunIsExecuted'
  BY <1>10 DEF Goto, Undecided
<1>11. CASE Fault
  <2>1. ASSUME NEW c \in Clients, StoreFaultOfRequest(c)
        PROVE  UNCHANGED <<exec, run, up>>
    BY <2>1 DEF StoreFaultOfRequest, PersistFails
  <2>2. ASSUME NEW r \in Runs,
               \/ AuditFault(r) \/ FailureUnrecorded(r)
               \/ StoreFaultInTry(r) \/ StoreFaultOutsideTry(r)
        PROVE  ActiveRunIsExecuted'
    <3>1. CASE AuditFault(r)
      BY <3>1 DEF AuditFault, Catch, Goto
    <3>2. CASE FailureUnrecorded(r)
      BY <3>2 DEF FailureUnrecorded, Finish, Goto
    <3>3. CASE StoreFaultInTry(r)
      BY <3>3 DEF StoreFaultInTry, PersistFails, Catch, Goto
    <3>4. CASE StoreFaultOutsideTry(r)
      BY <3>4 DEF StoreFaultOutsideTry, PersistFails, Finish, Goto
    <3> QED BY <2>2, <3>1, <3>2, <3>3, <3>4
  <2>3. CASE Crash
    BY <2>3 DEF Crash
  <2> QED BY <1>1, <1>11, <2>1, <2>2, <2>3 DEF Fault
<1>12. CASE Initialize
  BY <1>12 DEF Initialize
<1>o. ASSUME NEW r \in Runs, OrphanEnds(r)
      PROVE  UNCHANGED <<exec, run, up>>
  BY <1>o DEF OrphanEnds
<1> QED BY <1>1, <1>2, <1>3, <1>4, <1>5, <1>6, <1>7, <1>8, <1>9, <1>10, <1>11, <1>12, <1>o
        DEF Next

\* The parts above make one inductive invariant.
LEMMA StoreInvStep == Typed /\ StoreInv /\ [Next]_vars => StoreInv'
<1> SUFFICES ASSUME Typed, StoreInv, [Next]_vars
             PROVE  StoreInv'
  OBVIOUS
<1>1. CASE Next
  BY <1>1, FreshStep, ListedStep, BusyStep, DecidedStep, ExecutedStep DEF StoreInv
<1>2. CASE UNCHANGED vars
  BY <1>2 DEF StoreInv, FreshSends, ListedRunHasAgent, Listed, Stored,
              BusyHasActiveRun, DecidedRuns, ActiveRunIsExecuted, Live
<1> QED BY <1>1, <1>2

\* The store stays consistent through every interleaving of requests, failing
\* write and restart: no orphaned Run, no Agent busy without a Run, and, while
\* the server is up, no active Run that nothing executes, save one whose
\* execution rejected.
THEOREM StoreConsistent ==
    Spec => [](ListedRunHasAgent /\ BusyHasActiveRun /\ ActiveRunIsExecuted)
<1>1. Init => Typed /\ StoreInv
  BY TypeInit
  DEF Init, Typed, RequestsTyped, StoreInv, FreshSends, ListedRunHasAgent, Listed,
      BusyHasActiveRun, DecidedRuns, ActiveRunIsExecuted, ActiveStatus
<1>2. StoreInv => ListedRunHasAgent /\ BusyHasActiveRun /\ ActiveRunIsExecuted
  BY DEF StoreInv
<1> QED BY <1>1, <1>2, TypedStep, StoreInvStep, PTL DEF Spec

\* In particular: as long as the server is up, an active Run is being executed.
COROLLARY ActiveIsExecuted == Spec => []ActiveRunIsExecuted
BY StoreConsistent, PTL

(***************************************************************************)
(* The runner.  Its table, not the store, is what keeps two children out   *)
(* of one workspace.                                                       *)
(***************************************************************************)
ProcessTracked ==
    \A r \in Runs :
        /\ exec[r] # "none" => owner[r] \in Agents
        /\ exec[r] \in InProcess => active[owner[r]] = r

\* Every child is in the runner's table, under the Agent of its Run.
LEMMA TrackedStep == Typed /\ FreshSends /\ ProcessTracked /\ [Next]_vars => ProcessTracked'
<1> SUFFICES ASSUME Typed, FreshSends, ProcessTracked, [Next]_vars
             PROVE  ProcessTracked'
  OBVIOUS
<1> USE DEF Typed, TypeOK, ProcessTracked, InProcess
<1>1. ASSUME UNCHANGED <<exec, owner, active>>
      PROVE  ProcessTracked'
  BY <1>1
<1>2. ASSUME NEW c \in Clients, ClientRequest(c)
      PROVE  UNCHANGED <<exec, owner, active>>
  BY <1>2 DEF ClientRequest, Create, Start, Cancel, Send
<1>3. ASSUME NEW c \in Clients, AdmitRun(c)
      PROVE  ProcessTracked'
  <2>1. \A r \in Runs : r # held[c] => owner'[r] = owner[r] /\ exec'[r] = exec[r]
    BY <1>3 DEF AdmitRun
  <2>2. held[c] \in Runs => exec'[held[c]] = "starting"
    BY <1>3 DEF AdmitRun
  <2>3. active' = active
    BY <1>3 DEF AdmitRun
  <2>4. held[c] \in Runs => owner'[held[c]] \in Agents
    BY <1>3 DEF AdmitRun, Turn, RequestsTyped
  <2> QED BY <2>1, <2>2, <2>3, <2>4
<1>4. ASSUME NEW c \in Clients, ClientStep(c)
      PROVE  AdmitRun(c) \/ UNCHANGED <<exec, owner, active>>
  BY <1>4 DEF ClientStep, CommitCreate, Refuse, CommitStatus, Settled, Joined,
              JoinRejected, Archive, ArchiveFails, CommitDelete
<1>5. ASSUME NEW r \in Runs, Launch(r)
      PROVE  ProcessTracked'
  <2>1. CASE active[owner[r]] = NoRun
    <3>1. \A s \in Runs : exec[s] \in InProcess => owner[s] # owner[r]
      BY <2>1, IdsAssumption
    <3>2. owner[r] \in Agents
      BY <1>5 DEF Launch
    <3>3. /\ active' = [active EXCEPT ![owner[r]] = r]
          /\ exec' = [exec EXCEPT ![r] = "process"]
          /\ owner' = owner
      BY <1>5, <2>1 DEF Launch, Goto
    <3> QED BY <3>1, <3>2, <3>3
  <2>2. CASE active[owner[r]] # NoRun
    BY <1>5, <2>2 DEF Launch, Goto
  <2> QED BY <2>1, <2>2
<1>6. ASSUME NEW r \in Runs, Drain(r)
      PROVE  ProcessTracked'
  <2>1. \A s \in Runs : exec[s] \in InProcess /\ owner[s] = owner[r] => s = r
    BY <1>6 DEF Drain
  <2> QED BY <1>6, <2>1 DEF Drain, Goto
<1>7. ASSUME NEW r \in Runs, Close(r)
      PROVE  ProcessTracked'
  BY <1>7 DEF Close, Goto
<1>8. ASSUME NEW r \in Runs, RunStep(r)
      PROVE  \/ Launch(r) \/ Drain(r) \/ Close(r)
             \/ /\ UNCHANGED <<owner, active>> /\ exec[r] # "none"
                /\ \E next \in ExecPhases \ InProcess : Goto(r, next)
  BY <1>8
  DEF RunStep, CommitStart, Prepare, Build, RecordDenial, CommitRefusal,
      FinalizeCapsule, WorkspaceGone, DiffAfterError, Diff, Outbox, CommitComplete,
      RecordCompletion, CommitFailure, RecordFailure, Catch, Finish, ExecPhases, Over,
      Undecided
<1>9. ASSUME NEW r \in Runs, NEW next \in ExecPhases \ InProcess,
             UNCHANGED <<owner, active>>, exec[r] # "none", Goto(r, next)
      PROVE  ProcessTracked'
  BY <1>9 DEF Goto
<1>10. CASE Fault
  <2>1. ASSUME NEW c \in Clients, StoreFaultOfRequest(c)
        PROVE  UNCHANGED <<exec, owner, active>>
    BY <2>1 DEF StoreFaultOfRequest, PersistFails
  <2>2. ASSUME NEW r \in Runs,
               \/ AuditFault(r) \/ FailureUnrecorded(r)
               \/ StoreFaultInTry(r) \/ StoreFaultOutsideTry(r)
        PROVE  ProcessTracked'
    BY <2>2 DEF AuditFault, FailureUnrecorded, StoreFaultInTry, StoreFaultOutsideTry,
                PersistFails, Catch, Finish, Goto
  <2>3. CASE Crash
    BY <2>3 DEF Crash, Over
  <2> QED BY <1>1, <1>10, <2>1, <2>2, <2>3 DEF Fault
<1>11. CASE Initialize \/ UNCHANGED vars
  BY <1>11 DEF Initialize
<1>o. ASSUME NEW r \in Runs, OrphanEnds(r)
      PROVE  UNCHANGED <<exec, owner, active>>
  BY <1>o DEF OrphanEnds
<1> QED BY <1>1, <1>2, <1>3, <1>4, <1>5, <1>6, <1>7, <1>8, <1>9, <1>10, <1>11, <1>o DEF Next

(***************************************************************************)
(* The audit chain.  What it says of a Run is written after the store, in  *)
(* another await, by whichever of the ways out of executeRun was taken;    *)
(* that the two agree is a matter of which verdicts each stage may find.   *)
(***************************************************************************)
\* A server that is down does nothing but start again.
Halted ==
    ~up => /\ queue = << >>
           /\ \A c \in Clients : phase[c] = "idle"
           /\ \A r \in Runs : exec[r] \in Over

Unjudged(r) == ledger[r] \cap VerdictEvents = {}
AtMostFailed(r) == ledger[r] \cap VerdictEvents \subseteq {"run.failed"}

\* Where an execution stands, what may have been audited of it and what the store
\* may call it.  Only a denial is audited before its verdict is in the store.
Stages(r) ==
    /\ exec[r] \in {"none", "logging"} \cup (Undecided \ {"refusing", "failing"}) => Unjudged(r)
    /\ exec[r] = "refusing" => AtMostFailed(r)
    /\ exec[r] \in {"failing", "logFailure"} =>
           Unjudged(r) \/ (AtMostFailed(r) /\ outcome[r] = "error")
    /\ exec[r] \in Undecided \ {"failing"} => run[r] \notin Verdicts
    /\ exec[r] = "failing" => Unjudged(r) \/ run[r] \notin Verdicts
    /\ exec[r] = "logging" => run[r] \in {"completed", "deleted"}
    /\ exec[r] = "logFailure" => run[r] \notin ActiveStatus \cup {"completed"}
    /\ exec[r] = "done" => run[r] \notin ActiveStatus
    /\ exec[r] \in {"completing", "logging"} => r \in ingested

\* AuditAgreesWithStore, of one Run.
Agrees(r) ==
    /\ \A k, l \in ledger[r] \cap VerdictEvents : k = l
    /\ "run.completed" \in ledger[r] => run[r] \in {"completed", "deleted"}
    /\ run[r] = "completed" => r \in ingested

Audited == \A r \in Runs : Stages(r) /\ Agrees(r)

\* Nothing else can happen while the server is down.
LEMMA HaltedStep == Halted /\ [Next]_vars => Halted'
<1> SUFFICES ASSUME Halted, [Next]_vars
             PROVE  Halted'
  OBVIOUS
<1> USE DEF Halted
<1>1. CASE UNCHANGED vars
  BY <1>1
<1>2. CASE Next /\ ~up
  <2>1. ASSUME NEW c \in Clients
        PROVE  ~ClientRequest(c) /\ ~ClientStep(c) /\ ~StoreFaultOfRequest(c)
    <3>1. ~ClientRequest(c)
      BY <1>2 DEF ClientRequest, Create, Start, Cancel, Send, MayRequest
    <3>2. ~ClientStep(c)
      BY <1>2 DEF ClientStep, CommitCreate, AdmitRun, Refuse, CommitStatus, Settled,
                  Joined, JoinRejected, Archive, ArchiveFails, CommitDelete, Turn
    <3> QED BY <1>2, <3>1, <3>2 DEF StoreFaultOfRequest
  <2>2. ASSUME NEW r \in Runs
        PROVE  /\ ~RunStep(r) /\ ~AuditFault(r) /\ ~FailureUnrecorded(r)
               /\ ~StoreFaultInTry(r) /\ ~StoreFaultOutsideTry(r)
    <3>1. exec[r] \in Over
      BY <1>2
    <3>2. ~RunStep(r)
      BY <3>1
      DEF Over, RunStep, CommitStart, Prepare, Build, RecordDenial, CommitRefusal,
          FinalizeCapsule, Launch, WorkspaceGone, Close, Drain, DiffAfterError, Diff,
          Outbox, CommitComplete, RecordCompletion, CommitFailure, RecordFailure
    <3> QED BY <3>1, <3>2 DEF Over, AuditFault, FailureUnrecorded, StoreFaultInTry,
                              StoreFaultOutsideTry
  <2>3. ~Crash
    BY <1>2 DEF Crash
  <2>4. Initialize \/ \E r \in Runs : OrphanEnds(r)
    BY <1>2, <2>1, <2>2, <2>3 DEF Next, Fault
  <2> QED BY <1>2, <2>4 DEF Initialize, OrphanEnds
<1>3. CASE Next /\ up /\ ~Crash
  <2>1. ASSUME NEW c \in Clients, ClientRequest(c) \/ ClientStep(c)
        PROVE  up' = up
    BY <2>1
    DEF ClientRequest, Create, Start, Cancel, Send, ClientStep, CommitCreate, AdmitRun,
        Refuse, CommitStatus, Settled, Joined, JoinRejected, Archive, ArchiveFails,
        CommitDelete
  <2>2. ASSUME NEW r \in Runs, RunStep(r)
        PROVE  up' = up
    BY <2>2
    DEF RunStep, CommitStart, Prepare, Build, RecordDenial, CommitRefusal,
        FinalizeCapsule, Launch, WorkspaceGone, Close, Drain, DiffAfterError, Diff,
        Outbox, CommitComplete, RecordCompletion, CommitFailure, RecordFailure
  <2>3. Fault => up' = up
    BY <1>3 DEF Fault, StoreFaultOfRequest, AuditFault, FailureUnrecorded,
                StoreFaultInTry, StoreFaultOutsideTry, PersistFails
  <2>4. ~Initialize
    BY <1>3 DEF Initialize
  <2>5. ASSUME NEW r \in Runs, OrphanEnds(r)
        PROVE  up' = up
    BY <2>5 DEF OrphanEnds
  <2> QED BY <1>3, <2>1, <2>2, <2>3, <2>4, <2>5 DEF Next
<1>4. CASE Crash
  BY <1>4 DEF Crash, Over
<1> QED BY <1>1, <1>2, <1>3, <1>4

\* A step that leaves alone what is known of a Run, or deletes it.
LEMMA AuditFrame ==
    ASSUME NEW r \in Runs, Stages(r), Agrees(r),
           UNCHANGED <<exec[r], ledger[r], outcome[r], ingested>>,
           run'[r] \in {run[r], "deleted"}
    PROVE  Stages(r)' /\ Agrees(r)'
<1>1. Stages(r)'
  BY DEF Stages, Unjudged, AtMostFailed, Verdicts, ActiveStatus
<1>2. Agrees(r)'
  BY DEF Agrees
<1> QED BY <1>1, <1>2

\* An execution's own steps keep what is audited and stored of its Run in line.
LEMMA AuditRunStep ==
    ASSUME Typed, FreshSends, ListedRunHasAgent, NEW r \in Runs, RunStep(r),
           Stages(r), Agrees(r)
    PROVE  Stages(r)' /\ Agrees(r)'
<1> USE DEF Typed, TypeOK, Stages, Agrees, Unjudged, AtMostFailed, Goto, Catch, Finish,
            Verdicts, ActiveStatus, Undecided, VerdictEvents
<1>1. CASE CommitStart(r)
  BY <1>1 DEF CommitStart
<1>2. CASE Prepare(r) \/ FinalizeCapsule(r)
  <2>1. PICK kind \in {"run.requested", "capsule.finalized"} :
            ledger'[r] = ledger[r] \cup {kind}
    BY <1>2 DEF Prepare, FinalizeCapsule, Record
  <2>2. exec[r] \in {"preparing", "capsule"} /\ exec'[r] \in {"building", "launching"}
    BY <1>2 DEF Prepare, FinalizeCapsule
  <2>3. UNCHANGED <<run, ingested>>
    BY <1>2 DEF Prepare, FinalizeCapsule
  <2>4. Unjudged(r)'
    BY <2>1, <2>2
  <2> QED BY <2>1, <2>2, <2>3, <2>4
<1>3. CASE Build(r)
  BY <1>3 DEF Build
<1>4. CASE RecordDenial(r)
  BY <1>4 DEF RecordDenial, Record
<1>5. CASE CommitRefusal(r)
  BY <1>5 DEF CommitRefusal, RunBecomes, Listed
<1>6. CASE Launch(r) \/ Close(r)
  BY <1>6 DEF Launch, Close
<1>7. CASE WorkspaceGone(r) \/ DiffAfterError(r)
  BY <1>7 DEF WorkspaceGone, DiffAfterError
<1>8. CASE Drain(r) \/ Diff(r)
  BY <1>8 DEF Drain, Diff
<1>9. CASE Outbox(r)
  BY <1>9 DEF Outbox
<1>10. CASE CommitComplete(r)
  <2>1. run[r] # "unused"
    BY <1>10 DEF CommitComplete, FreshSends
  <2> QED BY <1>10, <2>1 DEF CommitComplete, ListedRunHasAgent, Listed, Stored
<1>11. CASE RecordCompletion(r)
  BY <1>11 DEF RecordCompletion, Record
<1>12. CASE CommitFailure(r)
  <2>1. run[r] # "unused"
    BY <1>12 DEF CommitFailure, FreshSends
  <2> QED BY <1>12, <2>1 DEF CommitFailure, RunBecomes, Listed
<1>13. CASE RecordFailure(r)
  BY <1>13 DEF RecordFailure, Record
<1> QED BY <1>1, <1>2, <1>3, <1>4, <1>5, <1>6, <1>7, <1>8, <1>9, <1>10, <1>11, <1>12,
           <1>13 DEF RunStep

\* It leaves the other Runs alone.
LEMMA OtherRunsKept ==
    ASSUME Typed, NEW r \in Runs, NEW s \in Runs, s # r,
           \/ RunStep(r) \/ AuditFault(r) \/ FailureUnrecorded(r)
           \/ StoreFaultInTry(r) \/ StoreFaultOutsideTry(r)
    PROVE  /\ UNCHANGED <<exec[s], ledger[s], outcome[s], run[s]>>
           /\ ingested \subseteq ingested'
           /\ ingested' \subseteq ingested \cup {r}
<1> USE DEF Typed, TypeOK, Goto, Catch, Finish
<1>1. CASE RunStep(r)
  <2>1. UNCHANGED <<exec[s], outcome[s]>>
    BY <1>1
    DEF RunStep, CommitStart, Prepare, Build, RecordDenial, CommitRefusal,
        FinalizeCapsule, Launch, WorkspaceGone, Close, Drain, DiffAfterError, Diff,
        Outbox, CommitComplete, RecordCompletion, CommitFailure, RecordFailure
  <2>2. UNCHANGED <<ledger[s], run[s]>>
    BY <1>1
    DEF RunStep, CommitStart, Prepare, Build, RecordDenial, CommitRefusal,
        FinalizeCapsule, Launch, WorkspaceGone, Close, Drain, DiffAfterError, Diff,
        Outbox, CommitComplete, RecordCompletion, CommitFailure, RecordFailure,
        Record, RunBecomes
  <2>3. ingested \subseteq ingested' /\ ingested' \subseteq ingested \cup {r}
    BY <1>1
    DEF RunStep, CommitStart, Prepare, Build, RecordDenial, CommitRefusal,
        FinalizeCapsule, Launch, WorkspaceGone, Close, Drain, DiffAfterError, Diff,
        Outbox, CommitComplete, RecordCompletion, CommitFailure, RecordFailure
  <2> QED BY <2>1, <2>2, <2>3
<1>2. CASE ~RunStep(r)
  BY <1>2 DEF AuditFault, FailureUnrecorded, StoreFaultInTry, StoreFaultOutsideTry,
              PersistFails
<1> QED BY <1>1, <1>2

\* Whatever happens, the audit chain and the store keep agreeing.
LEMMA AuditStep ==
    Typed /\ FreshSends /\ ListedRunHasAgent /\ Halted /\ Audited /\ [Next]_vars => Audited'
<1> SUFFICES ASSUME Typed, FreshSends, ListedRunHasAgent, Halted, Audited, [Next]_vars,
                    NEW s \in Runs
             PROVE  Stages(s)' /\ Agrees(s)'
  BY DEF Audited
<1>s. Stages(s) /\ Agrees(s)
  BY DEF Audited
<1>1. ASSUME NEW c \in Clients, ClientRequest(c)
      PROVE  Stages(s)' /\ Agrees(s)'
  <2>1. UNCHANGED <<exec, ledger, outcome, ingested, run>>
    BY <1>1 DEF ClientRequest, Create, Start, Cancel, Send
  <2> QED BY <1>s, <2>1, AuditFrame
<1>2. ASSUME NEW c \in Clients, ClientStep(c), ~AdmitRun(c)
      PROVE  Stages(s)' /\ Agrees(s)'
  <2>1. UNCHANGED <<exec, ledger, outcome, ingested>>
    BY <1>2 DEF ClientStep, CommitCreate, Refuse, CommitStatus, Settled, Joined,
                JoinRejected, Archive, ArchiveFails, CommitDelete
  <2>2. run'[s] \in {run[s], "deleted"}
    BY <1>2 DEF ClientStep, CommitCreate, Refuse, CommitStatus, Settled, Joined,
                JoinRejected, Archive, ArchiveFails, CommitDelete
  <2> QED BY <1>s, <2>1, <2>2, AuditFrame
<1>3. ASSUME NEW c \in Clients, AdmitRun(c)
      PROVE  Stages(s)' /\ Agrees(s)'
  <2>1. held[c] \in Runs /\ run[held[c]] = "unused" /\ exec[held[c]] = "none"
    BY <1>3 DEF AdmitRun, Turn, Typed, RequestsTyped, FreshSends
  <2>2. UNCHANGED <<ledger, outcome, ingested>>
    BY <1>3 DEF AdmitRun
  <2>3. CASE s # held[c]
    <3>1. UNCHANGED <<exec[s], run[s]>>
      BY <1>3, <2>3 DEF AdmitRun
    <3> QED BY <1>s, <2>2, <3>1, AuditFrame
  <2>4. CASE s = held[c]
    <3>1. exec'[s] = "starting" /\ run'[s] = "queued"
      BY <1>3, <2>1, <2>4 DEF AdmitRun, Typed, TypeOK
    <3>2. Unjudged(s)
      BY <1>s, <2>1, <2>4 DEF Stages
    <3> QED BY <1>s, <2>1, <2>2, <2>4, <3>1, <3>2
            DEF Stages, Agrees, Unjudged, Undecided, Verdicts, ActiveStatus, VerdictEvents
  <2> QED BY <2>3, <2>4
<1>4. ASSUME NEW r \in Runs, RunStep(r)
      PROVE  Stages(s)' /\ Agrees(s)'
  <2>1. CASE r = s
    BY <1>4, <1>s, <2>1, AuditRunStep
  <2>2. CASE r # s
    <3>1. /\ UNCHANGED <<exec[s], ledger[s], outcome[s], run[s]>>
          /\ s \in ingested <=> s \in ingested'
      BY <1>4, <2>2, OtherRunsKept
    <3> QED BY <1>s, <3>1 DEF Stages, Agrees, Unjudged, AtMostFailed
  <2> QED BY <2>1, <2>2
<1>5. ASSUME NEW c \in Clients, StoreFaultOfRequest(c)
      PROVE  Stages(s)' /\ Agrees(s)'
  <2>1. UNCHANGED <<exec, ledger, outcome, ingested, run>>
    BY <1>5 DEF StoreFaultOfRequest, PersistFails
  <2> QED BY <1>s, <2>1, AuditFrame
<1>6. ASSUME NEW r \in Runs,
             \/ AuditFault(r) \/ FailureUnrecorded(r)
             \/ StoreFaultInTry(r) \/ StoreFaultOutsideTry(r)
      PROVE  Stages(s)' /\ Agrees(s)'
  <2>0. UNCHANGED <<run, ledger, ingested>>
    BY <1>6 DEF AuditFault, FailureUnrecorded, StoreFaultInTry, StoreFaultOutsideTry,
                PersistFails
  <2>1. CASE r = s
    <3> USE DEF Typed, TypeOK, Stages, Agrees, Unjudged, AtMostFailed, Goto, Catch,
                Finish, Verdicts, ActiveStatus, Undecided, VerdictEvents
    <3>1. CASE AuditFault(r)
      BY <1>s, <2>0, <2>1, <3>1 DEF AuditFault
    <3>2. CASE FailureUnrecorded(r) \/ StoreFaultOutsideTry(r)
      BY <1>s, <2>0, <2>1, <3>2 DEF FailureUnrecorded, StoreFaultOutsideTry
    <3>3. CASE StoreFaultInTry(r)
      BY <1>s, <2>0, <2>1, <3>3 DEF StoreFaultInTry
    <3> QED BY <1>6, <3>1, <3>2, <3>3
  <2>2. CASE r # s
    <3>1. UNCHANGED <<exec[s], outcome[s]>>
      BY <1>6, <2>2, OtherRunsKept
    <3> QED BY <1>s, <2>0, <3>1, AuditFrame
  <2> QED BY <2>1, <2>2
<1>7. CASE Crash
  <2>1. exec'[s] \in Over /\ (exec'[s] = exec[s] \/ exec'[s] = "lost")
    BY <1>7 DEF Crash, Over
  <2>2. UNCHANGED <<run, ledger, ingested, outcome>>
    BY <1>7 DEF Crash
  <2> QED BY <1>s, <2>1, <2>2
          DEF Stages, Agrees, Unjudged, AtMostFailed, Over, Undecided
<1>8. CASE Initialize
  <2>1. exec[s] \in Over
    BY <1>8 DEF Initialize, Halted
  <2>2. UNCHANGED <<exec, ledger, outcome, ingested>>
    BY <1>8 DEF Initialize
  <2>3. run'[s] = IF run[s] \in ActiveStatus THEN "cancelled" ELSE run[s]
    BY <1>8 DEF Initialize
  <2> QED BY <1>s, <2>1, <2>2, <2>3
          DEF Stages, Agrees, Unjudged, Over, Undecided, ActiveStatus
<1>9. CASE UNCHANGED vars
  BY <1>9, <1>s, AuditFrame
<1>o. ASSUME NEW r \in Runs, OrphanEnds(r)
      PROVE  Stages(s)' /\ Agrees(s)'
  BY <1>o, <1>s, AuditFrame DEF OrphanEnds
<1> QED BY <1>1, <1>2, <1>3, <1>4, <1>5, <1>6, <1>7, <1>8, <1>9, <1>o DEF Next, Fault

\* What the next theorems rest on.
AuditInv == Typed /\ StoreInv /\ Halted /\ Audited

LEMMA AuditInvInit == Init => AuditInv
  BY TypeInit
  DEF Init, AuditInv, Typed, RequestsTyped, StoreInv, FreshSends, ListedRunHasAgent,
      Listed, BusyHasActiveRun, DecidedRuns, ActiveRunIsExecuted, ActiveStatus, Halted,
      Audited, Stages, Agrees, Unjudged, AtMostFailed, Undecided, Verdicts

LEMMA AuditInvStep == AuditInv /\ [Next]_vars => AuditInv'
  BY TypedStep, StoreInvStep, HaltedStep, AuditStep DEF AuditInv, StoreInv

\* Whatever fails or dies between the store's write and the ledger's, a Run's chain
\* never holds two verdicts, nor a completion the store does not know of, and no Run
\* completes before its outbox is handled.  (Not that a failure the chain has is
\* the store's verdict: a denial is audited first, and a crash in between leaves a Run that
\* the restart cancels.)
THEOREM AuditAgrees == Spec => []AuditAgreesWithStore
<1>1. AuditInv => AuditAgreesWithStore
  BY DEF AuditInv, Audited, Agrees, AuditAgreesWithStore
<1> QED BY <1>1, AuditInvInit, AuditInvStep, PTL DEF Spec

\* What an execution may still write once its Run has an audited verdict is that
\* verdict again.
LEMMA FinalStep ==
    ASSUME AuditInv, Next, NEW s \in Runs,
           run[s] \in Verdicts, ~Unjudged(s)
    PROVE  run'[s] \in {run[s], "deleted"}
<1> USE DEF AuditInv, Typed, TypeOK, StoreInv
<1>1. exec[s] \notin Undecided
  BY DEF Audited, Stages, Undecided, AtMostFailed
<1>2. run[s] # "unused" /\ run[s] \notin ActiveStatus
  BY DEF Verdicts, ActiveStatus
<1>3. ASSUME UNCHANGED store
      PROVE  run'[s] = run[s]
  BY <1>3
<1>4. ASSUME NEW c \in Clients,
             CommitCreate(c) \/ AdmitRun(c) \/ CommitStatus(c) \/ CommitDelete(c)
      PROVE  run'[s] \in {run[s], "deleted"}
  <2>1. AdmitRun(c) => held[c] \in Runs /\ held[c] # s
    BY <1>2 DEF AdmitRun, Turn, RequestsTyped, FreshSends
  <2> QED BY <1>4, <2>1 DEF CommitCreate, AdmitRun, CommitStatus, CommitDelete
<1>5. ASSUME NEW r \in Runs,
             CommitStart(r) \/ CommitRefusal(r) \/ CommitComplete(r) \/ CommitFailure(r)
      PROVE  run'[s] = run[s]
  <2>1. exec[r] \in Undecided
    BY <1>5 DEF CommitStart, CommitRefusal, CommitComplete, CommitFailure, Undecided
  <2>2. r # s
    BY <1>1, <2>1
  <2> QED BY <1>5, <2>2 DEF CommitStart, CommitRefusal, CommitComplete, CommitFailure,
                            RunBecomes
<1>6. CASE Initialize
  BY <1>2, <1>6 DEF Initialize
<1> QED BY <1>3, <1>4, <1>5, <1>6, StoreSteps

\* Once a verdict has been audited, no late catch block, cancellation or restart
\* rewrites the status of a Run the store has a verdict of.  One not audited may be
\* rewritten: a completed Run fails when its run.completed cannot be appended.
THEOREM VerdictStays == Spec => VerdictIsFinal
<1>1. ASSUME AuditInv, [Next]_vars
      PROVE  [\A r \in Runs :
                  run[r] \in Verdicts /\ ledger[r] \cap VerdictEvents # {}
                      => run'[r] \in {run[r], "deleted"}]_vars
  <2>1. CASE Next
    BY <1>1, <2>1, FinalStep DEF Unjudged
  <2>2. CASE UNCHANGED vars
    BY <2>2
  <2> QED BY <1>1, <2>1, <2>2
<1> QED BY <1>1, AuditInvInit, AuditInvStep, PTL DEF Spec, VerdictIsFinal

(***************************************************************************)
(* The children.  Those of the living server are in the runner's table,    *)
(* one per Agent; those that outlive a server are in nobody's, and their   *)
(* Runs are cancelled by initialize.                                       *)
(***************************************************************************)
LeftOver ==
    \A r \in orphans :
        /\ exec[r] = "lost"
        /\ run[r] \in ActiveStatus \cup {"cancelled", "deleted"}
        /\ up => run[r] \notin ActiveStatus

\* An execution that is done stays done, and one the server took with it stays lost.
LEMMA OverStays ==
    ASSUME AuditInv, Next, NEW s \in Runs, exec[s] \in {"done", "lost"}
    PROVE  exec'[s] = exec[s]
<1> USE DEF AuditInv, Typed, TypeOK, StoreInv
<1>1. ASSUME NEW c \in Clients, ClientRequest(c)
      PROVE  exec'[s] = exec[s]
  BY <1>1 DEF ClientRequest, Create, Start, Cancel, Send
<1>2. ASSUME NEW c \in Clients, ClientStep(c)
      PROVE  exec'[s] = exec[s]
  <2>1. CASE AdmitRun(c)
    <3>1. held[c] \in Runs /\ held[c] # s
      BY <2>1 DEF AdmitRun, Turn, RequestsTyped, FreshSends
    <3> QED BY <2>1, <3>1 DEF AdmitRun
  <2>2. CASE ~AdmitRun(c)
    BY <1>2, <2>2 DEF ClientStep, CommitCreate, Refuse, CommitStatus, Settled, Joined,
                      JoinRejected, Archive, ArchiveFails, CommitDelete
  <2> QED BY <2>1, <2>2
<1>3. ASSUME NEW r \in Runs,
             \/ RunStep(r) \/ AuditFault(r) \/ FailureUnrecorded(r)
             \/ StoreFaultInTry(r) \/ StoreFaultOutsideTry(r)
      PROVE  exec'[s] = exec[s]
  <2>1. exec[r] \notin {"done", "lost"}
    BY <1>3
    DEF RunStep, CommitStart, Prepare, Build, RecordDenial, CommitRefusal,
        FinalizeCapsule, Launch, WorkspaceGone, Close, Drain, DiffAfterError, Diff,
        Outbox, CommitComplete, RecordCompletion, CommitFailure, RecordFailure,
        AuditFault, FailureUnrecorded, StoreFaultInTry, StoreFaultOutsideTry
  <2>2. s # r
    BY <2>1
  <2> QED BY <1>3, <2>2, OtherRunsKept
<1>4. ASSUME NEW c \in Clients, StoreFaultOfRequest(c)
      PROVE  exec'[s] = exec[s]
  BY <1>4 DEF StoreFaultOfRequest
<1>5. CASE Crash
  BY <1>5 DEF Crash, Over
<1>6. CASE Initialize
  BY <1>6 DEF Initialize
<1>o. ASSUME NEW r \in Runs, OrphanEnds(r)
      PROVE  exec'[s] = exec[s]
  BY <1>o DEF OrphanEnds
<1> QED BY <1>1, <1>2, <1>3, <1>4, <1>5, <1>6, <1>o DEF Next, Fault

\* The steps that concern the server or the children it has left behind.
LEMMA EnvSteps ==
    ASSUME Next
    PROVE  \/ Crash \/ Initialize \/ \E r \in Runs : OrphanEnds(r)
           \/ UNCHANGED <<up, orphans>>
<1>1. ASSUME NEW c \in Clients, ClientRequest(c) \/ ClientStep(c) \/ StoreFaultOfRequest(c)
      PROVE  UNCHANGED <<up, orphans>>
  BY <1>1
  DEF ClientRequest, Create, Start, Cancel, Send, ClientStep, CommitCreate, AdmitRun,
      Refuse, CommitStatus, Settled, Joined, JoinRejected, Archive, ArchiveFails,
      CommitDelete, StoreFaultOfRequest, PersistFails
<1>2. ASSUME NEW r \in Runs, RunStep(r)
      PROVE  UNCHANGED <<up, orphans>>
  BY <1>2
  DEF RunStep, CommitStart, Prepare, Build, RecordDenial, CommitRefusal,
      FinalizeCapsule, Launch, WorkspaceGone, Close, Drain, DiffAfterError, Diff,
      Outbox, CommitComplete, RecordCompletion, CommitFailure, RecordFailure
<1>3. ASSUME NEW r \in Runs,
             \/ AuditFault(r) \/ FailureUnrecorded(r)
             \/ StoreFaultInTry(r) \/ StoreFaultOutsideTry(r)
      PROVE  UNCHANGED <<up, orphans>>
  BY <1>3 DEF AuditFault, FailureUnrecorded, StoreFaultInTry, StoreFaultOutsideTry,
              PersistFails
<1> QED BY <1>1, <1>2, <1>3 DEF Next, Fault

\* A child is left behind by a Run without a verdict; afterwards its Run is cancelled by
\* the restart, or deleted, and nothing else is done to it.
LEMMA LeftOverStep == AuditInv /\ LeftOver /\ [Next]_vars => LeftOver'
<1> SUFFICES ASSUME AuditInv, LeftOver, [Next]_vars
             PROVE  LeftOver'
  OBVIOUS
<1> USE DEF LeftOver
<1>1. CASE UNCHANGED vars
  BY <1>1
<1>2. CASE Crash
  <2>1. ASSUME NEW r \in Runs, exec[r] = "process"
        PROVE  run[r] \in ActiveStatus \cup {"cancelled", "deleted"} /\ exec'[r] = "lost"
    <3>1. run[r] \notin Verdicts
      BY <2>1 DEF AuditInv, Audited, Stages, Undecided
    <3>2. run[r] # "unused" /\ run[r] \in RunStatus
      BY <2>1 DEF AuditInv, Typed, TypeOK, StoreInv, FreshSends
    <3>3. exec'[r] = "lost"
      BY <1>2, <2>1 DEF Crash, Over
    <3> QED BY <3>1, <3>2, <3>3 DEF RunStatus
  <2>2. ASSUME NEW r \in orphans
        PROVE  exec'[r] = "lost"
    BY <1>2 DEF Crash, Over, AuditInv, Typed, TypeOK
  <2>3. orphans' \subseteq orphans \cup {r \in Runs : exec[r] = "process"}
    BY <1>2 DEF Crash
  <2>4. ~up' /\ run' = run
    BY <1>2 DEF Crash
  <2> QED BY <2>1, <2>2, <2>3, <2>4
<1>3. CASE Initialize
  <2>1. \A r \in Runs : run'[r] = IF run[r] \in ActiveStatus THEN "cancelled" ELSE run[r]
    BY <1>3 DEF Initialize
  <2>2. UNCHANGED <<exec, orphans>> /\ orphans \subseteq Runs
    BY <1>3 DEF Initialize, AuditInv, Typed, TypeOK
  <2> QED BY <2>1, <2>2 DEF ActiveStatus
<1>4. ASSUME NEW r \in Runs, OrphanEnds(r)
      PROVE  LeftOver'
  <2>1. orphans' \subseteq orphans /\ UNCHANGED <<exec, run, up>>
    BY <1>4 DEF OrphanEnds
  <2> QED BY <2>1
<1>5. ASSUME Next, UNCHANGED <<up, orphans>>, ~Initialize, NEW s \in orphans
      PROVE  run'[s] \in {run[s], "deleted"} /\ exec'[s] = "lost"
  <2>1. s \in Runs /\ exec[s] = "lost" /\ run[s] # "unused"
    BY <1>5 DEF AuditInv, Typed, TypeOK, ActiveStatus
  <2>2. exec'[s] = exec[s]
    BY <1>5, <2>1, OverStays
  <2>3. ASSUME NEW c \in Clients,
               CommitCreate(c) \/ AdmitRun(c) \/ CommitStatus(c) \/ CommitDelete(c)
        PROVE  run'[s] \in {run[s], "deleted"}
    <3>1. AdmitRun(c) => held[c] \in Runs /\ held[c] # s
      BY <2>1 DEF AdmitRun, Turn, AuditInv, Typed, RequestsTyped, StoreInv, FreshSends
    <3> QED BY <2>1, <2>3, <3>1 DEF CommitCreate, AdmitRun, CommitStatus, CommitDelete,
                                    AuditInv, Typed, TypeOK
  <2>4. ASSUME NEW r \in Runs,
               CommitStart(r) \/ CommitRefusal(r) \/ CommitComplete(r) \/ CommitFailure(r)
        PROVE  run'[s] = run[s]
    <3>1. r # s
      BY <2>1, <2>4 DEF CommitStart, CommitRefusal, CommitComplete, CommitFailure
    <3> QED BY <2>1, <2>4, <3>1 DEF CommitStart, CommitRefusal, CommitComplete,
                                    CommitFailure, RunBecomes, AuditInv, Typed, TypeOK
  <2> QED BY <1>5, <2>1, <2>2, <2>3, <2>4, StoreSteps
<1>6. ASSUME Next, UNCHANGED <<up, orphans>>, ~Initialize
      PROVE  LeftOver'
  BY <1>5, <1>6 DEF ActiveStatus
<1> QED BY <1>1, <1>2, <1>3, <1>4, <1>6, EnvSteps

ChildInv == AuditInv /\ ProcessTracked /\ LeftOver

LEMMA ChildInvInit == Init => ChildInv
  BY AuditInvInit DEF ChildInv, Init, ProcessTracked, InProcess, LeftOver

LEMMA ChildInvStep == ChildInv /\ [Next]_vars => ChildInv'
  BY AuditInvStep, TrackedStep, LeftOverStep DEF ChildInv, AuditInv, StoreInv

\* However many Runs of one Agent the store has admitted at once, the runner never has two
\* children of its own in the Agent's workspace; a second process there has outlived its
\* server, and once the server answers again its Run is cancelled or deleted.
THEOREM RunnerExclusive == Spec => []OneProcessPerAgent
<1>1. ChildInv => OneProcessPerAgent
  BY DEF ChildInv, ProcessTracked, LeftOver, OneProcessPerAgent, HasProcess, ActiveStatus
<1> QED BY <1>1, ChildInvInit, ChildInvStep, PTL DEF Spec

(***************************************************************************)
(* Cancellation.  Only the way through `awaiting` leaves a request holding *)
(* a Run, and only an execution that is done lets it through.              *)
(***************************************************************************)
Waited ==
    \A c \in Clients :
        op[c] \in {"stop", "delete"} /\ phase[c] \in {"queued", "archiving"}
            => held[c] = NoRun \/ (held[c] \in Runs /\ exec[held[c]] = "done")

\* A cancellation goes on only past an execution that is done.
LEMMA WaitedStep == AuditInv /\ Waited /\ [Next]_vars => Waited'
<1> SUFFICES ASSUME AuditInv, Waited, [Next]_vars, NEW c \in Clients,
                    op'[c] \in {"stop", "delete"}, phase'[c] \in {"queued", "archiving"}
             PROVE  held'[c] = NoRun \/ (held'[c] \in Runs /\ exec'[held'[c]] = "done")
  BY DEF Waited
<1> USE DEF AuditInv, Typed, TypeOK
<1>1. ASSUME Next, op[c] \in {"stop", "delete"}, phase[c] \in {"queued", "archiving"},
             held'[c] = held[c]
      PROVE  held'[c] = NoRun \/ (held'[c] \in Runs /\ exec'[held'[c]] = "done")
  BY <1>1, OverStays DEF Waited
<1>2. ASSUME NEW d \in Clients, ClientRequest(d)
      PROVE  held'[c] = NoRun \/ (held'[c] \in Runs /\ exec'[held'[c]] = "done")
  <2>1. CASE d = c
    BY <1>2, <2>1 DEF ClientRequest, Create, Start, Cancel, Send, Begin, KillProcess,
                      JoinExecution, AllOps
  <2>2. CASE d # c
    <3>1. UNCHANGED <<op[c], phase[c], held[c]>>
      BY <1>2, <2>2 DEF ClientRequest, Create, Start, Cancel, Send, Begin, KillProcess,
                        JoinExecution, Proceed
    <3> QED BY <1>1, <1>2, <3>1 DEF Next
  <2> QED BY <2>1, <2>2
<1>3. ASSUME NEW d \in Clients, ClientStep(d)
      PROVE  held'[c] = NoRun \/ (held'[c] \in Runs /\ exec'[held'[c]] = "done")
  <2>1. CASE d = c
    <3>1. CASE \/ CommitCreate(d) \/ AdmitRun(d) \/ Refuse(d) \/ CommitStatus(d)
               \/ JoinRejected(d) \/ ArchiveFails(d) \/ CommitDelete(d)
      BY <2>1, <3>1 DEF CommitCreate, AdmitRun, Refuse, CommitStatus, JoinRejected,
                        ArchiveFails, CommitDelete, Answer
    <3>2. CASE Settled(d)
      BY <2>1, <3>2 DEF Settled, JoinExecution
    <3>3. CASE Joined(d)
      <4>1. held[c] \in Runs /\ exec[held[c]] = "done"
        BY <2>1, <3>3 DEF Joined, RequestsTyped
      <4> QED BY <2>1, <3>3, <4>1 DEF Joined
    <3>4. CASE Archive(d)
      <4>1. op[c] \in {"stop", "delete"} /\ phase[c] = "archiving" /\ held'[c] = held[c]
        BY <2>1, <3>4 DEF Archive
      <4> QED BY <1>1, <1>3, <4>1 DEF Next
    <3> QED BY <1>3, <3>1, <3>2, <3>3, <3>4 DEF ClientStep
  <2>2. CASE d # c
    <3>1. UNCHANGED <<op[c], phase[c], held[c]>>
      BY <1>3, <2>2
      DEF ClientStep, CommitCreate, AdmitRun, Refuse, CommitStatus, Settled, Joined,
          JoinRejected, Archive, ArchiveFails, CommitDelete, Answer, JoinExecution,
          Proceed
    <3> QED BY <1>1, <1>3, <3>1 DEF Next
  <2> QED BY <2>1, <2>2
<1>4. ASSUME NEW r \in Runs,
             \/ RunStep(r) \/ AuditFault(r) \/ FailureUnrecorded(r)
             \/ StoreFaultInTry(r) \/ StoreFaultOutsideTry(r)
      PROVE  held'[c] = NoRun \/ (held'[c] \in Runs /\ exec'[held'[c]] = "done")
  <2>1. UNCHANGED clients
    BY <1>4
    DEF RunStep, CommitStart, Prepare, Build, RecordDenial, CommitRefusal,
        FinalizeCapsule, Launch, WorkspaceGone, Close, Drain, DiffAfterError, Diff,
        Outbox, CommitComplete, RecordCompletion, CommitFailure, RecordFailure,
        AuditFault, FailureUnrecorded, StoreFaultInTry, StoreFaultOutsideTry
  <2> QED BY <1>1, <1>4, <2>1 DEF Next, Fault
<1>5. ASSUME NEW d \in Clients, StoreFaultOfRequest(d)
      PROVE  held'[c] = NoRun \/ (held'[c] \in Runs /\ exec'[held'[c]] = "done")
  <2>1. CASE d = c
    BY <1>5, <2>1 DEF StoreFaultOfRequest, Answer
  <2>2. CASE d # c
    <3>1. UNCHANGED <<op[c], phase[c], held[c]>>
      BY <1>5, <2>2 DEF StoreFaultOfRequest, Answer
    <3> QED BY <1>1, <1>5, <3>1 DEF Next, Fault
  <2> QED BY <2>1, <2>2
<1>6. CASE Crash
  BY <1>6 DEF Crash
<1>7. CASE Initialize
  BY <1>1, <1>7 DEF Initialize, Next
<1>8. CASE UNCHANGED vars
  BY <1>8 DEF Waited
<1>o. ASSUME NEW r \in Runs, OrphanEnds(r)
      PROVE  held'[c] = NoRun \/ (held'[c] \in Runs /\ exec'[held'[c]] = "done")
  BY <1>o DEF OrphanEnds, Waited
<1> QED BY <1>2, <1>3, <1>4, <1>5, <1>6, <1>7, <1>8, <1>o DEF Next, Fault

\* When a stop is about to write "stopped", or a delete to archive the workspace, the
\* execution it waited for is over and has left nothing active behind.
THEOREM CancelWaits == Spec => []CancelWaitsForVerdict
<1>1. Init => Waited
  BY DEF Init, Waited
<1>2. AuditInv /\ Waited => CancelWaitsForVerdict
  BY DEF AuditInv, Audited, Stages, Waited, CancelWaitsForVerdict, Live, Over
<1> QED BY <1>1, <1>2, WaitedStep, AuditInvInit, AuditInvStep, PTL DEF Spec

(***************************************************************************)
(* "One Agent can have only one active Run" does not hold of the code.     *)
(* What follows says exactly which steps are to blame: an Agent is busy as *)
(* long as it has an active Run, except that a stop may overtake the Run   *)
(* admitted while it waited, and that a Run already completed may yet fail *)
(* because the ledger refuses its run.completed, which releases an Agent   *)
(* that by then is busy with another Run.                                  *)
(***************************************************************************)
StopsBusy(c) == CommitStatus(c) /\ op[c] = "stop" /\ agent[target[c]] = "busy"

CompletedFails(r) ==
    CommitFailure(r) /\ run[r] = "completed" /\ agent[owner[r]] = "busy"

StrayRelease == \/ \E c \in Clients : StopsBusy(c)
                \/ \E r \in Runs : CompletedFails(r)

ActiveKeepsBusy == \A r \in Runs : run[r] \in ActiveStatus => agent[owner[r]] = "busy"

\* An Agent leaves the store once and for all, and its Runs with it.
GoneTogether ==
    \A r \in Runs : run[r] = "deleted" => owner[r] \in Agents /\ agent[owner[r]] = "deleted"

\* An id is in the store only after its creation, and is created once.
CreatedOnce ==
    /\ \A c \in Clients :
           /\ op[c] \in {"create", "delete"} => target[c] \in Agents
           /\ op[c] = "create" => agent[target[c]] = "none" /\ workspace[target[c]] # "none"
           /\ op[c] = "delete" => agent[target[c]] # "none"
    /\ \A c, d \in Clients :
           op[c] = "create" /\ op[d] = "create" /\ target[c] = target[d] => c = d
    /\ \A a \in Agents : workspace[a] = "none" => agent[a] = "none"

\* A catch block finds its Run active, gone, or just completed.
FailsOnce ==
    \A r \in Runs :
        exec[r] = "failing" => run[r] \in ActiveStatus \cup {"completed", "deleted"}

\* No step creates an Agent twice, or brings one back that was deleted.
LEMMA CreatedStep ==
    ASSUME Typed, CreatedOnce, Next
    PROVE  CreatedOnce'
<1> USE IdsAssumption DEF Typed, TypeOK, CreatedOnce
<1>f. ASSUME UNCHANGED <<agent, workspace>>,
             \A d \in Clients : \/ op'[d] \notin {"create", "delete"}
                                \/ op'[d] = op[d] /\ target'[d] = target[d]
      PROVE  CreatedOnce'
  BY <1>f
<1>1. ASSUME NEW c \in Clients, NEW a \in Agents, Create(c, a)
      PROVE  CreatedOnce'
  BY <1>1 DEF Create, Begin
<1>2. ASSUME NEW c \in Clients, NEW a \in Agents,
             Start(c, a) \/ \E r \in Runs : Send(c, a, r)
      PROVE  CreatedOnce'
  <2>1. UNCHANGED <<agent, workspace>>
    BY <1>2 DEF Start, Send
  <2>2. \A d \in Clients : \/ op'[d] \notin {"create", "delete"}
                           \/ op'[d] = op[d] /\ target'[d] = target[d]
    BY <1>2 DEF Start, Send, Begin
  <2> QED BY <1>f, <2>1, <2>2
<1>3. ASSUME NEW c \in Clients, NEW a \in Agents, NEW request \in {"stop", "delete"},
             Cancel(c, request, a)
      PROVE  CreatedOnce'
  BY <1>3 DEF Cancel, Stored
<1>4. ASSUME NEW c \in Clients,
             \/ Refuse(c) \/ Settled(c) \/ Joined(c) \/ JoinRejected(c)
             \/ ArchiveFails(c) \/ StoreFaultOfRequest(c)
      PROVE  CreatedOnce'
  <2>1. UNCHANGED <<agent, workspace>>
    BY <1>4 DEF Refuse, Settled, Joined, JoinRejected, ArchiveFails,
                StoreFaultOfRequest, PersistFails
  <2>2. \A d \in Clients : \/ op'[d] \notin {"create", "delete"}
                           \/ op'[d] = op[d] /\ target'[d] = target[d]
    BY <1>4 DEF Refuse, Settled, Joined, JoinRejected, ArchiveFails,
                StoreFaultOfRequest, Answer
  <2> QED BY <1>f, <2>1, <2>2
<1>5. ASSUME NEW c \in Clients, CommitCreate(c)
      PROVE  CreatedOnce'
  <2>1. /\ op[c] = "create" /\ target[c] \in Agents
        /\ workspace[target[c]] # "none"
    BY <1>5 DEF CommitCreate, Turn, RequestsTyped
  <2>2. agent' = [agent EXCEPT ![target[c]] = "ready"] /\ UNCHANGED workspace
    BY <1>5 DEF CommitCreate
  <2>3. /\ op'[c] = "none"
        /\ \A d \in Clients : d # c => op'[d] = op[d] /\ target'[d] = target[d]
    BY <1>5 DEF CommitCreate, Answer
  <2>4. \A d \in Clients : op'[d] \in {"create", "delete"} =>
            op[d] = op'[d] /\ target'[d] = target[d] /\ target[d] \in Agents /\ d # c
    BY <2>3
  <2>5. \A d \in Clients : op'[d] = "create" =>
            target[d] # target[c] /\ agent[target[d]] = "none"
    BY <2>1, <2>4
  <2>6. \A a \in Agents : agent'[a] = IF a = target[c] THEN "ready" ELSE agent[a]
    BY <2>2
  <2> QED BY <2>1, <2>2, <2>4, <2>5, <2>6
<1>6. ASSUME NEW c \in Clients, AdmitRun(c) \/ CommitStatus(c)
      PROVE  CreatedOnce'
  <2>1. /\ target[c] \in Agents /\ agent[target[c]] # "none"
        /\ \E s \in {"busy", "ready", "stopped"} : agent' = [agent EXCEPT ![target[c]] = s]
        /\ UNCHANGED workspace
    BY <1>6 DEF AdmitRun, CommitStatus, Turn, RequestsTyped, Admissible, Refused, Stored
  <2>2. /\ op'[c] = "none"
        /\ \A d \in Clients : d # c => op'[d] = op[d] /\ target'[d] = target[d]
    BY <1>6 DEF AdmitRun, CommitStatus, Answer
  <2>3. \A d \in Clients : \/ op'[d] \notin {"create", "delete"}
                           \/ op'[d] = op[d] /\ target'[d] = target[d]
    BY <2>2
  <2>4. \A a \in Agents : (agent'[a] = "none") <=> (agent[a] = "none")
    BY <2>1
  <2>5. \A d \in Clients : op'[d] = "create" => target[d] \in Agents
    BY <2>3
  <2> QED BY <2>1, <2>3, <2>4, <2>5
<1>7. ASSUME NEW c \in Clients, Archive(c)
      PROVE  CreatedOnce'
  BY <1>7 DEF Archive
<1>8. ASSUME NEW c \in Clients, CommitDelete(c)
      PROVE  CreatedOnce'
  <2>1. op[c] = "delete" /\ agent[target[c]] # "none" /\ target[c] \in Agents
    BY <1>8 DEF CommitDelete, Turn, RequestsTyped
  <2>2. agent' = [agent EXCEPT ![target[c]] = "deleted"] /\ UNCHANGED workspace
    BY <1>8 DEF CommitDelete
  <2>3. /\ op'[c] = "none"
        /\ \A d \in Clients : d # c => op'[d] = op[d] /\ target'[d] = target[d]
    BY <1>8 DEF CommitDelete, Answer
  <2>4. \A d \in Clients : op'[d] \in {"create", "delete"} =>
            op[d] = op'[d] /\ target'[d] = target[d] /\ target[d] \in Agents
    BY <2>3
  <2>5. \A d \in Clients : op'[d] = "create" => target[d] # target[c]
    BY <2>1, <2>4
  <2>6. \A a \in Agents : agent'[a] = IF a = target[c] THEN "deleted" ELSE agent[a]
    BY <2>2
  <2> QED BY <2>1, <2>2, <2>4, <2>5, <2>6
<1>9. ASSUME NEW r \in Runs, RunStep(r)
       PROVE  CreatedOnce'
  <2>1. UNCHANGED <<workspace, op, target>>
    BY <1>9
    DEF RunStep, CommitStart, Prepare, Build, RecordDenial, CommitRefusal,
        FinalizeCapsule, Launch, WorkspaceGone, Close, Drain, DiffAfterError, Diff,
        Outbox, CommitComplete, RecordCompletion, CommitFailure, RecordFailure
  <2>2. \A a \in Agents : (agent'[a] = "none") <=> (agent[a] = "none")
    BY <1>9
    DEF RunStep, CommitStart, Prepare, Build, RecordDenial, CommitRefusal,
        FinalizeCapsule, Launch, WorkspaceGone, Close, Drain, DiffAfterError, Diff,
        Outbox, CommitComplete, RecordCompletion, CommitFailure, RecordFailure,
        AgentAfter, Stored
  <2> QED BY <2>1, <2>2
<1>10. CASE Fault
  <2>1. ASSUME NEW r \in Runs,
               \/ AuditFault(r) \/ FailureUnrecorded(r)
               \/ StoreFaultInTry(r) \/ StoreFaultOutsideTry(r)
        PROVE  UNCHANGED <<agent, workspace, op, target>>
    BY <2>1 DEF AuditFault, FailureUnrecorded, StoreFaultInTry, StoreFaultOutsideTry,
                PersistFails
  <2>2. Crash => CreatedOnce'
    BY DEF Crash
  <2> QED BY <1>f, <1>4, <1>10, <2>1, <2>2 DEF Fault
<1>11. CASE Initialize
  BY <1>11 DEF Initialize
<1>o. ASSUME NEW r \in Runs, OrphanEnds(r)
      PROVE  UNCHANGED <<agent, workspace, op, target>>
  BY <1>o DEF OrphanEnds
<1> QED BY <1>1, <1>2, <1>3, <1>4, <1>5, <1>6, <1>7, <1>8, <1>9, <1>10, <1>11, <1>o
        DEF Next, ClientRequest, ClientStep

\* The store's part of the invariant, of the steps that do not release an Agent astray.
LEMMA KeepsBusyStep ==
    ASSUME AuditInv, ProcessTracked, CreatedOnce, FailsOnce, Next, ~StrayRelease,
           ActiveKeepsBusy, OneActiveRun, GoneTogether
    PROVE  ActiveKeepsBusy' /\ OneActiveRun' /\ GoneTogether'
<1> USE DEF AuditInv, Typed, TypeOK, StoreInv, ActiveKeepsBusy, OneActiveRun, GoneTogether
<1>o. \A r \in Runs : run[r] \in ActiveStatus => owner[r] \in Agents /\ Stored(owner[r])
  BY DEF ListedRunHasAgent, Listed, ActiveStatus
<1>1. ASSUME UNCHANGED store
      PROVE  ActiveKeepsBusy' /\ OneActiveRun' /\ GoneTogether'
  BY <1>1
<1>2. ASSUME NEW c \in Clients, CommitCreate(c) \/ CommitStatus(c)
      PROVE  ActiveKeepsBusy' /\ OneActiveRun' /\ GoneTogether'
  <2>1. UNCHANGED <<run, owner>>
    BY <1>2 DEF CommitCreate, CommitStatus
  <2>2. /\ agent[target[c]] \notin {"busy", "deleted"}
        /\ target[c] \in Agents
        /\ \A a \in Agents : a # target[c] => agent'[a] = agent[a]
    <3>1. CASE CommitCreate(c)
      BY <3>1 DEF CommitCreate, Turn, CreatedOnce
    <3>2. CASE CommitStatus(c)
      <4>1. target[c] \in Agents
        BY <3>2 DEF CommitStatus, Turn, RequestsTyped
      <4>2. op[c] = "start" => agent[target[c]] \notin {"busy", "deleted"}
        BY <3>2 DEF CommitStatus, Refused
      <4>3. op[c] = "stop" => agent[target[c]] \notin {"busy", "deleted"}
        BY <3>2 DEF CommitStatus, Refused, Stored, StrayRelease, StopsBusy
      <4> QED BY <3>2, <4>1, <4>2, <4>3 DEF CommitStatus, Turn
    <3> QED BY <1>2, <3>1, <3>2
  <2> QED BY <1>o, <2>1, <2>2
<1>3. ASSUME NEW c \in Clients, AdmitRun(c)
      PROVE  ActiveKeepsBusy' /\ OneActiveRun' /\ GoneTogether'
  <2>1. /\ held[c] \in Runs /\ target[c] \in Agents
        /\ agent[target[c]] \notin {"busy", "deleted"}
    BY <1>3 DEF AdmitRun, Turn, RequestsTyped, Admissible
  <2>2. /\ \A r \in Runs : r # held[c] => run'[r] = run[r] /\ owner'[r] = owner[r]
        /\ run'[held[c]] = "queued" /\ owner'[held[c]] = target[c]
        /\ \A a \in Agents : agent'[a] = IF a = target[c] THEN "busy" ELSE agent[a]
    BY <1>3, <2>1 DEF AdmitRun
  <2>3. \A r \in Runs : run[r] \in ActiveStatus \cup {"deleted"} => owner[r] # target[c]
    BY <2>1
  <2>4. ActiveKeepsBusy' /\ GoneTogether'
    <3>1. ASSUME NEW s \in Runs, s # held[c], run[s] \in ActiveStatus \cup {"deleted"}
          PROVE  owner[s] \in Agents /\ agent'[owner[s]] = agent[owner[s]]
      BY <1>o, <2>2, <2>3, <3>1
    <3>2. run'[held[c]] # "deleted" /\ agent'[owner'[held[c]]] = "busy"
      BY <2>1, <2>2
    <3>3. ASSUME NEW s \in Runs
          PROVE  /\ run'[s] \in ActiveStatus => agent'[owner'[s]] = "busy"
                 /\ run'[s] = "deleted" =>
                        owner'[s] \in Agents /\ agent'[owner'[s]] = "deleted"
      <4>1. CASE s = held[c]
        BY <3>2, <4>1
      <4>2. CASE s # held[c] /\ run[s] \in ActiveStatus \cup {"deleted"}
        <5>1. run'[s] = run[s] /\ owner'[s] = owner[s]
          BY <2>2, <4>2
        <5>2. owner[s] \in Agents /\ agent'[owner[s]] = agent[owner[s]]
          BY <3>1, <4>2
        <5> QED BY <5>1, <5>2
      <4>3. CASE s # held[c] /\ run[s] \notin ActiveStatus \cup {"deleted"}
        <5>1. run'[s] = run[s]
          BY <2>2, <4>3
        <5> QED BY <4>3, <5>1
      <4> QED BY <4>1, <4>2, <4>3
    <3> QED BY <3>3
  <2>5. OneActiveRun'
    <3>1. ASSUME NEW s \in Runs, NEW t \in Runs, s # t,
                 run'[s] \in ActiveStatus, run'[t] \in ActiveStatus, s # held[c]
          PROVE  owner'[s] # owner'[t]
      <4>1. run[s] \in ActiveStatus /\ owner'[s] = owner[s] /\ owner[s] # target[c]
        BY <2>2, <2>3, <3>1
      <4>2. CASE t = held[c]
        BY <2>2, <4>1, <4>2
      <4>3. CASE t # held[c]
        <5>1. run[t] \in ActiveStatus /\ owner'[t] = owner[t]
          BY <2>2, <3>1, <4>3
        <5> QED BY <3>1, <4>1, <5>1
      <4> QED BY <4>2, <4>3
    <3> QED BY <3>1
  <2> QED BY <2>4, <2>5
<1>4. ASSUME NEW c \in Clients, CommitDelete(c)
      PROVE  ActiveKeepsBusy' /\ OneActiveRun' /\ GoneTogether'
  <2>1. target[c] \in Agents
    BY <1>4 DEF CommitDelete, Turn, RequestsTyped
  <2>2. /\ \A r \in Runs : run'[r] = IF owner[r] = target[c] THEN "deleted" ELSE run[r]
        /\ \A a \in Agents : agent'[a] = IF a = target[c] THEN "deleted" ELSE agent[a]
        /\ owner' = owner
    BY <1>4 DEF CommitDelete
  <2> QED BY <1>o, <2>1, <2>2 DEF ActiveStatus
<1>5. ASSUME NEW r \in Runs, CommitStart(r)
      PROVE  ActiveKeepsBusy' /\ OneActiveRun' /\ GoneTogether'
  <2>1. run[r] \in ActiveStatus \cup {"deleted"}
    BY <1>5 DEF CommitStart, Audited, Stages, Undecided, FreshSends, RunStatus
  <2>2. /\ \A s \in Runs : s # r => run'[s] = run[s]
        /\ run'[r] = IF run[r] = "deleted" THEN "deleted" ELSE "running"
        /\ UNCHANGED <<agent, owner>>
    BY <1>5, <2>1 DEF CommitStart, Listed, ActiveStatus
  <2> QED BY <2>1, <2>2 DEF ActiveStatus
<1>6. ASSUME NEW r \in Runs, CommitRefusal(r) \/ CommitComplete(r) \/ CommitFailure(r)
      PROVE  ActiveKeepsBusy' /\ OneActiveRun' /\ GoneTogether'
  <2>1. /\ owner' = owner /\ owner[r] \in Agents
        /\ \A s \in Runs : s # r => run'[s] = run[s]
        /\ run'[r] = run[r] \/ run'[r] \in Verdicts
        /\ run[r] = "deleted" => run'[r] = "deleted"
    BY <1>6 DEF CommitRefusal, CommitComplete, CommitFailure, RunBecomes, Listed,
                Verdicts, ProcessTracked
  <2>2. \A a \in Agents : a # owner[r] \/ ~Stored(a) => agent'[a] = agent[a]
    BY <1>6, <2>1 DEF CommitRefusal, CommitComplete, CommitFailure, AgentAfter
  <2>3. CASE run[r] = "deleted"
    <3>1. ~Stored(owner[r])
      BY <2>3 DEF Stored
    <3>2. \A a \in Agents : agent'[a] = agent[a]
      BY <2>2, <3>1
    <3>3. \A s \in Runs : run'[s] = run[s]
      BY <2>1, <2>3
    <3> QED BY <1>o, <2>1, <3>2, <3>3
  <2>4. CASE run[r] \in ActiveStatus
    <3>1. run'[r] \notin ActiveStatus \cup {"deleted"}
      <4>1. Listed(r) /\ Stored(owner[r])
        BY <1>o, <2>4 DEF Listed, ActiveStatus
      <4> QED BY <1>6, <4>1 DEF CommitRefusal, CommitComplete, CommitFailure,
                                RunBecomes, ActiveStatus
    <3>2. \A s \in Runs : run'[s] \in ActiveStatus => s # r /\ owner[s] # owner[r]
      BY <2>1, <2>4, <3>1
    <3>3. \A s \in Runs : run'[s] = "deleted" => owner[s] # owner[r]
      BY <1>o, <2>1, <2>4, <3>1 DEF Stored
    <3> QED BY <1>o, <2>1, <2>2, <3>1, <3>2, <3>3
  <2>5. CASE run[r] = "completed" /\ CommitFailure(r)
    <3>1. agent[owner[r]] # "busy"
      BY <2>5 DEF StrayRelease, CompletedFails
    <3>2. run'[r] \notin ActiveStatus \cup {"deleted"}
      BY <2>5 DEF CommitFailure, RunBecomes, Listed, ActiveStatus
    <3>3. \A s \in Runs : run'[s] \in ActiveStatus =>
              s # r /\ run[s] \in ActiveStatus /\ owner[s] # owner[r]
      BY <2>1, <3>1, <3>2
    <3>4. \A s \in Runs : run'[s] = "deleted" =>
              s # r /\ run[s] = "deleted" /\ ~Stored(owner[s])
      BY <2>1, <3>2 DEF Stored
    <3> QED BY <1>o, <2>1, <2>2, <3>3, <3>4
  <2> QED
    <3>1. CommitFailure(r) => run[r] \in ActiveStatus \cup {"completed", "deleted"}
      BY DEF CommitFailure, FailsOnce
    <3>2. CommitRefusal(r) \/ CommitComplete(r) => run[r] \in ActiveStatus \cup {"deleted"}
      BY DEF CommitRefusal, CommitComplete, Audited, Stages, Undecided, FreshSends,
             RunStatus
    <3> QED BY <1>6, <2>3, <2>4, <2>5, <3>1, <3>2
<1>7. CASE Initialize
  BY <1>7 DEF Initialize, ActiveStatus
<1> QED BY <1>1, <1>2, <1>3, <1>4, <1>5, <1>6, <1>7, StoreSteps

\* An execution comes to its catch block with its Run active, gone or just completed,
\* and finds it so.
LEMMA FailsOnceStep ==
    ASSUME AuditInv, FailsOnce, Next
    PROVE  FailsOnce'
<1> SUFFICES ASSUME NEW s \in Runs, exec'[s] = "failing"
             PROVE  run'[s] \in ActiveStatus \cup {"completed", "deleted"}
  BY DEF FailsOnce
<1> USE DEF AuditInv, Typed, TypeOK, StoreInv
<1>k. exec[s] \in Undecided \cup {"logging"} =>
          run[s] \in ActiveStatus \cup {"completed", "deleted"}
  BY DEF FailsOnce, Audited, Stages, FreshSends, RunStatus, Undecided
<1>1. ASSUME run'[s] \in {run[s], "deleted"}, exec'[s] = exec[s]
      PROVE  run'[s] \in ActiveStatus \cup {"completed", "deleted"}
  BY <1>1 DEF FailsOnce
<1>2. ASSUME NEW c \in Clients, ClientRequest(c)
      PROVE  run' = run /\ exec' = exec
  BY <1>2 DEF ClientRequest, Create, Start, Cancel, Send
<1>3. ASSUME NEW c \in Clients, ClientStep(c)
      PROVE  run'[s] \in {run[s], "deleted"} /\ exec'[s] = exec[s]
  <2>1. CASE AdmitRun(c)
    <3>1. held[c] \in Runs
      BY <2>1 DEF AdmitRun, Turn, RequestsTyped
    <3>2. s # held[c]
      BY <2>1, <3>1 DEF AdmitRun
    <3> QED BY <2>1, <3>2 DEF AdmitRun
  <2>2. CASE ~AdmitRun(c)
    BY <1>3, <2>2 DEF ClientStep, CommitCreate, Refuse, CommitStatus, Settled, Joined,
                      JoinRejected, Archive, ArchiveFails, CommitDelete
  <2> QED BY <2>1, <2>2
<1>4. ASSUME NEW r \in Runs,
             \/ RunStep(r) \/ AuditFault(r) \/ FailureUnrecorded(r)
             \/ StoreFaultInTry(r) \/ StoreFaultOutsideTry(r)
      PROVE  run'[s] \in ActiveStatus \cup {"completed", "deleted"}
  <2>1. CASE r # s
    BY <1>1, <1>4, <2>1, OtherRunsKept
  <2>2. CASE r = s
    <3>1. \/ CommitStart(r) \/ WorkspaceGone(r) \/ DiffAfterError(r)
          \/ AuditFault(r) \/ StoreFaultInTry(r)
      BY <1>4, <2>2
      DEF RunStep, CommitStart, Prepare, Build, RecordDenial, CommitRefusal,
          FinalizeCapsule, Launch, Close, Drain, Diff, Outbox, CommitComplete,
          RecordCompletion, CommitFailure, RecordFailure, FailureUnrecorded,
          StoreFaultOutsideTry, Goto, Finish
    <3>2. exec[s] \in Undecided \cup {"logging"}
      BY <2>2, <3>1 DEF CommitStart, WorkspaceGone, DiffAfterError, AuditFault,
                        StoreFaultInTry, Undecided
    <3>3. run'[s] \in {run[s], "running"}
      BY <2>2, <3>1 DEF CommitStart, WorkspaceGone, DiffAfterError, AuditFault,
                        StoreFaultInTry, PersistFails
    <3> QED BY <1>k, <3>2, <3>3 DEF ActiveStatus
  <2> QED BY <2>1, <2>2
<1>5. ASSUME NEW c \in Clients, StoreFaultOfRequest(c)
      PROVE  run' = run /\ exec' = exec
  BY <1>5 DEF StoreFaultOfRequest, PersistFails
<1>6. ~Crash
  BY DEF Crash, Over
<1>7. ~Initialize
  BY DEF Initialize, Halted, Over
<1>o. ASSUME NEW r \in Runs, OrphanEnds(r)
      PROVE  run' = run /\ exec' = exec
  BY <1>o DEF OrphanEnds
<1> QED BY <1>1, <1>2, <1>3, <1>4, <1>5, <1>6, <1>7, <1>o DEF Next, Fault

\* What holds as long as no step releases an Agent astray.
TidyInv == /\ AuditInv /\ ProcessTracked /\ CreatedOnce /\ FailsOnce
           /\ ActiveKeepsBusy /\ OneActiveRun /\ GoneTogether

LEMMA TidyInit == Init => TidyInv
<1>1. Init => CreatedOnce /\ FailsOnce /\ GoneTogether
  BY DEF Init, CreatedOnce, FailsOnce, GoneTogether
<1>2. Init => ProcessTracked /\ ActiveKeepsBusy /\ OneActiveRun
  BY DEF Init, ProcessTracked, InProcess, ActiveKeepsBusy, OneActiveRun, ActiveStatus
<1> QED BY <1>1, <1>2, AuditInvInit DEF TidyInv

LEMMA TidyStep == TidyInv /\ [Next]_vars /\ [~StrayRelease]_vars => TidyInv'
<1>1. CASE TidyInv /\ UNCHANGED vars
  BY <1>1, AuditInvStep DEF TidyInv, ProcessTracked, CreatedOnce, FailsOnce,
     ActiveKeepsBusy, OneActiveRun, GoneTogether
<1>2. CASE TidyInv /\ Next /\ ~StrayRelease
  <2> USE DEF TidyInv
  <2>1. ProcessTracked'
    BY <1>2, TrackedStep DEF AuditInv, StoreInv
  <2>2. CreatedOnce'
    BY <1>2, CreatedStep DEF AuditInv
  <2> QED BY <1>2, <2>1, <2>2, AuditInvStep, FailsOnceStep, KeepsBusyStep
<1> QED BY <1>1, <1>2

\* ARCHITECTURE.md's "One Agent can have only one active Run" fails in no other way
\* than these two: in every behaviour in which no stop is committed to a busy Agent
\* and no completed Run fails under a busy Agent, whatever else is cancelled, deleted,
\* refused by the disk or interrupted by a crash, an Agent has at most one active Run.
THEOREM SecondRunNeedsStrayRelease ==
    Spec /\ [][~StrayRelease]_vars => []OneActiveRun
<1>1. TidyInv => OneActiveRun
  BY DEF TidyInv
<1> QED BY <1>1, TidyInit, TidyStep, PTL DEF Spec

(***************************************************************************)
(* The contract with RunExecution, which takes it for granted that an      *)
(* Agent has one execution at a time.                                      *)
(***************************************************************************)
\* The phases before the process, and those after it that precede the verdict.
BeforeProcess == {"starting", "preparing", "building", "denied", "refusing", "capsule", "launching"}
AfterProcess  == {"diff", "diffAfterError", "outbox", "completing"}

\* Where a Run stands among those of Agent a.  A catch block whose Run has its verdict or
\* is deleted has nothing to decide.
Stand(a, r) ==
    IF owner[r] # a \/ exec[r] = "none" THEN "new"
    ELSE IF exec[r] \in BeforeProcess THEN "admitted"
    ELSE IF exec[r] \in InProcess THEN "running"
    ELSE IF exec[r] \in AfterProcess \/ (exec[r] = "failing" /\ run[r] \in ActiveStatus)
         THEN "ended"
    ELSE "over"

Stands(a) == [r \in Runs |-> Stand(a, r)]

Of(a) == INSTANCE SerialExecution WITH state <- Stands(a)

\* A Run that is under way keeps its Agent from admitting another.
LEMMA UnderWayBlocks ==
    ASSUME TidyInv, NEW a \in Agents, NEW r \in Runs, Of(a)!UnderWay(r)
    PROVE  agent[a] \in {"busy", "deleted"}
<1> USE DEF TidyInv
<1>1. /\ owner[r] = a /\ exec[r] # "none"
      /\ \/ exec[r] \in Undecided \ {"failing"}
         \/ exec[r] = "failing" /\ run[r] \in ActiveStatus
  BY DEF Of!UnderWay, Stands, Stand, BeforeProcess, AfterProcess, InProcess, Undecided
<1>2. run[r] # "unused" /\ run[r] \in RunStatus
  BY <1>1 DEF AuditInv, StoreInv, FreshSends, Typed, TypeOK
<1>3. run[r] \in ActiveStatus \cup {"deleted"}
  BY <1>1, <1>2 DEF AuditInv, Audited, Stages, RunStatus
<1> QED BY <1>1, <1>3 DEF ActiveKeepsBusy, GoneTogether

\* Two Runs of an Agent are never under way at once.
Alone(a) == \A r, s \in Runs : Of(a)!UnderWay(r) /\ Of(a)!UnderWay(s) => r = s

\* r's execution goes from one phase to another that is further on.
Onward(r) ==
    /\ UNCHANGED owner
    /\ \A s \in Runs \ {r} : run'[s] = run[s] /\ exec'[s] = exec[s]
    /\ exec[r] # "none" /\ exec'[r] # "none"
    /\ \/ exec[r] \in BeforeProcess
       \/ exec[r] \in InProcess /\ exec'[r] \notin BeforeProcess
       \/ exec[r] \in AfterProcess /\ exec'[r] \notin BeforeProcess \cup InProcess
       \/ exec'[r] \in {"logFailure", "done", "rejected", "lost"}
       \/ exec'[r] = "failing" /\ run'[r] \notin ActiveStatus

LEMMA StandsOnward ==
    ASSUME NEW a \in Agents, NEW r \in Runs, Onward(r)
    PROVE  Of(a)!Next \/ UNCHANGED Stands(a)
<1>1. \A s \in Runs : Stands(a)[s] = Stand(a, s)
  BY DEF Stands
<1>2. \A s \in Runs \ {r} : Stand(a, s)' = Stand(a, s)
  BY DEF Onward, Stand
<1>3. PICK s, t : s = Stand(a, r) /\ t = Stand(a, r)'
  OBVIOUS
<1>4. \/ s = t
      \/ s = "admitted" /\ t \in {"running", "ended", "over"}
      \/ s = "running" /\ t \in {"ended", "over"}
      \/ s = "ended" /\ t = "over"
  <2>1. CASE owner[r] # a
    BY <1>3, <2>1 DEF Onward, Stand
  <2>2. CASE owner[r] = a /\ exec[r] \in BeforeProcess
    BY <1>3, <2>2 DEF Onward, Stand, BeforeProcess
  <2>3. CASE owner[r] = a /\ exec[r] \in InProcess
    BY <1>3, <2>3 DEF Onward, Stand, BeforeProcess, InProcess
  <2>4. CASE owner[r] = a /\ exec[r] \in AfterProcess
    BY <1>3, <2>4 DEF Onward, Stand, BeforeProcess, InProcess, AfterProcess
  <2>5. CASE owner[r] = a /\ exec[r] \notin BeforeProcess \cup InProcess \cup AfterProcess
    <3>1. t = "over"
      BY <1>3, <2>5 DEF Onward, Stand, BeforeProcess, InProcess, AfterProcess
    <3>2. s \in {"ended", "over"}
      BY <1>3, <2>5 DEF Onward, Stand
    <3> QED BY <3>1, <3>2
  <2> QED BY <2>1, <2>2, <2>3, <2>4, <2>5
<1>5. Stands(a)' = [Stands(a) EXCEPT ![r] = t]
  BY <1>2, <1>3 DEF Stands
<1>6. Of(a)!Becomes(r, t) /\ Stands(a)[r] = s
  BY <1>1, <1>3, <1>5 DEF Of!Becomes
<1>7. CASE s = t
  BY <1>1, <1>5, <1>6, <1>7 DEF Stands
<1>8. CASE s = "admitted" /\ t = "running"
  BY <1>6, <1>8 DEF Of!Next, Of!Launch
<1>9. CASE s \in {"admitted", "running"} /\ t = "ended"
  BY <1>6, <1>9 DEF Of!Next, Of!End
<1>10. CASE s \in {"admitted", "running", "ended"} /\ t = "over"
  BY <1>6, <1>10 DEF Of!Next, Of!Leave, Of!UnderWay
<1> QED BY <1>4, <1>7, <1>8, <1>9, <1>10

\* So it does in every step of executeRun, and when a write of it fails.
LEMMA RunsGoOnward ==
    ASSUME AuditInv, NEW r \in Runs,
           \/ RunStep(r) \/ AuditFault(r) \/ FailureUnrecorded(r)
           \/ StoreFaultInTry(r) \/ StoreFaultOutsideTry(r)
    PROVE  Onward(r)
<1> USE DEF AuditInv, Typed, TypeOK, Onward, BeforeProcess, InProcess, AfterProcess, Goto, Catch
<1>1. CASE CommitStart(r) \/ Prepare(r) \/ Build(r) \/ RecordDenial(r) \/ FinalizeCapsule(r)
  <2>1. CASE CommitStart(r)
    BY <2>1 DEF CommitStart
  <2>2. CASE Prepare(r)
    BY <2>2 DEF Prepare
  <2>3. CASE Build(r)
    BY <2>3 DEF Build
  <2>4. CASE RecordDenial(r)
    BY <2>4 DEF RecordDenial
  <2>5. CASE FinalizeCapsule(r)
    BY <2>5 DEF FinalizeCapsule
  <2> QED BY <1>1, <2>1, <2>2, <2>3, <2>4, <2>5
<1>2. CASE Launch(r)
  BY <1>2 DEF Launch
<1>3. CASE WorkspaceGone(r)
  BY <1>3 DEF WorkspaceGone
<1>4. CASE Close(r)
  BY <1>4 DEF Close
<1>5. CASE Drain(r)
  BY <1>5 DEF Drain
<1>6. CASE DiffAfterError(r)
  BY <1>6 DEF DiffAfterError
<1>7. CASE Diff(r)
  BY <1>7 DEF Diff
<1>8. CASE Outbox(r)
  BY <1>8 DEF Outbox
<1>9. CASE CommitComplete(r)
  BY <1>9 DEF CommitComplete
<1>10. CASE CommitRefusal(r)
  BY <1>10 DEF CommitRefusal, RunBecomes, Finish
<1>11. CASE CommitFailure(r)
  BY <1>11 DEF CommitFailure, RunBecomes
<1>12. CASE RecordCompletion(r) \/ RecordFailure(r) \/ FailureUnrecorded(r)
  BY <1>12 DEF RecordCompletion, RecordFailure, FailureUnrecorded, Finish
<1>13. CASE AuditFault(r)
  <2>1. exec[r] = "logging" => run[r] \notin ActiveStatus
    BY DEF Audited, Stages, ActiveStatus
  <2> QED BY <1>13, <2>1 DEF AuditFault
<1>14. CASE StoreFaultInTry(r)
  BY <1>14 DEF StoreFaultInTry, PersistFails
<1>15. CASE StoreFaultOutsideTry(r)
  BY <1>15 DEF StoreFaultOutsideTry, PersistFails, Finish
<1> QED BY <1>1, <1>2, <1>3, <1>4, <1>5, <1>6, <1>7, <1>8, <1>9, <1>10, <1>11, <1>12, <1>13,
           <1>14, <1>15 DEF RunStep

\* What ends the executions of an Agent at one stroke ends one at most.
LEMMA OneLeaves ==
    ASSUME NEW a \in Agents, Alone(a), NEW S \in SUBSET Runs,
           \A r \in S : Stand(a, r)' = IF Of(a)!UnderWay(r) THEN "over" ELSE Stand(a, r),
           \A r \in Runs \ S : Stand(a, r)' = Stand(a, r)
    PROVE  Of(a)!Next \/ UNCHANGED Stands(a)
<1>1. \A r \in Runs : Stands(a)[r] = Stand(a, r)
  BY DEF Stands
<1>2. CASE \E r \in S : Of(a)!UnderWay(r)
  <2>1. PICK r \in S : Of(a)!UnderWay(r)
    BY <1>2
  <2>2. \A s \in Runs \ {r} : Stand(a, s)' = Stand(a, s)
    BY <2>1 DEF Alone
  <2>3. Stands(a)' = [Stands(a) EXCEPT ![r] = "over"]
    BY <2>1, <2>2 DEF Stands
  <2> QED BY <2>1, <2>3 DEF Of!Next, Of!Leave, Of!Becomes
<1>3. CASE \A r \in S : ~Of(a)!UnderWay(r)
  BY <1>3 DEF Stands
<1> QED BY <1>2, <1>3

\* The contract's step, or none, for whatever happens.
LEMMA SerialStep ==
    ASSUME TidyInv, NEW a \in Agents, Alone(a), Next
    PROVE  Of(a)!Next \/ UNCHANGED Stands(a)
<1> USE DEF TidyInv, AuditInv, Typed, TypeOK, StoreInv
<1>1. ASSUME UNCHANGED <<exec, run, owner>>
      PROVE  UNCHANGED Stands(a)
  BY <1>1 DEF Stands, Stand
<1>2. ASSUME NEW c \in Clients, ClientRequest(c)
      PROVE  UNCHANGED <<exec, run, owner>>
  BY <1>2 DEF ClientRequest, Create, Start, Cancel, Send
<1>3. ASSUME NEW c \in Clients, AdmitRun(c)
      PROVE  Of(a)!Next \/ UNCHANGED Stands(a)
  <2>1. PICK r \in Runs : r = held[c]
    BY <1>3 DEF AdmitRun, Turn, RequestsTyped
  <2>2. exec[r] = "none" /\ run[r] = "unused"
    BY <1>3, <2>1 DEF AdmitRun, Turn, FreshSends
  <2>3. /\ \A s \in Runs \ {r} : owner'[s] = owner[s] /\ run'[s] = run[s] /\ exec'[s] = exec[s]
        /\ owner'[r] = target[c] /\ exec'[r] = "starting"
    BY <1>3, <2>1 DEF AdmitRun
  <2>4. \A s \in Runs \ {r} : Stand(a, s)' = Stand(a, s)
    BY <2>3 DEF Stand
  <2>5. CASE target[c] # a
    BY <2>2, <2>3, <2>4, <2>5 DEF Stands, Stand
  <2>6. CASE target[c] = a
    <3>1. agent[a] \notin {"busy", "deleted"}
      BY <1>3, <2>6 DEF AdmitRun, Admissible
    <3>2. \A s \in Runs : ~Of(a)!UnderWay(s)
      BY <3>1, UnderWayBlocks
    <3>3. Stand(a, r) = "new" /\ Stand(a, r)' = "admitted"
      BY <2>2, <2>3, <2>6 DEF Stand, BeforeProcess
    <3>4. Stands(a)[r] = "new" /\ Stands(a)' = [Stands(a) EXCEPT ![r] = "admitted"]
      BY <2>4, <3>3 DEF Stands
    <3> QED BY <3>2, <3>4 DEF Of!Next, Of!Admit, Of!Becomes
  <2> QED BY <2>5, <2>6
<1>4. ASSUME NEW c \in Clients, CommitDelete(c)
      PROVE  Of(a)!Next \/ UNCHANGED Stands(a)
  <2> DEFINE S == {r \in Runs : owner[r] = target[c] /\ exec[r] = "failing"}
  <2>1. /\ UNCHANGED <<exec, owner>>
        /\ \A r \in Runs : run'[r] = IF owner[r] = target[c] THEN "deleted" ELSE run[r]
    BY <1>4 DEF CommitDelete
  <2>2. ASSUME NEW r \in S
        PROVE  Stand(a, r)' = IF Of(a)!UnderWay(r) THEN "over" ELSE Stand(a, r)
    BY <2>1 DEF Stand, Stands, Of!UnderWay, BeforeProcess, InProcess, AfterProcess, ActiveStatus
  <2>3. ASSUME NEW r \in Runs \ S
        PROVE  Stand(a, r)' = Stand(a, r)
    BY <2>1 DEF Stand
  <2> HIDE DEF S
  <2>4. S \in SUBSET Runs
    BY DEF S
  <2> QED BY <2>2, <2>3, <2>4, OneLeaves
<1>5. ASSUME NEW c \in Clients, ClientStep(c)
      PROVE  AdmitRun(c) \/ CommitDelete(c) \/ UNCHANGED <<exec, run, owner>>
  BY <1>5 DEF ClientStep, CommitCreate, Refuse, CommitStatus, Settled, Joined,
              JoinRejected, Archive, ArchiveFails
<1>6. ASSUME NEW c \in Clients, StoreFaultOfRequest(c)
      PROVE  UNCHANGED <<exec, run, owner>>
  BY <1>6 DEF StoreFaultOfRequest, PersistFails
<1>7. ASSUME NEW r \in Runs,
             \/ RunStep(r) \/ AuditFault(r) \/ FailureUnrecorded(r)
             \/ StoreFaultInTry(r) \/ StoreFaultOutsideTry(r)
      PROVE  Of(a)!Next \/ UNCHANGED Stands(a)
  <2>1. Onward(r)
    BY <1>7, RunsGoOnward
  <2> QED BY <2>1, StandsOnward
<1>8. CASE Crash
  <2>1. /\ UNCHANGED <<run, owner>>
        /\ \A r \in Runs : exec'[r] = IF exec[r] \in Over THEN exec[r] ELSE "lost"
    BY <1>8 DEF Crash
  <2>2. ASSUME NEW r \in Runs
        PROVE  Stand(a, r)' = IF Of(a)!UnderWay(r) THEN "over" ELSE Stand(a, r)
    BY <2>1 DEF Stand, Stands, Of!UnderWay, BeforeProcess, InProcess, AfterProcess, Over
  <2> QED BY <2>2, OneLeaves
<1>9. CASE Initialize
  <2>1. UNCHANGED <<exec, owner>> /\ \A r \in Runs : exec[r] # "failing"
    BY <1>9 DEF Initialize, Halted, Over
  <2> QED BY <2>1 DEF Stands, Stand
<1>o. ASSUME NEW r \in Runs, OrphanEnds(r)
      PROVE  UNCHANGED <<exec, run, owner>>
  BY <1>o DEF OrphanEnds
<1> QED BY <1>1, <1>2, <1>3, <1>4, <1>5, <1>6, <1>7, <1>8, <1>9, <1>o DEF Next, Fault

\* In the contract one Run at most is under way.
LEMMA AloneStep ==
    ASSUME NEW a \in Agents, Alone(a), Of(a)!Next \/ UNCHANGED Stands(a)
    PROVE  Alone(a)'
<1> DEFINE Under(r) == Stands(a)[r] \in {"admitted", "running", "ended"}
<1>1. \A r \in Runs : Of(a)!UnderWay(r) <=> Under(r)
  BY DEF Of!UnderWay
<1>2. \A r \in Runs : Of(a)!UnderWay(r)' <=> Under(r)'
  BY DEF Of!UnderWay
<1>3. CASE UNCHANGED Stands(a)
  BY <1>1, <1>2, <1>3 DEF Alone
<1>4. ASSUME NEW r \in Runs, Of(a)!Admit(r) \/ Of(a)!Launch(r) \/ Of(a)!End(r) \/ Of(a)!Leave(r)
      PROVE  Alone(a)'
  <2>1. \A s \in Runs \ {r} : Stands(a)'[s] = Stands(a)[s]
    BY <1>4 DEF Stands, Of!Admit, Of!Launch, Of!End, Of!Leave, Of!Becomes
  <2>2. Under(r) \/ \A s \in Runs : ~Under(s)
    BY <1>1, <1>4 DEF Of!Admit, Of!Launch, Of!End, Of!Leave, Of!UnderWay
  <2>3. \A s \in Runs \ {r} : Under(s)' <=> Under(s)
    BY <2>1
  <2> HIDE DEF Under
  <2> QED BY <1>1, <1>2, <2>2, <2>3 DEF Alone
<1> QED BY <1>3, <1>4 DEF Of!Next

\* The invariant behind both theorems below.
SerialInv == TidyInv /\ \A a \in Agents : Alone(a)

LEMMA AloneHolds ==
    Spec /\ [][~StrayRelease]_vars => []SerialInv
<1>1. Init => SerialInv
  <2> SUFFICES ASSUME Init, NEW a \in Agents PROVE Alone(a)
    BY TidyInit DEF SerialInv
  <2> QED BY DEF Init, Alone, Of!UnderWay, Stands, Stand
<1>2. SerialInv /\ [Next]_vars /\ [~StrayRelease]_vars => SerialInv'
  <2> SUFFICES ASSUME SerialInv, [Next]_vars, [~StrayRelease]_vars, NEW a \in Agents
               PROVE  Alone(a)'
    BY TidyStep DEF SerialInv
  <2> USE DEF SerialInv
  <2>1. CASE UNCHANGED vars
    <3>1. UNCHANGED Stands(a)
      BY <2>1 DEF Stands, Stand
    <3> QED BY <3>1, AloneStep
  <2>2. CASE Next
    BY <2>2, SerialStep, AloneStep
  <2> QED BY <2>1, <2>2
<1> QED BY <1>1, <1>2, PTL DEF Spec

\* RunExecution's assumption discharged: as long as no step releases the Agent astray, its
\* Runs are executed one after the other, however requests, failing writes, deletions and
\* restarts fall between the steps of executeRun.
THEOREM ExecutionsAreSerial ==
    ASSUME NEW a \in Agents
    PROVE  Spec /\ [][~StrayRelease]_vars => Of(a)!Spec
<1>1. Init => Of(a)!Init
  BY DEF Init, Of!Init, Stands, Stand
<1>2. SerialInv /\ [Next]_vars => [Of(a)!Next]_(Stands(a))
  <2>1. CASE UNCHANGED vars
    BY <2>1 DEF Stands, Stand
  <2>2. CASE SerialInv /\ Next
    BY <2>2, SerialStep DEF SerialInv
  <2> QED BY <2>1, <2>2
<1> QED BY <1>1, <1>2, AloneHolds, PTL DEF Spec, Of!Spec

\* The phases in which a Run's process, diff or outbox uses the workspace.
AtWork == InProcess \cup {"diff", "diffAfterError", "outbox"}

\* Only one Run of an Agent uses its workspace at a time, save for what a server that died
\* has left behind: between the two manifests that a Run's artifact records are made from
\* nothing runs but its own process, and no process writes an outbox while processOutbox
\* reads it for another Run, unless a child of a cancelled Run, or of a deleted one, is
\* still there.
UsesWorkspace(r) == exec[r] \in AtWork \/ r \in orphans
WorkspaceOfOneRun ==
    \A r, s \in Runs :
        UsesWorkspace(r) /\ UsesWorkspace(s) /\ owner[r] = owner[s] /\ r # s
            => \E q \in {r, s} : q \in orphans /\ (up => run[q] \in {"cancelled", "deleted"})

\* So captureAfter attributes to a Run what that Run's process wrote, and processOutbox takes
\* from a Run what it proposed, when nothing of an earlier server runs on.  The condition is
\* needed: after a stray release the next Run's process may run meanwhile.
THEOREM WorkspaceIsOneRuns ==
    Spec /\ [][~StrayRelease]_vars => []WorkspaceOfOneRun
<1>1. SerialInv /\ LeftOver => WorkspaceOfOneRun
  <2> SUFFICES ASSUME TidyInv, \A a \in Agents : Alone(a), LeftOver,
                      NEW r \in Runs, NEW s \in Runs,
                      UsesWorkspace(r), UsesWorkspace(s), owner[r] = owner[s], r # s
               PROVE  \E q \in {r, s} : q \in orphans /\ (up => run[q] \in {"cancelled", "deleted"})
    BY DEF WorkspaceOfOneRun, SerialInv
  <2>1. CASE exec[r] \in AtWork /\ exec[s] \in AtWork
    <3>1. owner[r] \in Agents
      BY <2>1 DEF AtWork, TidyInv, AuditInv, ProcessTracked, InProcess
    <3>2. Of(owner[r])!UnderWay(r) /\ Of(owner[r])!UnderWay(s)
      BY <2>1 DEF AtWork, Of!UnderWay, Stands, Stand, BeforeProcess, InProcess, AfterProcess
    <3> QED BY <3>1, <3>2 DEF Alone
  <2>2. ASSUME NEW q \in orphans
        PROVE  up => run[q] \in {"cancelled", "deleted"}
    BY <2>2 DEF LeftOver
  <2> QED BY <2>1, <2>2 DEF UsesWorkspace
<1>2. Init => ChildInv
  BY ChildInvInit
<1>3. ChildInv => LeftOver
  BY DEF ChildInv
<1> QED BY <1>1, <1>2, <1>3, ChildInvStep, AloneHolds, PTL DEF Spec

(***************************************************************************)
(* Why everyone is answered.  Requests and executions wait for one another *)
(* and for the store's queue; below, whoever waits is shown to wait for    *)
(* somebody who can go on, and every step to be spent for good.  From      *)
(* these two, which any number of faults and crashes leaves true, and the  *)
(* fairness of steps that can be taken, EveryoneIsAnswered follows.        *)
(***************************************************************************)
\* The phases in which an execution waits for its turn to mutate the store.
Mutating == {"starting", "refusing", "completing", "failing"}

Waiting == {c \in Clients : phase[c] = "queued"} \cup {r \in Runs : exec[r] \in Mutating}

\* What the guards of ClientStep(c) and of RunStep(r) come to.
ClientReady(c) ==
    \/ phase[c] = "queued" /\ op[c] # "none" /\ InTurn(c)
    \/ phase[c] = "settling" /\ exec[held[c]] # "process"
    \/ phase[c] = "awaiting" /\ exec[held[c]] \in {"done", "rejected"}
    \/ phase[c] = "archiving"
RunReady(r) == Live(r) /\ (exec[r] \in Mutating => InTurn(r))

\* The head of the queue can go on; so can whoever is not in the queue, unless it is a
\* request that waits for an execution, which is in the queue or can go on.  Nobody waits
\* in a circle, and whoever waits in the queue is there once.
NobodyIsStuck ==
    /\ \A i, j \in DOMAIN queue : queue[i] = queue[j] => i = j
    /\ queue # << >> => \/ Head(queue) \in Clients /\ ClientReady(Head(queue))
                        \/ Head(queue) \in Runs /\ RunReady(Head(queue))
    /\ \A r \in Runs : Live(r) => RunReady(r) \/ \E i \in DOMAIN queue : queue[i] = r
    /\ \A c \in Clients : phase[c] # "idle" =>
          \/ ClientReady(c)
          \/ \E i \in DOMAIN queue : queue[i] = c
          \/ phase[c] \in {"settling", "awaiting"} /\ held[c] \in Runs /\ Live(held[c])

\* How many phases an execution and a request have ahead of them at most.
RunAhead(p) ==
    CASE p = "none" -> 17           [] p = "starting" -> 16       [] p = "preparing" -> 15
      [] p = "building" -> 14       [] p = "denied" -> 13         [] p = "capsule" -> 12
      [] p = "launching" -> 11      [] p = "process" -> 10        [] p = "draining" -> 9
      [] p = "diff" -> 8            [] p = "outbox" -> 7          [] p = "completing" -> 6
      [] p = "logging" -> 5         [] p = "refusing" -> 4        [] p = "diffAfterError" -> 3
      [] p = "failing" -> 2         [] p = "logFailure" -> 1      [] OTHER -> 0
ClientAhead(p) ==
    CASE p = "settling" -> 4 [] p = "awaiting" -> 3 [] p = "archiving" -> 2
      [] p = "queued" -> 1   [] OTHER -> 0

\* Every step of an execution or a request takes it forward, none takes anyone back, and
\* nobody overtakes anyone in the queue.
Spent ==
    /\ \A r \in Runs : exec'[r] = exec[r] \/ RunAhead(exec'[r]) < RunAhead(exec[r])
    /\ \A r \in Runs : RunStep(r) => exec'[r] # exec[r]
    /\ \A c \in Clients :
          phase'[c] = phase[c] \/ phase[c] = "idle" \/ ClientAhead(phase'[c]) < ClientAhead(phase[c])
    /\ \A c \in Clients : ClientStep(c) => phase'[c] # phase[c]
    /\ up' => \A i \in 2 .. Len(queue) :
          \/ i \in DOMAIN queue' /\ queue'[i] = queue[i]
          \/ i - 1 \in DOMAIN queue' /\ queue'[i - 1] = queue[i]

(***************************************************************************)
(* Queues without repetitions.                                             *)
(***************************************************************************)
Members(q)  == {q[i] : i \in DOMAIN q}
Distinct(q) == \A i, j \in DOMAIN q : q[i] = q[j] => i = j

LEMMA AppendFacts ==
    ASSUME NEW S, NEW q \in Seq(S), Distinct(q), NEW x \in S, x \notin Members(q)
    PROVE  Distinct(Append(q, x)) /\ Members(Append(q, x)) = Members(q) \cup {x}
<1>1. /\ Append(q, x) \in Seq(S) /\ Len(q) \in Nat /\ DOMAIN q = 1 .. Len(q)
      /\ DOMAIN Append(q, x) = 1 .. Len(q) + 1
      /\ Append(q, x)[Len(q) + 1] = x /\ \A i \in 1 .. Len(q) : Append(q, x)[i] = q[i]
  OBVIOUS
<1>2. \A i \in 1 .. Len(q) + 1 : i \in 1 .. Len(q) \/ i = Len(q) + 1
  BY <1>1
<1>3. 1 .. Len(q) \subseteq 1 .. Len(q) + 1 /\ Len(q) + 1 \in 1 .. Len(q) + 1
  BY <1>1
<1>4. Distinct(Append(q, x))
  BY <1>1, <1>2 DEF Distinct, Members
<1>5. Members(Append(q, x)) = Members(q) \cup {x}
  BY <1>1, <1>2, <1>3 DEF Members
<1> QED BY <1>4, <1>5

LEMMA TailFacts ==
    ASSUME NEW S, NEW q \in Seq(S), Distinct(q), q # << >>
    PROVE  /\ Tail(q) \in Seq(S) /\ Distinct(Tail(q))
           /\ Head(q) \in Members(q) /\ Members(Tail(q)) = Members(q) \ {Head(q)}
<1>1. /\ Tail(q) \in Seq(S) /\ Len(q) \in Nat \ {0} /\ DOMAIN q = 1 .. Len(q)
      /\ DOMAIN Tail(q) = 1 .. Len(q) - 1 /\ Head(q) = q[1]
      /\ \A i \in 1 .. Len(q) - 1 : Tail(q)[i] = q[i + 1]
  OBVIOUS
<1>2. \A i \in 1 .. Len(q) - 1 : i \in Nat /\ i + 1 \in 1 .. Len(q) /\ i + 1 # 1
  BY <1>1
<1>3. \A i \in 1 .. Len(q) : i = 1 \/ (i - 1 \in 1 .. Len(q) - 1 /\ (i - 1) + 1 = i)
  BY <1>1
<1>4. 1 \in 1 .. Len(q)
  BY <1>1
<1>5. Distinct(Tail(q))
  <2> SUFFICES ASSUME NEW i \in 1 .. Len(q) - 1, NEW j \in 1 .. Len(q) - 1, q[i + 1] = q[j + 1]
               PROVE  i = j
    BY <1>1 DEF Distinct
  <2>1. i + 1 = j + 1
    BY <1>1, <1>2 DEF Distinct
  <2> QED BY <1>2, <2>1
<1>6. Members(Tail(q)) = Members(q) \ {Head(q)}
  <2>1. ASSUME NEW i \in 1 .. Len(q) - 1
        PROVE  Tail(q)[i] \in Members(q) /\ Tail(q)[i] # Head(q)
    BY <1>1, <1>2, <1>4 DEF Members, Distinct
  <2>2. ASSUME NEW i \in 1 .. Len(q), q[i] # Head(q)
        PROVE  q[i] \in Members(Tail(q))
    <3>1. i - 1 \in 1 .. Len(q) - 1 /\ (i - 1) + 1 = i
      BY <1>1, <1>3, <2>2
    <3>2. Tail(q)[i - 1] = q[i]
      BY <1>1, <3>1
    <3> QED BY <1>1, <3>1, <3>2 DEF Members
  <2> QED BY <1>1, <2>1, <2>2 DEF Members
<1> QED BY <1>1, <1>4, <1>5, <1>6 DEF Members

(***************************************************************************)
(* What each step does to the queue and to those who wait in it.           *)
(***************************************************************************)
QueueMoves ==
    \/ queue' = queue /\ Waiting' = Waiting
    \/ \E x \in (Clients \cup Runs) \ Waiting :
          queue' = Append(queue, x) /\ Waiting' = Waiting \cup {x}
    \/ queue # << >> /\ queue' = Tail(queue) /\ Waiting' = Waiting \ {Head(queue)}
    \/ /\ queue # << >>
       /\ \E x \in (Clients \cup Runs) \ (Waiting \ {Head(queue)}) :
             queue' = Append(Tail(queue), x) /\ Waiting' = (Waiting \ {Head(queue)}) \cup {x}
    \/ queue' = << >> /\ Waiting' = {} /\ ~up'

\* A step of c's request that takes it to phase p.
ClientMoves(c, p) ==
    /\ phase' = [phase EXCEPT ![c] = p] /\ exec' = exec
    /\ ClientAhead(p) < ClientAhead(phase[c]) \/ phase[c] = "idle"
    /\ p # phase[c]
    /\ \/ queue' = queue /\ p # "queued" /\ phase[c] # "queued"
       \/ queue' = Append(queue, c) /\ p = "queued"
       \/ InTurn(c) /\ queue' = Tail(queue) /\ p # "queued"

\* A step of r's execution that takes it to phase p.
RunMoves(r, p) ==
    /\ exec' = [exec EXCEPT ![r] = p] /\ phase' = phase
    /\ RunAhead(p) < RunAhead(exec[r])
    /\ p \in ExecPhases \ {"none", "lost"}
    /\ \/ queue' = queue /\ p \notin Mutating /\ exec[r] \notin Mutating
       \/ queue' = Append(queue, r) /\ p \in Mutating /\ exec[r] \notin Mutating
       \/ InTurn(r) /\ queue' = Tail(queue) /\ p \notin Mutating
       \/ InTurn(r) /\ queue' = Append(Tail(queue), r) /\ p \in Mutating

LEMMA Aheads ==
    /\ RunAhead("none") = 17 /\ RunAhead("starting") = 16 /\ RunAhead("preparing") = 15
    /\ RunAhead("building") = 14 /\ RunAhead("denied") = 13 /\ RunAhead("capsule") = 12
    /\ RunAhead("launching") = 11 /\ RunAhead("process") = 10 /\ RunAhead("draining") = 9
    /\ RunAhead("diff") = 8 /\ RunAhead("outbox") = 7 /\ RunAhead("completing") = 6
    /\ RunAhead("logging") = 5 /\ RunAhead("refusing") = 4 /\ RunAhead("diffAfterError") = 3
    /\ RunAhead("failing") = 2 /\ RunAhead("logFailure") = 1
    /\ \A p \in Over \ {"none"} : RunAhead(p) = 0
    /\ ClientAhead("settling") = 4 /\ ClientAhead("awaiting") = 3
    /\ ClientAhead("archiving") = 2 /\ ClientAhead("queued") = 1 /\ ClientAhead("idle") = 0
  BY DEF RunAhead, ClientAhead, Over

LEMMA ClientWaits ==
    ASSUME Typed, NEW c \in Clients, NEW p, ClientMoves(c, p)
    PROVE  QueueMoves
<1>1. c \notin Runs /\ (c \in Waiting <=> phase[c] = "queued")
  BY IdsAssumption DEF Waiting
<1>2. Waiting' = IF p = "queued" THEN Waiting \cup {c} ELSE Waiting \ {c}
  BY <1>1 DEF ClientMoves, Waiting, Typed, TypeOK
<1> QED BY <1>1, <1>2 DEF ClientMoves, QueueMoves, InTurn

LEMMA RunWaits ==
    ASSUME Typed, NEW r \in Runs, NEW p, RunMoves(r, p)
    PROVE  QueueMoves
<1>1. r \notin Clients /\ (r \in Waiting <=> exec[r] \in Mutating)
  BY IdsAssumption DEF Waiting
<1>2. Waiting' = IF p \in Mutating THEN Waiting \cup {r} ELSE Waiting \ {r}
  BY <1>1 DEF RunMoves, Waiting, Typed, TypeOK
<1>3. CASE queue' = queue /\ p \notin Mutating /\ exec[r] \notin Mutating
  BY <1>1, <1>2, <1>3 DEF QueueMoves
<1>4. CASE queue' = Append(queue, r) /\ p \in Mutating /\ exec[r] \notin Mutating
  BY <1>1, <1>2, <1>4 DEF QueueMoves
<1>5. CASE InTurn(r) /\ queue' = Tail(queue) /\ p \notin Mutating
  BY <1>2, <1>5 DEF QueueMoves, InTurn
<1>6. CASE InTurn(r) /\ queue' = Append(Tail(queue), r) /\ p \in Mutating
  <2>1. Waiting' = (Waiting \ {Head(queue)}) \cup {r} /\ r \notin Waiting \ {Head(queue)}
    BY <1>2, <1>6 DEF InTurn
  <2> QED BY <1>6, <2>1 DEF QueueMoves, InTurn
<1> QED BY <1>3, <1>4, <1>5, <1>6 DEF RunMoves

LEMMA AdmitWaits ==
    ASSUME Typed, FreshSends, NEW c \in Clients, AdmitRun(c)
    PROVE  QueueMoves
<1>1. /\ held[c] \in Runs /\ exec[held[c]] = "none" /\ held[c] \notin Waiting /\ InTurn(c)
      /\ queue # << >> /\ Head(queue) = c /\ queue' = Append(Tail(queue), held[c])
  BY IdsAssumption DEF AdmitRun, Turn, InTurn, Typed, RequestsTyped, FreshSends, Waiting, Mutating
<1>2. Waiting' = (Waiting \ {c}) \cup {held[c]}
  <2>1. \A d \in Clients : phase'[d] = IF d = c THEN "idle" ELSE phase[d]
    BY DEF AdmitRun, Answer, Typed, TypeOK
  <2>2. \A r \in Runs : exec'[r] = IF r = held[c] THEN "starting" ELSE exec[r]
    BY DEF AdmitRun, Typed, TypeOK
  <2>3. c \notin Runs
    BY IdsAssumption
  <2> QED BY <1>1, <2>1, <2>2, <2>3 DEF Waiting, Mutating
<1> QED BY <1>1, <1>2 DEF QueueMoves

LEMMA ProceedMoves ==
    ASSUME NEW c \in Clients, NEW a, NEW request \in {"stop", "delete"},
           phase[c] \in {"idle", "settling", "awaiting"}, exec' = exec,
           Proceed(c, request, a)
    PROVE  \E p : ClientMoves(c, p)
<1>1. \/ phase' = [phase EXCEPT ![c] = "queued"] /\ queue' = Append(queue, c)
      \/ phase' = [phase EXCEPT ![c] = "archiving"] /\ queue' = queue
  BY DEF Proceed, Enqueue
<1>2. /\ phase[c] = "idle" \/ ClientAhead("archiving") < ClientAhead(phase[c])
      /\ phase[c] = "idle" \/ ClientAhead("queued") < ClientAhead(phase[c])
  BY Aheads
<1>3. CASE phase' = [phase EXCEPT ![c] = "queued"] /\ queue' = Append(queue, c)
  <2>1. ClientMoves(c, "queued")
    BY <1>2, <1>3 DEF ClientMoves
  <2> QED BY <2>1
<1>4. CASE phase' = [phase EXCEPT ![c] = "archiving"] /\ queue' = queue
  <2>1. ClientMoves(c, "archiving")
    BY <1>2, <1>4 DEF ClientMoves
  <2> QED BY <2>1
<1> QED BY <1>1, <1>3, <1>4

LEMMA JoinMoves ==
    ASSUME NEW c \in Clients, NEW a, NEW request \in {"stop", "delete"},
           phase[c] \in {"idle", "settling"}, exec' = exec, JoinExecution(c, request, a)
    PROVE  \E p : ClientMoves(c, p)
<1>1. CASE phase' = [phase EXCEPT ![c] = "awaiting"] /\ queue' = queue
  <2>1. ClientMoves(c, "awaiting")
    BY <1>1, Aheads DEF ClientMoves
  <2> QED BY <2>1
<1>2. CASE Proceed(c, request, a)
  BY <1>2, ProceedMoves
<1> QED BY <1>1, <1>2 DEF JoinExecution

LEMMA RequestMoves ==
    ASSUME NEW c \in Clients, ClientRequest(c)
    PROVE  \E p : ClientMoves(c, p)
<1>1. phase[c] = "idle" /\ exec' = exec
  BY DEF ClientRequest, Create, Start, Cancel, Send, MayRequest
<1>2. CASE phase' = [phase EXCEPT ![c] = "queued"] /\ queue' = Append(queue, c)
  <2>1. ClientMoves(c, "queued")
    BY <1>1, <1>2 DEF ClientMoves
  <2> QED BY <2>1
<1>3. CASE phase' = [phase EXCEPT ![c] = "settling"] /\ queue' = queue
  <2>1. ClientMoves(c, "settling")
    BY <1>1, <1>3 DEF ClientMoves
  <2> QED BY <2>1
<1>4. ASSUME NEW a, NEW request \in {"stop", "delete"}, JoinExecution(c, request, a)
      PROVE  \E p : ClientMoves(c, p)
  BY <1>1, <1>4, JoinMoves
<1> QED BY <1>2, <1>3, <1>4
        DEF ClientRequest, Create, Start, Cancel, Send, Begin, Enqueue, KillProcess

LEMMA StepMoves ==
    ASSUME Typed, NEW c \in Clients, ClientStep(c), ~AdmitRun(c)
    PROVE  \E p : ClientMoves(c, p)
<1>1. CASE CommitCreate(c) \/ Refuse(c) \/ CommitStatus(c) \/ CommitDelete(c)
  <2>1. /\ phase[c] = "queued" /\ exec' = exec /\ InTurn(c) /\ queue' = Tail(queue)
        /\ phase' = [phase EXCEPT ![c] = "idle"]
    BY <1>1 DEF CommitCreate, Refuse, CommitStatus, CommitDelete, Turn, Dequeue, Answer
  <2>2. ClientMoves(c, "idle")
    BY <2>1, Aheads DEF ClientMoves
  <2> QED BY <2>2
<1>2. CASE Settled(c)
  BY <1>2, JoinMoves DEF Settled, Typed, RequestsTyped
<1>3. CASE Joined(c)
  BY <1>3, ProceedMoves DEF Joined, Typed, RequestsTyped
<1>4. CASE JoinRejected(c) \/ ArchiveFails(c)
  <2>1. ClientMoves(c, "idle")
    BY <1>4, Aheads DEF JoinRejected, ArchiveFails, Answer, ClientMoves
  <2> QED BY <2>1
<1>5. CASE Archive(c)
  <2>1. ClientMoves(c, "queued")
    BY <1>5, Aheads DEF Archive, Enqueue, ClientMoves
  <2> QED BY <2>1
<1> QED BY <1>1, <1>2, <1>3, <1>4, <1>5 DEF ClientStep

LEMMA ExecutionMoves ==
    ASSUME NEW r \in Runs, RunStep(r)
    PROVE  \E p : RunMoves(r, p)
<1> USE Aheads DEF RunMoves, Goto, Catch, Finish, Enqueue, Dequeue, ExecPhases, Over, Undecided, Mutating
<1>1. CASE CommitStart(r)
  <2>1. RunMoves(r, "failing") \/ RunMoves(r, "preparing")
    BY <1>1 DEF CommitStart
  <2> QED BY <2>1
<1>2. CASE Prepare(r)
  <2>1. RunMoves(r, "building")
    BY <1>2 DEF Prepare
  <2> QED BY <2>1
<1>3. CASE Build(r)
  <2>1. RunMoves(r, "capsule") \/ RunMoves(r, "denied") \/ RunMoves(r, "refusing")
    BY <1>3 DEF Build
  <2> QED BY <2>1
<1>4. CASE RecordDenial(r)
  <2>1. RunMoves(r, "refusing")
    BY <1>4 DEF RecordDenial
  <2> QED BY <2>1
<1>5. CASE CommitRefusal(r)
  <2>1. RunMoves(r, "done")
    BY <1>5 DEF CommitRefusal
  <2> QED BY <2>1
<1>6. CASE FinalizeCapsule(r)
  <2>1. RunMoves(r, "launching")
    BY <1>6 DEF FinalizeCapsule
  <2> QED BY <2>1
<1>7. CASE Launch(r)
  <2>1. RunMoves(r, "process") \/ RunMoves(r, "diffAfterError")
    BY <1>7 DEF Launch
  <2> QED BY <2>1
<1>8. CASE WorkspaceGone(r) \/ DiffAfterError(r)
  <2>1. RunMoves(r, "failing")
    BY <1>8 DEF WorkspaceGone, DiffAfterError
  <2> QED BY <2>1
<1>9. CASE Close(r)
  <2>1. RunMoves(r, "draining")
    BY <1>9 DEF Close
  <2> QED BY <2>1
<1>10. CASE Drain(r)
  <2>1. RunMoves(r, "diffAfterError") \/ RunMoves(r, "diff")
    BY <1>10 DEF Drain
  <2> QED BY <2>1
<1>11. CASE Diff(r)
  <2>1. RunMoves(r, "outbox")
    BY <1>11 DEF Diff
  <2> QED BY <2>1
<1>12. CASE Outbox(r)
  <2>1. RunMoves(r, "completing")
    BY <1>12 DEF Outbox
  <2> QED BY <2>1
<1>13. CASE CommitComplete(r)
  <2>1. RunMoves(r, "logging")
    BY <1>13 DEF CommitComplete
  <2> QED BY <2>1
<1>14. CASE CommitFailure(r)
  <2>1. RunMoves(r, "logFailure")
    BY <1>14 DEF CommitFailure
  <2> QED BY <2>1
<1>15. CASE RecordCompletion(r) \/ RecordFailure(r)
  <2>1. RunMoves(r, "done")
    BY <1>15 DEF RecordCompletion, RecordFailure
  <2> QED BY <2>1
<1> QED BY <1>1, <1>2, <1>3, <1>4, <1>5, <1>6, <1>7, <1>8, <1>9, <1>10, <1>11, <1>12,
           <1>13, <1>14, <1>15 DEF RunStep

LEMMA FaultMoves ==
    ASSUME Fault, ~Crash
    PROVE  \/ \E c \in Clients : ClientMoves(c, "idle")
           \/ \E r \in Runs, p \in {"failing", "rejected"} : RunMoves(r, p)
<1>1. ASSUME NEW c \in Clients, StoreFaultOfRequest(c)
      PROVE  ClientMoves(c, "idle")
  BY <1>1, Aheads DEF StoreFaultOfRequest, PersistFails, Answer, Dequeue, ClientMoves
<1> USE Aheads DEF RunMoves, Goto, Catch, Finish, Enqueue, Dequeue, ExecPhases, Over, Undecided, Mutating
<1>2. ASSUME NEW r \in Runs, AuditFault(r)
      PROVE  RunMoves(r, "failing")
  BY <1>2 DEF AuditFault
<1>3. ASSUME NEW r \in Runs, FailureUnrecorded(r)
      PROVE  RunMoves(r, "rejected")
  BY <1>3 DEF FailureUnrecorded
<1>4. ASSUME NEW r \in Runs, StoreFaultInTry(r)
      PROVE  RunMoves(r, "failing")
  BY <1>4 DEF StoreFaultInTry, PersistFails
<1>5. ASSUME NEW r \in Runs, StoreFaultOutsideTry(r)
      PROVE  RunMoves(r, "rejected")
  BY <1>5 DEF StoreFaultOutsideTry, PersistFails
<1> QED BY <1>1, <1>2, <1>3, <1>4, <1>5 DEF Fault

\* Every step is a move of a request or an execution, an admission, or a crash, or it
\* concerns neither.
LEMMA Moves ==
    ASSUME Typed, [Next]_vars
    PROVE  \/ \E c \in Clients : (\E p : ClientMoves(c, p)) \/ AdmitRun(c)
           \/ \E r \in Runs : \E p : RunMoves(r, p)
           \/ Crash
           \/ UNCHANGED <<queue, exec, phase>>
<1>1. CASE Initialize \/ UNCHANGED vars
  BY <1>1 DEF Initialize
<1>o. ASSUME NEW r \in Runs, OrphanEnds(r)
      PROVE  UNCHANGED <<queue, exec, phase>>
  BY <1>o DEF OrphanEnds
<1> QED BY <1>1, RequestMoves, StepMoves, ExecutionMoves, FaultMoves, <1>o DEF Next

\* Who waits for a mutation is in the queue, once, and nobody else is.
Lined == Distinct(queue) /\ Members(queue) = Waiting

LEMMA LinedStep == ASSUME Typed, FreshSends, Lined, [Next]_vars PROVE Lined'
<1>1. CASE UNCHANGED <<queue, exec, phase>>
  BY <1>1 DEF Lined, Waiting
<1>2. CASE Crash
  <2>1. \A c \in Clients : phase'[c] = "idle"
    BY <1>2 DEF Crash
  <2>2. \A r \in Runs : exec'[r] \notin Mutating
    BY <1>2 DEF Crash, Over, Mutating
  <2> QED BY <1>2, <2>1, <2>2 DEF Crash, Lined, Distinct, Members, Waiting
<1>3. CASE QueueMoves
  <2>1. queue \in Seq(Clients \cup Runs) /\ Waiting \subseteq Clients \cup Runs
    BY DEF Typed, TypeOK, Waiting
  <2>2. CASE queue' = queue /\ Waiting' = Waiting
    BY <2>2 DEF Lined
  <2>3. ASSUME NEW x \in (Clients \cup Runs) \ Waiting,
               queue' = Append(queue, x), Waiting' = Waiting \cup {x}
        PROVE  Lined'
    BY <2>1, <2>3, AppendFacts DEF Lined
  <2>4. CASE queue # << >> /\ queue' = Tail(queue) /\ Waiting' = Waiting \ {Head(queue)}
    BY <2>1, <2>4, TailFacts DEF Lined
  <2>5. ASSUME queue # << >>, NEW x \in (Clients \cup Runs) \ (Waiting \ {Head(queue)}),
               queue' = Append(Tail(queue), x), Waiting' = (Waiting \ {Head(queue)}) \cup {x}
        PROVE  Lined'
    <3>1. /\ Tail(queue) \in Seq(Clients \cup Runs) /\ Distinct(Tail(queue))
          /\ Members(Tail(queue)) = Waiting \ {Head(queue)}
      BY <2>1, <2>5, TailFacts DEF Lined
    <3>2. /\ Distinct(Append(Tail(queue), x))
          /\ Members(Append(Tail(queue), x)) = (Waiting \ {Head(queue)}) \cup {x}
      <4> DEFINE rest == Tail(queue)
      <4>1. /\ rest \in Seq(Clients \cup Runs) /\ Distinct(rest)
            /\ x \in Clients \cup Runs /\ x \notin Members(rest)
        BY <2>5, <3>1
      <4> HIDE DEF rest
      <4>2. Distinct(Append(rest, x)) /\ Members(Append(rest, x)) = Members(rest) \cup {x}
        BY <4>1, AppendFacts
      <4> QED BY <3>1, <4>2 DEF rest
    <3> QED BY <2>5, <3>2 DEF Lined
  <2>6. CASE queue' = << >> /\ Waiting' = {}
    BY <2>6 DEF Lined, Distinct, Members
  <2> QED BY <1>3, <2>2, <2>3, <2>4, <2>5, <2>6 DEF QueueMoves
<1> QED BY <1>1, <1>2, <1>3, Moves, ClientWaits, RunWaits, AdmitWaits

\* An execution that has begun stays begun until the server dies.
Begun(r) == exec[r] \notin {"none", "lost"}

LEMMA BegunStays ==
    ASSUME Typed, [Next]_vars, ~Crash, NEW r \in Runs, Begun(r)
    PROVE  exec'[r] \notin {"none", "lost"}
<1>1. ASSUME NEW s \in Runs, NEW p, RunMoves(s, p)
      PROVE  exec'[r] \notin {"none", "lost"}
  BY <1>1 DEF RunMoves, Begun, Typed, TypeOK
<1>2. ASSUME NEW c \in Clients, AdmitRun(c)
      PROVE  exec'[r] \notin {"none", "lost"}
  BY <1>2 DEF AdmitRun, Turn, Begun, Typed, TypeOK, RequestsTyped
<1>3. ASSUME exec' = exec
      PROVE  exec'[r] \notin {"none", "lost"}
  BY <1>3 DEF Begun
<1> QED BY <1>1, <1>2, <1>3, Moves DEF ClientMoves

\* What is registered, tracked or waited for is an execution that has begun, and a request
\* under way asks for something.
Registered ==
    /\ \A a \in Agents : executions[a] # NoRun => Begun(executions[a])
    /\ \A a \in Agents : active[a] # NoRun => Begun(active[a])
    /\ \A c \in Clients : phase[c] \in {"settling", "awaiting"} => Begun(held[c])
    /\ \A c \in Clients : phase[c] # "idle" => op[c] # "none"

\* Only launching a child and draining it change the runner's table.
LEMMA ActiveKept ==
    ASSUME NEW r \in Runs, RunStep(r), ~Launch(r), ~Drain(r)
    PROVE  active' = active
<1>1. CASE \/ CommitStart(r) \/ Prepare(r) \/ Build(r) \/ RecordDenial(r) \/ CommitRefusal(r)
           \/ FinalizeCapsule(r) \/ WorkspaceGone(r) \/ Close(r)
  BY <1>1 DEF CommitStart, Prepare, Build, RecordDenial, CommitRefusal, FinalizeCapsule,
              WorkspaceGone, Close, runner
<1>2. CASE \/ DiffAfterError(r) \/ Diff(r) \/ Outbox(r) \/ CommitComplete(r)
           \/ RecordCompletion(r) \/ CommitFailure(r) \/ RecordFailure(r)
  BY <1>2 DEF DiffAfterError, Diff, Outbox, CommitComplete, RecordCompletion, CommitFailure,
              RecordFailure, runner
<1> QED BY <1>1, <1>2 DEF RunStep

\* Which executions a step registers and tracks, and which a request comes to wait for.
LEMMA TablesStep ==
    ASSUME Typed, [Next]_vars, NEW a \in Agents
    PROVE  /\ \/ executions'[a] \in {executions[a], NoRun}
              \/ executions'[a] \in Runs /\ exec'[executions'[a]] = "starting"
           /\ \/ active'[a] \in {active[a], NoRun}
              \/ active'[a] \in Runs /\ exec'[active'[a]] = "process"
<1> USE DEF Typed, TypeOK
<1>1. ASSUME NEW c \in Clients, ClientRequest(c) \/ (ClientStep(c) /\ ~AdmitRun(c)) \/ StoreFaultOfRequest(c)
      PROVE  UNCHANGED <<executions, active>>
  BY <1>1 DEF ClientRequest, Create, Start, Cancel, Send, ClientStep, CommitCreate, Refuse,
              CommitStatus, Settled, Joined, JoinRejected, Archive, ArchiveFails, CommitDelete,
              StoreFaultOfRequest, PersistFails
<1>2. ASSUME NEW c \in Clients, AdmitRun(c)
      PROVE  /\ active' = active
             /\ \/ executions'[a] = executions[a]
                \/ executions'[a] \in Runs /\ exec'[executions'[a]] = "starting"
  BY <1>2 DEF AdmitRun, Turn, RequestsTyped
<1>3. ASSUME NEW r \in Runs, RunStep(r)
      PROVE  /\ executions'[a] \in {executions[a], NoRun}
             /\ \/ active'[a] \in {active[a], NoRun}
                \/ active'[a] = r /\ exec'[r] = "process"
  <2>1. executions'[a] \in {executions[a], NoRun}
    BY <1>3 DEF RunStep, CommitStart, Prepare, Build, RecordDenial, CommitRefusal,
                FinalizeCapsule, Launch, WorkspaceGone, Close, Drain, DiffAfterError, Diff,
                Outbox, CommitComplete, RecordCompletion, CommitFailure, RecordFailure, Finish
  <2>2. CASE Launch(r)
    BY <2>2 DEF Launch, Goto
  <2>3. CASE Drain(r)
    BY <2>3 DEF Drain
  <2>4. CASE ~Launch(r) /\ ~Drain(r)
    <3>1. active' = active
      BY ONLY <1>3, <2>4, ActiveKept
    <3> QED BY ONLY <2>1, <3>1
  <2> QED BY <2>1, <2>2, <2>3, <2>4
<1>4. ASSUME NEW r \in Runs, \/ AuditFault(r) \/ FailureUnrecorded(r)
                             \/ StoreFaultInTry(r) \/ StoreFaultOutsideTry(r)
      PROVE  executions'[a] \in {executions[a], NoRun} /\ active' = active
  BY <1>4 DEF AuditFault, FailureUnrecorded, StoreFaultInTry, StoreFaultOutsideTry, PersistFails,
              Finish
<1>5. CASE Crash \/ Initialize \/ UNCHANGED vars
  BY <1>5 DEF Crash, Initialize
<1>o. ASSUME NEW r \in Runs, OrphanEnds(r)
      PROVE  UNCHANGED <<executions, active>>
  BY <1>o DEF OrphanEnds
<1> QED BY <1>1, <1>2, <1>3, <1>4, <1>5, <1>o DEF Next, Fault

LEMMA HeldStep ==
    ASSUME Typed, [Next]_vars, NEW c \in Clients
    PROVE  /\ phase'[c] \in {"settling", "awaiting"} =>
                \/ phase[c] \in {"settling", "awaiting"} /\ held'[c] = held[c]
                \/ held'[c] # NoRun /\ \E a \in Agents : held'[c] \in {executions[a], active[a]}
           /\ phase'[c] # "idle" => (phase[c] # "idle" /\ op'[c] = op[c]) \/ op'[c] \in AllOps
<1> USE DEF Typed, TypeOK, RequestsTyped
<1>1. ASSUME NEW d \in Clients, ClientRequest(d), d # c
      PROVE  UNCHANGED <<phase[c], held[c], op[c]>>
  BY <1>1 DEF ClientRequest, Create, Start, Cancel, Send, Begin, KillProcess, JoinExecution, Proceed
<1>2. ASSUME NEW d \in Clients, ClientStep(d), d # c
      PROVE  UNCHANGED <<phase[c], held[c], op[c]>>
  BY <1>2 DEF ClientStep, CommitCreate, AdmitRun, Refuse, CommitStatus, Settled, Joined,
              JoinRejected, Archive, ArchiveFails, CommitDelete, Answer, JoinExecution, Proceed
<1>3. ASSUME NEW r \in Runs, \/ RunStep(r) \/ AuditFault(r) \/ FailureUnrecorded(r)
                             \/ StoreFaultInTry(r) \/ StoreFaultOutsideTry(r)
      PROVE  UNCHANGED <<phase[c], held[c], op[c]>>
  BY <1>3 DEF RunStep, CommitStart, Prepare, Build, RecordDenial, CommitRefusal,
        FinalizeCapsule, Launch, WorkspaceGone, Close, Drain, DiffAfterError, Diff,
        Outbox, CommitComplete, RecordCompletion, CommitFailure, RecordFailure,
        AuditFault, FailureUnrecorded, StoreFaultInTry, StoreFaultOutsideTry
<1>4. ASSUME NEW d \in Clients, StoreFaultOfRequest(d)
      PROVE  UNCHANGED <<phase[c], held[c], op[c]>> \/ phase'[c] = "idle"
  BY <1>4 DEF StoreFaultOfRequest, Answer
<1>5. CASE Crash \/ Initialize \/ UNCHANGED vars
  BY <1>5 DEF Crash, Initialize
<1>6. ASSUME NEW a \in Agents, NEW request \in {"stop", "delete"}, JoinExecution(c, request, a)
      PROVE  phase'[c] \in {"settling", "awaiting"} => held'[c] # NoRun /\ held'[c] = executions[a]
  BY <1>6 DEF JoinExecution, Proceed
<1>7. CASE ClientRequest(c)
  <2>1. ASSUME NEW a \in Agents, NEW request \in {"stop", "delete"}, Cancel(c, request, a)
        PROVE  /\ op'[c] = request
               /\ phase'[c] \in {"settling", "awaiting"} =>
                     held'[c] # NoRun /\ held'[c] \in {executions[a], active[a]}
    BY <1>6, <2>1 DEF Cancel, KillProcess
  <2>2. ASSUME NEW a \in Agents, Create(c, a) \/ Start(c, a) \/ \E r \in Runs : Send(c, a, r)
        PROVE  op'[c] \in AllOps /\ phase'[c] = "queued"
    BY <2>2 DEF Create, Start, Send, Begin, AllOps
  <2>3. {"stop", "delete"} \subseteq AllOps
    BY DEF AllOps
  <2> QED BY <1>7, <2>1, <2>2, <2>3 DEF ClientRequest
<1>8. CASE Settled(c)
  BY <1>6, <1>8 DEF Settled
<1>9. CASE ClientStep(c) /\ ~Settled(c)
  BY <1>9 DEF ClientStep, CommitCreate, AdmitRun, Refuse, CommitStatus, Joined, JoinRejected,
              Archive, ArchiveFails, CommitDelete, Answer, Proceed
<1>o. ASSUME NEW r \in Runs, OrphanEnds(r)
      PROVE  UNCHANGED <<phase[c], held[c], op[c]>>
  BY <1>o DEF OrphanEnds
<1> QED BY <1>1, <1>2, <1>3, <1>4, <1>5, <1>7, <1>8, <1>9, <1>o DEF Next, Fault

LEMMA RegisteredStep == ASSUME Typed, Registered, [Next]_vars PROVE Registered'
<1>1. CASE Crash
  BY <1>1 DEF Crash, Registered
<1>2. CASE ~Crash
  <2>1. ASSUME NEW r \in Runs, Begun(r) PROVE exec'[r] \notin {"none", "lost"}
    BY <1>2, <2>1, BegunStays
  <2>2. ASSUME NEW a \in Agents, executions'[a] # NoRun
        PROVE  exec'[executions'[a]] \notin {"none", "lost"}
    <3>1. executions[a] \in Runs \cup {NoRun}
      BY DEF Typed, TypeOK
    <3> QED BY <2>1, <2>2, <3>1, TablesStep DEF Registered
  <2>3. ASSUME NEW a \in Agents, active'[a] # NoRun
        PROVE  exec'[active'[a]] \notin {"none", "lost"}
    <3>1. active[a] \in Runs \cup {NoRun}
      BY DEF Typed, TypeOK
    <3> QED BY <2>1, <2>3, <3>1, TablesStep DEF Registered
  <2>4. ASSUME NEW c \in Clients, phase'[c] \in {"settling", "awaiting"}
        PROVE  exec'[held'[c]] \notin {"none", "lost"}
    <3>1. CASE phase[c] \in {"settling", "awaiting"} /\ held'[c] = held[c]
      BY <2>1, <3>1 DEF Registered, Typed, RequestsTyped
    <3>2. ASSUME held'[c] # NoRun, NEW a \in Agents, held'[c] \in {executions[a], active[a]}
          PROVE  exec'[held'[c]] \notin {"none", "lost"}
      <4>1. held'[c] \in Runs /\ Begun(held'[c])
        BY <3>2 DEF Typed, TypeOK, Registered, Begun
      <4> QED BY <2>1, <4>1
    <3> QED BY <2>4, <3>1, <3>2, HeldStep
  <2>5. ASSUME NEW c \in Clients, phase'[c] # "idle" PROVE op'[c] # "none"
    BY <2>5, HeldStep DEF Registered, AllOps
  <2> QED BY <2>2, <2>3, <2>4, <2>5 DEF Registered, Begun
<1> QED BY <1>1, <1>2

\* Whoever waits, waits for somebody who can go on: the store's queue is never held up, and
\* no request and no execution waits in a circle; for any number of them, whatever fails.
THEOREM NobodyWaitsForEver == Spec => []NobodyIsStuck
<1>1. Init => Typed /\ StoreInv /\ Lined /\ Registered
  BY AuditInvInit DEF AuditInv, Init, Lined, Registered, Distinct, Members, Waiting, Mutating
<1>2. Typed /\ StoreInv /\ Lined /\ Registered /\ [Next]_vars => (Typed /\ StoreInv /\ Lined /\ Registered)'
  BY TypedStep, StoreInvStep, LinedStep, RegisteredStep DEF StoreInv
<1>3. ASSUME Typed, Lined, Registered PROVE NobodyIsStuck
  <2>1. \A i, j \in DOMAIN queue : queue[i] = queue[j] => i = j
    BY <1>3 DEF Lined, Distinct
  <2>2. ASSUME NEW x \in Waiting PROVE \E i \in DOMAIN queue : queue[i] = x
    BY <1>3, <2>2 DEF Lined, Members
  <2>3. ASSUME queue # << >>
        PROVE  \/ Head(queue) \in Clients /\ ClientReady(Head(queue))
               \/ Head(queue) \in Runs /\ RunReady(Head(queue))
    <3>1. Head(queue) \in Waiting
      BY <1>3, <2>3, TailFacts DEF Lined, Typed, TypeOK
    <3> QED BY <1>3, <2>3, <3>1 DEF Waiting, ClientReady, RunReady, InTurn, Registered, Live, Over,
                                    Mutating
  <2>4. ASSUME NEW r \in Runs, Live(r)
        PROVE  RunReady(r) \/ \E i \in DOMAIN queue : queue[i] = r
    BY <2>2, <2>4 DEF RunReady, Waiting
  <2>5. ASSUME NEW c \in Clients, phase[c] # "idle"
        PROVE  \/ ClientReady(c) \/ \E i \in DOMAIN queue : queue[i] = c
               \/ phase[c] \in {"settling", "awaiting"} /\ held[c] \in Runs /\ Live(held[c])
    <3>1. CASE phase[c] = "queued"
      BY <2>2, <3>1 DEF Waiting
    <3>2. CASE phase[c] = "archiving"
      BY <3>2 DEF ClientReady
    <3>3. CASE phase[c] \in {"settling", "awaiting"}
      BY <1>3, <3>3 DEF ClientReady, Registered, Begun, Live, Over, Typed, RequestsTyped
    <3> QED BY <1>3, <2>5, <3>1, <3>2, <3>3 DEF Typed, TypeOK, ClientPhases
  <2> QED BY <2>1, <2>3, <2>4, <2>5 DEF NobodyIsStuck
<1> QED BY <1>1, <1>2, <1>3, PTL DEF Spec

\* An execution has sixteen steps at most, a request four; each of them is one less to go,
\* whatever fails, and nobody is overtaken in the queue: so waiting ends.
THEOREM StepsAreSpent == Spec => [][Spent]_vars
<1> DEFINE InOrder == \A i \in 2 .. Len(queue) :
                          \/ i \in DOMAIN queue' /\ queue'[i] = queue[i]
                          \/ i - 1 \in DOMAIN queue' /\ queue'[i - 1] = queue[i]
<1>1. ASSUME Typed, FreshSends, [Next]_vars
      PROVE  [Spent]_vars
  <2> SUFFICES ASSUME Next PROVE Spent
    BY <1>1
  <2> USE <1>1
  <2>1. ASSUME NEW r \in Runs PROVE exec'[r] = exec[r] \/ RunAhead(exec'[r]) < RunAhead(exec[r])
    <3>1. ASSUME NEW s \in Runs, NEW p, RunMoves(s, p)
          PROVE  exec'[r] = exec[r] \/ RunAhead(exec'[r]) < RunAhead(exec[r])
      BY <3>1 DEF RunMoves, Typed, TypeOK
    <3>2. ASSUME NEW c \in Clients, AdmitRun(c)
          PROVE  exec'[r] = exec[r] \/ RunAhead(exec'[r]) < RunAhead(exec[r])
      BY <3>2, Aheads DEF AdmitRun, Turn, Typed, TypeOK, RequestsTyped, FreshSends
    <3>3. CASE Crash
      <4>1. \A p \in ExecPhases \ Over : RunAhead(p) > 0
        BY Aheads DEF ExecPhases, Over, Undecided
      <4>2. exec[r] \in ExecPhases /\ exec'[r] = IF exec[r] \in Over THEN exec[r] ELSE "lost"
        BY <3>3 DEF Crash, Typed, TypeOK
      <4> QED BY <4>1, <4>2, Aheads DEF Over
    <3> QED BY <3>1, <3>2, <3>3, Moves DEF ClientMoves
  <2>2. ASSUME NEW r \in Runs, RunStep(r) PROVE exec'[r] # exec[r]
    <3>1. PICK p : RunMoves(r, p)
      BY <2>2, ExecutionMoves
    <3>2. RunAhead(exec[r]) \in Nat /\ p # exec[r]
      <4>1. \A q \in ExecPhases : RunAhead(q) \in Nat
        BY Aheads DEF ExecPhases, Over, Undecided
      <4>2. exec[r] \in ExecPhases
        BY DEF Typed, TypeOK
      <4> QED BY <3>1, <4>1, <4>2 DEF RunMoves
    <3> QED BY <3>1, <3>2 DEF RunMoves, Typed, TypeOK
  <2>3. ASSUME NEW c \in Clients
        PROVE  phase'[c] = phase[c] \/ phase[c] = "idle" \/ ClientAhead(phase'[c]) < ClientAhead(phase[c])
    <3>1. ASSUME NEW d \in Clients, NEW p, ClientMoves(d, p)
          PROVE  phase'[c] = phase[c] \/ phase[c] = "idle" \/ ClientAhead(phase'[c]) < ClientAhead(phase[c])
      BY <3>1 DEF ClientMoves, Typed, TypeOK
    <3>2. ASSUME NEW d \in Clients, AdmitRun(d)
          PROVE  phase'[c] = phase[c] \/ ClientAhead(phase'[c]) < ClientAhead(phase[c])
      BY <3>2, Aheads DEF AdmitRun, Turn, Answer, Typed, TypeOK
    <3>3. CASE Crash
      <4>1. phase[c] \in ClientPhases /\ phase'[c] = "idle"
        BY <3>3 DEF Crash, Typed, TypeOK
      <4>2. \A p \in ClientPhases \ {"idle"} : ClientAhead("idle") < ClientAhead(p)
        BY Aheads DEF ClientPhases
      <4> QED BY <4>1, <4>2
    <3> QED BY <3>1, <3>2, <3>3, Moves DEF RunMoves
  <2>4. ASSUME NEW c \in Clients, ClientStep(c) PROVE phase'[c] # phase[c]
    <3>1. CASE AdmitRun(c)
      BY <3>1 DEF AdmitRun, Turn, Answer, Typed, TypeOK
    <3>2. CASE ~AdmitRun(c)
      BY <2>4, <3>2, StepMoves DEF ClientMoves, Typed, TypeOK
    <3> QED BY <3>1, <3>2
  <2>5. ASSUME up' PROVE InOrder
    <3>1. queue \in Seq(Clients \cup Runs) /\ Len(queue) \in Nat /\ DOMAIN queue = 1 .. Len(queue)
      BY DEF Typed, TypeOK
    <3>2. CASE queue' = queue
      BY <3>1, <3>2
    <3>3. ASSUME NEW x \in Clients \cup Runs, queue' = Append(queue, x)
          PROVE  InOrder
      BY <3>1, <3>3
    <3>4. CASE queue # << >> /\ queue' = Tail(queue)
      BY <3>1, <3>4
    <3>5. ASSUME queue # << >>, NEW x \in Clients \cup Runs, queue' = Append(Tail(queue), x)
          PROVE  InOrder
      <4> DEFINE rest == Tail(queue)
      <4>1. /\ rest \in Seq(Clients \cup Runs) /\ Len(rest) = Len(queue) - 1 /\ Len(rest) \in Nat
            /\ \A i \in 1 .. Len(rest) : rest[i] = queue[i + 1]
        BY <3>1, <3>5
      <4> HIDE DEF rest
      <4>2. DOMAIN queue' = 1 .. Len(rest) + 1 /\ \A i \in 1 .. Len(rest) : queue'[i] = rest[i]
        BY <3>5, <4>1 DEF rest
      <4>3. ASSUME NEW i \in 2 .. Len(queue)
            PROVE  i - 1 \in 1 .. Len(rest) /\ (i - 1) + 1 = i /\ i - 1 \in 1 .. Len(rest) + 1
        BY <3>1, <4>1
      <4> QED BY <4>1, <4>2, <4>3
    <3>6. \/ UNCHANGED <<queue, exec, phase>> \/ Crash \/ QueueMoves
      BY Moves, ClientWaits, RunWaits, AdmitWaits
    <3>7. ~Crash
      BY <2>5 DEF Crash
    <3> QED BY <2>5, <3>2, <3>3, <3>4, <3>5, <3>6, <3>7 DEF QueueMoves
  <2> QED BY <2>1, <2>2, <2>3, <2>4, <2>5 DEF Spent
<1>2. Init => Typed /\ StoreInv
  BY AuditInvInit DEF AuditInv
<1>3. StoreInv => FreshSends
  BY DEF StoreInv
<1> QED BY <1>1, <1>2, <1>3, TypedStep, StoreInvStep, PTL DEF Spec
=============================================================================
