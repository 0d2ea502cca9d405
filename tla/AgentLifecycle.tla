--------------------------- MODULE AgentLifecycle ---------------------------
(***************************************************************************)
(* AgentService: the lifecycle of Agents and of their Runs, over the       *)
(* JsonStore's queue of mutations, the runner's table of child processes   *)
(* and the audit ledger.  HTTP requests (Clients) and executions (one per  *)
(* Run) interleave at every await; whatever the code does between two      *)
(* awaits is one step.  A step that ends in store.mutate puts its actor at *)
(* the tail of `queue`; the mutation takes effect, together with the code  *)
(* that follows the await, when the actor is at the head.                  *)
(***************************************************************************)
EXTENDS Naturals, Sequences

CONSTANTS
    Agents, Runs, Clients,  \* identifiers; each Agent and Run id is used once
    NoAgent, NoRun,         \* placeholders outside Agents and Runs
    Ops,                    \* the requests Clients may make
    MaxStoreFaults,         \* bound: mutations whose persist fails
    MaxAuditFaults,         \* bound: failing writes of an execution outside the store
    MayCrash                \* whether the server process may die

AllOps == {"create", "send", "start", "stop", "delete"}

ASSUME IdsAssumption ==
    /\ NoAgent \notin Agents
    /\ NoRun \notin Runs
    /\ Runs \cap Clients = {}
ASSUME BoundsAssumption ==
    /\ Ops \subseteq AllOps
    /\ MaxStoreFaults \in Nat
    /\ MaxAuditFaults \in Nat
    /\ MayCrash \in BOOLEAN

VARIABLES
    agent,        \* database.agents: status, "none" before creation
    run,          \* database.runs: status, "unused" before admission
    owner,        \* run.agentId
    workspace,    \* the Agent's workspace directory
    ledger,       \* kinds of the events in each Run's audit chain
    ingested,     \* Runs whose outbox has been handled
    queue,        \* actors whose mutation waits in JsonStore.queue, in order
    exec,         \* where each Run's executeRun stands
    outcome,      \* what executeRun caught
    executions,   \* activeExecutions
    cancellationRequests,
    active,       \* the runner's table: Agent -> Run whose child it tracks
    killed,       \* Runs whose table entry has cancelled = true
    phase, op, target, held, \* each Client's request: where it stands, what it
                  \* asks, of which Agent, and the Run it created or waits for
    up,           \* the server process is alive and initialized
    orphans,      \* Runs whose child has outlived the server that spawned it
    storeFaults, auditFaults

store   == <<agent, run, owner>>
audit   == <<ledger, ingested>>
runner  == <<active, killed>>
control == <<executions, cancellationRequests>>
clients == <<phase, op, target, held>>
faults  == <<storeFaults, auditFaults>>
disk    == <<store, workspace, audit>>
env     == <<up, orphans, faults>>
vars    == <<disk, queue, exec, outcome, control, runner, clients, env>>

ActiveStatus == {"queued", "running"}
Verdicts     == {"completed", "failed", "cancelled"}
RunStatus    == {"unused", "deleted"} \cup ActiveStatus \cup Verdicts
AgentStatus  == {"none", "deleted", "ready", "busy", "stopped", "error"}
VerdictEvents == {"run.completed", "run.failed", "run.cancelled"}
EventKinds   == {"run.requested", "capsule.finalized"} \cup VerdictEvents

\* Phases of executeRun in which nothing is left to run.
Over      == {"none", "done", "rejected", "lost"}
InProcess == {"process", "draining"}
\* Phases before the mutation that gives the Run its verdict.
Undecided == {"starting", "preparing", "building", "denied", "refusing",
              "capsule", "launching", "process", "draining", "diff",
              "diffAfterError", "outbox", "completing", "failing"}
ExecPhases == Over \cup Undecided \cup {"logging", "logFailure"}
ClientPhases == {"idle", "queued", "settling", "awaiting", "archiving"}

Stored(a) == agent[a] \notin {"none", "deleted"}
Listed(r) == run[r] \notin {"unused", "deleted"}

TypeOK ==
    /\ agent \in [Agents -> AgentStatus]
    /\ run \in [Runs -> RunStatus]
    /\ owner \in [Runs -> Agents \cup {NoAgent}]
    /\ workspace \in [Agents -> {"none", "live", "archived"}]
    /\ ledger \in [Runs -> SUBSET EventKinds]
    /\ ingested \in SUBSET Runs
    /\ queue \in Seq(Clients \cup Runs)
    /\ exec \in [Runs -> ExecPhases]
    /\ outcome \in [Runs -> {"none", "cancelled", "error"}]
    /\ executions \in [Agents -> Runs \cup {NoRun}]
    /\ cancellationRequests \in SUBSET Agents
    /\ active \in [Agents -> Runs \cup {NoRun}]
    /\ killed \in SUBSET Runs
    /\ phase \in [Clients -> ClientPhases]
    /\ op \in [Clients -> AllOps \cup {"none"}]
    /\ target \in [Clients -> Agents \cup {NoAgent}]
    /\ held \in [Clients -> Runs \cup {NoRun}]
    /\ up \in BOOLEAN
    /\ orphans \in SUBSET Runs
    /\ storeFaults \in 0 .. MaxStoreFaults
    /\ auditFaults \in 0 .. MaxAuditFaults

Init ==
    /\ agent = [a \in Agents |-> "none"]
    /\ run = [r \in Runs |-> "unused"]
    /\ owner = [r \in Runs |-> NoAgent]
    /\ workspace = [a \in Agents |-> "none"]
    /\ ledger = [r \in Runs |-> {}]
    /\ ingested = {}
    /\ queue = << >>
    /\ exec = [r \in Runs |-> "none"]
    /\ outcome = [r \in Runs |-> "none"]
    /\ executions = [a \in Agents |-> NoRun]
    /\ cancellationRequests = {}
    /\ active = [a \in Agents |-> NoRun]
    /\ killed = {}
    /\ phase = [c \in Clients |-> "idle"]
    /\ op = [c \in Clients |-> "none"]
    /\ target = [c \in Clients |-> NoAgent]
    /\ held = [c \in Clients |-> NoRun]
    /\ up = TRUE
    /\ orphans = {}
    /\ storeFaults = 0
    /\ auditFaults = 0

(***************************************************************************)
(* The JsonStore's queue.                                                  *)
(***************************************************************************)
Enqueue(x) == queue' = Append(queue, x)
InTurn(x)  == queue # << >> /\ Head(queue) = x
Dequeue    == queue' = Tail(queue)

\* mutate's queue goes on after an operation that rejects, because the queue is
\* chained on operation.catch.  Mutant: it is chained on the rejection itself.
SkipRejected_Poisoned == UNCHANGED queue
SkipRejected == Dequeue

(***************************************************************************)
(* Requests.                                                               *)
(***************************************************************************)
Begin(c, request, a, r) ==
    /\ phase' = [phase EXCEPT ![c] = "queued"]
    /\ op' = [op EXCEPT ![c] = request]
    /\ target' = [target EXCEPT ![c] = a]
    /\ held' = [held EXCEPT ![c] = r]
    /\ Enqueue(c)

\* The request is answered, with a result or an error.
Answer(c) ==
    /\ phase' = [phase EXCEPT ![c] = "idle"]
    /\ op' = [op EXCEPT ![c] = "none"]
    /\ target' = [target EXCEPT ![c] = NoAgent]
    /\ held' = [held EXCEPT ![c] = NoRun]

MayRequest(c, request) == up /\ phase[c] = "idle" /\ request \in Ops

\* The mutation of c's request is the next to run.
Turn(c, request) == InTurn(c) /\ phase[c] = "queued" /\ op[c] = request

\* createAgent: the workspace is on disk before the Agent is in the store.
Create(c, a) ==
    /\ MayRequest(c, "create")
    /\ workspace[a] = "none"
    /\ workspace' = [workspace EXCEPT ![a] = "live"]
    /\ Begin(c, "create", a, NoRun)
    /\ UNCHANGED <<store, audit, exec, outcome, control, runner, env>>

CommitCreate(c) ==
    /\ Turn(c, "create")
    /\ agent' = [agent EXCEPT ![target[c]] = "ready"]
    /\ Answer(c)
    /\ Dequeue
    /\ UNCHANGED <<run, owner, workspace, audit, exec, outcome, control, runner, env>>

\* sendMessage: the Run's id is fresh, and nothing is read before the mutation.
Send(c, a, r) ==
    /\ MayRequest(c, "send")
    /\ agent[a] # "none"
    /\ run[r] = "unused" /\ \A d \in Clients : held[d] # r
    /\ Begin(c, "send", a, r)
    /\ UNCHANGED <<disk, exec, outcome, control, runner, env>>

Admissible(a) == agent[a] \in {"ready", "error"}

\* The Run is admitted; executeRun starts and queues its own first mutation.
AdmitRun(c) ==
    /\ Turn(c, "send")
    /\ Admissible(target[c])
    /\ agent' = [agent EXCEPT ![target[c]] = "busy"]
    /\ run' = [run EXCEPT ![held[c]] = "queued"]
    /\ owner' = [owner EXCEPT ![held[c]] = target[c]]
    /\ exec' = [exec EXCEPT ![held[c]] = "starting"]
    /\ executions' = [executions EXCEPT ![target[c]] = held[c]]
    /\ queue' = Append(Tail(queue), held[c])
    /\ Answer(c)
    /\ UNCHANGED <<workspace, audit, outcome, cancellationRequests, runner, env>>

\* 404 or 409: the mutation throws, so nothing is persisted.
Refused(c) ==
    \/ op[c] = "send" /\ ~Admissible(target[c])
    \/ op[c] = "start" /\ agent[target[c]] \in {"none", "deleted", "busy"}
    \/ op[c] = "stop" /\ ~Stored(target[c])

Refuse(c) ==
    /\ InTurn(c) /\ phase[c] = "queued"
    /\ Refused(c)
    /\ Answer(c)
    /\ SkipRejected
    /\ UNCHANGED <<disk, exec, outcome, control, runner, env>>

Start(c, a) ==
    /\ MayRequest(c, "start")
    /\ agent[a] # "none"
    /\ Begin(c, "start", a, NoRun)
    /\ UNCHANGED <<disk, exec, outcome, control, runner, env>>

\* setStatus, for startAgent and stopAgent.
CommitStatus(c) ==
    /\ Turn(c, "start") \/ Turn(c, "stop")
    /\ ~Refused(c)
    /\ agent' = [agent EXCEPT ![target[c]] =
                     IF op[c] = "start" THEN "ready" ELSE "stopped"]
    /\ Answer(c)
    /\ Dequeue
    /\ UNCHANGED <<run, owner, workspace, audit, exec, outcome, control, runner, env>>

(***************************************************************************)
(* stopAgent and deleteAgent: cancelExecution, then the status or the      *)
(* archive.  cancellationRequests is a set, so the first of two concurrent *)
(* cancellations to leave withdraws the request of both.                   *)
(***************************************************************************)
Proceed(c, request, a) ==
    /\ cancellationRequests' = cancellationRequests \ {a}
    /\ \/ /\ request = "stop"
          /\ phase' = [phase EXCEPT ![c] = "queued"]
          /\ Enqueue(c)
       \/ /\ request = "delete"
          /\ phase' = [phase EXCEPT ![c] = "archiving"]
          /\ UNCHANGED queue

\* runner.cancel has returned; wait for the execution registered now, if any.
JoinExecution(c, request, a) ==
    \/ /\ executions[a] # NoRun
       /\ cancellationRequests' = cancellationRequests \cup {a}
       /\ phase' = [phase EXCEPT ![c] = "awaiting"]
       /\ held' = [held EXCEPT ![c] = executions[a]]
       /\ UNCHANGED queue
    \/ /\ executions[a] = NoRun
       /\ held' = [held EXCEPT ![c] = NoRun]
       /\ Proceed(c, request, a)

\* The runner has a child for the Agent: mark it cancelled and terminate it.
KillProcess(c, a) ==
    /\ active[a] # NoRun
    /\ cancellationRequests' = cancellationRequests \cup {a}
    /\ killed' = killed \cup {active[a]}
    /\ phase' = [phase EXCEPT ![c] = "settling"]
    /\ held' = [held EXCEPT ![c] = active[a]]
    /\ UNCHANGED queue

Cancel(c, request, a) ==
    /\ MayRequest(c, request)
    /\ request \in {"stop", "delete"}
    /\ Stored(a)
    /\ op' = [op EXCEPT ![c] = request]
    /\ target' = [target EXCEPT ![c] = a]
    /\ \/ KillProcess(c, a)
       \/ active[a] = NoRun /\ JoinExecution(c, request, a) /\ UNCHANGED killed
    /\ UNCHANGED <<disk, exec, outcome, executions, active, env>>

\* The child has exited, so runner.cancel returns.
Settled(c) ==
    /\ phase[c] = "settling"
    /\ exec[held[c]] # "process"
    /\ JoinExecution(c, op[c], target[c])
    /\ UNCHANGED <<disk, exec, outcome, executions, runner, op, target, env>>

\* Mutant: the execution is not awaited.
ExecutionOver_NotAwaited(r) == TRUE
ExecutionOver(r) == exec[r] = "done"

Joined(c) ==
    /\ phase[c] = "awaiting"
    /\ ExecutionOver(held[c])
    /\ Proceed(c, op[c], target[c])
    /\ UNCHANGED <<disk, exec, outcome, executions, runner, op, target, held, env>>

\* The execution rejected: so does cancelExecution, after its finally block.
JoinRejected(c) ==
    /\ phase[c] = "awaiting"
    /\ exec[held[c]] = "rejected"
    /\ cancellationRequests' = cancellationRequests \ {target[c]}
    /\ Answer(c)
    /\ UNCHANGED <<disk, queue, exec, outcome, executions, runner, env>>

\* workspaces.archive: the rename of the second of two deletes has no source.
Archive(c) ==
    /\ phase[c] = "archiving"
    /\ workspace[target[c]] = "live"
    /\ workspace' = [workspace EXCEPT ![target[c]] = "archived"]
    /\ phase' = [phase EXCEPT ![c] = "queued"]
    /\ Enqueue(c)
    /\ UNCHANGED <<store, audit, exec, outcome, control, runner, op, target, held, env>>

ArchiveFails(c) ==
    /\ phase[c] = "archiving"
    /\ workspace[target[c]] # "live"
    /\ Answer(c)
    /\ UNCHANGED <<disk, queue, exec, outcome, control, runner, env>>

\* The Agent leaves the store with its messages and its Runs.
Purge(a) ==
    /\ agent' = [agent EXCEPT ![a] = "deleted"]
    /\ run' = [r \in Runs |-> IF owner[r] = a THEN "deleted" ELSE run[r]]

CommitDelete(c) ==
    /\ Turn(c, "delete")
    /\ Purge(target[c])
    /\ Answer(c)
    /\ Dequeue
    /\ UNCHANGED <<owner, workspace, audit, exec, outcome, control, runner, env>>

(***************************************************************************)
(* executeRun.  Its first mutation and the check of cancellationRequests   *)
(* that follows it; everything after that is inside try.                   *)
(***************************************************************************)
Goto(r, next) == exec' = [exec EXCEPT ![r] = next]

\* catch: remember what was caught and queue the mutation of the verdict.
Catch(r, what) ==
    /\ outcome' = [outcome EXCEPT ![r] = what]
    /\ Goto(r, "failing")

\* The execution is over and its finally block forgets it, if still registered.
Finish(r, how) ==
    /\ Goto(r, how)
    /\ executions' = [executions EXCEPT ![owner[r]] = IF @ = r THEN NoRun ELSE @]

CommitStart(r) ==
    /\ InTurn(r) /\ exec[r] = "starting"
    /\ run' = [run EXCEPT ![r] = IF Listed(r) THEN "running" ELSE @]
    /\ \/ /\ owner[r] \in cancellationRequests
          /\ Catch(r, "cancelled")
          /\ queue' = Append(Tail(queue), r)
       \/ /\ owner[r] \notin cancellationRequests
          /\ Goto(r, "preparing")
          /\ Dequeue
          /\ UNCHANGED outcome
    /\ UNCHANGED <<agent, owner, workspace, audit, control, runner, clients, env>>

Record(r, kind) == ledger' = [ledger EXCEPT ![r] = @ \cup {kind}]

\* versions.resolve and the event run.requested.
Prepare(r) ==
    /\ exec[r] = "preparing"
    /\ Record(r, "run.requested")
    /\ Goto(r, "building")
    /\ UNCHANGED <<store, workspace, ingested, queue, outcome, control, runner, clients,
                   env>>

\* broker.build: the capsule, a denial, or a question.
Build(r) ==
    /\ exec[r] = "building"
    /\ \/ Goto(r, "capsule") /\ UNCHANGED queue
       \/ Goto(r, "denied") /\ UNCHANGED queue
       \/ Goto(r, "refusing") /\ Enqueue(r)
    /\ UNCHANGED <<disk, outcome, control, runner, clients, env>>

\* A denial is audited before the store is told.
RecordDenial(r) ==
    /\ exec[r] = "denied"
    /\ Record(r, "run.failed")
    /\ Goto(r, "refusing")
    /\ Enqueue(r)
    /\ UNCHANGED <<store, workspace, ingested, outcome, control, runner, clients, env>>

\* What the mutations that end a Run without success do to its Agent.  Mutants:
\* nothing; the Run's status is written to the Agent.
AgentAfter_KeepsBusy(r, status) == UNCHANGED agent
AgentAfter_RunStatus(r, status) ==
    agent' = [a \in Agents |-> IF a = owner[r] /\ Stored(a) THEN "failed" ELSE agent[a]]
AgentAfter(r, status) ==
    agent' = [a \in Agents |-> IF a = owner[r] /\ Stored(a) /\ agent[a] # "stopped"
                                 THEN status ELSE agent[a]]

RunBecomes(r, verdict) ==
    run' = [run EXCEPT ![r] = IF Listed(r) THEN verdict ELSE @]

\* Denied, or clarification required: the Run fails, the Agent is ready.
CommitRefusal(r) ==
    /\ InTurn(r) /\ exec[r] = "refusing"
    /\ RunBecomes(r, "failed")
    /\ AgentAfter(r, "ready")
    /\ Finish(r, "done")
    /\ Dequeue
    /\ UNCHANGED <<owner, workspace, audit, outcome, cancellationRequests, runner,
                   clients, env>>

\* The event capsule.finalized, and renderPrompt.
FinalizeCapsule(r) ==
    /\ exec[r] = "capsule"
    /\ Record(r, "capsule.finalized")
    /\ Goto(r, "launching")
    /\ UNCHANGED <<store, workspace, ingested, queue, outcome, control, runner, clients,
                   env>>

(***************************************************************************)
(* artifacts.captureBefore, then runner.run: one child process per Agent,  *)
(* tracked until it has closed and its events are consumed.                *)
(***************************************************************************)
HasWorkspace(r) == workspace[owner[r]] = "live"

\* Mutant: runner.run does not consult its table.
RunnerFree_Unchecked(r) == TRUE
RunnerFree(r) == active[owner[r]] = NoRun

Launch(r) ==
    /\ exec[r] = "launching"
    /\ HasWorkspace(r)
    /\ \/ /\ RunnerFree(r)
          /\ active' = [active EXCEPT ![owner[r]] = r]
          /\ Goto(r, "process")
          /\ UNCHANGED outcome
       \/ /\ ~RunnerFree(r)
          /\ outcome' = [outcome EXCEPT ![r] = "error"]
          /\ Goto(r, "diffAfterError")
          /\ UNCHANGED active
    /\ UNCHANGED <<disk, queue, control, killed, clients, env>>

\* The workspace was archived: neither manifest can be captured.
WorkspaceGone(r) ==
    /\ exec[r] \in {"launching", "diff"}
    /\ ~HasWorkspace(r)
    /\ Catch(r, "error")
    /\ Enqueue(r)
    /\ UNCHANGED <<disk, control, runner, clients, env>>

\* The child has exited, by itself, at its timeout or because it was terminated, and its
\* output is closed.
Close(r) ==
    /\ exec[r] = "process"
    /\ Goto(r, "draining")
    /\ UNCHANGED <<disk, queue, outcome, control, runner, clients, env>>

\* flush() and consumer.done(), which may throw; then a cancellation, even one that came
\* after the exit, wins.
Drain(r) ==
    /\ exec[r] = "draining"
    /\ active' = [active EXCEPT ![owner[r]] = NoRun]
    /\ \/ /\ r \in killed
          /\ outcome' = [outcome EXCEPT ![r] = "cancelled"]
          /\ Goto(r, "diffAfterError")
       \/ /\ outcome' = [outcome EXCEPT ![r] = "error"]
          /\ Goto(r, "diffAfterError")
       \/ /\ r \notin killed
          /\ Goto(r, "diff")
          /\ UNCHANGED outcome
    /\ UNCHANGED <<disk, queue, control, killed, clients, env>>

\* Best effort: the runner's own error is rethrown whatever the diff does.
DiffAfterError(r) ==
    /\ exec[r] = "diffAfterError"
    /\ Catch(r, outcome[r])
    /\ Enqueue(r)
    /\ UNCHANGED <<disk, control, runner, clients, env>>

Diff(r) ==
    /\ exec[r] = "diff"
    /\ HasWorkspace(r)
    /\ Goto(r, "outbox")
    /\ UNCHANGED <<disk, queue, outcome, control, runner, clients, env>>

\* The outbox is ingested, or its failure recorded, before the Run completes.
\* Mutant: run.completed is audited along with it.
HandleOutbox_AuditsCompletion(r) ==
    ingested' = ingested \cup {r} /\ Record(r, "run.completed")
HandleOutbox(r) == ingested' = ingested \cup {r} /\ UNCHANGED ledger

Outbox(r) ==
    /\ exec[r] = "outbox"
    /\ HandleOutbox(r)
    /\ Goto(r, "completing")
    /\ Enqueue(r)
    /\ UNCHANGED <<store, workspace, outcome, control, runner, clients, env>>

\* Nothing is written if the Run or its Agent is gone; a "stopped" set in the
\* meantime is overwritten.
CommitComplete(r) ==
    /\ InTurn(r) /\ exec[r] = "completing"
    /\ \/ /\ Listed(r) /\ Stored(owner[r])
          /\ run' = [run EXCEPT ![r] = "completed"]
          /\ agent' = [agent EXCEPT ![owner[r]] = "ready"]
       \/ /\ ~(Listed(r) /\ Stored(owner[r]))
          /\ UNCHANGED <<run, agent>>
    /\ Goto(r, "logging")
    /\ Dequeue
    /\ UNCHANGED <<owner, workspace, audit, outcome, control, runner, clients, env>>

RecordCompletion(r) ==
    /\ exec[r] = "logging"
    /\ Record(r, "run.completed")
    /\ Finish(r, "done")
    /\ UNCHANGED <<store, workspace, ingested, queue, outcome, cancellationRequests,
                   runner, clients, env>>

(***************************************************************************)
(* The catch block, and what makes executeRun throw.                       *)
(***************************************************************************)
\* The verdict is written whatever the Run's status is by now.
CommitFailure(r) ==
    /\ InTurn(r) /\ exec[r] = "failing"
    /\ RunBecomes(r, IF outcome[r] = "cancelled" THEN "cancelled" ELSE "failed")
    /\ AgentAfter(r, IF outcome[r] = "cancelled" THEN "ready" ELSE "error")
    /\ Goto(r, "logFailure")
    /\ Dequeue
    /\ UNCHANGED <<owner, workspace, audit, outcome, control, runner, clients, env>>

RecordFailure(r) ==
    /\ exec[r] = "logFailure"
    /\ Record(r, IF outcome[r] = "cancelled" THEN "run.cancelled" ELSE "run.failed")
    /\ Finish(r, "done")
    /\ UNCHANGED <<store, workspace, ingested, queue, outcome, cancellationRequests,
                   runner, clients, env>>

\* A ledger, broker, version or artifact write fails inside try.
AuditFault(r) ==
    /\ auditFaults < MaxAuditFaults
    /\ auditFaults' = auditFaults + 1
    /\ exec[r] \in {"preparing", "building", "denied", "capsule", "diff", "outbox",
                    "logging"}
    /\ Catch(r, "error")
    /\ Enqueue(r)
    /\ UNCHANGED <<disk, control, runner, clients, up, orphans, storeFaults>>

\* The ledger refuses the event of the catch block itself: executeRun rejects.
FailureUnrecorded(r) ==
    /\ auditFaults < MaxAuditFaults
    /\ auditFaults' = auditFaults + 1
    /\ exec[r] = "logFailure"
    /\ Finish(r, "rejected")
    /\ UNCHANGED <<disk, queue, outcome, cancellationRequests, runner, clients, up,
                   orphans, storeFaults>>

\* The persist of the head mutation fails: the store and the file keep their
\* contents, the caller's await throws, the queue goes on.
PersistFails ==
    /\ storeFaults < MaxStoreFaults
    /\ storeFaults' = storeFaults + 1
    /\ UNCHANGED <<disk, cancellationRequests, runner, up, orphans, auditFaults>>

StoreFaultOfRequest(c) ==
    /\ PersistFails
    /\ InTurn(c) /\ phase[c] = "queued"
    /\ ~Refused(c)
    /\ Answer(c)
    /\ SkipRejected
    /\ UNCHANGED <<exec, outcome, executions>>

\* Inside try, the catch block runs; outside it, executeRun rejects.
StoreFaultInTry(r) ==
    /\ PersistFails
    /\ InTurn(r) /\ exec[r] \in {"refusing", "completing"}
    /\ Catch(r, "error")
    /\ queue' = Append(Tail(queue), r)
    /\ UNCHANGED <<executions, clients>>

StoreFaultOutsideTry(r) ==
    /\ PersistFails
    /\ InTurn(r) /\ exec[r] \in {"starting", "failing"}
    /\ Finish(r, "rejected")
    /\ Dequeue
    /\ UNCHANGED <<outcome, clients>>

(***************************************************************************)
(* The process dies: everything but the files is lost.  Nothing ends the   *)
(* children it has spawned, and nothing knows of them afterwards.          *)
(* initialize gives the interrupted Runs a verdict before the server       *)
(* answers again.                                                          *)
(***************************************************************************)
Crash ==
    /\ MayCrash /\ up
    /\ up' = FALSE
    /\ queue' = << >>
    /\ exec' = [r \in Runs |-> IF exec[r] \in Over THEN exec[r] ELSE "lost"]
    /\ executions' = [a \in Agents |-> NoRun]
    /\ cancellationRequests' = {}
    /\ active' = [a \in Agents |-> NoRun]
    /\ killed' = {}
    /\ phase' = [c \in Clients |-> "idle"]
    /\ op' = [c \in Clients |-> "none"]
    /\ target' = [c \in Clients |-> NoAgent]
    /\ held' = [c \in Clients |-> NoRun]
    /\ \E spared \in SUBSET {r \in Runs : exec[r] = "process"} : orphans' = orphans \cup spared
    /\ UNCHANGED <<disk, outcome, faults>>

\* A child without a server ends, when and if it likes.
OrphanEnds(r) ==
    /\ r \in orphans
    /\ orphans' = orphans \ {r}
    /\ UNCHANGED <<disk, queue, exec, outcome, control, runner, clients, up, faults>>

\* Mutants: a queued Run is forgotten; Runs that are over are cancelled too.
Interrupted_RunningOnly(r) == run[r] = "running"
Interrupted_AnyListed(r) == Listed(r)
Interrupted(r) == run[r] \in ActiveStatus

Initialize ==
    /\ ~up
    /\ up' = TRUE
    /\ run' = [r \in Runs |-> IF Interrupted(r) THEN "cancelled" ELSE run[r]]
    /\ agent' = [a \in Agents |-> IF agent[a] = "busy" THEN "ready" ELSE agent[a]]
    /\ UNCHANGED <<owner, workspace, audit, queue, exec, outcome, control, runner,
                   clients, orphans, faults>>

ClientRequest(c) ==
    \E a \in Agents :
        \/ Create(c, a)
        \/ Start(c, a)
        \/ Cancel(c, "stop", a)
        \/ Cancel(c, "delete", a)
        \/ \E r \in Runs : Send(c, a, r)

\* What a request does after its first await.
ClientStep(c) ==
    \/ CommitCreate(c) \/ AdmitRun(c) \/ Refuse(c) \/ CommitStatus(c)
    \/ Settled(c) \/ Joined(c) \/ JoinRejected(c)
    \/ Archive(c) \/ ArchiveFails(c) \/ CommitDelete(c)

RunStep(r) ==
    \/ CommitStart(r) \/ Prepare(r) \/ Build(r) \/ RecordDenial(r)
    \/ CommitRefusal(r) \/ FinalizeCapsule(r) \/ Launch(r) \/ WorkspaceGone(r)
    \/ Close(r) \/ Drain(r) \/ DiffAfterError(r) \/ Diff(r) \/ Outbox(r)
    \/ CommitComplete(r) \/ RecordCompletion(r)
    \/ CommitFailure(r) \/ RecordFailure(r)

Fault ==
    \/ \E c \in Clients : StoreFaultOfRequest(c)
    \/ \E r \in Runs : \/ AuditFault(r) \/ FailureUnrecorded(r)
                       \/ StoreFaultInTry(r) \/ StoreFaultOutsideTry(r)
    \/ Crash

Next ==
    \/ \E c \in Clients : ClientRequest(c) \/ ClientStep(c)
    \/ \E r \in Runs : RunStep(r) \/ OrphanEnds(r)
    \/ Fault
    \/ Initialize

Spec == Init /\ [][Next]_vars

(***************************************************************************)
(* Fairness: the event loop runs every continuation that is due, the disk  *)
(* answers, and a server that is down is started again.  That a child's    *)
(* output is closed in the end is taken from its runner, whose timeout     *)
(* ends the child and not what the child has started: RunExecution says    *)
(* when it is not.  Requests and faults are under no obligation.           *)
(***************************************************************************)
Fairness ==
    /\ \A c \in Clients : WF_vars(ClientStep(c))
    /\ \A r \in Runs : WF_vars(RunStep(r))
    /\ WF_vars(Initialize)

FairSpec == Spec /\ Fairness

(***************************************************************************)
(* Properties.                                                             *)
(***************************************************************************)
Live(r) == exec[r] \notin Over

\* ARCHITECTURE.md: "One Agent can have only one active Run."  The store's
\* Runs that are queued or running, counted per Agent.
OneActiveRun ==
    \A r, s \in Runs :
        run[r] \in ActiveStatus /\ run[s] \in ActiveStatus /\ owner[r] = owner[s]
            => r = s

\* An Agent the store calls busy has a Run the store calls active: whatever way
\* a Run ends, the mutation that ends it also releases its Agent, so no Agent is
\* left refusing messages for a Run that is over.
BusyHasActiveRun ==
    \A a \in Agents :
        agent[a] = "busy" => \E r \in Runs : owner[r] = a /\ run[r] \in ActiveStatus

\* While the server is up, a Run the store calls active is one executeRun is
\* still working on, or one whose execution rejected because a write of its
\* verdict failed; after a restart no interrupted Run is left active.
ActiveRunIsExecuted ==
    \A r \in Runs :
        up /\ run[r] \in ActiveStatus => Live(r) \/ exec[r] = "rejected"

\* A Run in the store has its Agent in the store: deletion takes both in one
\* mutation and admission looks for the Agent inside its own, so a message sent
\* while its Agent is being deleted leaves no orphan.
ListedRunHasAgent ==
    \A r \in Runs : Listed(r) => owner[r] \in Agents /\ Stored(owner[r])

\* However many Runs the store has admitted for one Agent, the runner's table lets one
\* have a child in the Agent's workspace.  It forgets its children when the server dies:
\* a second process there is one that nobody has ended, of a Run that the restart has
\* cancelled.
HasProcess(r) == exec[r] \in InProcess \/ r \in orphans
OneProcessPerAgent ==
    \A r, s \in Runs :
        HasProcess(r) /\ HasProcess(s) /\ owner[r] = owner[s] /\ r # s
            => \E q \in {r, s} : q \in orphans /\ (up => run[q] \in {"cancelled", "deleted"})

\* The chain of a Run never holds two different verdicts, a Run audited as completed
\* is completed in the store (or deleted from it), and one that is completed there has
\* had its outbox handled: whoever sees it may rely on that.  A denial is audited as
\* run.failed before the store has it: of one that a crash leaves there, the restart's
\* "cancelled" contradicts the chain, and this does not say otherwise.
AuditAgreesWithStore ==
    \A r \in Runs :
        /\ \A k, l \in ledger[r] \cap VerdictEvents : k = l
        /\ "run.completed" \in ledger[r] => run[r] \in {"completed", "deleted"}
        /\ run[r] = "completed" => r \in ingested

\* When stopAgent is about to write "stopped", or deleteAgent to archive, the
\* execution it waited for has left nothing active behind.
CancelWaitsForVerdict ==
    \A c \in Clients :
        op[c] \in {"stop", "delete"} /\ phase[c] \in {"queued", "archiving"}
            => held[c] = NoRun \/ (~Live(held[c]) /\ run[held[c]] \notin ActiveStatus)

\* Once its verdict is audited, a Run that is over keeps its status until it is
\* deleted: no late catch block, stop or restart rewrites it.
VerdictIsFinal ==
    [][\A r \in Runs :
           run[r] \in Verdicts /\ ledger[r] \cap VerdictEvents # {}
               => run'[r] \in {run[r], "deleted"}]_vars

\* Every admitted Run gets a verdict, or leaves the store with its Agent; and every
\* request is answered: a stop does not wait for ever on a Run, nor a Run on the store's
\* queue behind it.
EveryoneIsAnswered ==
    /\ \A r \in Runs : run[r] \in ActiveStatus ~> run[r] \in Verdicts \cup {"deleted"}
    /\ \A c \in Clients : phase[c] # "idle" ~> phase[c] = "idle"
=============================================================================
