# Walnut Rewind in TLA+

Walnut Rewind runs coding agents (Codex CLI children, optionally in containers) on behalf of
principals, records everything a Run does in a tamper-evident ledger, lets Runs propose
*Evidence* about files in their workspace, builds each Run's context from Evidence its Agent
is authorized to see, and, when Evidence turns out to be wrong, finds and repairs the Runs
that depended on it. This directory specifies the server, `src/apps/server/src`. Paths below
are relative to it; "doc NN" is `src/docs/walnut/NN-*.md`.

## 1. The system

One Node process. Whatever the code does between two `await`s is atomic; everything that
spans an `await` interleaves with HTTP requests, with the executions of other Runs and with
child processes. State is kept in JSON files replaced by rename, in NDJSON chains that are
appended to, in each Agent's workspace, and in maps that are lost when the process dies.

| component (files) | state | operations | what makes it correct |
|---|---|---|---|
| AgentService (`agent-service.ts`) | `activeExecutions`, `cancellationRequests` | create, update, start, stop, send, delete, executeRun, initialize | one active Run per Agent; every Run gets one verdict, which the audit repeats; stop and delete return only when the Run is over; an Agent is never busy for nothing |
| JsonStore (`store.ts`) | the database, the queue of mutations | mutate, snapshot | mutations are serial, all or nothing, and a rejected one blocks nobody |
| JsonFileState (`walnut/shared/json-file-state.ts`), behind every other store | file, cache, queue of mutations | mutate, read | the same; and what was recorded stays recorded |
| WorkspaceManager (`workspace.ts`) | a directory per Agent | create, archive, writeInstructions | an Agent leaves the store only once its workspace is archived |
| Local and container runner (`codex-runner.ts`, `container-codex-runner.ts`) | table of children, their flags and timers | run, cancel, shutdown | one child per Agent; one outcome per child, with a fixed precedence; an execution ends whatever its child does |
| Evidence ledger (`walnut/evidence/ledger.ts`) | one NDJSON chain per Run and one for governance, a queue per chain | append, verifyChain | what is acknowledged is recorded, in order, and what was changed afterwards is detected (INV-13 to INV-15) |
| Runtime event sink (`walnut/evidence/consume-codex-jsonl.ts`) | a promise chain per Run | consume, done | events in order, one refusal stops the rest and fails the Run |
| Evidence store and write service (`evidence-store.ts`, `evidence-write-service.ts`) | versions of Evidence, pointers, citations | createEvidence, supersede, revoke, markCompromised | no Evidence without a verified citation (INV-4, INV-5), none classified below its contributors (INV-6), history only grows (INV-9) |
| Outbox (`walnut/evidence/outbox.ts`) | a file per workspace | processOutbox | each entry is settled, once |
| Workspace sources and artifacts | manifests | capture, diff | files changed by a Run are attributed to it |
| Redactor | - | redact | secrets are not stored |
| Authorization (`walnut/auth/`) | grants, deny list | authorize, issue, revoke | a fixed precedence of denials; both legs must allow |
| Context broker and capsules (`walnut/context/`) | capsule files and their index | build, buildReplacement | only authorized, current, unconflicting Evidence enters a capsule (INV-7, INV-8) |
| Share service (`walnut/context/share-service.ts`) | grants | share | the sender may share, the recipient may receive |
| Agent versions (`walnut/context/agent-version-store.ts`) | immutable versions | resolve | a Run is tied to the configuration it ran with |
| Dependency graph (`walnut/dependency/`) | derived | blast radius, explain | exactly what is reachable |
| Reconciliation and run states | run states, recovery records | markStale, markTainted, reconcile | every stale Run is repaired, no taint is overwritten |
| HTTP routes, start-up, web UI, deployment | - | - | validation, wiring, presentation |

Interaction: a route calls `AgentService`; `executeRun` calls version resolution, the broker
(which reads Evidence, asks the authorizer, writes the capsule), the ledger, the runner, and
after a successful child `processOutbox`, which calls the write service for each entry. The
write service reads sources in the workspace and writes store and ledger. The routes for
revocation and compromise end Evidence, then tag the Runs the dependency graph reaches;
supersession tags nothing. A tagged Run may be reconciled: a new Run, through sendMessage,
takes its place. `initialize` repairs what a dead process left behind.

What is hard: everything above is concurrent, no two files change together, and every write
may fail. The hazards are listed at their lines in `PROJECT.json`; they are what the
properties are for.

## 2. The modules

| module | models | built from |
|---|---|---|
| `AgentLifecycle` | AgentService, JsonStore's queue, the runner's table, the workspace as present or archived, each Run's verdict in the ledger | - |
| `AgentLifecycleProofs` | theorems about it | EXTENDS AgentLifecycle, TLAPS |
| `EvidenceLedger` | append and verifyChain of every chain | - |
| `AppendOnlyLog` | what the ledger promises: a log per chain that only grows, by what was acknowledged | instantiated by EvidenceLedger |
| `EvidenceLedgerProofs` | theorems about it | EXTENDS EvidenceLedger, SequenceTheorems, WellFoundedInduction, TLAPS |
| `JsonFileState` | one store's file and cache: the first load, the queue of mutations | - |
| `EvidenceStore` | what the Evidence store promises its readers: a status and a derivation per Evidence, and the three ways they change | instantiated by EvidenceWrite, ContextBroker, RunRecovery |
| `EvidenceStoreProofs` | what follows from that promise alone | EXTENDS EvidenceStore, TLAPS; instantiated by EvidenceWriteProofs, RunRecoveryTagsProofs |
| `EvidenceWrite` | processOutbox, createEvidence, the transitions, the store's queue, the citation verifier | - |
| `EvidenceWriteProofs` | theorems about it | EXTENDS EvidenceWrite, FiniteSetTheorems, TLAPS |
| `ContextBroker` | build, authorize, the grant store, capsule store and clarifications, ShareService, the grant routes | - |
| `ContextBrokerProofs` | theorems about it | EXTENDS ContextBroker, SequenceTheorems, TLAPS |
| `RunRecovery` | the revoke, compromise and reconcile routes, graph and blast radius, run states, ReconciliationService | - |
| `RunRecoveryProofs` | theorems about it | EXTENDS RunRecovery, SequenceTheorems, TLAPS |
| `RunRecoveryTagsProofs` | that its tags and recoveries are right | EXTENDS RunRecoveryProofs, FiniteSetTheorems, WellFoundedInduction |
| `RunExecution` | both runners, the output consumer and event sink, artifact manifests, Agent versions, updateAgent | - |
| `RunExecutionProofs` | theorems about it | EXTENDS RunExecution, SequenceTheorems, TLAPS |
| `SerialExecution` | what an Agent's executions are to one another: one after the other, with one process each | instantiated by AgentLifecycleProofs, RunExecutionProofs |
| `MC...` | instances for TLC | EXTENDS the module of that name |

How they fit. `AgentLifecycle` decides which Runs are admitted, and has each service that
`executeRun` calls as one step that works or throws; the other modules open one of those
steps each. `ContextBroker` is what happens between "queued" and "running"; `RunExecution`
what happens from `versions.resolve` to the artifact diff, with the requests of other actors
that reach into it; `EvidenceWrite` the outbox that follows; `EvidenceLedger` every append of
any of them; `RunRecovery` what happens to finished Runs when Evidence is ended, its
replacement Runs being `ContextBroker` builds seen from far (read, write, index). Where a
module assumes what another shows, its header says so. One assumption is known to fail:
`EvidenceWrite` and `RunExecution` take an Agent's executions to be one at a time (finding 1).
Another is that a store is there once the server is up: `EvidenceWrite`, `ContextBroker` and
`RunRecovery` take a store's cache to be loaded before its first mutation, and `JsonFileState`
shows what can go wrong when it is not (finding 4).
`SerialExecution` states it: `RunExecution` keeps it, and so does `AgentLifecycle`, for each
Agent, in every behaviour without the two writes finding 1 is about (section 5). Nothing else
that requests, faults or restarts can do breaks it.

Three modules see Evidence: `EvidenceWrite` has the code that commits and ends it, `ContextBroker`
and `RunRecovery` let it change around the code that reads it. `EvidenceStore` is the contract
between them, and all three are shown to keep it. `EvidenceWrite` implements it, await by await
(a run checks that, a theorem states it). The broker's environment keeps it too and, conversely,
may do whatever the contract allows (`StoreIsFree`), so what is proved of capsules holds over
the store `EvidenceWrite` describes. `RunRecovery` makes the contract's moves except
supersession: its routes end Evidence by revocation and compromise, and supersession tags
nothing.

Conventions. A step ends where the code awaits. An actor that calls `mutate` is put at the
tail of a queue; its mutation and the code up to its next await happen when it is at the
head. Definitions named `X_Something`, just before `X`, are the ways a plausible bug would
change `X`; nothing uses them. Only bounds (constants named `Max...`) cap counters, in the
guards of faults, edits, requests and the clock.

### AgentLifecycle

`agent`, `run`, `owner` are `database.agents` and `database.runs`; `exec[r]` is the await at
which `executeRun` of `r` stands, `phase[c]` the one at which a request stands;
`executions` and `cancellationRequests` are the service's map and set; `active`/`killed` the
runner's table with its `cancelled` flag; `orphans` the Runs whose child has outlived the server
that spawned it; `ledger[r]` the kinds of events in a Run's chain.

| action | code |
|---|---|
| Create, CommitCreate | createAgent: the workspace, then the mutation |
| Send, AdmitRun, Refuse | sendMessage: the mutation decides; executeRun is started and not awaited |
| Start, CommitStatus | startAgent |
| Cancel, KillProcess, JoinExecution, Joined, JoinRejected, Settled | stopAgent and deleteAgent up to the end of cancelExecution |
| Archive, ArchiveFails, CommitDelete | the rest of deleteAgent |
| CommitStart ... RecordCompletion | executeRun, one action per await, denial and clarification by the broker included |
| CommitFailure, RecordFailure | its catch block |
| AuditFault, FailureUnrecorded, StoreFault... | the throw of each awaited write, inside and outside `try` |
| Crash, Initialize | the process dies, and of its children those end that do; the next one repairs the store before it answers |
| OrphanEnds | a child that was left over ends, which nothing sees to |

The child is one step (`Close`), the runner's verdict another (`Drain`): timeout, output limit,
an exit code and a line that cannot be recorded are one outcome, "error". A cancellation takes
precedence over all but the last of these (`codex-runner.ts:203-205`), so that a cancelled Run may
end either way.

### EvidenceLedger and AppendOnlyLog

`file[c]` is a chain's file, a sequence of lines; a hash is the sequence of everything that
was hashed on the way to it, so hashes are injective and nothing else. `append` is
`Request`, `Verify` (verifyChain), `LoadHead` (the *second* reading of the file) and `Write`,
each a step during which another process may `Edit` the file. `WriteFails` leaves nothing,
part of a line, or all of a line but its newline. `AppendOnlyLog` sees the bodies of the
verified prefix and what callers were told.

### JsonFileState

`file`, `data` and `queue` are the file, the cache and the queue of one store; the contents are
the set of records. `read` and a mutation whose turn it is load the file if nobody has
(`EnsureLoaded`, `ReadFile`, `Loaded`); a mutation clones, persists and swaps (`Clone`,
`Persist`, `Swap`), one await after the other. `PersistFails` and `Crash` are its faults.

### EvidenceWrite

`evidence` is a set of versions with their bitemporal bounds; `pointers` and `citations` as
in the file; `audited` the versions whose event reached the ledger; `stage`, `run`, `at`,
`seen`, `stamp` the program counter and the locals of processOutbox and createEvidence for an
Agent.

| action | code |
|---|---|
| Propose, WriteBroken, ChangeSource | what a Run, or anybody, does to the workspace |
| Ingest, CheckEntry, Rename | processOutbox |
| Report, ReportFails | AgentService's appends of what was rejected, one after the other; the first that is refused is the last |
| ReadSource, CheckTarget, AppendPointer, VerifyCitation, Commit, Audit | createEvidence between two awaits |
| AuditFails, Withdraw | its fail-closed branch: the Evidence becomes COMPROMISED |
| Ask, Grant, Deny, Govern, GovernFails | supersede, revoke, markCompromised and their governance event |
| PersistFails..., RenameFails, Crash | faults, counted: `storeFaults`, `auditFaults`, `crashes` |

The counts bound the faults of an instance, and two invariants are stated with them: how much
Evidence may be unaudited (`UsableIsAudited`), and how often a claim may become Evidence again
(`RepeatsAreFaults`), is at most what the faults so far account for.

Abstractions: an Agent has one Run at a time here (that it may have two is
`AgentLifecycle`'s finding); what is read of immutable records is read in one step with what
follows; a path that is unsafe, missing, binary or too large is `NoFile`; the class of
contents in which the quotation is found is `Quotable`. `appendEvidence`, `appendCitation`
and `closeEvidenceVersion` have no caller outside the tests and are left out.

### ContextBroker

`grants`, `decisions`, `file`, `index` and `question` are what is on disk; `stage`, `reading`,
`position`, `call`, `allowed` and `denied` the program counter and the locals of a build or a
share; `call` is the call of authorize under way, with the time it took before it waited.

| action | code |
|---|---|
| Build, AskNext, DecideNext, Collect | build: candidates from one reading, then per candidate the call, its decision by the grants of that moment, its append |
| Clarify, HeadRead, SaveCapsule, SaveIndex | conflicts; the governance head; capsule file, then index |
| BuildFails | a decision, clarification, capsule or index that cannot be written |
| Share, ShareDecides, SenderDecided, RecipientDecided, IssueToRecipient, AskAgain, DecidedAgain, ShareFails | share: sender, recipient, a grant per scope, recipient again |
| IssueGrant, RevokeGrant, Commit, End, Tick, Crash | what others do between any two awaits |

`ever` and `always` are history: what was so at a moment, and throughout, since a build or a
share began. They are computed from the definition of a permission (`Permitted`), not from
authorize, and are what the invariants compare its results with. A resource pattern is the
set of scopes it matches, and `Matches` says which those are when the pattern is the text of a
scope, as in the grants of a share; whether two claims conflict is whether their hashes differ.

### RunRecovery

| action | code |
|---|---|
| SendMessage, Read, WriteCapsule, WriteIndex, BuildFails, Commit, Delete | Runs that come and go meanwhile, their capsules and Evidence |
| EndEvidence, Snapshot, ReadCapsules, ReadEvidence, Tag, RouteFails | the revoke and compromise routes: the transition, the readings the graph is made of, one tag after the other |
| Reconcile, Check, LookUp, StartRun, StartFails, PollFails, MarkRecovered, MarkRecoveredFails, RecordOutcome, RecordFails | reconcile, serialised, cut at every await |
| Crash | queue and requests are lost |

`ContainsEvidence`, `Produced`, `DerivedFrom` and `Edges` are the projector's edges between
the `Nodes` it has read, in the direction of the walk; `Walk` is computeBlastRadius's
breadth-first search, a set per step. `Affected` is what it is checked against: the least set
closed under "read it", "produced it" and "derived from it", over all that is on disk.

### RunExecution

| action | code |
|---|---|
| UpdateAgent, SendMessage, Resolve, CaptureBefore, PrepareFails | the Agent's edits; versions.resolve; the manifest before |
| Launch, SpawnFails, ContainerStarts, Write, Exit, Detached, BoxEnds | the child and, with a container, the engine's process and the container apart |
| Release | those the child has left behind end, or give its output up |
| Cancel, Timeout, Overflow, RemoveContainer, ForceKill | the three flags and the one termination they share |
| Chunk, ChunkThrows, Accept, AppendFails, ServerDies | the line buffer, the consumer's queue, the sink's append, and what nobody catches |
| Close, CloseThrows, Judge, CaptureAfter, CaptureFails | flush, done(), the order of verdicts, the manifest after |

A line is one of six kinds that the parser and the sink treat differently: an agent message,
another event, what does not parse, what the redactor fails on, the literal `null`, a blank.
The workspace is one file.

## 3. What TLC checks

| run | instance | shows |
|---|---|---|
| lifecycle_safety | 1 Agent, 2 Runs, 2 requests at a time, a failing persist, a failing audit write, crashes | five invariants and one action property of store, executions, runner and audit, children left over by a crash included |
| lifecycle_liveness | the same with crashes but no failing write, and without start, fair | every admitted Run gets its verdict, or goes with its Agent, and every request is answered or lost with the server |
| lifecycle_one_active_run | no faults, with stop | **violated**: finding 1 |
| ledger | 4 events on 2 chains, a failing write that leaves nothing, a part of its line or all but the newline, an edit, crashes, fair | until an edit or a lost newline, acknowledged events are recorded once and AppendOnlyLog is refined; whatever is edited, what verifies is genuine and in order, and a broken chain stays broken; no append is left waiting |
| store_first_load | a reader, 2 mutations, a store not yet loaded | **violated**: finding 4 |
| evidence_creation | 2 Agents, 2 claims, 2 levels, 2 contents and no file, a change of a source, a request, a failing persist, a failing ledger write, a crash | provenance, classification; entries of processed outboxes are settled, Evidence is audited and a claim becomes Evidence once, but for what the faults account for |
| evidence_lifecycle | 1 Agent, 2 claims that may replace, 2 concurrent requests, 2 instants, a failing ledger write, fair | history and belief; what is superseded has its replacement; refines EvidenceStore; everything begun ends |
| evidence_reingest | 1 Agent, 2 Runs, crashes | **violated**: finding 2 |
| broker | a Run and a share; 3 Agents, one on the deny list; 2 Evidence, of one and two scopes, in conflict; a scope that matches another as a pattern; 2 changes of grants or Evidence, 2 instants, a fault | what a capsule holds, what is recorded of it, what a share may grant |
| recovery | a Run that has read the Evidence and two that may come, of one Agent; 2 Evidence, 2 ends; 2 reconciles; a mishap | tags are right and complete, one replacement per tag, what is recorded as recovered is |
| execution | 2 Runs, either provider, 3 kinds of lines, 2 lines, a write, an edit of the Agent, a mishap, fair | events, artifacts, versions; every execution ends that can |
| execution_refusal | 1 Run, 1 mishap | **violated**: finding 3 |

Why the bounds are enough. The properties relate at most two Runs, two requests, two lines
or two versions: two actors that interfere, on one object, are there in every run (Agents
share nothing but the queues, and `evidence_creation` has two). One fault of a kind suffices
to reach each error path; a second one on top of a crash is what `lifecycle_safety` has.
`recovery` has a third Run, so that the second reconcile of one Run finds one to start;
`broker` has two changes, so that a grant can go between the authorization of a candidate and
that of the next, and come back. Every property fails for at least one mutant of the code on
its own instance, which shows that the instance reaches what the property is about. Two things
are out of an instance's bounds and left to the theorems: with a write of the work file in
`execution`, no two artifact records have to fit together (`ChangesStayRecorded`); with one edit in
`ledger`, no edit meets another (`LedgerGenuine`, `LedgerInOrder`).

Symmetry is used only in runs without liveness and only over sets of model values that no
definition tells apart. Deadlock is checked for `AgentLifecycle` (a client may always ask
again). The other modules stop when every event, request or Run of the instance has been used
up, and their configurations say `CHECK_DEADLOCK FALSE`; that nothing stops half way is what
`EveryAppendIsAnswered`, `EverythingEnds` and `EveryExecutionEnds` are for.

Fairness. Weak fairness of each actor's own steps: Node runs every continuation that is due, the
disk answers or fails, timers fire, signals are delivered, the container engine does what it is
asked for. In `RunExecution` (`EveryExecutionEnds`) a child is under no obligation to end or to
stop writing, nor those it has left to give its output up: the timeout, a signal or the removal
of its container ends the child, and `Close`, which stands for the `close` event, is due only
when nobody holds the output any more; while somebody does the property promises nothing. In
`AgentLifecycle` that the child's output ends is assumed (`Close` is among the steps of
`RunStep`, whose weak fairness it has), so `EveryoneIsAnswered` holds of the executions that do
end; and a server that is down is started again. Requests, edits, proposals, output, the clock
and faults are under no obligation. `ContextBroker` and `RunRecovery` state no fairness.

## 4. Findings and known limits

1. **Two active Runs** (`OneActiveRun`; `agent-service.ts:162` against
   docs/ARCHITECTURE.md:32-33). A stop that arrives while a sendMessage's mutation is being
   persisted finds no execution, and its "stopped" overwrites "busy"; start and send then
   admit a second Run. The runner's table still keeps the two children apart while the server
   lives (`OneProcessPerAgent`, proved). There is a second way, with a failing write and no stop: a
   Run completes and its Agent is "ready"; the next message is admitted; the ledger refuses
   `run.completed` of the first, and its catch block writes "error" over "busy"; a third message
   is admitted. `SecondRunNeedsStrayRelease` proves that there is no other: without a stop
   committed for a busy Agent, and without a completed Run rewritten to failed while its Agent
   is busy again, no Agent has two active Runs.
2. **Entries ingested twice** (`IngestedOnce`; `outbox.ts:170` against the comment there). A
   crash, or a throw, between an entry and the rename leaves the file to the next Run.
   What does hold is `RepeatsAreFaults`: once more at most for each crash and failing write.
3. **A refused append ends the server** (`RefusalFailsTheRun`; `consume-codex-jsonl.ts:35`
   against the comment at lines 6-8 there). While the child runs nobody has a handler on the
   consumer's queue: the rejection is unhandled, and Node.js ends the process with every other
   Agent's Run. Once the child has closed it fails the Run, as intended.
4. **A record lost after the first load** (`RecordsAreAppendOnly`; `json-file-state.ts:57` against
   evidence-store.ts:2-4). A load is not in the queue of mutations and assigns what it has read
   even when the store was loaded in the meantime. A read that overlaps the first mutation after a
   start can so put the old contents back into the cache, and the mutation after that persists
   without the record of the first, which has been acknowledged. No store is loaded at the start of
   the server; evidence, grants, run states, reconciliations, clarifications, versions and artifacts
   are kept this way, and the evaluator has the same pattern for its decisions
   (`evaluator.ts:198-215`). The other modules show what holds once a store is loaded.

Known limits, met on the way and recorded as hazards. Where a property would be false because
of one, its comment says what it leaves out.

- A prefix of a chain is a chain: that the newest records were removed is not detected.
- A last line without its newline verifies, and the next append, acknowledged, lands on the
  same line. A chain counts as disturbed from then on (`Disturbed`), and `AcknowledgedIsRecorded`
  and the refinement of `AppendOnlyLog` say nothing more; `VerifiedIsGenuine`, `VerifiedInOrder` and
  `BrokenStaysBroken` still do.
- A local child outlives a server that dies (`codex-runner.ts:138`; `index.ts` cancels nothing when
  it shuts down, either): the restart frees its Agent, and the next Run has a second process in the
  workspace. `OneProcessPerAgent` says that this is the only way to two, and that the first one's
  Run has then been cancelled or deleted. What it writes is in no artifact record for certain:
  `ChangesAreRecorded` excepts it (`strayed`).
- The runner waits for its child's output to be closed, and signals only the child: a descendant
  that keeps the output open keeps the Run, and a stop or a deletion that waits for it, for ever
  (`codex-runner.ts:144, 201, 238-242`). `EveryExecutionEnds` and `TheEndIsOwed` except it. In a
  container what is left ends with the container.
- A denial is audited as `run.failed` before the store has it: a crash in between leaves a chain
  that says failed of a Run that the restart makes cancelled. `AuditAgreesWithStore` does not
  exclude it.
- What an outbox had rejected is reported after the outbox was renamed away: a crash, or a report
  that the ledger refuses, leaves entries of which nothing says what became of them.
  `ProcessedIsSettled` says how many: those of one Run for each refusal, and of one Run of each
  Agent for each crash.
- A share stores a scope as the pattern of the grant, and the evaluator reads it as a glob
  (`share-service.ts:141`, `evaluator.ts:49-52`), though the comment at `share-service.ts:21-22`
  says "never a glob" and an outbox may name any string as a scope (`outbox.ts:22`). A scope with a
  `*` so grants all it matches. `ShareIsBacked` says what does hold: a sender who may share that
  scope may share all it matches, since only a `*` of the sender's own pattern can match it.
- An archive followed by a crash makes an Agent undeletable.
- A crash between commit and ledger leaves Evidence that was never audited, and nothing looks
  for it on the next start; so does a failing write of the withdrawal that follows a refusal.
  `UsableIsAudited` says how much: at most one per Agent and crash, and one per such write.
- Evidence is recorded as of before it was committed.
- supersede does not ask whether the replacement is still ACTIVE.
- The line `null` makes parseCodexEventLine throw in the handler of the data event, which
  ends the server as in finding 3 (`ChunkThrows`).
- A container that starts after `rm --force` of its name has been accepted is not removed
  again: `EveryExecutionEnds` excepts it (`Overlooked`). One left over makes the next Run of
  the Agent fail, and may still write: `ChangesAreRecorded` excepts it (`strayed`).
- Evidence produced by a tainted Run stays ACTIVE, and may be in the capsule of the Run that
  replaces it: `RecoveryIsReal` speaks of the triggers only.
- A tag that arrives after the replacement's capsule was built and before the old Run is
  marked is covered by RECOVERED; the replacement itself is then tagged by the same route only
  if its capsule holds the Evidence.
- A share that fails half way leaves the grants it has issued, each backed by its sender
  (`ShareIsBacked`).

## 5. What TLAPS proves

For every value of the constants that meets their assumptions (ids are distinct from
placeholders; bounds are natural numbers), whatever the number of Agents, Runs, requests,
chains, events, lines, faults and edits:

| theorem | statement | argument |
|---|---|---|
| `TypeCorrect` | `AgentLifecycle`: `Spec => []TypeOK` | `TypeOK` is not inductive: that a request in progress has a target and, if it is a send, a Run, is added (`Typed`) |
| `StoreConsistent` | `[](ListedRunHasAgent /\ BusyHasActiveRun /\ ActiveRunIsExecuted)` | `StoreInv`: the three, with `FreshSends` (a Run a send is about to admit is unused, and no other send's) and `DecidedRuns` (an execution past its verdict left no active Run); one lemma per conjunct, one step per action |
| `RunnerExclusive` | `[]OneProcessPerAgent` | `ProcessTracked`: a Run with a child of this server is the one the runner's table has for its Agent; the Run of one left over has no execution, and the restart leaves none of them active |
| `ActiveIsExecuted` | `[]ActiveRunIsExecuted` | a conjunct of `StoreInv`, on its own |
| `AuditAgrees` | `[]AuditAgreesWithStore` | what a Run's chain holds follows its execution await by await: completion is recorded only once the store has it, and a chain with a verdict gets no other |
| `VerdictStays` | `VerdictIsFinal` | a Run whose verdict is audited has no execution that could still commit: only one still in progress writes a status |
| `CancelWaits` | `[]CancelWaitsForVerdict` | `Waited`: a cancellation goes on only past an execution that is done |
| `SecondRunNeedsStrayRelease` | `Spec /\ [][~StrayRelease]_vars => []OneActiveRun` | `ActiveKeepsBusy`: an active Run's Agent is busy but for the two writes named by `StrayRelease`; `FailsOnce`, `CreatedOnce`: no other step finds a busy Agent |
| `ExecutionsAreSerial` | `Spec /\ [][~StrayRelease]_vars => Of(a)!Spec`, for every Agent `a` | where a Run stands is read off its phase (`Stand`); `UnderWayBlocks`: a Run under way keeps its Agent busy or deleted, so none is admitted; `RunsGoOnward`: executeRun and its failing writes only go forward; `OneLeaves`: a deletion or a crash ends one execution at most, `AloneStep` being why |
| `WorkspaceIsOneRuns` | `Spec /\ [][~StrayRelease]_vars => []WorkspaceOfOneRun` | `SerialInv`: what holds without stray releases, and that no two Runs of an Agent are under way |
| `NobodyWaitsForEver` | `[]NobodyIsStuck` | `Lined`: the queue holds whoever waits for a mutation, once, and nobody else; `Registered`: what is registered, tracked or waited for is an execution that has begun |
| `StepsAreSpent` | `[][Spent]_vars` | `ClientMoves`, `RunMoves`: each action takes its request or execution from one phase to a later one (`ClientAhead`, `RunAhead`), and the queue only by its head and its tail |
| `LedgerTypeCorrect` | `EvidenceLedger`: `Spec => []TypeOK` | `Land` and every edit keep a file a sequence of lines |
| `LedgerGenuine` | `[]VerifiedIsGenuine` | every line that carries the hash of its own contents and a hash chain of issued lines was issued; edits forge no hash (`HashInjective`) |
| `LedgerRefinesLog` | `Spec => RefinesLog` | `Calm`: until somebody edits a file or a failing write leaves a line whole but for its newline, a file verifies but for a last line that does not parse, and an append in progress has the file's head; so every step is an append to one log, or a stutter |
| `LedgerRecords` | `[]AcknowledgedIsRecorded` | `Kept`: a chain's good lines are one per acknowledged event |
| `LedgerStaysBroken` | `BrokenStaysBroken` | `LandsBroken`: the first bad line stays bad whatever lands behind it; that there is a first one is the least-number principle (`AnyCount`) |
| `LedgerInOrder` | `[]VerifiedInOrder` | `Turns`: the queue holds requests in their order; `Hangs`: every line written hangs on an earlier one of its chain; the earliest line out of order would hang on a later request's |
| `NobodyWaitsForEver`, `StepsAreSpent` | `EvidenceLedger`: `[]NobodyIsStuck`, `[][Spent]_vars` | `Turns`, and `Attended`: an append that is pending is in its chain's queue; it goes through three stages at most (`Ahead`), whatever is refused, torn or edited |
| `EvidenceTypeCorrect` | `EvidenceWrite`: `Spec => []TypeOK` | `Typed` adds where each Agent stands (a Run, an entry that passed the schema, a content that was read), that a granted request has its Evidence, and that Evidence has a latest version |
| `EvidenceHistory` | `HistoryKept` | every step leaves the store as it is, commits one Evidence, or closes a current version and adds its successor (`StoreSteps`); what a transition leaves is spelt out in `SuccessionFacts` |
| `EvidenceProvenance` | `[]ProvenanceVerified` | `Cited`: from the append of the pointer to the commit the pointer is in the store, and after the verification its content has the quotation, whatever the source is by then |
| `EvidenceKnown` | `[]OneVersionKnown` | `Timed`: nothing is dated ahead of the clock; `OpenIsCurrent`: the latest version is the one not closed; a successor begins where its predecessor ends |
| `EvidenceAudited` | `[]UsableIsAudited`, for a finite set of Agents | `FewStranded`: the unaudited Evidence nobody attends to and the withdrawals under way are at most what crashes and refusals account for; `StrandedSteps`: a step strands what its Agent attended to, and only by failing |
| `EvidenceReplaced` | `[]SupersededHasReplacement` | `RequestsDeclared`: a replacement is declared before its predecessor is closed, and stays declared |
| `EvidenceSettled` | `[]ProcessedIsSettled`, for a finite set of Agents | `Settlement`: before the entry at hand everything is Evidence or rejected, and nothing from it on is rejected; no Run works on an outbox twice; `FewLost`: the Runs whose reports are lost are no more than refusals and crashes account for |
| `EvidenceOnce` | `[]RepeatsAreFaults` | `Apart`: a claim waits in one outbox or was taken away; `Repeated`: the Evidence of a claim that waits again, or is at hand, is at most one per fault; `Leaving`: an Agent leaves an entry behind in its outbox only by a fault |
| `TypeCorrect` | `ContextBroker`: `Spec => []TypeOK` | `Placed` adds which stages have an Agent, an order, a call, and that a call is about Evidence that was read |
| `CapsulesBacked` | `[]CapsuleIsBacked` | `Backed`: what a build has allowed and denied is what its decisions on disk say; once its file is written neither changes |
| `CapsulesExact` | `[]CapsuleIsExact` | `AuthorizeIsExact`: authorize says AUTHORIZED exactly of ACTIVE Evidence that `Permitted` permits, by the grants of the decision and the time of the call; `Exact`: what a build has read was so when it read it, what it allowed has been seen active and permitted, and it has passed no candidate that was both throughout and not allowed it |
| `SharesBacked` | `[]ShareIsBacked` | `Shared`: past the sender's decision the sender's right has been seen; `GrantFrame`: nobody else issues a grant in a share's name, and one that is closed keeps what it covers |
| `TypeCorrect` | `RunRecovery`: `Spec => []TypeOK` | `Typed` adds which stages have a job and a replacement; `Serial`, that a reconcile past "queued" is at the head of the queue and in it once |
| `ReplacedOncePerTag` | `[]OneReplacementPerTag` | `Grow`: a Run's history only gets longer; `Counted`: a reconcile noted a length that was reached, and one that completed has exceeded it; so the next in the queue notes another (`Apart`) |
| `OnlyDownstream` | `[]TagsAreDownstream` | `WalkInside`: the walk never leaves a set no edge leads out of; `Stays`: capsules, contributors and ends are final, so what is reached stays reached (`AffectedGrows`); `Jobs`: a replacement is another Run of the Agent |
| `AllDownstream` | `[]TagsAreComplete` | `WalkClosed`: at the end no edge leads out of what was visited, since every step that adds something uses up a node; `Reaches`: whatever is closed under what has been read, and may yet be, contains all that is due, so reading late only finds more (`ReachesMore`) |
| `RecoveriesReal` | `[]RecoveryIsReal` | `Entries`: a tag's Evidence is over, a recovery follows a tag; `JobRight`: so the triggers are some and all over, and the replacement's build, begun later, has read none of them (`UnreadStays`); `Recorded`, `Witnessed` carry that to the records and back |
| `TypeCorrect` | `RunExecution`: `Spec => []TypeOK` | `Typed` adds what a stage has (an admitted config, a pinned version) |
| `EventsStayInOrder` | `[]EventsAreInOrder` | `Woven`: what is recorded, then what waits, is exactly the lines heard, in order; `Told`: a Run is judged with nothing waiting unless its verdict says otherwise; `OneAtATime` lets one Run own the process |
| `ChangesStayRecorded` | `[]ChangesAreRecorded` | `Accounted`: a Run under way began where the last artifact ended, and the file is there too unless a process may have changed it since |
| `PinsStay` | `[]PinsItsVersion` | a Run not yet resolved has no pin, all versions but the last are closed, pins follow the order of Runs |
| `ExecutionsAreSerial` | `RunExecution`: `Spec => Serial!Spec` | five of its stages before the process and with it are two of the contract's (`Stand`); `GotoMoves`, stage by stage; what the process, the engine and the output do is a stutter |
| `EvidenceInvalid` | `InvalidStaysInvalid`: Evidence that was revoked or compromised never gets a better status | needs that ids are new (`NewIds`: a claim is once in an outbox, a Run belongs to one Agent, and Evidence of the Run at work is that of the settled entries) and hence that id and version name one record (`UniqueVersions`); then the latest version changes by succession only |
| `EvidenceClassified` | `[]ClassificationMonotone` | `Compared`: an id has one level, contributors are in the store, and the comparison made when the source was read stays good until the commit because no new Evidence can take a contributor's id |
| `EvidenceRefinesStore` | `RefinesStore`, of `EvidenceStore` | a commit is seen as a commit of an id that is new (`NewIds`) and derived from what is known (`CommitSeen`); a succession as the move of its request, the latest version being the one it read (`SuccessionSeen`); everything else is a stutter |
| `BrokerRefinesStore`, `StoreIsFree` | `ContextBroker`: `RefinesStore`; and every step of the abstract store is one of its `Next` | `StoreMoves`, action by action |
| `RecoveryRefinesStore` | `RunRecovery`: `RefinesStore` | its commits are of Evidence not committed, derived from what the Run read, which was |
| `EvidenceFounded`, `DerivationsFounded` | derivations lead back to Evidence derived from nothing, in `EvidenceWrite` and `RunRecovery` | `Founded` of `EvidenceStoreProofs`, proved once from the contract, instantiated through each refinement |
| `NobodyWaitsForEver`, `StepsAreSpent` | `EvidenceWrite`: `[]NobodyIsStuck`, `[][Spent]_vars` | `Lined`: whoever waits for a mutation is in the queue, once, and nobody else is; `AgentMoves`, `ClientMoves`: a step ends an outbox, takes its entry to a later stage or goes to the next entry (`OutboxAhead`: eight steps per entry at most, one for its report and one for the end), and a request has two |
| `TheEndIsOwed`, `StepsAreSpent` | `RunExecution`: `[]EndIsOwed`, if some line is not `null`; `[][Spent]_vars` | `Ends`: whatever asked for the process to end had its termination begun, and a removal that was asked for is on its way; then one fair step is owed (`Owed`), can be taken, and stays owed until the Run is nearer to its end (`Nearer`); but for the container of `Overlooked`, and while the output is held (`Withheld`), when the step that would help is nobody's to take |

`NewIds` assumes what `EvidenceWrite` does, one Run at a time per Agent; `WorkspaceIsOneRuns`
is when that is so, and finding 1 shows how it can fail: TLC finds a second Run's process or
diff between the two manifests of a first in the behaviours that release the Agent astray.
`SerialExecution` is no PROPERTY of a run: `AgentLifecycle` refines it under a condition, and for
`RunExecution` one Run at a time is in the guard of its admission. What the two theorems show is
that the guard is what the lifecycle provides.

With these every invariant and action property of the passing runs is a theorem. Some have
conditions, stated in the theorem: `SecondRunNeedsStrayRelease`, `ExecutionsAreSerial` and
`WorkspaceIsOneRuns` are about behaviours without the two writes `StrayRelease` names, and of the
last, only of what this server executes; `EvidenceAudited` and `EvidenceSettled` need a finite
number of Agents, as they count them, and `OnlyDownstream`, `AllDownstream` and `RecoveriesReal`
that Runs and Evidence are finite: otherwise the walk would not end.

The liveness properties rest on two theorems each. The first says that nobody is stuck. In
`AgentLifecycle`: the head of the store's queue can take its turn, and whoever waits can go on,
is in the queue, or waits for an execution that is under way. In `EvidenceLedger` and
`EvidenceWrite`: the head of the queue can go on, and whoever waits is in it once. In
`RunExecution` (`EndIsOwed`): of a Run that is under way some step that is under fairness can be
taken, whatever its process does, but for the container `Overlooked` names and while its output
is held by somebody it has left. The second (`StepsAreSpent`) says that no step is taken back and
that there are finitely many: at most four of a request and sixteen of an execution, three of an
append, nine of an entry with its report, and for the end of a Run ten, with one more for each
further line that waits when its output has ended. In the first three nobody is overtaken in a
queue; in the last, the step that is owed stays owed until it or another has brought the end
nearer, which is why weak fairness of each is enough.

The guards are spelt out there (`ClientReady`, `RunReady`, `AgentReady`, `Ready`); that they are
what ENABLED says of the steps was checked with TLC on the instances of the runs. What is left to
model checking is the passage from the two theorems, by fairness, to the temporal formula.

The walk and the order of a chain need induction over data, whose library theorems take an
operator no installed prover can instantiate; the proofs take a least counterexample instead
(`LeastNat`, from WFMin).

Only model-checked: all liveness (`EveryoneIsAnswered`, `EveryAppendIsAnswered`,
`EverythingEnds`, `EveryExecutionEnds`), because the prover has neither ENABLED nor fairness;
and the counterexamples of the four findings.

## 6. Coverage and what is left

Done: AgentLifecycle; EvidenceLedger with its refinement of AppendOnlyLog; EvidenceWrite with
its refinement of EvidenceStore; ContextBroker; RunRecovery; RunExecution; each with its runs and
theorems. JsonFileState has a run and no theorem.

Worth doing next: that the steps `AgentLifecycle` has for the context build and the outbox are
what `ContextBroker` and `EvidenceWrite` make of them, as `SerialExecution` does for the process;
two Agents in `recovery`, when its state space allows.

Not modelled:

- the redactor, and which paths and sizes the workspace store accepts: pattern matching on
  text and file metadata;
- rendering of prompts, labels of graph nodes, hashes of graphs, the table of kinds in
  classifyCodexEvent, the reading routes: nothing modelled depends on them;
- AGENTS.md, which updateAgent rewrites outside the store's queue: only Codex reads it;
- start-up, configuration, validation of request bodies, types;
- the web UI: it polls the API and keeps nothing the server relies on. It has a race of its
  own, listed as a hazard (`App.tsx:112`);
- deployment, scripts and demo.

## 7. Running

    tlc -workers 2 -config MCAgentLifecycle.cfg MCAgentLifecycle
    tlapm AgentLifecycleProofs.tla

`PROJECT.json` lists every run with its configuration, every mutant, the source lines of
every definition, the findings, hazards and theorems.
