------------------------------ MODULE RunExecution ------------------------------
(***************************************************************************)
(* The execution of an Agent's Runs, one after the other: the AgentVersion *)
(* is pinned, the workspace captured, Codex run as a process or in a       *)
(* container, its output read line by line into the ledger, and the        *)
(* workspace captured again.  The process may be cancelled, time out,      *)
(* write too much, fail or never end.  Between Runs the Agent is edited.   *)
(*                                                                         *)
(* That an Agent has one execution at a time is AgentLifecycle's matter,   *)
(* as are requests that come before the runner is called.  The bytes of    *)
(* the output are its lines and whether one is incomplete; "past the       *)
(* limit" may happen with any chunk.  What a process in a container starts *)
(* ends with the container; what any other starts may go on after it, with *)
(* its output or without, and so may that process itself when the server   *)
(* dies.                                                                   *)
(***************************************************************************)
EXTENDS Naturals, SequencesExt

CONSTANTS
    None,
    Configs, Initial, \* name, description and instructions of the Agent; the first ones
    Providers,    \* of "local-process" and "container"
    Kinds,        \* of lines, those that a process writes
    MaxRuns,      \* bound: Runs of the Agent
    MaxLines,     \* bound: lines a process writes
    MaxWrites,    \* bound: changes of the work file
    MaxUpdates,   \* bound: edits of the Agent
    MaxMishaps    \* bound: writes and removals that fail

ASSUME ExecutionAssumption ==
    /\ None \notin Configs \cup Nat
    /\ Initial \in Configs /\ Providers # {}
    /\ Providers \subseteq {"local-process", "container"}
    /\ Kinds \subseteq {"message", "event", "garbage", "clash", "null", "blank"}
    /\ MaxRuns \in Nat /\ MaxLines \in Nat /\ MaxWrites \in Nat /\ MaxUpdates \in Nat /\ MaxMishaps \in Nat

VARIABLES
    config,       \* the Agent's, in the launchpad store
    versions,     \* versions.json, of this Agent
    workspace,    \* the file it works on, or None
    stage,        \* Run -> where its execution stands
    start,        \* Run -> the config it was admitted with
    pin,          \* Run -> its agentVersionId
    before,       \* Run -> the manifest captured before it
    pending,      \* the Runs whose manifest is pending
    artifacts,    \* artifacts.json, without the pending
    provider,
    box,          \* the Run whose container lives, or None
    removing,     \* the engine is about to remove the container, for these Runs
    \* Of the Run that executes:
    child,        \* the process spawned: of the engine, when there is a container
    code,         \* its exit code
    others,       \* whom it has left: nobody, some without or some with its output
    flags,        \* of cancelled, timedOut, outputExceeded
    term,         \* how far its termination is
    partial,      \* the buffer holds an incomplete line
    output,       \* the lines handled
    waiting,      \* the lines in the consumer's queue
    broken,       \* its promise is rejected
    chain,        \* its runtime events in the ledger
    verdict,      \* what became of it, or None
    writes, updates, mishaps,
    strayed       \* a container or a process has outlived its Run, and may still write

agent   == <<config, versions, workspace, updates>>
disk    == <<pin, before, pending, artifacts>>
engine  == <<provider, box, removing>>
process == <<child, code, others, flags, term>>
stream  == <<partial, output, waiting, broken, chain>>
vars    == <<agent, writes, stage, start, disk, engine, process, stream, verdict, mishaps, strayed>>

Runs    == 1 .. MaxRuns      \* in the order of their messages
Content == {None} \cup 1 .. MaxWrites
Line    == [at : 1 .. MaxLines, kind : {"runtime.event", "runtime.parse_failure", "redaction_failure"}]
Flags   == {"cancelled", "timedOut", "outputExceeded"}
Verdicts == Flags \cup {"completed", "audit", "parse", "spawn", "exit", "silent", "crash"}
Artifact == [run : Runs, state : {"CREATED", "MODIFIED", "DELETED"},
             from : Content, to : Content]

TypeOK ==
    /\ config \in Configs
    /\ versions \in Seq([config : Configs, closed : BOOLEAN])
    /\ workspace \in Content
    /\ stage \in [Runs -> {"new", "admitted", "resolved", "captured", "running", "draining",
                           "judged", "over"}]
    /\ start \in [Runs -> Configs \cup {None}]
    /\ pin \in [Runs -> Nat]
    /\ before \in [Runs -> Content] /\ pending \subseteq Runs
    /\ artifacts \in Seq(Artifact)
    /\ provider \in Providers
    /\ box \in Runs \cup {None} /\ removing \subseteq Runs
    /\ child \in {"none", "starting", "running", "exited"} /\ code \in {0, 1}
    /\ others \in {"nobody", "quiet", "holding"}
    /\ flags \in SUBSET Flags
    /\ term \in {"none", "asked", "failed", "done"}
    /\ partial \in BOOLEAN /\ broken \in BOOLEAN /\ strayed \in BOOLEAN
    /\ output \in Seq(Kinds) /\ waiting \in Seq(Line) /\ chain \in Seq(Line)
    /\ verdict \in Verdicts \cup {None}
    /\ writes \in 0 .. MaxWrites /\ updates \in 0 .. MaxUpdates
    /\ mishaps \in 0 .. MaxMishaps

Init ==
    /\ config = Initial
    /\ versions = << >>
    /\ workspace = None
    /\ stage = [r \in Runs |-> "new"]
    /\ start = [r \in Runs |-> None]
    /\ pin = [r \in Runs |-> 0]
    /\ before = [r \in Runs |-> None] /\ pending = {}
    /\ artifacts = << >>
    /\ provider \in Providers
    /\ box = None /\ removing = {}
    /\ child = "none" /\ code = 0 /\ others = "nobody" /\ flags = {} /\ term = "none"
    /\ partial = FALSE /\ broken = FALSE /\ strayed = FALSE
    /\ output = << >> /\ waiting = << >> /\ chain = << >>
    /\ verdict = None
    /\ writes = 0 /\ updates = 0 /\ mishaps = 0

Mishap == mishaps < MaxMishaps /\ mishaps' = mishaps + 1
Goto(r, s) == stage' = [stage EXCEPT ![r] = s]
Busy == \E r \in Runs : stage[r] \notin {"new", "over"}

\* AgentService.updateAgent, refused while a Run is under way.  One that changes nothing of
\* what a version is compared by is a stutter.
UpdateAgent ==
    /\ ~Busy
    /\ updates < MaxUpdates /\ updates' = updates + 1
    /\ config' \in Configs \ {config}
    /\ UNCHANGED <<versions, workspace, writes, stage, start, disk, engine, process, stream, verdict, mishaps, strayed>>

(***************************************************************************)
(* Before the process: the version, and the manifest.                      *)
(***************************************************************************)
SendMessage(r) ==
    /\ stage[r] = "new" /\ ~Busy /\ \A s \in 1 .. r - 1 : stage[s] = "over"
    /\ start' = [start EXCEPT ![r] = config]
    /\ Goto(r, "admitted")
    /\ UNCHANGED <<agent, writes, disk, engine, process, stream, verdict, mishaps, strayed>>

\* Versions with the config that are good enough to be pinned.
\* Mutant: the config is not compared.
Matching_Latest(cfg) == {i \in DOMAIN versions : i = Len(versions)}
Matching(cfg) == {i \in DOMAIN versions : i = Len(versions) /\ versions[i].config = cfg}

\* AgentVersionStoreImpl.resolve, with the Agent as it was when the message came.
Resolve(r) ==
    /\ stage[r] = "admitted"
    /\ IF Matching(start[r]) # {}
       THEN UNCHANGED versions /\ \E i \in Matching(start[r]) : pin' = [pin EXCEPT ![r] = i]
       ELSE /\ versions' = Append([i \in DOMAIN versions |-> [versions[i] EXCEPT !.closed = TRUE]],
                                  [config |-> start[r], closed |-> FALSE])
            /\ pin' = [pin EXCEPT ![r] = Len(versions) + 1]
    /\ Goto(r, "resolved")
    /\ UNCHANGED <<config, workspace, updates, writes, start, before, pending, artifacts, engine, process, stream, verdict, mishaps, strayed>>

CaptureBefore(r) ==
    /\ stage[r] = "resolved"
    /\ before' = [before EXCEPT ![r] = workspace] /\ pending' = pending \cup {r}
    /\ Goto(r, "captured")
    /\ UNCHANGED <<agent, writes, start, pin, artifacts, engine, process, stream, verdict, mishaps, strayed>>

\* A store cannot be written: the Run fails before it has run.
PrepareFails(r) ==
    /\ stage[r] \in {"admitted", "resolved"}
    /\ Mishap
    /\ Goto(r, "over")
    /\ UNCHANGED <<agent, writes, start, disk, engine, process, stream, verdict, strayed>>

(***************************************************************************)
(* The process.  A container is named for its Agent: while one of that     *)
(* name lives the engine's process gives up.                               *)
(***************************************************************************)
Executing(r) == stage[r] \in {"running", "draining"}
Contained == provider = "container"

\* The runner forgets a process when its promise is settled, and its output goes with the
\* execution.
Forgotten == child' = "none" /\ code' = 0 /\ others' = "nobody" /\ flags' = {} /\ term' = "none"
Cleared ==
    /\ Forgotten
    /\ partial' = FALSE /\ output' = << >> /\ waiting' = << >> /\ broken' = FALSE /\ chain' = << >>

Launch(r) ==
    /\ stage[r] = "captured"
    /\ child' = (IF Contained THEN "starting" ELSE "running")
    /\ verdict' = None
    /\ Goto(r, "running")
    /\ UNCHANGED <<agent, writes, start, disk, engine, code, others, flags, term, stream, mishaps, strayed>>

\* The process cannot be spawned.
SpawnFails(r) ==
    /\ stage[r] = "captured"
    /\ Mishap
    /\ verdict' = "spawn"
    /\ Goto(r, "judged")
    /\ UNCHANGED <<agent, writes, start, disk, engine, process, stream, strayed>>

ContainerStarts(r) ==
    /\ stage[r] = "running" /\ child = "starting"
    /\ \/ box = None /\ box' = r /\ child' = "running" /\ UNCHANGED code
       \/ box # None /\ child' = "exited" /\ code' = 1 /\ UNCHANGED box
    /\ UNCHANGED <<agent, writes, stage, start, disk, provider, removing, others, flags, term, stream, verdict, mishaps, strayed>>

Works(r) == IF Contained THEN box = r ELSE stage[r] = "running" /\ child = "running"

\* It changes or deletes the work file, or those it has left do.  A container may do so
\* after its Run, and so may they.
Write(r) ==
    /\ Works(r) \/ (Executing(r) /\ others # "nobody") \/ (~Contained /\ strayed)
    /\ writes < MaxWrites /\ writes' = writes + 1
    /\ \E x \in {None, writes + 1} : workspace' = x
    /\ UNCHANGED <<config, versions, updates, stage, start, disk, engine, process, stream, verdict, mishaps, strayed>>

\* A container leaves nobody.
Leaves == others' \in {"nobody"} \cup (IF Contained THEN {} ELSE {"quiet", "holding"})

\* It ends by itself, or because it was told to.
Exit(r) ==
    /\ stage[r] = "running" /\ child = "running" /\ Works(r)
    /\ child' = "exited" /\ code' \in {0, 1}
    /\ box' = None
    /\ Leaves
    /\ UNCHANGED <<agent, writes, stage, start, disk, provider, removing, flags, term, stream, verdict, mishaps, strayed>>

\* The container is gone, and the engine's process with it.
Detached(r) ==
    /\ stage[r] = "running" /\ child = "running" /\ ~Works(r)
    /\ child' = "exited" /\ code' = 1
    /\ UNCHANGED <<agent, writes, stage, start, disk, engine, others, flags, term, stream, verdict, mishaps, strayed>>

\* Those it has left end, or give its output up.
Release(r) ==
    /\ Executing(r) /\ others # "nobody"
    /\ others' \in {"nobody", "quiet"} \ {others}
    /\ UNCHANGED <<agent, writes, stage, start, disk, engine, child, code, flags, term, stream, verdict, mishaps, strayed>>

\* A container that was left over ends.
BoxEnds(r) ==
    /\ box = r /\ (Executing(r) => child = "exited")
    /\ box' = None
    /\ UNCHANGED <<agent, writes, stage, start, disk, provider, removing, process, stream, verdict, mishaps, strayed>>

\* terminate sends SIGTERM and arms SIGKILL, unless it has exited; removeContainer runs
\* `rm --force`, once.
Terminate(r) ==
    LET asks == term = "none" /\ (Contained \/ child = "running")
    IN  /\ term' = IF asks THEN "asked" ELSE term
        /\ removing' = IF asks /\ Contained THEN removing \cup {r} ELSE removing

\* The runner's cancel, the timer and the limit, in any order and at any time until the
\* promise of the runner is settled.
Cancel(r) ==
    /\ Executing(r) /\ "cancelled" \notin flags
    /\ flags' = flags \cup {"cancelled"} /\ Terminate(r)
    /\ UNCHANGED <<agent, writes, stage, start, disk, provider, box, child, code, others, stream, verdict, mishaps, strayed>>

Timeout(r) ==
    /\ Executing(r) /\ "timedOut" \notin flags
    /\ flags' = flags \cup {"timedOut"} /\ Terminate(r)
    /\ UNCHANGED <<agent, writes, stage, start, disk, provider, box, child, code, others, stream, verdict, mishaps, strayed>>

Overflow(r) ==
    /\ stage[r] = "running" /\ "outputExceeded" \notin flags
    /\ flags' = flags \cup {"outputExceeded"} /\ Terminate(r)
    /\ UNCHANGED <<agent, writes, stage, start, disk, provider, box, child, code, others, stream, verdict, mishaps, strayed>>

\* The container of that name is removed, be it of this Run or of another; or it is not,
\* and the signals go to the engine's process.  Engines differ in what they make of a
\* container that is not there.
RemoveContainer(r) ==
    /\ r \in removing /\ removing' = removing \ {r}
    /\ \/ /\ term' = (IF Executing(r) THEN "done" ELSE term)
          /\ box' = None
          /\ UNCHANGED mishaps
       \/ /\ IF box = None THEN UNCHANGED mishaps ELSE Mishap
          /\ term' = (IF Executing(r) THEN "failed" ELSE term)
          /\ UNCHANGED box
    /\ UNCHANGED <<agent, writes, stage, start, disk, provider, child, code, others, flags, stream, verdict, strayed>>

\* Three seconds later, SIGKILL, to the process alone.  Mutant: SIGTERM is all it gets.
Kills_Never == FALSE
Kills == IF Contained THEN term = "failed" ELSE term = "asked"
ForceKill(r) ==
    /\ stage[r] = "running" /\ child \in {"starting", "running"} /\ Kills
    /\ child' = "exited" /\ code' = 1
    /\ Leaves
    /\ UNCHANGED <<agent, writes, stage, start, disk, engine, flags, term, stream, verdict, mishaps, strayed>>

(***************************************************************************)
(* createCodexJsonlConsumer and WalnutRuntimeEventSink.accept.             *)
(***************************************************************************)
RecordKind(kind) ==
    CASE kind \in {"message", "event"} -> "runtime.event"
      [] kind = "garbage" -> "runtime.parse_failure"
      [] kind = "clash"   -> "redaction_failure"

\* Mutant: the sink is not told of what does not parse.
Forwarded_Parsed(kind) == kind \notin {"blank", "garbage"}
Forwarded(kind) == kind # "blank"

\* Line by line: the runner parses it, and the sink is called after those before it.
HandleLine(kind) ==
    /\ kind # "null"
    /\ output' = Append(output, kind)
    /\ waiting' = IF Forwarded(kind)
                  THEN Append(waiting, [at |-> Len(output'), kind |-> RecordKind(kind)])
                  ELSE waiting

\* An exception nobody catches, or a rejection that nobody has awaited: the process of the
\* server ends.  AgentService.initialize will cancel the Run; a container goes on, and so
\* does a process, which nothing ends, or those it has left.
ServerDies(r) ==
    /\ verdict' = "crash"
    /\ strayed' = (strayed \/ box = r \/ (~Contained /\ child = "running") \/ others # "nobody")
    /\ Goto(r, "over")
    /\ Cleared
    /\ UNCHANGED <<agent, writes, start, disk, engine>>

\* The child's output still reaches the consumer.
Emits(r) == stage[r] = "running" /\ "outputExceeded" \notin flags /\ (Contained => box = r)

\* Bytes without a line's end stay in the buffer; what follows one may, too.
Chunk(r) ==
    /\ Emits(r)
    /\ \/ ~partial /\ partial' = TRUE /\ UNCHANGED <<output, waiting>>
       \/ \E kind \in Kinds : HandleLine(kind) /\ partial' \in BOOLEAN
    /\ Len(output') + (IF partial' THEN 1 ELSE 0) <= MaxLines
    /\ UNCHANGED <<agent, writes, stage, start, disk, engine, process, broken, chain, verdict, mishaps, strayed>>

\* parseCodexEventLine looks for the type of `null`.
ChunkThrows(r) ==
    /\ Emits(r)
    /\ "null" \in Kinds
    /\ ServerDies(r)
    /\ UNCHANGED mishaps

\* Mutant: the sink takes the newest line.
Turn_Newest == Len(waiting)
Turn == 1

Listening(r) == (Executing(r) \/ stage[r] = "judged") /\ waiting # << >> /\ ~broken

Accept(r) ==
    /\ Listening(r)
    /\ chain' = Append(chain, waiting[Turn])
    /\ waiting' = RemoveAt(waiting, Turn)
    /\ UNCHANGED <<agent, writes, stage, start, disk, engine, process, partial, output, broken, verdict, mishaps, strayed>>

\* An append is refused, and the lines behind it are not tried.  done() is waiting for
\* that when the process has closed, and nobody is before.
AppendFails(r) ==
    /\ Listening(r)
    /\ Mishap
    /\ \/ /\ stage[r] = "draining"
          /\ broken' = TRUE
          /\ UNCHANGED <<agent, writes, stage, start, disk, engine, process, partial, output, waiting, chain, verdict, strayed>>
       \/ stage[r] # "draining" /\ ServerDies(r)

(***************************************************************************)
(* The end of CodexRunner.run.                                             *)
(***************************************************************************)
\* Mutant: flush does not look whether the buffer is empty.
Leftover_Always == TRUE
Leftover == partial

Closed == child = "exited" /\ others # "holding"

\* close: everyone has given the output up, which is at its end; what is left in the buffer
\* is a line.
Close(r) ==
    /\ stage[r] = "running" /\ Closed
    /\ \/ ~Leftover /\ UNCHANGED <<output, waiting>>
       \/ Leftover /\ \E kind \in Kinds : HandleLine(kind)
    /\ partial' = FALSE
    /\ Goto(r, "draining")
    /\ UNCHANGED <<agent, writes, start, disk, engine, process, broken, chain, verdict, mishaps, strayed>>

Strays(r) == box = r \/ others = "quiet"

\* Then it throws, the Run fails and nobody waits for the lines before.
CloseThrows(r) ==
    /\ stage[r] = "running" /\ Closed /\ Leftover /\ "null" \in Kinds
    /\ verdict' = "parse"
    /\ strayed' = (strayed \/ Strays(r))
    /\ partial' = FALSE
    /\ Forgotten
    /\ Goto(r, "judged")
    /\ UNCHANGED <<agent, writes, start, disk, engine, output, waiting, broken, chain, mishaps>>

Drained == broken \/ waiting = << >>

VerdictOf ==
    IF broken THEN "audit"
    ELSE IF "cancelled" \in flags THEN "cancelled"
    ELSE IF "timedOut" \in flags THEN "timedOut"
    ELSE IF "outputExceeded" \in flags THEN "outputExceeded"
    ELSE IF code # 0 THEN "exit"
    ELSE IF "message" \in Range(output) THEN "completed" ELSE "silent"

Judge(r) ==
    /\ stage[r] = "draining" /\ Drained
    /\ verdict' = VerdictOf
    /\ strayed' = (strayed \/ Strays(r))
    /\ Forgotten
    /\ Goto(r, "judged")
    /\ UNCHANGED <<agent, writes, start, disk, engine, stream, mishaps>>

(***************************************************************************)
(* captureArtifactDiff, whatever the verdict.  Lines nobody has waited for *)
(* are not followed further.                                               *)
(***************************************************************************)
DiffsOf(r) ==
    IF before[r] = workspace THEN << >>
    ELSE <<[run |-> r, from |-> before[r], to |-> workspace,
            state |-> IF before[r] = None THEN "CREATED"
                      ELSE IF workspace = None THEN "DELETED" ELSE "MODIFIED"]>>

\* Mutant: there is nothing to record of a Run that failed.
Recorded_IfCompleted(r) == IF verdict = "completed" THEN DiffsOf(r) ELSE << >>
Recorded(r) == DiffsOf(r)

CaptureAfter(r) ==
    /\ stage[r] = "judged"
    /\ artifacts' = artifacts \o Recorded(r)
    /\ pending' = pending \ {r}
    /\ Goto(r, "over")
    /\ verdict' = None
    /\ Cleared
    /\ UNCHANGED <<agent, writes, start, pin, before, engine, mishaps, strayed>>

\* It fails: AgentLifecycle has what that means for the Run.  Only the event of the diff
\* may be missing.
CaptureFails(r) ==
    /\ stage[r] = "judged"
    /\ Mishap
    /\ verdict' = None
    /\ \/ UNCHANGED <<artifacts, pending>>
       \/ /\ Recorded(r) # << >>
          /\ artifacts' = artifacts \o Recorded(r)
          /\ pending' = pending \ {r}
    /\ Goto(r, "over")
    /\ Cleared
    /\ UNCHANGED <<agent, writes, start, pin, before, engine, strayed>>

Runner(r) ==
    \/ Launch(r) \/ SpawnFails(r) \/ Cancel(r) \/ Timeout(r) \/ Overflow(r) \/ ForceKill(r)
    \/ Chunk(r) \/ ChunkThrows(r) \/ Accept(r) \/ AppendFails(r)
    \/ Close(r) \/ CloseThrows(r) \/ Judge(r)

Engine(r) == ContainerStarts(r) \/ Detached(r) \/ RemoveContainer(r) \/ BoxEnds(r)

Execution(r) ==
    \/ SendMessage(r) \/ Resolve(r) \/ CaptureBefore(r) \/ PrepareFails(r)
    \/ CaptureAfter(r) \/ CaptureFails(r)

Next ==
    \/ \E r \in Runs : Runner(r) \/ Engine(r) \/ Execution(r) \/ Write(r) \/ Exit(r) \/ Release(r)
    \/ UpdateAgent

Spec == Init /\ [][Next]_vars

\* Timers fire, signals are delivered, promises go on, the engine does what it is asked
\* for.  Nothing makes a process end by itself, write or stop writing, or those it has left
\* give its output up.
Fairness ==
    /\ WF_vars(\E r \in Runs : Timeout(r))
    /\ WF_vars(\E r \in Runs : ForceKill(r))
    /\ WF_vars(\E r \in Runs : ContainerStarts(r))
    /\ WF_vars(\E r \in Runs : Detached(r))
    /\ WF_vars(\E r \in Runs : RemoveContainer(r))
    /\ WF_vars(\E r \in Runs : Accept(r))
    /\ WF_vars(\E r \in Runs : Close(r))
    /\ WF_vars(\E r \in Runs : Judge(r) \/ CaptureAfter(r))

FairSpec == Spec /\ Fairness

(***************************************************************************)
(* Properties.                                                             *)
(***************************************************************************)
\* INV-13/14/18: the ledger holds a Run's output in its order and from its beginning, what
\* could not be parsed or redacted included; and all of it once the Run has its verdict,
\* unless that says otherwise.
Heard == {i \in DOMAIN output : output[i] # "blank"}
Chained == {chain[i].at : i \in DOMAIN chain}
EventsAreInOrder ==
    /\ \A i \in DOMAIN chain :
          chain[i].at \in Heard /\ chain[i].kind = RecordKind(output[chain[i].at])
    /\ \A i, j \in DOMAIN chain : i < j => chain[i].at < chain[j].at
    /\ \A i \in Chained, k \in Heard : k < i => k \in Chained
    /\ \A r \in Runs :
          stage[r] = "judged" /\ verdict \notin {"audit", "parse"} => Heard \subseteq Chained

\* INV-13, as runtime-event-sink.ts has it: a refused append fails the Run it belongs to.
\* It does not take the server with it.
RefusalFailsTheRun == verdict # "crash"

\* What Runs do to the work file is accounted for when none is under way: each record
\* begins where the one before it ended, and the last ends with what is there.  The
\* exceptions are a diff that could not be stored, and a container or a process that was
\* still there when its Run had its verdict.
Unstored == \E r \in pending : stage[r] = "over"
ChangesAreRecorded ==
    ~Unstored /\ ~strayed =>
        /\ \A i \in DOMAIN artifacts : artifacts[i].from = IF i = 1 THEN None ELSE artifacts[i-1].to
        /\ ~Busy => workspace = IF artifacts = << >> THEN None ELSE Last(artifacts).to

\* A Run pins the version that says what the Agent was when its message came.  Of an
\* Agent's versions the last alone is open; that is the one pinned, so that no Run pins a
\* version older than a Run before it.
PinsItsVersion ==
    /\ \A r \in Runs : pin[r] # 0 => versions[pin[r]].config = start[r]
    /\ \A i \in DOMAIN versions : versions[i].closed = (i < Len(versions))
    /\ \A r, s \in Runs : r < s /\ pin[s] # 0 => pin[r] <= pin[s]

\* Every execution comes to an end, though no process may end or be quiet by itself and a
\* removal may fail; but for a container that starts when its name has been removed already,
\* which is not done again, and for one whose process has left others that never give its
\* output up: the signals do not reach them, and the runner waits.
Overlooked(r) == stage[r] = "running" /\ box = r /\ term = "done"
Underway == \E r \in Runs : stage[r] \in {"running", "draining", "judged"}
EveryExecutionEnds == Underway ~> (~Underway \/ (\E r \in Runs : Overlooked(r)) \/ [](others = "holding"))
=============================================================================
