---------------------------- MODULE EvidenceWrite ----------------------------
(***************************************************************************)
(* How Evidence comes to be and how it ends.  A Run that is over proposes  *)
(* Evidence in its Agent's outbox file; processOutbox takes the entries    *)
(* one by one through createEvidence, which reads the store and the cited  *)
(* source, appends a pointer, verifies the citation, commits Citation and  *)
(* Evidence together and audits them.  When the file has been taken away   *)
(* the entries that were rejected are reported, one by one.  Meanwhile     *)
(* requests supersede, revoke or compromise Evidence, sources change,      *)
(* writes fail and the server dies.  All changes of the store wait in one  *)
(* queue of mutations, and it has been read once before the first of them  *)
(* (JsonFileState has what may happen otherwise).                          *)
(*                                                                         *)
(* An Agent has one Run at a time here.  What a Run reads of an immutable  *)
(* record (a contributor's level, a pointer) is read in one step with what *)
(* follows it.  A path that is unsafe, missing, binary or too large is     *)
(* NoFile; a quotation is a property of the content it is looked for in.   *)
(***************************************************************************)
EXTENDS Naturals, FiniteSets, SequencesExt

CONSTANTS
    Agents, Clients, Runs,
    Claims,            \* what is proposed; each is written to an outbox once
    Levels,            \* CLASSIFICATION_ORDER
    Unclassified,      \* a level that is none: the entry breaks the schema
    Contents, NoFile,  \* of the file an Agent cites
    Quotable,          \* the contents in which its quotations are found
    None,              \* no Evidence, or an id that names none
    Relations,         \* which of "derive" and "replace" entries make use of
    MaxEntries,        \* bound: entries of an outbox
    MaxChanges,        \* bound: changes of a source
    MaxRequests,       \* bound: requests
    MaxClock,          \* bound: the clock, and what it ends at
    MaxStoreFaults, MaxAuditFaults,  \* bounds: writes that fail
    MaxCrashes         \* bound: how often the server dies

Ids == Claims \X Runs

ASSUME IdsAssumption == None \notin Ids /\ Agents \cap Clients = {}
ASSUME AgentsAssumption == IsFiniteSet(Agents)
ASSUME DataAssumption ==
    /\ Levels \subseteq Nat
    /\ Unclassified \in Nat \ Levels
    /\ NoFile \notin Contents
    /\ Quotable \subseteq Contents
ASSUME BoundsAssumption ==
    /\ Relations \subseteq {"derive", "replace"}
    /\ MaxEntries \in Nat
    /\ MaxChanges \in Nat
    /\ MaxRequests \in Nat
    /\ MaxClock \in Nat
    /\ MaxStoreFaults \in Nat
    /\ MaxAuditFaults \in Nat
    /\ MaxCrashes \in Nat

VARIABLES
    evidence,   \* evidence-store.json: the versions of all Evidence
    pointers,   \* the source pointers minted
    citations,  \* the citations, each with its Evidence
    audited,    \* versions whose event is in the ledger
    source,     \* Agent -> content of the file it cites
    outbox,     \* Agent -> entries of its outbox file, << >> if there is none
    broken,     \* Agents whose outbox file has no such entries
    processed,  \* entries of the renamed outboxes, with the Run that read them
    refused,    \* entries reported as rejected, in the ledger
    queue,      \* who waits in JsonFileState.queue, in order
    stage,      \* where processOutbox stands for an Agent
    run,        \* the Run it works for
    at,         \* the entry it is at
    rejected,   \* those it has rejected, and not reported
    seen,       \* the content createEvidence has read
    stamp,      \* its `now`
    used,       \* Runs that are over
    phase,      \* where a Client's request stands
    request,    \* what it asks for
    changes, requests, clock, storeFaults, auditFaults, crashes

store  == <<evidence, pointers, citations>>
files  == <<outbox, broken, processed, refused>>
locals == <<run, at, rejected, seen, stamp, used>>
client == <<phase, request, requests>>
faults == <<storeFaults, auditFaults, crashes>>
env    == <<source, changes, clock>>
vars   == <<store, audited, files, queue, stage, locals, client, env, faults>>

Statuses == {"ACTIVE", "SUPERSEDED", "REVOKED", "COMPROMISED"}
Open     == MaxClock + 1   \* txClosedAt of a version that is current
Times    == 0 .. MaxClock
Pointers == [agent : Agents, contentHash : Contents]
Entries  == [claim : Claims, level : Levels \cup {Unclassified},
             contributors : SUBSET (Ids \cup {None}), replaces : Ids \cup {None}]
Versions == [id : Ids, version : Nat, status : Statuses, level : Levels,
             contributors : SUBSET (Ids \cup {None}), replaces : Ids \cup {None},
             pointer : Pointers, recordedAt : Times, closedAt : Times \cup {Open}]
Queued == {"pointing", "committing", "closing"}
Stages == {"idle", "entry", "reading", "targeting", "verifying", "auditing", "reporting"} \cup Queued
Ops    == {"supersede", "revoke", "compromise"}
NoRequest == [op |-> "none", id |-> None]

TypeOK ==
    /\ evidence \in SUBSET Versions
    /\ pointers \in SUBSET Pointers
    /\ citations \in SUBSET (Ids \X Pointers)
    /\ audited \in SUBSET (Ids \X Nat)
    /\ source \in [Agents -> Contents \cup {NoFile}]
    /\ outbox \in [Agents -> Seq(Entries)]
    /\ broken \in SUBSET Agents
    /\ processed \in SUBSET Ids
    /\ refused \in SUBSET Ids
    /\ queue \in Seq(Agents \cup Clients)
    /\ stage \in [Agents -> Stages]
    /\ run \in [Agents -> Runs \cup {None}]
    /\ at \in [Agents -> Nat \ {0}]
    /\ rejected \in [Agents -> Seq(Ids)]
    /\ seen \in [Agents -> Contents \cup {NoFile}]
    /\ stamp \in [Agents -> Times]
    /\ used \in SUBSET Runs
    /\ phase \in [Clients -> {"idle", "queued", "governing"}]
    /\ request \in [Clients -> [op : Ops \cup {"none"}, id : Ids \cup {None}]]
    /\ changes \in 0 .. MaxChanges
    /\ requests \in 0 .. MaxRequests
    /\ clock \in Times
    /\ storeFaults \in 0 .. MaxStoreFaults
    /\ auditFaults \in 0 .. MaxAuditFaults
    /\ crashes \in 0 .. MaxCrashes

Init ==
    /\ evidence = {} /\ pointers = {} /\ citations = {} /\ audited = {}
    /\ source \in [Agents -> Contents]
    /\ outbox = [a \in Agents |-> << >>]
    /\ broken = {} /\ processed = {} /\ refused = {}
    /\ queue = << >>
    /\ stage = [a \in Agents |-> "idle"]
    /\ run = [a \in Agents |-> None]
    /\ at = [a \in Agents |-> 1]
    /\ rejected = [a \in Agents |-> << >>]
    /\ seen = [a \in Agents |-> NoFile]
    /\ stamp = [a \in Agents |-> 0]
    /\ used = {}
    /\ phase = [c \in Clients |-> "idle"]
    /\ request = [c \in Clients |-> NoRequest]
    /\ changes = 0 /\ requests = 0 /\ clock = 0
    /\ storeFaults = 0 /\ auditFaults = 0 /\ crashes = 0

(***************************************************************************)
(* The store.                                                              *)
(***************************************************************************)
Enqueue(x) == queue' = Append(queue, x)
InTurn(x)  == queue # << >> /\ Head(queue) = x
Dequeue    == queue' = Tail(queue)

\* The queue goes on after a mutation that rejects.  Mutant: it does not.
SkipRejected_Poisoned == UNCHANGED queue
SkipRejected == Dequeue

Known(e) == \E v \in evidence : v.id = e

\* highestVersion
Current(e) ==
    CHOOSE v \in evidence : v.id = e /\ \A w \in evidence : w.id = e => w.version <= v.version

MayTransition(e, required) ==
    /\ Known(e)
    /\ Current(e).closedAt = Open
    /\ Current(e).status \in required

\* transitionEvidence: the current version is closed and its successor appended.
\* Mutants: the successor takes its place; the successor keeps the old times.
Transition_InPlace(e, status) ==
    evidence' = (evidence \ {Current(e)}) \cup
                {[Current(e) EXCEPT !.version = @ + 1, !.status = status, !.recordedAt = clock]}
Transition_KeepsTime(e, status) ==
    evidence' = (evidence \ {Current(e)}) \cup
                {[Current(e) EXCEPT !.closedAt = clock],
                 [Current(e) EXCEPT !.version = @ + 1, !.status = status]}
Transition(e, status) ==
    evidence' = (evidence \ {Current(e)}) \cup
                {[Current(e) EXCEPT !.closedAt = clock],
                 [Current(e) EXCEPT !.version = @ + 1, !.status = status, !.recordedAt = clock]}

(***************************************************************************)
(* The Agents: they write an outbox while their Run executes, naming       *)
(* Evidence they know of.  Anybody may change a cited file.                *)
(***************************************************************************)
Fresh(claim) ==
    /\ \A r \in Runs : <<claim, r>> \notin processed
    /\ \A a \in Agents : \A i \in DOMAIN outbox[a] : outbox[a][i].claim # claim

KnownIds == {v.id : v \in evidence} \cup {None}
Contributors == IF "derive" \in Relations THEN SUBSET KnownIds ELSE {{}}
Replaceable  == IF "replace" \in Relations THEN KnownIds ELSE {None}

Propose(a) ==
    /\ stage[a] = "idle" /\ used # Runs
    /\ Len(outbox[a]) < MaxEntries
    /\ \E claim \in Claims, level \in Levels \cup {Unclassified},
          contributors \in Contributors, replaces \in Replaceable :
           /\ Fresh(claim)
           /\ outbox' = [outbox EXCEPT ![a] =
                  Append(@, [claim |-> claim, level |-> level,
                             contributors |-> contributors, replaces |-> replaces])]
    /\ broken' = broken \ {a}
    /\ UNCHANGED <<store, audited, processed, refused, queue, stage, locals, client, env,
                   faults>>

WriteBroken(a) ==
    /\ stage[a] = "idle" /\ used # Runs
    /\ outbox[a] = << >>
    /\ broken' = broken \cup {a}
    /\ UNCHANGED <<store, audited, outbox, processed, refused, queue, stage, locals, client,
                   env, faults>>

ChangeSource(a) ==
    /\ changes < MaxChanges
    /\ changes' = changes + 1
    /\ \E content \in Contents \cup {NoFile} : source' = [source EXCEPT ![a] = content]
    /\ UNCHANGED <<store, audited, files, queue, stage, locals, client, clock, faults>>

Tick ==
    /\ clock < MaxClock
    /\ clock' = clock + 1
    /\ UNCHANGED <<store, audited, files, queue, stage, locals, client, source, changes, faults>>

(***************************************************************************)
(* processOutbox and, for each entry, createEvidence.                      *)
(***************************************************************************)
Goto(a, next) == stage' = [stage EXCEPT ![a] = next]
Entry(a) == outbox[a][at[a]]
NewId(a) == <<Entry(a).claim, run[a]>>

\* The locals of createEvidence, and those of processOutbox, are no more.
Forget(a) ==
    /\ seen' = [seen EXCEPT ![a] = NoFile]
    /\ stamp' = [stamp EXCEPT ![a] = 0]

Return(a) ==
    /\ Goto(a, "idle")
    /\ run' = [run EXCEPT ![a] = None]
    /\ at' = [at EXCEPT ![a] = 1]
    /\ rejected' = [rejected EXCEPT ![a] = << >>]
    /\ Forget(a)

NextEntry(a) ==
    /\ Goto(a, "entry")
    /\ at' = [at EXCEPT ![a] = @ + 1]
    /\ Forget(a)

\* createEvidence returns a reason.  When it throws, processOutbox does.
\* Mutant: the Run is forgotten.
Refuse_WithoutRun(a) ==
    /\ rejected' = [rejected EXCEPT ![a] = Append(@, <<Entry(a).claim, None>>)]
    /\ NextEntry(a)
Refuse(a) ==
    /\ rejected' = [rejected EXCEPT ![a] = Append(@, NewId(a))]
    /\ NextEntry(a)

\* All entries have been dealt with.  Mutant: all but the last.
Done_ButLast(a) == at[a] >= Len(outbox[a])
Done(a) == at[a] > Len(outbox[a])

Ingest(a, r) ==
    /\ stage[a] = "idle" /\ r \notin used
    /\ used' = used \cup {r}
    /\ \/ /\ a \in broken
          /\ UNCHANGED <<stage, run>>
       \/ /\ a \notin broken /\ outbox[a] # << >>
          /\ Goto(a, "entry")
          /\ run' = [run EXCEPT ![a] = r]
    /\ UNCHANGED <<store, audited, files, queue, at, rejected, seen, stamp, client, env, faults>>

\* The schema, and that every contributor exists.
CheckEntry(a) ==
    /\ stage[a] = "entry" /\ ~Done(a)
    /\ \/ /\ Entry(a).level = Unclassified \/ \E e \in Entry(a).contributors : ~Known(e)
          /\ Refuse(a)
       \/ /\ Entry(a).level # Unclassified /\ \A e \in Entry(a).contributors : Known(e)
          /\ Goto(a, "reading")
          /\ UNCHANGED <<at, seen, stamp, rejected>>
    /\ UNCHANGED <<store, audited, files, queue, run, used, client, env, faults>>

\* Mutant: the levels are compared the wrong way round.
Weaker_Reversed(entry) == \E e \in entry.contributors : Current(e).level < entry.level
Weaker(entry) == \E e \in entry.contributors : Current(e).level > entry.level

\* The checks are over: the pointer to the content read is minted.
Mint(a, content) ==
    /\ Goto(a, "pointing")
    /\ seen' = [seen EXCEPT ![a] = content]
    /\ stamp' = [stamp EXCEPT ![a] = clock]
    /\ Enqueue(a)
    /\ UNCHANGED <<rejected, at>>

ReadSource(a) ==
    /\ stage[a] = "reading"
    /\ \/ /\ source[a] = NoFile \/ Weaker(Entry(a))
          /\ Refuse(a)
          /\ UNCHANGED queue
       \/ /\ source[a] # NoFile /\ ~Weaker(Entry(a))
          /\ Entry(a).replaces # None
          /\ Goto(a, "targeting")
          /\ seen' = [seen EXCEPT ![a] = source[a]]
          /\ UNCHANGED <<stamp, queue, rejected, at>>
       \/ /\ source[a] # NoFile /\ ~Weaker(Entry(a))
          /\ Entry(a).replaces = None
          /\ Mint(a, source[a])
    /\ UNCHANGED <<store, audited, files, run, used, client, env, faults>>

CheckTarget(a) ==
    /\ stage[a] = "targeting"
    /\ LET e == Entry(a).replaces
       IN  \/ /\ ~Known(e) \/ Current(e).status # "ACTIVE"
              /\ Refuse(a)
              /\ UNCHANGED queue
           \/ /\ Known(e) /\ Current(e).status = "ACTIVE"
              /\ Mint(a, seen[a])
    /\ UNCHANGED <<store, audited, files, run, used, client, env, faults>>

Pointer(a) == [agent |-> a, contentHash |-> seen[a]]

AppendPointer(a) ==
    /\ InTurn(a) /\ stage[a] = "pointing"
    /\ pointers' = pointers \cup {Pointer(a)}
    /\ Goto(a, "verifying")
    /\ Dequeue
    /\ UNCHANGED <<evidence, citations, audited, files, locals, client, env, faults>>

\* CitationVerifier.verify reads the source again.  Mutant: a source that has
\* changed is not told from the one the pointer was minted for.
Verified_DriftUnseen(a) == source[a] # NoFile /\ source[a] \in Quotable
Verified(a) ==
    /\ source[a] # NoFile
    /\ source[a] = Pointer(a).contentHash
    /\ source[a] \in Quotable

VerifyCitation(a) ==
    /\ stage[a] = "verifying"
    /\ \/ /\ Verified(a)
          /\ Goto(a, "committing")
          /\ Enqueue(a)
          /\ UNCHANGED <<rejected, at, seen, stamp>>
       \/ /\ ~Verified(a)
          /\ Refuse(a)
          /\ UNCHANGED queue
    /\ UNCHANGED <<store, audited, files, run, used, client, env, faults>>

\* appendVerifiedEvidence: both records in one mutation.
Commit(a) ==
    /\ InTurn(a) /\ stage[a] = "committing"
    /\ evidence' = evidence \cup
           {[id |-> NewId(a), version |-> 1, status |-> "ACTIVE", level |-> Entry(a).level,
             contributors |-> Entry(a).contributors, replaces |-> Entry(a).replaces,
             pointer |-> Pointer(a), recordedAt |-> stamp[a], closedAt |-> Open]}
    /\ citations' = citations \cup {<<NewId(a), Pointer(a)>>}
    /\ Goto(a, "auditing")
    /\ Dequeue
    /\ UNCHANGED <<pointers, audited, files, locals, client, env, faults>>

Audit(a) ==
    /\ stage[a] = "auditing"
    /\ audited' = audited \cup {<<NewId(a), 1>>}
    /\ NextEntry(a)
    /\ UNCHANGED <<store, files, queue, run, rejected, used, client, env, faults>>

\* The ledger refuses evidence.created: the Evidence is to be withdrawn.
AuditFails(a) ==
    /\ stage[a] = "auditing"
    /\ auditFaults < MaxAuditFaults
    /\ auditFaults' = auditFaults + 1
    /\ Goto(a, "closing")
    /\ Enqueue(a)
    /\ UNCHANGED <<store, audited, files, locals, client, env, storeFaults, crashes>>

\* Mutant: the failure is passed on and the Evidence left as it is.
FailClosed_NotAtAll(a) == UNCHANGED evidence
FailClosed(a) ==
    \/ MayTransition(NewId(a), {"ACTIVE"}) /\ Transition(NewId(a), "COMPROMISED")
    \/ ~MayTransition(NewId(a), {"ACTIVE"}) /\ UNCHANGED evidence

Withdraw(a) ==
    /\ InTurn(a) /\ stage[a] = "closing"
    /\ FailClosed(a)
    /\ Return(a)
    /\ Dequeue
    /\ UNCHANGED <<pointers, citations, audited, files, used, client, env, faults>>

\* Mutant: the outbox stays.
TakeAway_Left(a) == UNCHANGED outbox
TakeAway(a) == outbox' = [outbox EXCEPT ![a] = << >>]

\* The outbox is renamed, and processOutbox returns what it has rejected.
Rename(a) ==
    /\ stage[a] = "entry" /\ Done(a)
    /\ processed' = processed \cup
           {<<outbox[a][i].claim, run[a]>> : i \in DOMAIN outbox[a]}
    /\ TakeAway(a)
    /\ \/ /\ rejected[a] = << >>
          /\ Return(a)
       \/ /\ rejected[a] # << >>
          /\ Goto(a, "reporting")
          /\ at' = [at EXCEPT ![a] = 1]
          /\ UNCHANGED <<run, rejected, seen, stamp>>
    /\ UNCHANGED <<store, audited, broken, refused, queue, used, client, env, faults>>

\* AgentService appends evidence.proposal_rejected for each of them.
Report(a) ==
    /\ stage[a] = "reporting"
    /\ refused' = refused \cup {Head(rejected[a])}
    /\ \/ /\ Tail(rejected[a]) = << >>
          /\ Return(a)
       \/ /\ Tail(rejected[a]) # << >>
          /\ rejected' = [rejected EXCEPT ![a] = Tail(@)]
          /\ UNCHANGED <<stage, run, at, seen, stamp>>
    /\ UNCHANGED <<store, audited, outbox, broken, processed, queue, used, client, env, faults>>

\* One of these is refused, and the rest is not tried.
ReportFails(a) ==
    /\ stage[a] = "reporting"
    /\ auditFaults < MaxAuditFaults
    /\ auditFaults' = auditFaults + 1
    /\ Return(a)
    /\ UNCHANGED <<store, audited, files, queue, used, client, env, storeFaults, crashes>>

(***************************************************************************)
(* Requests: supersede, revoke and compromise.                             *)
(***************************************************************************)
\* Only supersede reads anything before its mutation: the replacement.
\* Mutant: not that it declares what it replaces.
Declared_Exists(e) == \E v \in evidence : v.id # e
Declared(e) == \E v \in evidence : v.replaces = e

Ask(c, op, e) ==
    /\ phase[c] = "idle"
    /\ requests < MaxRequests
    /\ requests' = requests + 1
    /\ op = "supersede" => e # None /\ Declared(e)
    /\ phase' = [phase EXCEPT ![c] = "queued"]
    /\ request' = [request EXCEPT ![c] = [op |-> op, id |-> e]]
    /\ Enqueue(c)
    /\ UNCHANGED <<store, audited, files, stage, locals, env, faults>>

\* Mutant: supersede does not insist on ACTIVE.
Required_Any(op) == Statuses
Required(op) == IF op = "supersede" THEN {"ACTIVE"} ELSE Statuses

Becomes(op) == CASE op = "supersede"  -> "SUPERSEDED"
                 [] op = "revoke"     -> "REVOKED"
                 [] op = "compromise" -> "COMPROMISED"

Answer(c) ==
    /\ phase' = [phase EXCEPT ![c] = "idle"]
    /\ request' = [request EXCEPT ![c] = NoRequest]
    /\ UNCHANGED requests

Grant(c) ==
    LET e == request[c].id
    IN  /\ InTurn(c) /\ phase[c] = "queued"
        /\ MayTransition(e, Required(request[c].op))
        /\ Transition(e, Becomes(request[c].op))
        /\ phase' = [phase EXCEPT ![c] = "governing"]
        /\ Dequeue
        /\ UNCHANGED <<pointers, citations, audited, files, stage, locals, request, requests, env, faults>>

Deny(c) ==
    /\ InTurn(c) /\ phase[c] = "queued"
    /\ ~MayTransition(request[c].id, Required(request[c].op))
    /\ Answer(c)
    /\ SkipRejected
    /\ UNCHANGED <<store, audited, files, stage, locals, env, faults>>

\* The governance chain gets evidence.superseded, .revoked or .compromised.
Govern(c) ==
    /\ phase[c] = "governing"
    /\ audited' = audited \cup {<<request[c].id, Current(request[c].id).version>>}
    /\ Answer(c)
    /\ UNCHANGED <<store, files, queue, stage, locals, env, faults>>

GovernFails(c) ==
    /\ phase[c] = "governing"
    /\ auditFaults < MaxAuditFaults
    /\ auditFaults' = auditFaults + 1
    /\ Answer(c)
    /\ UNCHANGED <<store, audited, files, queue, stage, locals, env, storeFaults,
                   crashes>>

(***************************************************************************)
(* Faults of the disk and of the process.                                  *)
(***************************************************************************)
DiskFails ==
    /\ storeFaults < MaxStoreFaults
    /\ storeFaults' = storeFaults + 1
    /\ UNCHANGED <<store, audited, files, used, env, auditFaults, crashes>>

\* The persist of the mutation at the head of the queue fails.
PersistFails(a) ==
    /\ DiskFails
    /\ InTurn(a) /\ stage[a] \in Queued
    /\ Return(a)
    /\ SkipRejected
    /\ UNCHANGED client

RenameFails(a) ==
    /\ DiskFails
    /\ stage[a] = "entry" /\ Done(a)
    /\ Return(a)
    /\ UNCHANGED <<queue, client>>

PersistFailsForRequest(c) ==
    /\ DiskFails
    /\ InTurn(c) /\ MayTransition(request[c].id, Required(request[c].op))
    /\ Answer(c)
    /\ SkipRejected
    /\ UNCHANGED <<stage, run, at, rejected, seen, stamp>>

\* The server dies and is started again: files are all that is left.
Crash ==
    /\ crashes < MaxCrashes
    /\ crashes' = crashes + 1
    /\ queue' = << >>
    /\ stage' = [a \in Agents |-> "idle"]
    /\ run' = [a \in Agents |-> None]
    /\ at' = [a \in Agents |-> 1]
    /\ rejected' = [a \in Agents |-> << >>]
    /\ seen' = [a \in Agents |-> NoFile]
    /\ stamp' = [a \in Agents |-> 0]
    /\ phase' = [c \in Clients |-> "idle"]
    /\ request' = [c \in Clients |-> NoRequest]
    /\ UNCHANGED <<store, audited, files, used, requests, env, storeFaults, auditFaults>>

Begin(a) == Propose(a) \/ WriteBroken(a) \/ \E r \in Runs : Ingest(a, r)

AgentStep(a) ==
    \/ CheckEntry(a) \/ ReadSource(a) \/ CheckTarget(a) \/ AppendPointer(a)
    \/ VerifyCitation(a) \/ Commit(a) \/ Audit(a) \/ Withdraw(a) \/ Rename(a)
    \/ Report(a)

ClientStep(c) == Grant(c) \/ Deny(c) \/ Govern(c)

Fault ==
    \/ \E a \in Agents : AuditFails(a) \/ PersistFails(a) \/ RenameFails(a) \/ ReportFails(a)
    \/ \E c \in Clients : GovernFails(c) \/ PersistFailsForRequest(c)
    \/ Crash

Next ==
    \/ \E a \in Agents : Begin(a) \/ AgentStep(a) \/ ChangeSource(a)
    \/ \E c \in Clients : ClientStep(c) \/ \E op \in Ops, e \in KnownIds : Ask(c, op, e)
    \/ Tick
    \/ Fault

Spec == Init /\ [][Next]_vars

\* The event loop runs every continuation that is due.
FairSpec ==
    /\ Spec
    /\ \A a \in Agents : WF_vars(AgentStep(a))
    /\ \A c \in Clients : WF_vars(ClientStep(c))

(***************************************************************************)
(* Properties.                                                             *)
(***************************************************************************)
\* INV-4/INV-5: Evidence has its citation and its pointer in the store, a citation
\* has its Evidence, and the quotation is in the content the pointer stands for,
\* although that was read before the citation was verified.
ProvenanceVerified ==
    /\ \A v \in evidence : /\ <<v.id, v.pointer>> \in citations
                           /\ v.pointer \in pointers
                           /\ v.pointer.contentHash \in Quotable
    /\ \A k \in citations : Known(k[1])

\* INV-6: Evidence is classified at least as high as all it is derived from, which
\* itself may have been derived, ended or withdrawn in the meantime.
ClassificationMonotone ==
    \A v, w \in evidence : w.id \in v.contributors => w.level <= v.level

\* A version is known from when it was recorded until it was closed.
KnownAt(e, t) == {v \in evidence : v.id = e /\ v.recordedAt <= t /\ t < v.closedAt}

\* Of all the versions of Evidence, one is known at any time since the first was
\* recorded: transitions leave no gap and no overlap.
OneVersionKnown ==
    \A v \in evidence : \A t \in v.recordedAt .. MaxClock :
        \E w \in KnownAt(v.id, t) : KnownAt(v.id, t) = {w}

\* INV-9: nothing is deleted and nothing rewritten; all that ever happens to a
\* version is that it is closed, once.
HistoryKept ==
    [][\A v \in evidence :
           \/ v \in evidence'
           \/ v.closedAt = Open /\ [v EXCEPT !.closedAt = clock] \in evidence']_vars

\* INV-8, at the source: what was revoked or compromised is never ACTIVE again, nor
\* taken for merely superseded, by whatever was under way when it was.
Invalid(e) == Known(e) /\ Current(e).status \in {"REVOKED", "COMPROMISED"}
InvalidStaysInvalid == [][\A e \in Ids : Invalid(e) => Invalid(e)']_vars

\* createEvidence commits Evidence before the ledger has heard of it, and nothing looks
\* for it on the next start: Evidence that can be used, is not in the audit ledger and
\* is nobody's concern any more.
Usable(e)   == Known(e) /\ Current(e).status = "ACTIVE"
Attended(e) == \E a \in Agents : stage[a] \in {"auditing", "closing"} /\ NewId(a) = e
Stranded    == {e \in Ids : Usable(e) /\ <<e, 1>> \notin audited /\ ~Attended(e)}

\* There is none as long as the server lives and the store can be written, whatever the
\* ledger refuses; a crash leaves at most one of each Agent, and a failing write one
\* if the ledger had refused it before.
UsableIsAudited ==
    \E unwritten \in 0 .. storeFaults :
        /\ unwritten <= auditFaults
        /\ Cardinality(Stranded) <= crashes * Cardinality(Agents) + unwritten

\* Superseded Evidence has a replacement that declares it.
SupersededHasReplacement ==
    \A v \in evidence : v.status = "SUPERSEDED" => \E w \in evidence : w.replaces = v.id

\* outbox.ts: the file is renamed "so a restart never double-ingests": what was
\* proposed once becomes Evidence once.
IngestedOnce == \A v, w \in evidence : v.id[1] = w.id[1] => v.id = w.id

\* Refusals, failing citations and requests that interfere leave no outbox behind: what
\* was proposed becomes Evidence again only as often as a write failed or the server
\* died.
RepeatsAreFaults ==
    \A claim \in Claims :
        Cardinality({e \in Ids : Known(e) /\ e[1] = claim})
            <= 1 + storeFaults + auditFaults + crashes

\* What became of the entries of an outbox that was taken away: none is both Evidence and
\* rejected, and one that is neither Evidence nor reported as rejected is about to be
\* reported; or its report is lost, with those of its Run that were to follow, as only a
\* refusal of the ledger or a crash may have it: one Run for each refusal, and of each Agent
\* one for each crash.
ToReport    == UNION {Range(rejected[a]) : a \in Agents}
Unreported  == {id \in processed : ~Known(id) /\ id \notin refused \cup ToReport}
ProcessedIsSettled ==
    /\ \A id \in processed : Known(id) => id \notin refused \cup ToReport
    /\ Cardinality({id[2] : id \in Unreported}) <= auditFaults + crashes * Cardinality(Agents)

\* Every outbox that is being read and every request comes to an end.
EverythingEnds ==
    /\ \A a \in Agents : stage[a] # "idle" ~> stage[a] = "idle"
    /\ \A c \in Clients : phase[c] # "idle" ~> phase[c] = "idle"

(***************************************************************************)
(* EvidenceStore, as the broker and the recovery of Runs rely on it: of    *)
(* all the versions of Evidence they see the status of the latest.         *)
(***************************************************************************)
StatusNow  == [e \in Ids |-> IF Known(e) THEN Current(e).status ELSE "none"]
DerivedNow == [e \in Ids |-> IF Known(e) THEN Current(e).contributors ELSE {}]

Promise == INSTANCE EvidenceStore WITH
               Evidence <- Ids, Existing <- {}, status <- StatusNow, derived <- DerivedNow

\* createEvidence, transitionEvidence and the queue of mutations keep that promise
\* whatever they interleave with, fails or crashes: Evidence is committed once, derived
\* from Evidence in the store, and nothing revives or rededicates it.
RefinesStore == Promise!Spec
=============================================================================
