------------------------- MODULE EvidenceWriteProofs -------------------------
(***************************************************************************)
(* Proofs about EvidenceWrite, for any number of Agents, Clients, Runs,    *)
(* claims, levels and contents, any bounds, and with or without crashes.   *)
(***************************************************************************)
EXTENDS EvidenceWrite, FiniteSetTheorems, TLAPS

\* Every group of variables and every helper with a mutant.
USE DEF store, files, locals, client, faults, env, vars, SkipRejected

\* The queue of mutations stays a sequence of actors.
LEMMA QueueTyping ==
    ASSUME TypeOK, NEW x \in Agents \cup Clients
    PROVE  /\ Append(queue, x) \in Seq(Agents \cup Clients)
           /\ queue # << >> => Tail(queue) \in Seq(Agents \cup Clients)
<1>1. queue \in Seq(Agents \cup Clients)
  BY DEF TypeOK
<1> QED BY <1>1

\* From the moment the source is read until the entry is settled, createEvidence
\* has the content it read.
Holding == {"targeting", "pointing", "verifying", "committing", "auditing", "closing"}

\* Where processOutbox stands: it works for a Run, at an entry of the outbox that
\* passed the schema, with a content it read, or has something left to report.
LocatedAt(a) ==
    /\ stage[a] # "idle" => run[a] \in Runs
    /\ stage[a] \notin {"idle", "entry", "reporting"} =>
           at[a] \in DOMAIN outbox[a] /\ Entry(a).level \in Levels
    /\ stage[a] = "reporting" => rejected[a] # << >> /\ outbox[a] = << >>
    /\ stage[a] \in Holding => seen[a] \in Contents

Located == \A a \in Agents : LocatedAt(a)

\* A request under way asks for something, and once it was granted the Evidence
\* it is about exists.
RequestsTyped ==
    \A c \in Clients :
        /\ phase[c] # "idle" => request[c].op \in Ops
        /\ phase[c] = "governing" => Known(request[c].id)

\* Of all the versions of Evidence one is the latest.
Topped ==
    \A v \in evidence : \E w \in evidence :
        w.id = v.id /\ \A u \in evidence : u.id = v.id => u.version <= w.version

Typed == TypeOK /\ Located /\ RequestsTyped /\ Topped

\* highestVersion finds a version of what it is asked for, and none is later.
LEMMA CurrentVersion ==
    ASSUME Topped, NEW e, Known(e)
    PROVE  /\ Current(e) \in evidence
           /\ Current(e).id = e
           /\ \A w \in evidence : w.id = e => w.version <= Current(e).version
<1>1. \E v \in evidence : v.id = e /\ \A w \in evidence : w.id = e => w.version <= v.version
  BY DEF Topped, Known
<1> QED BY <1>1 DEF Current

\* The entry at hand, while there is one.
LEMMA EntryTyping ==
    ASSUME TypeOK, NEW a \in Agents, at[a] \in DOMAIN outbox[a]
    PROVE  /\ Entry(a) \in Entries
           /\ Entry(a).claim \in Claims
           /\ run[a] \in Runs => NewId(a) \in Ids
<1>1. Entry(a) \in Entries
  BY DEF TypeOK, Entry
<1> QED BY <1>1 DEF Entries, NewId, Ids

\* An outbox that is not done has an entry at hand.
LEMMA EntryAtHand ==
    ASSUME TypeOK, NEW a \in Agents, ~Done(a)
    PROVE  at[a] \in DOMAIN outbox[a]
<1>1. at[a] \in Nat \ {0} /\ outbox[a] \in Seq(Entries)
  BY DEF TypeOK
<1> QED BY <1>1 DEF Done

\* A transition writes versions.
LEMMA TransitionTyping ==
    ASSUME TypeOK, Topped, NEW e, NEW status \in Statuses, Known(e), Transition(e, status)
    PROVE  evidence' \in SUBSET Versions
<1>1. Current(e) \in Versions
  BY CurrentVersion DEF TypeOK
<1>2. [Current(e) EXCEPT !.closedAt = clock] \in Versions
  BY <1>1 DEF TypeOK, Versions
<1>3. [Current(e) EXCEPT !.version = @ + 1, !.status = status, !.recordedAt = clock] \in Versions
  <2>1. Current(e).version + 1 \in Nat /\ clock \in Times
    BY <1>1 DEF TypeOK, Versions
  <2> QED BY <1>1, <2>1 DEF Versions
<1>4. evidence \subseteq Versions
  BY DEF TypeOK
<1> QED BY <1>2, <1>3, <1>4 DEF Transition

\* The initial state is typed.
LEMMA TypedInit == Init => Typed
  BY IdsAssumption, BoundsAssumption
  DEF Init, Typed, TypeOK, Located, LocatedAt, RequestsTyped, Topped, Times, Open, Stages, Holding,
      NoRequest, Ops

\* What processOutbox forgets when it leaves an entry.
LEMMA ForgetTyping ==
    ASSUME TypeOK, NEW a \in Agents, Forget(a)
    PROVE  seen' \in [Agents -> Contents \cup {NoFile}] /\ stamp' \in [Agents -> Times]
  BY BoundsAssumption DEF TypeOK, Forget, Times

\* Leaving an entry, or the outbox, keeps the locals' types.
LEMMA LeaveTyping ==
    ASSUME TypeOK, NEW a \in Agents, NextEntry(a) \/ Return(a)
    PROVE  /\ stage' \in [Agents -> Stages]
           /\ at' \in [Agents -> Nat \ {0}]
           /\ seen' \in [Agents -> Contents \cup {NoFile}]
           /\ stamp' \in [Agents -> Times]
           /\ Return(a) => /\ run' \in [Agents -> Runs \cup {None}]
                           /\ rejected' \in [Agents -> Seq(Ids)]
<1>1. Forget(a)
  BY DEF NextEntry, Return
<1>2. /\ stage \in [Agents -> Stages] /\ {"entry", "idle"} \subseteq Stages
      /\ at \in [Agents -> Nat \ {0}] /\ at[a] + 1 \in Nat \ {0} /\ 1 \in Nat \ {0}
  BY DEF TypeOK, Stages
<1>3. Return(a) => /\ run' \in [Agents -> Runs \cup {None}]
                   /\ rejected' \in [Agents -> Seq(Ids)]
  <2>1. run \in [Agents -> Runs \cup {None}] /\ rejected \in [Agents -> Seq(Ids)]
    BY DEF TypeOK
  <2>2. << >> \in Seq(Ids)
    OBVIOUS
  <2> QED BY <2>1, <2>2 DEF Return
<1>4. stage' \in [Agents -> Stages] /\ at' \in [Agents -> Nat \ {0}]
  BY <1>2 DEF NextEntry, Return, Goto
<1> QED BY <1>1, <1>3, <1>4, ForgetTyping

\* What stays of the store, the files and the queue when processOutbox moves on.
LEMMA TypeEntryStep ==
    ASSUME Typed, NEW a \in Agents,
           CheckEntry(a) \/ ReadSource(a) \/ CheckTarget(a) \/ VerifyCitation(a)
    PROVE  TypeOK'
<1>1. /\ run[a] \in Runs /\ at[a] \in DOMAIN outbox[a] /\ NewId(a) \in Ids
      /\ seen[a] \in Contents \cup {NoFile} /\ source[a] \in Contents \cup {NoFile}
  <2>1. run[a] \in Runs /\ at[a] \in DOMAIN outbox[a]
    BY EntryAtHand DEF Typed, Located, LocatedAt, CheckEntry, ReadSource, CheckTarget, VerifyCitation
  <2> QED BY <2>1, EntryTyping DEF Typed, TypeOK
<1>2. /\ rejected' \in [Agents -> Seq(Ids)]
      /\ stage' \in [Agents -> Stages]
      /\ at' \in [Agents -> Nat \ {0}]
      /\ seen' \in [Agents -> Contents \cup {NoFile}]
      /\ stamp' \in [Agents -> Times]
  <2>1. CASE Refuse(a)
    <3>1. rejected \in [Agents -> Seq(Ids)]
      BY DEF Typed, TypeOK
    <3>2. Append(rejected[a], NewId(a)) \in Seq(Ids)
      BY <1>1, <3>1
    <3>3. rejected' \in [Agents -> Seq(Ids)]
      BY <2>1, <3>1, <3>2 DEF Refuse
    <3> QED BY <2>1, <3>3, LeaveTyping DEF Typed, Refuse
  <2>2. ASSUME NEW content \in Contents \cup {NoFile}, Mint(a, content)
        PROVE  <1>2!1 /\ <1>2!2 /\ <1>2!3 /\ <1>2!4 /\ <1>2!5
    <3>1. /\ rejected \in [Agents -> Seq(Ids)] /\ stage \in [Agents -> Stages]
          /\ at \in [Agents -> Nat \ {0}] /\ seen \in [Agents -> Contents \cup {NoFile}]
          /\ stamp \in [Agents -> Times] /\ clock \in Times /\ "pointing" \in Stages
      BY DEF Typed, TypeOK, Stages, Queued
    <3> QED BY <2>2, <3>1 DEF Mint, Goto
  <2>3. CASE \/ CheckEntry(a) /\ Goto(a, "reading") /\ UNCHANGED <<at, seen, stamp, rejected>>
             \/ ReadSource(a) /\ Goto(a, "targeting") /\ seen' = [seen EXCEPT ![a] = source[a]]
                    /\ UNCHANGED <<stamp, rejected, at>>
             \/ VerifyCitation(a) /\ Goto(a, "committing")
                    /\ UNCHANGED <<rejected, at, seen, stamp>>
    BY <1>1, <2>3 DEF Typed, TypeOK, Goto, Stages, Queued
  <2>4. CASE CheckEntry(a)
    BY <2>1, <2>3, <2>4 DEF CheckEntry
  <2>5. CASE ReadSource(a)
    BY <1>1, <2>1, <2>2, <2>3, <2>5 DEF ReadSource
  <2>6. CASE CheckTarget(a)
    BY <1>1, <2>1, <2>2, <2>6 DEF CheckTarget
  <2>7. CASE VerifyCitation(a)
    BY <2>1, <2>3, <2>7 DEF VerifyCitation
  <2> QED BY <2>4, <2>5, <2>6, <2>7
<1>3. queue' \in Seq(Agents \cup Clients)
  <2>1. UNCHANGED queue \/ Enqueue(a)
    BY DEF CheckEntry, ReadSource, CheckTarget, VerifyCitation, Mint
  <2>2. queue \in Seq(Agents \cup Clients) /\ Append(queue, a) \in Seq(Agents \cup Clients)
    BY QueueTyping DEF Typed, TypeOK
  <2> QED BY <2>1, <2>2 DEF Enqueue
<1>4. UNCHANGED <<store, audited, files, run, used, client, env, faults>>
  BY DEF CheckEntry, ReadSource, CheckTarget, VerifyCitation
<1> QED BY <1>2, <1>3, <1>4 DEF Typed, TypeOK

\* The other steps of an Agent, of a request, and the faults, keep the types.
LEMMA TypeAgentStep ==
    ASSUME Typed, NEW a \in Agents,
           Begin(a) \/ ChangeSource(a) \/ AppendPointer(a) \/ Commit(a) \/ Audit(a)
           \/ Withdraw(a) \/ Rename(a) \/ Report(a)
    PROVE  TypeOK'
<1> USE DEF Typed
<1>1. InTurn(a) => queue # << >> /\ Tail(queue) \in Seq(Agents \cup Clients)
  BY QueueTyping DEF InTurn
<1>2. stage[a] \notin {"idle", "entry", "reporting"} =>
          /\ at[a] \in DOMAIN outbox[a] /\ Entry(a) \in Entries /\ NewId(a) \in Ids
          /\ Entry(a).level \in Levels
  BY EntryTyping DEF Located, LocatedAt
<1>3. stage[a] \in Holding => Pointer(a) \in Pointers
  BY DEF Located, LocatedAt, Pointer, Pointers
<1>4. CASE Propose(a)
  <2>1. PICK claim \in Claims, level \in Levels \cup {Unclassified},
             contributors \in Contributors, replaces \in Replaceable :
                 outbox' = [outbox EXCEPT ![a] =
                     Append(@, [claim |-> claim, level |-> level,
                                contributors |-> contributors, replaces |-> replaces])]
    BY <1>4 DEF Propose
  <2>2. KnownIds \subseteq Ids \cup {None}
    BY DEF KnownIds, TypeOK, Versions
  <2>3. contributors \in SUBSET (Ids \cup {None}) /\ replaces \in Ids \cup {None}
    BY <2>2 DEF Contributors, Replaceable
  <2>4. [claim |-> claim, level |-> level,
         contributors |-> contributors, replaces |-> replaces] \in Entries
    BY <2>3 DEF Entries
  <2>5. outbox' \in [Agents -> Seq(Entries)]
    <3>1. outbox \in [Agents -> Seq(Entries)]
      BY DEF TypeOK
    <3> QED BY <2>1, <2>4, <3>1
  <2> QED BY <1>4, <2>5 DEF Propose, TypeOK
<1>5. CASE WriteBroken(a)
  BY <1>5 DEF WriteBroken, TypeOK
<1>6. CASE \E r \in Runs : Ingest(a, r)
  <2>1. PICK r \in Runs : Ingest(a, r)
    BY <1>6
  <2>2. stage' \in [Agents -> Stages] /\ run' \in [Agents -> Runs \cup {None}]
    <3>1. /\ stage \in [Agents -> Stages] /\ run \in [Agents -> Runs \cup {None}]
          /\ "entry" \in Stages
      BY DEF TypeOK, Stages
    <3>2. CASE UNCHANGED <<stage, run>>
      BY <3>1, <3>2
    <3>3. CASE Goto(a, "entry") /\ run' = [run EXCEPT ![a] = r]
      BY <3>1, <3>3 DEF Goto
    <3> QED BY <2>1, <3>2, <3>3 DEF Ingest
  <2>3. used' \in SUBSET Runs
    BY <2>1 DEF Ingest, TypeOK
  <2> QED BY <2>1, <2>2, <2>3 DEF Ingest, TypeOK
<1>7. CASE ChangeSource(a)
  <2>1. changes' \in 0 .. MaxChanges
    BY <1>7, BoundsAssumption DEF ChangeSource, TypeOK
  <2> QED BY <1>7, <2>1 DEF ChangeSource, TypeOK
<1>8. CASE AppendPointer(a)
  <2>1. pointers' \in SUBSET Pointers
    BY <1>3, <1>8 DEF AppendPointer, Holding, TypeOK
  <2>2. stage' \in [Agents -> Stages]
    BY <1>8 DEF AppendPointer, Goto, Stages, TypeOK
  <2> QED BY <1>1, <1>8, <2>1, <2>2 DEF AppendPointer, Dequeue, TypeOK
<1>9. CASE Commit(a)
  <2>1. /\ Entry(a) \in Entries /\ NewId(a) \in Ids
        /\ Entry(a).level \in Levels /\ Pointer(a) \in Pointers
    BY <1>2, <1>3, <1>9 DEF Commit, Holding
  <2>2. stamp[a] \in Times /\ Open \in Times \cup {Open} /\ 1 \in Nat /\ "ACTIVE" \in Statuses
    BY DEF TypeOK, Statuses
  <2>3. [id |-> NewId(a), version |-> 1, status |-> "ACTIVE", level |-> Entry(a).level,
         contributors |-> Entry(a).contributors, replaces |-> Entry(a).replaces,
         pointer |-> Pointer(a), recordedAt |-> stamp[a], closedAt |-> Open] \in Versions
    BY <2>1, <2>2 DEF Versions, Entries
  <2>4. evidence' \in SUBSET Versions
    BY <1>9, <2>3 DEF Commit, TypeOK
  <2>5. citations' \in SUBSET (Ids \X Pointers)
    BY <1>9, <2>1 DEF Commit, TypeOK
  <2>6. stage' \in [Agents -> Stages]
    BY <1>9 DEF Commit, Goto, Stages, TypeOK
  <2> QED BY <1>1, <1>9, <2>4, <2>5, <2>6 DEF Commit, Dequeue, TypeOK
<1>10. CASE Audit(a)
  <2>1. audited' \in SUBSET (Ids \X Nat)
    BY <1>2, <1>10 DEF Audit, TypeOK
  <2> QED BY <1>10, <2>1, LeaveTyping DEF Audit, TypeOK
<1>11. CASE Withdraw(a)
  <2>1. evidence' \in SUBSET Versions
    <3>1. CASE MayTransition(NewId(a), {"ACTIVE"}) /\ Transition(NewId(a), "COMPROMISED")
      BY <3>1, TransitionTyping DEF MayTransition, Statuses
    <3> QED BY <1>11, <3>1 DEF Withdraw, FailClosed, TypeOK
  <2> QED BY <1>1, <1>11, <2>1, LeaveTyping DEF Withdraw, Dequeue, TypeOK
<1>12. CASE Rename(a)
  <2>1. processed' \in SUBSET Ids
    <3>1. run[a] \in Runs
      BY <1>12 DEF Rename, Located, LocatedAt
    <3>2. \A i \in DOMAIN outbox[a] : outbox[a][i] \in Entries
      BY DEF TypeOK
    <3>3. \A i \in DOMAIN outbox[a] : <<outbox[a][i].claim, run[a]>> \in Ids
      BY <3>1, <3>2 DEF Entries, Ids
    <3> QED BY <1>12, <3>3 DEF Rename, TypeOK
  <2>2. outbox' \in [Agents -> Seq(Entries)]
    BY <1>12 DEF Rename, TakeAway, TypeOK
  <2>3. CASE Return(a)
    BY <1>12, <2>1, <2>2, <2>3, LeaveTyping DEF Rename, TypeOK
  <2>4. CASE /\ Goto(a, "reporting") /\ at' = [at EXCEPT ![a] = 1]
             /\ UNCHANGED <<run, rejected, seen, stamp>>
    <3>1. stage' \in [Agents -> Stages] /\ at' \in [Agents -> Nat \ {0}]
      BY <2>4 DEF Goto, Stages, TypeOK
    <3> QED BY <1>12, <2>1, <2>2, <2>4, <3>1 DEF Rename, TypeOK
  <2> QED BY <1>12, <2>3, <2>4 DEF Rename
<1>13. CASE Report(a)
  <2>1. rejected \in [Agents -> Seq(Ids)] /\ rejected[a] # << >>
    BY <1>13 DEF Report, Located, LocatedAt, TypeOK
  <2>2. Head(rejected[a]) \in Ids /\ Tail(rejected[a]) \in Seq(Ids)
    BY <2>1
  <2>3. refused' \in SUBSET Ids
    BY <1>13, <2>2 DEF Report, TypeOK
  <2>4. CASE Return(a)
    BY <1>13, <2>3, <2>4, LeaveTyping DEF Report, TypeOK
  <2>5. CASE rejected' = [rejected EXCEPT ![a] = Tail(@)] /\ UNCHANGED <<stage, run, at, seen, stamp>>
    <3>1. rejected' \in [Agents -> Seq(Ids)]
      BY <2>1, <2>2, <2>5
    <3> QED BY <1>13, <2>3, <2>5, <3>1 DEF Report, TypeOK
  <2> QED BY <1>13, <2>4, <2>5 DEF Report
<1> QED BY <1>4, <1>5, <1>6, <1>7, <1>8, <1>9, <1>10, <1>11, <1>12, <1>13 DEF Begin

\* A request keeps the types, and grants a transition with a status of the store.
LEMMA TypeClientStep ==
    ASSUME Typed, NEW c \in Clients,
           ClientStep(c) \/ \E op \in Ops, e \in KnownIds : Ask(c, op, e)
    PROVE  TypeOK'
<1> USE DEF Typed
<1>1. InTurn(c) => queue # << >> /\ Tail(queue) \in Seq(Agents \cup Clients)
  BY QueueTyping DEF InTurn
<1>2. Answer(c) => /\ phase' \in [Clients -> {"idle", "queued", "governing"}]
                   /\ request' \in [Clients -> [op : Ops \cup {"none"}, id : Ids \cup {None}]]
                   /\ requests' = requests
  BY DEF Answer, NoRequest, TypeOK
<1>3. phase[c] # "idle" => /\ request[c].op \in Ops
                           /\ Becomes(request[c].op) \in Statuses
  BY DEF RequestsTyped, Ops, Becomes, Statuses
<1>4. CASE Grant(c)
  <2>1. evidence' \in SUBSET Versions
    BY <1>3, <1>4, TransitionTyping DEF Grant, MayTransition
  <2>2. phase' \in [Clients -> {"idle", "queued", "governing"}]
    BY <1>4 DEF Grant, TypeOK
  <2> QED BY <1>1, <1>4, <2>1, <2>2 DEF Grant, Dequeue, TypeOK
<1>5. CASE Deny(c)
  BY <1>1, <1>2, <1>5 DEF Deny, Dequeue, TypeOK
<1>6. CASE Govern(c)
  <2>1. <<request[c].id, Current(request[c].id).version>> \in Ids \X Nat
    <3>1. Known(request[c].id)
      BY <1>6 DEF Govern, RequestsTyped
    <3>2. Current(request[c].id) \in Versions /\ Current(request[c].id).id = request[c].id
      BY <3>1, CurrentVersion DEF TypeOK
    <3> QED BY <3>2 DEF Versions
  <2> QED BY <1>2, <1>6, <2>1 DEF Govern, TypeOK
<1>7. ASSUME NEW op \in Ops, NEW e \in KnownIds, Ask(c, op, e)
      PROVE  TypeOK'
  <2>1. KnownIds \subseteq Ids \cup {None}
    BY DEF KnownIds, TypeOK, Versions
  <2>2. phase' \in [Clients -> {"idle", "queued", "governing"}]
    BY <1>7 DEF Ask, TypeOK
  <2>3. request' \in [Clients -> [op : Ops \cup {"none"}, id : Ids \cup {None}]]
    BY <1>7, <2>1 DEF Ask, TypeOK
  <2>4. requests' \in 0 .. MaxRequests
    BY <1>7, BoundsAssumption DEF Ask, TypeOK
  <2>5. queue' \in Seq(Agents \cup Clients)
    BY <1>7, QueueTyping DEF Ask, Enqueue
  <2> QED BY <1>7, <2>2, <2>3, <2>4, <2>5 DEF Ask, TypeOK
<1> QED BY <1>4, <1>5, <1>6, <1>7 DEF ClientStep

\* The faults keep the types.
LEMMA TypeFault == ASSUME Typed, Fault PROVE TypeOK'
<1> USE BoundsAssumption DEF Typed
<1>1. queue # << >> => Tail(queue) \in Seq(Agents \cup Clients)
  BY DEF TypeOK
<1>2. DiskFails => storeFaults' \in 0 .. MaxStoreFaults
  BY DEF DiskFails, TypeOK
<1>3. ASSUME NEW a \in Agents, Return(a)
      PROVE  /\ stage' \in [Agents -> Stages]
             /\ run' \in [Agents -> Runs \cup {None}]
             /\ at' \in [Agents -> Nat \ {0}]
             /\ seen' \in [Agents -> Contents \cup {NoFile}]
             /\ stamp' \in [Agents -> Times]
             /\ rejected' \in [Agents -> Seq(Ids)]
  BY <1>3, LeaveTyping DEF TypeOK
<1>4. ASSUME NEW c \in Clients, Answer(c)
      PROVE  /\ phase' \in [Clients -> {"idle", "queued", "governing"}]
             /\ request' \in [Clients -> [op : Ops \cup {"none"}, id : Ids \cup {None}]]
             /\ requests' = requests
  BY <1>4 DEF Answer, NoRequest, TypeOK
<1>5. ASSUME NEW a \in Agents, AuditFails(a)
      PROVE  TypeOK'
  <2>1. auditFaults' \in 0 .. MaxAuditFaults
    BY <1>5 DEF AuditFails, TypeOK
  <2>2. queue' \in Seq(Agents \cup Clients)
    BY <1>5, QueueTyping DEF AuditFails, Enqueue
  <2>3. stage' \in [Agents -> Stages]
    BY <1>5 DEF AuditFails, Goto, Stages, Queued, TypeOK
  <2> QED BY <1>5, <2>1, <2>2, <2>3 DEF AuditFails, TypeOK
<1>6. ASSUME NEW a \in Agents, PersistFails(a)
      PROVE  TypeOK'
  BY <1>1, <1>2, <1>3, <1>6 DEF PersistFails, InTurn, Dequeue, DiskFails, TypeOK
<1>7. ASSUME NEW a \in Agents, RenameFails(a)
      PROVE  TypeOK'
  BY <1>2, <1>3, <1>7 DEF RenameFails, DiskFails, TypeOK
<1>8. ASSUME NEW c \in Clients, GovernFails(c)
      PROVE  TypeOK'
  <2>1. auditFaults' \in 0 .. MaxAuditFaults
    BY <1>8 DEF GovernFails, TypeOK
  <2> QED BY <1>4, <1>8, <2>1 DEF GovernFails, TypeOK
<1>9. ASSUME NEW c \in Clients, PersistFailsForRequest(c)
      PROVE  TypeOK'
  BY <1>1, <1>2, <1>4, <1>9 DEF PersistFailsForRequest, InTurn, Dequeue, DiskFails, TypeOK
<1>10. CASE Crash
  <2>1. queue' \in Seq(Agents \cup Clients)
    BY <1>10 DEF Crash
  <2>2. /\ stage' \in [Agents -> Stages]
        /\ run' \in [Agents -> Runs \cup {None}]
        /\ at' \in [Agents -> Nat \ {0}]
        /\ seen' \in [Agents -> Contents \cup {NoFile}]
        /\ stamp' \in [Agents -> Times]
        /\ rejected' \in [Agents -> Seq(Ids)]
    BY <1>10 DEF Crash, Stages, Times
  <2>3. /\ phase' \in [Clients -> {"idle", "queued", "governing"}]
        /\ request' \in [Clients -> [op : Ops \cup {"none"}, id : Ids \cup {None}]]
    BY <1>10 DEF Crash, NoRequest
  <2>4. crashes' \in 0 .. MaxCrashes
    BY <1>10 DEF Crash, TypeOK
  <2> QED BY <1>10, <2>1, <2>2, <2>3, <2>4 DEF Crash, TypeOK
<1>11. ASSUME NEW a \in Agents, ReportFails(a)
       PROVE  TypeOK'
  <2>1. auditFaults' \in 0 .. MaxAuditFaults
    BY <1>11 DEF ReportFails, TypeOK
  <2> QED BY <1>3, <1>11, <2>1 DEF ReportFails, TypeOK
<1> QED BY <1>5, <1>6, <1>7, <1>8, <1>9, <1>10, <1>11 DEF Fault

\* Every step keeps the types.
LEMMA TypeStep == ASSUME Typed, Next PROVE TypeOK'
<1>1. CASE Tick
  <2>1. clock' \in Times
    BY <1>1, BoundsAssumption DEF Tick, Typed, TypeOK, Times
  <2> QED BY <1>1, <2>1 DEF Tick, Typed, TypeOK
<1>2. ASSUME NEW a \in Agents, Begin(a) \/ AgentStep(a) \/ ChangeSource(a)
      PROVE  TypeOK'
  BY <1>2, TypeEntryStep, TypeAgentStep DEF AgentStep
<1>3. ASSUME NEW c \in Clients, ClientStep(c) \/ \E op \in Ops, e \in KnownIds : Ask(c, op, e)
      PROVE  TypeOK'
  BY <1>3, TypeClientStep
<1> QED BY <1>1, <1>2, <1>3, TypeFault DEF Next

\* A step of one Agent leaves the others where they are.
Untouched(a) ==
    /\ stage'[a] = stage[a] /\ run'[a] = run[a] /\ at'[a] = at[a] /\ seen'[a] = seen[a]
    /\ outbox'[a] = outbox[a] /\ rejected'[a] = rejected[a]

\* That is so for every step that is an Agent's own.
LEMMA AgentFrame ==
    ASSUME Typed, NEW a \in Agents, NEW b \in Agents, a # b,
           \/ Begin(b) \/ AgentStep(b) \/ ChangeSource(b)
           \/ AuditFails(b) \/ PersistFails(b) \/ RenameFails(b) \/ ReportFails(b)
    PROVE  Untouched(a) /\ stamp'[a] = stamp[a]
<1> USE DEF Typed, TypeOK, Untouched, Goto, Forget, Return, NextEntry
<1>1. CASE Begin(b)
  <2>1. CASE Propose(b)
    <3>1. UNCHANGED <<stage, run, at, rejected, seen, stamp>>
      BY <2>1 DEF Propose
    <3>2. \E x : outbox' = [outbox EXCEPT ![b] = x]
      BY <2>1 DEF Propose
    <3> QED BY <3>1, <3>2
  <2>2. CASE WriteBroken(b)
    BY <2>2 DEF WriteBroken
  <2>3. ASSUME NEW r \in Runs, Ingest(b, r) PROVE Untouched(a) /\ stamp'[a] = stamp[a]
    BY <2>3 DEF Ingest
  <2> QED BY <1>1, <2>1, <2>2, <2>3 DEF Begin
<1>2. CASE ChangeSource(b)
  BY <1>2 DEF ChangeSource
<1>3. CASE CheckEntry(b) \/ ReadSource(b) \/ CheckTarget(b) \/ VerifyCitation(b)
  <2>1. UNCHANGED <<run, outbox>>
    BY <1>3 DEF CheckEntry, ReadSource, CheckTarget, VerifyCitation
  <2>2. Refuse(b) => Untouched(a) /\ stamp'[a] = stamp[a]
    BY <2>1 DEF Refuse
  <2>3. ASSUME NEW content, Mint(b, content)
        PROVE  Untouched(a) /\ stamp'[a] = stamp[a]
    BY <2>1, <2>3 DEF Mint
  <2>4. CASE CheckEntry(b)
    BY <2>1, <2>2, <2>4 DEF CheckEntry
  <2>5. CASE ReadSource(b)
    BY <2>1, <2>2, <2>3, <2>5 DEF ReadSource
  <2>6. CASE CheckTarget(b)
    BY <2>1, <2>2, <2>3, <2>6 DEF CheckTarget
  <2>7. CASE VerifyCitation(b)
    BY <2>1, <2>2, <2>7 DEF VerifyCitation
  <2> QED BY <1>3, <2>4, <2>5, <2>6, <2>7
<1>4. CASE AppendPointer(b) \/ Commit(b) \/ AuditFails(b)
  BY <1>4 DEF AppendPointer, Commit, AuditFails
<1>5. CASE Audit(b) \/ Withdraw(b)
  BY <1>5 DEF Audit, Withdraw
<1>6. CASE Rename(b)
  BY <1>6 DEF Rename, TakeAway
<1>7. CASE PersistFails(b) \/ RenameFails(b) \/ ReportFails(b) \/ Report(b)
  BY <1>7 DEF PersistFails, RenameFails, DiskFails, ReportFails, Report
<1> QED BY <1>1, <1>2, <1>3, <1>4, <1>5, <1>6, <1>7 DEF AgentStep

\* Requests and the clock leave all Agents where they are.
RequestStep(c) ==
    \/ ClientStep(c) \/ GovernFails(c) \/ PersistFailsForRequest(c)
    \/ \E op \in Ops, e \in KnownIds : Ask(c, op, e)

\* That is so for requests, their failures and the clock.
LEMMA RequestFrame ==
    ASSUME Tick \/ \E c \in Clients : RequestStep(c)
    PROVE  UNCHANGED <<stage, run, at, rejected, seen, stamp, outbox, citations, pointers>>
<1>1. CASE Tick
  BY <1>1 DEF Tick
<1>2. ASSUME NEW c \in Clients, RequestStep(c)
      PROVE  UNCHANGED <<stage, run, at, rejected, seen, stamp, outbox, citations, pointers>>
  BY <1>2 DEF RequestStep, ClientStep, Grant, Deny, Govern, GovernFails,
              PersistFailsForRequest, DiskFails, Ask
<1> QED BY <1>1, <1>2

\* All that can happen, by who does it.
AgentAction(a) ==
    \/ Begin(a) \/ AgentStep(a) \/ ChangeSource(a)
    \/ AuditFails(a) \/ PersistFails(a) \/ RenameFails(a) \/ ReportFails(a)

\* There is nothing else that can happen.
LEMMA StepsByActor ==
    ASSUME Next
    PROVE  \/ \E a \in Agents : AgentAction(a)
           \/ Tick \/ \E c \in Clients : RequestStep(c)
           \/ Crash
  BY DEF Next, Fault, AgentAction, RequestStep

\* The clock, the ledger and the counts of faults only go forward, a step at a time.
LEMMA Advances ==
    ASSUME Next
    PROVE  /\ clock' = clock \/ clock' = clock + 1
           /\ audited \subseteq audited'
           /\ auditFaults' \in {auditFaults, auditFaults + 1}
           /\ storeFaults' \in {storeFaults, storeFaults + 1}
           /\ crashes' \in {crashes, crashes + 1}
<1> DEFINE Goal == /\ clock' = clock \/ clock' = clock + 1
                   /\ audited \subseteq audited'
                   /\ auditFaults' \in {auditFaults, auditFaults + 1}
                   /\ storeFaults' \in {storeFaults, storeFaults + 1}
                   /\ crashes' \in {crashes, crashes + 1}
<1>1. ASSUME NEW a \in Agents, Begin(a) \/ ChangeSource(a)
      PROVE  Goal
  BY <1>1 DEF Begin, Propose, WriteBroken, Ingest, ChangeSource, env, faults
<1>2. ASSUME NEW a \in Agents, AgentStep(a)
      PROVE  Goal
  BY <1>2 DEF AgentStep, CheckEntry, ReadSource, CheckTarget, AppendPointer, VerifyCitation,
              Commit, Audit, Withdraw, Rename, Report, env, faults
<1>3. ASSUME NEW a \in Agents, AuditFails(a) \/ PersistFails(a) \/ RenameFails(a) \/ ReportFails(a)
      PROVE  Goal
  BY <1>3 DEF AuditFails, PersistFails, RenameFails, ReportFails, DiskFails, env, faults
<1>4. ASSUME NEW c \in Clients, RequestStep(c)
      PROVE  Goal
  <2>1. clock' = clock /\ crashes' = crashes
    BY <1>4 DEF RequestStep, ClientStep, Grant, Deny, Govern, GovernFails,
                PersistFailsForRequest, DiskFails, Ask, env, faults
  <2>2. audited \subseteq audited'
    BY <1>4 DEF RequestStep, ClientStep, Grant, Deny, Govern, GovernFails,
                PersistFailsForRequest, DiskFails, Ask
  <2>3. /\ auditFaults' \in {auditFaults, auditFaults + 1}
        /\ storeFaults' \in {storeFaults, storeFaults + 1}
    BY <1>4 DEF RequestStep, ClientStep, Grant, Deny, Govern, GovernFails,
                PersistFailsForRequest, DiskFails, Ask, faults
  <2> QED BY <2>1, <2>2, <2>3
<1>5. CASE Tick \/ Crash
  BY <1>5 DEF Tick, Crash, faults
<1>6. ASSUME NEW a \in Agents, AgentAction(a)
      PROVE  Goal
  <2>1. CASE Begin(a) \/ ChangeSource(a)
    BY <1>1, <2>1
  <2>2. CASE AgentStep(a)
    BY <1>2, <2>2
  <2>3. CASE AuditFails(a) \/ PersistFails(a) \/ RenameFails(a) \/ ReportFails(a)
    BY <1>3, <2>3
  <2> QED BY <1>6, <2>1, <2>2, <2>3 DEF AgentAction
<1>7. CASE \E a \in Agents : AgentAction(a)
  BY <1>6, <1>7
<1>8. CASE \E c \in Clients : RequestStep(c)
  BY <1>4, <1>8
<1> QED BY <1>5, <1>7, <1>8, StepsByActor

\* An Agent's own step keeps what is known of where it stands.
LEMMA LocatedOwnStep ==
    ASSUME Typed, NEW a \in Agents, AgentAction(a)
    PROVE  LocatedAt(a)'
<1> USE DEF Typed, LocatedAt
<1>1. LocatedAt(a)
  BY DEF Located
<1>2. /\ stage \in [Agents -> Stages] /\ run \in [Agents -> Runs \cup {None}]
      /\ at \in [Agents -> Nat \ {0}] /\ seen \in [Agents -> Contents \cup {NoFile}]
      /\ source \in [Agents -> Contents \cup {NoFile}]
      /\ outbox \in [Agents -> Seq(Entries)] /\ rejected \in [Agents -> Seq(Ids)]
  BY DEF TypeOK
<1>3. Refuse(a) \/ NextEntry(a) => stage'[a] = "entry"
  BY <1>2 DEF Refuse, NextEntry, Goto
<1>4. Return(a) => stage'[a] = "idle"
  BY <1>2 DEF Return, Goto
<1>5. CASE Begin(a)
  <2>1. CASE Propose(a) \/ WriteBroken(a)
    BY <2>1 DEF Propose, WriteBroken, Holding
  <2>2. ASSUME NEW r \in Runs, Ingest(a, r)
        PROVE  LocatedAt(a)'
    BY <1>2, <2>2 DEF Ingest, Goto, Holding
  <2> QED BY <1>5, <2>1, <2>2 DEF Begin
<1>6. ASSUME Refuse(a) \/ NextEntry(a), stage[a] # "idle", UNCHANGED run
      PROVE  LocatedAt(a)'
  BY <1>1, <1>3, <1>6 DEF Holding
<1>7. ASSUME Return(a)
      PROVE  LocatedAt(a)'
  BY <1>4, <1>7 DEF Holding
<1>8. ASSUME NEW next, Goto(a, next), next \in Holding \cup {"reading"},
             stage[a] \notin {"idle"}, UNCHANGED <<run, at, outbox>>,
             at[a] \in DOMAIN outbox[a], Entry(a).level \in Levels,
             next \in Holding => seen'[a] \in Contents
      PROVE  LocatedAt(a)'
  BY <1>1, <1>2, <1>8 DEF Goto, Holding, Entry
<1>9. ASSUME NEW content \in Contents, Mint(a, content), UNCHANGED <<run, outbox>>,
             stage[a] \notin {"idle", "entry", "reporting"}
      PROVE  LocatedAt(a)'
  BY <1>1, <1>2, <1>8, <1>9 DEF Mint, Holding
<1>10. CASE CheckEntry(a)
  <2>1. CASE Refuse(a)
    BY <1>6, <1>10, <2>1 DEF CheckEntry
  <2>2. CASE Entry(a).level # Unclassified /\ Goto(a, "reading") /\ UNCHANGED at
    <3>1. at[a] \in DOMAIN outbox[a] /\ Entry(a) \in Entries
      BY <1>10, EntryAtHand, EntryTyping DEF CheckEntry
    <3>2. Entry(a).level \in Levels
      BY <2>2, <3>1 DEF Entries
    <3> QED BY <1>8, <1>10, <2>2, <3>1, <3>2 DEF CheckEntry, Holding
  <2> QED BY <1>10, <2>1, <2>2 DEF CheckEntry
<1>11. CASE ReadSource(a)
  <2>1. UNCHANGED <<run, outbox>> /\ stage[a] = "reading"
    BY <1>11 DEF ReadSource
  <2>2. CASE Refuse(a)
    BY <1>6, <2>1, <2>2
  <2>3. CASE source[a] # NoFile /\ Mint(a, source[a])
    BY <1>2, <1>9, <2>1, <2>3
  <2>4. CASE source[a] # NoFile /\ Goto(a, "targeting") /\ UNCHANGED at
                /\ seen' = [seen EXCEPT ![a] = source[a]]
    BY <1>1, <1>2, <1>8, <2>1, <2>4 DEF Holding
  <2> QED BY <1>11, <2>2, <2>3, <2>4 DEF ReadSource
<1>12. CASE CheckTarget(a)
  <2>1. UNCHANGED <<run, outbox>> /\ stage[a] = "targeting"
    BY <1>12 DEF CheckTarget
  <2>2. seen[a] \in Contents
    BY <1>1, <2>1 DEF Holding
  <2> QED BY <1>6, <1>9, <1>12, <2>1, <2>2 DEF CheckTarget
<1>13. CASE VerifyCitation(a)
  <2>1. UNCHANGED <<run, outbox>> /\ stage[a] = "verifying"
    BY <1>13 DEF VerifyCitation
  <2> QED BY <1>1, <1>6, <1>8, <1>13, <2>1 DEF VerifyCitation, Holding
<1>14. CASE AppendPointer(a) \/ Commit(a) \/ AuditFails(a)
  BY <1>1, <1>8, <1>14 DEF AppendPointer, Commit, AuditFails, Holding
<1>15. CASE Audit(a)
  BY <1>6, <1>15 DEF Audit
<1>16. CASE Withdraw(a) \/ PersistFails(a) \/ RenameFails(a) \/ ReportFails(a)
  BY <1>7, <1>16 DEF Withdraw, PersistFails, RenameFails, ReportFails
<1>17. CASE ChangeSource(a)
  BY <1>1, <1>17 DEF ChangeSource, Entry
<1>18. CASE Rename(a)
  <2>1. CASE Return(a)
    BY <1>7, <2>1
  <2>2. CASE rejected[a] # << >> /\ Goto(a, "reporting") /\ UNCHANGED <<run, rejected>>
    BY <1>1, <1>2, <1>18, <2>2 DEF Rename, TakeAway, Goto, Holding
  <2> QED BY <1>18, <2>1, <2>2 DEF Rename
<1>19. CASE Report(a)
  <2>1. CASE Return(a)
    BY <1>7, <2>1
  <2>2. CASE /\ Tail(rejected[a]) # << >> /\ rejected' = [rejected EXCEPT ![a] = Tail(@)]
             /\ UNCHANGED <<stage, run>>
    BY <1>1, <1>2, <1>19, <2>2 DEF Report, Holding
  <2> QED BY <1>19, <2>1, <2>2 DEF Report
<1> QED BY <1>5, <1>10, <1>11, <1>12, <1>13, <1>14, <1>15, <1>16, <1>17, <1>18, <1>19
        DEF AgentAction, AgentStep

\* The end of an outbox: once it has been taken away it is not read any more.
LEMMA Endings ==
    ASSUME Typed, NEW a \in Agents, Rename(a) \/ Report(a) \/ ReportFails(a)
    PROVE  /\ stage[a] \in {"entry", "reporting"} /\ stage'[a] \in {"idle", "reporting"}
           /\ stage[a] = "reporting" <=> ~Rename(a)
<1>1. stage \in [Agents -> Stages]
  BY DEF Typed, TypeOK
<1> QED BY <1>1 DEF Rename, Report, ReportFails, Return, Goto

\* Every step keeps what is known of where the Agents stand.
LEMMA LocatedStep == ASSUME Typed, Next PROVE Located'
<1> SUFFICES ASSUME NEW a \in Agents PROVE LocatedAt(a)'
  BY DEF Located
<1>1. LocatedAt(a)
  BY DEF Typed, Located
<1>2. Untouched(a) => LocatedAt(a)'
  BY <1>1 DEF Untouched, LocatedAt, Entry
<1>3. ASSUME NEW b \in Agents, AgentAction(b)
      PROVE  LocatedAt(a)'
  BY <1>2, <1>3, AgentFrame, LocatedOwnStep DEF AgentAction
<1>4. CASE Tick \/ \E c \in Clients : RequestStep(c)
  BY <1>2, <1>4, RequestFrame DEF Untouched
<1>5. CASE Crash
  BY <1>5 DEF Crash, LocatedAt, Holding
<1> QED BY <1>3, <1>4, <1>5, StepsByActor

(***************************************************************************)
(* How the store changes: Evidence is committed, or one of its versions is *)
(* closed and succeeded; what is lost is not given a better status.        *)
(***************************************************************************)
Lost == {"REVOKED", "COMPROMISED"}

Succeeds(e, status) ==
    /\ MayTransition(e, Statuses)
    /\ Transition(e, status)
    /\ status # "ACTIVE"
    /\ status \in Lost \/ Current(e).status = "ACTIVE"

\* Every step commits Evidence, ends some, or leaves all as it is.
LEMMA StoreSteps ==
    ASSUME Typed, Next
    PROVE  /\ pointers \subseteq pointers'
           /\ \/ UNCHANGED <<evidence, citations>>
              \/ \E a \in Agents : Commit(a)
              \/ UNCHANGED citations /\ \E e \in Ids, status \in Statuses : Succeeds(e, status)
<1> USE DEF Typed
<1>1. ASSUME NEW e, NEW required \in SUBSET Statuses, MayTransition(e, required)
      PROVE  e \in Ids /\ MayTransition(e, Statuses)
  BY <1>1, CurrentVersion DEF MayTransition, TypeOK, Versions
<1>2. ASSUME NEW a \in Agents, AgentAction(a)
      PROVE  /\ pointers \subseteq pointers'
             /\ \/ UNCHANGED <<evidence, citations>>
                \/ Commit(a)
                \/ UNCHANGED citations /\ \E e \in Ids, status \in Statuses : Succeeds(e, status)
  <2>1. CASE Begin(a) \/ ChangeSource(a)
    BY <2>1 DEF Begin, Propose, WriteBroken, Ingest, ChangeSource
  <2>2. CASE \/ CheckEntry(a) \/ ReadSource(a) \/ CheckTarget(a) \/ AppendPointer(a)
             \/ VerifyCitation(a) \/ Commit(a) \/ Audit(a) \/ Rename(a) \/ Report(a)
    BY <2>2 DEF CheckEntry, ReadSource, CheckTarget, AppendPointer, VerifyCitation, Commit,
                Audit, Rename, Report
  <2>3. CASE Withdraw(a)
    <3>1. ASSUME MayTransition(NewId(a), {"ACTIVE"}), Transition(NewId(a), "COMPROMISED")
          PROVE  \E e \in Ids, status \in Statuses : Succeeds(e, status)
      BY <1>1, <3>1 DEF Succeeds, Lost, Statuses
    <3> QED BY <2>3, <3>1 DEF Withdraw, FailClosed
  <2>4. CASE AuditFails(a) \/ PersistFails(a) \/ RenameFails(a) \/ ReportFails(a)
    BY <2>4 DEF AuditFails, PersistFails, RenameFails, ReportFails, DiskFails
  <2> QED BY <1>2, <2>1, <2>2, <2>3, <2>4 DEF AgentAction, AgentStep
<1>3. ASSUME NEW c \in Clients, Grant(c)
      PROVE  \E e \in Ids, status \in Statuses : Succeeds(e, status)
  <2> DEFINE op == request[c].op
  <2>1. op \in Ops /\ MayTransition(request[c].id, Required(op))
    BY <1>3 DEF Grant, RequestsTyped
  <2>2. /\ Required(op) \in SUBSET Statuses /\ Becomes(op) \in Statuses
        /\ Becomes(op) # "ACTIVE"
        /\ Becomes(op) \in Lost \/ Required(op) = {"ACTIVE"}
    BY <2>1 DEF Ops, Required, Becomes, Statuses, Lost
  <2>3. request[c].id \in Ids /\ MayTransition(request[c].id, Statuses)
    BY <1>1, <2>1, <2>2
  <2>4. Transition(request[c].id, Becomes(op))
    BY <1>3 DEF Grant
  <2>5. Becomes(op) \in Lost \/ Current(request[c].id).status = "ACTIVE"
    BY <2>1, <2>2 DEF MayTransition
  <2> QED BY <2>2, <2>3, <2>4, <2>5 DEF Succeeds
<1>4. ASSUME NEW c \in Clients, RequestStep(c)
      PROVE  UNCHANGED evidence \/ Grant(c)
  BY <1>4 DEF RequestStep, ClientStep, Deny, Govern, GovernFails,
              PersistFailsForRequest, DiskFails, Ask
<1>5. CASE Tick \/ Crash
  BY <1>5 DEF Tick, Crash
<1> QED BY <1>2, <1>3, <1>4, <1>5, StepsByActor, RequestFrame

\* What a transition leaves: the versions of other Evidence, the old one closed,
\* and one that succeeds it, alike in all that does not change.
LEMMA SuccessionFacts ==
    ASSUME Typed, NEW e \in Ids, NEW status \in Statuses, Succeeds(e, status)
    PROVE  \E old, new :
             /\ old \in Versions /\ new \in Versions
             /\ old = [Current(e) EXCEPT !.closedAt = clock]
             /\ Current(e) \in evidence /\ Current(e).id = e
             /\ new.id = e /\ new.version = Current(e).version + 1 /\ new.status = status
             /\ new.level = Current(e).level /\ new.contributors = Current(e).contributors
             /\ new.pointer = Current(e).pointer
             /\ evidence' = (evidence \ {Current(e)}) \cup {old, new}
<1> DEFINE old == [Current(e) EXCEPT !.closedAt = clock]
           new == [Current(e) EXCEPT !.version = @ + 1, !.status = status, !.recordedAt = clock]
<1>1. Known(e) /\ Transition(e, status)
  BY DEF Succeeds, MayTransition
<1>2. Current(e) \in evidence /\ Current(e).id = e /\ Current(e) \in Versions
  BY <1>1, CurrentVersion DEF Typed, TypeOK
<1>3. evidence' = (evidence \ {Current(e)}) \cup {old, new}
  BY <1>1 DEF Transition
<1>4. evidence' \in SUBSET Versions
  BY <1>1, TransitionTyping DEF Typed
<1>5. old \in Versions /\ new \in Versions
  BY <1>3, <1>4
<1>6. /\ new.id = e /\ new.version = Current(e).version + 1 /\ new.status = status
      /\ new.level = Current(e).level /\ new.contributors = Current(e).contributors
      /\ new.pointer = Current(e).pointer
  BY <1>2 DEF Versions
<1> QED BY <1>2, <1>3, <1>5, <1>6

\* No Evidence disappears.
LEMMA KnownStays == ASSUME Typed, Next, NEW e, Known(e) PROVE Known(e)'
<1>1. CASE UNCHANGED evidence
  BY <1>1 DEF Known
<1>2. ASSUME NEW a \in Agents, Commit(a)
      PROVE  Known(e)'
  BY <1>2 DEF Commit, Known
<1>3. ASSUME NEW f \in Ids, NEW status \in Statuses, Succeeds(f, status)
      PROVE  Known(e)'
  <2>1. PICK old, new : /\ Current(f).id = f /\ new.id = f
                        /\ evidence' = (evidence \ {Current(f)}) \cup {old, new}
    BY <1>3, SuccessionFacts
  <2>2. PICK v \in evidence : v.id = e
    BY DEF Known
  <2>3. CASE v = Current(f)
    BY <2>1, <2>2, <2>3 DEF Known
  <2>4. CASE v # Current(f)
    BY <2>1, <2>2, <2>4 DEF Known
  <2> QED BY <2>3, <2>4
<1> QED BY <1>1, <1>2, <1>3, StoreSteps

\* There still is a latest version after a step: the one that was, or a new one.
LEMMA ToppedStep == ASSUME Typed, Next PROVE Topped'
<1> USE DEF Topped
<1>1. evidence \subseteq Versions /\ evidence' \subseteq Versions
  BY TypeStep DEF Typed, TypeOK
<1>2. \A v \in Versions : v.version \in Nat
  BY DEF Versions
<1>3. Topped
  BY DEF Typed
<1>4. CASE UNCHANGED evidence
  BY <1>3, <1>4
<1>5. ASSUME NEW x \in Versions, evidence' = evidence \cup {x}
      PROVE  Topped'
  <2> SUFFICES ASSUME NEW v \in evidence'
               PROVE  \E w \in evidence' :
                          w.id = v.id /\ \A u \in evidence' : u.id = v.id => u.version <= w.version
    OBVIOUS
  <2>1. CASE \E w \in evidence : w.id = v.id
    <3>1. PICK w \in evidence :
              w.id = v.id /\ \A u \in evidence : u.id = v.id => u.version <= w.version
      BY <1>3, <2>1
    <3>2. w.version \in Nat /\ x.version \in Nat /\ \A u \in evidence : u.version \in Nat
      BY <1>1, <1>2
    <3>3. CASE x.id = v.id /\ x.version > w.version
      <4>1. \A u \in evidence' : u.id = v.id => u.version <= x.version
        BY <1>5, <3>1, <3>2, <3>3
      <4> QED BY <1>5, <3>3, <4>1
    <3>4. CASE ~(x.id = v.id /\ x.version > w.version)
      <4>1. \A u \in evidence' : u.id = v.id => u.version <= w.version
        BY <1>5, <3>1, <3>2, <3>4
      <4> QED BY <1>5, <3>1, <4>1
    <3> QED BY <3>3, <3>4
  <2>2. CASE ~\E w \in evidence : w.id = v.id
    <3>1. v = x /\ \A u \in evidence' : u.id = v.id => u = x
      BY <1>5, <2>2
    <3>2. x.version <= x.version
      BY <1>2
    <3> QED BY <3>1, <3>2
  <2> QED BY <2>1, <2>2
<1>6. ASSUME NEW a \in Agents, Commit(a)
      PROVE  Topped'
  <2>1. PICK x : evidence' = evidence \cup {x}
    BY <1>6 DEF Commit
  <2> QED BY <1>1, <1>5, <2>1
<1>7. ASSUME NEW e \in Ids, NEW status \in Statuses, Succeeds(e, status)
      PROVE  Topped'
  <2>1. PICK old, new :
            /\ old = [Current(e) EXCEPT !.closedAt = clock]
            /\ Current(e) \in Versions /\ Current(e).id = e
            /\ new \in Versions /\ new.id = e /\ new.version = Current(e).version + 1
            /\ evidence' = (evidence \ {Current(e)}) \cup {old, new}
    BY <1>1, <1>7, SuccessionFacts DEF Typed
  <2>2. \A u \in evidence : u.id = e => u.version <= Current(e).version
    BY <1>7, CurrentVersion DEF Typed, Succeeds, MayTransition
  <2>3. old.id = e /\ old.version = Current(e).version /\ Current(e).version \in Nat
    BY <1>2, <2>1 DEF Versions
  <2>4. \A u \in evidence : u.version \in Nat
    BY <1>1, <1>2
  <2>5. ASSUME NEW u \in evidence', u.id = e
        PROVE  u.version <= new.version
    <3>1. new.version = Current(e).version + 1
      BY <2>1
    <3>2. u \in evidence \/ u = old \/ u = new
      BY <2>1
    <3>3. CASE u \in evidence
      BY <2>2, <2>3, <2>4, <2>5, <3>1, <3>3
    <3>4. CASE u = old \/ u = new
      BY <2>3, <3>1, <3>4
    <3> QED BY <3>2, <3>3, <3>4
  <2>6. ASSUME NEW v \in evidence', v.id # e
        PROVE  \E w \in evidence' :
                   w.id = v.id /\ \A u \in evidence' : u.id = v.id => u.version <= w.version
    <3>1. v \in evidence
      BY <2>1, <2>3, <2>6
    <3>2. PICK w \in evidence :
              w.id = v.id /\ \A u \in evidence : u.id = v.id => u.version <= w.version
      BY <1>3, <3>1
    <3>3. w \in evidence' /\ \A u \in evidence' : u.id = v.id => u \in evidence
      BY <2>1, <2>3, <2>6, <3>2
    <3> QED BY <3>2, <3>3
  <2>7. new \in evidence'
    BY <2>1
  <2> QED BY <2>1, <2>5, <2>6, <2>7
<1> QED BY <1>4, <1>6, <1>7, StoreSteps

\* A request that was granted keeps its Evidence, as nothing is deleted.
LEMMA RequestsStep == ASSUME Typed, Next PROVE RequestsTyped'
<1> USE DEF Typed, RequestsTyped
<1>1. phase \in [Clients -> {"idle", "queued", "governing"}]
      /\ request \in [Clients -> [op : Ops \cup {"none"}, id : Ids \cup {None}]]
  BY DEF TypeOK
<1>2. \A e : Known(e) => Known(e)'
  BY KnownStays
<1>3. CASE UNCHANGED <<phase, request>>
  BY <1>2, <1>3
<1>4. ASSUME NEW c \in Clients, Answer(c)
      PROVE  RequestsTyped'
  BY <1>1, <1>2, <1>4 DEF Answer
<1>5. ASSUME NEW c \in Clients, NEW op \in Ops, NEW e \in KnownIds, Ask(c, op, e)
      PROVE  RequestsTyped'
  BY <1>1, <1>2, <1>5 DEF Ask
<1>6. ASSUME NEW c \in Clients, Grant(c)
      PROVE  RequestsTyped'
  <2>1. Known(request[c].id) /\ request[c].op \in Ops
    BY <1>6 DEF Grant, MayTransition
  <2> QED BY <1>1, <1>2, <1>6, <2>1 DEF Grant
<1>7. ASSUME NEW c \in Clients, RequestStep(c)
      PROVE  RequestsTyped'
  BY <1>4, <1>5, <1>6, <1>7
  DEF RequestStep, ClientStep, Deny, Govern, GovernFails, PersistFailsForRequest
<1>8. ASSUME NEW a \in Agents, AgentAction(a)
      PROVE  UNCHANGED <<phase, request>>
  BY <1>8
  DEF AgentAction, Begin, AgentStep, Propose, WriteBroken, Ingest, ChangeSource, CheckEntry,
      ReadSource, CheckTarget, AppendPointer, VerifyCitation, Commit, Audit, Withdraw, Rename,
      Report, AuditFails, PersistFails, RenameFails, ReportFails
<1>9. CASE Tick
  BY <1>3, <1>9 DEF Tick
<1>10. CASE Crash
  BY <1>10 DEF Crash
<1> QED BY <1>3, <1>7, <1>8, <1>9, <1>10, StepsByActor

\* The typing invariant is inductive.
LEMMA TypedStep == Typed /\ [Next]_vars => Typed'
<1>1. ASSUME Typed, Next
      PROVE  Typed'
  BY <1>1, TypeStep, LocatedStep, RequestsStep, ToppedStep DEF Typed
<1>2. ASSUME Typed, UNCHANGED vars
      PROVE  Typed'
  BY <1>2 DEF Typed, TypeOK, Located, LocatedAt, Entry, RequestsTyped, Known, Topped
<1> QED BY <1>1, <1>2

\* Type correctness of the outbox, of createEvidence and of the store.
THEOREM EvidenceTypeCorrect == Spec => []TypeOK
<1>1. Typed => TypeOK
  BY DEF Typed
<1> QED BY <1>1, TypedInit, TypedStep, PTL DEF Spec

(***************************************************************************)
(* INV-9 needs no more than how the store changes.                         *)
(***************************************************************************)
\* A version may stay as it is, or be closed at the time it is, once.
KeptOrClosed(v) ==
    \/ v \in evidence'
    \/ v.closedAt = Open /\ [v EXCEPT !.closedAt = clock] \in evidence'

\* INV-9: nothing is deleted and nothing is rewritten.
THEOREM EvidenceHistory == Spec => HistoryKept
<1>1. ASSUME Typed, Next, NEW v \in evidence
      PROVE  KeptOrClosed(v)
  <2>1. CASE UNCHANGED evidence \/ \E a \in Agents : Commit(a)
    BY <1>1, <2>1 DEF Commit, KeptOrClosed
  <2>2. ASSUME NEW e \in Ids, NEW status \in Statuses, Succeeds(e, status)
        PROVE  KeptOrClosed(v)
    <3>1. MayTransition(e, Statuses) /\ Transition(e, status)
      BY <2>2 DEF Succeeds
    <3>2. CASE v = Current(e)
      BY <3>1, <3>2 DEF MayTransition, Transition, KeptOrClosed
    <3>3. CASE v # Current(e)
      BY <1>1, <3>1, <3>3 DEF Transition, KeptOrClosed
    <3> QED BY <3>2, <3>3
  <2> QED BY <1>1, <2>1, <2>2, StoreSteps
<1>2. Typed /\ [Next]_vars => [\A v \in evidence : KeptOrClosed(v)]_vars
  BY <1>1
<1>3. Spec => [][\A v \in evidence : KeptOrClosed(v)]_vars
  BY <1>2, TypedInit, TypedStep, PTL DEF Spec
<1> QED BY <1>3 DEF HistoryKept, KeptOrClosed

(***************************************************************************)
(* INV-4 and INV-5.  A citation is verified against the content the source *)
(* has then; that this is the content of the pointer, and the pointer is   *)
(* in the store, is known from there to the commit.                        *)
(***************************************************************************)
CitedAt(a) ==
    /\ stage[a] \in {"verifying", "committing"} => Pointer(a) \in pointers
    /\ stage[a] = "committing" => seen[a] \in Quotable

Cited == \A a \in Agents : CitedAt(a)

\* Only the pointer's own append and its verification establish it, and no other
\* step disturbs it.
LEMMA CitedStep == ASSUME Typed, Cited, Next PROVE Cited'
<1> SUFFICES ASSUME NEW a \in Agents PROVE CitedAt(a)'
  BY DEF Cited
<1> USE DEF Typed, CitedAt, Pointer
<1>1. /\ stage \in [Agents -> Stages] /\ seen \in [Agents -> Contents \cup {NoFile}]
      /\ pointers \subseteq pointers' /\ CitedAt(a)
  BY StoreSteps DEF TypeOK, Cited
<1>2. ASSUME stage'[a] = stage[a], seen'[a] = seen[a]
      PROVE  CitedAt(a)'
  BY <1>1, <1>2
<1>3. ASSUME NEW b \in Agents, AgentAction(b), a # b
      PROVE  CitedAt(a)'
  BY <1>2, <1>3, AgentFrame DEF AgentAction, Untouched
<1>4. CASE Tick \/ \E c \in Clients : RequestStep(c)
  BY <1>2, <1>4, RequestFrame
<1>5. CASE Crash
  BY <1>1, <1>5 DEF Crash
<1>6. ASSUME NEW next, Goto(a, next), next \notin {"verifying", "committing"}
      PROVE  CitedAt(a)'
  BY <1>1, <1>6 DEF Goto
<1>7. CASE AgentAction(a)
  <2>1. CASE Propose(a) \/ WriteBroken(a) \/ ChangeSource(a)
    BY <1>2, <2>1 DEF Propose, WriteBroken, ChangeSource
  <2>2. ASSUME NEW r \in Runs, Ingest(a, r)
        PROVE  CitedAt(a)'
    BY <1>2, <1>6, <2>2 DEF Ingest
  <2>3. CASE \/ CheckEntry(a) \/ ReadSource(a) \/ CheckTarget(a) \/ Commit(a) \/ AuditFails(a)
             \/ Audit(a) \/ Withdraw(a) \/ PersistFails(a) \/ RenameFails(a)
    BY <1>6, <2>3
    DEF CheckEntry, ReadSource, CheckTarget, Refuse, Mint, Commit, AuditFails, Audit, Withdraw,
        PersistFails, RenameFails, NextEntry, Return
  <2>4. CASE AppendPointer(a)
    BY <1>1, <2>4 DEF AppendPointer, Goto
  <2>5. CASE VerifyCitation(a)
    <3>1. CASE Refuse(a)
      BY <1>6, <3>1 DEF Refuse, NextEntry
    <3>2. CASE Verified(a) /\ Goto(a, "committing") /\ UNCHANGED seen
      BY <1>1, <2>5, <3>2 DEF VerifyCitation, Verified, Goto
    <3> QED BY <2>5, <3>1, <3>2 DEF VerifyCitation
  <2>6. CASE Rename(a) \/ Report(a) \/ ReportFails(a)
    BY <1>6, <2>6, Endings DEF CitedAt
  <2> QED BY <1>7, <2>1, <2>2, <2>3, <2>4, <2>5, <2>6 DEF AgentAction, Begin, AgentStep
<1> QED BY <1>3, <1>4, <1>5, <1>7, StepsByActor

\* Provenance survives a commit because the pointer was verified, and a
\* transition because a version's successor cites what it did.
LEMMA ProvenanceStep ==
    ASSUME Typed, Cited, ProvenanceVerified, Next
    PROVE  ProvenanceVerified'
<1> DEFINE Backed(v) == /\ <<v.id, v.pointer>> \in citations
                        /\ v.pointer \in pointers
                        /\ v.pointer.contentHash \in Quotable
<1>1. /\ \A v \in evidence : Backed(v)
      /\ pointers \subseteq pointers'
  BY StoreSteps DEF ProvenanceVerified
<1>2. \A k \in citations : Known(k[1])'
  BY KnownStays DEF ProvenanceVerified
<1>3. CASE UNCHANGED <<evidence, citations>>
  BY <1>1, <1>2, <1>3 DEF ProvenanceVerified
<1>4. ASSUME NEW a \in Agents, Commit(a)
      PROVE  ProvenanceVerified'
  <2>1. /\ Pointer(a) \in pointers /\ Pointer(a).contentHash \in Quotable
    BY <1>4 DEF Commit, Cited, CitedAt, Pointer
  <2>2. PICK x : /\ x.id = NewId(a) /\ x.pointer = Pointer(a)
                 /\ evidence' = evidence \cup {x}
    BY <1>4 DEF Commit
  <2>3. citations' = citations \cup {<<NewId(a), Pointer(a)>>} /\ UNCHANGED pointers
    BY <1>4 DEF Commit
  <2>4. \A v \in evidence' : Backed(v)'
    BY <1>1, <2>1, <2>2, <2>3
  <2>5. \E v \in evidence' : v.id = <<NewId(a), Pointer(a)>>[1]
    BY <2>2
  <2>6. \A k \in citations' : Known(k[1])'
    BY <1>2, <2>3, <2>5 DEF Known
  <2> QED BY <2>4, <2>6 DEF ProvenanceVerified
<1>5. ASSUME NEW e \in Ids, NEW status \in Statuses, Succeeds(e, status), UNCHANGED citations
      PROVE  ProvenanceVerified'
  <2>1. PICK old, new :
            /\ old = [Current(e) EXCEPT !.closedAt = clock]
            /\ Current(e) \in evidence /\ Current(e).id = e
            /\ new.id = e /\ new.pointer = Current(e).pointer
            /\ evidence' = (evidence \ {Current(e)}) \cup {old, new}
    BY <1>5, SuccessionFacts
  <2>2. old.id = e /\ old.pointer = Current(e).pointer
    <3>1. Current(e) \in Versions
      BY <2>1 DEF Typed, TypeOK
    <3> QED BY <2>1, <3>1 DEF Versions
  <2>3. \A v \in evidence' : Backed(v)'
    BY <1>1, <1>5, <2>1, <2>2
  <2> QED BY <1>2, <1>5, <2>3 DEF ProvenanceVerified
<1> QED BY <1>3, <1>4, <1>5, StoreSteps

\* Whatever changes, fails, or is ended while Evidence is being created.
THEOREM EvidenceProvenance == Spec => []ProvenanceVerified
<1>1. Init => Typed /\ Cited /\ ProvenanceVerified
  BY TypedInit DEF Init, Cited, CitedAt, ProvenanceVerified
<1>2. Typed /\ Cited /\ ProvenanceVerified /\ [Next]_vars
          => (Typed /\ Cited /\ ProvenanceVerified)'
  <2>1. ASSUME Typed, Cited, ProvenanceVerified, Next
        PROVE  (Typed /\ Cited /\ ProvenanceVerified)'
    BY <2>1, TypedStep, CitedStep, ProvenanceStep
  <2>2. ASSUME Cited, ProvenanceVerified, UNCHANGED vars
        PROVE  (Cited /\ ProvenanceVerified)'
    BY <2>2 DEF Cited, CitedAt, Pointer, ProvenanceVerified, Known
  <2> QED BY <2>1, <2>2, TypedStep
<1> QED BY <1>1, <1>2, PTL DEF Spec

(***************************************************************************)
(* Ids are new.  An outbox has each claim once, a Run belongs to one Agent *)
(* and is ingested for once, and the Evidence of the Run at work is that   *)
(* of the entries before the one at hand.                                  *)
(***************************************************************************)
DistinctClaims ==
    \A a \in Agents : \A i, j \in DOMAIN outbox[a] :
        outbox[a][i].claim = outbox[a][j].claim => i = j

OwnRuns ==
    /\ \A a \in Agents : stage[a] # "idle" => run[a] \in used
    /\ \A a, b \in Agents : stage[a] # "idle" /\ stage[b] # "idle" /\ run[a] = run[b] => a = b
    /\ \A v \in evidence : v.id[2] \in used

Settled(a, i) == i < at[a] \/ (i = at[a] /\ stage[a] \in {"auditing", "closing"})

IngestedAt(a) ==
    stage[a] \notin {"idle", "reporting"} =>
        \A v \in evidence :
            v.id[2] = run[a] => \E i \in DOMAIN outbox[a] :
                                    outbox[a][i].claim = v.id[1] /\ Settled(a, i)

NewIds == DistinctClaims /\ OwnRuns /\ \A a \in Agents : IngestedAt(a)

\* What is about to be committed is not in the store yet.
LEMMA NewUnknown ==
    ASSUME Typed, NewIds, NEW a \in Agents, stage[a] = "committing"
    PROVE  ~Known(NewId(a))
<1> SUFFICES ASSUME NEW v \in evidence, v.id = NewId(a) PROVE FALSE
  BY DEF Known
<1>1. v.id[1] = Entry(a).claim /\ v.id[2] = run[a]
  BY DEF NewId
<1>2. PICK i \in DOMAIN outbox[a] : outbox[a][i].claim = v.id[1] /\ Settled(a, i)
  BY <1>1 DEF NewIds, IngestedAt
<1>3. at[a] \in DOMAIN outbox[a] /\ at[a] \in Nat
  BY DEF Typed, TypeOK, Located, LocatedAt
<1>4. i = at[a]
  BY <1>1, <1>2, <1>3 DEF NewIds, DistinctClaims, Entry
<1> QED BY <1>2, <1>3, <1>4 DEF Settled

\* A step adds no id but the one it commits.
LEMMA IdSteps ==
    ASSUME Typed, Next, NEW v \in evidence'
    PROVE  (\E w \in evidence : w.id = v.id) \/ \E a \in Agents : Commit(a) /\ v.id = NewId(a)
<1>1. CASE UNCHANGED evidence
  BY <1>1
<1>2. ASSUME NEW a \in Agents, Commit(a)
      PROVE  v \in evidence \/ v.id = NewId(a)
  BY <1>2 DEF Commit
<1>3. ASSUME NEW e \in Ids, NEW status \in Statuses, Succeeds(e, status)
      PROVE  \E w \in evidence : w.id = v.id
  <2>1. PICK old, new :
            /\ old = [Current(e) EXCEPT !.closedAt = clock]
            /\ Current(e) \in evidence /\ Current(e).id = e
            /\ new.id = e
            /\ evidence' = (evidence \ {Current(e)}) \cup {old, new}
    BY <1>3, SuccessionFacts
  <2>2. old.id = e
    <3>1. Current(e) \in Versions
      BY <2>1 DEF Typed, TypeOK
    <3> QED BY <2>1, <3>1 DEF Versions
  <2> QED BY <2>1, <2>2
<1> QED BY <1>1, <1>2, <1>3, StoreSteps

\* Only Propose adds to an outbox, and only what none has.
LEMMA OutboxSteps ==
    ASSUME Typed, Next, NEW a \in Agents
    PROVE  \/ outbox'[a] = outbox[a] \/ outbox'[a] = << >>
           \/ /\ Propose(a)
              /\ \E x \in Entries : /\ outbox'[a] = Append(outbox[a], x)
                                    /\ \A i \in DOMAIN outbox[a] : outbox[a][i].claim # x.claim
<1>1. outbox \in [Agents -> Seq(Entries)]
  BY DEF Typed, TypeOK
<1>2. ASSUME NEW b \in Agents, AgentAction(b), b # a
      PROVE  outbox'[a] = outbox[a]
  BY <1>2, AgentFrame DEF AgentAction, Untouched
<1>3. CASE Tick \/ Crash \/ \E c \in Clients : RequestStep(c)
  BY <1>3, RequestFrame DEF Crash
<1>4. CASE Propose(a)
  <2>1. PICK claim \in Claims, level \in Levels \cup {Unclassified},
             contributors \in Contributors, replaces \in Replaceable :
                 /\ Fresh(claim)
                 /\ outbox' = [outbox EXCEPT ![a] =
                        Append(@, [claim |-> claim, level |-> level,
                                   contributors |-> contributors, replaces |-> replaces])]
    BY <1>4 DEF Propose
  <2> DEFINE x == [claim |-> claim, level |-> level,
                   contributors |-> contributors, replaces |-> replaces]
  <2>2. outbox'[a] = Append(outbox[a], x) /\ x.claim = claim
    BY <1>1, <2>1
  <2>3. \A i \in DOMAIN outbox[a] : outbox[a][i].claim # claim
    BY <2>1 DEF Fresh
  <2>4. KnownIds \subseteq Ids \cup {None}
    BY DEF KnownIds, Typed, TypeOK, Versions
  <2>5. x \in Entries
    BY <2>4 DEF Entries, Contributors, Replaceable
  <2> QED BY <1>4, <2>2, <2>3, <2>5
<1>5. CASE AgentAction(a) /\ ~Propose(a)
  BY <1>1, <1>5
  DEF AgentAction, Begin, AgentStep, WriteBroken, Ingest, ChangeSource, CheckEntry, ReadSource,
      CheckTarget, AppendPointer, VerifyCitation, Commit, Audit, Withdraw, Rename, TakeAway,
      Report, AuditFails, PersistFails, RenameFails, ReportFails, DiskFails
<1> QED BY <1>2, <1>3, <1>4, <1>5, StepsByActor

\* An outbox never has a claim twice.
LEMMA DistinctStep == ASSUME Typed, DistinctClaims, Next PROVE DistinctClaims'
<1> SUFFICES ASSUME NEW a \in Agents, NEW i \in DOMAIN outbox'[a], NEW j \in DOMAIN outbox'[a],
                    outbox'[a][i].claim = outbox'[a][j].claim
             PROVE  i = j
  BY DEF DistinctClaims
<1>1. outbox[a] \in Seq(Entries)
  BY DEF Typed, TypeOK
<1>2. CASE outbox'[a] = outbox[a] \/ outbox'[a] = << >>
  BY <1>2 DEF DistinctClaims
<1>3. ASSUME NEW x \in Entries, outbox'[a] = Append(outbox[a], x),
             \A k \in DOMAIN outbox[a] : outbox[a][k].claim # x.claim
      PROVE  i = j
  <2>1. DOMAIN outbox'[a] = 1 .. Len(outbox[a]) + 1
    BY <1>1, <1>3
  <2>2. /\ \A k \in 1 .. Len(outbox[a]) : outbox'[a][k] = outbox[a][k] /\ k \in DOMAIN outbox[a]
        /\ outbox'[a][Len(outbox[a]) + 1] = x
    BY <1>1, <1>3
  <2>3. Len(outbox[a]) \in Nat
    BY <1>1
  <2>4. CASE i = Len(outbox[a]) + 1 /\ j # i
    <3>1. j \in 1 .. Len(outbox[a])
      BY <2>1, <2>3, <2>4
    <3> QED BY <1>3, <2>2, <2>4, <3>1
  <2>5. CASE j = Len(outbox[a]) + 1 /\ j # i
    <3>1. i \in 1 .. Len(outbox[a])
      BY <2>1, <2>3, <2>5
    <3> QED BY <1>3, <2>2, <2>5, <3>1
  <2>6. CASE i \in 1 .. Len(outbox[a]) /\ j \in 1 .. Len(outbox[a])
    BY <2>2, <2>6 DEF DistinctClaims
  <2> QED BY <2>1, <2>3, <2>4, <2>5, <2>6
<1> QED BY <1>2, <1>3, OutboxSteps

\* While an outbox is being read it stays, for the same Run, and what is settled
\* stays settled.
LEMMA Progress ==
    ASSUME Typed, Next, NEW a \in Agents, stage[a] # "idle", stage'[a] \notin {"idle", "reporting"}
    PROVE  /\ stage[a] # "reporting"
           /\ outbox'[a] = outbox[a] /\ run'[a] = run[a]
           /\ \A i \in Nat : Settled(a, i) => Settled(a, i)'
<1> USE DEF Settled
<1>1. /\ stage \in [Agents -> Stages] /\ at \in [Agents -> Nat \ {0}]
  BY DEF Typed, TypeOK
<1>2. ASSUME NEW b \in Agents, AgentAction(b), b # a
      PROVE  Untouched(a)
  BY <1>2, AgentFrame DEF AgentAction
<1>3. CASE Tick \/ \E c \in Clients : RequestStep(c)
  BY <1>3, RequestFrame
<1>4. CASE Crash
  BY <1>4 DEF Crash
<1>9. ASSUME NEW b \in Agents, AgentAction(b)
      PROVE  stage[a] # "reporting"
  <2>1. b # a => stage'[a] = stage[a]
    BY <1>9, AgentFrame DEF AgentAction, Untouched
  <2>2. CASE b = a /\ stage[a] = "reporting"
    <3>1. ~Rename(a) /\ ~Report(a) /\ ~ReportFails(a)
      BY Endings
    <3>2. ChangeSource(a)
      BY <1>9, <2>2, <3>1
      DEF AgentAction, Begin, AgentStep, Propose, WriteBroken, Ingest, CheckEntry, ReadSource,
          CheckTarget, AppendPointer, VerifyCitation, Commit, Audit, Withdraw, AuditFails,
          PersistFails, RenameFails, Queued
    <3> QED BY <2>2, <3>2 DEF ChangeSource
  <2> QED BY <2>1, <2>2
<1>5. ~Return(a) /\ ~Begin(a)
  BY <1>1 DEF Return, Goto, Begin, Propose, WriteBroken, Ingest
<1>6. ASSUME NextEntry(a), UNCHANGED <<outbox, run>>
      PROVE  /\ outbox'[a] = outbox[a] /\ run'[a] = run[a]
             /\ \A i \in Nat : Settled(a, i) => Settled(a, i)'
  BY <1>1, <1>6 DEF NextEntry, Goto
<1>7. ASSUME UNCHANGED <<at, outbox, run>>,
             stage[a] \notin {"auditing", "closing"} \/ stage'[a] \in {"auditing", "closing"}
      PROVE  /\ outbox'[a] = outbox[a] /\ run'[a] = run[a]
             /\ \A i \in Nat : Settled(a, i) => Settled(a, i)'
  BY <1>7
<1>8. CASE AgentAction(a)
  <2>1. CASE (Refuse(a) /\ UNCHANGED <<outbox, run>>) \/ Audit(a)
    BY <1>6, <1>8, <1>9, <2>1 DEF Refuse, Audit
  <2>2. CASE CheckEntry(a) \/ ReadSource(a) \/ CheckTarget(a) \/ VerifyCitation(a)
    <3>1. UNCHANGED <<outbox, run>> /\ stage[a] \notin {"auditing", "closing"}
      BY <2>2 DEF CheckEntry, ReadSource, CheckTarget, VerifyCitation
    <3>2. Refuse(a) \/ UNCHANGED at
      BY <2>2 DEF CheckEntry, ReadSource, CheckTarget, VerifyCitation, Mint
    <3> QED BY <1>7, <1>8, <1>9, <2>1, <3>1, <3>2
  <2>3. CASE AppendPointer(a) \/ Commit(a) \/ AuditFails(a) \/ ChangeSource(a)
    BY <1>1, <1>7, <2>3 DEF AppendPointer, Commit, AuditFails, ChangeSource, Goto
  <2>4. /\ ~Withdraw(a) /\ ~PersistFails(a) /\ ~RenameFails(a)
        /\ ~Rename(a) /\ ~Report(a) /\ ~ReportFails(a)
    BY <1>5, Endings DEF Withdraw, PersistFails, RenameFails
  <2> QED BY <1>5, <1>8, <1>9, <2>1, <2>2, <2>3, <2>4 DEF AgentAction, AgentStep
<1> QED BY <1>2, <1>3, <1>4, <1>8, <1>9, StepsByActor DEF Untouched

\* Nor does it become another Run's while what was rejected is reported.
LEMMA SameRun ==
    ASSUME Typed, Next, NEW a \in Agents, stage[a] # "idle", stage'[a] # "idle"
    PROVE  run'[a] = run[a]
<1>1. CASE stage'[a] # "reporting"
  BY <1>1, Progress
<1>2. CASE stage'[a] = "reporting"
  <2>1. stage \in [Agents -> Stages]
    BY DEF Typed, TypeOK
  <2>2. ASSUME NEW b \in Agents, AgentAction(b), b # a
        PROVE  run'[a] = run[a]
    BY <2>2, AgentFrame DEF AgentAction, Untouched
  <2>3. ~Return(a) /\ ~Begin(a) /\ ~Crash
    BY <1>2, <2>1 DEF Return, Goto, Begin, Propose, WriteBroken, Ingest, Crash
  <2>4. CASE AgentAction(a)
    BY <2>3, <2>4
    DEF AgentAction, AgentStep, ChangeSource, CheckEntry, ReadSource, CheckTarget, AppendPointer,
        VerifyCitation, Commit, Audit, Withdraw, Rename, Report, AuditFails, PersistFails,
        RenameFails, ReportFails
  <2> QED BY <2>2, <2>3, <2>4, RequestFrame, StepsByActor
<1> QED BY <1>1, <1>2

\* An outbox is begun by Ingest, and for a Run nothing was ingested for.
LEMMA Beginning ==
    ASSUME Typed, Next, NEW a \in Agents, stage[a] = "idle", stage'[a] # "idle"
    PROVE  \E r \in Runs : Ingest(a, r) /\ run'[a] = r
<1>1. /\ stage \in [Agents -> Stages] /\ run \in [Agents -> Runs \cup {None}]
  BY DEF Typed, TypeOK
<1>2. ASSUME NEW b \in Agents, AgentAction(b), b # a
      PROVE  FALSE
  BY <1>2, AgentFrame DEF AgentAction, Untouched
<1>3. CASE Tick \/ Crash \/ \E c \in Clients : RequestStep(c)
  BY <1>3, RequestFrame DEF Crash
<1>4. CASE AgentAction(a)
  <2>1. ~AgentStep(a) /\ ~AuditFails(a) /\ ~PersistFails(a) /\ ~RenameFails(a) /\ ~ReportFails(a)
    BY DEF AgentStep, CheckEntry, ReadSource, CheckTarget, AppendPointer, VerifyCitation,
           Commit, Audit, Withdraw, Rename, Report, AuditFails, PersistFails, RenameFails,
           ReportFails, Queued
  <2>2. ~Propose(a) /\ ~WriteBroken(a) /\ ~ChangeSource(a)
    BY DEF Propose, WriteBroken, ChangeSource
  <2>3. PICK r \in Runs : Ingest(a, r)
    BY <1>4, <2>1, <2>2 DEF AgentAction, Begin
  <2>4. run'[a] = r
    BY <1>1, <2>3 DEF Ingest
  <2> QED BY <2>3, <2>4
<1> QED BY <1>2, <1>3, <1>4, StepsByActor

\* A Run that is over stays over.
LEMMA UsedGrows == ASSUME Next PROVE used \subseteq used'
<1>1. ASSUME NEW a \in Agents, AgentAction(a)
      PROVE  used \subseteq used'
  BY <1>1
  DEF AgentAction, Begin, AgentStep, Propose, WriteBroken, Ingest, ChangeSource, CheckEntry,
      ReadSource, CheckTarget, AppendPointer, VerifyCitation, Commit, Audit, Withdraw, Rename,
      Report, AuditFails, PersistFails, RenameFails, ReportFails, DiskFails
<1>2. ASSUME NEW c \in Clients, RequestStep(c)
      PROVE  UNCHANGED used
  BY <1>2 DEF RequestStep, ClientStep, Grant, Deny, Govern, GovernFails,
              PersistFailsForRequest, DiskFails, Ask
<1>3. CASE Tick \/ Crash
  BY <1>3 DEF Tick, Crash
<1> QED BY <1>1, <1>2, <1>3, StepsByActor

\* No two Agents come to work for the same Run, and Evidence has a Run that is over.
LEMMA OwnRunsStep == ASSUME Typed, OwnRuns, Next PROVE OwnRuns'
<1> DEFINE Old(a) == stage[a] # "idle" /\ run'[a] = run[a]
           New(a) == stage[a] = "idle" /\ \E r \in Runs : Ingest(a, r) /\ run'[a] = r
<1>1. \A a \in Agents : stage'[a] # "idle" => Old(a) \/ New(a)
  BY SameRun, Beginning
<1>2. \A a \in Agents : Old(a) => run'[a] \in used
  BY DEF OwnRuns
<1>3. \A a \in Agents : New(a) => run'[a] \notin used /\ run'[a] \in used'
  BY DEF Ingest
<1>4. used \subseteq used'
  BY UsedGrows
<1>5. \A a \in Agents : stage'[a] # "idle" => run'[a] \in used'
  BY <1>1, <1>2, <1>3, <1>4
<1>6. ASSUME NEW a \in Agents, NEW b \in Agents,
             stage'[a] # "idle", stage'[b] # "idle", run'[a] = run'[b]
      PROVE  a = b
  <2>1. CASE Old(a) /\ Old(b)
    BY <1>6, <2>1 DEF OwnRuns
  <2>2. CASE New(a) /\ New(b)
    <3>1. AgentAction(b)
      BY <2>2 DEF AgentAction, Begin
    <3> QED BY <1>6, <2>2, <3>1, AgentFrame DEF AgentAction, Untouched
  <2> QED BY <1>1, <1>2, <1>3, <1>6, <2>1, <2>2
<1>7. \A v \in evidence' : v.id[2] \in used'
  <2>1. \A a \in Agents : Commit(a) => NewId(a)[2] \in used
    BY DEF Commit, NewId, OwnRuns
  <2> QED BY <1>4, <2>1, IdSteps DEF OwnRuns
<1> QED BY <1>5, <1>6, <1>7 DEF OwnRuns

\* The Evidence of the Run at work stays that of the entries that are settled.
LEMMA IngestedStep ==
    ASSUME Typed, NewIds, Next, NEW a \in Agents
    PROVE  IngestedAt(a)'
<1> SUFFICES ASSUME stage'[a] \notin {"idle", "reporting"}, NEW v \in evidence', v.id[2] = run'[a]
             PROVE  \E i \in DOMAIN outbox'[a] :
                        outbox'[a][i].claim = v.id[1] /\ Settled(a, i)'
  BY DEF IngestedAt
<1>1. CASE stage[a] = "idle"
  <2>1. PICK r \in Runs : Ingest(a, r) /\ run'[a] = r
    BY <1>1, Beginning
  <2>2. r \notin used /\ UNCHANGED evidence
    BY <2>1 DEF Ingest
  <2> QED BY <2>1, <2>2 DEF NewIds, OwnRuns
<1>2. CASE stage[a] # "idle"
  <2>1. /\ stage[a] # "reporting" /\ outbox'[a] = outbox[a] /\ run'[a] = run[a]
        /\ \A i \in Nat : Settled(a, i) => Settled(a, i)'
    BY <1>2, Progress
  <2>2. outbox[a] \in Seq(Entries) /\ at[a] \in Nat
    BY DEF Typed, TypeOK
  <2>3. CASE \E w \in evidence : w.id = v.id
    <3>1. PICK i \in DOMAIN outbox[a] : outbox[a][i].claim = v.id[1] /\ Settled(a, i)
      BY <1>2, <2>1, <2>3 DEF NewIds, IngestedAt
    <3>2. i \in Nat
      BY <2>2, <3>1
    <3> QED BY <2>1, <3>1, <3>2
  <2>4. ASSUME NEW b \in Agents, Commit(b), v.id = NewId(b)
        PROVE  \E i \in DOMAIN outbox'[a] :
                   outbox'[a][i].claim = v.id[1] /\ Settled(a, i)'
    <3>1. run[b] = run[a] /\ stage[b] # "idle"
      BY <2>1, <2>4 DEF NewId, Commit
    <3>2. b = a
      BY <1>2, <3>1 DEF NewIds, OwnRuns
    <3>3. at[a] \in DOMAIN outbox[a] /\ outbox[a][at[a]].claim = v.id[1]
      BY <2>4, <3>2 DEF Commit, NewId, Entry, Typed, Located, LocatedAt
    <3>4. at'[a] = at[a] /\ stage'[a] = "auditing"
      BY <2>4, <3>2 DEF Commit, Goto, Typed, TypeOK
    <3> QED BY <2>1, <3>3, <3>4 DEF Settled
  <2> QED BY <2>3, <2>4, IdSteps
<1> QED BY <1>1, <1>2

\* New ids stay new.
LEMMA NewIdsStep == Typed /\ NewIds /\ [Next]_vars => NewIds'
<1>1. ASSUME Typed, NewIds, Next
      PROVE  NewIds'
  BY <1>1, DistinctStep, OwnRunsStep, IngestedStep DEF NewIds
<1>2. ASSUME NewIds, UNCHANGED vars
      PROVE  NewIds'
  BY <1>2 DEF NewIds, DistinctClaims, OwnRuns, IngestedAt, Settled
<1> QED BY <1>1, <1>2

(***************************************************************************)
(* INV-8: the latest version is one, and it changes by succession only.    *)
(***************************************************************************)
UniqueVersions ==
    \A v, w \in evidence : v.id = w.id /\ v.version = w.version => v = w

\* Id and version name one record: the successor has a number no other has.
LEMMA UniqueStep == ASSUME Typed, NewIds, UniqueVersions, Next PROVE UniqueVersions'
<1> USE DEF UniqueVersions
<1>1. CASE UNCHANGED evidence
  BY <1>1
<1>2. ASSUME NEW a \in Agents, Commit(a)
      PROVE  UniqueVersions'
  <2>1. PICK x : x.id = NewId(a) /\ evidence' = evidence \cup {x}
    BY <1>2 DEF Commit
  <2>2. \A v \in evidence : v.id # x.id
    BY <1>2, <2>1, NewUnknown DEF Commit, Known
  <2> QED BY <2>1, <2>2
<1>3. ASSUME NEW e \in Ids, NEW status \in Statuses, Succeeds(e, status)
      PROVE  UniqueVersions'
  <2>1. PICK old, new :
            /\ old = [Current(e) EXCEPT !.closedAt = clock]
            /\ Current(e) \in evidence /\ Current(e).id = e
            /\ new.id = e /\ new.version = Current(e).version + 1
            /\ evidence' = (evidence \ {Current(e)}) \cup {old, new}
    BY <1>3, SuccessionFacts
  <2>2. Current(e) \in Versions /\ Current(e).version \in Nat
    BY <2>1 DEF Typed, TypeOK, Versions
  <2>3. old.id = e /\ old.version = Current(e).version
    BY <2>1, <2>2 DEF Versions
  <2>4. \A v \in evidence : v.version \in Nat /\ (v.id = e => v.version <= Current(e).version)
    BY <1>3, CurrentVersion DEF Typed, TypeOK, Versions, Succeeds, MayTransition
  <2>5. \A v \in evidence \ {Current(e)} : v.id = e => v.version # old.version
    BY <2>1, <2>3
  <2>6. \A v \in evidence : v.id = e => v.version # new.version
    BY <2>1, <2>2, <2>4
  <2>7. old.version # new.version
    BY <2>1, <2>2, <2>3
  <2>8. SUFFICES ASSUME NEW v \in evidence', NEW w \in evidence',
                        v.id = w.id, v.version = w.version
                 PROVE  v = w
    OBVIOUS
  <2>9. CASE v \in evidence \ {Current(e)} /\ w \in evidence \ {Current(e)}
    BY <2>8, <2>9
  <2>10. CASE v = old
    BY <2>1, <2>3, <2>5, <2>7, <2>8, <2>10
  <2>11. CASE v = new
    BY <2>1, <2>3, <2>6, <2>7, <2>8, <2>11
  <2>12. CASE v \in evidence \ {Current(e)} /\ w \in {old, new}
    BY <2>1, <2>3, <2>5, <2>6, <2>8, <2>12
  <2> QED BY <2>1, <2>9, <2>10, <2>11, <2>12
<1> QED BY <1>1, <1>2, <1>3, StoreSteps

\* What is REVOKED or COMPROMISED stays that.
LEMMA LostStep ==
    ASSUME Typed, NewIds, UniqueVersions, Next, NEW e \in Ids, Invalid(e)
    PROVE  Invalid(e)'
<1>1. Known(e) /\ Current(e).status \in Lost
  BY DEF Invalid, Lost
<1>2. /\ Current(e) \in evidence /\ Current(e).id = e
      /\ \A v \in evidence : v.id = e => v.version <= Current(e).version
  BY <1>1, CurrentVersion DEF Typed
<1>3. /\ Current(e)' \in evidence' /\ Current(e)'.id = e
      /\ \A v \in evidence' : v.id = e => v.version <= Current(e)'.version
  <2>1. \E v \in evidence' : v.id = e /\ \A w \in evidence' : w.id = e => w.version <= v.version
    BY <1>1, KnownStays, ToppedStep DEF Topped, Known
  <2> QED BY <2>1 DEF Current
<1>4. \A v \in evidence \cup evidence' : v.version \in Nat
  BY TypeStep DEF Typed, TypeOK, Versions
<1>5. SUFFICES Current(e)'.status \in Lost
  BY <1>1, KnownStays DEF Invalid, Lost
<1>6. ASSUME \A v \in evidence' : v.id = e <=> v \in evidence /\ v.id = e,
             \A v \in evidence : v.id = e => v \in evidence'
      PROVE  Current(e)'.status \in Lost
  <2>1. Current(e)' \in evidence /\ Current(e) \in evidence'
    BY <1>2, <1>3, <1>6
  <2>2. Current(e)'.version <= Current(e).version /\ Current(e).version <= Current(e)'.version
    BY <1>2, <1>3, <2>1
  <2>3. Current(e)'.version = Current(e).version
    BY <1>4, <2>1, <2>2
  <2>4. Current(e)' = Current(e)
    BY <1>2, <1>3, <2>1, <2>3 DEF UniqueVersions
  <2> QED BY <1>1, <2>4
<1>7. CASE UNCHANGED evidence
  BY <1>6, <1>7
<1>8. ASSUME NEW a \in Agents, Commit(a)
      PROVE  Current(e)'.status \in Lost
  <2>1. PICK x : x.id = NewId(a) /\ evidence' = evidence \cup {x}
    BY <1>8 DEF Commit
  <2>2. x.id # e
    BY <1>1, <1>8, <2>1, NewUnknown DEF Commit
  <2> QED BY <1>6, <2>1, <2>2
<1>9. ASSUME NEW f \in Ids, NEW status \in Statuses, Succeeds(f, status)
      PROVE  Current(e)'.status \in Lost
  <2>1. PICK old, new :
            /\ old = [Current(f) EXCEPT !.closedAt = clock]
            /\ Current(f) \in evidence /\ Current(f).id = f
            /\ new.id = f /\ new.version = Current(f).version + 1 /\ new.status = status
            /\ evidence' = (evidence \ {Current(f)}) \cup {old, new}
    BY <1>9, SuccessionFacts
  <2>2. Current(f) \in Versions /\ Current(f).version \in Nat
    BY <2>1 DEF Typed, TypeOK, Versions
  <2>3. old.id = f /\ old.version = Current(f).version
    BY <2>1, <2>2 DEF Versions
  <2>4. CASE f # e
    BY <1>6, <2>1, <2>3, <2>4
  <2>5. CASE f = e
    <3>1. new.version <= Current(e)'.version
      BY <1>3, <2>1, <2>5
    <3>2. ASSUME NEW v \in evidence', v.id = e, v # new
          PROVE  v.version < new.version
      <4>1. v.version \in Nat /\ new.version \in Nat
        BY <1>4, <2>1
      <4>2. v = old \/ v \in evidence
        BY <2>1, <3>2
      <4>3. v.version <= Current(e).version
        BY <1>2, <2>2, <2>3, <2>5, <3>2, <4>2
      <4> QED BY <2>1, <2>2, <2>5, <4>1, <4>3
    <3>3. Current(e)' = new
      BY <1>3, <1>4, <2>1, <2>2, <3>1, <3>2
    <3>4. status \in Lost
      BY <1>1, <1>9, <2>5 DEF Succeeds, Lost
    <3> QED BY <2>1, <3>3, <3>4
  <2> QED BY <2>4, <2>5
<1> QED BY <1>7, <1>8, <1>9, StoreSteps

\* What the ids and the versions are known to be.
Identified == Typed /\ NewIds /\ UniqueVersions

\* They are so of the empty store.
LEMMA IdentifiedInit == Init => Identified
  BY TypedInit
  DEF Init, Identified, NewIds, DistinctClaims, OwnRuns, IngestedAt, UniqueVersions

\* They stay so.
LEMMA IdentifiedStep == Identified /\ [Next]_vars => Identified'
<1>1. UniqueVersions /\ UNCHANGED vars => UniqueVersions'
  BY DEF UniqueVersions
<1> QED BY <1>1, TypedStep, NewIdsStep, UniqueStep DEF Identified

\* INV-8: whatever was under way when it was revoked or compromised.
THEOREM EvidenceInvalid == Spec => InvalidStaysInvalid
<1>1. Identified /\ [Next]_vars => [\A e \in Ids : Invalid(e) => Invalid(e)']_vars
  BY LostStep DEF Identified
<1> QED BY <1>1, IdentifiedInit, IdentifiedStep, PTL DEF Spec, InvalidStaysInvalid

(***************************************************************************)
(* INV-6.  The levels are compared when the source is read; until the      *)
(* commit other Evidence is created and ended.  The comparison stays good  *)
(* because a level is fixed by the id, and because what is compared with   *)
(* is in the store, where nothing new can take its id.                     *)
(***************************************************************************)
Graded ==
    /\ \A v, w \in evidence : v.id = w.id => v.level = w.level
    /\ \A v \in evidence : \A e \in v.contributors : Known(e)

\* The levels of some Evidence, in all its versions.
AtMost(level, S) == \A w \in evidence : w.id \in S => w.level <= level

GradedAt(a) ==
    /\ stage[a] \notin {"idle", "entry", "reporting"} => \A e \in Entry(a).contributors : Known(e)
    /\ stage[a] \in Holding => AtMost(Entry(a).level, Entry(a).contributors)

Compared == Graded /\ ClassificationMonotone /\ \A a \in Agents : GradedAt(a)

\* Versions after a step are like one before it, or committed by it.
LEMMA Twins ==
    ASSUME Typed, Next, NEW v \in evidence'
    PROVE  \/ \E w \in evidence : /\ w.id = v.id /\ w.level = v.level
                                  /\ w.contributors = v.contributors
           \/ \E a \in Agents : /\ Commit(a) /\ v.id = NewId(a) /\ v.level = Entry(a).level
                                /\ v.contributors = Entry(a).contributors
<1>1. CASE UNCHANGED evidence
  BY <1>1
<1>2. ASSUME NEW a \in Agents, Commit(a)
      PROVE  \/ v \in evidence
             \/ /\ v.id = NewId(a) /\ v.level = Entry(a).level
                /\ v.contributors = Entry(a).contributors
  BY <1>2 DEF Commit
<1>3. ASSUME NEW e \in Ids, NEW status \in Statuses, Succeeds(e, status)
      PROVE  \E w \in evidence : /\ w.id = v.id /\ w.level = v.level
                                 /\ w.contributors = v.contributors
  <2>1. PICK old, new :
            /\ old = [Current(e) EXCEPT !.closedAt = clock]
            /\ Current(e) \in evidence /\ Current(e).id = e
            /\ new.id = e
            /\ new.level = Current(e).level /\ new.contributors = Current(e).contributors
            /\ evidence' = (evidence \ {Current(e)}) \cup {old, new}
    BY <1>3, SuccessionFacts
  <2>2. /\ old.id = e /\ old.level = Current(e).level
        /\ old.contributors = Current(e).contributors
    <3>1. Current(e) \in Versions
      BY <2>1 DEF Typed, TypeOK
    <3> QED BY <2>1, <3>1 DEF Versions
  <2> QED BY <2>1, <2>2
<1> QED BY <1>1, <1>2, <1>3, StoreSteps

\* A comparison with Evidence that is in the store stays good.
LEMMA AtMostStays ==
    ASSUME Typed, NewIds, Next, NEW S, NEW level,
           \A e \in S : Known(e), AtMost(level, S)
    PROVE  \A v \in evidence' : v.id \in S => v.level <= level
<1> SUFFICES ASSUME NEW v \in evidence', v.id \in S
             PROVE  v.level <= level
  OBVIOUS
<1>1. \A a \in Agents : Commit(a) => NewId(a) \notin S
  BY NewUnknown DEF Commit
<1>2. PICK w \in evidence : w.id = v.id /\ w.level = v.level
  BY <1>1, Twins
<1> QED BY <1>2 DEF AtMost

\* createEvidence gets past the schema by CheckEntry only, and past the levels by
\* ReadSource only, and until it leaves the entry it is at the same one.
LEMMA SameEntry ==
    ASSUME Typed, Next, NEW a \in Agents, stage'[a] \notin {"idle", "entry", "reporting"}
    PROVE  /\ Entry(a)' = Entry(a)
           /\ stage[a] \notin {"idle", "entry", "reporting"} \/ CheckEntry(a)
           /\ stage'[a] \in Holding => stage[a] \in Holding \/ ReadSource(a)
<1> USE DEF Entry
<1>1. stage \in [Agents -> Stages]
  BY DEF Typed, TypeOK
<1>2. ASSUME NEW b \in Agents, AgentAction(b), b # a
      PROVE  Untouched(a)
  BY <1>2, AgentFrame DEF AgentAction
<1>3. CASE Tick \/ \E c \in Clients : RequestStep(c)
  BY <1>3, RequestFrame DEF Untouched
<1>4. CASE Crash
  BY <1>4 DEF Crash
<1>5. /\ ~Return(a) /\ ~NextEntry(a) /\ ~Refuse(a)
      /\ \A r \in Runs : ~Ingest(a, r) \/ stage'[a] = stage[a]
  BY <1>1 DEF Return, NextEntry, Refuse, Goto, Ingest
<1>6. CASE AgentAction(a)
  <2>1. CASE Propose(a) \/ WriteBroken(a) \/ \E r \in Runs : Ingest(a, r)
    BY <1>5, <2>1 DEF Propose, WriteBroken, Ingest
  <2>2. CASE CheckEntry(a)
    BY <1>1, <1>5, <2>2 DEF CheckEntry, Goto, Holding
  <2>3. CASE ReadSource(a)
    BY <1>5, <2>3 DEF ReadSource, Mint
  <2>4. CASE CheckTarget(a)
    BY <1>5, <2>4 DEF CheckTarget, Mint, Holding
  <2>5. CASE VerifyCitation(a)
    BY <1>5, <2>5 DEF VerifyCitation, Holding
  <2>6. CASE AppendPointer(a) \/ Commit(a) \/ AuditFails(a) \/ ChangeSource(a)
    BY <2>6 DEF AppendPointer, Commit, AuditFails, ChangeSource, Holding
  <2>7. /\ ~Audit(a) /\ ~Withdraw(a) /\ ~PersistFails(a) /\ ~RenameFails(a)
        /\ ~Rename(a) /\ ~Report(a) /\ ~ReportFails(a)
    BY <1>5, Endings DEF Audit, Withdraw, PersistFails, RenameFails
  <2> QED BY <1>6, <2>1, <2>2, <2>3, <2>4, <2>5, <2>6, <2>7 DEF AgentAction, Begin, AgentStep
<1>7. CASE Untouched(a)
  BY <1>7 DEF Untouched
<1> QED BY <1>2, <1>3, <1>4, <1>6, <1>7, StepsByActor

\* What is compared, and with what, stays known from the comparison to the commit.
LEMMA GradedAtStep ==
    ASSUME Typed, NewIds, Compared, Next, NEW a \in Agents
    PROVE  GradedAt(a)'
<1> SUFFICES ASSUME stage'[a] \notin {"idle", "entry", "reporting"}
             PROVE  GradedAt(a)'
  BY DEF GradedAt, Holding
<1> DEFINE S == Entry(a).contributors
           l == Entry(a).level
<1>1. /\ Entry(a)' = Entry(a)
      /\ stage[a] \notin {"idle", "entry", "reporting"} \/ CheckEntry(a)
      /\ stage'[a] \in Holding => stage[a] \in Holding \/ ReadSource(a)
  BY SameEntry
<1>2. \A e \in S : Known(e)
  <2>1. CASE CheckEntry(a)
    <3>1. stage \in [Agents -> Stages]
      BY DEF Typed, TypeOK
    <3>2. ~Refuse(a)
      BY <3>1 DEF Refuse, NextEntry, Goto
    <3> QED BY <2>1, <3>2 DEF CheckEntry
  <2>2. CASE stage[a] \notin {"idle", "entry", "reporting"}
    BY <2>2 DEF Compared, GradedAt
  <2> QED BY <1>1, <2>1, <2>2
<1>3. \A e \in S : Known(e)'
  BY <1>2, KnownStays
<1>4. ASSUME stage'[a] \in Holding
      PROVE  AtMost(l, S)
  <2>1. CASE stage[a] \in Holding
    BY <2>1 DEF Compared, GradedAt
  <2>2. CASE ReadSource(a)
    <3>1. stage \in [Agents -> Stages]
      BY DEF Typed, TypeOK
    <3>2. ~Refuse(a)
      BY <3>1 DEF Refuse, NextEntry, Goto
    <3>3. ~Weaker(Entry(a))
      BY <2>2, <3>2 DEF ReadSource
    <3>4. ASSUME NEW w \in evidence, w.id \in S
          PROVE  w.level <= l
      <4>1. Current(w.id) \in evidence /\ Current(w.id).id = w.id
        BY <1>2, <3>4, CurrentVersion DEF Typed
      <4>2. w.level = Current(w.id).level
        BY <4>1 DEF Compared, Graded
      <4>3. ~(w.level > l)
        BY <3>3, <3>4, <4>2 DEF Weaker
      <4>4. w.level \in Nat
        BY DataAssumption DEF Typed, TypeOK, Versions
      <4>5. l \in Nat
        <5>1. at[a] \in DOMAIN outbox[a]
          BY <2>2 DEF ReadSource, Typed, Located, LocatedAt
        <5> QED BY <5>1, EntryTyping, DataAssumption DEF Typed, Entries
      <4> QED BY <4>3, <4>4, <4>5
    <3> QED BY <3>4 DEF AtMost
  <2> QED BY <1>1, <1>4, <2>1, <2>2
<1>5. ASSUME stage'[a] \in Holding
      PROVE  \A v \in evidence' : v.id \in S => v.level <= l
  BY <1>2, <1>4, <1>5, AtMostStays
<1> QED BY <1>1, <1>3, <1>5 DEF GradedAt, AtMost

\* Evidence that is committed is as high as what it is derived from, and nothing
\* is derived from it yet.
LEMMA ComparedStep == ASSUME Typed, NewIds, Compared, Next PROVE Compared'
<1> DEFINE Like(v, w) == w.id = v.id /\ w.level = v.level /\ w.contributors = v.contributors
           Made(v, a) == /\ Commit(a) /\ v.id = NewId(a) /\ v.level = Entry(a).level
                         /\ v.contributors = Entry(a).contributors
<1>1. \A v \in evidence' :
          (\E w \in evidence : Like(v, w)) \/ (\E a \in Agents : Made(v, a))
  BY Twins
<1>2. ASSUME NEW a \in Agents, Commit(a)
      PROVE  /\ ~Known(NewId(a))
             /\ \A e \in Entry(a).contributors : Known(e)
             /\ AtMost(Entry(a).level, Entry(a).contributors)
  BY <1>2, NewUnknown DEF Compared, GradedAt, Commit, Holding
<1>3. ASSUME NEW v \in evidence', NEW a \in Agents, Made(v, a), NEW w \in evidence',
             NEW b \in Agents, Made(w, b)
      PROVE  a = b
  BY <1>3, AgentFrame DEF AgentAction, AgentStep, Commit, Untouched, Goto, Typed, TypeOK
<1>4. \A v, w \in evidence' : v.id = w.id => v.level = w.level
  BY <1>1, <1>2, <1>3 DEF Compared, Graded, Known
<1>5. \A v \in evidence' : \A e \in v.contributors : Known(e)
  BY <1>1, <1>2 DEF Compared, Graded
<1>6. Graded'
  BY <1>4, <1>5, KnownStays DEF Graded
<1>7. ASSUME NEW v \in evidence', NEW w \in evidence', w.id \in v.contributors
      PROVE  w.level <= v.level
  <2>1. Known(w.id)
    BY <1>5, <1>7
  <2>2. PICK x \in evidence : Like(w, x)
    BY <1>1, <1>2, <2>1
  <2>3. CASE \E y \in evidence : Like(v, y)
    BY <1>7, <2>2, <2>3 DEF Compared, ClassificationMonotone
  <2>4. CASE \E a \in Agents : Made(v, a)
    BY <1>2, <1>7, <2>2, <2>4 DEF AtMost
  <2> QED BY <1>1, <2>3, <2>4
<1> QED BY <1>6, <1>7, GradedAtStep DEF Compared, ClassificationMonotone

\* All this holds at the start and is kept.
LEMMA ComparedInit == Init => Identified /\ Compared
  BY IdentifiedInit
  DEF Init, Compared, Graded, GradedAt, AtMost, Holding, ClassificationMonotone

LEMMA ComparedKept == Identified /\ Compared /\ [Next]_vars => Identified' /\ Compared'
<1>1. ASSUME Compared, UNCHANGED vars
      PROVE  Compared'
  BY <1>1 DEF Compared, Graded, GradedAt, AtMost, Known, Entry, ClassificationMonotone
<1> QED BY <1>1, IdentifiedStep, ComparedStep DEF Identified

\* INV-6: derived Evidence is never classified below what it is derived from.
THEOREM EvidenceClassified == Spec => []ClassificationMonotone
<1>1. Compared => ClassificationMonotone
  BY DEF Compared
<1> QED BY <1>1, ComparedInit, ComparedKept, PTL DEF Spec

(***************************************************************************)
(* The latest version.  It is the one that is open, and it changes by      *)
(* succession only.                                                        *)
(***************************************************************************)
\* What the latest version becomes when it is succeeded.
Successor(v, status) ==
    [v EXCEPT !.version = @ + 1, !.status = status, !.recordedAt = clock]

\* What a commit adds.
NewEvidence(a) ==
    [id |-> NewId(a), version |-> 1, status |-> "ACTIVE", level |-> Entry(a).level,
     contributors |-> Entry(a).contributors, replaces |-> Entry(a).replaces,
     pointer |-> Pointer(a), recordedAt |-> stamp[a], closedAt |-> Open]

\* After a step, a version no other exceeds is the latest.
LEMMA CurrentNext ==
    ASSUME Identified', NEW v \in evidence',
           \A w \in evidence' : w.id = v.id => w.version <= v.version
    PROVE  Current(v.id)' = v
<1> DEFINE c == Current(v.id)'
<1>1. c \in evidence' /\ c.id = v.id /\ \A w \in evidence' : w.id = v.id => w.version <= c.version
  BY DEF Current
<1>2. c.version \in Nat /\ v.version \in Nat
  BY <1>1 DEF Identified, Typed, TypeOK, Versions
<1>3. c.version = v.version
  BY <1>1, <1>2
<1> QED BY <1>1, <1>3 DEF Identified, UniqueVersions

\* A transition closes the latest version of one Evidence and puts another there.
LEMMA SucceedsNext ==
    ASSUME Identified, Next, NEW e \in Ids, NEW status \in Statuses, Succeeds(e, status)
    PROVE  /\ Current(e)' = Successor(Current(e), status)
           /\ \A f \in Ids : f # e /\ Known(f) => Current(f)' = Current(f)
           /\ evidence' = (evidence \ {Current(e)}) \cup
                              {[Current(e) EXCEPT !.closedAt = clock], Current(e)'}
           /\ Current(e) \in evidence /\ Current(e) \in Versions /\ Current(e).id = e
<1> DEFINE v == Current(e)
           old == [v EXCEPT !.closedAt = clock]
           new == Successor(v, status)
<1>1. Identified'
  BY IdentifiedStep
<1>2. /\ v \in evidence /\ v \in Versions /\ v.id = e
      /\ \A w \in evidence : w.id = e => w.version <= v.version
  BY CurrentVersion DEF Succeeds, MayTransition, Identified, Typed, TypeOK
<1>3. evidence' = (evidence \ {v}) \cup {old, new}
  BY DEF Succeeds, Transition, Successor
<1>4. /\ old.id = e /\ old.version = v.version /\ v.version \in Nat
      /\ new.id = e /\ new.version = v.version + 1
  BY <1>2 DEF Versions, Successor
<1>5. evidence \subseteq Versions /\ \A w \in evidence : w.version \in Nat
  BY DEF Identified, Typed, TypeOK, Versions
<1> HIDE DEF v, old, new
<1>6. \A w \in evidence' : w.id = e => w.version <= new.version
  <2>1. \A w \in evidence : w.id = e => w.version <= v.version + 1
    BY <1>2, <1>4, <1>5
  <2> QED BY <1>3, <1>4, <2>1
<1>7. Current(e)' = new
  <2>1. new \in evidence' /\ \A w \in evidence' : w.id = new.id => w.version <= new.version
    BY <1>3, <1>4, <1>6
  <2>2. PICK x : x = new
    OBVIOUS
  <2>3. Current(x.id)' = x
    BY <1>1, <2>1, <2>2, CurrentNext
  <2> QED BY <1>4, <2>2, <2>3
<1>8. ASSUME NEW f \in Ids, f # e, Known(f)
      PROVE  Current(f)' = Current(f)
  <2>1. PICK x : x = Current(f)
    OBVIOUS
  <2>2. x \in evidence /\ x.id = f /\ \A w \in evidence : w.id = f => w.version <= x.version
    BY <1>8, <2>1, CurrentVersion DEF Identified, Typed
  <2>3. x \in evidence' /\ \A w \in evidence' : w.id = f => w.version <= x.version
    BY <1>2, <1>3, <1>4, <1>8, <2>2
  <2>4. Current(x.id)' = x
    BY <1>1, <2>2, <2>3, CurrentNext
  <2> QED BY <2>1, <2>2, <2>4
<1> QED BY <1>2, <1>3, <1>7, <1>8 DEF v, old, new

\* A commit adds a first version, and leaves the others the latest they were.
LEMMA CommitNext ==
    ASSUME Identified, Next, NEW a \in Agents, Commit(a),
           NEW e, e = NewId(a), NEW x, x = NewEvidence(a)
    PROVE  /\ ~Known(e)
           /\ evidence' = evidence \cup {x}
           /\ x.id = e /\ Current(e)' = x
           /\ \A f : Known(f) => f # e /\ Current(f)' = Current(f)
<1>1. Identified'
  BY IdentifiedStep
<1>2. ~Known(e)
  BY NewUnknown DEF Identified, Commit
<1>3. evidence' = evidence \cup {x} /\ x.id = e /\ x.version = 1
  BY DEF Commit, NewEvidence
<1>4. \A w \in evidence' : w.id = e => w = x
  BY <1>2, <1>3 DEF Known
<1>5. Current(e)' = x
  <2>1. x \in evidence' /\ \A w \in evidence' : w.id = x.id => w.version <= x.version
    <3>1. \A w \in evidence' : w.id = x.id => w.version = 1
      BY <1>3, <1>4
    <3> QED BY <1>3, <3>1
  <2>2. Current(x.id)' = x
    BY <1>1, <2>1, CurrentNext
  <2> QED BY <1>3, <2>2
<1>6. ASSUME NEW f, Known(f)
      PROVE  f # e /\ Current(f)' = Current(f)
  <2>1. PICK y : y = Current(f)
    OBVIOUS
  <2>2. y \in evidence /\ y.id = f /\ \A w \in evidence : w.id = f => w.version <= y.version
    BY <1>6, <2>1, CurrentVersion DEF Identified, Typed
  <2>3. f # e
    BY <1>2, <1>6
  <2>4. y \in evidence' /\ \A w \in evidence' : w.id = f => w.version <= y.version
    BY <1>3, <2>2, <2>3
  <2>5. Current(y.id)' = y
    BY <1>1, <2>2, <2>4, CurrentNext
  <2> QED BY <2>1, <2>2, <2>3, <2>5
<1> QED BY <1>2, <1>3, <1>5, <1>6

\* The latest version is the one that is not closed.
OpenIsCurrent == \A v \in evidence : v.closedAt = Open <=> v = Current(v.id)

\* Closing the latest and putting an open one behind it keeps that so.
LEMMA OpenStep == ASSUME Identified, OpenIsCurrent, Next PROVE OpenIsCurrent'
<1> SUFFICES ASSUME NEW v \in evidence'
             PROVE  v.closedAt = Open <=> v = Current(v.id)'
  BY DEF OpenIsCurrent
<1>1. CASE UNCHANGED evidence
  BY <1>1 DEF OpenIsCurrent, Current
<1>2. ASSUME NEW a \in Agents, Commit(a)
      PROVE  v.closedAt = Open <=> v = Current(v.id)'
  <2>1. PICK e, x : e = NewId(a) /\ x = NewEvidence(a)
    OBVIOUS
  <2>2. /\ evidence' = evidence \cup {x} /\ x.id = e /\ x.closedAt = Open
        /\ Current(e)' = x /\ \A f : Known(f) => f # e /\ Current(f)' = Current(f)
    <3>1. x.closedAt = Open
      BY <2>1 DEF NewEvidence
    <3> QED BY <1>2, <2>1, <3>1, CommitNext
  <2>3. CASE v = x
    BY <2>2, <2>3
  <2>4. CASE v \in evidence
    <3>1. Known(v.id)
      BY <2>4 DEF Known
    <3> QED BY <2>2, <2>4, <3>1 DEF OpenIsCurrent
  <2> QED BY <2>2, <2>3, <2>4
<1>3. ASSUME NEW e \in Ids, NEW status \in Statuses, Succeeds(e, status)
      PROVE  v.closedAt = Open <=> v = Current(v.id)'
  <2>1. PICK cur, new, old :
            cur = Current(e) /\ new = Current(e)' /\ old = [Current(e) EXCEPT !.closedAt = clock]
    OBVIOUS
  <2>2. /\ new = Successor(cur, status)
        /\ evidence' = (evidence \ {cur}) \cup {old, new}
        /\ cur \in Versions /\ cur \in evidence /\ cur.id = e
        /\ \A f \in Ids : f # e /\ Known(f) => Current(f)' = Current(f)
    BY <1>3, <2>1, SucceedsNext
  <2>3. cur.closedAt = Open /\ clock \in Times /\ MaxClock \in Nat
    BY <1>3, <2>1, BoundsAssumption DEF Succeeds, MayTransition, Identified, Typed, TypeOK
  <2>4. new.id = e /\ new.closedAt = Open /\ old.id = e /\ old.closedAt = clock
    BY <2>1, <2>2, <2>3 DEF Successor, Versions
  <2>5. clock # Open
    BY <2>3 DEF Times, Open
  <2>6. CASE v = new
    BY <2>1, <2>4, <2>6
  <2>7. CASE v = old
    BY <2>1, <2>4, <2>5, <2>7
  <2>8. CASE v \in evidence \ {cur}
    <3>1. v.id \in Ids /\ Known(v.id)
      BY <2>8 DEF Identified, Typed, TypeOK, Versions, Known
    <3>2. CASE v.id # e
      BY <2>2, <2>8, <3>1, <3>2 DEF OpenIsCurrent
    <3>3. CASE v.id = e
      <4>1. v.closedAt # Open
        BY <2>1, <2>8, <3>3 DEF OpenIsCurrent
      <4>2. v # new
        BY <2>4, <4>1
      <4> QED BY <2>1, <3>3, <4>1, <4>2
    <3> QED BY <3>2, <3>3
  <2> QED BY <2>2, <2>6, <2>7, <2>8
<1> QED BY <1>1, <1>2, <1>3, StoreSteps DEF Identified

(***************************************************************************)
(* Time.  No version is recorded or closed in the future, so the successor *)
(* takes over at the clock from the one that is closed at it, and from all *)
(* that were closed before.                                                *)
(***************************************************************************)
Timed ==
    /\ \A v \in evidence : v.recordedAt <= clock /\ (v.closedAt = Open \/ v.closedAt <= clock)
    /\ \A a \in Agents : stamp[a] <= clock

\* Nothing is dated ahead of the clock.
LEMMA TimedStep == ASSUME Identified, Timed, Next PROVE Timed'
<1>1. /\ clock \in Nat /\ clock' \in Nat /\ clock <= clock'
      /\ \A v \in evidence : v.recordedAt \in Nat /\ (v.closedAt = Open \/ v.closedAt \in Nat)
      /\ \A v \in evidence' : v.recordedAt \in Nat
      /\ stamp \in [Agents -> Nat]
  <2>1. TypeOK /\ TypeOK' /\ (clock' = clock \/ clock' = clock + 1)
    <3>1. clock' = clock \/ clock' = clock + 1
      BY Advances
    <3> QED BY <3>1, TypeStep DEF Identified, Typed
  <2> QED BY <2>1, BoundsAssumption DEF TypeOK, Versions, Times
<1>2. ASSUME NEW a \in Agents
      PROVE  stamp'[a] <= clock'
  <2>1. stamp'[a] \in {stamp[a], clock, 0}
    <3>1. \A b \in Agents : Forget(b) => stamp'[a] \in {stamp[a], 0}
      BY <1>1 DEF Forget
    <3>2. \A b \in Agents : NextEntry(b) \/ Return(b) \/ Refuse(b) => Forget(b)
      BY DEF NextEntry, Return, Refuse
    <3>3. \A b \in Agents : \A c : Mint(b, c) => stamp'[a] \in {stamp[a], clock}
      BY <1>1 DEF Mint
    <3>4. ASSUME NEW b \in Agents, AgentAction(b)
          PROVE  stamp'[a] \in {stamp[a], clock, 0}
      <4>1. CASE Begin(b) \/ ChangeSource(b) \/ AuditFails(b)
        BY <4>1 DEF Begin, Propose, WriteBroken, Ingest, ChangeSource, AuditFails, locals
      <4>2. CASE CheckEntry(b) \/ ReadSource(b) \/ CheckTarget(b) \/ VerifyCitation(b)
        BY <4>2, <3>1, <3>2, <3>3 DEF CheckEntry, ReadSource, CheckTarget, VerifyCitation
      <4>3. CASE AppendPointer(b) \/ Commit(b)
        BY <4>3 DEF AppendPointer, Commit, locals
      <4>4. CASE \/ Audit(b) \/ Withdraw(b) \/ Rename(b) \/ Report(b)
                 \/ PersistFails(b) \/ RenameFails(b) \/ ReportFails(b)
        BY <4>4, <3>1, <3>2
        DEF Audit, Withdraw, Rename, Report, PersistFails, RenameFails, ReportFails
      <4> QED BY <3>4, <4>1, <4>2, <4>3, <4>4 DEF AgentAction, AgentStep
    <3>5. CASE Crash
      BY <3>5 DEF Crash
    <3> QED BY <3>4, <3>5, StepsByActor, RequestFrame
  <2> QED BY <1>1, <2>1 DEF Timed
<1>3. ASSUME NEW v \in evidence'
      PROVE  v.recordedAt <= clock' /\ (v.closedAt = Open \/ v.closedAt <= clock')
  <2>1. CASE v \in evidence
    BY <1>1, <2>1 DEF Timed
  <2>2. ASSUME NEW a \in Agents, Commit(a), v \notin evidence
        PROVE  v.recordedAt = stamp[a] /\ v.closedAt = Open
    BY <2>2 DEF Commit
  <2>3. ASSUME NEW e \in Ids, NEW status \in Statuses, Succeeds(e, status), v \notin evidence
        PROVE  v.recordedAt <= clock /\ (v.closedAt = Open \/ v.closedAt = clock)
    <3>1. PICK cur : cur = Current(e)
      OBVIOUS
    <3>2. /\ cur \in evidence /\ cur \in Versions /\ cur.closedAt = Open
          /\ v \in {[cur EXCEPT !.closedAt = clock],
                    [cur EXCEPT !.version = @ + 1, !.status = status, !.recordedAt = clock]}
      BY <2>3, <3>1, SucceedsNext DEF Succeeds, Transition, MayTransition
    <3>3. cur.recordedAt <= clock
      BY <3>2 DEF Timed
    <3>4. CASE v = [cur EXCEPT !.closedAt = clock]
      BY <3>2, <3>3, <3>4 DEF Versions
    <3>5. CASE v = [cur EXCEPT !.version = @ + 1, !.status = status, !.recordedAt = clock]
      BY <1>1, <3>2, <3>5 DEF Versions
    <3> QED BY <3>2, <3>4, <3>5
  <2>4. CASE v \notin evidence
    <3>1. (\E a \in Agents : Commit(a))
          \/ \E e \in Ids, status \in Statuses : Succeeds(e, status)
      BY <2>4, StoreSteps DEF Identified
    <3>2. CASE \E a \in Agents : Commit(a)
      BY <1>1, <2>2, <2>4, <3>2 DEF Timed
    <3>3. CASE \E e \in Ids, status \in Statuses : Succeeds(e, status)
      BY <1>1, <2>3, <2>4, <3>3
    <3> QED BY <3>1, <3>2, <3>3
  <2> QED BY <2>1, <2>4
<1> QED BY <1>2, <1>3 DEF Timed

\* At any time, one version of what is known then is known.
LEMMA KnownStep ==
    ASSUME Identified, Timed, OpenIsCurrent, OneVersionKnown, Next
    PROVE  OneVersionKnown'
<1> SUFFICES ASSUME NEW v \in evidence', NEW t \in v.recordedAt .. MaxClock
             PROVE  \E w \in KnownAt(v.id, t)' : KnownAt(v.id, t)' = {w}
  BY DEF OneVersionKnown
<1> DEFINE In(w, e) == w.id = e /\ w.recordedAt <= t /\ t < w.closedAt
<1>1. KnownAt(v.id, t)' = {w \in evidence' : In(w, v.id)}
  BY DEF KnownAt
<1>2. /\ evidence \subseteq Versions /\ evidence' \subseteq Versions
      /\ clock \in Nat /\ clock <= MaxClock /\ MaxClock \in Nat
      /\ \A w \in Versions :
             w.recordedAt \in Nat /\ w.closedAt \in Nat
  <2>1. TypeOK /\ TypeOK' /\ MaxClock \in Nat
    BY IdentifiedStep, BoundsAssumption DEF Identified, Typed
  <2>2. Times \subseteq Nat /\ Open \in Nat /\ \A n \in Times : n <= MaxClock
    BY <2>1 DEF Times, Open
  <2>3. \A w \in Versions : w.recordedAt \in Nat /\ w.closedAt \in Nat
    BY <2>2 DEF Versions
  <2> QED BY <2>1, <2>2, <2>3 DEF TypeOK
<1>3. t \in Nat /\ v.recordedAt <= t /\ t <= MaxClock /\ t < Open
  BY <1>2 DEF Open
<1>4. ASSUME NEW u \in evidence, u.recordedAt <= t
      PROVE  \E w \in evidence : {x \in evidence : In(x, u.id)} = {w}
  <2>1. t \in u.recordedAt .. MaxClock
    BY <1>2, <1>3, <1>4
  <2> QED BY <2>1 DEF OneVersionKnown, KnownAt
<1>5. CASE UNCHANGED evidence
  BY <1>1, <1>3, <1>4, <1>5
<1>6. ASSUME NEW a \in Agents, Commit(a)
      PROVE  \E w \in evidence' : {x \in evidence' : In(x, v.id)} = {w}
  <2>1. PICK e, x : e = NewId(a) /\ x = NewEvidence(a)
    OBVIOUS
  <2>2. /\ ~Known(e) /\ evidence' = evidence \cup {x} /\ x.id = e /\ x.closedAt = Open
    <3>1. x.closedAt = Open
      BY <2>1 DEF NewEvidence
    <3> QED BY <1>6, <2>1, <3>1, CommitNext
  <2>3. CASE v = x
    BY <1>3, <2>2, <2>3 DEF Known
  <2>4. CASE v \in evidence
    <3>1. {y \in evidence' : In(y, v.id)} = {y \in evidence : In(y, v.id)}
      BY <2>2, <2>4 DEF Known
    <3> QED BY <1>3, <1>4, <2>2, <2>4, <3>1
  <2> QED BY <2>2, <2>3, <2>4
<1>7. ASSUME NEW e \in Ids, NEW status \in Statuses, Succeeds(e, status)
      PROVE  \E w \in evidence' : {x \in evidence' : In(x, v.id)} = {w}
  <2>1. PICK cur, new, old :
            cur = Current(e) /\ new = Current(e)' /\ old = [Current(e) EXCEPT !.closedAt = clock]
    OBVIOUS
  <2>2. /\ new = Successor(cur, status)
        /\ evidence' = (evidence \ {cur}) \cup {old, new}
        /\ cur \in Versions /\ cur \in evidence /\ cur.id = e
    BY <1>7, <2>1, SucceedsNext
  <2>3. cur.closedAt = Open /\ cur.recordedAt <= clock
    BY <1>7, <2>1, <2>2 DEF Succeeds, MayTransition, Timed
  <2>4. /\ new.id = e /\ new.closedAt = Open /\ new.recordedAt = clock
        /\ old.id = e /\ old.closedAt = clock /\ old.recordedAt = cur.recordedAt
    BY <2>1, <2>2, <2>3 DEF Successor, Versions
  <2>5. CASE v.id # e
    <3>1. v \in evidence
      BY <2>2, <2>4, <2>5
    <3>2. {x \in evidence' : In(x, v.id)} = {x \in evidence : In(x, v.id)}
      BY <2>2, <2>4, <2>5
    <3>3. PICK w \in evidence : {x \in evidence : In(x, v.id)} = {w}
      BY <1>3, <1>4, <3>1
    <3> QED BY <3>2, <3>3
  <2>6. CASE v.id = e /\ t < clock
    <3>1. PICK u \in evidence : u.id = e /\ u.recordedAt <= t
      BY <1>2, <1>3, <2>2, <2>4, <2>6
    <3>2. PICK w \in evidence : {x \in evidence : In(x, e)} = {w}
      BY <1>4, <3>1
    <3>3. ~In(new, e) /\ (In(old, e) <=> In(cur, e))
      BY <1>2, <1>3, <2>2, <2>3, <2>4, <2>6
    <3>4. CASE w = cur
      <4>1. {x \in evidence' : In(x, e)} = {old}
        BY <2>2, <3>2, <3>3, <3>4
      <4> QED BY <2>2, <2>6, <4>1
    <3>5. CASE w # cur
      <4>1. {x \in evidence' : In(x, e)} = {w}
        BY <2>2, <3>2, <3>3, <3>5
      <4> QED BY <2>6, <4>1
    <3> QED BY <3>4, <3>5
  <2>7. CASE v.id = e /\ clock <= t
    <3>1. In(new, e) /\ ~In(old, e)
      BY <1>2, <1>3, <2>4, <2>7
    <3>2. ASSUME NEW x \in evidence, x # cur, x.id = e
          PROVE  ~In(x, e)
      <4>1. x.closedAt # Open
        BY <2>1, <3>2 DEF OpenIsCurrent
      <4>2. x.closedAt <= clock
        BY <4>1 DEF Timed
      <4> QED BY <1>2, <1>3, <2>7, <4>2
    <3>3. {x \in evidence' : In(x, e)} = {new}
      BY <2>2, <3>1, <3>2
    <3> QED BY <2>2, <2>7, <3>3
  <2> QED BY <1>2, <1>3, <2>5, <2>6, <2>7
<1> QED BY <1>1, <1>5, <1>6, <1>7, StoreSteps DEF Identified

\* One version of Evidence is known at any time since it was first recorded: a
\* transition leaves no gap in its history and no overlap.
THEOREM EvidenceKnown == Spec => []OneVersionKnown
<1> DEFINE Inv == Identified /\ Timed /\ OpenIsCurrent /\ OneVersionKnown
<1>1. Init => Inv
  BY IdentifiedInit, BoundsAssumption DEF Init, Timed, OpenIsCurrent, OneVersionKnown
<1>2. Inv /\ [Next]_vars => Inv'
  <2>1. CASE Inv /\ UNCHANGED vars
    BY <2>1, IdentifiedStep
    DEF vars, store, locals, env, Timed, OpenIsCurrent, OneVersionKnown, KnownAt, Current
  <2>2. CASE Inv /\ Next
    BY <2>2, IdentifiedStep, TimedStep, OpenStep, KnownStep
  <2> QED BY <2>1, <2>2
<1>3. Inv => OneVersionKnown
  OBVIOUS
<1> HIDE DEF Inv
<1> QED BY <1>1, <1>2, <1>3, PTL DEF Spec

(***************************************************************************)
(* What can be used is audited, and what is not has been left behind: by   *)
(* the death of the server, which leaves the Evidence each Agent was about *)
(* to have recorded or withdrawn, or by a write that fails when Evidence   *)
(* the ledger has refused is withdrawn.                                    *)
(***************************************************************************)
\* Evidence that is ACTIVE after a step was before, or is what was committed.
LEMMA UsableBefore ==
    ASSUME Identified, Next, NEW e \in Ids, Known(e)', Current(e)'.status = "ACTIVE"
    PROVE  \/ Known(e) /\ Current(e).status = "ACTIVE"
           \/ \E a \in Agents : Commit(a) /\ e = NewId(a)
<1>1. CASE UNCHANGED evidence
  BY <1>1 DEF Known, Current
<1>2. ASSUME NEW a \in Agents, Commit(a), e # NewId(a)
      PROVE  Known(e) /\ Current(e).status = "ACTIVE"
  <2>1. PICK d, x : d = NewId(a) /\ x = NewEvidence(a)
    OBVIOUS
  <2>2. evidence' = evidence \cup {x} /\ x.id = d /\ \A f : Known(f) => Current(f)' = Current(f)
    BY <1>2, <2>1, CommitNext
  <2>3. Known(e)
    BY <1>2, <2>1, <2>2 DEF Known
  <2> QED BY <2>2, <2>3
<1>3. ASSUME NEW f \in Ids, NEW status \in Statuses, Succeeds(f, status)
      PROVE  Known(e) /\ Current(e).status = "ACTIVE"
  <2>1. PICK cur, new : cur = Current(f) /\ new = Current(f)'
    OBVIOUS
  <2>2. /\ new = Successor(cur, status) /\ cur \in Versions /\ cur \in evidence /\ cur.id = f
        /\ evidence' = (evidence \ {cur}) \cup {[cur EXCEPT !.closedAt = clock], new}
        /\ \A d \in Ids : d # f /\ Known(d) => Current(d)' = Current(d)
    BY <1>3, <2>1, SucceedsNext
  <2>3. new.status = status /\ new.id = f /\ [cur EXCEPT !.closedAt = clock].id = f
    BY <2>2 DEF Successor, Versions
  <2>4. e # f
    BY <1>3, <2>1, <2>3 DEF Succeeds
  <2>5. Known(e)
    BY <2>2, <2>3, <2>4 DEF Known
  <2> QED BY <2>2, <2>4, <2>5
<1> QED BY <1>1, <1>2, <1>3, StoreSteps DEF Identified

\* Evidence that is withdrawn is not ACTIVE.
LEMMA WithdrawEnds ==
    ASSUME Identified, OpenIsCurrent, Next, NEW a \in Agents, Withdraw(a),
           NEW e \in Ids, e = NewId(a), Known(e), Current(e).status = "ACTIVE"
    PROVE  Current(e)'.status = "COMPROMISED"
<1>1. Current(e) \in evidence /\ Current(e).id = e
  BY CurrentVersion DEF Identified, Typed
<1>2. MayTransition(e, {"ACTIVE"})
  BY <1>1 DEF OpenIsCurrent, MayTransition
<1>3. Succeeds(e, "COMPROMISED")
  BY <1>2 DEF Withdraw, FailClosed, Succeeds, MayTransition, Statuses, Lost
<1>4. PICK cur, new : cur = Current(e) /\ new = Current(e)'
  OBVIOUS
<1>5. new = Successor(cur, "COMPROMISED") /\ cur \in Versions
  BY <1>3, <1>4, SucceedsNext DEF Statuses
<1>6. new.status = "COMPROMISED"
  BY <1>5 DEF Successor, Versions
<1> QED BY <1>4, <1>6

\* What is in the ledger stays.
LEMMA AuditedGrows == ASSUME Next PROVE audited \subseteq audited'
  BY Advances

\* The createEvidence that is about to have its Evidence recorded or withdrawn.
AttendedBy(a, e) == stage[a] \in {"auditing", "closing"} /\ NewId(a) = e

\* createEvidence stays at what it committed until that is audited or withdrawn, or a
\* fault makes it leave.
LEMMA Attendance ==
    ASSUME Identified, OpenIsCurrent, Next, NEW e \in Ids, Usable(e), Usable(e)',
           <<e, 1>> \notin audited', NEW a \in Agents, AttendedBy(a, e)
    PROVE  \/ AttendedBy(a, e)'
           \/ PersistFails(a) /\ stage[a] = "closing"
           \/ Crash
<1> USE DEF AttendedBy
<1>1. stage \in [Agents -> Stages]
  BY DEF Identified, Typed, TypeOK
<1>2. ASSUME NEW b \in Agents, AgentAction(b), b # a
      PROVE  AttendedBy(a, e)'
  BY <1>2, AgentFrame DEF AgentAction, Untouched, NewId, Entry, Identified
<1>3. CASE Tick \/ \E c \in Clients : RequestStep(c)
  BY <1>3, RequestFrame DEF NewId, Entry
<1>4. CASE AgentAction(a)
  <2>1. ~Begin(a) /\ ~CheckEntry(a) /\ ~ReadSource(a) /\ ~CheckTarget(a) /\ ~AppendPointer(a)
        /\ ~VerifyCitation(a) /\ ~Commit(a) /\ ~Rename(a) /\ ~RenameFails(a)
        /\ ~Report(a) /\ ~ReportFails(a)
    BY DEF Begin, Propose, WriteBroken, Ingest, CheckEntry, ReadSource, CheckTarget,
           AppendPointer, VerifyCitation, Commit, Rename, RenameFails, Report, ReportFails
  <2>2. ~Withdraw(a)
    BY WithdrawEnds DEF Usable
  <2>3. ~Audit(a)
    BY DEF Audit
  <2>4. PersistFails(a) => stage[a] = "closing"
    BY DEF PersistFails, Queued
  <2>5. CASE ChangeSource(a) \/ AuditFails(a)
    BY <1>1, <2>5 DEF ChangeSource, AuditFails, Goto, NewId, Entry
  <2> QED BY <1>4, <2>1, <2>2, <2>3, <2>4, <2>5 DEF AgentAction, AgentStep
<1> QED BY <1>2, <1>3, <1>4, StepsByActor

\* Evidence is left behind by these two faults only.
LEMMA StrandedSteps ==
    ASSUME Identified, OpenIsCurrent, Next
    PROVE  \/ Stranded' \subseteq Stranded
           \/ \E a \in Agents : /\ PersistFails(a) /\ stage[a] = "closing"
                                /\ Stranded' \subseteq Stranded \cup {NewId(a)}
           \/ Crash /\ Stranded' \subseteq Stranded \cup {NewId(a) : a \in Agents}
<1>1. ASSUME NEW e \in Stranded', e \notin Stranded
      PROVE  \E a \in Agents : /\ AttendedBy(a, e)
                               /\ (PersistFails(a) /\ stage[a] = "closing") \/ Crash
  <2>1. /\ e \in Ids /\ Usable(e)' /\ <<e, 1>> \notin audited'
        /\ \A a \in Agents : ~AttendedBy(a, e)'
    BY <1>1 DEF Stranded, Attended, AttendedBy
  <2>2. ASSUME NEW a \in Agents, Commit(a), e = NewId(a)
        PROVE  AttendedBy(a, e)'
    BY <2>2 DEF Commit, Goto, NewId, Entry, AttendedBy, Identified, Typed, TypeOK
  <2>3. Usable(e)
    BY <2>1, <2>2, UsableBefore DEF Usable
  <2>4. <<e, 1>> \notin audited
    BY <2>1, AuditedGrows
  <2>5. PICK a \in Agents : AttendedBy(a, e)
    BY <1>1, <2>1, <2>3, <2>4 DEF Stranded, Attended, AttendedBy
  <2> QED BY <2>1, <2>3, <2>5, Attendance
<1>2. CASE Crash
  BY <1>1, <1>2 DEF AttendedBy
<1>3. ASSUME NEW a \in Agents, PersistFails(a), stage[a] = "closing", ~Crash
      PROVE  Stranded' \subseteq Stranded \cup {NewId(a)}
  <2>1. \A b \in Agents : PersistFails(b) => b = a
    BY <1>3 DEF PersistFails, InTurn
  <2> QED BY <1>1, <1>3, <2>1 DEF AttendedBy
<1>4. CASE ~Crash /\ \A a \in Agents : ~(PersistFails(a) /\ stage[a] = "closing")
  BY <1>1, <1>4
<1> QED BY <1>2, <1>3, <1>4

\* What the ledger refused and is being withdrawn; each was a failure of its own.
Closing == {a \in Agents : stage[a] = "closing"}

\* Only another refusal makes it more.
LEMMA ClosingSteps ==
    ASSUME Typed, Next
    PROVE  \/ Closing' \subseteq Closing
           \/ \E a \in Agents : AuditFails(a) /\ Closing' \subseteq Closing \cup {a}
<1>1. stage \in [Agents -> Stages]
  BY DEF Typed, TypeOK
<1>2. ASSUME NEW a \in Agents, stage[a] # "closing", stage'[a] = "closing"
      PROVE  AuditFails(a)
  <2>1. ASSUME NEW b \in Agents, AgentAction(b), b # a
        PROVE  FALSE
    BY <1>2, <2>1, AgentFrame DEF AgentAction, Untouched
  <2>2. ~(Tick \/ \E c \in Clients : RequestStep(c)) /\ ~Crash
    BY <1>2, RequestFrame DEF Crash
  <2>3. AgentAction(a)
    BY <2>1, <2>2, StepsByActor
  <2>4. ~NextEntry(a) /\ ~Refuse(a) /\ ~Return(a)
    BY <1>1, <1>2 DEF NextEntry, Refuse, Return, Goto
  <2>5. ~Begin(a) /\ ~ChangeSource(a)
    BY <1>1, <1>2 DEF Begin, Propose, WriteBroken, Ingest, ChangeSource, Goto
  <2>6. ~CheckEntry(a) /\ ~ReadSource(a) /\ ~CheckTarget(a) /\ ~VerifyCitation(a)
    BY <1>1, <1>2, <2>4 DEF CheckEntry, ReadSource, CheckTarget, VerifyCitation, Mint, Goto
  <2>7. ~AppendPointer(a) /\ ~Commit(a) /\ ~Audit(a)
    BY <1>1, <1>2, <2>4 DEF AppendPointer, Commit, Audit, Goto
  <2>8. /\ ~Withdraw(a) /\ ~PersistFails(a) /\ ~RenameFails(a)
        /\ ~Rename(a) /\ ~Report(a) /\ ~ReportFails(a)
    BY <1>2, <2>4, Endings DEF Withdraw, PersistFails, RenameFails
  <2> QED BY <2>3, <2>5, <2>6, <2>7, <2>8 DEF AgentAction, AgentStep
<1>3. ASSUME NEW a \in Agents, AuditFails(a)
      PROVE  Closing' \subseteq Closing \cup {a}
  BY <1>1, <1>3 DEF AuditFails, Goto, Closing
<1>4. CASE \A a \in Agents : ~AuditFails(a)
  BY <1>2, <1>4 DEF Closing
<1> QED BY <1>3, <1>4

\* Faults are counted.
LEMMA FaultsCounted ==
    ASSUME Typed, Next
    PROVE  /\ auditFaults \in Nat /\ storeFaults \in Nat /\ crashes \in Nat
           /\ auditFaults' \in Nat /\ storeFaults' \in Nat /\ crashes' \in Nat
           /\ auditFaults <= auditFaults' /\ storeFaults <= storeFaults' /\ crashes <= crashes'
           /\ (\E a \in Agents : AuditFails(a) \/ ReportFails(a)) => auditFaults' = auditFaults + 1
           /\ DiskFails => storeFaults' = storeFaults + 1
           /\ Crash => crashes' = crashes + 1
<1>1. /\ auditFaults \in Nat /\ storeFaults \in Nat /\ crashes \in Nat
      /\ auditFaults' \in Nat /\ storeFaults' \in Nat /\ crashes' \in Nat
  BY TypeStep, BoundsAssumption DEF Typed, TypeOK
<1>2. /\ auditFaults' \in {auditFaults, auditFaults + 1}
      /\ storeFaults' \in {storeFaults, storeFaults + 1}
      /\ crashes' \in {crashes, crashes + 1}
  BY Advances
<1>3. /\ (\E a \in Agents : AuditFails(a) \/ ReportFails(a)) => auditFaults' = auditFaults + 1
      /\ DiskFails => storeFaults' = storeFaults + 1
      /\ Crash => crashes' = crashes + 1
  BY DEF AuditFails, ReportFails, DiskFails, Crash
<1> QED BY <1>1, <1>2, <1>3

\* At most so much was left behind.
FewStranded ==
    /\ IsFiniteSet(Stranded)
    /\ \E unwritten \in Nat :
          /\ unwritten <= storeFaults
          /\ unwritten + Cardinality(Closing) <= auditFaults
          /\ Cardinality(Stranded) <= crashes * Cardinality(Agents) + unwritten

\* A set that grows by no more than another one has.
LEMMA GrownCardinality ==
    ASSUME NEW S, NEW T, NEW U, IsFiniteSet(S), IsFiniteSet(T), U \subseteq S \cup T
    PROVE  /\ IsFiniteSet(U)
           /\ Cardinality(U) \in Nat /\ Cardinality(S) \in Nat /\ Cardinality(T) \in Nat
           /\ Cardinality(U) <= Cardinality(S) + Cardinality(T)
<1>1. /\ IsFiniteSet(S \cup T)
      /\ Cardinality(S \cup T) = Cardinality(S) + Cardinality(T) - Cardinality(S \cap T)
  BY FS_Union
<1>2. IsFiniteSet(S \cap T)
  BY FS_Intersection
<1>3. IsFiniteSet(U) /\ Cardinality(U) <= Cardinality(S \cup T)
  BY <1>1, FS_Subset
<1>4. /\ Cardinality(S) \in Nat /\ Cardinality(T) \in Nat /\ Cardinality(U) \in Nat
      /\ Cardinality(S \cap T) \in Nat /\ Cardinality(S \cup T) \in Nat
  BY <1>1, <1>2, <1>3, FS_CardinalityType
<1> QED BY <1>1, <1>3, <1>4

\* The Evidence the Agents are at is no more than they are.
LEMMA NewIdsCounted ==
    /\ IsFiniteSet({NewId(a) : a \in Agents})
    /\ Cardinality({NewId(a) : a \in Agents}) <= Cardinality(Agents)
<1> DEFINE T == {NewId(a) : a \in Agents}
           f == [a \in Agents |-> NewId(a)]
<1>1. f \in Surjection(Agents, T)
  BY DEF Surjection
<1>2. IsFiniteSet(T) /\ Cardinality(T) <= Cardinality(Agents)
  BY <1>1, AgentsAssumption, FS_Surjection
<1> QED BY <1>2

\* Each crash adds one per Agent, each refusal one that may be left, and each write
\* that fails leaves one of these.
LEMMA FewStrandedStep ==
    ASSUME Identified, OpenIsCurrent, FewStranded, Next
    PROVE  FewStranded'
<1> DEFINE New == {NewId(a) : a \in Agents}
<1>1. PICK n, s, k, s2, k2, p, p2 :
          /\ n = Cardinality(Agents) /\ p = crashes * n /\ p2 = crashes' * n
          /\ s = Cardinality(Stranded) /\ k = Cardinality(Closing)
          /\ s2 = Cardinality(Stranded') /\ k2 = Cardinality(Closing')
  OBVIOUS
<1>2. PICK unwritten \in Nat : /\ unwritten <= storeFaults /\ unwritten + k <= auditFaults
                               /\ s <= p + unwritten
  BY <1>1 DEF FewStranded
<1>3. /\ IsFiniteSet(Stranded) /\ IsFiniteSet(Closing) /\ IsFiniteSet(Closing')
      /\ n \in Nat /\ s \in Nat /\ k \in Nat /\ k2 \in Nat
  <2>1. Closing \subseteq Agents /\ Closing' \subseteq Agents
    BY DEF Closing
  <2>2. IsFiniteSet(Closing) /\ IsFiniteSet(Closing')
    BY <2>1, AgentsAssumption, FS_Subset
  <2> QED BY <1>1, <2>2, AgentsAssumption, FS_CardinalityType DEF FewStranded
<1>4. /\ auditFaults \in Nat /\ storeFaults \in Nat /\ crashes \in Nat
      /\ auditFaults' \in Nat /\ storeFaults' \in Nat /\ crashes' \in Nat
      /\ auditFaults <= auditFaults' /\ storeFaults <= storeFaults' /\ crashes <= crashes'
      /\ (\E a \in Agents : AuditFails(a)) => auditFaults' = auditFaults + 1
      /\ DiskFails => storeFaults' = storeFaults + 1
      /\ Crash => crashes' = crashes + 1
  BY FaultsCounted DEF Identified
<1>5. unwritten + k2 <= auditFaults'
  <2>1. CASE Closing' \subseteq Closing
    <3>1. k2 <= k
      BY <1>1, <1>3, <2>1, FS_Subset
    <3> QED BY <1>2, <1>3, <1>4, <3>1
  <2>2. ASSUME NEW a \in Agents, AuditFails(a), Closing' \subseteq Closing \cup {a}
        PROVE  unwritten + k2 <= auditFaults'
    <3>1. IsFiniteSet({a}) /\ Cardinality({a}) = 1
      BY FS_Singleton
    <3>2. k2 <= k + 1
      BY <1>1, <1>3, <2>2, <3>1, GrownCardinality
    <3> QED BY <1>2, <1>3, <1>4, <2>2, <3>2
  <2> QED BY <2>1, <2>2, ClosingSteps DEF Identified
<1>6. p \in Nat /\ p2 \in Nat /\ p <= p2 /\ (crashes' = crashes + 1 => p2 = p + n)
  <2>1. \A c, d, m \in Nat : c <= d => c * m \in Nat /\ d * m \in Nat /\ c * m <= d * m
    OBVIOUS
  <2>2. \A c, m \in Nat : (c + 1) * m = c * m + m
    OBVIOUS
  <2>3. p \in Nat /\ p2 \in Nat /\ p <= p2
    BY <1>1, <1>3, <1>4, <2>1
  <2>4. ASSUME crashes' = crashes + 1 PROVE p2 = p + n
    <3>1. (crashes + 1) * n = crashes * n + n
      BY <1>3, <1>4, <2>2
    <3> QED BY <1>1, <2>4, <3>1
  <2> QED BY <2>3, <2>4
<1>7. CASE Stranded' \subseteq Stranded
  <2>1. IsFiniteSet(Stranded') /\ s2 \in Nat /\ s2 <= s
    BY <1>1, <1>3, <1>7, FS_Subset, FS_CardinalityType
  <2>2. unwritten <= storeFaults' /\ s2 <= p2 + unwritten
    BY <1>2, <1>3, <1>4, <1>6, <2>1
  <2> QED BY <1>1, <1>5, <2>1, <2>2 DEF FewStranded
<1>8. ASSUME NEW a \in Agents, PersistFails(a), stage[a] = "closing",
             Stranded' \subseteq Stranded \cup {NewId(a)}
      PROVE  FewStranded'
  <2>1. IsFiniteSet({NewId(a)}) /\ Cardinality({NewId(a)}) = 1
    BY FS_Singleton
  <2>2. IsFiniteSet(Stranded') /\ s2 \in Nat /\ s2 <= s + 1
    BY <1>1, <1>3, <1>8, <2>1, GrownCardinality
  <2>3. k2 + 1 <= k
    <3>1. Closing' \subseteq Closing \ {a} /\ a \in Closing
      <4>1. stage' = [stage EXCEPT ![a] = "idle"]
        BY <1>8 DEF PersistFails, Return, Goto
      <4> QED BY <1>8, <4>1 DEF Closing, Identified, Typed, TypeOK
    <3>2. IsFiniteSet(Closing \ {a}) /\ Cardinality(Closing \ {a}) = k - 1
      BY <1>1, <1>3, <3>1, FS_RemoveElement
    <3>3. k2 <= k - 1
      BY <1>1, <3>1, <3>2, FS_Subset
    <3> QED BY <1>3, <3>3
  <2>4. storeFaults' = storeFaults + 1
    BY <1>4, <1>8 DEF PersistFails
  <2>5. /\ unwritten + 1 \in Nat /\ unwritten + 1 <= storeFaults'
        /\ (unwritten + 1) + k2 <= auditFaults'
        /\ s2 <= p2 + (unwritten + 1)
    BY <1>2, <1>3, <1>4, <1>6, <2>2, <2>3, <2>4
  <2> QED BY <1>1, <2>2, <2>5 DEF FewStranded
<1>9. CASE Crash /\ Stranded' \subseteq Stranded \cup New
  <2>1. IsFiniteSet(New) /\ Cardinality(New) <= n /\ Cardinality(New) \in Nat
    BY <1>1, NewIdsCounted, FS_CardinalityType
  <2> HIDE DEF New
  <2>2. IsFiniteSet(Stranded') /\ s2 \in Nat /\ s2 <= s + Cardinality(New)
    BY <1>1, <1>3, <1>9, <2>1, GrownCardinality
  <2>3. unwritten <= storeFaults' /\ s2 <= p2 + unwritten
    BY <1>2, <1>3, <1>4, <1>6, <1>9, <2>1, <2>2
  <2> QED BY <1>1, <1>5, <2>2, <2>3 DEF FewStranded
<1> QED BY <1>7, <1>8, <1>9, StrandedSteps

\* Whatever fails, and however often the server dies: what can be used and is not in
\* the ledger is under way, or one of as many as the faults can have left behind.
THEOREM EvidenceAudited == Spec => []UsableIsAudited
<1> DEFINE Inv == Identified /\ OpenIsCurrent /\ FewStranded
<1>1. Init => Inv
  <2> SUFFICES ASSUME Init PROVE Inv
    OBVIOUS
  <2>1. Stranded = {} /\ Closing = {}
    BY DEF Init, Stranded, Usable, Known, Closing
  <2>2. IsFiniteSet({}) /\ Cardinality({}) = 0 /\ Cardinality(Agents) \in Nat
    BY AgentsAssumption, FS_EmptySet, FS_CardinalityType
  <2>3. FewStranded
    <3>1. crashes * Cardinality(Agents) + 0 = 0 /\ storeFaults = 0 /\ auditFaults = 0
      BY <2>2 DEF Init
    <3> QED BY <2>1, <2>2, <3>1 DEF FewStranded
  <2> QED BY <2>3, IdentifiedInit DEF Init, OpenIsCurrent
<1>2. Inv /\ [Next]_vars => Inv'
  <2>1. CASE Inv /\ UNCHANGED vars
    <3>1. OpenIsCurrent'
      BY <2>1 DEF OpenIsCurrent, Current
    <3>2. UNCHANGED <<Stranded, Closing>>
      BY <2>1 DEF Stranded, Closing, Usable, Attended, Known, Current, NewId, Entry
    <3>3. FewStranded'
      BY <2>1, <3>2 DEF FewStranded
    <3> QED BY <2>1, <3>1, <3>3, IdentifiedStep
  <2>2. CASE Inv /\ Next
    BY <2>2, IdentifiedStep, OpenStep, FewStrandedStep
  <2> QED BY <2>1, <2>2
<1>3. Inv => UsableIsAudited
  <2> SUFFICES ASSUME Inv PROVE UsableIsAudited
    OBVIOUS
  <2>1. PICK unwritten \in Nat : /\ unwritten <= storeFaults
                                 /\ unwritten + Cardinality(Closing) <= auditFaults
                                 /\ Cardinality(Stranded) <= crashes * Cardinality(Agents) + unwritten
    BY DEF FewStranded
  <2>2. Closing \subseteq Agents
    BY DEF Closing
  <2>3. Cardinality(Closing) \in Nat
    BY <2>2, AgentsAssumption, FS_Subset, FS_CardinalityType
  <2>4. storeFaults \in Nat /\ auditFaults \in Nat
    BY BoundsAssumption DEF Identified, Typed, TypeOK
  <2>5. unwritten \in 0 .. storeFaults /\ unwritten <= auditFaults
    BY <2>1, <2>3, <2>4
  <2> QED BY <2>1, <2>5 DEF UsableIsAudited
<1> HIDE DEF Inv
<1> QED BY <1>1, <1>2, <1>3, PTL DEF Spec

(***************************************************************************)
(* Replacements.  What declares a replacement is never taken back, so what *)
(* a request to supersede was let in for still holds when it is granted.   *)
(***************************************************************************)
RequestsDeclared ==
    \A c \in Clients :
        phase[c] = "queued" /\ request[c].op = "supersede" => Declared(request[c].id)

\* A replacement that is declared stays declared.
LEMMA DeclaredStays ==
    ASSUME Identified, Next, NEW e, Declared(e)
    PROVE  Declared(e)'
<1>1. PICK v \in evidence : v.replaces = e
  BY DEF Declared
<1>2. CASE UNCHANGED evidence \/ \E a \in Agents : Commit(a)
  BY <1>1, <1>2 DEF Commit, Declared
<1>3. ASSUME NEW d \in Ids, NEW status \in Statuses, Succeeds(d, status)
      PROVE  Declared(e)'
  <2>1. PICK cur, old : cur = Current(d) /\ old = [cur EXCEPT !.closedAt = clock]
    OBVIOUS
  <2>2. cur \in Versions /\ (v \in evidence' \/ v = cur) /\ old \in evidence'
    BY <1>1, <1>3, <2>1, SucceedsNext
  <2>3. old.replaces = cur.replaces
    BY <2>1, <2>2 DEF Versions
  <2> QED BY <1>1, <2>2, <2>3 DEF Declared
<1> QED BY <1>2, <1>3, StoreSteps DEF Identified

\* A request that waits to supersede has its replacement.
LEMMA DeclaredStep == ASSUME Identified, RequestsDeclared, Next PROVE RequestsDeclared'
<1>1. /\ phase \in [Clients -> {"idle", "queued", "governing"}]
      /\ request \in [Clients -> [op : Ops \cup {"none"}, id : Ids \cup {None}]]
  BY DEF Identified, Typed, TypeOK
<1>2. \A e : Declared(e) => Declared(e)'
  BY DeclaredStays
<1>3. CASE UNCHANGED <<phase, request>>
  BY <1>2, <1>3 DEF RequestsDeclared
<1>4. ASSUME NEW c \in Clients, Answer(c)
      PROVE  RequestsDeclared'
  BY <1>1, <1>2, <1>4 DEF Answer, RequestsDeclared
<1>5. ASSUME NEW c \in Clients, NEW op \in Ops, NEW e \in KnownIds, Ask(c, op, e)
      PROVE  RequestsDeclared'
  BY <1>1, <1>2, <1>5 DEF Ask, RequestsDeclared
<1>6. ASSUME NEW c \in Clients, Grant(c)
      PROVE  RequestsDeclared'
  BY <1>1, <1>2, <1>6 DEF Grant, RequestsDeclared
<1>7. ASSUME NEW c \in Clients, RequestStep(c)
      PROVE  RequestsDeclared'
  BY <1>4, <1>5, <1>6, <1>7
  DEF RequestStep, ClientStep, Deny, Govern, GovernFails, PersistFailsForRequest
<1>8. ASSUME NEW a \in Agents, AgentAction(a)
      PROVE  UNCHANGED <<phase, request>>
  BY <1>8
  DEF AgentAction, Begin, AgentStep, Propose, WriteBroken, Ingest, ChangeSource, CheckEntry,
      ReadSource, CheckTarget, AppendPointer, VerifyCitation, Commit, Audit, Withdraw, Rename,
      Report, AuditFails, PersistFails, RenameFails, ReportFails
<1>9. CASE Tick
  BY <1>3, <1>9 DEF Tick
<1>10. CASE Crash
  BY <1>10 DEF Crash, RequestsDeclared
<1> QED BY <1>3, <1>7, <1>8, <1>9, <1>10, StepsByActor

\* Only a request to supersede that is granted makes Evidence SUPERSEDED.
LEMMA SupersededStep ==
    ASSUME Identified, Next, NEW v \in evidence', v.status = "SUPERSEDED"
    PROVE  \/ \E w \in evidence : w.id = v.id /\ w.status = "SUPERSEDED"
           \/ \E c \in Clients : /\ phase[c] = "queued" /\ request[c].op = "supersede"
                                /\ request[c].id = v.id
<1>1. ASSUME NEW e, NEW status, NEW required, MayTransition(e, required), Transition(e, status)
      PROVE  \/ v \in evidence
             \/ \E w \in evidence : w.id = v.id /\ w.status = v.status
             \/ v.id = e /\ v.status = status
  <2>1. PICK cur : cur = Current(e)
    OBVIOUS
  <2>2. cur \in evidence /\ cur.id = e
    BY <1>1, <2>1, CurrentVersion DEF MayTransition, Identified, Typed
  <2>3. cur \in Versions
    BY <2>2 DEF Identified, Typed, TypeOK
  <2>4. \/ v \in evidence \/ v = [cur EXCEPT !.closedAt = clock]
        \/ v = [cur EXCEPT !.version = @ + 1, !.status = status, !.recordedAt = clock]
    BY <1>1, <2>1 DEF Transition
  <2> QED BY <2>2, <2>3, <2>4 DEF Versions
<1>2. CASE UNCHANGED evidence
  BY <1>2
<1>3. ASSUME NEW a \in Agents, AgentAction(a)
      PROVE  UNCHANGED evidence \/ Commit(a) \/ Withdraw(a)
  BY <1>3
  DEF AgentAction, Begin, AgentStep, Propose, WriteBroken, Ingest, ChangeSource, CheckEntry,
      ReadSource, CheckTarget, AppendPointer, VerifyCitation, Audit, Rename, Report, AuditFails,
      PersistFails, RenameFails, ReportFails, DiskFails
<1>4. ASSUME NEW a \in Agents, Commit(a)
      PROVE  v \in evidence
  BY <1>4 DEF Commit
<1>5. ASSUME NEW a \in Agents, Withdraw(a), ~UNCHANGED evidence
      PROVE  \E w \in evidence : w.id = v.id /\ w.status = "SUPERSEDED"
  <2>1. MayTransition(NewId(a), {"ACTIVE"}) /\ Transition(NewId(a), "COMPROMISED")
    BY <1>5 DEF Withdraw, FailClosed
  <2> QED BY <1>1, <2>1
<1>6. ASSUME NEW c \in Clients, RequestStep(c)
      PROVE  UNCHANGED evidence \/ Grant(c)
  BY <1>6 DEF RequestStep, ClientStep, Deny, Govern, GovernFails,
              PersistFailsForRequest, DiskFails, Ask
<1>7. ASSUME NEW c \in Clients, Grant(c), \A w \in evidence : w.id = v.id => w.status # "SUPERSEDED"
      PROVE  /\ phase[c] = "queued" /\ request[c].op = "supersede"
             /\ request[c].id = v.id
  <2>1. /\ phase[c] = "queued"
        /\ MayTransition(request[c].id, Required(request[c].op))
        /\ Transition(request[c].id, Becomes(request[c].op))
    BY <1>7 DEF Grant
  <2>2. v.id = request[c].id /\ v.status = Becomes(request[c].op)
    BY <1>1, <1>7, <2>1
  <2>3. request[c].op \in Ops
    BY <2>1 DEF Identified, Typed, RequestsTyped
  <2>4. request[c].op = "supersede"
    BY <2>2, <2>3 DEF Ops, Becomes
  <2> QED BY <2>1, <2>2, <2>4
<1>8. CASE Tick \/ Crash
  BY <1>8 DEF Tick, Crash
<1> QED BY <1>2, <1>3, <1>4, <1>5, <1>6, <1>7, <1>8, StepsByActor

\* Superseded Evidence has a replacement that declares it.
THEOREM EvidenceReplaced == Spec => []SupersededHasReplacement
<1> DEFINE Inv == Identified /\ RequestsDeclared /\ SupersededHasReplacement
<1>1. Init => Inv
  BY IdentifiedInit DEF Init, RequestsDeclared, SupersededHasReplacement
<1>2. Inv /\ [Next]_vars => Inv'
  <2>1. CASE Inv /\ UNCHANGED vars
    BY <2>1, IdentifiedStep DEF RequestsDeclared, SupersededHasReplacement, Declared
  <2>2. ASSUME Inv, Next, NEW v \in evidence', v.status = "SUPERSEDED"
        PROVE  Declared(v.id)'
    <3>1. Declared(v.id)
      BY <2>2, SupersededStep DEF SupersededHasReplacement, RequestsDeclared, Declared
    <3> QED BY <2>2, <3>1, DeclaredStays
  <2>3. CASE Inv /\ Next
    BY <2>2, <2>3, IdentifiedStep, DeclaredStep DEF SupersededHasReplacement, Declared
  <2> QED BY <2>1, <2>3
<1>3. Inv => SupersededHasReplacement
  OBVIOUS
<1> HIDE DEF Inv
<1> QED BY <1>1, <1>2, <1>3, PTL DEF Spec

(***************************************************************************)
(* Outboxes that were taken away.  While an outbox is read, what is before *)
(* the entry at hand is Evidence or rejected, and nothing from it on is    *)
(* rejected; no Run works on an outbox twice.  What was rejected is then   *)
(* reported, unless the ledger or a crash puts an end to it.               *)
(***************************************************************************)
Id(a, i) == <<outbox[a][i].claim, run[a]>>
Reading(a) == stage[a] \notin {"idle", "reporting"}

SettledAt(a) ==
    Reading(a) =>
        \A i \in DOMAIN outbox[a] :
            /\ i < at[a] => (Known(Id(a, i)) <=> Id(a, i) \notin Range(rejected[a]))
            /\ i >= at[a] => Id(a, i) \notin Range(rejected[a])
            /\ i = at[a] /\ stage[a] \in {"auditing", "closing"} => Known(Id(a, i))

\* processOutbox starts with the first entry, for a Run none of whose entries was taken
\* away or reported; what it rejects are entries of that Run.
OrderlyAt(a) ==
    /\ stage[a] = "idle" => at[a] = 1 /\ rejected[a] = << >>
    /\ stage[a] # "idle" => \A id \in Range(rejected[a]) : id[2] = run[a]
    /\ Reading(a) => \A id \in refused \cup processed : id[2] # run[a]

Orderly ==
    /\ \A a \in Agents : OrderlyAt(a)
    /\ \A id \in refused \cup processed : id[2] \in used

\* No entry of an outbox that was taken away is both Evidence and rejected.
Exclusive == \A id \in processed : Known(id) => id \notin refused \cup ToReport

Settlement == Orderly /\ Exclusive /\ \A a \in Agents : SettledAt(a)

\* What is in a sequence that grows at its end, or shrinks at its head.
LEMMA RangeFacts ==
    ASSUME NEW S, NEW q \in Seq(S), NEW x \in S
    PROVE  /\ Range(Append(q, x)) = Range(q) \cup {x}
           /\ q # << >> => Range(q) = {Head(q)} \cup Range(Tail(q))
           /\ Range(<< >>) = {}
<1>1. /\ Append(q, x) \in Seq(S) /\ Len(q) \in Nat /\ DOMAIN q = 1 .. Len(q)
      /\ DOMAIN Append(q, x) = 1 .. Len(q) + 1
      /\ Append(q, x)[Len(q) + 1] = x /\ \A i \in 1 .. Len(q) : Append(q, x)[i] = q[i]
  OBVIOUS
<1>2. /\ \A i \in 1 .. Len(q) + 1 : i \in 1 .. Len(q) \/ i = Len(q) + 1
      /\ 1 .. Len(q) \subseteq 1 .. Len(q) + 1 /\ Len(q) + 1 \in 1 .. Len(q) + 1
  BY <1>1
<1>3. Range(Append(q, x)) = Range(q) \cup {x}
  BY <1>1, <1>2 DEF Range
<1>4. ASSUME q # << >>
      PROVE  Range(q) = {Head(q)} \cup Range(Tail(q))
  <2>1. /\ Len(q) \in Nat \ {0} /\ DOMAIN Tail(q) = 1 .. Len(q) - 1 /\ Head(q) = q[1]
        /\ \A i \in 1 .. Len(q) - 1 : Tail(q)[i] = q[i + 1]
    BY <1>4
  <2>2. /\ \A i \in 1 .. Len(q) - 1 : i + 1 \in 1 .. Len(q)
        /\ \A i \in 1 .. Len(q) : i = 1 \/ (i - 1 \in 1 .. Len(q) - 1 /\ (i - 1) + 1 = i)
        /\ 1 \in 1 .. Len(q)
    BY <2>1
  <2>3. ASSUME NEW i \in 1 .. Len(q), i # 1
        PROVE  q[i] \in Range(Tail(q))
    <3>1. i - 1 \in DOMAIN Tail(q) /\ Tail(q)[i - 1] = q[i]
      BY <2>1, <2>2, <2>3
    <3> QED BY <3>1 DEF Range
  <2>4. \A i \in 1 .. Len(q) - 1 : Tail(q)[i] \in Range(q)
    BY <1>1, <2>1, <2>2 DEF Range
  <2> QED BY <1>1, <2>1, <2>2, <2>3, <2>4 DEF Range
<1>5. Range(<< >>) = {}
  BY DEF Range
<1> QED BY <1>3, <1>4, <1>5

\* An entry is rejected before it is committed; reported, the first of those that are left;
\* and all are forgotten when processOutbox throws, or a report or the server fails.
LEMMA RejectedSteps ==
    ASSUME Typed, Next, NEW a \in Agents
    PROVE  \/ rejected'[a] = rejected[a] /\ ~Refuse(a)
           \/ /\ Refuse(a) /\ ~Commit(a) /\ refused' = refused
              /\ stage[a] \notin {"idle", "auditing", "closing", "reporting"}
              /\ at[a] \in DOMAIN outbox[a] /\ NewId(a) \in Ids
              /\ rejected'[a] = Append(rejected[a], NewId(a))
           \/ /\ Report(a)
              /\ stage[a] = "reporting" /\ rejected[a] # << >>
              /\ refused' = refused \cup {Head(rejected[a])}
              /\ rejected'[a] = Tail(rejected[a])
           \/ /\ stage'[a] = "idle" /\ rejected'[a] = << >> /\ refused' = refused
              /\ Reading(a) \/ ReportFails(a) \/ Crash
<1>1. /\ stage \in [Agents -> Stages] /\ at \in [Agents -> Nat \ {0}]
      /\ rejected \in [Agents -> Seq(Ids)]
  BY DEF Typed, TypeOK
<1>2. NextEntry(a) => at'[a] # at[a]
  BY <1>1 DEF NextEntry
<1>3. UNCHANGED rejected => ~Refuse(a)
  <2>1. \A q \in Seq(Ids) : \A x : q # Append(q, x)
    OBVIOUS
  <2> QED BY <1>1, <2>1 DEF Refuse
<1>4. ASSUME Refuse(a), refused' = refused, at[a] \in DOMAIN outbox[a], stage[a] # "idle", ~Commit(a),
             stage[a] \notin {"auditing", "closing", "reporting"}
      PROVE  /\ Refuse(a) /\ ~Commit(a) /\ refused' = refused
             /\ stage[a] \notin {"idle", "auditing", "closing", "reporting"}
             /\ at[a] \in DOMAIN outbox[a] /\ NewId(a) \in Ids
             /\ rejected'[a] = Append(rejected[a], NewId(a))
  <2>1. NewId(a) \in Ids
    BY <1>4, EntryTyping DEF Typed, Located, LocatedAt
  <2> QED BY <1>1, <1>4, <2>1 DEF Refuse
<1>5. Return(a) => stage'[a] = "idle" /\ rejected'[a] = << >>
  BY <1>1 DEF Return, Goto
<1>6. CASE CheckEntry(a)
  <2>1. at[a] \in DOMAIN outbox[a]
    BY <1>6, EntryAtHand DEF CheckEntry, Typed
  <2>2. ~Commit(a)
    BY <1>6 DEF CheckEntry, Commit
  <2> QED BY <1>3, <1>4, <1>6, <2>1, <2>2 DEF CheckEntry
<1>7. CASE ReadSource(a) \/ CheckTarget(a) \/ VerifyCitation(a)
  <2>1. at[a] \in DOMAIN outbox[a]
    BY <1>7 DEF Typed, Located, LocatedAt, ReadSource, CheckTarget, VerifyCitation
  <2>2. ~Commit(a)
    BY <1>7 DEF ReadSource, CheckTarget, VerifyCitation, Commit
  <2> QED BY <1>3, <1>4, <1>7, <2>1, <2>2 DEF ReadSource, CheckTarget, VerifyCitation, Mint
<1>8. CASE Begin(a) \/ ChangeSource(a) \/ AppendPointer(a) \/ Commit(a) \/ Audit(a) \/ AuditFails(a)
  BY <1>3, <1>8
  DEF Begin, Propose, WriteBroken, Ingest, ChangeSource, AppendPointer, Commit, Audit, AuditFails
<1>9. CASE Withdraw(a) \/ PersistFails(a) \/ RenameFails(a) \/ ReportFails(a)
  <2>1. Return(a) /\ refused' = refused
    BY <1>9 DEF Withdraw, PersistFails, RenameFails, ReportFails, DiskFails
  <2>2. Reading(a) \/ ReportFails(a)
    BY <1>9 DEF Reading, Withdraw, PersistFails, RenameFails, Queued
  <2> QED BY <1>5, <2>1, <2>2
<1>10. CASE Rename(a)
  <2>1. refused' = refused /\ Reading(a)
    BY <1>10 DEF Rename, Reading
  <2> QED BY <1>3, <1>5, <1>10, <2>1 DEF Rename
<1>11. CASE Report(a)
  <2>1. stage[a] = "reporting" /\ rejected[a] # << >> /\ rejected[a] \in Seq(Ids)
    BY <1>1, <1>11 DEF Report, Typed, Located, LocatedAt
  <2>2. rejected'[a] = Tail(rejected[a]) /\ refused' = refused \cup {Head(rejected[a])}
    BY <1>1, <1>5, <1>11 DEF Report
  <2> QED BY <1>11, <2>1, <2>2
<1>12. ASSUME NEW b \in Agents, AgentAction(b), b # a
       PROVE  rejected'[a] = rejected[a] /\ ~Refuse(a)
  <2>1. rejected'[a] = rejected[a] /\ at'[a] = at[a]
    BY <1>12, AgentFrame DEF AgentAction, Untouched
  <2> QED BY <1>2, <2>1 DEF Refuse
<1>13. CASE Tick \/ \E c \in Clients : RequestStep(c)
  BY <1>3, <1>13, RequestFrame
<1>14. CASE Crash
  <2>1. stage'[a] = "idle" /\ rejected'[a] = << >> /\ refused' = refused
    BY <1>14 DEF Crash
  <2> QED BY <1>14, <2>1
<1> QED BY <1>6, <1>7, <1>8, <1>9, <1>10, <1>11, <1>12, <1>13, <1>14, StepsByActor
        DEF AgentAction, AgentStep

\* The ledger gets one report at a time.
LEMMA RefusedSteps ==
    ASSUME Typed, Next
    PROVE  \/ refused' = refused
           \/ \E a \in Agents : /\ Report(a) /\ stage[a] = "reporting"
                                /\ Head(rejected[a]) \in Range(rejected[a])
                                /\ refused' = refused \cup {Head(rejected[a])}
<1>1. ASSUME NEW a \in Agents, AgentAction(a), ~Report(a)
      PROVE  refused' = refused
  BY <1>1
  DEF AgentAction, Begin, AgentStep, Propose, WriteBroken, Ingest, ChangeSource, CheckEntry,
      ReadSource, CheckTarget, AppendPointer, VerifyCitation, Commit, Audit, Withdraw, Rename,
      AuditFails, PersistFails, RenameFails, ReportFails, DiskFails
<1>2. ASSUME NEW c \in Clients, RequestStep(c)
      PROVE  refused' = refused
  BY <1>2 DEF RequestStep, ClientStep, Grant, Deny, Govern, GovernFails,
              PersistFailsForRequest, DiskFails, Ask
<1>3. CASE Tick \/ Crash
  BY <1>3 DEF Tick, Crash
<1>4. ASSUME NEW a \in Agents, Report(a)
      PROVE  /\ stage[a] = "reporting" /\ Head(rejected[a]) \in Range(rejected[a])
             /\ refused' = refused \cup {Head(rejected[a])}
  <2>1. PICK q \in Seq(Ids) : q = rejected[a]
    BY DEF Typed, TypeOK
  <2>2. q # << >> /\ stage[a] = "reporting"
    BY <1>4, <2>1 DEF Report, Typed, Located, LocatedAt
  <2>3. 1 \in DOMAIN q /\ Head(q) = q[1]
    BY <2>2
  <2> QED BY <1>4, <2>1, <2>2, <2>3 DEF Report, Range
<1> QED BY <1>1, <1>2, <1>3, <1>4, StepsByActor

\* Entries are taken away by a rename only.
LEMMA ProcessedSteps ==
    ASSUME Next
    PROVE  processed' = processed \/ \E a \in Agents : Rename(a)
<1>1. ASSUME NEW a \in Agents, AgentAction(a)
      PROVE  processed' = processed \/ Rename(a)
  BY <1>1
  DEF AgentAction, Begin, AgentStep, Propose, WriteBroken, Ingest, ChangeSource, CheckEntry,
      ReadSource, CheckTarget, AppendPointer, VerifyCitation, Commit, Audit, Withdraw,
      Report, AuditFails, PersistFails, RenameFails, ReportFails, DiskFails
<1>2. ASSUME NEW c \in Clients, RequestStep(c)
      PROVE  processed' = processed
  BY <1>2 DEF RequestStep, ClientStep, Grant, Deny, Govern, GovernFails,
              PersistFailsForRequest, DiskFails, Ask
<1>3. CASE Tick \/ Crash
  BY <1>3 DEF Tick, Crash
<1> QED BY <1>1, <1>2, <1>3, StepsByActor

\* What is known after a step was known before or is committed by it.
LEMMA KnownSteps ==
    ASSUME Typed, Next, NEW e
    PROVE  Known(e)' <=> Known(e) \/ \E a \in Agents : Commit(a) /\ e = NewId(a)
<1>1. Known(e) => Known(e)'
  BY KnownStays
<1>2. ASSUME NEW a \in Agents, Commit(a), e = NewId(a)
      PROVE  Known(e)'
  <2>1. NewEvidence(a) \in evidence' /\ NewEvidence(a).id = e
    BY <1>2 DEF Commit, NewEvidence
  <2> QED BY <2>1 DEF Known
<1>3. ASSUME Known(e)'
      PROVE  Known(e) \/ \E a \in Agents : Commit(a) /\ e = NewId(a)
  BY <1>3, IdSteps DEF Known
<1> QED BY <1>1, <1>2, <1>3

\* processOutbox stays at an entry or goes on to the next.
LEMMA Advance ==
    ASSUME Typed, Next, NEW a \in Agents, Reading(a), Reading(a)'
    PROVE  \/ /\ at'[a] = at[a] /\ ~Refuse(a)
              /\ stage'[a] \in {"auditing", "closing"} =>
                     stage[a] \in {"auditing", "closing"} \/ Commit(a)
           \/ /\ at'[a] = at[a] + 1 /\ stage'[a] = "entry"
              /\ (Audit(a) /\ ~Refuse(a)) \/ (Refuse(a) /\ ~Commit(a))
<1>1. /\ stage \in [Agents -> Stages] /\ at \in [Agents -> Nat \ {0}]
      /\ rejected \in [Agents -> Seq(Ids)]
  BY DEF Typed, TypeOK
<1>10. stage[a] \notin {"idle", "reporting"} /\ stage'[a] \notin {"idle", "reporting"}
  BY DEF Reading
<1>2. NextEntry(a) => at'[a] = at[a] + 1 /\ stage'[a] = "entry"
  BY <1>1 DEF NextEntry, Goto
<1>3. at'[a] = at[a] => ~Refuse(a)
  BY <1>1, <1>2 DEF Refuse
<1>4. ASSUME NEW b \in Agents, AgentAction(b), b # a
      PROVE  at'[a] = at[a] /\ stage'[a] = stage[a]
  BY <1>4, AgentFrame DEF AgentAction, Untouched
<1>5. CASE Tick \/ \E c \in Clients : RequestStep(c)
  BY <1>3, <1>5, RequestFrame
<1>6. ~Crash
  BY <1>10 DEF Crash
<1>7. CASE AgentAction(a)
  <2>1. ~Return(a) /\ ~Begin(a)
    BY <1>1, <1>10 DEF Return, Goto, Begin, Propose, WriteBroken, Ingest
  <2>2. CASE CheckEntry(a) \/ ReadSource(a) \/ CheckTarget(a) \/ VerifyCitation(a)
    <3>1. ~Commit(a)
      BY <2>2 DEF CheckEntry, ReadSource, CheckTarget, VerifyCitation, Commit
    <3>2. Refuse(a) \/ at'[a] = at[a]
      BY <2>2 DEF CheckEntry, ReadSource, CheckTarget, VerifyCitation, Mint
    <3>3. at'[a] = at[a] => stage'[a] \notin {"auditing", "closing"}
      BY <1>1, <1>2, <2>2 DEF CheckEntry, ReadSource, CheckTarget, VerifyCitation, Mint, Goto, Refuse
    <3> QED BY <1>2, <1>3, <3>1, <3>2, <3>3 DEF Refuse
  <2>3. CASE AppendPointer(a) \/ Commit(a) \/ AuditFails(a) \/ ChangeSource(a)
    <3>1. at'[a] = at[a]
      BY <2>3 DEF AppendPointer, Commit, AuditFails, ChangeSource
    <3> QED BY <1>1, <1>3, <2>3, <3>1 DEF AppendPointer, AuditFails, ChangeSource, Goto
  <2>4. CASE Audit(a)
    <3>1. ~Commit(a)
      BY <2>4 DEF Audit, Commit
    <3>2. ~Refuse(a)
      <4>1. \A q \in Seq(Ids) : \A x : q # Append(q, x)
        OBVIOUS
      <4> QED BY <1>1, <2>4, <4>1 DEF Audit, Refuse
    <3> QED BY <1>2, <2>4, <3>1, <3>2 DEF Audit
  <2>5. ~Withdraw(a) /\ ~PersistFails(a) /\ ~RenameFails(a)
    BY <2>1 DEF Withdraw, PersistFails, RenameFails
  <2>6. ~Rename(a) /\ ~Report(a) /\ ~ReportFails(a)
    BY <1>10, Endings
  <2> QED BY <1>7, <2>1, <2>2, <2>3, <2>4, <2>5, <2>6 DEF AgentAction, AgentStep
<1> QED BY <1>3, <1>4, <1>5, <1>6, <1>7, StepsByActor

\* Where an outbox is being read, what a step settles is the entry at hand.
LEMMA SettledStep ==
    ASSUME Typed, NewIds, Settlement, Next, NEW a \in Agents
    PROVE  SettledAt(a)'
<1> SUFFICES ASSUME stage'[a] \notin {"idle", "reporting"}
             PROVE  SettledAt(a)'
  BY DEF SettledAt, Reading
<1>1. CASE stage[a] = "idle"
  <2>1. PICK r \in Runs : Ingest(a, r)
    BY <1>1, Beginning
  <2>2. at'[a] = 1 /\ rejected'[a] = << >> /\ stage'[a] = "entry" /\ outbox'[a] \in Seq(Entries)
    BY <1>1, <2>1 DEF Ingest, Goto, Settlement, Orderly, OrderlyAt, Typed, TypeOK
  <2>3. \A i \in DOMAIN outbox'[a] : ~(i < 1)
    BY <2>2
  <2>4. Range(rejected'[a]) = {}
    BY <2>2 DEF Range
  <2> QED BY <2>2, <2>3, <2>4 DEF SettledAt
<1>2. CASE stage[a] # "idle"
  <2> DEFINE Ending == {"auditing", "closing"}
  <2>1. stage[a] # "reporting" /\ outbox'[a] = outbox[a] /\ run'[a] = run[a]
    BY <1>2, Progress
  <2>2. /\ at[a] \in Nat /\ \A i \in DOMAIN outbox[a] : i \in Nat
    BY DEF Typed, TypeOK
  <2>12. /\ Reading(a) /\ Reading(a)' /\ \A b \in Agents : Commit(b) => stage[b] # "idle"
    BY <1>2, <2>1 DEF Reading, Commit
  <2> SUFFICES ASSUME NEW i \in DOMAIN outbox[a], NEW id, id = Id(a, i)
               PROVE  /\ i < at'[a] => (Known(id)' <=> id \notin Range(rejected'[a]))
                      /\ i >= at'[a] => id \notin Range(rejected'[a])
                      /\ i = at'[a] /\ stage'[a] \in Ending => Known(id)'
    <3>1. \A j : Id(a, j)' = Id(a, j)
      BY <2>1 DEF Id
    <3>2. DOMAIN outbox'[a] = DOMAIN outbox[a]
      BY <2>1
    <3> QED BY <3>1, <3>2 DEF SettledAt, Known
  <2>3. /\ i < at[a] => (Known(id) <=> id \notin Range(rejected[a]))
        /\ i >= at[a] => id \notin Range(rejected[a])
        /\ i = at[a] /\ stage[a] \in Ending => Known(id)
    BY <2>12 DEF Settlement, SettledAt
  <2>4. ASSUME NEW b \in Agents, stage[b] # "idle", id = NewId(b)
        PROVE  b = a /\ (at[a] \in DOMAIN outbox[a] => i = at[a])
    <3>1. run[b] = run[a] /\ Entry(b).claim = outbox[a][i].claim
      BY <2>4 DEF NewId, Id
    <3>2. b = a
      BY <1>2, <2>4, <3>1 DEF NewIds, OwnRuns
    <3> QED BY <3>1, <3>2 DEF NewIds, DistinctClaims, Entry
  <2>5. \/ ~Refuse(a) /\ Range(rejected'[a]) = Range(rejected[a])
        \/ /\ Refuse(a) /\ ~Commit(a) /\ stage[a] \notin Ending /\ at[a] \in DOMAIN outbox[a]
           /\ Range(rejected'[a]) = Range(rejected[a]) \cup {NewId(a)}
    <3>1. rejected[a] \in Seq(Ids)
      BY DEF Typed, TypeOK
    <3>2. \/ rejected'[a] = rejected[a] /\ ~Refuse(a)
          \/ /\ Refuse(a) /\ ~Commit(a) /\ stage[a] \notin Ending /\ at[a] \in DOMAIN outbox[a]
             /\ NewId(a) \in Ids /\ rejected'[a] = Append(rejected[a], NewId(a))
      BY <2>1, RejectedSteps
    <3>3. NewId(a) \in Ids =>
              Range(Append(rejected[a], NewId(a))) = Range(rejected[a]) \cup {NewId(a)}
      BY <3>1, RangeFacts
    <3> QED BY <3>2, <3>3
  <2>6. Known(id)' => Known(id) \/ (Commit(a) /\ i = at[a])
    <3>1. \A b \in Agents : Commit(b) => stage[b] # "idle" /\ at[b] \in DOMAIN outbox[b]
      BY DEF Commit, Typed, Located, LocatedAt
    <3> QED BY <2>4, <3>1, KnownSteps
  <2>7. Known(id) => Known(id)'
    BY KnownStays
  <2>8. Known(id) => Settled(a, i)
    <3>1. ASSUME NEW v \in evidence, v.id = id
          PROVE  Settled(a, i)
      <4>1. v.id[1] = outbox[a][i].claim /\ v.id[2] = run[a]
        BY <3>1 DEF Id
      <4>2. PICK j \in DOMAIN outbox[a] : outbox[a][j].claim = v.id[1] /\ Settled(a, j)
        BY <1>2, <2>1, <4>1 DEF NewIds, IngestedAt
      <4> QED BY <4>1, <4>2 DEF NewIds, DistinctClaims
    <3> QED BY <3>1 DEF Known
  <2>9. i = at[a] => id = NewId(a)
    BY DEF Id, NewId, Entry
  <2>10. CASE /\ at'[a] = at[a] /\ ~Refuse(a)
              /\ stage'[a] \in Ending => stage[a] \in Ending \/ Commit(a)
    <3>1. i = at[a] /\ Commit(a) => Known(id)'
      BY <2>9, KnownSteps
    <3>2. Range(rejected'[a]) = Range(rejected[a])
      BY <2>5, <2>10
    <3>3. i # at[a] => (Known(id)' <=> Known(id))
      BY <2>6, <2>7
    <3> QED BY <2>2, <2>3, <2>7, <2>10, <3>1, <3>2, <3>3
  <2>11. CASE /\ at'[a] = at[a] + 1 /\ stage'[a] = "entry"
              /\ (Audit(a) /\ ~Refuse(a)) \/ (Refuse(a) /\ ~Commit(a))
    <3>5. i # at[a] => (id \in Range(rejected'[a]) <=> id \in Range(rejected[a]))
      BY <1>2, <2>4, <2>5
    <3>1. CASE i < at[a]
      <4>1. Known(id)' <=> Known(id)
        BY <2>2, <2>6, <2>7, <3>1
      <4> QED BY <2>2, <2>3, <2>11, <3>1, <3>5, <4>1
    <3>2. CASE i > at[a]
      BY <2>2, <2>3, <2>11, <3>2, <3>5
    <3>3. CASE i = at[a] /\ Audit(a) /\ ~Refuse(a)
      <4>1. stage[a] = "auditing"
        BY <3>3 DEF Audit
      <4> QED BY <2>2, <2>3, <2>5, <2>7, <2>11, <3>3, <4>1
    <3>4. CASE i = at[a] /\ Refuse(a) /\ ~Commit(a)
      <4>1. id \in Range(rejected'[a]) /\ stage[a] \notin Ending
        BY <2>5, <2>9, <3>4
      <4>2. ~Known(id)
        BY <2>2, <2>8, <3>4, <4>1 DEF Settled
      <4> QED BY <2>2, <2>6, <2>11, <3>4, <4>1, <4>2
    <3> QED BY <2>2, <2>11, <3>1, <3>2, <3>3, <3>4
  <2> QED BY <2>10, <2>11, <2>12, Advance
<1> QED BY <1>1, <1>2

\* What is reported or taken away by a step is of the Run of an Agent that no longer reads.
LEMMA PutAway ==
    ASSUME Typed, NewIds, Settlement, Next, NEW id \in refused' \cup processed'
    PROVE  \/ id \in refused \cup processed
           \/ \E a \in Agents : stage[a] # "idle" /\ ~Reading(a)' /\ id[2] = run[a]
<1>1. ASSUME id \in refused'
      PROVE  \/ id \in refused
             \/ \E a \in Agents : stage[a] # "idle" /\ ~Reading(a)' /\ id[2] = run[a]
  <2>1. ASSUME NEW a \in Agents, Report(a), stage[a] = "reporting",
               Head(rejected[a]) \in Range(rejected[a])
        PROVE  stage[a] # "idle" /\ ~Reading(a)' /\ Head(rejected[a])[2] = run[a]
    BY <2>1, Endings DEF Reading, Settlement, Orderly, OrderlyAt
  <2> QED BY <1>1, <2>1, RefusedSteps
<1>2. ASSUME id \in processed'
      PROVE  \/ id \in processed
             \/ \E a \in Agents : stage[a] # "idle" /\ ~Reading(a)' /\ id[2] = run[a]
  <2>1. ASSUME NEW a \in Agents, Rename(a), id \notin processed
        PROVE  stage[a] # "idle" /\ ~Reading(a)' /\ id[2] = run[a]
    BY <1>2, <2>1, Endings DEF Rename, Reading
  <2> QED BY <1>2, <2>1, ProcessedSteps
<1> QED BY <1>1, <1>2

\* A Run whose outbox was taken away does not work on another.
LEMMA OrderlyStep == ASSUME Typed, NewIds, Settlement, Next PROVE Orderly'
<1>1. /\ stage \in [Agents -> Stages] /\ at \in [Agents -> Nat \ {0}]
      /\ rejected \in [Agents -> Seq(Ids)]
  BY DEF Typed, TypeOK
<1>2. used \subseteq used'
  BY UsedGrows
<1>3. ASSUME NEW a \in Agents, stage'[a] = "idle"
      PROVE  at'[a] = 1 /\ rejected'[a] = << >>
  <2>1. ASSUME NEW b \in Agents, AgentAction(b), b # a
        PROVE  at'[a] = at[a] /\ rejected'[a] = rejected[a] /\ stage'[a] = stage[a]
    BY <2>1, AgentFrame DEF AgentAction, Untouched
  <2>2. CASE Tick \/ \E c \in Clients : RequestStep(c)
    BY <1>3, <2>2, RequestFrame DEF Settlement, Orderly, OrderlyAt
  <2>3. CASE Crash
    BY <2>3 DEF Crash
  <2>4. Return(a) => at'[a] = 1 /\ rejected'[a] = << >>
    BY <1>1 DEF Return
  <2>5. ~NextEntry(a) /\ ~Refuse(a)
    BY <1>1, <1>3 DEF NextEntry, Refuse, Goto
  <2>6. CASE AgentAction(a)
    <3>1. CASE Begin(a) \/ ChangeSource(a)
      <4>1. stage[a] = "idle" /\ UNCHANGED <<at, rejected>>
        BY <1>1, <1>3, <3>1
        DEF Begin, Propose, WriteBroken, Ingest, ChangeSource, Goto
      <4> QED BY <4>1 DEF Settlement, Orderly, OrderlyAt
    <3>2. ~CheckEntry(a) /\ ~ReadSource(a) /\ ~CheckTarget(a) /\ ~VerifyCitation(a)
      BY <1>1, <1>3, <2>5
      DEF CheckEntry, ReadSource, CheckTarget, VerifyCitation, Mint, Goto
    <3>3. ~AppendPointer(a) /\ ~Commit(a) /\ ~AuditFails(a) /\ ~Audit(a)
      BY <1>1, <1>3, <2>5 DEF AppendPointer, Commit, AuditFails, Audit, Goto
    <3>4. CASE Withdraw(a) \/ PersistFails(a) \/ RenameFails(a) \/ ReportFails(a)
      BY <2>4, <3>4 DEF Withdraw, PersistFails, RenameFails, ReportFails
    <3>5. CASE Rename(a)
      BY <1>1, <1>3, <2>4, <3>5 DEF Rename, Goto
    <3>6. CASE Report(a)
      <4>1. stage[a] = "reporting"
        BY <3>6 DEF Report
      <4> QED BY <1>3, <2>4, <3>6, <4>1 DEF Report
    <3> QED BY <2>6, <3>1, <3>2, <3>3, <3>4, <3>5, <3>6 DEF AgentAction, AgentStep
  <2> QED BY <1>3, <2>1, <2>2, <2>3, <2>6, StepsByActor DEF Settlement, Orderly, OrderlyAt
<1>4. ASSUME NEW a \in Agents, stage'[a] # "idle", NEW id \in Range(rejected'[a])
      PROVE  id[2] = run'[a]
  <2>1. CASE stage[a] = "idle"
    <3>1. PICK r \in Runs : Ingest(a, r)
      BY <1>4, <2>1, Beginning
    <3>2. rejected'[a] = << >>
      BY <2>1, <3>1 DEF Ingest, Settlement, Orderly, OrderlyAt
    <3> QED BY <1>4, <3>2 DEF Range
  <2>2. CASE stage[a] # "idle"
    <3>1. run'[a] = run[a] /\ \A e \in Range(rejected[a]) : e[2] = run[a]
      BY <1>4, <2>2, SameRun DEF Settlement, Orderly, OrderlyAt
    <3>2. NewId(a)[2] = run[a]
      BY DEF NewId
    <3>3. \/ rejected'[a] = rejected[a]
          \/ NewId(a) \in Ids /\ rejected'[a] = Append(rejected[a], NewId(a))
          \/ rejected[a] # << >> /\ rejected'[a] = Tail(rejected[a])
      BY <1>4, RejectedSteps
    <3>4. PICK q \in Seq(Ids) : q = rejected[a]
      BY <1>1
    <3>5. CASE rejected'[a] = Tail(q) /\ q # << >>
      <4>1. Head(q) \in Ids
        BY <3>5
      <4>2. Range(q) = {Head(q)} \cup Range(Tail(q))
        BY <3>5, <4>1, RangeFacts
      <4> QED BY <1>4, <3>1, <3>4, <3>5, <4>2
    <3>6. CASE NewId(a) \in Ids /\ rejected'[a] = Append(q, NewId(a))
      <4>1. Range(Append(q, NewId(a))) = Range(q) \cup {NewId(a)}
        BY <3>6, RangeFacts
      <4> QED BY <1>4, <3>1, <3>2, <3>4, <3>6, <4>1
    <3> QED BY <1>4, <3>1, <3>3, <3>4, <3>5, <3>6
  <2> QED BY <2>1, <2>2
<1>5. ASSUME NEW a \in Agents, Reading(a)', NEW id \in refused' \cup processed'
      PROVE  id[2] # run'[a]
  <2>1. stage'[a] # "idle"
    BY <1>5 DEF Reading
  <2>2. CASE stage[a] = "idle"
    <3>1. PICK r \in Runs : Ingest(a, r) /\ run'[a] = r
      BY <2>1, <2>2, Beginning
    <3>2. r \notin used /\ processed' = processed /\ refused' = refused
      BY <3>1 DEF Ingest
    <3> QED BY <1>5, <3>1, <3>2 DEF Settlement, Orderly
  <2>3. CASE stage[a] # "idle"
    <3>1. run'[a] = run[a] /\ Reading(a)
      BY <1>5, <2>1, <2>3, Progress DEF Reading
    <3>2. ASSUME NEW b \in Agents, stage[b] # "idle", ~Reading(b)', id[2] = run[b]
          PROVE  run[a] # id[2]
      BY <1>5, <2>3, <3>2 DEF NewIds, OwnRuns
    <3>3. id \in refused \cup processed => id[2] # run[a]
      BY <3>1 DEF Settlement, Orderly, OrderlyAt
    <3> QED BY <1>5, <3>1, <3>2, <3>3, PutAway
  <2> QED BY <2>2, <2>3
<1>6. ASSUME NEW id \in refused' \cup processed'
      PROVE  id[2] \in used'
  BY <1>2, <1>6, PutAway DEF Settlement, Orderly, NewIds, OwnRuns
<1> QED BY <1>3, <1>4, <1>5, <1>6 DEF Orderly, OrderlyAt

\* An entry that was taken away stays what it is: Evidence or not, and if it is not,
\* rejected or not.
LEMMA ExclusiveStep == ASSUME Typed, NewIds, Settlement, Next PROVE Exclusive'
<1> SUFFICES ASSUME NEW id \in processed', Known(id)'
             PROVE  id \notin refused' /\ \A b \in Agents : id \notin Range(rejected'[b])
  BY DEF Exclusive, ToReport, Known
<1>1. rejected \in [Agents -> Seq(Ids)]
  BY DEF Typed, TypeOK
<1>2. CASE id \in processed
  <2>1. \A a \in Agents : Reading(a) => id # NewId(a)
    BY <1>2 DEF Settlement, Orderly, OrderlyAt, NewId
  <2>2. Known(id)
    BY <2>1, KnownSteps DEF Commit, Reading
  <2>3. id \notin refused /\ \A b \in Agents : id \notin Range(rejected[b])
    BY <1>2, <2>2 DEF Settlement, Exclusive, ToReport
  <2>4. id \notin refused'
    BY <2>3, RefusedSteps
  <2>5. ASSUME NEW b \in Agents
        PROVE  id \notin Range(rejected'[b])
    <3>1. PICK q \in Seq(Ids) : q = rejected[b]
      BY <1>1
    <3>2. \/ rejected'[b] = q
          \/ Reading(b) /\ NewId(b) \in Ids /\ rejected'[b] = Append(q, NewId(b))
          \/ q # << >> /\ rejected'[b] = Tail(q)
          \/ rejected'[b] = << >>
      BY <3>1, RejectedSteps DEF Reading
    <3>3. CASE Reading(b) /\ NewId(b) \in Ids /\ rejected'[b] = Append(q, NewId(b))
      <4>1. Range(Append(q, NewId(b))) = Range(q) \cup {NewId(b)}
        BY <3>3, RangeFacts
      <4> QED BY <2>1, <2>3, <3>1, <3>3, <4>1
    <3>4. CASE q # << >> /\ rejected'[b] = Tail(q)
      <4>1. Head(q) \in Ids
        BY <3>4
      <4>2. Range(q) = {Head(q)} \cup Range(Tail(q))
        BY <3>4, <4>1, RangeFacts
      <4> QED BY <2>3, <3>1, <3>4, <4>2
    <3>5. CASE rejected'[b] = << >>
      BY <3>5 DEF Range
    <3> QED BY <2>3, <3>1, <3>2, <3>3, <3>4, <3>5
  <2> QED BY <2>4, <2>5
<1>3. CASE id \notin processed
  <2>1. PICK a \in Agents : Rename(a)
    BY <1>3, ProcessedSteps
  <2>2. PICK i \in DOMAIN outbox[a] : id = Id(a, i)
    BY <1>3, <2>1 DEF Rename, Id
  <2>3. i < at[a]
    <3>1. outbox[a] \in Seq(Entries) /\ at[a] \in Nat /\ at[a] > Len(outbox[a])
      BY <2>1 DEF Rename, Done, Typed, TypeOK
    <3>2. i \in 1 .. Len(outbox[a])
      BY <3>1
    <3> QED BY <3>1, <3>2
  <2>4. Reading(a) /\ refused' = refused /\ evidence' = evidence
    BY <2>1 DEF Rename, Reading
  <2>5. Known(id)
    BY <2>4 DEF Known
  <2>6. id \notin Range(rejected[a]) /\ id[2] = run[a]
    BY <2>2, <2>3, <2>4, <2>5 DEF Settlement, SettledAt, Id
  <2>7. id \notin refused'
    BY <2>4, <2>6 DEF Settlement, Orderly, OrderlyAt
  <2>8. ASSUME NEW b \in Agents
        PROVE  id \notin Range(rejected'[b])
    <3>1. CASE b = a
      <4>1. rejected'[a] = rejected[a] \/ rejected'[a] = << >>
        BY <1>1, <2>1 DEF Rename, Return
      <4> QED BY <2>6, <3>1, <4>1 DEF Range
    <3>2. CASE b # a
      <4>1. rejected'[b] = rejected[b]
        BY <2>1, <3>2, AgentFrame DEF AgentAction, AgentStep, Untouched
      <4>2. CASE stage[b] = "idle"
        BY <4>1, <4>2 DEF Settlement, Orderly, OrderlyAt, Range
      <4>3. CASE stage[b] # "idle"
        <5>1. run[b] # run[a]
          BY <2>4, <3>2, <4>3 DEF NewIds, OwnRuns, Reading
        <5> QED BY <2>6, <4>1, <4>3, <5>1 DEF Settlement, Orderly, OrderlyAt
      <4> QED BY <4>2, <4>3
    <3> QED BY <3>1, <3>2
  <2> QED BY <2>7, <2>8
<1> QED BY <1>2, <1>3

\* The Runs some of whose reports are lost.
LostRuns == {id[2] : id \in Unreported}

\* Reports are lost with a refusal of the ledger, or with the server.
LEMMA LostSteps ==
    ASSUME Typed, NewIds, Settlement, Next
    PROVE  \/ LostRuns' \subseteq LostRuns
           \/ \E a \in Agents : ReportFails(a) /\ LostRuns' \subseteq LostRuns \cup {run[a]}
           \/ Crash /\ LostRuns' \subseteq LostRuns \cup {run[a] : a \in Agents}
<1>1. rejected \in [Agents -> Seq(Ids)]
  BY DEF Typed, TypeOK
<1>2. ASSUME NEW id \in processed', ~Known(id)', id \notin refused',
             \A b \in Agents : id \notin Range(rejected'[b])
      PROVE  \/ id \in Unreported
             \/ \E a \in Agents : id[2] = run[a] /\ (ReportFails(a) \/ Crash)
  <2>1. ~Known(id) /\ id \notin refused
    BY <1>2, KnownStays, RefusedSteps
  <2>2. CASE id \in processed
    <3>1. ASSUME NEW a \in Agents, id \in Range(rejected[a])
          PROVE  id[2] = run[a] /\ (ReportFails(a) \/ Crash)
      <4>1. PICK q \in Seq(Ids) : q = rejected[a]
        BY <1>1
      <4>2. stage[a] # "idle" /\ id[2] = run[a]
        BY <3>1 DEF Settlement, Orderly, OrderlyAt, Range
      <4>3. ~Reading(a)
        BY <2>2, <4>2 DEF Settlement, Orderly, OrderlyAt
      <4>4. rejected'[a] # q
        BY <1>2, <3>1, <4>1
      <4>5. ~(NewId(a) \in Ids /\ rejected'[a] = Append(q, NewId(a)))
        <5>1. NewId(a) \in Ids => Range(Append(q, NewId(a))) = Range(q) \cup {NewId(a)}
          BY RangeFacts
        <5> QED BY <1>2, <3>1, <4>1, <5>1
      <4>6. ~(q # << >> /\ refused' = refused \cup {Head(q)} /\ rejected'[a] = Tail(q))
        <5>1. ASSUME q # << >> /\ refused' = refused \cup {Head(q)} /\ rejected'[a] = Tail(q)
              PROVE  FALSE
          <6>1. Head(q) \in Ids
            BY <5>1
          <6>2. Range(q) = {Head(q)} \cup Range(Tail(q))
            BY <5>1, <6>1, RangeFacts
          <6> QED BY <1>2, <3>1, <4>1, <5>1, <6>2
        <5> QED BY <5>1
      <4> QED BY <4>1, <4>2, <4>3, <4>4, <4>5, <4>6, RejectedSteps
    <3>2. CASE id \in ToReport
      BY <3>1, <3>2 DEF ToReport
    <3>3. CASE id \notin ToReport
      BY <2>1, <2>2, <3>3 DEF Unreported
    <3> QED BY <3>2, <3>3
  <2>3. CASE id \notin processed
    <3>1. PICK a \in Agents : Rename(a)
      BY <1>2, <2>3, ProcessedSteps
    <3>2. PICK i \in DOMAIN outbox[a] : id = Id(a, i)
      BY <1>2, <2>3, <3>1 DEF Rename, Id
    <3>3. i < at[a]
      <4>1. outbox[a] \in Seq(Entries) /\ at[a] \in Nat /\ at[a] > Len(outbox[a])
        BY <3>1 DEF Rename, Done, Typed, TypeOK
      <4>2. i \in 1 .. Len(outbox[a])
        BY <4>1
      <4> QED BY <4>1, <4>2
    <3>4. Reading(a)
      BY <3>1 DEF Rename, Reading
    <3>5. id \in Range(rejected[a])
      BY <2>1, <3>2, <3>3, <3>4 DEF Settlement, SettledAt
    <3>6. rejected'[a] = rejected[a]
      BY <3>1, <3>5 DEF Rename, Range
    <3> QED BY <1>2, <3>5, <3>6
  <2> QED BY <2>2, <2>3
<1>3. \A id \in Unreported' : /\ id \in processed' /\ ~Known(id)' /\ id \notin refused'
                             /\ \A b \in Agents : id \notin Range(rejected'[b])
  BY DEF Unreported, ToReport, Known
<1>4. \A r \in LostRuns' : \/ r \in LostRuns
                           \/ \E a \in Agents : r = run[a] /\ (ReportFails(a) \/ Crash)
  BY <1>2, <1>3 DEF LostRuns
<1>5. ASSUME NEW a \in Agents, ReportFails(a)
      PROVE  ~Crash /\ \A b \in Agents : ReportFails(b) => b = a
  <2>1. stage[a] = "reporting" /\ stage \in [Agents -> Stages] /\ crashes' = crashes
    BY <1>5 DEF ReportFails, Typed, TypeOK
  <2>2. ~Crash
    BY <2>1, BoundsAssumption DEF Crash, Typed, TypeOK
  <2>3. \A b \in Agents : ReportFails(b) => stage' = [stage EXCEPT ![b] = "idle"] /\ stage[b] = "reporting"
    BY DEF ReportFails, Return, Goto
  <2> QED BY <1>5, <2>1, <2>2, <2>3
<1> QED BY <1>4, <1>5

\* The Runs the Agents are at are no more than they are.
LEMMA RunsCounted ==
    /\ IsFiniteSet({run[a] : a \in Agents})
    /\ Cardinality({run[a] : a \in Agents}) <= Cardinality(Agents)
<1> DEFINE T == {run[a] : a \in Agents}
           f == [a \in Agents |-> run[a]]
<1>1. f \in Surjection(Agents, T)
  BY DEF Surjection
<1>2. IsFiniteSet(T) /\ Cardinality(T) <= Cardinality(Agents)
  BY <1>1, AgentsAssumption, FS_Surjection
<1> QED BY <1>2

\* Each refusal costs the reports of one Run, each crash those of one per Agent.
FewLost ==
    /\ IsFiniteSet(LostRuns)
    /\ Cardinality(LostRuns) <= auditFaults + crashes * Cardinality(Agents)

LEMMA FewLostStep ==
    ASSUME Typed, NewIds, Settlement, FewLost, Next
    PROVE  FewLost'
<1> DEFINE New == {run[a] : a \in Agents}
<1>1. PICK n, s, s2, p, p2 :
          /\ n = Cardinality(Agents) /\ p = crashes * n /\ p2 = crashes' * n
          /\ s = Cardinality(LostRuns) /\ s2 = Cardinality(LostRuns')
  OBVIOUS
<1>2. /\ IsFiniteSet(LostRuns) /\ s <= auditFaults + p /\ n \in Nat /\ s \in Nat
  BY <1>1, AgentsAssumption, FS_CardinalityType DEF FewLost
<1>3. /\ auditFaults \in Nat /\ crashes \in Nat /\ auditFaults' \in Nat /\ crashes' \in Nat
      /\ auditFaults <= auditFaults' /\ crashes <= crashes'
      /\ (\E a \in Agents : ReportFails(a)) => auditFaults' = auditFaults + 1
      /\ Crash => crashes' = crashes + 1
  BY FaultsCounted
<1>4. p \in Nat /\ p2 \in Nat /\ p <= p2 /\ (crashes' = crashes + 1 => p2 = p + n)
  <2>1. \A c, d, m \in Nat : c <= d => c * m \in Nat /\ d * m \in Nat /\ c * m <= d * m
    OBVIOUS
  <2>2. \A c, m \in Nat : (c + 1) * m = c * m + m
    OBVIOUS
  <2>3. p \in Nat /\ p2 \in Nat /\ p <= p2
    BY <1>1, <1>2, <1>3, <2>1
  <2>4. ASSUME crashes' = crashes + 1 PROVE p2 = p + n
    <3>1. (crashes + 1) * n = crashes * n + n
      BY <1>2, <1>3, <2>2
    <3> QED BY <1>1, <2>4, <3>1
  <2> QED BY <2>3, <2>4
<1>9. \A d, b, k, b2, k2 \in Nat :
          d <= s + k /\ b <= b2 /\ p <= p2 =>
              /\ k = 0 /\ s <= b + p => d <= b2 + p2
              /\ k = 1 /\ s <= b + p /\ b2 = b + 1 => d <= b2 + p2
              /\ k <= k2 /\ s <= b + p /\ p2 = p + k2 => d <= b2 + p2
  BY <1>2, <1>4
<1>5. SUFFICES IsFiniteSet(LostRuns') /\ s2 <= auditFaults' + p2
  BY <1>1 DEF FewLost
<1>6. CASE LostRuns' \subseteq LostRuns
  <2>1. IsFiniteSet(LostRuns') /\ s2 \in Nat /\ s2 <= s
    BY <1>1, <1>2, <1>6, FS_Subset, FS_CardinalityType
  <2>2. s2 <= s + 0
    BY <1>2, <2>1
  <2> QED BY <1>2, <1>3, <1>4, <1>9, <2>1, <2>2
<1>7. ASSUME NEW a \in Agents, ReportFails(a), LostRuns' \subseteq LostRuns \cup {run[a]}
      PROVE  IsFiniteSet(LostRuns') /\ s2 <= auditFaults' + p2
  <2>1. IsFiniteSet({run[a]}) /\ Cardinality({run[a]}) = 1
    BY FS_Singleton
  <2>2. IsFiniteSet(LostRuns') /\ s2 \in Nat /\ s2 <= s + 1
    BY <1>1, <1>2, <1>7, <2>1, GrownCardinality
  <2>3. auditFaults' = auditFaults + 1
    BY <1>3, <1>7
  <2> QED BY <1>2, <1>3, <1>4, <2>2, <2>3
<1>8. CASE Crash /\ LostRuns' \subseteq LostRuns \cup New
  <2>1. IsFiniteSet(New) /\ Cardinality(New) <= n /\ Cardinality(New) \in Nat
    BY <1>1, RunsCounted, FS_CardinalityType
  <2> HIDE DEF New
  <2>2. IsFiniteSet(LostRuns') /\ s2 \in Nat /\ s2 <= s + Cardinality(New)
    BY <1>1, <1>2, <1>8, <2>1, GrownCardinality
  <2>3. crashes' = crashes + 1
    BY <1>3, <1>8
  <2> QED BY <1>2, <1>3, <1>4, <1>9, <2>1, <2>2, <2>3
<1> QED BY <1>6, <1>7, <1>8, LostSteps

\* Whatever fails: no entry of an outbox that was taken away is both Evidence and rejected,
\* and no more Runs have entries that are neither than refusals and crashes account for.
THEOREM EvidenceSettled == Spec => []ProcessedIsSettled
<1> DEFINE Inv == Typed /\ NewIds /\ Settlement /\ FewLost
<1>1. Init => Inv
  <2> SUFFICES ASSUME Init PROVE Inv
    OBVIOUS
  <2>1. Typed /\ NewIds
    BY IdentifiedInit DEF Identified
  <2>2. Settlement
    BY DEF Init, Settlement, Orderly, OrderlyAt, SettledAt, Reading, Exclusive
  <2>3. LostRuns = {} /\ auditFaults = 0 /\ crashes = 0
    BY DEF Init, LostRuns, Unreported
  <2>4. Cardinality(Agents) \in Nat
    BY AgentsAssumption, FS_CardinalityType
  <2>5. IsFiniteSet(LostRuns) /\ Cardinality(LostRuns) = 0
    BY <2>3, FS_EmptySet
  <2>6. 0 <= 0 + 0 * Cardinality(Agents)
    BY <2>4
  <2> QED BY <2>1, <2>2, <2>3, <2>5, <2>6 DEF FewLost
<1>2. Inv /\ [Next]_vars => Inv'
  <2>1. CASE Inv /\ UNCHANGED vars
    <3>1. UNCHANGED <<evidence, outbox, processed, refused, stage, run, at, rejected, used,
                      auditFaults, crashes>>
      BY <2>1 DEF vars, store, files, locals, faults
    <3>2. Typed' /\ NewIds'
      BY <2>1, TypedStep, NewIdsStep
    <3>6. ASSUME NEW a \in Agents
          PROVE  OrderlyAt(a)' /\ SettledAt(a)'
      <4>1. OrderlyAt(a) /\ SettledAt(a)
        BY <2>1 DEF Settlement, Orderly
      <4>2. OrderlyAt(a)'
        BY <3>1, <4>1 DEF OrderlyAt, Reading
      <4>3. SettledAt(a)'
        BY <3>1, <4>1 DEF SettledAt, Reading, Known, Id
      <4> QED BY <4>2, <4>3
    <3>7. Orderly'
      BY <2>1, <3>1, <3>6 DEF Settlement, Orderly
    <3>8. Exclusive'
      BY <2>1, <3>1 DEF Settlement, Exclusive, ToReport, Known
    <3>3. Settlement'
      BY <3>6, <3>7, <3>8 DEF Settlement
    <3>4. LostRuns' = LostRuns
      BY <3>1 DEF LostRuns, Unreported, ToReport, Known
    <3>5. FewLost'
      BY <2>1, <3>1, <3>4 DEF FewLost
    <3> QED BY <3>2, <3>3, <3>5
  <2>2. CASE Inv /\ Next
    BY <2>2, TypedStep, NewIdsStep, OrderlyStep, SettledStep, ExclusiveStep, FewLostStep
    DEF Settlement
  <2> QED BY <2>1, <2>2
<1>3. Inv => ProcessedIsSettled
  BY DEF Settlement, Exclusive, FewLost, LostRuns, ProcessedIsSettled
<1> HIDE DEF Inv
<1> QED BY <1>1, <1>2, <1>3, PTL DEF Spec

(***************************************************************************)
(* Once.  A claim that was proposed waits in one outbox or was taken away  *)
(* with one.  A reading of the outbox makes Evidence of it at most once,   *)
(* and the next reading follows only on a fault that ended this one.       *)
(***************************************************************************)
Offered(a) == {outbox[a][i].claim : i \in DOMAIN outbox[a]}

Apart ==
    /\ \A a, b \in Agents : a # b => Offered(a) \cap Offered(b) = {}
    /\ \A id \in processed : \A a \in Agents : id[1] \notin Offered(a)
    /\ \A id, other \in processed : id[1] = other[1] => id = other

\* Which is so of the outboxes and of what was processed, whatever else changes.
LEMMA ApartKept ==
    ASSUME Apart, UNCHANGED <<outbox, processed>>
    PROVE  Apart'
<1>1. \A a \in Agents : Offered(a)' = Offered(a)
  BY DEF Offered
<1>2. processed' = processed
  OBVIOUS
<1> QED BY <1>1, <1>2 DEF Apart

\* Claims are offered when they are fresh, and taken away with their outbox.
LEMMA OfferSteps ==
    ASSUME Typed, Next
    PROVE  \/ UNCHANGED <<outbox, processed>>
           \/ \E a \in Agents, claim \in Claims :
                 /\ Fresh(claim) /\ processed' = processed
                 /\ Offered(a)' = Offered(a) \cup {claim}
                 /\ \A b \in Agents : b # a => outbox'[b] = outbox[b]
           \/ \E a \in Agents :
                 /\ stage[a] # "idle"
                 /\ processed' = processed \cup {<<c, run[a]>> : c \in Offered(a)}
                 /\ outbox' = [outbox EXCEPT ![a] = << >>]
<1>1. outbox \in [Agents -> Seq(Entries)]
  BY DEF Typed, TypeOK
<1>2. ASSUME NEW a \in Agents, Propose(a)
      PROVE  \E claim \in Claims :
                 /\ Fresh(claim) /\ processed' = processed
                 /\ Offered(a)' = Offered(a) \cup {claim}
                 /\ \A b \in Agents : b # a => outbox'[b] = outbox[b]
  <2>5. PICK claim \in Claims :
            Fresh(claim) /\ \E x : x.claim = claim /\ outbox' = [outbox EXCEPT ![a] = Append(@, x)]
    BY <1>2 DEF Propose
  <2>1. PICK x : x.claim = claim /\ outbox' = [outbox EXCEPT ![a] = Append(@, x)]
    BY <2>5
  <2>2. /\ DOMAIN outbox'[a] = DOMAIN outbox[a] \cup {Len(outbox[a]) + 1}
        /\ \A i \in DOMAIN outbox[a] : outbox'[a][i] = outbox[a][i]
        /\ outbox'[a][Len(outbox[a]) + 1] = x
    <3>1. PICK box \in Seq(Entries) : box = outbox[a]
      BY <1>1
    <3>2. outbox'[a] = Append(box, x)
      BY <1>1, <2>1, <3>1
    <3>3. /\ DOMAIN Append(box, x) = DOMAIN box \cup {Len(box) + 1}
          /\ \A i \in DOMAIN box : Append(box, x)[i] = box[i]
          /\ Append(box, x)[Len(box) + 1] = x
      OBVIOUS
    <3> QED BY <3>1, <3>2, <3>3
  <2>3. Offered(a)' = Offered(a) \cup {claim}
    BY <2>1, <2>2 DEF Offered
  <2>4. processed' = processed
    BY <1>2 DEF Propose
  <2> QED BY <1>1, <2>1, <2>3, <2>4, <2>5
<1>3. ASSUME NEW a \in Agents, Rename(a)
      PROVE  /\ stage[a] # "idle"
             /\ processed' = processed \cup {<<c, run[a]>> : c \in Offered(a)}
             /\ outbox' = [outbox EXCEPT ![a] = << >>]
  BY <1>3 DEF Rename, TakeAway, Offered
<1>4. ASSUME NEW a \in Agents, AgentAction(a)
      PROVE  UNCHANGED <<outbox, processed>> \/ Propose(a) \/ Rename(a)
  BY <1>4
  DEF AgentAction, Begin, AgentStep, WriteBroken, Ingest, ChangeSource, CheckEntry, ReadSource,
      CheckTarget, AppendPointer, VerifyCitation, Commit, Audit, Withdraw, Report, AuditFails,
      PersistFails, RenameFails, ReportFails, DiskFails
<1>5. ASSUME NEW c \in Clients, RequestStep(c)
      PROVE  UNCHANGED <<outbox, processed>>
  BY <1>5 DEF RequestStep, ClientStep, Grant, Deny, Govern, GovernFails,
              PersistFailsForRequest, DiskFails, Ask
<1>6. CASE Tick \/ Crash
  BY <1>6 DEF Tick, Crash
<1> QED BY <1>2, <1>3, <1>4, <1>5, <1>6, StepsByActor

\* Each claim stays where it is, or is taken away for good.
LEMMA ApartStep == ASSUME Typed, Apart, Next PROVE Apart'
<1>1. outbox \in [Agents -> Seq(Entries)] /\ run \in [Agents -> Runs \cup {None}]
  BY DEF Typed, TypeOK
<1>2. CASE UNCHANGED <<outbox, processed>>
  BY <1>2, ApartKept
<1>3. ASSUME NEW a \in Agents, NEW claim \in Claims,
             Fresh(claim), processed' = processed, Offered(a)' = Offered(a) \cup {claim},
             \A b \in Agents : b # a => outbox'[b] = outbox[b]
      PROVE  Apart'
  <2>1. \A b \in Agents : claim \notin Offered(b) /\ (b # a => Offered(b)' = Offered(b))
    BY <1>3 DEF Fresh, Offered
  <2>2. \A id \in processed : id[1] # claim
    BY <1>3 DEF Fresh, Typed, TypeOK, Ids
  <2> QED BY <1>3, <2>1, <2>2 DEF Apart
<1>4. ASSUME NEW a \in Agents,
             processed' = processed \cup {<<c, run[a]>> : c \in Offered(a)},
             outbox' = [outbox EXCEPT ![a] = << >>]
      PROVE  Apart'
  <2>1. Offered(a)' = {} /\ \A b \in Agents : b # a => Offered(b)' = Offered(b)
    BY <1>1, <1>4 DEF Offered
  <2>2. \A id \in processed' : id \in processed \/ (id[1] \in Offered(a) /\ id[2] = run[a] /\ id = <<id[1], id[2]>>)
    BY <1>4
  <2>3. \A b, c \in Agents : b # c => Offered(b)' \cap Offered(c)' = {}
    BY <2>1 DEF Apart
  <2>4. \A id \in processed' : \A b \in Agents : id[1] \notin Offered(b)'
    BY <2>1, <2>2 DEF Apart
  <2>5. \A id, other \in processed' : id[1] = other[1] => id = other
    BY <2>2 DEF Apart
  <2> QED BY <2>3, <2>4, <2>5 DEF Apart
<1> QED BY <1>2, <1>3, <1>4, OfferSteps

\* An outbox is left unread only by a fault: otherwise it is taken away.
LEMMA Leaving ==
    ASSUME Typed, Next, NEW a \in Agents,
           stage[a] \notin {"idle", "closing", "reporting"}, stage'[a] = "idle"
    PROVE  Rename(a) \/ DiskFails \/ Crash
<1>1. stage \in [Agents -> Stages]
  BY DEF Typed, TypeOK
<1>2. ASSUME NEW b \in Agents, AgentAction(b), b # a
      PROVE  FALSE
  BY <1>2, AgentFrame DEF AgentAction, Untouched
<1>3. ~(Tick \/ \E c \in Clients : RequestStep(c))
  BY RequestFrame
<1>4. CASE AgentAction(a)
  <2>1. ~NextEntry(a) /\ ~Refuse(a)
    BY <1>1 DEF NextEntry, Refuse, Goto
  <2>2. ~Begin(a) /\ ~ChangeSource(a)
    BY DEF Begin, Propose, WriteBroken, Ingest, ChangeSource
  <2>3. ~CheckEntry(a) /\ ~ReadSource(a) /\ ~CheckTarget(a) /\ ~VerifyCitation(a)
    BY <1>1, <2>1 DEF CheckEntry, ReadSource, CheckTarget, VerifyCitation, Mint, Goto
  <2>4. ~AppendPointer(a) /\ ~Commit(a) /\ ~AuditFails(a) /\ ~Audit(a)
    BY <1>1, <2>1 DEF AppendPointer, Commit, AuditFails, Audit, Goto
  <2>5. ~Withdraw(a) /\ ~Report(a) /\ ~ReportFails(a)
    BY DEF Withdraw, Report, ReportFails
  <2>6. PersistFails(a) \/ RenameFails(a) => DiskFails
    BY DEF PersistFails, RenameFails
  <2> QED BY <1>4, <2>2, <2>3, <2>4, <2>5, <2>6 DEF AgentAction, AgentStep
<1> QED BY <1>2, <1>3, <1>4, StepsByActor

\* The Evidence a claim has become.
Made(claim) == {e \in Ids : Known(e) /\ e[1] = claim}

\* Only a commit adds to it, of the Agent in whose outbox the claim is.
LEMMA MadeSteps ==
    ASSUME Typed, Next, NEW claim
    PROVE  \/ Made(claim)' = Made(claim)
           \/ \E a \in Agents : /\ Commit(a) /\ claim \in Offered(a) /\ run'[a] = run[a]
                                /\ stage[a] = "committing" /\ stage'[a] = "auditing"
                                /\ Made(claim)' = Made(claim) \cup {<<claim, run[a]>>}
<1>1. ASSUME NEW a \in Agents, Commit(a)
      PROVE  /\ NewId(a) \in Ids /\ NewId(a) = <<Entry(a).claim, run[a]>>
             /\ Entry(a).claim \in Offered(a) /\ run'[a] = run[a]
             /\ stage[a] = "committing" /\ stage'[a] = "auditing"
             /\ \A b \in Agents : Commit(b) => b = a
  <2>1. /\ at[a] \in DOMAIN outbox[a] /\ run[a] \in Runs
        /\ stage[a] = "committing" /\ stage \in [Agents -> Stages]
    BY <1>1 DEF Commit, Typed, TypeOK, Located, LocatedAt
  <2>2. NewId(a) \in Ids
    BY <2>1, EntryTyping DEF Typed
  <2>3. \A b \in Agents : Commit(b) => b = a
    BY <1>1 DEF Commit, InTurn
  <2> QED BY <1>1, <2>1, <2>2, <2>3 DEF Commit, Goto, NewId, Entry, Offered
<1>2. \A e : Known(e)' <=> Known(e) \/ \E a \in Agents : Commit(a) /\ e = NewId(a)
  BY KnownSteps
<1>3. ASSUME NEW a \in Agents, Commit(a)
      PROVE  \/ Made(claim)' = Made(claim)
             \/ /\ claim = Entry(a).claim
                /\ Made(claim)' = Made(claim) \cup {<<claim, run[a]>>}
  <2>1. \A e : Known(e)' <=> Known(e) \/ e = NewId(a)
    BY <1>1, <1>2, <1>3
  <2>2. NewId(a) \in Ids /\ NewId(a) = <<Entry(a).claim, run[a]>> /\ NewId(a)[1] = Entry(a).claim
    BY <1>1, <1>3
  <2>3. CASE claim = Entry(a).claim
    BY <2>1, <2>2, <2>3 DEF Made
  <2>4. CASE claim # Entry(a).claim
    BY <2>1, <2>2, <2>4 DEF Made
  <2> QED BY <2>3, <2>4
<1>4. CASE \A a \in Agents : ~Commit(a)
  BY <1>2, <1>4 DEF Made
<1> QED BY <1>1, <1>3, <1>4

\* What the claims of an outbox became in earlier readings of it: each of these ended
\* with a fault, as the one does that is about to end with Evidence withdrawn.
Earlier(a, claim) == {e \in Made(claim) : stage[a] = "idle" \/ e[2] # run[a]}
Withdrawing(a) == IF stage[a] = "closing" THEN 1 ELSE 0
Faults == storeFaults + auditFaults + crashes

EarlierCounted(a, claim) == Cardinality(Earlier(a, claim)) + Withdrawing(a) <= Faults

\* Evidence comes from a claim that is offered or was taken away.
FromClaims ==
    \A v \in evidence :
        \/ \E id \in processed : id[1] = v.id[1]
        \/ \E a \in Agents : v.id[1] \in Offered(a)

Repeated ==
    /\ \A claim \in Claims :
           IsFiniteSet(Made(claim)) /\ Cardinality(Made(claim)) <= 1 + Faults
    /\ \A a \in Agents : \A claim \in Offered(a) : EarlierCounted(a, claim)

\* Faults are not forgotten.
LEMMA FaultsGrow ==
    ASSUME Typed, Next
    PROVE  /\ Faults \in Nat /\ Faults' \in Nat /\ Faults <= Faults'
           /\ (\E a \in Agents : AuditFails(a)) \/ DiskFails \/ Crash => Faults + 1 <= Faults'
<1>1. \A k, l, m, p, q, r \in Nat : k <= p /\ l <= q /\ m <= r =>
          /\ k + l + m \in Nat /\ p + q + r \in Nat /\ k + l + m <= p + q + r
          /\ p = k + 1 \/ q = l + 1 \/ r = m + 1 => k + l + m + 1 <= p + q + r
  OBVIOUS
<1> QED BY <1>1, FaultsCounted DEF Faults

\* Offers only come from Propose, and end with Rename.
LEMMA OfferedBefore ==
    ASSUME Typed, Next, NEW a \in Agents, NEW claim \in Offered(a)'
    PROVE  /\ claim \in Offered(a) \/ Fresh(claim)
           /\ ~Rename(a)
<1>1. outbox \in [Agents -> Seq(Entries)]
  BY DEF Typed, TypeOK
<1>2. ~Rename(a)
  BY <1>1 DEF Rename, TakeAway, Offered
<1>3. claim \in Offered(a) \/ Fresh(claim)
  <2>1. CASE UNCHANGED <<outbox, processed>>
    BY <2>1 DEF Offered
  <2>2. ASSUME NEW b \in Agents, NEW c \in Claims, Fresh(c),
               Offered(b)' = Offered(b) \cup {c}, \A d \in Agents : d # b => outbox'[d] = outbox[d]
        PROVE  claim \in Offered(a) \/ Fresh(claim)
    <3>1. CASE a = b
      BY <2>2, <3>1
    <3>2. CASE a # b
      BY <2>2, <3>2 DEF Offered
    <3> QED BY <3>1, <3>2
  <2>3. ASSUME NEW b \in Agents, outbox' = [outbox EXCEPT ![b] = << >>]
        PROVE  claim \in Offered(a)
    BY <1>1, <2>3 DEF Offered
  <2> QED BY <2>1, <2>2, <2>3, OfferSteps
<1> QED BY <1>2, <1>3

\* Evidence still comes from a claim that is offered or was taken away.
LEMMA FromClaimsStep == ASSUME Typed, FromClaims, Next PROVE FromClaims'
<1> SUFFICES ASSUME NEW v \in evidence'
             PROVE  \/ \E id \in processed' : id[1] = v.id[1]
                    \/ \E a \in Agents : v.id[1] \in Offered(a)'
  BY DEF FromClaims, Offered
<1>1. \/ \E id \in processed : id[1] = v.id[1]
      \/ \E a \in Agents : v.id[1] \in Offered(a)
  <2>1. ASSUME NEW w \in evidence, w.id = v.id
        PROVE  <1>1
    BY <2>1 DEF FromClaims
  <2>2. ASSUME NEW a \in Agents, Commit(a), v.id = NewId(a)
        PROVE  v.id[1] \in Offered(a)
    <3>1. at[a] \in DOMAIN outbox[a]
      BY <2>2 DEF Commit, Typed, Located, LocatedAt
    <3>2. v.id[1] = outbox[a][at[a]].claim
      BY <2>2 DEF NewId, Entry
    <3> QED BY <3>1, <3>2 DEF Offered
  <2> QED BY <2>1, <2>2, IdSteps
<1>2. CASE UNCHANGED <<outbox, processed>>
  BY <1>1, <1>2 DEF Offered
<1>3. ASSUME NEW a \in Agents, NEW claim \in Claims,
             processed' = processed, Offered(a)' = Offered(a) \cup {claim},
             \A b \in Agents : b # a => outbox'[b] = outbox[b]
      PROVE  \/ \E id \in processed' : id[1] = v.id[1]
             \/ \E b \in Agents : v.id[1] \in Offered(b)'
  <2>1. \A b \in Agents : b # a => Offered(b)' = Offered(b)
    BY <1>3 DEF Offered
  <2> QED BY <1>1, <1>3, <2>1
<1>4. ASSUME NEW a \in Agents,
             processed' = processed \cup {<<c, run[a]>> : c \in Offered(a)},
             outbox' = [outbox EXCEPT ![a] = << >>]
      PROVE  \/ \E id \in processed' : id[1] = v.id[1]
             \/ \E b \in Agents : v.id[1] \in Offered(b)'
  <2>1. \A b \in Agents : b # a => Offered(b)' = Offered(b)
    BY <1>4 DEF Offered, Typed, TypeOK
  <2>2. ASSUME v.id[1] \in Offered(a)
        PROVE  \E id \in processed' : id[1] = v.id[1]
    <3>1. <<v.id[1], run[a]>> \in processed'
      BY <1>4, <2>2
    <3> QED BY <3>1
  <2> QED BY <1>1, <1>4, <2>1, <2>2
<1> QED BY <1>2, <1>3, <1>4, OfferSteps

\* A reading that ends without the outbox being taken away has cost a fault.
LEMMA EarlierStep ==
    ASSUME Typed, NewIds, Apart, FromClaims, Repeated, Next,
           NEW a \in Agents, NEW claim \in Offered(a)'
    PROVE  EarlierCounted(a, claim)'
<1>1. PICK early, early2, f, f2 :
          /\ early = Earlier(a, claim) /\ early2 = Earlier(a, claim)'
          /\ f = Faults /\ f2 = Faults'
  OBVIOUS
<1>2. /\ f \in Nat /\ f2 \in Nat /\ f <= f2
      /\ AuditFails(a) \/ DiskFails \/ Crash => f + 1 <= f2
  BY <1>1, FaultsGrow
<1> SUFFICES Cardinality(early2) + Withdrawing(a)' <= f2
  BY <1>1 DEF EarlierCounted
<1>3. stage \in [Agents -> Stages] /\ run \in [Agents -> Runs \cup {None}]
  BY DEF Typed, TypeOK
<1>4. claim \in Claims
  <2>1. PICK i \in DOMAIN outbox'[a] : claim = outbox'[a][i].claim
    BY DEF Offered
  <2>2. outbox'[a] \in Seq(Entries)
    BY TypeStep DEF TypeOK
  <2>3. outbox'[a][i] \in Entries
    BY <2>1, <2>2
  <2> QED BY <2>1, <2>3 DEF Entries
<1>5. CASE claim \notin Offered(a)
  <2>1. Fresh(claim)
    BY <1>5, OfferedBefore
  <2>2. Made(claim) = {}
    <3>1. \A b \in Agents : claim \notin Offered(b)
      BY <2>1 DEF Fresh, Offered
    <3>2. \A id \in processed : id[1] # claim
      BY <2>1 DEF Fresh, Typed, TypeOK, Ids
    <3> QED BY <3>1, <3>2 DEF Made, Known, FromClaims
  <2>3. Made(claim)' = {}
    BY <2>1, <2>2, MadeSteps DEF Fresh, Offered
  <2>4. early2 = {} /\ Cardinality({}) = 0
    BY <1>1, <2>3, FS_EmptySet DEF Earlier
  <2>5. stage'[a] # "closing"
    <3>1. Propose(a)
      BY <1>5, OutboxSteps DEF Offered
    <3> QED BY <3>1 DEF Propose
  <2> QED BY <1>2, <2>4, <2>5 DEF Withdrawing
<1>6. CASE claim \in Offered(a)
  <2>1. /\ IsFiniteSet(Made(claim)) /\ Cardinality(early) + Withdrawing(a) <= f
    BY <1>1, <1>4, <1>6 DEF Repeated, EarlierCounted
  <2>2. IsFiniteSet(early) /\ Cardinality(early) \in Nat
    <3>1. early \subseteq Made(claim)
      BY <1>1 DEF Earlier
    <3> QED BY <2>1, <3>1, FS_Subset, FS_CardinalityType
  <2>3. Withdrawing(a) \in {0, 1} /\ Withdrawing(a)' \in {0, 1}
    BY DEF Withdrawing
  <2>4. \A b \in Agents : claim \in Offered(b) => b = a
    BY <1>6 DEF Apart
  <2>5. CASE stage[a] = "idle"
    <3>1. Made(claim)' = Made(claim)
      BY <2>4, <2>5, MadeSteps
    <3>2. early2 \subseteq early
      BY <1>1, <2>5, <3>1 DEF Earlier
    <3>3. Cardinality(early2) <= Cardinality(early) /\ Cardinality(early2) \in Nat
      BY <2>2, <3>2, FS_Subset, FS_CardinalityType
    <3>4. stage'[a] # "closing"
      BY <2>5, ClosingSteps DEF Closing, AuditFails
    <3> QED BY <1>2, <2>1, <2>2, <2>3, <3>3, <3>4 DEF Withdrawing
  <2>6. CASE stage[a] # "idle" /\ stage'[a] # "idle"
    <3>1. run'[a] = run[a]
      BY <2>6, SameRun
    <3>2. early2 = early
      BY <1>1, <2>4, <2>6, <3>1, MadeSteps DEF Earlier
    <3>3. CASE stage'[a] = "closing" /\ stage[a] # "closing"
      <4>1. AuditFails(a)
        BY <3>3, ClosingSteps DEF Closing
      <4>2. Withdrawing(a) = 0 /\ Withdrawing(a)' = 1
        BY <3>3 DEF Withdrawing
      <4> QED BY <1>2, <2>1, <2>2, <3>2, <4>1, <4>2
    <3>4. CASE stage'[a] # "closing" \/ stage[a] = "closing"
      <4>1. Withdrawing(a)' <= Withdrawing(a)
        BY <3>4 DEF Withdrawing
      <4> QED BY <1>2, <2>1, <2>2, <2>3, <3>2, <4>1
    <3> QED BY <3>3, <3>4
  <2>7. CASE stage[a] # "idle" /\ stage'[a] = "idle"
    <3>1. Made(claim)' = Made(claim)
      BY <2>4, <2>7, MadeSteps
    <3>2. early2 \subseteq early \cup {<<claim, run[a]>>}
      <4>1. \A e \in Made(claim) : e[2] = run[a] => e = <<claim, run[a]>>
        BY DEF Made, Ids
      <4> QED BY <1>1, <2>7, <3>1, <4>1 DEF Earlier
    <3>3. Cardinality(early2) \in Nat /\ Cardinality(early2) <= Cardinality(early) + 1
      <4>1. IsFiniteSet({<<claim, run[a]>>}) /\ Cardinality({<<claim, run[a]>>}) = 1
        BY FS_Singleton
      <4> QED BY <2>2, <3>2, <4>1, GrownCardinality
    <3>4. Withdrawing(a)' = 0
      BY <2>7 DEF Withdrawing
    <3>5. CASE stage[a] = "closing"
      <4>1. Withdrawing(a) = 1
        BY <3>5 DEF Withdrawing
      <4> QED BY <1>2, <2>1, <2>2, <3>3, <3>4, <4>1
    <3>6. CASE stage[a] # "closing"
      <4>1. stage[a] # "reporting"
        BY <1>6 DEF Offered, Typed, Located, LocatedAt
      <4>3. DiskFails \/ Crash
        BY <2>7, <3>6, <4>1, Leaving, OfferedBefore
      <4>2. f + 1 <= f2
        BY <1>2, <4>3
      <4> QED BY <1>2, <2>1, <2>2, <2>3, <3>3, <3>4, <4>2
    <3> QED BY <3>5, <3>6
  <2> QED BY <2>5, <2>6, <2>7
<1> QED BY <1>5, <1>6

\* Evidence is made of a claim once more only when its earlier readings are paid for.
LEMMA MadeCountedStep ==
    ASSUME Typed, Repeated, Next, NEW claim \in Claims
    PROVE  IsFiniteSet(Made(claim)') /\ Cardinality(Made(claim)') <= 1 + Faults'
<1>1. PICK f, f2 : f = Faults /\ f2 = Faults'
  OBVIOUS
<1>2. f \in Nat /\ f2 \in Nat /\ f <= f2
  BY <1>1, FaultsGrow
<1>3. /\ IsFiniteSet(Made(claim)) /\ Cardinality(Made(claim)) \in Nat
      /\ Cardinality(Made(claim)) <= 1 + f
  BY <1>1, FS_CardinalityType DEF Repeated
<1>4. CASE Made(claim)' = Made(claim)
  BY <1>1, <1>2, <1>3, <1>4
<1>5. ASSUME NEW a \in Agents, claim \in Offered(a), stage[a] = "committing",
             Made(claim)' = Made(claim) \cup {<<claim, run[a]>>}
      PROVE  IsFiniteSet(Made(claim)') /\ Cardinality(Made(claim)') <= 1 + Faults'
  <2>1. Cardinality(Earlier(a, claim)) + 0 <= f
    BY <1>1, <1>5 DEF Repeated, EarlierCounted, Withdrawing
  <2>2. Earlier(a, claim) \subseteq Made(claim)
    BY DEF Earlier
  <2>3. IsFiniteSet(Earlier(a, claim)) /\ Cardinality(Earlier(a, claim)) \in Nat
    BY <1>3, <2>2, FS_Subset, FS_CardinalityType
  <2>4. Made(claim)' \subseteq Earlier(a, claim) \cup {<<claim, run[a]>>}
    <3>1. \A e \in Made(claim) : e[2] = run[a] => e = <<claim, run[a]>>
      BY DEF Made, Ids
    <3> QED BY <1>5, <3>1 DEF Earlier
  <2>5. /\ IsFiniteSet(Made(claim)') /\ Cardinality(Made(claim)') \in Nat
        /\ Cardinality(Made(claim)') <= Cardinality(Earlier(a, claim)) + 1
    <3>1. IsFiniteSet({<<claim, run[a]>>}) /\ Cardinality({<<claim, run[a]>>}) = 1
      BY FS_Singleton
    <3> QED BY <2>3, <2>4, <3>1, GrownCardinality
  <2> QED BY <1>1, <1>2, <2>1, <2>3, <2>5
<1> QED BY <1>4, <1>5, MadeSteps

\* What was proposed once becomes Evidence again only as often as a write fails or
\* the server dies.
THEOREM EvidenceOnce == Spec => []RepeatsAreFaults
<1> DEFINE Inv == Typed /\ NewIds /\ Apart /\ FromClaims /\ Repeated
<1>1. Init => Inv
  <2> SUFFICES ASSUME Init PROVE Inv
    OBVIOUS
  <2>1. Apart /\ FromClaims /\ \A a \in Agents : Offered(a) = {}
    BY DEF Init, Apart, FromClaims, Offered
  <2>2. \A claim \in Claims : Made(claim) = {}
    BY DEF Init, Made, Known
  <2>3. IsFiniteSet({}) /\ Cardinality({}) = 0 /\ Faults = 0
    BY FS_EmptySet DEF Init, Faults
  <2> QED BY <2>1, <2>2, <2>3, IdentifiedInit DEF Identified, Repeated
<1>2. Inv /\ [Next]_vars => Inv'
  <2>1. CASE Inv /\ UNCHANGED vars
    <3>1. Apart'
      BY <2>1, ApartKept
    <3>2. FromClaims'
      BY <2>1 DEF FromClaims, Offered
    <3>3. Repeated'
      <4>1. Faults' = Faults
        BY <2>1 DEF Faults
      <4>2. \A claim : Made(claim)' = Made(claim)
        BY <2>1 DEF Made, Known
      <4>3. \A a \in Agents : Offered(a)' = Offered(a) /\ Withdrawing(a)' = Withdrawing(a)
        BY <2>1 DEF Offered, Withdrawing
      <4>4. \A a \in Agents : \A claim : Earlier(a, claim)' = Earlier(a, claim)
        BY <2>1, <4>2 DEF Earlier
      <4> QED BY <2>1, <4>1, <4>2, <4>3, <4>4 DEF Repeated, EarlierCounted
    <3> QED BY <2>1, <3>1, <3>2, <3>3, TypedStep, NewIdsStep
  <2>2. CASE Inv /\ Next
    <3>1. Repeated'
      BY <2>2, EarlierStep, MadeCountedStep DEF Repeated, Offered
    <3> QED BY <2>2, <3>1, TypedStep, NewIdsStep, ApartStep, FromClaimsStep
  <2> QED BY <2>1, <2>2
<1>3. Inv => RepeatsAreFaults
  <2>1. \A k, l, m \in Nat : 1 + (k + l + m) = 1 + k + l + m
    OBVIOUS
  <2>2. Inv => storeFaults \in Nat /\ auditFaults \in Nat /\ crashes \in Nat
    BY BoundsAssumption DEF Typed, TypeOK
  <2> QED BY <2>1, <2>2 DEF Repeated, RepeatsAreFaults, Made, Faults
<1> HIDE DEF Inv
<1> QED BY <1>1, <1>2, <1>3, PTL DEF Spec

(***************************************************************************)
(* EvidenceStore.  A commit records what it is derived from, which is      *)
(* known because a contributor once seen stays; a transition changes the   *)
(* status of the latest version of one Evidence; all else stutters.        *)
(***************************************************************************)
\* What readers see does not depend on anything but the versions.
LEMMA ReadersStutter ==
    ASSUME evidence' = evidence
    PROVE  UNCHANGED Promise!vars
<1>1. \A e : Known(e)' = Known(e) /\ Current(e)' = Current(e)
  BY DEF Known, Current
<1> QED BY <1>1 DEF Promise!vars, StatusNow, DerivedNow

\* A commit, as readers see it.
LEMMA CommitSeen ==
    ASSUME Identified, Compared, Next, NEW a \in Agents, Commit(a)
    PROVE  \E e \in Ids : Promise!Commit(e)
<1>1. PICK e, x : e = NewId(a) /\ x = NewEvidence(a)
  OBVIOUS
<1>2. /\ ~Known(e) /\ Known(e)' /\ Current(e)' = x /\ x \in evidence'
      /\ \A f : Known(f) => f # e /\ Current(f)' = Current(f) /\ Known(f)'
      /\ \A f : Known(f)' => Known(f) \/ f = e
  <2>1. /\ ~Known(e) /\ evidence' = evidence \cup {x} /\ x.id = e /\ Current(e)' = x
        /\ \A f : Known(f) => f # e /\ Current(f)' = Current(f)
    BY <1>1, CommitNext
  <2> QED BY <2>1 DEF Known
<1>3. e \in Ids
  <2>1. x \in Versions /\ x.id = e
    BY <1>1, <1>2, TypeStep DEF Identified, Typed, TypeOK, NewEvidence
  <2> QED BY <2>1 DEF Versions
<1>4. x.status = "ACTIVE" /\ x.contributors = Entry(a).contributors
  BY <1>1 DEF NewEvidence
<1>5. \A f \in x.contributors : Known(f)
  BY <1>4 DEF Compared, GradedAt, Commit
<1>6. StatusNow' = [StatusNow EXCEPT ![e] = "ACTIVE"]
  BY <1>2, <1>3, <1>4 DEF StatusNow
<1>7. DerivedNow' = [DerivedNow EXCEPT ![e] = x.contributors]
  BY <1>2, <1>3 DEF DerivedNow
<1>8. x.contributors \subseteq Promise!Recorded
  <2>1. \A f : Known(f) => f \in Ids /\ Current(f).status # "none"
    <3>1. \A f : Known(f) => Current(f) \in Versions /\ Current(f).id = f
      BY CurrentVersion DEF Identified, Typed, TypeOK
    <3> QED BY <3>1 DEF Versions, Statuses
  <2> QED BY <1>5, <2>1 DEF Promise!Recorded, StatusNow
<1>9. e \notin Promise!Recorded
  BY <1>2, <1>3 DEF Promise!Recorded, StatusNow
<1> QED BY <1>3, <1>6, <1>7, <1>8, <1>9 DEF Promise!Commit

\* A transition, as readers see it.
LEMMA SuccessionSeen ==
    ASSUME Identified, Next, NEW e \in Ids, NEW status \in Statuses, Succeeds(e, status)
    PROVE  Promise!Supersede(e) \/ Promise!End(e)
<1>1. PICK cur, new : cur = Current(e) /\ new = Current(e)'
  OBVIOUS
<1>2. /\ new = Successor(cur, status) /\ cur \in Versions /\ Known(e)
      /\ \A f \in Ids : f # e /\ Known(f) => Current(f)' = Current(f)
  BY <1>1, SucceedsNext DEF Succeeds, MayTransition
<1>3. \A f \in Ids : Known(f)' <=> Known(f)
  <2>1. PICK old : /\ old = [cur EXCEPT !.closedAt = clock]
                   /\ evidence' = (evidence \ {cur}) \cup {old, new}
                   /\ cur \in evidence /\ cur.id = e
    BY <1>1, SucceedsNext
  <2>2. old.id = e /\ new.id = e
    BY <1>2, <2>1 DEF Successor, Versions
  <2> QED BY <1>2, <2>1, <2>2 DEF Known
<1>4. new.status = status /\ new.contributors = cur.contributors
  BY <1>2 DEF Successor, Versions
<1>5. StatusNow' = [StatusNow EXCEPT ![e] = status]
  BY <1>1, <1>2, <1>3, <1>4 DEF StatusNow
<1>6. DerivedNow' = DerivedNow
  BY <1>1, <1>2, <1>3, <1>4 DEF DerivedNow
<1>7. StatusNow[e] = cur.status /\ cur.status \in Statuses
  BY <1>1, <1>2 DEF StatusNow, Versions
<1>8. CASE status = "SUPERSEDED"
  BY <1>1, <1>5, <1>6, <1>7, <1>8 DEF Promise!Supersede, Succeeds, Lost
<1>9. CASE status \in Lost
  <2>1. e \in Promise!Recorded
    BY <1>7 DEF Promise!Recorded, Statuses
  <2> QED BY <1>5, <1>6, <1>9, <2>1 DEF Promise!End, Lost
<1> QED BY <1>8, <1>9 DEF Succeeds, Statuses, Lost

\* Whatever is interleaved with it, fails or dies, the store of versions is, for its
\* readers, the store they rely on.
THEOREM EvidenceRefinesStore == Spec => RefinesStore
<1>1. Init => Promise!Init
  BY DEF Init, Promise!Init, StatusNow, DerivedNow, Known
<1>2. Identified /\ Compared /\ [Next]_vars => [Promise!Next]_(Promise!vars)
  <2> SUFFICES ASSUME Identified, Compared, [Next]_vars
               PROVE  [Promise!Next]_(Promise!vars)
    OBVIOUS
  <2>1. CASE evidence' = evidence
    BY <2>1, ReadersStutter
  <2>2. ASSUME NEW a \in Agents, Commit(a), Next
        PROVE  Promise!Next
    BY <2>2, CommitSeen DEF Promise!Next
  <2>3. ASSUME NEW e \in Ids, NEW status \in Statuses, Succeeds(e, status), Next
        PROVE  Promise!Next
    BY <2>3, SuccessionSeen DEF Promise!Next
  <2> QED BY <2>1, <2>2, <2>3, StoreSteps DEF Identified, vars, store
<1> QED BY <1>1, <1>2, ComparedInit, ComparedKept, PTL
        DEF Spec, RefinesStore, Promise!Spec

StoreFacts == INSTANCE EvidenceStoreProofs WITH
                  Evidence <- Ids, Existing <- {}, status <- StatusNow, derived <- DerivedNow

\* What createEvidence derives Evidence from never leads back to it, although contributors
\* are looked up several awaits before the commit.
THEOREM EvidenceFounded == Spec => []Promise!DerivationFounded
<1>1. /\ Promise!Init <=> StoreFacts!Init
      /\ [Promise!Next]_(Promise!vars) <=> [StoreFacts!Next]_(StoreFacts!vars)
      /\ Promise!DerivationFounded <=> StoreFacts!DerivationFounded
  BY DEF Promise!Init, StoreFacts!Init, Promise!Next, StoreFacts!Next, Promise!vars, StoreFacts!vars,
         Promise!Commit, StoreFacts!Commit, Promise!Supersede, StoreFacts!Supersede, Promise!End,
         StoreFacts!End, Promise!Recorded, StoreFacts!Recorded, Promise!DerivationFounded,
         StoreFacts!DerivationFounded
<1> QED BY <1>1, StoreFacts!Founded, EvidenceRefinesStore, PTL
        DEF RefinesStore, Promise!Spec, StoreFacts!Spec

(***************************************************************************)
(* Why everything ends.  Outboxes and requests wait for one another in the *)
(* queue of mutations only; below, whoever waits is shown to wait for      *)
(* somebody who can go on, and every step to leave less to do.  From these *)
(* two, which failing writes and crashes leave true, and the fairness of   *)
(* steps that can be taken, EverythingEnds follows.                        *)
(***************************************************************************)
Waiting == {a \in Agents : stage[a] \in Queued} \cup {c \in Clients : phase[c] = "queued"}

\* What the guards of AgentStep(a) and of ClientStep(c) come to.
AgentReady(a)  == stage[a] # "idle" /\ (stage[a] \in Queued => InTurn(a))
ClientReady(c) == phase[c] = "governing" \/ (phase[c] = "queued" /\ InTurn(c))

\* The head of the queue can go on, and so can whoever is not in it; whoever is in it is
\* there once.
NobodyIsStuck ==
    /\ \A i, j \in DOMAIN queue : queue[i] = queue[j] => i = j
    /\ queue # << >> => \/ Head(queue) \in Agents /\ AgentReady(Head(queue))
                        \/ Head(queue) \in Clients /\ ClientReady(Head(queue))
    /\ \A a \in Agents : stage[a] # "idle" => AgentReady(a) \/ \E i \in DOMAIN queue : queue[i] = a
    /\ \A c \in Clients : phase[c] # "idle" => ClientReady(c) \/ \E i \in DOMAIN queue : queue[i] = c

\* How many steps an entry, an outbox that is being read and reported on, and a request
\* have ahead of them at most.
StageAhead(s) ==
    CASE s = "entry" -> 8      [] s = "reading" -> 7    [] s = "targeting" -> 6
      [] s = "pointing" -> 5   [] s = "verifying" -> 4  [] s = "committing" -> 3
      [] s = "auditing" -> 2   [] s = "closing" -> 1    [] s = "reporting" -> 1
      [] OTHER -> 0
OutboxAhead(a) ==
    IF stage[a] = "idle" THEN 0
    ELSE 9 * (Len(outbox[a]) + 1 - at[a]) + StageAhead(stage[a]) + Len(rejected[a])
PhaseAhead(p) == CASE p = "queued" -> 2 [] p = "governing" -> 1 [] OTHER -> 0

Less(m, n) == m \in Nat /\ n \in Nat /\ m < n

\* Every step of an outbox or a request leaves less to do for it, no other step more, and
\* nobody overtakes anyone in the queue.
Spent ==
    /\ \A a \in Agents : stage[a] # "idle" =>
          OutboxAhead(a)' = OutboxAhead(a) \/ Less(OutboxAhead(a)', OutboxAhead(a))
    /\ \A a \in Agents : AgentStep(a) => Less(OutboxAhead(a)', OutboxAhead(a))
    /\ \A c \in Clients : phase[c] # "idle" =>
          phase'[c] = phase[c] \/ Less(PhaseAhead(phase'[c]), PhaseAhead(phase[c]))
    /\ \A c \in Clients : ClientStep(c) => phase'[c] # phase[c]
    /\ crashes' = crashes => \A i \in 2 .. Len(queue) :
          \/ i \in DOMAIN queue' /\ queue'[i] = queue[i]
          \/ i - 1 \in DOMAIN queue' /\ queue'[i - 1] = queue[i]

Members(q)  == {q[i] : i \in DOMAIN q}
Distinct(q) == \A i, j \in DOMAIN q : q[i] = q[j] => i = j

\* What joins a queue joins it at the end.
LEMMA AppendFacts ==
    ASSUME NEW S, NEW q \in Seq(S), NEW x \in S
    PROVE  /\ Distinct(q) /\ x \notin Members(q) => Distinct(Append(q, x))
           /\ Members(Append(q, x)) = Members(q) \cup {x}
           /\ \A i \in 2 .. Len(q) : i \in DOMAIN Append(q, x) /\ Append(q, x)[i] = q[i]
<1>1. /\ Append(q, x) \in Seq(S) /\ Len(q) \in Nat /\ DOMAIN q = 1 .. Len(q)
      /\ DOMAIN Append(q, x) = 1 .. Len(q) + 1
      /\ Append(q, x)[Len(q) + 1] = x /\ \A i \in 1 .. Len(q) : Append(q, x)[i] = q[i]
  OBVIOUS
<1>2. /\ \A i \in 1 .. Len(q) + 1 : i \in 1 .. Len(q) \/ i = Len(q) + 1
      /\ \A i \in 2 .. Len(q) : i \in 1 .. Len(q)
      /\ 1 .. Len(q) \subseteq 1 .. Len(q) + 1 /\ Len(q) + 1 \in 1 .. Len(q) + 1
  BY <1>1
<1>3. Distinct(q) /\ x \notin Members(q) => Distinct(Append(q, x))
  BY <1>1, <1>2 DEF Distinct, Members
<1>4. Members(Append(q, x)) = Members(q) \cup {x}
  BY <1>1, <1>2 DEF Members
<1> QED BY <1>1, <1>2, <1>3, <1>4

\* What leaves a queue leaves it at its head, and all others move up.
LEMMA TailFacts ==
    ASSUME NEW S, NEW q \in Seq(S), Distinct(q), q # << >>
    PROVE  /\ Distinct(Tail(q))
           /\ Head(q) \in Members(q) /\ Members(Tail(q)) = Members(q) \ {Head(q)}
           /\ \A i \in 2 .. Len(q) : i - 1 \in DOMAIN Tail(q) /\ Tail(q)[i - 1] = q[i]
<1>1. /\ Tail(q) \in Seq(S) /\ Len(q) \in Nat \ {0} /\ DOMAIN q = 1 .. Len(q)
      /\ DOMAIN Tail(q) = 1 .. Len(q) - 1 /\ Head(q) = q[1]
      /\ \A i \in 1 .. Len(q) - 1 : Tail(q)[i] = q[i + 1]
  OBVIOUS
<1>2. /\ \A i \in 1 .. Len(q) - 1 : i \in Nat /\ i + 1 \in 1 .. Len(q) /\ i + 1 # 1
      /\ \A i \in 1 .. Len(q) : i = 1 \/ (i - 1 \in 1 .. Len(q) - 1 /\ (i - 1) + 1 = i)
      /\ \A i \in 2 .. Len(q) : i - 1 \in 1 .. Len(q) - 1 /\ (i - 1) + 1 = i
      /\ 1 \in 1 .. Len(q)
  BY <1>1
<1>3. Distinct(Tail(q))
  <2> SUFFICES ASSUME NEW i \in 1 .. Len(q) - 1, NEW j \in 1 .. Len(q) - 1, q[i + 1] = q[j + 1]
               PROVE  i = j
    BY <1>1 DEF Distinct
  <2>1. i + 1 = j + 1
    BY <1>1, <1>2 DEF Distinct
  <2> QED BY <1>2, <2>1
<1>4. Members(Tail(q)) = Members(q) \ {Head(q)}
  <2>1. ASSUME NEW i \in 1 .. Len(q) - 1
        PROVE  Tail(q)[i] \in Members(q) /\ Tail(q)[i] # Head(q)
    BY <1>1, <1>2 DEF Members, Distinct
  <2>2. ASSUME NEW i \in 1 .. Len(q), q[i] # Head(q)
        PROVE  q[i] \in Members(Tail(q))
    <3>1. i - 1 \in 1 .. Len(q) - 1 /\ (i - 1) + 1 = i
      BY <1>1, <1>2, <2>2
    <3>2. Tail(q)[i - 1] = q[i]
      BY <1>1, <3>1
    <3> QED BY <1>1, <3>1, <3>2 DEF Members
  <2> QED BY <1>1, <2>1, <2>2 DEF Members
<1> QED BY <1>1, <1>2, <1>3, <1>4 DEF Members

\* Who waits for a mutation is in the queue, once, and nobody else is.
Lined == Distinct(queue) /\ Members(queue) = Waiting

\* processOutbox stands at an entry of the outbox, or behind the last.
WithinAt(a) ==
    /\ stage[a] = "idle" => at[a] = 1
    /\ stage[a] # "idle" => at[a] <= Len(outbox[a]) + 1

\* A step of x, of what takes it in or out of the queue.
Queues(x, before, after) ==
    \/ queue' = queue /\ ~before /\ ~after
    \/ queue' = Append(queue, x) /\ ~before /\ after
    \/ InTurn(x) /\ queue' = Tail(queue) /\ before /\ ~after

\* A step of a's outbox that takes it to stage s: its end, a later stage of the entry,
\* the next entry, the reports or the next of these.
AgentMoves(a, s) ==
    /\ stage' = [stage EXCEPT ![a] = s] /\ phase' = phase
    /\ Queues(a, stage[a] \in Queued, s \in Queued)
    /\ stage[a] # "idle"
    /\ \/ s = "idle" /\ at'[a] = 1
       \/ /\ s \in Stages \ {"idle"} /\ UNCHANGED <<outbox, at, rejected>>
          /\ Less(StageAhead(s), StageAhead(stage[a]))
       \/ /\ s = "entry" /\ UNCHANGED outbox
          /\ at[a] \in DOMAIN outbox[a] /\ at' = [at EXCEPT ![a] = @ + 1]
          /\ Len(rejected'[a]) \in {Len(rejected[a]), Len(rejected[a]) + 1}
       \/ /\ s = "reporting" /\ stage[a] = "entry" /\ outbox'[a] = << >> /\ at'[a] = 1
          /\ UNCHANGED rejected
       \/ /\ s = "reporting" /\ stage[a] = "reporting" /\ UNCHANGED <<outbox, at>>
          /\ Less(Len(rejected'[a]), Len(rejected[a]))

\* A step of c's request that takes it to phase p.
ClientMoves(c, p) ==
    /\ phase' = [phase EXCEPT ![c] = p] /\ UNCHANGED <<stage, at, outbox, rejected>>
    /\ Queues(c, phase[c] = "queued", p = "queued")
    /\ phase[c] = "idle" \/ Less(PhaseAhead(p), PhaseAhead(phase[c]))
    /\ p # phase[c]

LEMMA Aheads ==
    /\ StageAhead("entry") = 8 /\ StageAhead("reading") = 7 /\ StageAhead("targeting") = 6
    /\ StageAhead("pointing") = 5 /\ StageAhead("verifying") = 4 /\ StageAhead("committing") = 3
    /\ StageAhead("auditing") = 2 /\ StageAhead("closing") = 1 /\ StageAhead("reporting") = 1
    /\ PhaseAhead("queued") = 2 /\ PhaseAhead("governing") = 1 /\ PhaseAhead("idle") = 0
    /\ \A s \in Stages \ {"idle"} : StageAhead(s) \in 1 .. 8
  BY DEF StageAhead, PhaseAhead, Stages, Queued

\* An outbox goes on or is given up.
LEMMA OutboxMoves ==
    ASSUME Typed, NEW a \in Agents,
           AgentStep(a) \/ AuditFails(a) \/ PersistFails(a) \/ RenameFails(a) \/ ReportFails(a)
    PROVE  \E s : AgentMoves(a, s)
<1>1. /\ stage \in [Agents -> Stages] /\ at \in [Agents -> Nat \ {0}]
      /\ outbox \in [Agents -> Seq(Entries)] /\ rejected \in [Agents -> Seq(Ids)]
      /\ stage[a] \notin {"idle", "entry", "reporting"} => at[a] \in DOMAIN outbox[a]
  BY DEF Typed, TypeOK, Located, LocatedAt
<1>2. ASSUME Refuse(a), UNCHANGED <<outbox, queue, phase>>, at[a] \in DOMAIN outbox[a],
             stage[a] \notin Queued \cup {"idle"}
      PROVE  AgentMoves(a, "entry")
  <2>1. PICK q \in Seq(Ids) : q = rejected[a]
    BY <1>1
  <2>2. Len(Append(q, NewId(a))) = Len(q) + 1
    OBVIOUS
  <2>3. rejected'[a] = Append(q, NewId(a))
    BY <1>1, <1>2, <2>1 DEF Refuse
  <2>4. Len(rejected'[a]) = Len(rejected[a]) + 1
    BY <2>1, <2>2, <2>3
  <2> QED BY <1>2, <2>4 DEF Refuse, NextEntry, Goto, AgentMoves, Queues, Queued
<1>3. ASSUME NEW content, Mint(a, content), UNCHANGED <<outbox, phase>>,
             stage[a] \in {"reading", "targeting"}
      PROVE  AgentMoves(a, "pointing")
  BY <1>3, Aheads DEF Mint, Goto, Enqueue, AgentMoves, Queues, Queued, Stages, Less
<1>4. ASSUME Return(a), UNCHANGED phase, stage[a] # "idle",
             \/ UNCHANGED queue /\ stage[a] \notin Queued
             \/ InTurn(a) /\ queue' = Tail(queue) /\ stage[a] \in Queued
      PROVE  AgentMoves(a, "idle")
  BY <1>1, <1>4 DEF Return, Goto, AgentMoves, Queues, Queued
<1>5. CASE CheckEntry(a)
  <2>1. CASE Refuse(a)
    BY <1>2, <1>5, <2>1, EntryAtHand DEF CheckEntry, Queued, Typed
  <2>2. CASE Goto(a, "reading") /\ UNCHANGED <<at, rejected>>
    <3>1. AgentMoves(a, "reading")
      BY <1>5, <2>2, Aheads DEF CheckEntry, Goto, AgentMoves, Queues, Queued, Stages, Less
    <3> QED BY <3>1
  <2> QED BY <1>5, <2>1, <2>2 DEF CheckEntry
<1>6. CASE ReadSource(a)
  <2>1. stage[a] = "reading" /\ UNCHANGED <<outbox, phase>>
    BY <1>6 DEF ReadSource
  <2>2. CASE Refuse(a) /\ UNCHANGED queue
    BY <1>1, <1>2, <2>1, <2>2 DEF Queued
  <2>3. CASE Goto(a, "targeting") /\ UNCHANGED <<queue, at, rejected>>
    <3>1. AgentMoves(a, "targeting")
      BY <2>1, <2>3, Aheads DEF Goto, AgentMoves, Queues, Queued, Stages, Less
    <3> QED BY <3>1
  <2>4. CASE Mint(a, source[a])
    BY <1>3, <2>1, <2>4
  <2> QED BY <1>6, <2>2, <2>3, <2>4 DEF ReadSource
<1>7. CASE CheckTarget(a)
  <2>1. stage[a] = "targeting" /\ UNCHANGED <<outbox, phase>>
    BY <1>7 DEF CheckTarget
  <2>2. CASE Refuse(a) /\ UNCHANGED queue
    BY <1>1, <1>2, <2>1, <2>2 DEF Queued
  <2>3. CASE Mint(a, seen[a])
    BY <1>3, <2>1, <2>3
  <2> QED BY <1>7, <2>2, <2>3 DEF CheckTarget
<1>8. CASE AppendPointer(a) \/ Commit(a)
  <2>1. AgentMoves(a, "verifying") \/ AgentMoves(a, "auditing")
    BY <1>8, Aheads DEF AppendPointer, Commit, Goto, Dequeue, AgentMoves, Queues, Queued, Stages, Less
  <2> QED BY <2>1
<1>9. CASE VerifyCitation(a)
  <2>1. stage[a] = "verifying" /\ UNCHANGED <<outbox, phase>>
    BY <1>9 DEF VerifyCitation
  <2>2. CASE Refuse(a) /\ UNCHANGED queue
    BY <1>1, <1>2, <2>1, <2>2 DEF Queued
  <2>3. CASE Goto(a, "committing") /\ Enqueue(a) /\ UNCHANGED <<at, rejected>>
    <3>1. AgentMoves(a, "committing")
      BY <2>1, <2>3, Aheads DEF Goto, Enqueue, AgentMoves, Queues, Queued, Stages, Less
    <3> QED BY <3>1
  <2> QED BY <1>9, <2>2, <2>3 DEF VerifyCitation
<1>10. CASE Audit(a)
  <2>1. AgentMoves(a, "entry")
    BY <1>1, <1>10 DEF Audit, NextEntry, Goto, AgentMoves, Queues, Queued
  <2> QED BY <2>1
<1>11. CASE AuditFails(a)
  <2>1. AgentMoves(a, "closing")
    BY <1>11, Aheads DEF AuditFails, Goto, Enqueue, AgentMoves, Queues, Queued, Stages, Less
  <2> QED BY <2>1
<1>12. CASE Withdraw(a) \/ PersistFails(a) \/ RenameFails(a) \/ ReportFails(a)
  <2>1. /\ Return(a) /\ UNCHANGED phase /\ stage[a] # "idle"
        /\ \/ UNCHANGED queue /\ stage[a] \notin Queued
           \/ InTurn(a) /\ queue' = Tail(queue) /\ stage[a] \in Queued
    BY <1>12 DEF Withdraw, PersistFails, RenameFails, ReportFails, Dequeue, Queued
  <2> QED BY <1>4, <2>1
<1>13. CASE Rename(a)
  <2>1. /\ UNCHANGED <<queue, phase>> /\ stage[a] = "entry" /\ stage[a] \notin Queued
        /\ outbox'[a] = << >>
    BY <1>1, <1>13 DEF Rename, TakeAway, Queued
  <2>2. CASE Return(a)
    BY <1>4, <2>1, <2>2
  <2>3. CASE Goto(a, "reporting") /\ at' = [at EXCEPT ![a] = 1] /\ UNCHANGED rejected
    <3>1. AgentMoves(a, "reporting")
      BY <1>1, <2>1, <2>3 DEF Goto, AgentMoves, Queues, Queued
    <3> QED BY <3>1
  <2> QED BY <1>13, <2>2, <2>3 DEF Rename
<1>14. CASE Report(a)
  <2>1. UNCHANGED <<outbox, queue, phase>> /\ stage[a] = "reporting" /\ stage[a] \notin Queued
    BY <1>14 DEF Report, Queued
  <2>2. CASE Return(a)
    BY <1>4, <2>1, <2>2
  <2>3. CASE rejected' = [rejected EXCEPT ![a] = Tail(@)] /\ UNCHANGED <<stage, at>>
    <3>1. PICK q \in Seq(Ids) : q = rejected[a] /\ q # << >>
      BY <1>1, <2>1 DEF Typed, Located, LocatedAt
    <3>2. Less(Len(Tail(q)), Len(q)) /\ rejected'[a] = Tail(q)
      BY <1>1, <2>3, <3>1 DEF Less
    <3>3. stage' = [stage EXCEPT ![a] = "reporting"]
      BY <1>1, <2>1, <2>3
    <3>4. AgentMoves(a, "reporting")
      BY <2>1, <2>3, <3>1, <3>2, <3>3 DEF AgentMoves, Queues, Queued
    <3> QED BY <3>4
  <2> QED BY <1>14, <2>2, <2>3 DEF Report
<1> QED BY <1>5, <1>6, <1>7, <1>8, <1>9, <1>10, <1>11, <1>12, <1>13, <1>14 DEF AgentStep

\* A request is made, goes on, or is answered.
LEMMA RequestMoves ==
    ASSUME Typed, Lined, NEW c \in Clients, RequestStep(c)
    PROVE  \E p : ClientMoves(c, p)
<1>1. phase \in [Clients -> {"idle", "queued", "governing"}]
  BY DEF Typed, TypeOK
<1>2. UNCHANGED <<stage, at, outbox, rejected>>
  BY RequestFrame
<1>3. ASSUME InTurn(c) PROVE phase[c] = "queued"
  <2>1. c \in Waiting
    BY <1>3, TailFacts DEF InTurn, Lined, Typed, TypeOK
  <2> QED BY <2>1, IdsAssumption DEF Waiting
<1>4. ASSUME NEW op \in Ops, NEW e \in KnownIds, Ask(c, op, e)
      PROVE  ClientMoves(c, "queued")
  BY <1>2, <1>4 DEF Ask, Enqueue, ClientMoves, Queues
<1>5. CASE Grant(c)
  <2>1. ClientMoves(c, "governing")
    BY <1>2, <1>5, Aheads DEF Grant, Dequeue, ClientMoves, Queues, Less
  <2> QED BY <2>1
<1>6. CASE Deny(c) \/ PersistFailsForRequest(c)
  <2>1. /\ InTurn(c) /\ queue' = Tail(queue) /\ phase' = [phase EXCEPT ![c] = "idle"]
    BY <1>6 DEF Deny, PersistFailsForRequest, Answer, Dequeue
  <2>2. ClientMoves(c, "idle")
    BY <1>2, <1>3, <2>1, Aheads DEF ClientMoves, Queues, Less
  <2> QED BY <2>2
<1>7. CASE Govern(c) \/ GovernFails(c)
  <2>1. ClientMoves(c, "idle")
    BY <1>2, <1>7, Aheads DEF Govern, GovernFails, Answer, ClientMoves, Queues, Less
  <2> QED BY <2>1
<1> QED BY <1>4, <1>5, <1>6, <1>7 DEF RequestStep, ClientStep

\* Every step is a move of an outbox or a request, begins an outbox, is a crash, or
\* concerns neither.
LEMMA Moves ==
    ASSUME Typed, Lined, [Next]_vars
    PROVE  \/ \E a \in Agents : (\E s : AgentMoves(a, s)) \/ Begin(a)
           \/ \E c \in Clients : \E p : ClientMoves(c, p)
           \/ Crash
           \/ UNCHANGED <<queue, stage, phase, at, outbox, rejected>>
<1>1. CASE Tick \/ \E a \in Agents : ChangeSource(a)
  BY <1>1 DEF Tick, ChangeSource
<1>2. CASE UNCHANGED vars
  BY <1>2
<1> QED BY <1>1, <1>2, StepsByActor, OutboxMoves, RequestMoves DEF AgentAction

\* To begin an outbox is to go to its first entry, and no matter of the queue's.
LEMMA Begins ==
    ASSUME Typed, NEW a \in Agents, Begin(a)
    PROVE  /\ stage[a] = "idle" /\ UNCHANGED <<queue, phase, at, rejected>>
           /\ \/ stage' = stage
              \/ stage' = [stage EXCEPT ![a] = "entry"] /\ outbox' = outbox /\ outbox[a] # << >>
  BY DEF Begin, Propose, WriteBroken, Ingest, Goto

\* Of one actor's step, who waits is what its own waiting is.
LEMMA QueuesKept ==
    ASSUME Typed, Lined, NEW x \in Agents \cup Clients, NEW before \in BOOLEAN, NEW after \in BOOLEAN,
           Queues(x, before, after), before <=> x \in Waiting,
           Waiting' = IF after THEN Waiting \cup {x} ELSE Waiting \ {x}
    PROVE  /\ Lined'
           /\ \A i \in 2 .. Len(queue) : \/ i \in DOMAIN queue' /\ queue'[i] = queue[i]
                                         \/ i - 1 \in DOMAIN queue' /\ queue'[i - 1] = queue[i]
<1>1. queue \in Seq(Agents \cup Clients)
  BY DEF Typed, TypeOK
<1>2. CASE queue' = queue /\ ~before /\ ~after
  <2>1. Waiting' = Waiting
    BY <1>2
  <2>2. \A i \in 2 .. Len(queue) : i \in DOMAIN queue
    BY <1>1
  <2> QED BY <1>2, <2>1, <2>2 DEF Lined
<1>3. CASE queue' = Append(queue, x) /\ ~before /\ after
  BY <1>1, <1>3, AppendFacts DEF Lined
<1>4. CASE InTurn(x) /\ queue' = Tail(queue) /\ before /\ ~after
  BY <1>1, <1>4, TailFacts DEF Lined, InTurn
<1> QED BY <1>2, <1>3, <1>4 DEF Queues

\* Whoever joins or leaves the queue does what it then does or no longer does: wait.
LEMMA LinedStep ==
    ASSUME Typed, Lined, [Next]_vars
    PROVE  /\ Lined'
           /\ ~Crash => \A i \in 2 .. Len(queue) :
                 \/ i \in DOMAIN queue' /\ queue'[i] = queue[i]
                 \/ i - 1 \in DOMAIN queue' /\ queue'[i - 1] = queue[i]
<1> DEFINE InOrder == \A i \in 2 .. Len(queue) : \/ i \in DOMAIN queue' /\ queue'[i] = queue[i]
                                                 \/ i - 1 \in DOMAIN queue' /\ queue'[i - 1] = queue[i]
<1>t. /\ stage \in [Agents -> Stages] /\ phase \in [Clients -> {"idle", "queued", "governing"}]
      /\ queue \in Seq(Agents \cup Clients)
  BY DEF Typed, TypeOK
<1>1. ASSUME queue' = queue, Waiting' = Waiting
      PROVE  Lined' /\ InOrder
  <2>1. \A i \in 2 .. Len(queue) : i \in DOMAIN queue
    BY <1>t
  <2> QED BY <1>1, <2>1 DEF Lined
<1>2. CASE Crash
  <2>1. Waiting' = {}
    BY <1>2 DEF Crash, Waiting, Queued
  <2> QED BY <1>2, <2>1 DEF Crash, Lined, Distinct, Members
<1>3. ASSUME NEW a \in Agents, NEW s, AgentMoves(a, s)
      PROVE  Lined' /\ InOrder
  <2>1. a \in Waiting <=> stage[a] \in Queued
    BY IdsAssumption DEF Waiting
  <2>2. Waiting' = IF s \in Queued THEN Waiting \cup {a} ELSE Waiting \ {a}
    BY <1>3, <1>t, IdsAssumption DEF AgentMoves, Waiting
  <2> DEFINE before == stage[a] \in Queued
             after == s \in Queued
  <2>3. before \in BOOLEAN /\ after \in BOOLEAN
    OBVIOUS
  <2>4. Queues(a, before, after) /\ (before <=> a \in Waiting)
    BY <1>3, <2>1 DEF AgentMoves
  <2>5. Waiting' = IF after THEN Waiting \cup {a} ELSE Waiting \ {a}
    BY <2>2
  <2> HIDE DEF before, after
  <2> QED BY <2>3, <2>4, <2>5, QueuesKept
<1>4. ASSUME NEW c \in Clients, NEW p, ClientMoves(c, p)
      PROVE  Lined' /\ InOrder
  <2>1. c \in Waiting <=> phase[c] = "queued"
    BY IdsAssumption DEF Waiting
  <2>2. Waiting' = IF p = "queued" THEN Waiting \cup {c} ELSE Waiting \ {c}
    BY <1>4, <1>t, IdsAssumption DEF ClientMoves, Waiting
  <2>3. Queues(c, phase[c] = "queued", p = "queued")
    BY <1>4 DEF ClientMoves
  <2> QED BY <2>1, <2>2, <2>3, QueuesKept
<1>5. ASSUME NEW a \in Agents, Begin(a)
      PROVE  Lined' /\ InOrder
  <2>1. Waiting' = Waiting /\ queue' = queue
    BY <1>5, <1>t, Begins DEF Waiting, Queued
  <2> QED BY <1>1, <2>1
<1>6. CASE UNCHANGED <<queue, stage, phase>>
  BY <1>1, <1>6 DEF Waiting
<1> QED BY <1>2, <1>3, <1>4, <1>5, <1>6, Moves

\* No step leads beyond the end of an outbox.
LEMMA WithinStep ==
    ASSUME Typed, Lined, [Next]_vars, NEW a \in Agents, WithinAt(a)
    PROVE  WithinAt(a)'
<1>t. /\ stage \in [Agents -> Stages] /\ at \in [Agents -> Nat \ {0}]
      /\ outbox \in [Agents -> Seq(Entries)]
  BY DEF Typed, TypeOK
<1>1. CASE Crash
  BY <1>1 DEF Crash, WithinAt
<1>2. ASSUME NEW s, AgentMoves(a, s)
      PROVE  WithinAt(a)'
  <2>1. CASE s = "idle" /\ at'[a] = 1
    BY <1>2, <1>t, <2>1 DEF AgentMoves, WithinAt
  <2>2. CASE s # "idle" /\ UNCHANGED <<outbox, at>>
    BY <1>2, <1>t, <2>2 DEF AgentMoves, WithinAt
  <2>3. CASE s = "entry" /\ UNCHANGED outbox /\ at[a] \in DOMAIN outbox[a] /\ at'[a] = at[a] + 1
    <3>1. at[a] \in Nat /\ at[a] <= Len(outbox[a]) /\ Len(outbox[a]) \in Nat
      BY <1>t, <2>3
    <3> QED BY <1>2, <1>t, <2>3, <3>1 DEF AgentMoves, WithinAt
  <2>4. CASE s = "reporting" /\ outbox'[a] = << >> /\ at'[a] = 1
    BY <1>2, <1>t, <2>4 DEF AgentMoves, WithinAt
  <2> QED BY <1>2, <1>t, <2>1, <2>2, <2>3, <2>4 DEF AgentMoves
<1>3. ASSUME Begin(a)
      PROVE  WithinAt(a)'
  <2>1. CASE stage' = stage
    BY <1>3, <2>1, Begins DEF WithinAt
  <2>2. CASE stage'[a] = "entry" /\ outbox' = outbox
    <3>1. Len(outbox[a]) \in Nat /\ at'[a] = 1
      BY <1>3, <1>t, Begins DEF WithinAt
    <3> QED BY <2>2, <3>1 DEF WithinAt
  <2> QED BY <1>3, <1>t, <2>1, <2>2, Begins
<1>4. CASE UNCHANGED <<stage, at, outbox>>
  BY <1>4 DEF WithinAt
<1>5. ASSUME NEW b \in Agents, AgentAction(b), b # a
      PROVE  WithinAt(a)'
  BY <1>5, AgentFrame DEF AgentAction, Untouched, WithinAt
<1>6. CASE Tick \/ \E c \in Clients : RequestStep(c)
  BY <1>4, <1>6, RequestFrame
<1>7. CASE AgentAction(a)
  <2>1. CASE ChangeSource(a)
    BY <1>4, <2>1 DEF ChangeSource
  <2> QED BY <1>2, <1>3, <1>7, <2>1, OutboxMoves DEF AgentAction
<1>8. CASE UNCHANGED vars
  BY <1>4, <1>8
<1> QED BY <1>1, <1>5, <1>6, <1>7, <1>8, StepsByActor

Within == \A a \in Agents : WithinAt(a)

\* Whoever waits, waits for somebody who can go on: the queue of mutations is never held
\* up, by any number of outboxes and requests, whatever fails.
THEOREM NobodyWaitsForEver == Spec => []NobodyIsStuck
<1>1. Init => Typed /\ Lined
  BY TypedInit DEF Init, Lined, Distinct, Members, Waiting, Queued
<1>2. Typed /\ Lined /\ [Next]_vars => (Typed /\ Lined)'
  BY TypedStep, LinedStep
<1>3. ASSUME Typed, Lined PROVE NobodyIsStuck
  <2>1. \A i, j \in DOMAIN queue : queue[i] = queue[j] => i = j
    BY <1>3 DEF Lined, Distinct
  <2>2. ASSUME NEW x \in Waiting PROVE \E i \in DOMAIN queue : queue[i] = x
    BY <1>3, <2>2 DEF Lined, Members
  <2>3. ASSUME queue # << >>
        PROVE  \/ Head(queue) \in Agents /\ AgentReady(Head(queue))
               \/ Head(queue) \in Clients /\ ClientReady(Head(queue))
    <3>1. Head(queue) \in Waiting
      BY <1>3, <2>3, TailFacts DEF Lined, Typed, TypeOK
    <3> QED BY <2>3, <3>1 DEF Waiting, AgentReady, ClientReady, InTurn, Queued
  <2>4. ASSUME NEW a \in Agents, stage[a] # "idle"
        PROVE  AgentReady(a) \/ \E i \in DOMAIN queue : queue[i] = a
    BY <2>2, <2>4 DEF AgentReady, Waiting
  <2>5. ASSUME NEW c \in Clients, phase[c] # "idle"
        PROVE  ClientReady(c) \/ \E i \in DOMAIN queue : queue[i] = c
    <3>1. phase[c] = "queued" => c \in Waiting
      BY DEF Waiting
    <3> QED BY <1>3, <2>2, <2>5, <3>1 DEF ClientReady, Typed, TypeOK
  <2> QED BY <2>1, <2>3, <2>4, <2>5 DEF NobodyIsStuck
<1> QED BY <1>1, <1>2, <1>3, PTL DEF Spec

\* What an outbox that is being read has ahead of it is a number, and a step of it makes
\* it a smaller one.
LEMMA OutboxSpent ==
    ASSUME Typed, Lined, [Next]_vars, NEW a \in Agents, WithinAt(a), NEW s, AgentMoves(a, s)
    PROVE  Less(OutboxAhead(a)', OutboxAhead(a))
<1>t. /\ stage[a] \in Stages \ {"idle"} /\ stage'[a] = s /\ at[a] \in Nat
      /\ Len(outbox[a]) \in Nat /\ Len(rejected[a]) \in Nat
      /\ at[a] <= Len(outbox[a]) + 1
  BY DEF Typed, TypeOK, AgentMoves, WithinAt
<1>1. PICK n, k, m, v : /\ n = Len(outbox[a]) /\ k = at[a] /\ m = Len(rejected[a])
                       /\ v = StageAhead(stage[a])
  OBVIOUS
<1>2. /\ n \in Nat /\ k \in Nat /\ m \in Nat /\ v \in 1 .. 8 /\ k <= n + 1
      /\ OutboxAhead(a) = 9 * (n + 1 - k) + v + m
  BY <1>1, <1>t, Aheads DEF OutboxAhead
<1>3. CASE s = "idle"
  <2>1. OutboxAhead(a)' = 0
    BY <1>3, <1>t DEF OutboxAhead
  <2> QED BY <1>2, <2>1 DEF Less
<1>4. CASE /\ s \in Stages \ {"idle"} /\ UNCHANGED <<outbox, at, rejected>>
           /\ Less(StageAhead(s), StageAhead(stage[a]))
  <2>1. OutboxAhead(a)' = 9 * (n + 1 - k) + StageAhead(s) + m
    BY <1>1, <1>4, <1>t DEF OutboxAhead
  <2>2. StageAhead(s) \in Nat /\ StageAhead(s) < v
    BY <1>1, <1>4 DEF Less
  <2> QED BY <1>2, <2>1, <2>2 DEF Less
<1>5. CASE /\ s = "entry" /\ UNCHANGED outbox
           /\ at[a] \in DOMAIN outbox[a] /\ at' = [at EXCEPT ![a] = @ + 1]
           /\ Len(rejected'[a]) \in {Len(rejected[a]), Len(rejected[a]) + 1}
  <2>1. k <= n /\ at'[a] = k + 1
    BY <1>1, <1>5 DEF Typed, TypeOK
  <2>2. PICK d \in {0, 1} : Len(rejected'[a]) = m + d
    <3>1. m + 0 = m
      BY <1>2
    <3>2. Len(rejected'[a]) = m + 0 \/ Len(rejected'[a]) = m + 1
      BY <1>1, <1>5, <3>1
    <3> QED BY <3>2
  <2>3. OutboxAhead(a)' = 9 * (n + 1 - (k + 1)) + 8 + (m + d)
    BY <1>1, <1>5, <1>t, <2>1, <2>2, Aheads DEF OutboxAhead
  <2> QED BY <1>2, <2>1, <2>2, <2>3 DEF Less
<1>6. CASE /\ s = "reporting" /\ stage[a] = "entry" /\ outbox'[a] = << >> /\ at'[a] = 1
           /\ UNCHANGED rejected
  <2>1. v = 8 /\ OutboxAhead(a)' = 9 * (0 + 1 - 1) + 1 + m
    BY <1>1, <1>6, <1>t, Aheads DEF OutboxAhead
  <2> QED BY <1>2, <2>1 DEF Less
<1>7. CASE /\ s = "reporting" /\ stage[a] = "reporting" /\ UNCHANGED <<outbox, at>>
           /\ Less(Len(rejected'[a]), Len(rejected[a]))
  <2>1. PICK d : d = Len(rejected'[a])
    OBVIOUS
  <2>2. d \in Nat /\ d < m
    BY <1>1, <1>7, <2>1 DEF Less
  <2>3. v = 1 /\ OutboxAhead(a)' = 9 * (n + 1 - k) + 1 + d
    BY <1>1, <1>7, <1>t, <2>1, Aheads DEF OutboxAhead
  <2> QED BY <1>2, <2>2, <2>3 DEF Less
<1> QED BY <1>3, <1>4, <1>5, <1>6, <1>7 DEF AgentMoves

\* An outbox has nine steps per entry at most, its report included, and one for its end, a
\* request two; whatever fails, each is one less to go, and nobody is overtaken in the queue: so waiting ends.
THEOREM StepsAreSpent == Spec => [][Spent]_vars
<1>1. ASSUME Typed, Lined, Within, [Next]_vars
      PROVE  [Spent]_vars
  <2> SUFFICES ASSUME Next PROVE Spent
    BY <1>1
  <2> USE <1>1
  <2>1. ASSUME NEW a \in Agents, stage[a] # "idle"
        PROVE  OutboxAhead(a)' = OutboxAhead(a) \/ Less(OutboxAhead(a)', OutboxAhead(a))
    <3>1. ASSUME NEW s, AgentMoves(a, s)
          PROVE  Less(OutboxAhead(a)', OutboxAhead(a))
      BY <3>1, OutboxSpent DEF Within
    <3>2. CASE UNCHANGED <<stage[a], at[a], outbox[a], rejected[a]>>
      BY <3>2 DEF OutboxAhead
    <3>3. CASE Crash
      <4>1. OutboxAhead(a)' = 0
        BY <3>3 DEF Crash, OutboxAhead
      <4>2. PICK n, k, m, v : /\ n = Len(outbox[a]) /\ k = at[a] /\ m = Len(rejected[a])
                             /\ v = StageAhead(stage[a])
        OBVIOUS
      <4>3. n \in Nat /\ k \in Nat /\ m \in Nat /\ k <= n + 1 /\ stage[a] \in Stages
        BY <2>1, <4>2 DEF Typed, TypeOK, Within, WithinAt
      <4>4. v \in 1 .. 8 /\ OutboxAhead(a) = 9 * (n + 1 - k) + v + m
        BY <2>1, <4>2, <4>3, Aheads DEF OutboxAhead
      <4> QED BY <4>1, <4>3, <4>4 DEF Less
    <3>4. ASSUME NEW b \in Agents, AgentAction(b), b # a
          PROVE  UNCHANGED <<stage[a], at[a], outbox[a], rejected[a]>>
      BY <3>4, AgentFrame DEF AgentAction, Untouched
    <3>5. CASE Tick \/ \E c \in Clients : RequestStep(c)
      BY <3>2, <3>5, RequestFrame
    <3>6. CASE AgentAction(a)
      <4>1. ~Begin(a)
        BY <2>1, Begins
      <4>2. CASE ChangeSource(a)
        BY <3>2, <4>2 DEF ChangeSource
      <4> QED BY <3>1, <3>6, <4>1, <4>2, OutboxMoves DEF AgentAction
    <3> QED BY <3>2, <3>3, <3>4, <3>5, <3>6, StepsByActor
  <2>2. ASSUME NEW a \in Agents, AgentStep(a)
        PROVE  Less(OutboxAhead(a)', OutboxAhead(a))
    BY <2>2, OutboxMoves, OutboxSpent DEF Within
  <2>3. ASSUME NEW c \in Clients, phase[c] # "idle"
        PROVE  phase'[c] = phase[c] \/ Less(PhaseAhead(phase'[c]), PhaseAhead(phase[c]))
    <3>1. phase \in [Clients -> {"idle", "queued", "governing"}]
      BY DEF Typed, TypeOK
    <3>2. ASSUME NEW d \in Clients, NEW p, ClientMoves(d, p)
          PROVE  phase'[c] = phase[c] \/ Less(PhaseAhead(phase'[c]), PhaseAhead(phase[c]))
      BY <2>3, <3>1, <3>2 DEF ClientMoves
    <3>3. CASE Crash
      BY <2>3, <3>1, <3>3, Aheads DEF Crash, Less
    <3> QED BY <3>2, <3>3, Moves, Begins DEF AgentMoves
  <2>4. ASSUME NEW c \in Clients, ClientStep(c) PROVE phase'[c] # phase[c]
    <3>1. PICK p : ClientMoves(c, p)
      BY <2>4, RequestMoves DEF RequestStep
    <3> QED BY <3>1 DEF ClientMoves, Typed, TypeOK
  <2>5. crashes' = crashes => ~Crash
    BY DEF Crash, Typed, TypeOK
  <2> QED BY <2>1, <2>2, <2>3, <2>4, <2>5, LinedStep DEF Spent
<1>2. Init => Typed /\ Lined /\ Within
  BY TypedInit DEF Init, Lined, Distinct, Members, Waiting, Queued, Within, WithinAt
<1>3. Typed /\ Lined /\ Within /\ [Next]_vars => (Typed /\ Lined /\ Within)'
  BY TypedStep, LinedStep, WithinStep DEF Within
<1> QED BY <1>1, <1>2, <1>3, PTL DEF Spec
=============================================================================
