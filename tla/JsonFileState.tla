---------------------------- MODULE JsonFileState ----------------------------
(***************************************************************************)
(* JsonFileState: the file behind each of the stores, as a reader and the  *)
(* mutations of one store use it.  The file is loaded by whoever needs it  *)
(* first, be it several of them at once; a mutation waits for its turn in  *)
(* a queue, a load does not.  A write may fail and the server may die.     *)
(*                                                                         *)
(* A mutation adds a record of its own, and the contents of the file are   *)
(* the records in it.  A file that does not exist is as good as one that   *)
(* is empty; one that cannot be read, or is not valid, is left out.        *)
(***************************************************************************)
EXTENDS Naturals, Sequences

CONSTANTS
    Readers,      \* calls of read()
    Mutations,    \* calls of mutate(fn): each adds the record of its name
    Null,
    MaxCrashes    \* bound: of 0 and 1

VARIABLES
    file,     \* the records on disk
    data,     \* those in memory, or Null
    queue,    \* mutations in turn; the first is in progress
    stage,    \* where each call stands
    raw,      \* what its readFile has read
    next,     \* Mutation -> the clone with its record
    crashes

vars == <<file, data, queue, stage, raw, next, crashes>>

Calls    == Readers \cup Mutations
Contents == SUBSET Mutations
Stages   == {"new", "queued", "loading", "read", "loaded", "cloned", "persisted", "done", "failed", "lost"}

TypeOK ==
    /\ file \in Contents /\ data \in Contents \cup {Null}
    /\ queue \in Seq(Mutations)
    /\ stage \in [Calls -> Stages]
    /\ raw \in [Calls -> Contents] /\ next \in [Mutations -> Contents]
    /\ crashes \in 0 .. MaxCrashes

Init ==
    /\ file = {} /\ data = Null
    /\ queue = << >>
    /\ stage = [p \in Calls |-> "new"]
    /\ raw = [p \in Calls |-> {}] /\ next = [m \in Mutations |-> {}]
    /\ crashes = 0

Goto(p, s) == stage' = [stage EXCEPT ![p] = s]

(***************************************************************************)
(* ensureLoaded.                                                           *)
(***************************************************************************)
\* The cache is there, or the file is asked for.
EnsureLoaded(p) == Goto(p, IF data = Null THEN "loading" ELSE "loaded")

ReadFile(p) ==
    /\ stage[p] = "loading"
    /\ raw' = [raw EXCEPT ![p] = file]
    /\ Goto(p, "read")
    /\ UNCHANGED <<file, data, queue, next, crashes>>

\* The cache is what was read, whatever it has become in the meantime.
Loaded(p) ==
    /\ stage[p] = "read"
    /\ data' = raw[p]
    /\ Goto(p, "loaded")
    /\ UNCHANGED <<file, queue, raw, next, crashes>>

(***************************************************************************)
(* read and mutate.                                                        *)
(***************************************************************************)
Read(r) ==
    /\ stage[r] = "new"
    /\ EnsureLoaded(r)
    /\ UNCHANGED <<file, data, queue, raw, next, crashes>>

Mutate(m) ==
    /\ stage[m] = "new"
    /\ queue' = Append(queue, m)
    /\ Goto(m, "queued")
    /\ UNCHANGED <<file, data, raw, next, crashes>>

Turn(m) == queue # << >> /\ Head(queue) = m

Begin(m) ==
    /\ Turn(m) /\ stage[m] = "queued"
    /\ EnsureLoaded(m)
    /\ UNCHANGED <<file, data, queue, raw, next, crashes>>

Clone(m) ==
    /\ Turn(m) /\ stage[m] = "loaded"
    /\ next' = [next EXCEPT ![m] = data \cup {m}]
    /\ Goto(m, "cloned")
    /\ UNCHANGED <<file, data, queue, raw, crashes>>

Persist(m) ==
    /\ stage[m] = "cloned"
    /\ file' = next[m]
    /\ Goto(m, "persisted")
    /\ UNCHANGED <<data, queue, raw, next, crashes>>

Settle(m, s) == Goto(m, s) /\ queue' = Tail(queue)

Swap(m) ==
    /\ stage[m] = "persisted"
    /\ data' = next[m]
    /\ Settle(m, "done")
    /\ UNCHANGED <<file, raw, next, crashes>>

\* The write or the renaming fails; the queue goes on.
PersistFails(m) ==
    /\ stage[m] = "cloned"
    /\ Settle(m, "failed")
    /\ UNCHANGED <<file, data, raw, next, crashes>>

Crash ==
    /\ crashes < MaxCrashes /\ crashes' = crashes + 1
    /\ data' = Null /\ queue' = << >>
    /\ stage' = [p \in Calls |-> IF stage[p] \in {"new", "done", "failed"} THEN stage[p] ELSE "lost"]
    /\ UNCHANGED <<file, raw, next>>

Next ==
    \/ \E r \in Readers : Read(r)
    \/ \E p \in Calls : ReadFile(p) \/ Loaded(p)
    \/ \E m \in Mutations : Mutate(m) \/ Begin(m) \/ Clone(m) \/ Persist(m) \/ Swap(m) \/ PersistFails(m)
    \/ Crash

Spec == Init /\ [][Next]_vars

(***************************************************************************)
(* Properties.                                                             *)
(***************************************************************************)
\* As evidence-store.ts, grant-store.ts and others have it of the records they keep this
\* way, which are append-only: no record that is in the file leaves it.
RecordsAreAppendOnly == [][file \subseteq file']_vars
=============================================================================
