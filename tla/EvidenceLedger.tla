--------------------------- MODULE EvidenceLedger ---------------------------
(***************************************************************************)
(* EvidenceLedger: one NDJSON file per chain (a Run, or governance), each  *)
(* line chained to the one before it by a hash.  Appends to a chain wait   *)
(* for their turn in its queue; an append verifies the whole file, reads   *)
(* it again for its head, and writes one line.  Between any two of these   *)
(* the file may be changed by another process; a write may fail, leaving   *)
(* part of a line, and the server may die.                                 *)
(*                                                                         *)
(* A hash stands for what it was computed from: no two records collide.    *)
(* Unsafe chain ids, refused before the queue, are left out.               *)
(***************************************************************************)
EXTENDS Naturals, SequencesExt

CONSTANTS
    Chains,
    Events,       \* the records callers append, each once
    ChainOf,      \* input.runId, or the governance chain
    Torn,         \* a line that does not parse
    Tears,        \* what a failing write may leave of a line
    MaxFailures,  \* bound: writes that fail
    MaxEdits,     \* bound: changes to a file by somebody else
    MayCrash

ASSUME ChainsAssumption == ChainOf \in [Events -> Chains]
ASSUME BoundsAssumption ==
    /\ Tears \subseteq {"partial", "newline"}
    /\ MaxFailures \in Nat
    /\ MaxEdits \in Nat
    /\ MayCrash \in BOOLEAN

Genesis == << >>
Hash(previousHash, sequence, body) == Append(previousHash, <<sequence, body>>)
Hashes == Seq(Nat \X Events)
Lines  == [sequence : Nat, previousHash : Hashes, body : Events, eventHash : Hashes]
Heads  == [sequence : Nat, eventHash : Hashes]

ASSUME TornAssumption == Torn \notin Lines

VARIABLES
    file,          \* Chain -> the lines of its file
    unterminated,  \* chains whose last line lacks its newline
    queue,         \* Chain -> appends in turn; the first is in progress
    stage,         \* where each append stands
    head,          \* the chain head an append has loaded
    asked,         \* history: events in the order of their appends
    issued,        \* history: the lines the ledger has written
    failures, edits

disk == <<file, unterminated, issued>>
vars == <<disk, queue, stage, head, asked, failures, edits>>

InProgress == {"verified", "headed"}
Pending    == {"queued"} \cup InProgress
Stages     == {"new", "done", "refused", "lost"} \cup Pending

TypeOK ==
    /\ file \in [Chains -> Seq(Lines \cup {Torn})]
    /\ unterminated \in SUBSET Chains
    /\ queue \in [Chains -> Seq(Events)]
    /\ stage \in [Events -> Stages]
    /\ head \in [Events -> Heads]
    /\ asked \in Seq(Events)
    /\ issued \in SUBSET Lines
    /\ failures \in 0 .. MaxFailures
    /\ edits \in 0 .. MaxEdits

GenesisHead == [sequence |-> 0, eventHash |-> Genesis]

Init ==
    /\ file = [c \in Chains |-> << >>]
    /\ unterminated = {}
    /\ queue = [c \in Chains |-> << >>]
    /\ stage = [e \in Events |-> "new"]
    /\ head = [e \in Events |-> GenesisHead]
    /\ asked = << >>
    /\ issued = {}
    /\ failures = 0
    /\ edits = 0

(***************************************************************************)
(* verifyChain.  Line i is good if it parses, has its sequence number, is  *)
(* chained to the line before it and has the hash of its own contents; the *)
(* verdict on a file is settled by its first line that is not.             *)
(***************************************************************************)
PreviousHash(f, i) == IF i = 1 THEN Genesis ELSE f[i - 1].eventHash

\* Mutants: the hash is not recomputed; nothing but the hash is checked.
LineOK_HashTrusted(f, i) ==
    /\ f[i] # Torn
    /\ f[i].sequence = i
    /\ f[i].previousHash = PreviousHash(f, i)
LineOK_HashOnly(f, i) ==
    /\ f[i] # Torn
    /\ f[i].eventHash = Hash(f[i].previousHash, f[i].sequence, f[i].body)
LineOK(f, i) ==
    /\ f[i] # Torn
    /\ f[i].sequence = i
    /\ f[i].previousHash = PreviousHash(f, i)
    /\ f[i].eventHash = Hash(f[i].previousHash, f[i].sequence, f[i].body)

Intact(f, n) == \A i \in 1 .. n : LineOK(f, i)
Verifies(f)  == Intact(f, Len(f))

\* The length of the longest prefix that verifies: brokenAtSequence - 1.
VerifiedCount(f) ==
    CHOOSE n \in 0 .. Len(f) : Intact(f, n) /\ (n < Len(f) => ~LineOK(f, n + 1))

(***************************************************************************)
(* append.                                                                 *)
(***************************************************************************)
Request(e) ==
    /\ stage[e] = "new"
    /\ stage' = [stage EXCEPT ![e] = "queued"]
    /\ queue' = [queue EXCEPT ![ChainOf[e]] = Append(@, e)]
    /\ asked' = Append(asked, e)
    /\ UNCHANGED <<disk, head, failures, edits>>

\* e's operation has reached its stage s, the operations before it having settled.
At(e, s) == queue[ChainOf[e]] # << >> /\ Head(queue[ChainOf[e]]) = e /\ stage[e] = s

Dequeue(e) == queue' = [queue EXCEPT ![ChainOf[e]] = Tail(@)]

\* The queue goes on after an append that rejects.  Mutant: it does not.
SkipRejected_Poisoned(e) == UNCHANGED queue
SkipRejected(e) == Dequeue(e)

\* The caller's promise rejects.  Mutant: the error is swallowed.
Reject_Swallowed(e) ==
    /\ stage' = [stage EXCEPT ![e] = "done"]
    /\ SkipRejected(e)
Reject(e) ==
    /\ stage' = [stage EXCEPT ![e] = "refused"]
    /\ SkipRejected(e)

\* loadHead: a broken chain is refused, an empty one has the genesis head.
Verify(e) ==
    LET f == file[ChainOf[e]]
    IN  /\ At(e, "queued")
        /\ \/ /\ ~Verifies(f)
              /\ Reject(e)
              /\ UNCHANGED head
           \/ /\ Verifies(f) /\ f = << >>
              /\ stage' = [stage EXCEPT ![e] = "headed"]
              /\ head' = [head EXCEPT ![e] = GenesisHead]
              /\ UNCHANGED queue
           \/ /\ Verifies(f) /\ f # << >>
              /\ stage' = [stage EXCEPT ![e] = "verified"]
              /\ UNCHANGED <<queue, head>>
        /\ UNCHANGED <<disk, asked, failures, edits>>

\* Mutant: the head keeps the whole event.
HeadFrom_WholeEvent(line) == line
HeadFrom(line) == [sequence |-> line.sequence, eventHash |-> line.eventHash]

NoHead(f) == f # << >> => f[Len(f)] = Torn

\* loadHead's second reading, which finds the file as it is by now.
LoadHead(e) ==
    LET f == file[ChainOf[e]]
    IN  /\ At(e, "verified")
        /\ \/ /\ NoHead(f)
              /\ Reject(e)
              /\ UNCHANGED head
           \/ /\ ~NoHead(f)
              /\ head' = [head EXCEPT ![e] = HeadFrom(f[Len(f)])]
              /\ stage' = [stage EXCEPT ![e] = "headed"]
              /\ UNCHANGED queue
        /\ UNCHANGED <<disk, asked, failures, edits>>

\* Mutant: the sequence number is not advanced.
NextSequence_Same(h) == h.sequence
NextSequence(h) == h.sequence + 1

Record(e) ==
    LET sequence == NextSequence(head[e])
    IN  [sequence |-> sequence, previousHash |-> head[e].eventHash, body |-> e,
         eventHash |-> Hash(head[e].eventHash, sequence, e)]

\* What is written lands at the end of the file, on the last line if that has
\* no newline: together they do not parse.  Mutant: it takes the last line's place.
Land_Overwrites(c, line) == Append(Front(file[c]), line)
Land(c, line) ==
    IF c \in unterminated THEN Append(Front(file[c]), Torn) ELSE Append(file[c], line)

Write(e) ==
    /\ At(e, "headed")
    /\ file' = [file EXCEPT ![ChainOf[e]] = Land(ChainOf[e], Record(e))]
    /\ issued' = issued \cup {Record(e)}
    /\ unterminated' = unterminated \ {ChainOf[e]}
    /\ stage' = [stage EXCEPT ![e] = "done"]
    /\ Dequeue(e)
    /\ UNCHANGED <<head, asked, failures, edits>>

\* appendFile fails: nothing, a part of the line or all but its newline is there.
WriteFails(e) ==
    /\ At(e, "headed")
    /\ failures < MaxFailures
    /\ failures' = failures + 1
    /\ Reject(e)
    /\ \/ UNCHANGED disk
       \/ /\ "partial" \in Tears
          /\ file' = [file EXCEPT ![ChainOf[e]] = Land(ChainOf[e], Torn)]
          /\ unterminated' = unterminated \cup {ChainOf[e]}
          /\ UNCHANGED issued
       \/ /\ "newline" \in Tears
          /\ file' = [file EXCEPT ![ChainOf[e]] = Land(ChainOf[e], Record(e))]
          /\ unterminated' = unterminated \cup {ChainOf[e]}
          /\ issued' = issued \cup {Record(e)}
    /\ UNCHANGED <<head, asked, edits>>

\* The server dies and comes back: appends that were waiting never happen.
Crash ==
    /\ MayCrash
    /\ queue' = [c \in Chains |-> << >>]
    /\ stage' = [e \in Events |-> IF stage[e] \in Pending THEN "lost" ELSE stage[e]]
    /\ UNCHANGED <<disk, head, asked, failures, edits>>

(***************************************************************************)
(* Somebody else removes, copies, swaps or alters lines of a file.  A line *)
(* is altered without computing its hash anew.                             *)
(***************************************************************************)
Removed(f)  == {RemoveAt(f, i) : i \in DOMAIN f}
Inserted(f) == {InsertAt(f, i, f[j]) : i \in 1 .. Len(f) + 1, j \in DOMAIN f}
Swapped(f)  == {[f EXCEPT ![i] = f[j], ![j] = f[i]] : i \in DOMAIN f, j \in DOMAIN f}
Altered(f)  == {[f EXCEPT ![i].body = e] : i \in {k \in DOMAIN f : f[k] # Torn}, e \in Events}

Edit(c) ==
    /\ edits < MaxEdits
    /\ edits' = edits + 1
    /\ \E f \in Removed(file[c]) \cup Inserted(file[c]) \cup Swapped(file[c])
                 \cup Altered(file[c]) : file' = [file EXCEPT ![c] = f]
    /\ unterminated' = unterminated \ {c}
    /\ UNCHANGED <<queue, stage, head, asked, issued, failures>>

Step(e) == Verify(e) \/ LoadHead(e) \/ Write(e)

Next ==
    \/ \E e \in Events : Request(e) \/ Step(e) \/ WriteFails(e)
    \/ Crash
    \/ \E c \in Chains : Edit(c)

Spec == Init /\ [][Next]_vars

\* The event loop runs the continuation of every append whose turn has come.
FairSpec == Spec /\ \A e \in Events : WF_vars(Step(e))

(***************************************************************************)
(* Properties.                                                             *)
(***************************************************************************)
\* Somebody has edited a file, or nothing but the newline is missing of a line whose append
\* was refused: a line is gone, or is there, of which the ledger said otherwise.
Disturbed == edits > 0 \/ \E line \in issued : stage[line.body] = "refused"

\* INV-13: until then, an append that was acknowledged is on its chain, once, where
\* verifyChain vouches for it.
AcknowledgedIsRecorded ==
    ~Disturbed =>
        \A e \in Events :
            LET f == file[ChainOf[e]]
            IN  stage[e] = "done" =>
                    \E i \in 1 .. VerifiedCount(f) :
                        \A j \in 1 .. VerifiedCount(f) : f[j].body = e <=> i = j

\* INV-15, what the chain achieves: of a file that somebody has edited, the part
\* verifyChain vouches for consists of lines the ledger wrote, unaltered.
VerifiedIsGenuine ==
    \A c \in Chains : \A n \in 1 .. Len(file[c]) :
        Intact(file[c], n) => \A i \in 1 .. n : file[c][i] \in issued

\* INV-14: the part that is vouched for is in the order of the appends.
VerifiedInOrder ==
    \A c \in Chains : \A j \in 1 .. VerifiedCount(file[c]) : \A i \in 1 .. j - 1 :
        \E p, q \in DOMAIN asked : /\ p < q
                                   /\ asked[p] = file[c][i].body
                                   /\ asked[q] = file[c][j].body

\* INV-13/HC-7: whatever the ledger appends, at whatever moment the file was
\* changed under it, a chain that is broken stays broken at the same line.
BrokenStaysBroken ==
    [][edits' = edits =>
           \A c \in Chains : ~Verifies(file[c]) =>
               VerifiedCount(file[c])' <= VerifiedCount(file[c])]_vars

\* Every append is answered, or lost in a crash: a refusal blocks nobody behind it.
EveryAppendIsAnswered ==
    \A e \in Events : stage[e] = "queued" ~> stage[e] \in {"done", "refused", "lost"}

Logged  == [c \in Chains |-> [i \in 1 .. VerifiedCount(file[c]) |-> file[c][i].body]]
Answers == [e \in Events |-> CASE stage[e] = "done" -> "recorded"
                               [] stage[e] = "refused" -> "refused"
                               [] OTHER -> "none"]
Log == INSTANCE AppendOnlyLog WITH log <- Logged, answer <- Answers, disturbed <- Disturbed

\* The ledger is an append-only log of the lines it vouches for, until it is disturbed.
RefinesLog == Log!Spec
=============================================================================
