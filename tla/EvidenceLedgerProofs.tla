------------------------ MODULE EvidenceLedgerProofs ------------------------
(***************************************************************************)
(* Proofs about EvidenceLedger, for any sets of chains and events and any  *)
(* bounds on the failures and the edits.                                   *)
(***************************************************************************)
EXTENDS EvidenceLedger, SequenceTheorems, WellFoundedInduction, TLAPS

USE DEF disk, vars

(***************************************************************************)
(* The data: sequences, records, hashes.                                   *)
(***************************************************************************)
\* A queue, or a file, stays a sequence.
LEMMA QueueTyping ==
    ASSUME NEW S, NEW q \in Seq(S), NEW x \in S
    PROVE  /\ Append(q, x) \in Seq(S)
           /\ q # << >> => Head(q) \in S /\ Tail(q) \in Seq(S)
  OBVIOUS

\* Two records with the same hash have the same contents.
LEMMA HashInjective ==
    ASSUME NEW g \in Hashes, NEW h \in Hashes, NEW m \in Nat, NEW n \in Nat,
           NEW d \in Events, NEW e \in Events, Hash(g, m, d) = Hash(h, n, e)
    PROVE  g = h /\ m = n /\ d = e
<1>1. <<m, d>> \in Nat \X Events /\ <<n, e>> \in Nat \X Events
  OBVIOUS
<1>2. Append(g, <<m, d>>) = Append(h, <<n, e>>)
  BY DEF Hash
<1>3. Len(g) = Len(h)
  BY <1>1, <1>2 DEF Hashes
<1>4. <<m, d>> = <<n, e>>
  BY <1>1, <1>2, <1>3 DEF Hashes
<1>5. ASSUME NEW i \in 1 .. Len(g) PROVE g[i] = h[i]
  BY <1>1, <1>2, <1>3, <1>5 DEF Hashes
<1>6. g = h
  BY <1>3, <1>5, SeqEqual DEF Hashes
<1> QED BY <1>4, <1>6

\* What an append writes is a line, with the hash of its own contents.
LEMMA RecordTyping ==
    ASSUME NEW e \in Events, head[e] \in Heads
    PROVE  /\ Record(e) \in Lines
           /\ Record(e).eventHash =
                  Hash(Record(e).previousHash, Record(e).sequence, Record(e).body)
<1>1. NextSequence(head[e]) \in Nat
  BY DEF NextSequence, Heads
<1>2. Hash(head[e].eventHash, NextSequence(head[e]), e) \in Hashes
  BY <1>1 DEF Hash, Hashes, Heads
<1> QED BY <1>1, <1>2 DEF Record, Lines, Heads

\* What is written lands on a file without changing what kind of lines it has.
LEMMA LandTyping ==
    ASSUME NEW S, NEW c \in Chains, file[c] \in Seq(S), Torn \in S, NEW line \in S
    PROVE  Land(c, line) \in Seq(S)
<1>1. Front(file[c]) \in Seq(S)
  BY SubSeqProperties, ElementOfSeq DEF Front
<1> QED BY <1>1, QueueTyping DEF Land

\* An edited file has the same kind of lines as before, for every kind that
\* depends on the hash of a line only.
LEMMA EditTyping ==
    ASSUME NEW S \in SUBSET (Lines \cup {Torn}),
           \A l \in S \ {Torn} : \A m \in Lines : m.eventHash = l.eventHash => m \in S,
           NEW f \in Seq(S),
           NEW g \in Removed(f) \cup Inserted(f) \cup Swapped(f) \cup Altered(f)
    PROVE  g \in Seq(S)
<1> DEFINE Part(i, j) == SubSeq(f, i, j)
<1>1. ASSUME NEW i \in 1 .. Len(f) + 1, NEW j \in 0 .. Len(f)
      PROVE  Part(i, j) \in Seq(S)
  BY SubSeqProperties, ElementOfSeq
<1>2. CASE g \in Removed(f)
  <2>0. PICK k \in DOMAIN f : g = RemoveAt(f, k)
    BY <1>2 DEF Removed
  <2>1. k \in 1 .. Len(f) /\ g = Part(1, k - 1) \o Part(k + 1, Len(f))
    BY <2>0, LenProperties DEF RemoveAt
  <2>2. Part(1, k - 1) \in Seq(S) /\ Part(k + 1, Len(f)) \in Seq(S)
    BY <1>1
  <2> QED BY <2>1, <2>2, ConcatProperties
<1>3. CASE g \in Inserted(f)
  <2>0. PICK k \in 1 .. Len(f) + 1, j \in DOMAIN f : g = InsertAt(f, k, f[j])
    BY <1>3 DEF Inserted
  <2>1. /\ j \in 1 .. Len(f)
        /\ g = Part(1, k - 1) \o <<f[j]>> \o Part(k, Len(f))
    BY <2>0, LenProperties DEF InsertAt
  <2>2. Part(1, k - 1) \in Seq(S) /\ Part(k, Len(f)) \in Seq(S)
    BY <1>1
  <2>3. <<f[j]>> \in Seq(S)
    BY ElementOfSeq
  <2>4. Part(1, k - 1) \o <<f[j]>> \in Seq(S)
    BY <2>2, <2>3, ConcatProperties
  <2> QED BY <2>1, <2>2, <2>4, ConcatProperties
<1>4. CASE g \in Swapped(f)
  <2>1. PICK i \in DOMAIN f, j \in DOMAIN f : g = [f EXCEPT ![i] = f[j], ![j] = f[i]]
    BY <1>4 DEF Swapped
  <2> QED BY <2>1
<1>5. CASE g \in Altered(f)
  <2>1. PICK k \in DOMAIN f, e \in Events : f[k] # Torn /\ g = [f EXCEPT ![k].body = e]
    BY <1>5 DEF Altered
  <2>2. f[k] \in Lines /\ f[k] \in S
    BY <2>1
  <2>3. [f[k] EXCEPT !.body = e] \in S
    BY <2>1, <2>2 DEF Lines
  <2> QED BY <2>1, <2>3
<1> QED BY <1>2, <1>3, <1>4, <1>5

(***************************************************************************)
(* Type correctness.                                                       *)
(***************************************************************************)
\* A failing write and a complete one leave a file of lines.
LEMMA WrittenTyping ==
    ASSUME TypeOK, NEW e \in Events, NEW line \in Lines \cup {Torn},
           file' = [file EXCEPT ![ChainOf[e]] = Land(ChainOf[e], line)]
    PROVE  file' \in [Chains -> Seq(Lines \cup {Torn})]
<1>1. ChainOf[e] \in Chains
  BY ChainsAssumption
<1>2. Land(ChainOf[e], line) \in Seq(Lines \cup {Torn})
  BY <1>1, LandTyping DEF TypeOK
<1> QED BY <1>1, <1>2 DEF TypeOK

\* An append that rejects is out of the queue.
LEMMA RejectTyping ==
    ASSUME TypeOK, NEW e \in Events, queue[ChainOf[e]] # << >>
    PROVE  /\ Dequeue(e) => queue' \in [Chains -> Seq(Events)]
           /\ Reject(e) => /\ queue' \in [Chains -> Seq(Events)]
                           /\ stage' \in [Events -> Stages]
<1>1. ChainOf[e] \in Chains
  BY ChainsAssumption
<1>2. Tail(queue[ChainOf[e]]) \in Seq(Events)
  BY <1>1, QueueTyping DEF TypeOK
<1> QED BY <1>1, <1>2 DEF TypeOK, Dequeue, Reject, SkipRejected, Stages

\* Every step keeps every variable's type.
LEMMA LedgerTypeStep == TypeOK /\ [Next]_vars => TypeOK'
<1> SUFFICES ASSUME TypeOK, [Next]_vars PROVE TypeOK'
  OBVIOUS
<1> USE DEF TypeOK
<1>1. ASSUME NEW e \in Events, Request(e) PROVE TypeOK'
  <2>1. ChainOf[e] \in Chains
    BY ChainsAssumption
  <2>2. Append(queue[ChainOf[e]], e) \in Seq(Events) /\ Append(asked, e) \in Seq(Events)
    BY <2>1, QueueTyping
  <2> QED BY <1>1, <2>1, <2>2 DEF Request, Stages, Pending
<1>2. ASSUME NEW e \in Events, Verify(e) PROVE TypeOK'
  <2>1. /\ queue' \in [Chains -> Seq(Events)]
        /\ stage' \in [Events -> Stages]
    BY <1>2, RejectTyping DEF Verify, At, Stages, Pending, InProgress
  <2>2. GenesisHead \in Heads
    BY DEF GenesisHead, Genesis, Heads, Hashes
  <2>3. head' \in [Events -> Heads]
    BY <1>2, <2>2 DEF Verify
  <2> QED BY <1>2, <2>1, <2>3 DEF Verify
<1>3. ASSUME NEW e \in Events, LoadHead(e) PROVE TypeOK'
  <2>1. /\ queue' \in [Chains -> Seq(Events)]
        /\ stage' \in [Events -> Stages]
    <3>1. queue[ChainOf[e]] # << >>
      BY <1>3 DEF LoadHead, At
    <3>2. CASE Reject(e)
      BY <3>1, <3>2, RejectTyping
    <3>3. CASE ~Reject(e)
      BY <1>3, <3>3 DEF LoadHead, Stages, Pending, InProgress
    <3> QED BY <3>2, <3>3
  <2>2. head' \in [Events -> Heads]
    <3> DEFINE f == file[ChainOf[e]]
    <3>1. f \in Seq(Lines \cup {Torn})
      BY ChainsAssumption
    <3>2. CASE NoHead(f)
      BY <1>3, <3>2 DEF LoadHead
    <3>3. CASE ~NoHead(f)
      <4>1. f[Len(f)] \in Lines
        BY <3>1, <3>3, ElementOfSeq, EmptySeq DEF NoHead
      <4>2. HeadFrom(f[Len(f)]) \in Heads
        BY <4>1 DEF HeadFrom, Lines, Heads
      <4> QED BY <1>3, <3>3, <4>2 DEF LoadHead
    <3> QED BY <3>2, <3>3
  <2> QED BY <1>3, <2>1, <2>2 DEF LoadHead
<1>4. ASSUME NEW e \in Events, Write(e) PROVE TypeOK'
  <2>1. Record(e) \in Lines
    BY RecordTyping
  <2>2. file' \in [Chains -> Seq(Lines \cup {Torn})]
    BY <1>4, <2>1, WrittenTyping DEF Write
  <2>3. queue' \in [Chains -> Seq(Events)]
    BY <1>4, RejectTyping DEF Write, At
  <2> QED BY <1>4, <2>1, <2>2, <2>3 DEF Write, Stages
<1>5. ASSUME NEW e \in Events, WriteFails(e) PROVE TypeOK'
  <2>1. Record(e) \in Lines
    BY RecordTyping
  <2>2. /\ file' \in [Chains -> Seq(Lines \cup {Torn})]
        /\ issued' \in SUBSET Lines
        /\ unterminated' \in SUBSET Chains
    <3>1. CASE UNCHANGED disk
      BY <3>1
    <3>2. CASE /\ file' = [file EXCEPT ![ChainOf[e]] = Land(ChainOf[e], Torn)]
               /\ unterminated' = unterminated \cup {ChainOf[e]}
               /\ UNCHANGED issued
      <4>1. file' \in [Chains -> Seq(Lines \cup {Torn})]
        BY <3>2, WrittenTyping
      <4> QED BY <3>2, <4>1, ChainsAssumption
    <3>3. CASE /\ file' = [file EXCEPT ![ChainOf[e]] = Land(ChainOf[e], Record(e))]
               /\ unterminated' = unterminated \cup {ChainOf[e]}
               /\ issued' = issued \cup {Record(e)}
      <4>1. file' \in [Chains -> Seq(Lines \cup {Torn})]
        BY <2>1, <3>3, WrittenTyping
      <4> QED BY <2>1, <3>3, <4>1, ChainsAssumption
    <3> QED BY <1>5, <3>1, <3>2, <3>3 DEF WriteFails
  <2>3. queue' \in [Chains -> Seq(Events)] /\ stage' \in [Events -> Stages]
    BY <1>5, RejectTyping DEF WriteFails, At
  <2>4. failures' \in 0 .. MaxFailures
    BY <1>5, BoundsAssumption DEF WriteFails
  <2> QED BY <1>5, <2>2, <2>3, <2>4 DEF WriteFails
<1>6. CASE Crash
  BY <1>6 DEF Crash, Stages
<1>7. ASSUME NEW c \in Chains, Edit(c) PROVE TypeOK'
  <2>1. PICK f \in Removed(file[c]) \cup Inserted(file[c]) \cup Swapped(file[c])
                   \cup Altered(file[c]) : file' = [file EXCEPT ![c] = f]
    BY <1>7 DEF Edit
  <2>2. f \in Seq(Lines \cup {Torn})
    BY EditTyping
  <2>3. edits' \in 0 .. MaxEdits
    BY <1>7, BoundsAssumption DEF Edit
  <2> QED BY <1>7, <2>1, <2>2, <2>3 DEF Edit
<1>8. CASE UNCHANGED vars
  BY <1>8
<1> QED BY <1>1, <1>2, <1>3, <1>4, <1>5, <1>6, <1>7, <1>8 DEF Next, Step

\* Type correctness: in particular every file consists of whole records and lines
\* that do not parse, and every loaded head is a sequence number with its hash.
THEOREM LedgerTypeCorrect == Spec => []TypeOK
<1>1. ASSUME Init PROVE TypeOK
  <2>1. GenesisHead \in Heads
    BY DEF GenesisHead, Genesis, Heads, Hashes
  <2>2. /\ file \in [Chains -> Seq(Lines \cup {Torn})]
        /\ queue \in [Chains -> Seq(Events)]
        /\ asked \in Seq(Events)
    BY <1>1 DEF Init
  <2> QED BY <1>1, <2>1, <2>2, BoundsAssumption DEF Init, TypeOK, Stages
<1> QED BY <1>1, LedgerTypeStep, PTL DEF Spec

(***************************************************************************)
(* What verifies is genuine.  The invariant: every line on file, altered   *)
(* or not, bears the hash of a line the ledger wrote, and every line the   *)
(* ledger wrote bears the hash of its own contents.                        *)
(***************************************************************************)
OwnHash(l) == l.eventHash = Hash(l.previousHash, l.sequence, l.body)
Chained == {l \in Lines \cup {Torn} :
                l # Torn => \E m \in issued : m.eventHash = l.eventHash}

GenuineInv ==
    /\ \A l \in issued : OwnHash(l)
    /\ \A c \in Chains : file[c] \in Seq(Chained)

\* A line that verifies has the contents of the line whose hash it bears.
LEMMA GenuineLine ==
    ASSUME TypeOK, GenuineInv, NEW c \in Chains, NEW i \in 1 .. Len(file[c]),
           LineOK(file[c], i)
    PROVE  file[c][i] \in issued
<1> DEFINE l == file[c][i]
<1>1. l \in Chained /\ l # Torn /\ OwnHash(l)
  <2>1. file[c] \in Seq(Chained)
    BY DEF GenuineInv
  <2>2. l \in Chained
    BY <2>1, ElementOfSeq
  <2>3. l # Torn /\ OwnHash(l)
    BY DEF LineOK, OwnHash
  <2> QED BY <2>2, <2>3
<1>2. l \in Lines
  BY <1>1 DEF Chained
<1>3. PICK m \in issued : m.eventHash = l.eventHash
  BY <1>1 DEF Chained
<1>4. m \in Lines /\ OwnHash(m)
  BY DEF TypeOK, GenuineInv
<1>5. /\ l.previousHash = m.previousHash
      /\ l.sequence = m.sequence
      /\ l.body = m.body
  <2>1. /\ l.previousHash \in Hashes /\ l.sequence \in Nat /\ l.body \in Events
        /\ m.previousHash \in Hashes /\ m.sequence \in Nat /\ m.body \in Events
    BY <1>2, <1>4 DEF Lines
  <2>2. Hash(l.previousHash, l.sequence, l.body) = Hash(m.previousHash, m.sequence, m.body)
    BY <1>1, <1>3, <1>4 DEF OwnHash
  <2> QED BY <2>1, <2>2, HashInjective
<1>6. l = m
  BY <1>2, <1>3, <1>4, <1>5 DEF Lines
<1> QED BY <1>6

\* A line that is on file stays acceptable as the ledger writes more lines.
LEMMA ChainedGrows ==
    ASSUME issued \subseteq issued', NEW f \in Seq(Chained)
    PROVE  f \in Seq(Chained')
<1>1. Chained \subseteq Chained'
  BY DEF Chained
<1> QED BY <1>1, SeqMonotonic

\* Writing a record, or a part of one, keeps the invariant.
LEMMA GenuineWritten ==
    ASSUME TypeOK, GenuineInv, NEW e \in Events, NEW line \in Lines \cup {Torn},
           file' = [file EXCEPT ![ChainOf[e]] = Land(ChainOf[e], line)],
           \/ line = Torn /\ issued' = issued
           \/ line \in Lines /\ OwnHash(line) /\ issued' = issued \cup {line}
    PROVE  GenuineInv'
<1>1. ChainOf[e] \in Chains
  BY ChainsAssumption
<1>2. \A l \in issued' : OwnHash(l)
  BY DEF GenuineInv
<1>3. Torn \in Chained' /\ line \in Chained'
  BY DEF Chained
<1>4. ASSUME NEW c \in Chains PROVE file[c] \in Seq(Chained')
  BY ChainedGrows DEF GenuineInv
<1>5. Land(ChainOf[e], line) \in Seq(Chained')
  BY <1>1, <1>3, <1>4, LandTyping
<1>6. ASSUME NEW c \in Chains PROVE file'[c] \in Seq(Chained')
  BY <1>1, <1>4, <1>5 DEF TypeOK
<1> QED BY <1>2, <1>6 DEF GenuineInv, OwnHash

\* Every step keeps the invariant: an edit moves lines about and alters them, but
\* makes no hash.
LEMMA GenuineStep == TypeOK /\ GenuineInv /\ [Next]_vars => GenuineInv'
<1> SUFFICES ASSUME TypeOK, GenuineInv, [Next]_vars PROVE GenuineInv'
  OBVIOUS
<1>1. ASSUME UNCHANGED <<file, issued>> PROVE GenuineInv'
  BY <1>1 DEF GenuineInv, Chained, OwnHash
<1>2. ASSUME NEW e \in Events PROVE Record(e) \in Lines /\ OwnHash(Record(e))
  BY RecordTyping DEF TypeOK, OwnHash
<1>3. ASSUME NEW e \in Events, Write(e) PROVE GenuineInv'
  BY <1>2, <1>3, GenuineWritten DEF Write
<1>4. ASSUME NEW e \in Events, WriteFails(e) PROVE GenuineInv'
  <2>1. CASE UNCHANGED disk
    BY <1>1, <2>1
  <2>2. CASE /\ file' = [file EXCEPT ![ChainOf[e]] = Land(ChainOf[e], Torn)]
             /\ UNCHANGED issued
    BY <2>2, GenuineWritten
  <2>3. CASE /\ file' = [file EXCEPT ![ChainOf[e]] = Land(ChainOf[e], Record(e))]
             /\ issued' = issued \cup {Record(e)}
    BY <1>2, <2>3, GenuineWritten
  <2> QED BY <1>4, <2>1, <2>2, <2>3 DEF WriteFails
<1>5. ASSUME NEW c \in Chains, Edit(c) PROVE GenuineInv'
  <2>1. PICK f \in Removed(file[c]) \cup Inserted(file[c]) \cup Swapped(file[c])
                   \cup Altered(file[c]) : file' = [file EXCEPT ![c] = f]
    BY <1>5 DEF Edit
  <2>2. issued' = issued
    BY <1>5 DEF Edit
  <2>3. file[c] \in Seq(Chained) /\ Chained \in SUBSET (Lines \cup {Torn})
    BY DEF GenuineInv, Chained
  <2>4. \A l \in Chained \ {Torn} : \A m \in Lines :
            m.eventHash = l.eventHash => m \in Chained
    BY DEF Chained
  <2>5. f \in Seq(Chained)
    BY <2>1, <2>3, <2>4, EditTyping
  <2>6. \A d \in Chains : file'[d] \in Seq(Chained)
    BY <2>1, <2>5 DEF GenuineInv, TypeOK
  <2>7. Chained' = Chained
    BY <2>2 DEF Chained
  <2> QED BY <2>2, <2>6, <2>7 DEF GenuineInv, OwnHash
<1>6. ASSUME NEW e \in Events, Request(e) \/ Verify(e) \/ LoadHead(e) PROVE GenuineInv'
  BY <1>1, <1>6 DEF Request, Verify, LoadHead
<1>7. ASSUME Crash \/ UNCHANGED vars PROVE GenuineInv'
  BY <1>1, <1>7 DEF Crash
<1> QED BY <1>3, <1>4, <1>5, <1>6, <1>7 DEF Next, Step

\* Tamper evidence: whoever removes, copies, swaps or alters lines of a file, and
\* whatever is appended to it afterwards, a part of it that verifyChain vouches for
\* consists of lines that append wrote, unaltered.
THEOREM LedgerGenuine == Spec => []VerifiedIsGenuine
<1>1. ASSUME Init PROVE GenuineInv
  BY <1>1, EmptySeq DEF Init, GenuineInv
<1>2. ASSUME TypeOK, GenuineInv PROVE VerifiedIsGenuine
  <2> SUFFICES ASSUME NEW c \in Chains, NEW n \in 1 .. Len(file[c]),
                      Intact(file[c], n), NEW i \in 1 .. n
               PROVE  file[c][i] \in issued
    BY DEF VerifiedIsGenuine
  <2>1. i \in 1 .. Len(file[c]) /\ LineOK(file[c], i)
    BY LenProperties DEF TypeOK, Intact
  <2> QED BY <1>2, <2>1, GenuineLine
<1> QED BY <1>1, <1>2, LedgerTypeCorrect, GenuineStep, PTL DEF Spec

(***************************************************************************)
(* As long as nobody edits a file, and a failing write leaves nothing or a *)
(* part of a line, a file verifies, but for a last line that does not      *)
(* parse.  Steps other than these disturb the ledger, for good.            *)
(***************************************************************************)
Undisturbed ==
    /\ \A c \in Chains : ~Edit(c)
    /\ \A e \in Events : WriteFails(e) =>
          file' \in {file, [file EXCEPT ![ChainOf[e]] = Land(ChainOf[e], Torn)]}

LEMMA DisturbedForGood ==
    ASSUME TypeOK, [Next]_vars, ~Disturbed'
    PROVE  ~Disturbed /\ [Undisturbed]_vars
<1>1. \A line \in issued : line.body \in Events
  BY DEF TypeOK, Lines
<1>2. ASSUME NEW e \in Events, stage[e] = "refused" PROVE stage'[e] = "refused"
  <2>1. ASSUME NEW d \in Events, Request(d) \/ Step(d) \/ WriteFails(d) PROVE stage'[e] = "refused"
    BY <1>2, <2>1 DEF Request, Step, Verify, LoadHead, Write, WriteFails, Reject, At, TypeOK
  <2>2. CASE UNCHANGED vars \/ Crash \/ \E c \in Chains : Edit(c)
    BY <1>2, <2>2 DEF vars, Crash, Edit, Pending, InProgress, TypeOK
  <2> QED BY <2>1, <2>2 DEF Next
<1>3. issued \subseteq issued'
  BY DEF Next, vars, disk, Request, Step, Verify, LoadHead, Write, WriteFails, Crash, Edit
<1>4. edits' >= edits /\ edits \in Nat /\ edits' \in Nat
  BY BoundsAssumption DEF Next, vars, Request, Step, Verify, LoadHead, Write, WriteFails, Crash, Edit, TypeOK
<1>5. ~Disturbed
  BY <1>1, <1>2, <1>3, <1>4 DEF Disturbed
<1>6. ASSUME NEW c \in Chains, Edit(c) PROVE FALSE
  <2>1. edits' = edits + 1
    BY <1>6 DEF Edit
  <2>2. edits' > 0
    BY <1>4, <2>1
  <2> QED BY <2>2 DEF Disturbed
<1>7. ASSUME NEW e \in Events, WriteFails(e)
      PROVE  file' \in {file, [file EXCEPT ![ChainOf[e]] = Land(ChainOf[e], Torn)]}
  <2>1. Record(e) \notin issued'
    <3>1. stage'[e] = "refused" /\ Record(e).body = e
      BY <1>7 DEF WriteFails, Reject, Record, TypeOK
    <3> QED BY <3>1 DEF Disturbed
  <2> QED BY <1>7, <2>1 DEF WriteFails, disk
<1> QED BY <1>5, <1>6, <1>7 DEF Undisturbed

LEMMA NoEdit == ASSUME TypeOK, [Undisturbed]_vars, NEW c \in Chains PROVE ~Edit(c)
<1> SUFFICES ASSUME Edit(c), UNCHANGED vars PROVE FALSE
  BY DEF Undisturbed
<1> QED BY DEF Edit, vars, TypeOK

Good(f) == IF Verifies(f) THEN Len(f) ELSE Len(f) - 1
Sound(f) == Verifies(f) \/ (f # << >> /\ f[Len(f)] = Torn /\ Intact(f, Len(f) - 1))

\* verifyChain's count is that of the lines before the first bad one.
LEMMA CountFacts ==
    ASSUME NEW f \in Seq(Lines \cup {Torn}), Sound(f)
    PROVE  VerifiedCount(f) = Good(f) /\ Good(f) \in 0 .. Len(f) /\ Intact(f, Good(f))
<1> DEFINE P(n) == Intact(f, n) /\ (n < Len(f) => ~LineOK(f, n + 1))
<1>1. Len(f) \in Nat /\ (f # << >> => Len(f) # 0)
  OBVIOUS
<1>2. Good(f) \in 0 .. Len(f)
  <2>1. ~Verifies(f) => f # << >>
    BY DEF Sound
  <2> QED BY <1>1, <2>1 DEF Good
<1>3. P(Good(f))
  <2>1. CASE Verifies(f)
    BY <1>1, <2>1 DEF Good, Verifies
  <2>2. CASE ~Verifies(f)
    <3>1. Intact(f, Good(f)) /\ Good(f) + 1 = Len(f) /\ f[Len(f)] = Torn
      BY <1>1, <2>2 DEF Good, Sound
    <3>2. ~LineOK(f, Good(f) + 1)
      BY <3>1 DEF LineOK
    <3> QED BY <3>1, <3>2
  <2> QED BY <2>1, <2>2
<1>4. ASSUME NEW m \in 0 .. Len(f), NEW n \in 0 .. Len(f), P(m), P(n) PROVE ~(m < n)
  <2>1. SUFFICES ASSUME m < n PROVE FALSE
    OBVIOUS
  <2>2. m + 1 \in 1 .. n /\ m < Len(f)
    BY <1>1, <2>1
  <2>3. LineOK(f, m + 1)
    BY <1>4, <2>2 DEF Intact
  <2> QED BY <1>4, <2>2, <2>3
<1>5. VerifiedCount(f) = CHOOSE n \in 0 .. Len(f) : P(n)
  BY DEF VerifiedCount
<1> HIDE DEF P
<1>6. VerifiedCount(f) \in 0 .. Len(f) /\ P(VerifiedCount(f))
  BY <1>2, <1>3, <1>5
<1>7. VerifiedCount(f) = Good(f)
  <2>1. ~(VerifiedCount(f) < Good(f)) /\ ~(Good(f) < VerifiedCount(f))
    BY <1>2, <1>3, <1>4, <1>6
  <2> QED BY <1>1, <1>2, <1>6, <2>1
<1>8. Intact(f, Good(f))
  BY <1>3 DEF P
<1> QED BY <1>2, <1>7, <1>8

\* A line after the last of a file leaves the ones before it as they are.
LEMMA AppendIntact ==
    ASSUME NEW f \in Seq(Lines \cup {Torn}), NEW line \in Lines \cup {Torn}, NEW n \in 0 .. Len(f)
    PROVE  Intact(Append(f, line), n) <=> Intact(f, n)
<1>1. ASSUME NEW i \in 1 .. n PROVE LineOK(Append(f, line), i) <=> LineOK(f, i)
  <2>1. i \in 1 .. Len(f) /\ (i # 1 => i - 1 \in 1 .. Len(f))
    OBVIOUS
  <2>2. Append(f, line)[i] = f[i] /\ (i # 1 => Append(f, line)[i - 1] = f[i - 1])
    BY <2>1
  <2> QED BY <2>2 DEF LineOK, PreviousHash
<1> QED BY <1>1 DEF Intact

HeadOf(f) == IF f = << >> THEN GenesisHead ELSE HeadFrom(f[Len(f)])

\* What an append writes behind the head of a file that verifies, verifies.
LEMMA RecordVerifies ==
    ASSUME NEW f \in Seq(Lines \cup {Torn}), Verifies(f), NEW e \in Events, head[e] = HeadOf(f),
           Record(e) \in Lines
    PROVE  Verifies(Append(f, Record(e)))
<1> DEFINE g == Append(f, Record(e))
           k == Len(f) + 1
<1>1. Len(f) \in Nat /\ g \in Seq(Lines \cup {Torn}) /\ Len(g) = k /\ g[k] = Record(e)
  OBVIOUS
<1>2. Intact(g, Len(f))
  BY AppendIntact DEF Verifies
<1>3. Record(e).sequence = k /\ Record(e).previousHash = PreviousHash(g, k)
  <2>1. CASE f = << >>
    BY <2>1 DEF HeadOf, GenesisHead, Record, NextSequence, PreviousHash
  <2>2. CASE f # << >>
    <3>1. Len(f) \in 1 .. Len(f) /\ k # 1 /\ k - 1 = Len(f) /\ g[Len(f)] = f[Len(f)]
      BY <1>1, <2>2
    <3>2. f[Len(f)].sequence = Len(f)
      BY <3>1 DEF Verifies, Intact, LineOK
    <3>3. head[e].sequence = Len(f) /\ head[e].eventHash = f[Len(f)].eventHash
      BY <2>2, <3>2 DEF HeadOf, HeadFrom
    <3>4. Record(e).sequence = head[e].sequence + 1 /\ Record(e).previousHash = head[e].eventHash
      BY DEF Record, NextSequence
    <3>5. PreviousHash(g, k) = f[Len(f)].eventHash
      BY <3>1 DEF PreviousHash
    <3> QED BY <3>3, <3>4, <3>5
  <2> QED BY <2>1, <2>2
<1>4. Record(e).eventHash = Hash(Record(e).previousHash, Record(e).sequence, Record(e).body)
  BY DEF Record
<1>5. LineOK(g, k)
  BY <1>1, <1>3, <1>4, TornAssumption DEF LineOK
<1> HIDE DEF g
<1>6. \A i \in 1 .. Len(g) : LineOK(g, i)
  BY <1>1, <1>2, <1>5 DEF Intact
<1> QED BY <1>6 DEF Verifies, Intact, g

\* A part of a line behind a file that verifies is the first bad one.
LEMMA TornSound ==
    ASSUME NEW f \in Seq(Lines \cup {Torn}), Verifies(f)
    PROVE  /\ Sound(Append(f, Torn)) /\ ~Verifies(Append(f, Torn))
           /\ Good(Append(f, Torn)) = Good(f) /\ Good(f) = Len(f)
<1> DEFINE g == Append(f, Torn)
<1>1. /\ Len(f) \in Nat /\ g \in Seq(Lines \cup {Torn}) /\ Len(g) = Len(f) + 1 /\ g[Len(g)] = Torn
      /\ g # << >> /\ Len(g) - 1 = Len(f) /\ Len(g) \in 1 .. Len(g)
  OBVIOUS
<1>2. Intact(g, Len(f))
  BY <1>1, AppendIntact DEF Verifies
<1> HIDE DEF g
<1>3. ~Verifies(g)
  BY <1>1 DEF Verifies, Intact, LineOK
<1> QED BY <1>1, <1>2, <1>3 DEF Sound, Good, g

(***************************************************************************)
(* While an append is in progress its file is as it was verified, and its  *)
(* head is the file's.                                                     *)
(***************************************************************************)
Calm ==
    /\ \A c \in Chains : Sound(file[c])
    /\ \A c \in unterminated : ~Verifies(file[c])
    /\ \A e \in Events : stage[e] \in InProgress =>
          /\ At(e, stage[e]) /\ Verifies(file[ChainOf[e]])
          /\ stage[e] = "headed" => head[e] = HeadOf(file[ChainOf[e]])

\* What can become of a file: an append writes its line or a part of it.
LEMMA FileSteps ==
    ASSUME [Undisturbed]_vars, TypeOK, Calm, [Next]_vars
    PROVE  \/ UNCHANGED <<file, unterminated>>
           \/ \E e \in Events : LET c == ChainOf[e] IN
                /\ At(e, "headed") /\ c \in Chains /\ Verifies(file[c])
                /\ \/ /\ WriteFails(e) /\ file' = [file EXCEPT ![c] = Append(file[c], Torn)]
                      /\ unterminated' = unterminated \cup {c}
                   \/ /\ Write(e) /\ file' = [file EXCEPT ![c] = Append(file[c], Record(e))]
                      /\ unterminated' = unterminated \ {c} /\ Verifies(Append(file[c], Record(e)))
<1>1. ASSUME NEW e \in Events, At(e, "headed")
      PROVE  /\ ChainOf[e] \in Chains /\ Verifies(file[ChainOf[e]])
             /\ head[e] = HeadOf(file[ChainOf[e]]) /\ ChainOf[e] \notin unterminated
             /\ file[ChainOf[e]] \in Seq(Lines \cup {Torn})
  BY <1>1, ChainsAssumption DEF At, Calm, InProgress, TypeOK
<1>2. ASSUME NEW e \in Events, Write(e)
      PROVE  /\ At(e, "headed") /\ file' = [file EXCEPT ![ChainOf[e]] = Append(file[ChainOf[e]], Record(e))]
             /\ unterminated' = unterminated \ {ChainOf[e]}
             /\ Verifies(Append(file[ChainOf[e]], Record(e)))
  <2>1. At(e, "headed") /\ Record(e) \in Lines
    BY <1>2, RecordTyping DEF Write, TypeOK
  <2>2. Verifies(Append(file[ChainOf[e]], Record(e)))
    BY <1>1, <2>1, RecordVerifies
  <2> QED BY <1>1, <1>2, <2>1, <2>2 DEF Write, Land
<1>3. ASSUME NEW e \in Events, WriteFails(e)
      PROVE  /\ At(e, "headed")
             /\ \/ UNCHANGED <<file, unterminated>>
                \/ /\ file' = [file EXCEPT ![ChainOf[e]] = Append(file[ChainOf[e]], Torn)]
                   /\ unterminated' = unterminated \cup {ChainOf[e]}
  <2>1. At(e, "headed")
    BY <1>3 DEF WriteFails
  <2>2. ChainOf[e] \notin unterminated
    BY <1>1, <2>1
  <2>3. /\ file' \in {file, [file EXCEPT ![ChainOf[e]] = Append(file[ChainOf[e]], Torn)]}
        /\ Record(e) \in Lines /\ Record(e) # Torn
    <3>1. \/ UNCHANGED vars
          \/ file' \in {file, [file EXCEPT ![ChainOf[e]] = Land(ChainOf[e], Torn)]}
      BY <1>3 DEF Undisturbed
    <3> QED BY <1>1, <2>1, <2>2, <3>1, RecordTyping, TornAssumption DEF Land, vars, disk, TypeOK
  <2>4. file' # [file EXCEPT ![ChainOf[e]] = Append(file[ChainOf[e]], Record(e))]
    BY <1>1, <2>1, <2>3, AppendProperties DEF TypeOK
  <2> QED BY <1>3, <2>2, <2>4 DEF WriteFails, Land
<1>4. ASSUME NEW c \in Chains, Edit(c) PROVE FALSE
  BY <1>4, NoEdit
<1>5. ASSUME NEW e \in Events, Request(e) \/ Verify(e) \/ LoadHead(e) PROVE UNCHANGED <<file, unterminated>>
  BY <1>5 DEF Request, Verify, LoadHead
<1>6. ASSUME Crash \/ UNCHANGED vars PROVE UNCHANGED <<file, unterminated>>
  BY <1>6 DEF Crash
<1> QED BY <1>1, <1>2, <1>3, <1>4, <1>5, <1>6 DEF Next, Step

LEMMA SoundStep ==
    ASSUME [Undisturbed]_vars, TypeOK, Calm, [Next]_vars
    PROVE  /\ \A c \in Chains : Sound(file[c])'
           /\ \A c \in unterminated' : ~Verifies(file[c])'
<1>1. CASE UNCHANGED <<file, unterminated>>
  BY <1>1 DEF Calm
<1>2. ASSUME NEW c \in Chains, Verifies(file[c]), file' = [file EXCEPT ![c] = Append(file[c], Torn)],
             unterminated' = unterminated \cup {c}
      PROVE  /\ \A d \in Chains : Sound(file'[d])
             /\ \A d \in unterminated' : ~Verifies(file'[d])
  <2>1. file'[c] = Append(file[c], Torn) /\ \A d \in Chains : d # c => file'[d] = file[d]
    BY <1>2 DEF TypeOK
  <2>2. Sound(file'[c]) /\ ~Verifies(file'[c])
    BY <1>2, <2>1, TornSound DEF TypeOK
  <2> QED BY <1>2, <2>1, <2>2 DEF Calm, TypeOK
<1>3. ASSUME NEW c \in Chains, NEW line, file' = [file EXCEPT ![c] = Append(file[c], line)],
             unterminated' = unterminated \ {c}, Verifies(Append(file[c], line))
      PROVE  /\ \A d \in Chains : Sound(file'[d])
             /\ \A d \in unterminated' : ~Verifies(file'[d])
  <2>1. file'[c] = Append(file[c], line) /\ \A d \in Chains : d # c => file'[d] = file[d]
    BY <1>3 DEF TypeOK
  <2> QED BY <1>3, <2>1 DEF Calm, TypeOK, Sound
<1> QED BY <1>1, <1>2, <1>3, FileSteps

LEMMA CalmStep ==
    ASSUME [Undisturbed]_vars, TypeOK, Calm, [Next]_vars
    PROVE  Calm'
\* Of the appends to a chain one is in progress, the first in the queue.
<1>1. ASSUME NEW e \in Events, NEW d \in Events, queue[ChainOf[e]] # << >>, Head(queue[ChainOf[e]]) = e,
             d # e, stage[d] \in InProgress
      PROVE  ChainOf[d] # ChainOf[e]
  BY <1>1 DEF Calm, At
<1>2. ASSUME NEW d \in Events, stage'[d] \in InProgress
      PROVE  /\ At(d, stage[d])' /\ Verifies(file[ChainOf[d]])'
             /\ stage'[d] = "headed" => head'[d] = HeadOf(file[ChainOf[d]])'
  <2>0. ChainOf[d] \in Chains /\ queue[ChainOf[d]] \in Seq(Events)
    BY ChainsAssumption DEF TypeOK
\* An append in progress whose chain is not touched goes on as before.
  <2>1. ASSUME stage'[d] = stage[d], head'[d] = head[d], file'[ChainOf[d]] = file[ChainOf[d]],
               queue[ChainOf[d]] # << >> =>
                   queue'[ChainOf[d]] # << >> /\ Head(queue'[ChainOf[d]]) = Head(queue[ChainOf[d]])
        PROVE  /\ At(d, stage[d])' /\ Verifies(file[ChainOf[d]])'
               /\ stage'[d] = "headed" => head'[d] = HeadOf(file[ChainOf[d]])'
    BY <1>2, <2>1 DEF Calm, At, HeadOf
  <2>2. CASE UNCHANGED vars
    BY <2>1, <2>2
  <2>3. CASE Crash
    BY <1>2, <2>3 DEF Crash, InProgress, Pending
  <2>4. ASSUME NEW e \in Events, Request(e)
        PROVE  /\ At(d, stage[d])' /\ Verifies(file[ChainOf[d]])'
               /\ stage'[d] = "headed" => head'[d] = HeadOf(file[ChainOf[d]])'
    <3>1. d # e
      BY <1>2, <2>4 DEF Request, InProgress, TypeOK
    <3>2. stage'[d] = stage[d] /\ UNCHANGED <<head, file>>
      BY <2>4, <3>1 DEF Request, TypeOK
    <3>3. queue'[ChainOf[d]] = queue[ChainOf[d]] \/ queue'[ChainOf[d]] = Append(queue[ChainOf[d]], e)
      BY <2>0, <2>4 DEF Request, TypeOK
    <3>4. queue[ChainOf[d]] # << >> =>
              queue'[ChainOf[d]] # << >> /\ Head(queue'[ChainOf[d]]) = Head(queue[ChainOf[d]])
      BY <2>0, <3>3
    <3> QED BY <2>1, <3>2, <3>4
  <2>5. ASSUME NEW e \in Events, Step(e) \/ WriteFails(e), e # d
        PROVE  /\ At(d, stage[d])' /\ Verifies(file[ChainOf[d]])'
               /\ stage'[d] = "headed" => head'[d] = HeadOf(file[ChainOf[d]])'
    <3>1. queue[ChainOf[e]] # << >> /\ Head(queue[ChainOf[e]]) = e
      BY <2>5 DEF Step, Verify, LoadHead, Write, WriteFails, At
    <3>2. stage'[d] = stage[d] /\ head'[d] = head[d]
      BY <2>5 DEF Step, Verify, LoadHead, Write, WriteFails, Reject, TypeOK
    <3>3. ChainOf[d] # ChainOf[e]
      BY <1>1, <1>2, <2>5, <3>1, <3>2
    <3>4. queue'[ChainOf[d]] = queue[ChainOf[d]] /\ file'[ChainOf[d]] = file[ChainOf[d]]
      BY <2>0, <2>5, <3>3 DEF Step, Verify, LoadHead, Write, WriteFails, Reject, SkipRejected, Dequeue, TypeOK
    <3> QED BY <2>1, <3>2, <3>4
  <2>6. ASSUME Step(d) \/ WriteFails(d)
        PROVE  /\ At(d, stage[d])' /\ Verifies(file[ChainOf[d]])'
               /\ stage'[d] = "headed" => head'[d] = HeadOf(file[ChainOf[d]])'
    <3> DEFINE f == file[ChainOf[d]]
    <3>1. ~Write(d) /\ ~WriteFails(d)
      BY <1>2 DEF Write, WriteFails, Reject, InProgress, TypeOK
    <3>2. CASE Verify(d)
      <4>1. /\ queue' = queue /\ file' = file /\ Verifies(f)
            /\ queue[ChainOf[d]] # << >> /\ Head(queue[ChainOf[d]]) = d
            /\ \/ f = << >> /\ stage'[d] = "headed" /\ head'[d] = GenesisHead
               \/ stage'[d] = "verified"
        BY <1>2, <3>2 DEF Verify, At, Reject, InProgress, TypeOK
      <4> QED BY <4>1 DEF At, HeadOf
    <3>3. CASE LoadHead(d)
      <4>1. /\ queue' = queue /\ file' = file /\ At(d, "verified")
            /\ stage'[d] = "headed" /\ ~NoHead(f) /\ head'[d] = HeadFrom(f[Len(f)])
        BY <1>2, <3>3 DEF LoadHead, Reject, InProgress, TypeOK
      <4>2. Verifies(f) /\ f # << >>
        BY <4>1 DEF Calm, At, InProgress, NoHead
      <4> QED BY <4>1, <4>2 DEF At, HeadOf
    <3> QED BY <2>6, <3>1, <3>2, <3>3 DEF Step
  <2>7. ASSUME NEW c \in Chains, Edit(c) PROVE FALSE
    BY <2>7, NoEdit
  <2> QED BY <2>2, <2>3, <2>4, <2>5, <2>6, <2>7 DEF Next
<1> QED BY <1>2, SoundStep DEF Calm

Calmed == ~Disturbed => Calm

LEMMA CalmHolds == Spec => [](TypeOK /\ Calmed)
<1>1. Init => Calmed
  BY DEF Init, Calm, Calmed, Sound, Verifies, Intact, InProgress
<1>2. TypeOK /\ Calmed /\ [Next]_vars => Calmed'
  BY CalmStep, DisturbedForGood DEF Calmed
<1> QED BY LedgerTypeCorrect, <1>1, <1>2, PTL DEF Spec

(***************************************************************************)
(* The ledger implements the append-only log.                              *)
(***************************************************************************)
Bodies(f) == [i \in 1 .. Good(f) |-> f[i].body]

LEMMA LoggedFacts ==
    ASSUME TypeOK, Calm
    PROVE  Logged = [c \in Chains |-> Bodies(file[c])]
<1>1. ASSUME NEW c \in Chains PROVE VerifiedCount(file[c]) = Good(file[c])
  BY CountFacts DEF TypeOK, Calm
<1> QED BY <1>1 DEF Logged, Bodies

LEMMA BodiesFacts ==
    ASSUME NEW f \in Seq(Lines \cup {Torn}), Verifies(f)
    PROVE  /\ Bodies(Append(f, Torn)) = Bodies(f)
           /\ \A line \in Lines : Verifies(Append(f, line)) =>
                 Bodies(Append(f, line)) = Append(Bodies(f), line.body)
<1>1. Len(f) \in Nat /\ Good(f) = Len(f) /\ Good(Append(f, Torn)) = Len(f)
  BY TornSound DEF Good
<1>2. \A i \in 1 .. Len(f) : \A x : Append(f, x)[i] = f[i]
  BY <1>1
<1>3. Bodies(Append(f, Torn)) = Bodies(f)
  BY <1>1, <1>2 DEF Bodies
<1>4. ASSUME NEW line \in Lines, Verifies(Append(f, line))
      PROVE  Bodies(Append(f, line)) = Append(Bodies(f), line.body)
  <2> DEFINE b == Bodies(f)
             g == Append(f, line)
  <2>1. Good(g) = Len(f) + 1 /\ g[Len(f) + 1] = line
    <3>1. Len(g) = Len(f) + 1 /\ g[Len(f) + 1] = line
      BY <1>1
    <3> QED BY <1>4, <3>1 DEF Good
  <2>2. b \in Seq(Events) /\ Len(b) = Len(f) /\ \A i \in 1 .. Len(f) : b[i] = f[i].body
    <3>1. \A i \in 1 .. Len(f) : f[i] # Torn /\ f[i] \in Lines \cup {Torn}
      BY <1>1 DEF Verifies, Intact, LineOK
    <3>2. \A i \in 1 .. Len(f) : f[i].body \in Events
      BY <3>1 DEF Lines
    <3>3. b = [i \in 1 .. Len(f) |-> f[i].body]
      BY <1>1 DEF Bodies
    <3> HIDE DEF b
    <3> QED BY <1>1, <3>2, <3>3
  <2>3. Bodies(g) = [i \in 1 .. Len(f) + 1 |-> g[i].body]
    BY <2>1 DEF Bodies
  <2>4. \A i \in 1 .. Len(f) + 1 : g[i].body = IF i = Len(f) + 1 THEN line.body ELSE b[i]
    BY <1>1, <1>2, <2>1, <2>2
  <2>5. line.body \in Events
    BY DEF Lines
  <2> HIDE DEF b, g
  <2>6. Append(b, line.body) = [i \in 1 .. Len(f) + 1 |-> IF i = Len(f) + 1 THEN line.body ELSE b[i]]
    BY <1>1, <2>2, <2>5
  <2> QED BY <2>3, <2>4, <2>6 DEF b, g
<1> QED BY <1>3, <1>4

\* A step that answers nobody is none of the log's.
LEMMA AnswerFacts ==
    ASSUME TypeOK, NEW e \in Events, stage[e] \in Pending
    PROVE  /\ Answers[e] = "none"
           /\ stage' = [stage EXCEPT ![e] = "done"] => Answers' = [Answers EXCEPT ![e] = "recorded"]
           /\ stage' = [stage EXCEPT ![e] = "refused"] => Answers' = [Answers EXCEPT ![e] = "refused"]
           /\ \A s \in Pending : stage' = [stage EXCEPT ![e] = s] => Answers' = Answers
  BY DEF Answers, Pending, InProgress, TypeOK

LEMMA LogStep ==
    ASSUME [Undisturbed]_vars, TypeOK, TypeOK', Calm, Calm', [Next]_vars, ~Disturbed, ~Disturbed'
    PROVE  [Log!Next]_(Log!vars)
<1>s. Disturbed' = Disturbed
  BY DEF Disturbed
<1>1. Logged = [c \in Chains |-> Bodies(file[c])] /\ Logged' = [c \in Chains |-> Bodies(file'[c])]
  <2>1. Logged = [c \in Chains |-> Bodies(file[c])]
    BY LoggedFacts
  <2>2. (Logged = [c \in Chains |-> Bodies(file[c])])'
    BY LoggedFacts, PTL
  <2> QED BY <2>1, <2>2 DEF Bodies, Good
<1>2. ASSUME UNCHANGED file PROVE Logged' = Logged
  BY <1>1, <1>2
<1>3. ASSUME NEW e \in Events, Request(e) PROVE [Log!Next]_(Log!vars)
  <2>1. Answers' = Answers
    BY <1>3 DEF Request, Answers, TypeOK
  <2> QED BY <1>s, <1>2, <1>3, <2>1 DEF Request, Log!vars
\* An append that is refused leaves the log as it is.
<1>4. ASSUME NEW e \in Events, stage[e] \in Pending, Reject(e), Logged' = Logged
      PROVE  [Log!Next]_(Log!vars)
  <2>1. Log!Refuse(e)
    BY <1>4, AnswerFacts DEF Reject, Log!Refuse
  <2> QED BY <2>1 DEF Log!Next
<1>5. ASSUME NEW e \in Events, Verify(e) \/ LoadHead(e) PROVE [Log!Next]_(Log!vars)
  <2>1. stage[e] \in Pending /\ Logged' = Logged
    BY <1>2, <1>5 DEF Verify, LoadHead, At, Pending, InProgress
  <2>2. Reject(e) \/ \E s \in Pending : stage' = [stage EXCEPT ![e] = s]
    BY <1>5 DEF Verify, LoadHead, Pending, InProgress
  <2> QED BY <1>s, <1>4, <2>1, <2>2, AnswerFacts DEF Log!vars
<1>6. ASSUME NEW e \in Events, WriteFails(e) PROVE [Log!Next]_(Log!vars)
  <2>1. stage[e] \in Pending /\ Reject(e)
    BY <1>6 DEF WriteFails, At, Pending, InProgress
  <2>2. ASSUME NEW c \in Chains, Verifies(file[c]), file' = [file EXCEPT ![c] = Append(file[c], Torn)]
        PROVE  Logged' = Logged
    <3>1. \A d \in Chains : Bodies(file'[d]) = Bodies(file[d])
      BY <2>2, BodiesFacts DEF TypeOK
    <3> QED BY <1>1, <3>1
  <2>3. Logged' = Logged
    <3>1. ASSUME NEW d \in Events, Write(d) PROVE FALSE
      <4>1. stage'[d] = "done" /\ stage[d] = "headed"
        BY <3>1 DEF Write, At, TypeOK
      <4>2. stage'[d] = IF d = e THEN "refused" ELSE stage[d]
        BY <2>1 DEF Reject, TypeOK
      <4> QED BY <4>1, <4>2
    <3> QED BY <1>2, <2>2, <3>1, FileSteps
  <2> QED BY <1>4, <2>1, <2>3
<1>7. ASSUME NEW e \in Events, Write(e) PROVE [Log!Next]_(Log!vars)
  <2>1. stage[e] \in Pending /\ stage' = [stage EXCEPT ![e] = "done"] /\ At(e, "headed")
    BY <1>7 DEF Write, At, Pending, InProgress
  <2>2. /\ ChainOf[e] \in Chains /\ Verifies(file[ChainOf[e]]) /\ Record(e) \in Lines /\ Record(e).body = e
        /\ file[ChainOf[e]] \in Seq(Lines \cup {Torn})
        /\ head[e] = HeadOf(file[ChainOf[e]]) /\ ChainOf[e] \notin unterminated
    BY <2>1, ChainsAssumption, RecordTyping DEF At, Calm, InProgress, TypeOK, Record
  <2>3. file' = [file EXCEPT ![ChainOf[e]] = Append(file[ChainOf[e]], Record(e))]
    BY <1>7, <2>2 DEF Write, Land
  <2>4. Verifies(Append(file[ChainOf[e]], Record(e)))
    BY <2>2, RecordVerifies
  <2>5. Bodies(file'[ChainOf[e]]) = Append(Bodies(file[ChainOf[e]]), e)
    <3>1. file'[ChainOf[e]] = Append(file[ChainOf[e]], Record(e))
      BY <2>2, <2>3 DEF TypeOK
    <3>2. PICK f \in Seq(Lines \cup {Torn}), line \in Lines : f = file[ChainOf[e]] /\ line = Record(e)
      BY <2>2
    <3>3. Bodies(Append(f, line)) = Append(Bodies(f), line.body)
      BY <2>2, <2>4, <3>2, BodiesFacts
    <3> QED BY <2>2, <3>1, <3>2, <3>3
  <2>6. \A d \in Chains : d # ChainOf[e] => Bodies(file'[d]) = Bodies(file[d])
    BY <2>3 DEF TypeOK
  <2>7. Logged' = [Logged EXCEPT ![ChainOf[e]] = Append(@, e)]
    BY <1>1, <2>2, <2>5, <2>6
  <2>8. Log!Record(e)
    BY <2>1, <2>7, AnswerFacts DEF Log!Record
  <2> QED BY <2>8 DEF Log!Next
<1>8. CASE Crash \/ UNCHANGED vars
  <2>1. Logged' = Logged
    BY <1>2, <1>8 DEF Crash
  <2>2. Answers' = Answers
    BY <1>8 DEF Crash, Answers, Pending, InProgress, TypeOK
  <2> QED BY <1>s, <2>1, <2>2 DEF Log!vars
<1>9. ASSUME NEW c \in Chains, Edit(c) PROVE FALSE
  BY <1>9, NoEdit
<1> QED BY <1>3, <1>5, <1>6, <1>7, <1>8, <1>9 DEF Next, Step

\* Until somebody edits its files, or a line whose write has failed is whole but for its
\* newline, the ledger is one append-only log per chain, with crashes, failing writes and
\* refusals.
THEOREM LedgerRefinesLog == Spec => RefinesLog
<1>1. Init => Log!Init
  <2> SUFFICES ASSUME Init PROVE Log!Init
    OBVIOUS
  <2>1. \A c \in Chains : file[c] = << >> /\ Sound(file[c]) /\ Good(file[c]) = 0
    BY DEF Init, Sound, Good, Verifies, Intact
  <2>2. \A c \in Chains : VerifiedCount(file[c]) = 0
    <3>1. << >> \in Seq(Lines \cup {Torn})
      OBVIOUS
    <3>2. ASSUME NEW c \in Chains PROVE VerifiedCount(file[c]) = Good(file[c])
      BY <2>1, <3>1, CountFacts
    <3> QED BY <2>1, <3>2
  <2>3. Logged = [c \in Chains |-> << >>]
    BY <2>2 DEF Logged
  <2>4. Answers = [e \in Events |-> "none"]
    BY DEF Init, Answers
  <2>5. Disturbed = FALSE
    BY DEF Init, Disturbed
  <2> QED BY <2>3, <2>4, <2>5 DEF Log!Init
<1>2. TypeOK /\ TypeOK' /\ Calmed /\ Calmed' /\ [Next]_vars => [Log!Next]_(Log!vars)
  <2> SUFFICES ASSUME TypeOK, TypeOK', Calmed, Calmed', [Next]_vars PROVE [Log!Next]_(Log!vars)
    OBVIOUS
  <2>1. CASE Disturbed'
    BY <2>1 DEF Log!Next
  <2>2. CASE ~Disturbed'
    BY <2>2, DisturbedForGood, LogStep DEF Calmed
  <2> QED BY <2>1, <2>2
<1> QED BY CalmHolds, <1>1, <1>2, PTL DEF Spec, RefinesLog, Log!Spec

(***************************************************************************)
(* What is acknowledged is recorded, once.                                 *)
(***************************************************************************)
Kept(c) ==
    /\ \A i \in 1 .. Good(file[c]) : LET e == file[c][i].body IN
          e \in Events /\ ChainOf[e] = c /\ stage[e] = "done"
    /\ \A i, j \in 1 .. Good(file[c]) : file[c][i].body = file[c][j].body => i = j
    /\ \A e \in Events : ChainOf[e] = c /\ stage[e] = "done" =>
          \E i \in 1 .. Good(file[c]) : file[c][i].body = e

\* What has been acknowledged stays so, and only a write acknowledges.
LEMMA DoneSteps ==
    ASSUME TypeOK, [Next]_vars, NEW e \in Events
    PROVE  /\ stage[e] = "done" => stage'[e] = "done"
           /\ stage'[e] = "done" => stage[e] = "done" \/ Write(e)
<1>1. ASSUME NEW d \in Events, Request(d) \/ Step(d) \/ WriteFails(d)
      PROVE  /\ stage[d] # "done" /\ (stage'[d] = "done" => Write(d))
             /\ e # d => stage'[e] = stage[e]
  BY <1>1 DEF Request, Step, Verify, LoadHead, Write, WriteFails, Reject, At, TypeOK
<1>2. ASSUME UNCHANGED vars \/ Crash \/ \E c \in Chains : Edit(c)
      PROVE  stage'[e] = "done" <=> stage[e] = "done"
  BY <1>2 DEF Crash, Edit, Pending, InProgress, TypeOK
<1> QED BY <1>1, <1>2 DEF Next

LEMMA KeptStep ==
    ASSUME [Undisturbed]_vars, TypeOK, Calm, \A c \in Chains : Kept(c), [Next]_vars, NEW c \in Chains
    PROVE  Kept(c)'
<1> DEFINE f == file[c]
<1>0. f \in Seq(Lines \cup {Torn}) /\ Len(f) \in Nat
  BY DEF TypeOK
\* A file whose good lines are what they were, while nothing is acknowledged for it.
<1>1. ASSUME Good(file'[c]) = Good(f), \A i \in 1 .. Good(f) : file'[c][i] = f[i],
             \A e \in Events : ChainOf[e] = c => ~Write(e)
      PROVE  Kept(c)'
  BY <1>1, DoneSteps DEF Kept
<1>2. CASE \E e \in Events : ChainOf[e] = c /\ Write(e)
  <2>1. PICK e \in Events : ChainOf[e] = c /\ Write(e)
    BY <1>2
  <2>2. At(e, "headed") /\ stage'[e] = "done" /\ stage[e] # "done"
    BY <2>1 DEF Write, At, TypeOK
  <2>3. /\ Verifies(f) /\ Record(e) \in Lines /\ Record(e).body = e
        /\ head[e] = HeadOf(f) /\ c \notin unterminated
    BY <2>1, <2>2, RecordTyping DEF At, Calm, InProgress, TypeOK, Record
  <2>4. file'[c] = Append(f, Record(e)) /\ Verifies(file'[c])
    BY <1>0, <2>1, <2>3, RecordVerifies DEF Write, Land, TypeOK
  <2>5. Good(f) = Len(f) /\ Good(file'[c]) = Len(f) + 1
    BY <1>0, <2>3, <2>4 DEF Good
  <2>6. file'[c][Len(f) + 1].body = e /\ \A i \in 1 .. Len(f) : file'[c][i] = f[i] /\ f[i].body # e
    BY <1>0, <2>2, <2>3, <2>4, <2>5 DEF Kept
  <2>7. \A d \in Events : d # e => stage'[d] = stage[d]
    BY <2>1 DEF Write, TypeOK
  <2> HIDE DEF f
  <2>8. \A i \in 1 .. Len(f) + 1 : i \in 1 .. Len(f) \/ i = Len(f) + 1
    BY <1>0
  <2>9. \A i \in 1 .. Len(f) : i \in 1 .. Len(f) + 1 /\ i # Len(f) + 1
    BY <1>0
  <2>10. Len(f) + 1 \in 1 .. Len(f) + 1
    BY <1>0
  <2>11. \A i \in 1 .. Good(file'[c]) : LET d == file'[c][i].body IN
            d \in Events /\ ChainOf[d] = c /\ stage'[d] = "done"
    BY <2>1, <2>2, <2>5, <2>6, <2>7, <2>8 DEF Kept, f
  <2>12. \A i, j \in 1 .. Good(file'[c]) : file'[c][i].body = file'[c][j].body => i = j
    BY <2>5, <2>6, <2>8 DEF Kept, f
  <2>13. \A d \in Events : ChainOf[d] = c /\ stage'[d] = "done" =>
            \E i \in 1 .. Good(file'[c]) : file'[c][i].body = d
    BY <2>5, <2>6, <2>7, <2>9, <2>10 DEF Kept, f
  <2> QED BY <2>11, <2>12, <2>13 DEF Kept
<1>3. CASE \A e \in Events : ChainOf[e] = c => ~Write(e)
  <2>1. CASE file'[c] = f
    BY <1>1, <1>3, <2>1
  <2>2. CASE Verifies(f) /\ file'[c] = Append(f, Torn)
    <3>1. Good(file'[c]) = Good(f) /\ Good(f) = Len(f)
      BY <1>0, <2>2, TornSound
    <3>2. \A i \in 1 .. Good(f) : file'[c][i] = f[i]
      BY <1>0, <2>2, <3>1
    <3> QED BY <1>1, <1>3, <3>1, <3>2
  <2>3. file'[c] = f \/ (Verifies(f) /\ file'[c] = Append(f, Torn))
    BY <1>3, FileSteps DEF TypeOK
  <2> QED BY <2>1, <2>2, <2>3
<1> QED BY <1>2, <1>3

Recorded == ~Disturbed => \A c \in Chains : Kept(c)

\* INV-13, until somebody edits its files or a line whose write has failed is whole but for
\* its newline.
THEOREM LedgerRecords == Spec => []AcknowledgedIsRecorded
<1>1. Init => Recorded
  BY DEF Init, Recorded, Kept, Good, Verifies, Intact
<1>2. TypeOK /\ Calmed /\ Recorded /\ [Next]_vars => Recorded'
  BY KeptStep, DisturbedForGood DEF Calmed, Recorded
<1>3. ASSUME TypeOK, Calm, \A c \in Chains : Kept(c) PROVE AcknowledgedIsRecorded
  <2>1. ASSUME NEW e \in Events, stage[e] = "done"
        PROVE  \E i \in 1 .. VerifiedCount(file[ChainOf[e]]) :
                  \A j \in 1 .. VerifiedCount(file[ChainOf[e]]) : file[ChainOf[e]][j].body = e <=> i = j
    <3>1. ChainOf[e] \in Chains
      BY ChainsAssumption
    <3>2. VerifiedCount(file[ChainOf[e]]) = Good(file[ChainOf[e]])
      BY <1>3, <3>1, CountFacts DEF TypeOK, Calm
    <3>3. Kept(ChainOf[e])
      BY <1>3, <3>1
    <3> QED BY <2>1, <3>2, <3>3 DEF Kept
  <2> QED BY <2>1 DEF AcknowledgedIsRecorded
<1>4. TypeOK /\ Calmed /\ Recorded => AcknowledgedIsRecorded
  BY <1>3 DEF Calmed, Recorded, AcknowledgedIsRecorded
<1> QED BY CalmHolds, <1>1, <1>2, <1>4, PTL DEF Spec

(***************************************************************************)
(* Any file, edited or not: verifyChain's count is that of the lines       *)
(* before the first bad one, and nothing the ledger writes mends it.       *)
(***************************************************************************)
LEMMA LeastNat ==
    ASSUME NEW T \in SUBSET Nat, T # {}
    PROVE  \E n \in T : \A m \in T : n <= m
<1>1. PICK n \in T : \A m \in T : <<m, n>> \notin OpToRel(<, Nat)
  BY WFMin, NatLessThanWellFounded
<1>2. \A m \in T : ~(m < n)
  BY <1>1 DEF OpToRel
<1> QED BY <1>2

LEMMA AnyCount ==
    ASSUME NEW f \in Seq(Lines \cup {Torn})
    PROVE  /\ VerifiedCount(f) \in 0 .. Len(f) /\ Intact(f, VerifiedCount(f))
           /\ VerifiedCount(f) < Len(f) => ~LineOK(f, VerifiedCount(f) + 1)
<1> DEFINE P(n) == Intact(f, n) /\ (n < Len(f) => ~LineOK(f, n + 1))
           Bad == {i \in 1 .. Len(f) : ~LineOK(f, i)}
<1>1. Len(f) \in Nat /\ Bad \in SUBSET Nat
  OBVIOUS
<1>2. \E n \in 0 .. Len(f) : P(n)
  <2>1. CASE Bad = {}
    <3>1. P(Len(f)) /\ Len(f) \in 0 .. Len(f)
      BY <1>1, <2>1 DEF Intact
    <3> QED BY <3>1
  <2>2. CASE Bad # {}
    <3>1. PICK k \in Bad : \A m \in Bad : k <= m
      BY <1>1, <2>2, LeastNat
    <3>2. k - 1 \in 0 .. Len(f) /\ (k - 1) + 1 = k
      BY <1>1, <3>1
    <3>3. Intact(f, k - 1)
      <4>1. ASSUME NEW i \in 1 .. k - 1 PROVE LineOK(f, i)
        BY <1>1, <3>1, <4>1
      <4> QED BY <4>1 DEF Intact
    <3>4. P(k - 1)
      BY <3>1, <3>2, <3>3
    <3> QED BY <3>2, <3>4
  <2> QED BY <2>1, <2>2
<1>3. VerifiedCount(f) = CHOOSE n \in 0 .. Len(f) : P(n)
  BY DEF VerifiedCount
<1> HIDE DEF P
<1>4. VerifiedCount(f) \in 0 .. Len(f) /\ P(VerifiedCount(f))
  BY <1>2, <1>3
<1> QED BY <1>4 DEF P

\* A file with a bad line has it still after a line has landed behind it.
LEMMA LandsBroken ==
    ASSUME NEW c \in Chains, file[c] \in Seq(Lines \cup {Torn}), ~Verifies(file[c]),
           NEW line \in Lines \cup {Torn}
    PROVE  VerifiedCount(Land(c, line)) <= VerifiedCount(file[c])
<1> DEFINE f == file[c]
           g == Land(c, line)
           k == VerifiedCount(f) + 1
<1>1. Len(f) \in Nat /\ f \in Seq(Lines \cup {Torn})
  OBVIOUS
<1>2. k \in 1 .. Len(f) /\ ~LineOK(f, k)
  <2>1. VerifiedCount(f) # Len(f)
    BY <1>1, AnyCount DEF Verifies
  <2> QED BY <1>1, <2>1, AnyCount
<1>3. g \in Seq(Lines \cup {Torn})
  BY LandTyping
<1>4. ~LineOK(g, k) /\ Len(f) <= Len(g) /\ Len(g) \in Nat
  <2>1. CASE c \notin unterminated
    <3>1. g = Append(f, line)
      BY <2>1 DEF Land
    <3>2. \A i \in 1 .. Len(f) : g[i] = f[i]
      BY <1>1, <3>1
    <3>3. k # 1 => k - 1 \in 1 .. Len(f)
      BY <1>1, <1>2
    <3>4. LineOK(g, k) <=> LineOK(f, k)
      BY <1>2, <3>2, <3>3 DEF LineOK, PreviousHash
    <3>5. Len(g) = Len(f) + 1
      BY <1>1, <3>1
    <3> QED BY <1>1, <1>2, <3>4, <3>5
  <2>2. CASE c \in unterminated
    <3> DEFINE h == SubSeq(f, 1, Len(f) - 1)
    <3>1. g = Append(h, Torn)
      BY <2>2 DEF Land, Front
    <3>2. h \in Seq(Lines \cup {Torn}) /\ Len(h) = Len(f) - 1 /\ \A i \in 1 .. Len(f) - 1 : h[i] = f[i]
      BY <1>1, <1>2
    <3> HIDE DEF h
    <3>3. /\ Len(g) = Len(f) /\ g[Len(f)] = Torn
          /\ \A i \in 1 .. Len(f) - 1 : g[i] = f[i]
      BY <1>1, <1>2, <3>1, <3>2
    <3>4. CASE k = Len(f)
      BY <1>1, <3>3, <3>4 DEF LineOK
    <3>5. CASE k # Len(f)
      <4>1. k \in 1 .. Len(f) - 1 /\ (k # 1 => k - 1 \in 1 .. Len(f) - 1)
        BY <1>1, <1>2, <3>5
      <4>2. LineOK(g, k) <=> LineOK(f, k)
        BY <3>3, <4>1 DEF LineOK, PreviousHash
      <4> QED BY <1>1, <1>2, <3>3, <4>2
    <3> QED BY <3>4, <3>5
  <2> QED BY <2>1, <2>2
<1>5. ASSUME ~(VerifiedCount(g) <= VerifiedCount(f)) PROVE FALSE
  <2>1. VerifiedCount(g) \in 0 .. Len(g) /\ VerifiedCount(f) \in 0 .. Len(f) /\ Intact(g, VerifiedCount(g))
    BY <1>3, AnyCount
  <2>2. k \in 1 .. VerifiedCount(g)
    BY <1>1, <1>4, <1>5, <2>1
  <2>3. LineOK(g, k)
    BY <2>1, <2>2 DEF Intact
  <2> QED BY <1>4, <2>3
<1> QED BY <1>5

LEMMA BrokenStep ==
    ASSUME TypeOK, [Next]_vars, edits' = edits, NEW c \in Chains, ~Verifies(file[c])
    PROVE  VerifiedCount(file[c])' <= VerifiedCount(file[c])
<1>1. file[c] \in Seq(Lines \cup {Torn}) /\ VerifiedCount(file[c]) \in Nat
  <2>1. file[c] \in Seq(Lines \cup {Torn}) /\ Len(file[c]) \in Nat
    BY DEF TypeOK
  <2> QED BY <2>1, AnyCount
<1>2. CASE file'[c] = file[c]
  BY <1>1, <1>2
<1>3. ASSUME NEW d \in Chains, NEW line \in Lines \cup {Torn}, file' = [file EXCEPT ![d] = Land(d, line)]
      PROVE  VerifiedCount(file[c])' <= VerifiedCount(file[c])
  <2>1. CASE d = c
    <3>1. file'[c] = Land(c, line)
      BY <1>3, <2>1 DEF TypeOK
    <3> QED BY <1>1, <3>1, LandsBroken
  <2>2. CASE d # c
    BY <1>2, <1>3, <2>2 DEF TypeOK
  <2> QED BY <2>1, <2>2
<1>4. ASSUME NEW e \in Events PROVE Record(e) \in Lines /\ ChainOf[e] \in Chains
  BY RecordTyping, ChainsAssumption DEF TypeOK
<1>5. ASSUME NEW e \in Events, Write(e) PROVE VerifiedCount(file[c])' <= VerifiedCount(file[c])
  BY <1>3, <1>4, <1>5 DEF Write
<1>6. ASSUME NEW e \in Events, WriteFails(e) PROVE VerifiedCount(file[c])' <= VerifiedCount(file[c])
  <2>1. \/ UNCHANGED file
        \/ file' = [file EXCEPT ![ChainOf[e]] = Land(ChainOf[e], Torn)]
        \/ file' = [file EXCEPT ![ChainOf[e]] = Land(ChainOf[e], Record(e))]
    BY <1>6 DEF WriteFails
  <2> QED BY <1>2, <1>3, <1>4, <2>1
<1>7. ASSUME NEW d \in Chains, Edit(d) PROVE FALSE
  BY <1>7 DEF Edit, TypeOK
<1>8. ASSUME NEW e \in Events, Request(e) \/ Verify(e) \/ LoadHead(e) PROVE file'[c] = file[c]
  BY <1>8 DEF Request, Verify, LoadHead
<1>9. ASSUME Crash \/ UNCHANGED vars PROVE file'[c] = file[c]
  BY <1>9 DEF Crash
<1> QED BY <1>2, <1>5, <1>6, <1>7, <1>8, <1>9 DEF Next, Step

\* INV-13/HC-7: whenever the file was changed under an append, what the ledger writes to
\* a broken chain leaves it broken, at the same line or before.
THEOREM LedgerStaysBroken == Spec => BrokenStaysBroken
<1>1. ASSUME TypeOK, [Next]_vars
      PROVE  edits' = edits => \A c \in Chains : ~Verifies(file[c]) =>
                 VerifiedCount(file[c])' <= VerifiedCount(file[c])
  BY <1>1, BrokenStep
<1> QED BY <1>1, LedgerTypeCorrect, PTL DEF Spec, BrokenStaysBroken

(***************************************************************************)
(* Order.  A chain's queue is in the order of the requests, and every line *)
(* written for it hangs on an earlier line written for it, whatever the    *)
(* file contained when its head was read: an edit moves hashes within one  *)
(* file, and a hash leads to the one line that was written with it.        *)
(***************************************************************************)
WasAsked(s, d) == \E p \in DOMAIN s : s[p] = d
Before(s, d, e) == \E p, q \in DOMAIN s : p < q /\ s[p] = d /\ s[q] = e

\* The hashes written for a chain, and the lines that bear one of them.
Marks(c) == {m.eventHash : m \in {l \in issued : ChainOf[l.body] = c}}
Bears(c) == {l \in Lines \cup {Torn} : l # Torn => l.eventHash \in Marks(c)}

AskedOnce ==
    /\ \A p, q \in DOMAIN asked : asked[p] = asked[q] => p = q
    /\ \A p \in DOMAIN asked : stage[asked[p]] # "new"

\* In queue q of chain c, what is at place i is due, and was asked before what follows.
Due(c, q, i, standing, s) ==
    /\ standing[q[i]] \in Pending
    /\ ChainOf[q[i]] = c
    /\ WasAsked(s, q[i])
    /\ \A j \in DOMAIN q : i < j => Before(s, q[i], q[j])

Turns ==
    \A c \in Chains : \A i \in DOMAIN queue[c] : Due(c, queue[c], i, stage, asked)

Hangs(l) ==
    \/ l.previousHash = Genesis
    \/ \E m \in issued : /\ m.eventHash = l.previousHash
                         /\ Before(asked, m.body, l.body)

Issues ==
    \A l \in issued :
        /\ WasAsked(asked, l.body)
        /\ Hangs(l)
        /\ \A i \in DOMAIN queue[ChainOf[l.body]] :
               Before(asked, l.body, queue[ChainOf[l.body]][i])

Files == \A c \in Chains : file[c] \in Seq(Bears(c))

HeadsKnown ==
    \A e \in Events :
        stage[e] = "headed" =>
            head[e].eventHash = Genesis \/ head[e].eventHash \in Marks(ChainOf[e])

OrderInv == AskedOnce /\ Turns /\ Issues /\ Files /\ HeadsKnown

\* One more request leaves the others in their order, and comes after them.
LEMMA BeforeGrows ==
    ASSUME TypeOK, NEW e \in Events, asked' = Append(asked, e)
    PROVE  /\ \A a, b : Before(asked, a, b) => Before(asked', a, b)
           /\ \A a : WasAsked(asked, a) => WasAsked(asked', a) /\ Before(asked', a, e)
           /\ WasAsked(asked', e)
<1>1. /\ asked \in Seq(Events) /\ Len(asked) \in Nat
      /\ DOMAIN asked = 1 .. Len(asked)
      /\ DOMAIN asked' = 1 .. Len(asked) + 1
      /\ \A p \in DOMAIN asked : asked'[p] = asked[p]
      /\ asked'[Len(asked) + 1] = e
  BY DEF TypeOK
<1>2. ASSUME NEW a, NEW b, Before(asked, a, b) PROVE Before(asked', a, b)
  <2>1. PICK p, q \in DOMAIN asked : p < q /\ asked[p] = a /\ asked[q] = b
    BY <1>2 DEF Before
  <2>2. p \in DOMAIN asked' /\ q \in DOMAIN asked' /\ asked'[p] = a /\ asked'[q] = b
    BY <1>1, <2>1
  <2> QED BY <2>1, <2>2 DEF Before
<1>3. ASSUME NEW a, WasAsked(asked, a) PROVE WasAsked(asked', a) /\ Before(asked', a, e)
  <2>1. PICK p \in DOMAIN asked : asked[p] = a
    BY <1>3 DEF WasAsked
  <2>2. /\ p \in DOMAIN asked' /\ asked'[p] = a
        /\ Len(asked) + 1 \in DOMAIN asked' /\ p < Len(asked) + 1
    BY <1>1, <2>1
  <2> QED BY <1>1, <2>2 DEF WasAsked, Before
<1>4. WasAsked(asked', e)
  <2>1. Len(asked) + 1 \in DOMAIN asked'
    BY <1>1
  <2> QED BY <1>1, <2>1 DEF WasAsked
<1> QED BY <1>2, <1>3, <1>4

\* What is left of a queue when its first is answered.
LEMMA TailFacts ==
    ASSUME NEW q \in Seq(Events), q # << >>, NEW i \in DOMAIN Tail(q)
    PROVE  /\ i \in Nat /\ i + 1 \in DOMAIN q /\ 1 < i + 1
           /\ Tail(q)[i] = q[i + 1]
           /\ 1 \in DOMAIN q /\ q[1] = Head(q)
  OBVIOUS

\* The ways a step may treat the queues: a request joins, the first of a queue goes
\* on or leaves, a crash empties them, or nothing happens.
LEMMA QueueSteps ==
    ASSUME Next
    PROVE  \/ \E e \in Events : Request(e)
           \/ /\ asked' = asked
              /\ \E e \in Events :
                    /\ queue[ChainOf[e]] # << >> /\ Head(queue[ChainOf[e]]) = e
                    /\ \E s \in Stages \ {"new"} :
                           /\ stage' = [stage EXCEPT ![e] = s]
                           /\ (queue' = queue /\ s \in Pending) \/ (Dequeue(e) /\ s \notin Pending)
           \/ Crash
           \/ UNCHANGED <<queue, stage, asked>>
<1> USE DEF Stages, Pending, InProgress
<1>1. ASSUME NEW e \in Events, Verify(e) \/ LoadHead(e) \/ Write(e) \/ WriteFails(e)
      PROVE  /\ asked' = asked
             /\ queue[ChainOf[e]] # << >> /\ Head(queue[ChainOf[e]]) = e
             /\ \E s \in Stages \ {"new"} :
                           /\ stage' = [stage EXCEPT ![e] = s]
                           /\ (queue' = queue /\ s \in Pending) \/ (Dequeue(e) /\ s \notin Pending)
  BY <1>1 DEF Verify, LoadHead, Write, WriteFails, At, Reject, SkipRejected
<1>2. ASSUME NEW c \in Chains, Edit(c) PROVE UNCHANGED <<queue, stage, asked>>
  BY <1>2 DEF Edit
<1>3. CASE \E e \in Events : Request(e) \/ Step(e) \/ WriteFails(e)
  <2> PICK e \in Events : Request(e) \/ Step(e) \/ WriteFails(e)
    BY <1>3
  <2>1. CASE Request(e)
    BY <2>1
  <2>2. CASE Verify(e) \/ LoadHead(e) \/ Write(e) \/ WriteFails(e)
    BY <1>1, <2>2
  <2> QED BY <2>1, <2>2 DEF Step
<1> QED BY <1>2, <1>3 DEF Next

\* Nobody asks twice.
LEMMA AskedOnceStep ==
    ASSUME TypeOK, AskedOnce, Next
    PROVE  AskedOnce'
<1>1. ASSUME NEW e \in Events, Request(e) PROVE AskedOnce'
  <2>1. /\ asked' = Append(asked, e) /\ stage[e] = "new"
        /\ stage' = [stage EXCEPT ![e] = "queued"]
    BY <1>1 DEF Request
  <2>2. /\ asked \in Seq(Events) /\ stage \in [Events -> Stages]
        /\ \A p \in DOMAIN asked : asked[p] # e /\ asked[p] \in Events
    BY <2>1 DEF TypeOK, AskedOnce
  <2> QED BY <2>1, <2>2 DEF AskedOnce
<1>2. ASSUME NEW e \in Events, NEW s \in Stages \ {"new"}, asked' = asked,
             stage' = [stage EXCEPT ![e] = s]
      PROVE  AskedOnce'
  BY <1>2 DEF AskedOnce, TypeOK
<1>3. CASE Crash
  <2>1. /\ asked' = asked /\ \A p \in DOMAIN asked : asked[p] \in Events
        /\ \A e \in Events : stage[e] # "new" => stage'[e] # "new"
    BY <1>3 DEF Crash, TypeOK
  <2> QED BY <2>1 DEF AskedOnce
<1>4. CASE UNCHANGED <<queue, stage, asked>>
  BY <1>4 DEF AskedOnce
<1> QED BY <1>1, <1>2, <1>3, <1>4, QueueSteps

\* A queue stays in the order of the requests.
LEMMA TurnsStep ==
    ASSUME TypeOK, AskedOnce, Turns, Next
    PROVE  Turns'
<1> SUFFICES ASSUME NEW c \in Chains, NEW i \in DOMAIN queue'[c]
             PROVE  Due(c, queue'[c], i, stage', asked')
  BY DEF Turns
<1> USE DEF Due
<1>t. queue \in [Chains -> Seq(Events)] /\ stage \in [Events -> Stages]
  BY DEF TypeOK
<1>s. \A k \in DOMAIN queue[c] : queue[c][k] \in Events
  BY <1>t
<1>1. ASSUME NEW e \in Events, Request(e)
      PROVE  Due(c, queue'[c], i, stage', asked')
  <2>1. /\ asked' = Append(asked, e)
        /\ queue' = [queue EXCEPT ![ChainOf[e]] = Append(@, e)]
        /\ stage' = [stage EXCEPT ![e] = "queued"] /\ stage[e] = "new"
    BY <1>1 DEF Request
  <2>2. CASE ChainOf[e] # c
    <3>1. queue'[c] = queue[c]
      BY <1>t, <2>1, <2>2
    <3>2. queue[c][i] # e
      BY <2>2, <3>1 DEF Turns
    <3>3. stage'[queue[c][i]] = stage[queue[c][i]]
      BY <1>s, <1>t, <2>1, <3>1, <3>2
    <3> QED BY <2>1, <3>1, <3>3, BeforeGrows DEF Turns
  <2>3. CASE ChainOf[e] = c
    <3> DEFINE q == queue[c]
    <3>1. /\ q \in Seq(Events) /\ Len(q) \in Nat /\ DOMAIN q = 1 .. Len(q)
          /\ queue'[c] = Append(q, e)
      BY <1>t, <2>1, <2>3
    <3>2. /\ DOMAIN queue'[c] = 1 .. Len(q) + 1
          /\ \A k \in DOMAIN q : queue'[c][k] = q[k]
          /\ queue'[c][Len(q) + 1] = e
      BY <3>1
    <3>3. ASSUME NEW k \in DOMAIN q
          PROVE  /\ stage'[q[k]] \in Pending /\ ChainOf[q[k]] = c
                 /\ WasAsked(asked, q[k]) /\ \A j \in DOMAIN q : k < j => Before(asked, q[k], q[j])
      <4>1. stage[q[k]] \in Pending
        BY DEF Turns
      <4>2. stage'[q[k]] \in Pending
        BY <1>s, <1>t, <2>1, <4>1 DEF Pending
      <4> QED BY <4>2 DEF Turns
    <3>4. stage'[e] \in Pending
      BY <1>t, <2>1 DEF Pending
    <3> HIDE DEF q
    <3>5. CASE i = Len(q) + 1
      <4>1. \A j \in DOMAIN queue'[c] : ~(i < j)
        BY <3>1, <3>2, <3>5
      <4> QED BY <2>1, <2>3, <3>2, <3>4, <3>5, <4>1, BeforeGrows
    <3>6. CASE i # Len(q) + 1
      <4>1. i \in DOMAIN q
        BY <3>1, <3>2, <3>6
      <4>2. ASSUME NEW j \in DOMAIN queue'[c], i < j
            PROVE  Before(asked', q[i], queue'[c][j])
        <5>1. CASE j \in DOMAIN q
          <6>1. Before(asked, q[i], q[j])
            BY <3>3, <4>1, <4>2, <5>1
          <6> QED BY <2>1, <3>2, <5>1, <6>1, BeforeGrows
        <5>2. CASE j = Len(q) + 1
          <6>1. WasAsked(asked, q[i])
            BY <3>3, <4>1
          <6> QED BY <2>1, <3>2, <5>2, <6>1, BeforeGrows
        <5> QED BY <3>1, <3>2, <5>1, <5>2
      <4> QED BY <2>1, <3>2, <3>3, <4>1, <4>2, BeforeGrows
    <3> QED BY <3>5, <3>6
  <2> QED BY <2>2, <2>3
<1>2. ASSUME NEW e \in Events, NEW s \in Stages \ {"new"},
             asked' = asked, stage' = [stage EXCEPT ![e] = s],
             queue[ChainOf[e]] # << >>, Head(queue[ChainOf[e]]) = e
      PROVE  /\ queue' = queue /\ s \in Pending => Due(c, queue'[c], i, stage', asked')
             /\ Dequeue(e) => Due(c, queue'[c], i, stage', asked')
  <2>1. ASSUME NEW k \in DOMAIN queue[c], queue[c][k] # e \/ s \in Pending
        PROVE  stage'[queue[c][k]] \in Pending
    BY <1>s, <1>t, <1>2, <2>1 DEF Turns
  <2>2. ASSUME queue' = queue, s \in Pending
        PROVE  Due(c, queue'[c], i, stage', asked')
    <3>1. i \in DOMAIN queue[c] /\ Due(c, queue[c], i, stage, asked)
      BY <2>2 DEF Turns
    <3>2. stage'[queue[c][i]] \in Pending
      BY <2>1, <2>2, <3>1
    <3> QED BY <1>2, <2>2, <3>1, <3>2
  <2>3. ASSUME Dequeue(e), ChainOf[e] # c
        PROVE  Due(c, queue'[c], i, stage', asked')
    <3>1. queue'[c] = queue[c]
      BY <1>t, <2>3 DEF Dequeue
    <3>2. i \in DOMAIN queue[c] /\ Due(c, queue[c], i, stage, asked)
      BY <3>1 DEF Turns
    <3>3. stage'[queue[c][i]] \in Pending
      BY <2>1, <2>3, <3>2
    <3> QED BY <1>2, <3>1, <3>2, <3>3
  <2>4. ASSUME Dequeue(e), ChainOf[e] = c
        PROVE  Due(c, queue'[c], i, stage', asked')
    <3> DEFINE q == queue[c]
    <3>1. queue'[c] = Tail(q) /\ q \in Seq(Events) /\ q # << >> /\ Head(q) = e
      BY <1>t, <1>2, <2>4 DEF Dequeue
    <3> HIDE DEF q
    <3>2. ASSUME NEW k \in DOMAIN Tail(q)
          PROVE  /\ k \in Nat /\ k + 1 \in DOMAIN q /\ 1 < k + 1 /\ Tail(q)[k] = q[k + 1]
                 /\ 1 \in DOMAIN q /\ q[1] = e
      BY <3>1, <3>2, TailFacts
    <3>3. \A k \in DOMAIN q : Due(c, q, k, stage, asked)
      BY DEF Turns, q
    <3>4. i \in DOMAIN Tail(q)
      BY <3>1
    <3>5. Before(asked, e, q[i + 1])
      BY <3>2, <3>3, <3>4
    <3>6. q[i + 1] # e
      BY <3>5, <1>t DEF AskedOnce, Before, TypeOK
    <3>7. stage'[q[i + 1]] \in Pending
      BY <2>1, <3>2, <3>4, <3>6 DEF q
    <3>8. ASSUME NEW j \in DOMAIN Tail(q), i < j
          PROVE  Before(asked', Tail(q)[i], Tail(q)[j])
      <4>1. i + 1 \in DOMAIN q /\ j + 1 \in DOMAIN q /\ i + 1 < j + 1
        BY <3>2, <3>4, <3>8
      <4> QED BY <1>2, <3>2, <3>3, <3>4, <3>8, <4>1
    <3> QED BY <1>2, <3>1, <3>2, <3>3, <3>4, <3>7, <3>8
  <2> QED BY <2>2, <2>3, <2>4
<1>3. CASE Crash
  BY <1>3 DEF Crash
<1>4. ASSUME UNCHANGED <<queue, stage, asked>>
      PROVE  Due(c, queue'[c], i, stage', asked')
  BY <1>4 DEF Turns
<1> QED BY <1>1, <1>2, <1>3, <1>4, QueueSteps

\* What a step writes: nothing, or the record of the first in its chain's queue, with
\* the head that append has loaded, which then leaves the queue.
LEMMA IssueSteps ==
    ASSUME Next
    PROVE  \/ issued' = issued
           \/ \E e \in Events :
                 /\ At(e, "headed") /\ Dequeue(e) /\ asked' = asked
                 /\ issued' = issued \cup {Record(e)}
<1>1. ASSUME NEW e \in Events, Request(e) \/ Verify(e) \/ LoadHead(e)
      PROVE  issued' = issued
  BY <1>1 DEF Request, Verify, LoadHead
<1>2. ASSUME NEW e \in Events, Write(e) \/ WriteFails(e)
      PROVE  \/ issued' = issued
             \/ /\ At(e, "headed") /\ Dequeue(e) /\ asked' = asked
                /\ issued' = issued \cup {Record(e)}
  BY <1>2 DEF Write, WriteFails, Reject, SkipRejected
<1>3. (\E c \in Chains : Edit(c)) \/ Crash => issued' = issued
  BY DEF Edit, Crash
<1> QED BY <1>1, <1>2, <1>3 DEF Next, Step

\* Whoever is left in a queue comes after those whose lines are written.
LEMMA BehindStep ==
    ASSUME TypeOK, Next, NEW d \in Events, NEW c \in Chains,
           WasAsked(asked, d), \A i \in DOMAIN queue[c] : Before(asked, d, queue[c][i])
    PROVE  /\ WasAsked(asked', d)
           /\ \A i \in DOMAIN queue'[c] : Before(asked', d, queue'[c][i])
<1>t. queue \in [Chains -> Seq(Events)] /\ queue[c] \in Seq(Events)
  BY DEF TypeOK
<1>1. ASSUME NEW e \in Events, Request(e)
      PROVE  /\ WasAsked(asked', d)
             /\ \A i \in DOMAIN queue'[c] : Before(asked', d, queue'[c][i])
  <2>1. /\ asked' = Append(asked, e)
        /\ queue' = [queue EXCEPT ![ChainOf[e]] = Append(@, e)]
    BY <1>1 DEF Request
  <2>2. \A i \in DOMAIN queue'[c] : \/ i \in DOMAIN queue[c] /\ queue'[c][i] = queue[c][i]
                                    \/ queue'[c][i] = e
    BY <1>t, <2>1
  <2>3. WasAsked(asked', d) /\ Before(asked', d, e)
    BY <2>1, BeforeGrows
  <2> QED BY <2>1, <2>2, <2>3, BeforeGrows
<1>2. ASSUME NEW e \in Events, asked' = asked, queue' = queue \/ Dequeue(e),
             queue[ChainOf[e]] # << >>
      PROVE  /\ WasAsked(asked', d)
             /\ \A i \in DOMAIN queue'[c] : Before(asked', d, queue'[c][i])
  <2>1. CASE queue' = queue \/ ChainOf[e] # c
    <3>1. queue'[c] = queue[c]
      BY <1>t, <1>2, <2>1 DEF Dequeue
    <3> QED BY <1>2, <3>1
  <2>2. CASE Dequeue(e) /\ ChainOf[e] = c
    <3>1. queue'[c] = Tail(queue[c]) /\ queue[c] # << >>
      BY <1>t, <1>2, <2>2 DEF Dequeue
    <3>2. ASSUME NEW i \in DOMAIN queue'[c]
          PROVE  i + 1 \in DOMAIN queue[c] /\ queue'[c][i] = queue[c][i + 1]
      BY <1>t, <3>1, TailFacts
    <3> QED BY <1>2, <3>2
  <2> QED BY <1>2, <2>1, <2>2
<1>3. CASE Crash
  BY <1>3 DEF Crash
<1>4. CASE UNCHANGED <<queue, stage, asked>>
  BY <1>4
<1> QED BY <1>1, <1>2, <1>3, <1>4, QueueSteps

\* Every line written hangs on one that was written for an earlier request.
LEMMA IssuesStep ==
    ASSUME TypeOK, Turns, Issues, HeadsKnown, Next
    PROVE  Issues'
<1> SUFFICES ASSUME NEW l \in issued'
             PROVE  /\ WasAsked(asked', l.body)
                    /\ Hangs(l)'
                    /\ \A i \in DOMAIN queue'[ChainOf[l.body]] :
                           Before(asked', l.body, queue'[ChainOf[l.body]][i])
  BY DEF Issues
<1>g. /\ \A a, b : Before(asked, a, b) => Before(asked', a, b)
      /\ issued \subseteq issued'
  <2>1. (\E e \in Events : asked' = Append(asked, e)) \/ asked' = asked
    BY QueueSteps DEF Request, Crash
  <2>2. \A a, b : Before(asked, a, b) => Before(asked', a, b)
    BY <2>1, BeforeGrows
  <2> QED BY <2>2, IssueSteps
<1>1. CASE l \in issued
  <2>1. l.body \in Events /\ ChainOf[l.body] \in Chains
    BY <1>1, ChainsAssumption DEF TypeOK, Lines
  <2>2. Hangs(l)'
    BY <1>1, <1>g DEF Issues, Hangs
  <2> QED BY <1>1, <2>1, <2>2, BehindStep DEF Issues
<1>2. CASE l \notin issued
  <2>1. PICK e \in Events : /\ At(e, "headed") /\ Dequeue(e) /\ asked' = asked
                            /\ issued' = issued \cup {Record(e)}
    BY <1>2, IssueSteps
  <2> DEFINE c == ChainOf[e]
             q == queue[c]
  <2>2. l = Record(e) /\ l.body = e /\ l.previousHash = head[e].eventHash
    BY <1>2, <2>1 DEF Record
  <2>3. /\ c \in Chains /\ q \in Seq(Events) /\ q # << >> /\ Head(q) = e
        /\ 1 \in DOMAIN q /\ q[1] = e
    BY <2>1, ChainsAssumption DEF TypeOK, At
  <2>4. Due(c, q, 1, stage, asked)
    BY <2>3 DEF Turns
  <2>5. ASSUME NEW i \in DOMAIN queue'[c]
        PROVE  Before(asked', e, queue'[c][i])
    <3>1. queue'[c] = Tail(q)
      BY <2>1, <2>3 DEF Dequeue, TypeOK
    <3>2. i + 1 \in DOMAIN q /\ 1 < i + 1 /\ queue'[c][i] = q[i + 1]
      BY <2>3, <3>1, TailFacts
    <3> QED BY <2>1, <2>3, <2>4, <3>2 DEF Due
  <2>6. Hangs(l)'
    <3>1. CASE head[e].eventHash = Genesis
      BY <2>2, <3>1 DEF Hangs
    <3>2. CASE head[e].eventHash # Genesis
      <4>1. PICK m \in issued : ChainOf[m.body] = c /\ m.eventHash = head[e].eventHash
        BY <2>1, <3>2 DEF HeadsKnown, Marks, At
      <4>2. Before(asked, m.body, e)
        BY <2>3, <4>1 DEF Issues
      <4>3. m \in issued' /\ m.eventHash = l.previousHash /\ Before(asked', m.body, l.body)
        BY <1>g, <2>2, <4>1, <4>2
      <4> QED BY <4>3 DEF Hangs
    <3> QED BY <3>1, <3>2
  <2>7. WasAsked(asked', e)
    BY <2>1, <2>3, <2>4 DEF Due
  <2> QED BY <2>2, <2>5, <2>6, <2>7
<1> QED BY <1>1, <1>2

\* A file's lines bear the hashes of the lines written for it.
LEMMA FilesStep ==
    ASSUME TypeOK, Files, Next
    PROVE  Files'
<1>g. ASSUME NEW c \in Chains
      PROVE  /\ Bears(c) \subseteq Bears(c)' /\ file[c] \in Seq(Bears(c)')
             /\ Torn \in Bears(c)'
  <2>1. issued \subseteq issued'
    BY IssueSteps
  <2>2. Bears(c) \subseteq Bears(c)' /\ Torn \in Bears(c)'
    BY <2>1 DEF Bears, Marks
  <2> QED BY <2>2, SeqMonotonic DEF Files
<1>1. ASSUME UNCHANGED file PROVE Files'
  BY <1>1, <1>g DEF Files
<1>2. ASSUME NEW e \in Events, NEW line,
             file' = [file EXCEPT ![ChainOf[e]] = Land(ChainOf[e], line)],
             line = Torn \/ (line = Record(e) /\ line \in issued')
      PROVE  Files'
  <2>1. ChainOf[e] \in Chains /\ head[e] \in Heads
    BY ChainsAssumption DEF TypeOK
  <2>2. Record(e) \in Lines /\ Record(e).body = e
    BY <2>1, RecordTyping DEF Record
  <2>3. line \in Bears(ChainOf[e])'
    BY <1>2, <1>g, <2>1, <2>2 DEF Bears, Marks
  <2>4. Land(ChainOf[e], line) \in Seq(Bears(ChainOf[e])')
    BY <1>g, <2>1, <2>3, LandTyping
  <2>5. ASSUME NEW c \in Chains PROVE file'[c] \in Seq(Bears(c)')
    BY <1>2, <1>g, <2>1, <2>4 DEF TypeOK
  <2> QED BY <2>5 DEF Files
<1>3. ASSUME NEW e \in Events, Write(e) PROVE Files'
  BY <1>2, <1>3 DEF Write
<1>4. ASSUME NEW e \in Events, WriteFails(e) PROVE Files'
  <2>1. CASE UNCHANGED disk
    BY <1>1, <2>1
  <2>2. CASE file' = [file EXCEPT ![ChainOf[e]] = Land(ChainOf[e], Torn)]
    BY <1>2, <2>2
  <2>3. CASE /\ file' = [file EXCEPT ![ChainOf[e]] = Land(ChainOf[e], Record(e))]
             /\ issued' = issued \cup {Record(e)}
    BY <1>2, <2>3
  <2> QED BY <1>4, <2>1, <2>2, <2>3 DEF WriteFails
<1>5. ASSUME NEW c \in Chains, Edit(c) PROVE Files'
  <2>1. PICK f \in Removed(file[c]) \cup Inserted(file[c]) \cup Swapped(file[c])
                   \cup Altered(file[c]) : file' = [file EXCEPT ![c] = f]
    BY <1>5 DEF Edit
  <2>2. file[c] \in Seq(Bears(c)) /\ Bears(c) \in SUBSET (Lines \cup {Torn})
    BY DEF Files, Bears
  <2>3. \A l \in Bears(c) \ {Torn} : \A m \in Lines :
            m.eventHash = l.eventHash => m \in Bears(c)
    BY DEF Bears
  <2>4. f \in Seq(Bears(c))
    BY <2>1, <2>2, <2>3, EditTyping
  <2>5. f \in Seq(Bears(c)')
    BY <1>g, <2>4, SeqMonotonic
  <2>6. ASSUME NEW d \in Chains PROVE file'[d] \in Seq(Bears(d)')
    BY <1>g, <2>1, <2>5 DEF TypeOK
  <2> QED BY <2>6 DEF Files
<1>6. ASSUME NEW e \in Events, Request(e) \/ Verify(e) \/ LoadHead(e) PROVE Files'
  BY <1>1, <1>6 DEF Request, Verify, LoadHead
<1>7. ASSUME Crash PROVE Files'
  BY <1>1, <1>7 DEF Crash
<1> QED BY <1>3, <1>4, <1>5, <1>6, <1>7 DEF Next, Step

\* Whatever file a head is loaded from, its hash is one of its chain's.
LEMMA HeadsStep ==
    ASSUME TypeOK, Files, HeadsKnown, Next
    PROVE  HeadsKnown'
<1> SUFFICES ASSUME NEW e \in Events, stage'[e] = "headed"
             PROVE  head'[e].eventHash = Genesis \/ head'[e].eventHash \in Marks(ChainOf[e])'
  BY DEF HeadsKnown
<1>g. Marks(ChainOf[e]) \subseteq Marks(ChainOf[e])'
  BY IssueSteps DEF Marks
<1>1. CASE stage[e] = "headed" /\ head'[e] = head[e]
  BY <1>1, <1>g DEF HeadsKnown
<1>2. ASSUME NEW d \in Events, Verify(d)
      PROVE  \/ stage[e] = "headed" /\ head'[e] = head[e]
             \/ head'[e].eventHash = Genesis
  BY <1>2 DEF Verify, Reject, GenesisHead, TypeOK
<1>3. ASSUME NEW d \in Events, LoadHead(d)
      PROVE  \/ stage[e] = "headed" /\ head'[e] = head[e]
             \/ head'[e].eventHash \in Marks(ChainOf[e])
  <2>1. CASE d # e
    BY <1>3, <2>1 DEF LoadHead, Reject, TypeOK
  <2>2. CASE d = e
    <3> DEFINE f == file[ChainOf[e]]
    <3>1. stage[e] = "verified" /\ ~NoHead(f) /\ head' = [head EXCEPT ![e] = HeadFrom(f[Len(f)])]
      BY <1>3, <2>2 DEF LoadHead, Reject, At, TypeOK
    <3>2. ChainOf[e] \in Chains /\ f \in Seq(Bears(ChainOf[e])) /\ f # << >> /\ f[Len(f)] # Torn
      BY <3>1, ChainsAssumption DEF NoHead, Files
    <3>3. f[Len(f)] \in Bears(ChainOf[e])
      BY <3>2, ElementOfSeq, EmptySeq
    <3>4. f[Len(f)].eventHash \in Marks(ChainOf[e])
      BY <3>2, <3>3 DEF Bears
    <3>5. head'[e].eventHash = f[Len(f)].eventHash
      BY <3>1 DEF HeadFrom, TypeOK
    <3> QED BY <3>4, <3>5
  <2> QED BY <2>1, <2>2
<1>4. ASSUME NEW d \in Events, Request(d) \/ Write(d) \/ WriteFails(d)
      PROVE  stage[e] = "headed" /\ head'[e] = head[e]
  BY <1>4 DEF Request, Write, WriteFails, Reject, TypeOK
<1>5. ASSUME Crash \/ \E c \in Chains : Edit(c)
      PROVE  stage[e] = "headed" /\ head'[e] = head[e]
  BY <1>5 DEF Crash, Edit, Pending, TypeOK
<1> QED BY <1>1, <1>2, <1>3, <1>4, <1>5, <1>g DEF Next, Step

\* The parts above make one inductive invariant.
LEMMA OrderStep == TypeOK /\ OrderInv /\ [Next]_vars => OrderInv'
<1> SUFFICES ASSUME TypeOK, OrderInv, [Next]_vars PROVE OrderInv'
  OBVIOUS
<1>1. CASE Next
  BY <1>1, AskedOnceStep, TurnsStep, IssuesStep, FilesStep, HeadsStep DEF OrderInv
<1>2. CASE UNCHANGED vars
  BY <1>2 DEF OrderInv, AskedOnce, Turns, Due, Issues, Hangs, Files, Bears, Marks, HeadsKnown
<1> QED BY <1>1, <1>2

\* In a part that verifies, a line comes after the one it is chained to.
LEMMA Adjacent ==
    ASSUME TypeOK, GenuineInv, OrderInv, NEW c \in Chains, NEW n \in 1 .. Len(file[c]),
           n # 1, Intact(file[c], n)
    PROVE  Before(asked, file[c][n - 1].body, file[c][n].body)
<1> DEFINE l == file[c][n]
           k == file[c][n - 1]
<1>0. file[c] \in Seq(Lines \cup {Torn}) /\ Len(file[c]) \in Nat
  BY DEF TypeOK
<1>1. /\ n - 1 \in 1 .. Len(file[c]) /\ n - 1 \in 1 .. n
      /\ LineOK(file[c], n) /\ LineOK(file[c], n - 1)
  BY <1>0 DEF Intact
<1>2. l \in issued /\ k \in issued
  BY <1>1, GenuineLine
<1>3. l.previousHash = k.eventHash
  BY <1>1 DEF LineOK, PreviousHash
<1>4. k \in Lines /\ OwnHash(k)
  BY <1>2 DEF TypeOK, GenuineInv
<1>5. k.eventHash # Genesis
  <2>1. k.previousHash \in Seq(Nat \X Events) /\ <<k.sequence, k.body>> \in Nat \X Events
    BY <1>4 DEF Lines, Hashes
  <2>2. ASSUME NEW S, NEW h \in Seq(S), NEW x \in S PROVE Append(h, x) # << >>
    OBVIOUS
  <2>3. Append(k.previousHash, <<k.sequence, k.body>>) # << >>
    BY <2>1, <2>2
  <2> QED BY <1>4, <2>3 DEF OwnHash, Hash, Genesis
<1>6. PICK m \in issued : m.eventHash = k.eventHash /\ Before(asked, m.body, l.body)
  BY <1>2, <1>3, <1>5 DEF OrderInv, Issues, Hangs
<1>7. m \in Lines /\ OwnHash(m)
  BY DEF TypeOK, GenuineInv
<1>8. m.body = k.body
  <2>1. /\ k.previousHash \in Hashes /\ k.sequence \in Nat /\ k.body \in Events
        /\ m.previousHash \in Hashes /\ m.sequence \in Nat /\ m.body \in Events
    BY <1>4, <1>7 DEF Lines
  <2>2. Hash(k.previousHash, k.sequence, k.body) = Hash(m.previousHash, m.sequence, m.body)
    BY <1>4, <1>6, <1>7 DEF OwnHash
  <2> QED BY <2>1, <2>2, HashInjective
<1> QED BY <1>6, <1>8

\* What was asked before what was asked before something, was asked before it.
LEMMA BeforeTransitive ==
    ASSUME TypeOK, AskedOnce, NEW a, NEW b, NEW d, Before(asked, a, b), Before(asked, b, d)
    PROVE  Before(asked, a, d)
<1>1. PICK p, q \in DOMAIN asked : p < q /\ asked[p] = a /\ asked[q] = b
  BY DEF Before
<1>2. PICK u, v \in DOMAIN asked : u < v /\ asked[u] = b /\ asked[v] = d
  BY DEF Before
<1>3. q = u /\ p \in Nat /\ q \in Nat /\ v \in Nat
  BY <1>1, <1>2 DEF AskedOnce, TypeOK
<1>4. p < v
  BY <1>1, <1>2, <1>3
<1> QED BY <1>1, <1>2, <1>4 DEF Before

\* Whoever edits the files, what verifyChain vouches for is in the order in which the
\* records were asked for: of two lines in the wrong order, take the earliest second.
THEOREM LedgerInOrder == Spec => []VerifiedInOrder
<1>1. ASSUME Init PROVE GenuineInv /\ OrderInv
  <2>1. GenuineInv /\ Files
    BY <1>1, EmptySeq DEF Init, GenuineInv, Files
  <2> QED BY <1>1, <2>1 DEF Init, OrderInv, AskedOnce, Turns, Issues, HeadsKnown
<1>2. ASSUME TypeOK, GenuineInv, OrderInv PROVE VerifiedInOrder
  <2> SUFFICES ASSUME NEW c \in Chains, NEW j \in 1 .. VerifiedCount(file[c]),
                      NEW i \in 1 .. j - 1
               PROVE  Before(asked, file[c][i].body, file[c][j].body)
    BY DEF VerifiedInOrder, Before
  <2> DEFINE f == file[c]
             N == VerifiedCount(f)
             Wrong == {n \in 1 .. N : i < n /\ ~Before(asked, f[i].body, f[n].body)}
  <2>1. /\ f \in Seq(Lines \cup {Torn}) /\ Len(f) \in Nat
        /\ N \in 0 .. Len(f) /\ Intact(f, N)
    BY <1>2, AnyCount DEF TypeOK
  <2> HIDE DEF N
  <2>2. i \in Nat /\ j \in Nat /\ 1 <= i /\ i < j /\ j <= N /\ N \in Nat
    BY <2>1 DEF N
  <2>3. Wrong = {}
    <3>1. SUFFICES ASSUME Wrong # {} PROVE FALSE
      OBVIOUS
    <3>2. Wrong \in SUBSET Nat
      BY <2>2
    <3>3. PICK n \in Wrong : \A m \in Wrong : n <= m
      BY <3>1, <3>2, LeastNat
    <3>4. n \in Nat /\ i < n /\ n <= N /\ ~Before(asked, f[i].body, f[n].body)
      BY <2>2, <3>3
    <3>5. /\ n \in 1 .. Len(f) /\ n # 1 /\ n - 1 \in 1 .. N /\ i <= n - 1
          /\ ~(n <= n - 1)
      BY <2>1, <2>2, <3>4
    <3>6. Intact(f, n)
      BY <2>1, <2>2, <3>4 DEF Intact
    <3>7. Before(asked, f[n - 1].body, f[n].body)
      BY <1>2, <3>5, <3>6, Adjacent
    <3>8. i # n - 1
      BY <3>4, <3>7
    <3>9. Before(asked, f[i].body, f[n - 1].body)
      BY <2>2, <3>3, <3>4, <3>5, <3>8
    <3>10. Before(asked, f[i].body, f[n].body)
      BY <1>2, <3>7, <3>9, BeforeTransitive DEF OrderInv
    <3> QED BY <3>4, <3>10
  <2> QED BY <2>2, <2>3
<1> QED BY <1>1, <1>2, LedgerTypeCorrect, GenuineStep, OrderStep, PTL DEF Spec

(***************************************************************************)
(* Why every append is answered.  A chain's queue is never held up, every  *)
(* step of an append leaves less to do for it, and nobody is overtaken,    *)
(* whatever is refused, fails to be written or is edited meanwhile.  From  *)
(* this and the fairness of Step(e), EveryAppendIsAnswered follows.        *)
(***************************************************************************)
\* What the guard of Step(e) comes to.
Ready(e) == /\ queue[ChainOf[e]] # << >> /\ Head(queue[ChainOf[e]]) = e
            /\ stage[e] \in Pending

NobodyIsStuck ==
    /\ \A c \in Chains : queue[c] # << >> => ChainOf[Head(queue[c])] = c /\ Ready(Head(queue[c]))
    /\ \A c \in Chains : \A i, j \in DOMAIN queue[c] : queue[c][i] = queue[c][j] => i = j
    /\ \A e \in Events : stage[e] \in Pending => \E i \in DOMAIN queue[ChainOf[e]] : queue[ChainOf[e]][i] = e

\* How many steps an append has ahead of it at most.
Ahead(s) == CASE s = "queued" -> 3 [] s = "verified" -> 2 [] s = "headed" -> 1 [] OTHER -> 0

Spent ==
    /\ \A e \in Events : stage[e] # "new" =>
          stage'[e] = stage[e] \/ Ahead(stage'[e]) < Ahead(stage[e])
    /\ \A e \in Events : Step(e) => stage'[e] # stage[e]
    /\ ~Crash => \A c \in Chains : \A i \in 2 .. Len(queue[c]) :
          \/ i \in DOMAIN queue'[c] /\ queue'[c][i] = queue[c][i]
          \/ i - 1 \in DOMAIN queue'[c] /\ queue'[c][i - 1] = queue[c][i]

Waits(e, q) == \E i \in DOMAIN q : q[i] = e
Attended == \A e \in Events : stage[e] \in Pending => Waits(e, queue[ChainOf[e]])

\* What joins a queue joins it at the end; what leaves leaves at its head.
LEMMA QueueFacts ==
    ASSUME NEW q \in Seq(Events), NEW e \in Events
    PROVE  /\ Waits(e, Append(q, e))
           /\ \A d : Waits(d, q) => Waits(d, Append(q, e))
           /\ \A i \in 2 .. Len(q) : i \in DOMAIN Append(q, e) /\ Append(q, e)[i] = q[i]
           /\ q # << >> =>
                 /\ \A d : Waits(d, q) /\ d # Head(q) => Waits(d, Tail(q))
                 /\ \A i \in 2 .. Len(q) : i - 1 \in DOMAIN Tail(q) /\ Tail(q)[i - 1] = q[i]
<1>1. /\ Len(q) \in Nat /\ DOMAIN q = 1 .. Len(q) /\ DOMAIN Append(q, e) = 1 .. Len(q) + 1
      /\ Append(q, e)[Len(q) + 1] = e /\ \A i \in 1 .. Len(q) : Append(q, e)[i] = q[i]
  OBVIOUS
<1>2. /\ \A i \in 1 .. Len(q) : i \in 1 .. Len(q) + 1
      /\ \A i \in 2 .. Len(q) : i \in 1 .. Len(q)
      /\ Len(q) + 1 \in 1 .. Len(q) + 1
  BY <1>1
<1>3. ASSUME q # << >>
      PROVE  \A i \in 2 .. Len(q) : i - 1 \in DOMAIN Tail(q) /\ Tail(q)[i - 1] = q[i]
  <2>1. Len(q) \in Nat \ {0} /\ DOMAIN Tail(q) = 1 .. Len(q) - 1
        /\ \A i \in 1 .. Len(q) - 1 : Tail(q)[i] = q[i + 1]
    BY <1>3
  <2>2. \A i \in 2 .. Len(q) : i - 1 \in 1 .. Len(q) - 1 /\ (i - 1) + 1 = i
    BY <2>1
  <2> QED BY <2>1, <2>2
<1>4. ASSUME q # << >>, NEW d, Waits(d, q), d # Head(q)
      PROVE  Waits(d, Tail(q))
  <2>1. PICK i \in 1 .. Len(q) : q[i] = d
    BY <1>1, <1>4 DEF Waits
  <2>2. i # 1
    BY <1>4, <2>1
  <2>3. i \in 2 .. Len(q)
    BY <1>1, <2>1, <2>2
  <2> QED BY <1>3, <1>4, <2>1, <2>3 DEF Waits
<1> QED BY <1>1, <1>2, <1>3, <1>4 DEF Waits

\* No append is left out of its queue, and none is overtaken in it.
LEMMA AttendedStep ==
    ASSUME TypeOK, Attended, Next
    PROVE  /\ Attended'
           /\ ~Crash => \A c \in Chains : \A i \in 2 .. Len(queue[c]) :
                 \/ i \in DOMAIN queue'[c] /\ queue'[c][i] = queue[c][i]
                 \/ i - 1 \in DOMAIN queue'[c] /\ queue'[c][i - 1] = queue[c][i]
<1> DEFINE InOrder == \A c \in Chains : \A i \in 2 .. Len(queue[c]) :
                 \/ i \in DOMAIN queue'[c] /\ queue'[c][i] = queue[c][i]
                 \/ i - 1 \in DOMAIN queue'[c] /\ queue'[c][i - 1] = queue[c][i]
<1>t. /\ queue \in [Chains -> Seq(Events)] /\ stage \in [Events -> Stages]
      /\ \A c \in Chains : \A i \in 2 .. Len(queue[c]) : i \in DOMAIN queue[c]
  BY DEF TypeOK
<1>c. \A e \in Events : ChainOf[e] \in Chains
  BY ChainsAssumption
<1>1. ASSUME NEW e \in Events, Request(e) PROVE Attended' /\ InOrder
  <2>1. /\ queue' = [queue EXCEPT ![ChainOf[e]] = Append(@, e)]
        /\ stage' = [stage EXCEPT ![e] = "queued"]
    BY <1>1 DEF Request
  <2>2. ASSUME NEW c \in Chains
        PROVE  queue'[c] = IF c = ChainOf[e] THEN Append(queue[c], e) ELSE queue[c]
    BY <1>t, <2>1
  <2>3. ASSUME NEW d \in Events, stage'[d] \in Pending PROVE Waits(d, queue'[ChainOf[d]])
    <3>1. queue[ChainOf[d]] \in Seq(Events)
      BY <1>t, <1>c
    <3>2. CASE d = e
      BY <1>c, <2>2, <3>1, <3>2, QueueFacts
    <3>3. CASE d # e
      <4>1. Waits(d, queue[ChainOf[d]])
        BY <1>t, <2>1, <2>3, <3>3 DEF Attended
      <4> QED BY <1>c, <2>2, <3>1, <4>1, QueueFacts
    <3> QED BY <3>2, <3>3
  <2>4. ASSUME NEW c \in Chains, NEW i \in 2 .. Len(queue[c])
        PROVE  i \in DOMAIN queue'[c] /\ queue'[c][i] = queue[c][i]
    <3>1. queue[c] \in Seq(Events) /\ i \in DOMAIN queue[c]
      BY <1>t
    <3>2. i \in DOMAIN Append(queue[c], e) /\ Append(queue[c], e)[i] = queue[c][i]
      BY <3>1, QueueFacts
    <3> QED BY <2>2, <3>1, <3>2
  <2> QED BY <2>3, <2>4 DEF Attended
<1>2. ASSUME NEW e \in Events, queue[ChainOf[e]] # << >>, Head(queue[ChainOf[e]]) = e,
             NEW s \in Stages, stage' = [stage EXCEPT ![e] = s],
             (queue' = queue /\ s \in Pending) \/ (Dequeue(e) /\ s \notin Pending)
      PROVE  Attended' /\ InOrder
  <2>1. CASE queue' = queue
    <3>1. Waits(e, queue[ChainOf[e]])
      <4>1. queue[ChainOf[e]] \in Seq(Events)
        BY <1>t, <1>c
      <4>2. 1 \in DOMAIN queue[ChainOf[e]] /\ queue[ChainOf[e]][1] = e
        BY <1>2, <4>1
      <4> QED BY <4>2 DEF Waits
    <3>2. \A d \in Events : d # e => stage'[d] = stage[d]
      BY <1>t, <1>2
    <3> QED BY <1>t, <2>1, <3>1, <3>2 DEF Attended
  <2>2. CASE Dequeue(e) /\ s \notin Pending
    <3>1. ASSUME NEW c \in Chains
          PROVE  queue'[c] = IF c = ChainOf[e] THEN Tail(queue[c]) ELSE queue[c]
      BY <1>t, <2>2 DEF Dequeue
    <3>2. ASSUME NEW d \in Events, stage'[d] \in Pending PROVE Waits(d, queue'[ChainOf[d]])
      <4>1. d # e /\ Waits(d, queue[ChainOf[d]])
        BY <1>t, <1>2, <2>2, <3>2 DEF Attended
      <4>2. queue[ChainOf[d]] \in Seq(Events)
        BY <1>t, <1>c
      <4> QED BY <1>2, <1>c, <3>1, <4>1, <4>2, QueueFacts
    <3>3. ASSUME NEW c \in Chains, NEW i \in 2 .. Len(queue[c])
          PROVE  \/ i \in DOMAIN queue'[c] /\ queue'[c][i] = queue[c][i]
                 \/ i - 1 \in DOMAIN queue'[c] /\ queue'[c][i - 1] = queue[c][i]
      <4>1. queue[c] \in Seq(Events) /\ i \in DOMAIN queue[c]
        BY <1>t
      <4>2. c = ChainOf[e] => i - 1 \in DOMAIN Tail(queue[c]) /\ Tail(queue[c])[i - 1] = queue[c][i]
        BY <1>2, <4>1, QueueFacts
      <4> QED BY <3>1, <4>1, <4>2
    <3> QED BY <3>2, <3>3 DEF Attended
  <2> QED BY <1>2, <2>1, <2>2
<1>3. ASSUME Crash PROVE Attended'
  BY <1>3, <1>t DEF Crash, Attended, Pending, InProgress
<1>4. ASSUME UNCHANGED <<queue, stage>> PROVE Attended' /\ InOrder
  BY <1>4, <1>t DEF Attended
<1> QED BY <1>1, <1>2, <1>3, <1>4, QueueSteps

\* Every chain's queue can go on, with nobody in it twice and nobody left out of it.
THEOREM NobodyWaitsForEver == Spec => []NobodyIsStuck
<1>1. Init => OrderInv /\ Attended
  BY EmptySeq DEF Init, OrderInv, AskedOnce, Turns, Issues, Files, HeadsKnown, Attended, Pending, InProgress
<1>2. TypeOK /\ OrderInv /\ Attended /\ [Next]_vars => (OrderInv /\ Attended)'
  <2>1. UNCHANGED vars /\ Attended => Attended'
    BY DEF Attended
  <2> QED BY <2>1, OrderStep, AttendedStep
<1>3. ASSUME TypeOK, OrderInv, Attended PROVE NobodyIsStuck
  <2>1. ASSUME NEW c \in Chains, queue[c] # << >>
        PROVE  ChainOf[Head(queue[c])] = c /\ Ready(Head(queue[c]))
    <3>1. 1 \in DOMAIN queue[c] /\ Head(queue[c]) = queue[c][1]
      BY <1>3, <2>1 DEF TypeOK
    <3>2. Due(c, queue[c], 1, stage, asked)
      BY <1>3, <3>1 DEF OrderInv, Turns
    <3> QED BY <2>1, <3>1, <3>2 DEF Due, Ready
  <2>2. ASSUME NEW c \in Chains, NEW i \in DOMAIN queue[c], NEW j \in DOMAIN queue[c],
               queue[c][i] = queue[c][j], i < j
        PROVE  FALSE
    <3>1. Before(asked, queue[c][i], queue[c][j])
      BY <1>3, <2>2 DEF OrderInv, Turns, Due
    <3> QED BY <1>3, <2>2, <3>1 DEF OrderInv, AskedOnce, Before, TypeOK
  <2>3. \A c \in Chains : \A i, j \in DOMAIN queue[c] : queue[c][i] = queue[c][j] => i = j
    <3>1. \A c \in Chains : \A i \in DOMAIN queue[c] : i \in Nat
      BY <1>3 DEF TypeOK
    <3> QED BY <2>2, <3>1
  <2> QED BY <1>3, <2>1, <2>3 DEF NobodyIsStuck, Attended, Waits
<1> QED BY <1>1, <1>2, <1>3, LedgerTypeCorrect, PTL DEF Spec

\* An append takes three steps at most, none of them twice, and its turn comes nearer with
\* every answer before it: so waiting ends.
THEOREM StepsAreSpent == Spec => [][Spent]_vars
<1>1. Init => Attended
  BY DEF Init, Attended, Pending, InProgress
<1>2. TypeOK /\ Attended /\ [Next]_vars => Attended'
  <2>1. UNCHANGED vars /\ Attended => Attended'
    BY DEF Attended
  <2> QED BY <2>1, AttendedStep
<1>3. TypeOK /\ Attended /\ [Next]_vars => [Spent]_vars
  <2> SUFFICES ASSUME TypeOK, Attended, Next PROVE Spent
    OBVIOUS
  <2> USE DEF Stages, Pending, InProgress
  <2>a. /\ Ahead("queued") = 3 /\ Ahead("verified") = 2 /\ Ahead("headed") = 1
        /\ Ahead("done") = 0 /\ Ahead("refused") = 0 /\ Ahead("lost") = 0
    BY DEF Ahead
  <2>t. stage \in [Events -> Stages]
    BY DEF TypeOK
  <2>1. ASSUME NEW e \in Events, Verify(e) \/ LoadHead(e) \/ Write(e) \/ WriteFails(e)
        PROVE  /\ Ahead(stage'[e]) < Ahead(stage[e])
               /\ \A d \in Events : d # e => stage'[d] = stage[d]
    <3>1. \E s \in {"verified", "headed", "done", "refused"} :
              /\ stage' = [stage EXCEPT ![e] = s]
              /\ \/ stage[e] = "queued" /\ s \in {"verified", "headed", "refused"}
                 \/ stage[e] = "verified" /\ s \in {"headed", "refused"}
                 \/ stage[e] = "headed" /\ s \in {"done", "refused"}
      BY <2>1 DEF Verify, LoadHead, Write, WriteFails, At, Reject
    <3> QED BY <2>a, <2>t, <3>1
  <2>2. ASSUME NEW e \in Events, stage[e] # "new"
        PROVE  stage'[e] = stage[e] \/ Ahead(stage'[e]) < Ahead(stage[e])
    <3>1. ASSUME NEW d \in Events, Request(d) \/ Step(d) \/ WriteFails(d)
          PROVE  stage'[e] = stage[e] \/ Ahead(stage'[e]) < Ahead(stage[e])
      <4>1. CASE Request(d)
        BY <2>2, <2>t, <4>1 DEF Request
      <4>2. CASE Step(d) \/ WriteFails(d)
        BY <2>1, <4>2 DEF Step
      <4> QED BY <3>1, <4>1, <4>2
    <3>2. CASE Crash
      BY <2>a, <2>t, <3>2 DEF Crash
    <3>3. CASE \E c \in Chains : Edit(c)
      BY <3>3 DEF Edit
    <3> QED BY <3>1, <3>2, <3>3 DEF Next
  <2>3. ASSUME NEW e \in Events, Step(e) PROVE stage'[e] # stage[e]
    <3>1. Ahead(stage'[e]) < Ahead(stage[e]) /\ Ahead(stage[e]) \in Nat
      BY <2>1, <2>3, <2>a, <2>t DEF Step, Ahead
    <3> QED BY <3>1
  <2> QED BY <2>2, <2>3, AttendedStep DEF Spent
<1> QED BY <1>1, <1>2, <1>3, LedgerTypeCorrect, PTL DEF Spec
=============================================================================
