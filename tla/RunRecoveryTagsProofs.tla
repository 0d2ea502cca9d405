------------------------- MODULE RunRecoveryTagsProofs -------------------------
(***************************************************************************)
(* More about RunRecovery, for any finite number of Runs and Evidence: the *)
(* walk of the graph finds what the least fixed point has, so no tag is    *)
(* wrong and none is missing; and recoveries are real.                     *)
(***************************************************************************)
EXTENDS RunRecoveryProofs, FiniteSetTheorems, WellFoundedInduction

USE RecoveryAssumption

(***************************************************************************)
(* The walk.  It is a recursive function of the number of steps; what      *)
(* holds of every step is shown by a least step at which it does not.      *)
(***************************************************************************)
All  == Runs \cup Evidence
Size == Cardinality(All)

LEMMA LeastNat ==
    ASSUME NEW T \in SUBSET Nat, T # {}
    PROVE  \E n \in T : \A m \in T : n <= m
<1>1. PICK n \in T : \A m \in T : <<m, n>> \notin OpToRel(<, Nat)
  BY WFMin, NatLessThanWellFounded
<1>2. \A m \in T : ~(m < n)
  BY <1>1 DEF OpToRel
<1> QED BY <1>2

\* The first k steps.
Steps(f, k, nodes, edges, e) ==
    /\ f \in [0 .. k -> SUBSET All]
    /\ f[0] = {e}
    /\ \A n \in 1 .. k : f[n] = f[n-1] \cup Visits(nodes, edges, f[n-1])

LEMMA StepsExist ==
    ASSUME NEW nodes \in SUBSET All, NEW edges, NEW e \in All, NEW N \in Nat
    PROVE  \E f : Steps(f, N, nodes, edges, e)
<1> DEFINE T == {k \in 0 .. N : ~\E f : Steps(f, k, nodes, edges, e)}
<1>1. SUFFICES ASSUME T # {} PROVE FALSE
  OBVIOUS
<1>2. PICK k \in T : \A m \in T : k <= m
  <2>1. T \in SUBSET Nat
    OBVIOUS
  <2> HIDE DEF T
  <2> QED BY <1>1, <2>1, LeastNat
<1>3. k # 0
  <2>1. Steps([n \in 0 .. 0 |-> {e}], 0, nodes, edges, e)
    BY DEF Steps
  <2> QED BY <1>2, <2>1
<1>4. PICK f : Steps(f, k - 1, nodes, edges, e)
  BY <1>2, <1>3
<1> DEFINE s == f[k-1] \cup Visits(nodes, edges, f[k-1])
           h == [n \in 0 .. k |-> IF n = k THEN s ELSE f[n]]
<1>5. s \in SUBSET All
  BY <1>2, <1>3, <1>4 DEF Steps, Visits
<1>6. k \in Nat /\ k >= 1 /\ f \in [0 .. k - 1 -> SUBSET All]
  BY <1>2, <1>3, <1>4 DEF Steps
<1>7. /\ h \in [0 .. k -> SUBSET All] /\ h[k] = s
      /\ \A n \in 0 .. k - 1 : h[n] = f[n]
  <2> HIDE DEF s
  <2> QED BY <1>5, <1>6
<1> HIDE DEF h
<1>8. Steps(h, k, nodes, edges, e)
  <2>1. h[0] = {e}
    BY <1>4, <1>6, <1>7 DEF Steps
  <2>2. ASSUME NEW n \in 1 .. k
        PROVE  h[n] = h[n-1] \cup Visits(nodes, edges, h[n-1])
    <3>1. h[n-1] = f[n-1]
      BY <1>6, <1>7
    <3>2. CASE n = k
      BY <1>7, <3>1, <3>2
    <3>3. CASE n # k
      <4>1. n \in 1 .. k - 1 /\ h[n] = f[n]
        BY <1>6, <1>7, <3>3
      <4> QED BY <1>4, <3>1, <4>1 DEF Steps
    <3> QED BY <3>2, <3>3
  <2> QED BY <1>7, <2>1, <2>2 DEF Steps
<1> QED BY <1>2, <1>8

\* The recursive function in Walk is such steps.
LEMMA WalkSteps ==
    ASSUME NEW g, Nodes(g) \in SUBSET All, NEW e \in All
    PROVE  \E f : Steps(f, Size, Nodes(g), Edges(g), e) /\ Walk(g, e) = f[Size]
<1> DEFINE nodes == Nodes(g)
           edges == Edges(g)
           Eq(f) == f = [n \in 0 .. Size |-> IF n = 0 THEN {e} ELSE f[n-1] \cup Visits(nodes, edges, f[n-1])]
           v == CHOOSE f : Eq(f)
<1>1. Size \in Nat
  BY FiniteAssumption, FS_CardinalityType DEF Size, All
<1>2. Walk(g, e) = v[Size]
  BY DEF Walk, Size, All
<1>3. PICK f : Steps(f, Size, nodes, edges, e)
  BY <1>1, StepsExist
<1>4. Eq(f)
  <2>1. f = [n \in 0 .. Size |-> f[n]]
    BY <1>3 DEF Steps
  <2>2. \A n \in 0 .. Size : f[n] = IF n = 0 THEN {e} ELSE f[n-1] \cup Visits(nodes, edges, f[n-1])
    <3>1. f[0] = {e} /\ \A n \in 1 .. Size : f[n] = f[n-1] \cup Visits(nodes, edges, f[n-1])
      BY <1>3 DEF Steps
    <3> HIDE DEF nodes, edges
    <3> SUFFICES ASSUME NEW n \in 0 .. Size
                 PROVE  f[n] = IF n = 0 THEN {e} ELSE f[n-1] \cup Visits(nodes, edges, f[n-1])
      OBVIOUS
    <3>2. n = 0 \/ n \in 1 .. Size
      BY <1>1
    <3>3. CASE n = 0
      BY <3>1, <3>3
    <3>4. CASE n \in 1 .. Size
      <4>1. n # 0
        BY <1>1, <3>4
      <4> QED BY <3>1, <3>4, <4>1
    <3> QED BY <3>2, <3>3, <3>4
  <2> HIDE DEF nodes, edges
  <2> QED BY <2>1, <2>2
<1>5. Eq(v)
  <2> HIDE DEF Eq
  <2> QED BY <1>4
<1>6. Steps(v, Size, nodes, edges, e)
  <2> DEFINE T == {k \in 0 .. Size : v[k] # f[k]}
  <2>1. /\ \A n \in 0 .. Size : v[n] = IF n = 0 THEN {e} ELSE v[n-1] \cup Visits(nodes, edges, v[n-1])
        /\ v = [n \in 0 .. Size |-> v[n]]
    <3> HIDE DEF nodes, edges, v
    <3> QED BY <1>5
  <2> HIDE DEF v, nodes, edges
  <2>2. SUFFICES T = {}
    <3>1. \A n \in 0 .. Size : v[n] = f[n]
      BY <2>2
    <3>2. f = [n \in 0 .. Size |-> f[n]]
      BY <1>3 DEF Steps
    <3>3. v = f
      BY <2>1, <3>1, <3>2
    <3> QED BY <1>3, <3>3
  <2>3. SUFFICES ASSUME T # {} PROVE FALSE
    OBVIOUS
  <2>4. PICK k \in T : \A m \in T : k <= m
    <3>1. T \in SUBSET Nat
      BY <1>1
    <3> HIDE DEF T
    <3> QED BY <2>3, <3>1, LeastNat
  <2>5. CASE k = 0
    BY <2>1, <2>4, <2>5, <1>3 DEF Steps
  <2>6. CASE k # 0
    <3>1. k \in 1 .. Size /\ k - 1 \in 0 .. Size /\ k \in Nat
      BY <1>1, <2>4, <2>6
    <3>2. v[k-1] = f[k-1]
      BY <2>4, <3>1
    <3>3. v[k] = v[k-1] \cup Visits(nodes, edges, v[k-1])
      BY <2>1, <2>6, <3>1
    <3>4. f[k] = f[k-1] \cup Visits(nodes, edges, f[k-1])
      BY <1>3, <3>1 DEF Steps
    <3> QED BY <2>4, <3>2, <3>3, <3>4
  <2> QED BY <2>5, <2>6
<1> QED BY <1>2, <1>6

\* The walk stays in every set it starts in and no edge leads out of.
LEMMA WalkInside ==
    ASSUME NEW g, Nodes(g) \in SUBSET All, NEW e \in All, NEW S, e \in S,
           \A m \in S : \A n \in Nodes(g) : <<m, n>> \in Edges(g) => n \in S
    PROVE  Walk(g, e) \subseteq S
<1>1. PICK f : Steps(f, Size, Nodes(g), Edges(g), e) /\ Walk(g, e) = f[Size]
  BY WalkSteps
<1>2. Size \in Nat
  BY FiniteAssumption, FS_CardinalityType DEF Size, All
<1> DEFINE T == {k \in 0 .. Size : ~(f[k] \subseteq S)}
<1>3. ASSUME T # {}
      PROVE  FALSE
  <2>1. T \in SUBSET Nat
    BY <1>2
  <2>2. PICK k \in T : \A m \in T : k <= m
    <3> HIDE DEF T
    <3> QED BY <1>3, <2>1, LeastNat
  <2>3. k # 0
    BY <1>1, <2>2 DEF Steps
  <2>4. k \in 1 .. Size /\ k - 1 \in 0 .. Size /\ k \in Nat
    BY <1>2, <2>2, <2>3
  <2>5. f[k-1] \subseteq S
    BY <2>2, <2>4
  <2>6. f[k] = f[k-1] \cup Visits(Nodes(g), Edges(g), f[k-1])
    BY <1>1, <2>4 DEF Steps
  <2>7. f[k] \subseteq S
    BY <2>5, <2>6 DEF Visits
  <2> QED BY <2>2, <2>7
<1>4. Size \in 0 .. Size
  BY <1>2
<1> QED BY <1>1, <1>3, <1>4

\* It has taken all edges when it ends: a step that finds something new makes what
\* was visited larger, and there are no more steps than nodes.
LEMMA WalkClosed ==
    ASSUME NEW g, Nodes(g) \in SUBSET All, NEW e \in All
    PROVE  /\ e \in Walk(g, e) /\ Walk(g, e) \subseteq Nodes(g) \cup {e}
           /\ \A m \in Walk(g, e) : \A n \in Nodes(g) : <<m, n>> \in Edges(g) => n \in Walk(g, e)
<1> DEFINE V(S) == Visits(Nodes(g), Edges(g), S)
<1>1. PICK f : Steps(f, Size, Nodes(g), Edges(g), e) /\ Walk(g, e) = f[Size]
  BY WalkSteps
<1>2. Size \in Nat /\ IsFiniteSet(All)
  BY FiniteAssumption, FS_CardinalityType DEF Size, All
<1>3. /\ f[0] = {e} /\ \A k \in 1 .. Size : f[k] = f[k-1] \cup V(f[k-1])
      /\ \A k \in 0 .. Size : f[k] \in SUBSET All
  BY <1>1 DEF Steps
<1>4. \A k \in 0 .. Size : IsFiniteSet(f[k]) /\ Cardinality(f[k]) \in Nat /\ Cardinality(f[k]) <= Size
  <2>1. \A S \in SUBSET All : IsFiniteSet(S) /\ Cardinality(S) <= Size
    BY <1>2, FS_Subset DEF Size
  <2>2. \A S \in SUBSET All : Cardinality(S) \in Nat
    BY <2>1, FS_CardinalityType
  <2> QED BY <1>3, <2>1, <2>2
<1> DEFINE P(k) == /\ e \in f[k] /\ f[k] \subseteq Nodes(g) \cup {e}
                   /\ V(f[k]) \subseteq f[k] \/ Cardinality(f[k]) >= k + 1
           T == {k \in 0 .. Size : ~P(k)}
<1>5. ASSUME T # {}
      PROVE  FALSE
  <2>1. T \in SUBSET Nat
    BY <1>2
  <2>2. PICK k \in T : \A m \in T : k <= m
    <3> HIDE DEF T
    <3> QED BY <1>5, <2>1, LeastNat
  <2>3. k # 0
    <3>1. Cardinality({e}) = 1
      BY FS_Singleton
    <3>2. P(0)
      BY <1>3, <3>1
    <3> QED BY <2>2, <3>2
  <2>4. k \in 1 .. Size /\ k - 1 \in 0 .. Size /\ k \in Nat /\ k \in 0 .. Size
    BY <1>2, <2>2, <2>3
  <2>5. P(k - 1)
    BY <2>2, <2>4
  <2> DEFINE A == f[k-1]
             B == f[k]
  <2>6. B = A \cup V(A)
    BY <1>3, <2>4
  <2>7. e \in B /\ B \subseteq Nodes(g) \cup {e}
    BY <2>5, <2>6 DEF Visits
  <2>8. CASE V(A) \subseteq A
    <3>1. B = A
      BY <2>6, <2>8
    <3>2. V(B) \subseteq B
      BY <2>8, <3>1
    <3> QED BY <2>2, <2>7, <3>2
  <2>9. CASE ~(V(A) \subseteq A)
    <3>1. A \subseteq B /\ A # B
      BY <2>6, <2>9
    <3>2. IsFiniteSet(B) /\ Cardinality(A) \in Nat /\ Cardinality(B) \in Nat
      BY <1>4, <2>4
    <3>3. Cardinality(A) <= Cardinality(B) /\ Cardinality(A) # Cardinality(B)
      <4> HIDE DEF A, B
      <4> QED BY <3>1, <3>2, FS_Subset
    <3>4. Cardinality(A) >= (k - 1) + 1
      BY <2>5, <2>9
    <3>5. Cardinality(B) >= k + 1
      <4> HIDE DEF A, B
      <4> QED BY <2>4, <3>2, <3>3, <3>4
    <3> QED BY <2>2, <2>7, <3>5
  <2> QED BY <2>8, <2>9
<1>6. P(Size)
  <2>1. Size \in 0 .. Size
    BY <1>2
  <2> QED BY <1>5, <2>1
<1>7. ~(Cardinality(f[Size]) >= Size + 1)
  <2>1. Cardinality(f[Size]) \in Nat /\ Cardinality(f[Size]) <= Size
    BY <1>2, <1>4
  <2> QED BY <1>2, <2>1
<1> QED BY <1>1, <1>6, <1>7 DEF Visits

(***************************************************************************)
(* What stays: known Evidence keeps its producer and its contributors, an  *)
(* end is final, a capsule is written once, and files are not taken back.  *)
(***************************************************************************)
LEMMA Shapes ==
    ASSUME [Next]_vars
    PROVE  /\ \/ UNCHANGED <<saved, builds>>
              \/ \E r \in Runs : Admit(r) /\ UNCHANGED saved
              \/ \E r \in Runs : Read(r) \/ WriteCapsule(r) \/ WriteIndex(r) \/ BuildFails(r)
              \/ Crash
           /\ \/ UNCHANGED stores
              \/ \E p \in Proposals : Commit(p)
              \/ \E q \in Requests : EndEvidence(q)
           /\ UNCHANGED ended \/ \E q \in Requests : EndEvidence(q)
<1> USE DEF stores, plane, saved, builds, routes, work, ghosts
<1>1. CASE UNCHANGED vars
  BY <1>1 DEF vars
<1>2. ASSUME NEW r \in Runs, RunStep(r)
      PROVE  /\ UNCHANGED <<stores, ended>>
             /\ \/ Admit(r) /\ UNCHANGED saved
                \/ Read(r) \/ WriteCapsule(r) \/ WriteIndex(r) \/ BuildFails(r)
  BY <1>2 DEF RunStep, SendMessage, Read, WriteCapsule, WriteIndex, BuildFails
<1>3. ASSUME NEW p \in Proposals, Commit(p)
      PROVE  UNCHANGED <<saved, builds, ended>>
  BY <1>3 DEF Commit
<1>4. ASSUME NEW a \in Agents, Delete(a)
      PROVE  UNCHANGED <<saved, builds, stores, ended>>
  BY <1>4 DEF Delete
<1>5. ASSUME NEW q \in Requests, RouteStep(q)
      PROVE  /\ UNCHANGED <<saved, builds>>
             /\ UNCHANGED <<stores, ended>> \/ EndEvidence(q)
  BY <1>5 DEF RouteStep, EndEvidence, Snapshot, ReadCapsules, ReadEvidence, Tag, RouteFails
<1>6. ASSUME NEW c \in Reconciles, ReconcileStep(c)
      PROVE  /\ UNCHANGED <<stores, ended, saved>>
             /\ UNCHANGED builds \/ \E r \in Runs : Admit(r)
  <2>1. CASE Reconcile(c) \/ Check(c) \/ LookUp(c) \/ StartFails(c)
    BY <2>1 DEF Reconcile, Check, LookUp, StartFails
  <2>2. CASE StartRun(c)
    BY <2>2 DEF StartRun
  <2>3. CASE PollFails(c) \/ MarkRecovered(c) \/ MarkRecoveredFails(c) \/ RecordOutcome(c) \/ RecordFails(c)
    BY <2>3 DEF PollFails, MarkRecovered, MarkRecoveredFails, RecordOutcome, RecordFails
  <2> QED BY <1>6, <2>1, <2>2, <2>3 DEF ReconcileStep
<1>7. ASSUME Crash PROVE UNCHANGED <<stores, ended>>
  BY <1>7 DEF Crash
<1> QED BY <1>1, <1>2, <1>3, <1>4, <1>5, <1>6, <1>7 DEF Next

\* A capsule is there once it has been written, and what was read for it until then.
Files ==
    \A r \in Runs :
        /\ build[r] \in {"new", "admitted"} => reading[r] = {}
        /\ build[r] \in {"new", "admitted", "read"} => capsule[r] = None
        /\ build[r] \in {"written", "ok"} => capsule[r] # None
        /\ r \in index => build[r] = "ok"

LEMMA FilesInit == Init => Files
  BY DEF Init, Files

LEMMA FilesStep == ASSUME Typed, Files, [Next]_vars PROVE Files'
<1> USE DEF stores, plane, saved, builds, routes, work, ghosts
<1>1. /\ build \in [Runs -> {"new", "ok", "failed"} \cup Building]
      /\ reading \in [Runs -> SUBSET Evidence]
      /\ capsule \in [Runs -> (SUBSET Evidence) \cup {None}]
  BY DEF Typed, TypeOK
<1>2. CASE UNCHANGED <<saved, builds>>
  BY <1>2 DEF Files
<1>3. ASSUME NEW r \in Runs, Admit(r), UNCHANGED saved PROVE Files'
  BY <1>1, <1>3 DEF Files, Admit
<1>4. ASSUME NEW r \in Runs, Read(r) PROVE Files'
  BY <1>1, <1>4 DEF Files, Read
<1>5. ASSUME NEW r \in Runs, WriteCapsule(r) PROVE Files'
  <2>1. reading[r] # None
    BY <1>1
  <2> QED BY <1>1, <1>5, <2>1 DEF Files, WriteCapsule
<1>6. ASSUME NEW r \in Runs, WriteIndex(r) PROVE Files'
  BY <1>1, <1>6 DEF Files, WriteIndex
<1>7. ASSUME NEW r \in Runs, BuildFails(r) PROVE Files'
  BY <1>1, <1>7 DEF Files, BuildFails, Building
<1>8. ASSUME Crash PROVE Files'
  BY <1>1, <1>8 DEF Files, Crash, Building
<1> QED BY <1>2, <1>3, <1>4, <1>5, <1>6, <1>7, <1>8, Shapes

Stays ==
    /\ \A e \in Known : e \in Known' /\ derived'[e] = derived[e] /\ producer'[e] = producer[e]
    /\ \A e \in Evidence : status[e] \in Ends => status'[e] \in Ends
    /\ \A r \in Runs : capsule[r] # None => capsule'[r] = capsule[r]
    /\ index \subseteq index' /\ ended \subseteq ended'

LEMMA StaysStep == ASSUME Typed, Files, [Next]_vars PROVE Stays
<1> USE DEF stores, plane, saved, builds, routes, work, ghosts
<1>1. /\ build \in [Runs -> {"new", "ok", "failed"} \cup Building]
      /\ capsule \in [Runs -> (SUBSET Evidence) \cup {None}]
      /\ status \in [Evidence -> {"none", "ACTIVE"} \cup Ends]
      /\ producer \in [Evidence -> Runs \cup {None}] /\ derived \in [Evidence -> SUBSET Evidence]
  BY DEF Typed, TypeOK
<1>2. (\A r \in Runs : capsule[r] # None => capsule'[r] = capsule[r]) /\ index \subseteq index'
  <2>1. ASSUME NEW r \in Runs, Read(r) \/ WriteIndex(r) \/ BuildFails(r)
        PROVE  UNCHANGED capsule /\ index \subseteq index'
    BY <2>1 DEF Read, WriteIndex, BuildFails
  <2>2. ASSUME NEW r \in Runs, WriteCapsule(r)
        PROVE  /\ \A q \in Runs : capsule[q] # None => capsule'[q] = capsule[q]
               /\ index \subseteq index'
    BY <1>1, <2>2 DEF Files, WriteCapsule
  <2>3. Crash => UNCHANGED saved
    BY DEF Crash
  <2> QED BY <2>1, <2>2, <2>3, Shapes
<1> DEFINE EvidenceStays ==
               /\ \A e \in Known : e \in Known' /\ derived'[e] = derived[e] /\ producer'[e] = producer[e]
               /\ \A e \in Evidence : status[e] \in Ends => status'[e] \in Ends
<1>3. EvidenceStays
  <2>1. CASE UNCHANGED stores
    BY <2>1 DEF Known
  <2>2. ASSUME NEW p \in Proposals, Commit(p)
        PROVE  EvidenceStays
    <3>1. p.evidence \in Evidence /\ status[p.evidence] = "none" /\ "none" \notin Ends
      BY <2>2 DEF Commit, Ends
    <3>2. \A e \in Evidence \ {p.evidence} : /\ status'[e] = status[e] /\ derived'[e] = derived[e]
                                             /\ producer'[e] = producer[e]
      BY <1>1, <2>2 DEF Commit
    <3> QED BY <3>1, <3>2 DEF Known
  <2>3. ASSUME NEW q \in Requests, EndEvidence(q)
        PROVE  EvidenceStays
    <3>1. q.evidence \in Evidence /\ q.end \in Ends /\ "none" \notin Ends
      BY DEF Ends
    <3>2. status'[q.evidence] = q.end /\ UNCHANGED <<producer, derived>>
      BY <1>1, <2>3, <3>1 DEF EndEvidence
    <3>3. \A e \in Evidence \ {q.evidence} : status'[e] = status[e]
      BY <1>1, <2>3 DEF EndEvidence
    <3> QED BY <3>1, <3>2, <3>3 DEF Known
  <2> QED BY <2>1, <2>2, <2>3, Shapes
<1>4. ended \subseteq ended'
  <2>1. \A q \in Requests : EndEvidence(q) => ended \subseteq ended'
    BY DEF EndEvidence
  <2> QED BY <2>1, Shapes
<1> QED BY <1>2, <1>3, <1>4 DEF Stays

\* What is reached stays reached.
LEMMA AffectedGrows ==
    ASSUME Stays, NEW e
    PROVE  Affected(e, Runs) \subseteq Affected(e, Runs)'
<1>1. ASSUME NEW S, Closed(S, Runs)'
      PROVE  Closed(S, Runs)
  <2>1. ASSUME NEW r \in Runs, capsule[r] # None, capsule[r] \cap S # {}
        PROVE  r \in S
    BY <1>1, <2>1 DEF Closed, Stays
  <2>2. ASSUME NEW x \in Known, derived[x] \cap S # {} \/ producer[x] \in S \cap Runs
        PROVE  x \in S
    BY <1>1, <2>2 DEF Closed, Stays
  <2> QED BY <2>1, <2>2 DEF Closed
<1> QED BY <1>1 DEF Affected

(***************************************************************************)
(* What the walk finds.                                                    *)
(***************************************************************************)
\* Nothing that is not reached.
LEMMA WalkDownstream ==
    ASSUME NEW g \in Reading, \A r \in g.capsules : capsule[r] # None, g.evidence \subseteq Known,
           NEW e \in Evidence
    PROVE  RunIds(g, e) \subseteq Affected(e, Runs)
<1>1. Nodes(g) \in SUBSET All /\ e \in All /\ g.runs \subseteq Runs
  BY DEF Nodes, All, Reading
<1>2. ASSUME NEW S, e \in S, Closed(S, Runs)
      PROVE  Walk(g, e) \subseteq S
  <2>1. ASSUME NEW m \in S, NEW n \in Nodes(g), <<m, n>> \in Edges(g)
        PROVE  n \in S
    <3>1. CASE <<m, n>> \in ContainsEvidence(g)
      BY <1>1, <1>2, <3>1 DEF ContainsEvidence, Closed
    <3>2. CASE <<m, n>> \in Produced(g)
      BY <1>1, <1>2, <3>2 DEF Produced, Closed
    <3>3. CASE <<m, n>> \in DerivedFrom(g)
      BY <1>1, <1>2, <3>3 DEF DerivedFrom, Closed
    <3> QED BY <2>1, <3>1, <3>2, <3>3 DEF Edges
  <2> QED BY <1>1, <1>2, <2>1, WalkInside
<1> QED BY <1>2 DEF RunIds, Affected

\* Everything that is reached, by the edges in the graph.
Holds(S, runs, capsules, known, caps, der, prod) ==
    /\ \A r \in runs \cap capsules : caps[r] \cap S # {} => r \in S
    /\ \A x \in known : der[x] \cap S # {} \/ prod[x] \in S \cap runs => x \in S

LEMMA WalkHolds ==
    ASSUME TypeOK, NEW g \in Reading, \A r \in g.capsules : capsule[r] # None,
           NEW e \in g.evidence
    PROVE  /\ e \in Walk(g, e)
           /\ Walk(g, e) \in SUBSET All
           /\ Holds(Walk(g, e), g.runs, g.capsules, g.evidence, capsule, derived, producer)
<1> DEFINE W == Walk(g, e)
<1>1. /\ Nodes(g) \in SUBSET All /\ e \in All /\ e \in Nodes(g)
      /\ g.runs \subseteq Runs /\ g.capsules \subseteq Runs /\ g.evidence \subseteq Evidence
  BY DEF Nodes, All, Reading
<1>2. /\ e \in W /\ W \subseteq Nodes(g)
      /\ \A m \in W : \A n \in Nodes(g) : <<m, n>> \in Edges(g) => n \in W
  <2>1. /\ e \in Walk(g, e) /\ Walk(g, e) \subseteq Nodes(g) \cup {e}
        /\ \A m \in Walk(g, e) : \A n \in Nodes(g) : <<m, n>> \in Edges(g) => n \in Walk(g, e)
    BY <1>1, WalkClosed
  <2> QED BY <1>1, <2>1
<1> HIDE DEF W
<1>3. \A x \in W : x \in Evidence => x \in g.evidence
  BY <1>1, <1>2 DEF Nodes
<1>4. ASSUME NEW r \in g.runs \cap g.capsules, capsule[r] \cap W # {}
      PROVE  r \in W
  <2>1. PICK x \in W : x \in capsule[r]
    BY <1>4
  <2>2. x \in g.evidence
    <3>1. capsule[r] \in SUBSET Evidence
      BY <1>1 DEF TypeOK
    <3> QED BY <1>3, <2>1, <3>1
  <2>3. <<x, r>> \in Edges(g)
    BY <2>1, <2>2 DEF Edges, ContainsEvidence
  <2> QED BY <1>2, <2>1, <2>3 DEF Nodes
<1>5. ASSUME NEW x \in g.evidence, derived[x] \cap W # {}
      PROVE  x \in W
  <2>1. PICK d \in W : d \in derived[x]
    BY <1>5
  <2>2. d \in g.evidence
    <3>1. derived[x] \in SUBSET Evidence
      BY <1>1 DEF TypeOK
    <3> QED BY <1>3, <2>1, <3>1
  <2>3. <<d, x>> \in Edges(g)
    BY <2>1, <2>2 DEF Edges, DerivedFrom
  <2> QED BY <1>2, <2>1, <2>3 DEF Nodes
<1>6. ASSUME NEW x \in g.evidence, producer[x] \in W \cap g.runs
      PROVE  x \in W
  <2>1. <<producer[x], x>> \in Edges(g)
    BY <1>6 DEF Edges, Produced
  <2> QED BY <1>2, <1>6, <2>1 DEF Nodes
<1>7. W \in SUBSET All
  BY <1>1, <1>2
<1> QED BY <1>2, <1>4, <1>5, <1>6, <1>7 DEF Holds, W

(***************************************************************************)
(* The routes: what a request has read is there, what it is about to tag   *)
(* is reached, and what it is to tag is reached by what it reads.          *)
(***************************************************************************)
Graphed == {"graph", "capsules", "evidence"}
RoutedAt(q) ==
    /\ \A r \in seen[q].capsules : capsule[r] # None
    /\ seen[q].evidence \subseteq Known
    /\ route[q] \notin {"new", "failed"} => q \in ended
    /\ seen[q].todo \subseteq Affected(q.evidence, Runs)
Routed ==
    /\ \A q \in ended : status[q.evidence] \in Ends
    /\ \A q \in Requests : RoutedAt(q)

\* The capsules and the Evidence that the graph will have, at least.
Capsules(q) == IF route[q] = "capsules" THEN seen[q].capsules ELSE {r \in Runs : capsule[r] # None}
Versions(q) == IF route[q] = "evidence" THEN seen[q].evidence ELSE Known
Reaches(q) ==
    /\ q.evidence \in Versions(q)
    /\ \A S \in SUBSET All :
          /\ q.evidence \in S
          /\ Holds(S, seen[q].runs, Capsules(q), Versions(q), capsule, derived, producer)
          => due[q] \subseteq S

IsTagged(q, r) == \E i \in DOMAIN history[r] : history[r][i].state = TagOf(q) /\ history[r][i].trigger = q.evidence
Tagging ==
    \A q \in Requests :
        /\ route[q] \in Graphed => Reaches(q)
        /\ route[q] = "tagging" => \A r \in due[q] : r \in seen[q].todo \/ IsTagged(q, r)
        /\ route[q] = "done" => \A r \in due[q] : IsTagged(q, r)

LEMMA RoutesInit == Init => Routed /\ Tagging
  BY DEF Init, Routed, RoutedAt, Tagging, Graphed, NotRead

\* What a step does to the requests: nothing, or it is one's.
LEMMA RouteShapes ==
    ASSUME [Next]_vars
    PROVE  \/ UNCHANGED <<route, seen, due>>
           \/ \E q \in Requests : RouteStep(q)
           \/ Crash
<1> USE DEF stores, plane, saved, builds, routes, work, ghosts
<1>1. CASE UNCHANGED vars
  BY <1>1 DEF vars
<1>2. ASSUME NEW r \in Runs, RunStep(r)
      PROVE  UNCHANGED <<route, seen, due>>
  BY <1>2 DEF RunStep, SendMessage, Read, WriteCapsule, WriteIndex, BuildFails
<1>3. ASSUME NEW p \in Proposals, Commit(p)
      PROVE  UNCHANGED <<route, seen, due>>
  BY <1>3 DEF Commit
<1>4. ASSUME NEW a \in Agents, Delete(a)
      PROVE  UNCHANGED <<route, seen, due>>
  BY <1>4 DEF Delete
<1>5. ASSUME NEW c \in Reconciles, ReconcileStep(c)
      PROVE  UNCHANGED <<route, seen, due>>
  <2>1. CASE Reconcile(c) \/ Check(c) \/ LookUp(c) \/ StartFails(c)
    BY <2>1 DEF Reconcile, Check, LookUp, StartFails
  <2>2. CASE StartRun(c)
    BY <2>2 DEF StartRun
  <2>3. CASE PollFails(c) \/ MarkRecovered(c) \/ MarkRecoveredFails(c) \/ RecordOutcome(c) \/ RecordFails(c)
    BY <2>3 DEF PollFails, MarkRecovered, MarkRecoveredFails, RecordOutcome, RecordFails
  <2> QED BY <1>5, <2>1, <2>2, <2>3 DEF ReconcileStep
<1> QED BY <1>1, <1>2, <1>3, <1>4, <1>5 DEF Next

LEMMA RoutedStep ==
    ASSUME Typed, Files, Routed, [Next]_vars
    PROVE  Routed'
<1> USE DEF stores, plane, saved, builds, routes, work, ghosts
<1>1. /\ route \in [Requests -> RouteStates] /\ seen \in [Requests -> Reading]
      /\ \A q \in Requests : q.evidence \in Evidence /\ q.end \in Ends
      /\ status \in [Evidence -> {"none", "ACTIVE"} \cup Ends] /\ ended \subseteq Requests
      /\ capsule \in [Runs -> (SUBSET Evidence) \cup {None}]
  BY DEF Typed, TypeOK, RouteStates, Ends
<1>2. Stays
  BY StaysStep
<1>3. Known \subseteq Known'
  BY <1>2 DEF Stays
<1>4. \A e : Affected(e, Runs) \subseteq Affected(e, Runs)'
  BY <1>2, AffectedGrows
<1>5. \A q \in ended' : status'[q.evidence] \in Ends
  <2>1. ASSUME NEW q \in Requests, EndEvidence(q)
        PROVE  status'[q.evidence] \in Ends /\ ended' = ended \cup {q}
    BY <1>1, <2>1 DEF EndEvidence
  <2>2. \A q \in ended : status'[q.evidence] \in Ends
    BY <1>1, <1>2 DEF Routed, Stays
  <2> QED BY <2>1, <2>2, Shapes
<1>6. \A r \in Runs : capsule[r] # None => capsule'[r] # None
  BY <1>2 DEF Stays
\* What a request has read stays there.
<1>7. ASSUME NEW q \in Requests, seen'[q] = seen[q] \/ seen'[q] = NotRead,
             route'[q] \notin {"new", "failed"} => q \in ended'
      PROVE  RoutedAt(q)'
  <2>1. RoutedAt(q) /\ seen[q].capsules \subseteq Runs
    BY <1>1 DEF Routed, Reading
  <2>2. CASE seen'[q] = seen[q]
    BY <1>3, <1>4, <1>6, <1>7, <2>1, <2>2 DEF RoutedAt
  <2>3. CASE seen'[q] = NotRead
    BY <1>7, <2>3 DEF RoutedAt, NotRead
  <2> QED BY <1>7, <2>2, <2>3
<1>8. ASSUME NEW q \in Requests, seen'[q] = seen[q], route'[q] = route[q]
      PROVE  RoutedAt(q)'
  <2>1. route[q] \notin {"new", "failed"} => q \in ended'
    BY <1>2 DEF Routed, RoutedAt, Stays
  <2> QED BY <1>7, <1>8, <2>1
<1>9. CASE UNCHANGED <<route, seen, due>>
  BY <1>5, <1>8, <1>9 DEF Routed
<1>10. CASE Crash
  <2>1. ASSUME NEW q \in Requests PROVE RoutedAt(q)'
    <3>1. seen'[q] = NotRead /\ (route'[q] \notin {"new", "failed"} => route[q] \notin {"new", "failed"})
      BY <1>1, <1>10 DEF Crash
    <3>2. route'[q] \notin {"new", "failed"} => q \in ended'
      BY <1>2, <3>1 DEF Routed, RoutedAt, Stays
    <3> QED BY <1>7, <3>1, <3>2
  <2> QED BY <1>5, <2>1 DEF Routed
<1>11. ASSUME NEW q \in Requests, RouteStep(q)
       PROVE  Routed'
  <2>1. ASSUME NEW p \in Requests, p # q PROVE RoutedAt(p)'
    <3>1. seen'[p] = seen[p] /\ route'[p] = route[p]
      BY <1>1, <1>11, <2>1
      DEF RouteStep, EndEvidence, Snapshot, ReadCapsules, ReadEvidence, Arrives, Tag, RouteFails, Goto
    <3> QED BY <1>8, <3>1
  <2>2. CASE EndEvidence(q)
    <3>1. q \in ended' /\ seen'[q] = seen[q]
      BY <1>1, <2>2 DEF EndEvidence
    <3>2. RoutedAt(q)'
      BY <1>7, <3>1
    <3> QED BY <1>5, <2>1, <3>2 DEF Routed
  <2>3. CASE RouteFails(q)
    <3>1. seen'[q] = NotRead /\ route'[q] = "failed"
      BY <1>1, <2>3 DEF RouteFails, Goto
    <3>2. RoutedAt(q)'
      BY <1>7, <3>1
    <3> QED BY <1>5, <2>1, <3>2 DEF Routed
  \* The others are under way.
  <2>4. ASSUME route[q] \notin {"new", "failed"}
        PROVE  q \in ended'
    BY <1>2, <2>4 DEF Routed, RoutedAt, Stays
  <2>5. ASSUME Snapshot(q) \/ \E r \in Runs : Tag(q, r)
        PROVE  Routed'
    <3> DEFINE Keeps == /\ seen'[q].capsules = seen[q].capsules /\ seen'[q].evidence = seen[q].evidence
                        /\ seen'[q].todo \subseteq seen[q].todo /\ route[q] \notin {"new", "failed"}
    <3>1. Keeps
      <4>1. CASE Snapshot(q)
        <5>1. seen'[q] = [seen[q] EXCEPT !.runs = listed] /\ seen[q] \in Reading
          BY <1>1, <4>1 DEF Snapshot
        <5> QED BY <4>1, <5>1 DEF Snapshot, Reading
      <4>2. ASSUME NEW r \in Runs, Tag(q, r)
            PROVE  Keeps
        <5>1. seen'[q] = [seen[q] EXCEPT !.todo = seen[q].todo \ {r}] /\ seen[q] \in Reading
          BY <1>1, <4>2 DEF Tag
        <5> QED BY <4>2, <5>1 DEF Tag, Reading
      <4> QED BY <2>5, <4>1, <4>2
    <3>2. RoutedAt(q) /\ seen[q].capsules \subseteq Runs
      BY <1>1 DEF Routed, Reading
    <3>3. RoutedAt(q)'
      BY <1>3, <1>4, <1>6, <2>4, <3>1, <3>2 DEF RoutedAt
    <3> QED BY <1>5, <2>1, <3>3 DEF Routed
  <2>6. ASSUME ReadCapsules(q) \/ ReadEvidence(q)
        PROVE  Routed'
    <3>1. PICK g, next :
              /\ \/ g = [seen[q] EXCEPT !.capsules = {r \in Runs : capsule[r] # None}]
                 \/ g = [seen[q] EXCEPT !.evidence = Known]
              /\ Arrives(q, g, next)
      BY <2>6 DEF ReadCapsules, ReadEvidence
    <3>2. g \in Reading
      <4>1. {r \in Runs : capsule[r] # None} \in SUBSET Runs /\ Known \in SUBSET Evidence
        BY DEF Known
      <4>2. seen[q] \in Reading
        BY <1>1
      <4>3. CASE g = [seen[q] EXCEPT !.capsules = {r \in Runs : capsule[r] # None}]
        BY <4>1, <4>2, <4>3, ReadingTyping
      <4>4. CASE g = [seen[q] EXCEPT !.evidence = Known]
        BY <4>1, <4>2, <4>4, ReadingTyping
      <4> QED BY <3>1, <4>3, <4>4
    <3>3. (\A r \in g.capsules : r \in Runs /\ capsule[r] # None) /\ g.evidence \subseteq Known
          /\ g.todo = seen[q].todo
      BY <1>1, <3>1 DEF Routed, RoutedAt, Reading
    <3>4. route[q] \notin {"new", "failed"} /\ UNCHANGED <<stores, saved>>
      BY <2>6 DEF ReadCapsules, ReadEvidence
    <3>5. CASE route[q] = "graph"
      <4>1. seen'[q] = g
        BY <1>1, <3>1, <3>5 DEF Arrives
      <4>2. g.todo \subseteq Affected(q.evidence, Runs)'
        BY <1>4, <3>3 DEF Routed, RoutedAt
      <4>3. RoutedAt(q)'
        BY <1>3, <1>6, <2>4, <3>3, <3>4, <4>1, <4>2 DEF RoutedAt
      <4> QED BY <1>5, <2>1, <4>3 DEF Routed
    <3>6. CASE route[q] # "graph"
      <4>1. seen'[q] = [NotRead EXCEPT !.todo = RunIds(g, q.evidence)]
        BY <1>1, <3>1, <3>6 DEF Arrives
      <4>2. RunIds(g, q.evidence) \subseteq Affected(q.evidence, Runs)
        BY <1>1, <3>2, <3>3, WalkDownstream
      <4>3. RoutedAt(q)'
        BY <1>4, <2>4, <3>4, <4>1, <4>2 DEF RoutedAt, NotRead
      <4> QED BY <1>5, <2>1, <4>3 DEF Routed
    <3> QED BY <3>5, <3>6
  <2> QED BY <1>11, <2>2, <2>3, <2>5, <2>6 DEF RouteStep
<1> QED BY <1>9, <1>10, <1>11, RouteShapes

\* A graph that has more only reaches more.
LEMMA ReachesMore ==
    ASSUME Stays, NEW q \in Requests, Reaches(q), RoutedAt(q),
           seen'[q].runs = seen[q].runs, due'[q] = due[q], seen[q].runs \subseteq Runs,
           Capsules(q) \subseteq Capsules(q)', Versions(q) \subseteq Versions(q)'
    PROVE  Reaches(q)'
<1>1. (\A r \in Capsules(q) : capsule[r] # None) /\ Versions(q) \subseteq Known
  BY DEF Capsules, Versions, RoutedAt
<1>2. ASSUME NEW S \in SUBSET All, q.evidence \in S,
             Holds(S, seen'[q].runs, Capsules(q)', Versions(q)', capsule', derived', producer')
      PROVE  due[q] \subseteq S
  <2>1. \A r \in seen[q].runs \cap Capsules(q) : capsule'[r] = capsule[r]
    BY <1>1 DEF Stays
  <2>2. \A x \in Versions(q) : derived'[x] = derived[x] /\ producer'[x] = producer[x]
    BY <1>1 DEF Stays
  <2>3. Holds(S, seen[q].runs, Capsules(q), Versions(q), capsule, derived, producer)
    BY <1>2, <2>1, <2>2 DEF Holds
  <2> QED BY <1>2, <2>3 DEF Reaches
<1> QED BY <1>2 DEF Reaches

LEMMA TaggingStep ==
    ASSUME Typed, Files, Routed, Tagging, [Next]_vars
    PROVE  Tagging'
<1> USE DEF stores, plane, saved, builds, routes, work, ghosts
<1>1. /\ route \in [Requests -> RouteStates] /\ seen \in [Requests -> Reading]
      /\ due \in [Requests -> SUBSET Runs]
      /\ \A q \in Requests : q.evidence \in Evidence /\ q.end \in Ends
      /\ capsule \in [Runs -> (SUBSET Evidence) \cup {None}]
  BY DEF Typed, TypeOK, RouteStates, Ends
<1>2. Stays
  BY StaysStep
<1>3. Known \subseteq Known' /\ \A r \in Runs : capsule[r] # None => capsule'[r] # None
  BY <1>2 DEF Stays
<1>4. \A q \in Requests, r \in Runs : IsTagged(q, r) => IsTagged(q, r)'
  BY HistoryGrows DEF Grow, IsTagged, TagOf
<1> DEFINE TaggingAt(q) ==
               /\ route[q] \in Graphed => Reaches(q)
               /\ route[q] = "tagging" => \A r \in due[q] : r \in seen[q].todo \/ IsTagged(q, r)
               /\ route[q] = "done" => \A r \in due[q] : IsTagged(q, r)
<1>5. (Tagging => \A q \in Requests : TaggingAt(q)) /\ ((\A q \in Requests : TaggingAt(q)') => Tagging')
  BY DEF Tagging
\* A request whose turn it is not.
<1>6. ASSUME NEW q \in Requests, route'[q] = route[q], seen'[q] = seen[q], due'[q] = due[q]
      PROVE  TaggingAt(q)'
  <2>1. Capsules(q) \subseteq Capsules(q)' /\ Versions(q) \subseteq Versions(q)' /\ seen[q].runs \subseteq Runs
    BY <1>1, <1>3, <1>6 DEF Capsules, Versions, Reading
  <2>2. Reaches(q) => Reaches(q)'
    BY <1>2, <1>6, <2>1, ReachesMore DEF Routed
  <2>3. due[q] \subseteq Runs
    BY <1>1
  <2> QED BY <1>4, <1>5, <1>6, <2>2, <2>3
<1>7. CASE UNCHANGED <<route, seen, due>>
  BY <1>5, <1>6, <1>7
<1>8. CASE Crash
  <2>1. ASSUME NEW q \in Requests PROVE TaggingAt(q)'
    <3>1. /\ route'[q] \notin Graphed \cup {"tagging"} /\ due'[q] = due[q]
          /\ route'[q] = "done" => route[q] = "done"
      BY <1>1, <1>8 DEF Crash, Graphed
    <3>2. due[q] \subseteq Runs
      BY <1>1
    <3> QED BY <1>4, <1>5, <3>1, <3>2
  <2> QED BY <1>5, <2>1
<1>9. ASSUME NEW q \in Requests, RouteStep(q)
      PROVE  Tagging'
  <2>1. ASSUME NEW p \in Requests, p # q PROVE TaggingAt(p)'
    <3>1. seen'[p] = seen[p] /\ route'[p] = route[p] /\ due'[p] = due[p]
      BY <1>1, <1>9, <2>1
      DEF RouteStep, EndEvidence, Snapshot, ReadCapsules, ReadEvidence, Arrives, Tag, RouteFails, Goto
    <3> QED BY <1>6, <3>1
  <2>2. SUFFICES TaggingAt(q)'
    BY <1>5, <2>1, <2>2
  <2>3. CASE EndEvidence(q) \/ RouteFails(q)
    <3>1. route'[q] \in {"ended", "failed"}
      BY <1>1, <2>3 DEF EndEvidence, RouteFails, Goto
    <3> QED BY <3>1 DEF Graphed
  <2>4. CASE Snapshot(q)
    <3>1. /\ route'[q] = "graph" /\ seen'[q].runs = listed /\ UNCHANGED <<stores, plane, saved>>
          /\ due'[q] = Affected(q.evidence, listed)
      BY <1>1, <2>4 DEF Snapshot, Goto, Reading
    <3>2. q.evidence \in Known
      <4>1. q \in ended
        BY <2>4 DEF Snapshot, Routed, RoutedAt
      <4> QED BY <1>1, <4>1 DEF Routed, Known, Ends
    <3>3. Versions(q)' = Known /\ Capsules(q)' = {r \in Runs : capsule[r] # None}
      BY <3>1 DEF Versions, Capsules, Known
    <3>4. ASSUME NEW S \in SUBSET All, q.evidence \in S,
                 Holds(S, listed, {r \in Runs : capsule[r] # None}, Known, capsule, derived, producer)
          PROVE  Affected(q.evidence, listed) \subseteq S
      <4>1. listed \subseteq Runs
        BY DEF Typed, TypeOK
      <4>2. Closed(S, listed)
        BY <3>4, <4>1 DEF Holds, Closed
      <4> QED BY <3>4, <4>1, <4>2 DEF Affected, All
    <3>5. Reaches(q)'
      BY <3>1, <3>2, <3>3, <3>4 DEF Reaches
    <3> QED BY <3>1, <3>5 DEF Graphed
  <2>5. ASSUME NEW r \in Runs, Tag(q, r)
        PROVE  TaggingAt(q)'
    <3>1. /\ route[q] = "tagging" /\ due'[q] = due[q] /\ seen'[q].todo = seen[q].todo \ {r}
          /\ route'[q] = IF seen[q].todo = {r} THEN "done" ELSE "tagging"
      <4>1. seen'[q] = [seen[q] EXCEPT !.todo = seen[q].todo \ {r}] /\ seen[q] \in Reading
        BY <1>1, <2>5 DEF Tag
      <4> QED BY <1>1, <2>5, <4>1 DEF Tag, Goto, Reading
    <3>2. IsTagged(q, r)'
      <4>1. Transition(r, TagOf(q), q.evidence, None)
        BY <2>5 DEF Tag
      <4>2. /\ Len(history[r]) + 1 \in DOMAIN history'[r]
            /\ history'[r][Len(history[r]) + 1] = [state |-> TagOf(q), trigger |-> q.evidence, by |-> None]
        <5>1. Len(history[r]) \in Nat
          BY DEF Typed, TypeOK
        <5> QED BY <4>1, <5>1, TransitionGrows
      <4> QED BY <4>2 DEF IsTagged, TagOf
    <3>3. \A x \in due[q] : x \in seen[q].todo \/ IsTagged(q, x)'
      BY <1>1, <1>4, <1>5, <3>1
    <3>4. \A x \in due[q] : x \in seen[q].todo \ {r} \/ IsTagged(q, x)'
      BY <3>2, <3>3
    <3> QED BY <3>1, <3>4 DEF Graphed
  <2>6. ASSUME ReadCapsules(q) \/ ReadEvidence(q)
        PROVE  TaggingAt(q)'
    <3>1. /\ route[q] \in Graphed /\ UNCHANGED <<stores, saved, due>> /\ Reaches(q) /\ RoutedAt(q)
          /\ due[q] \in SUBSET Runs
      BY <1>1, <1>5, <2>6 DEF ReadCapsules, ReadEvidence, Graphed, Routed
    <3>2. PICK g, next :
              /\ \/ /\ g = [seen[q] EXCEPT !.capsules = {r \in Runs : capsule[r] # None}]
                    /\ route[q] # "capsules" /\ next = "capsules"
                 \/ /\ g = [seen[q] EXCEPT !.evidence = Known]
                    /\ route[q] # "evidence" /\ next = "evidence"
              /\ Arrives(q, g, next)
      BY <2>6 DEF ReadCapsules, ReadEvidence
    <3>3. /\ g \in Reading /\ g.runs = seen[q].runs
          /\ route[q] # "graph" => g.capsules = Capsules(q) /\ g.evidence = Versions(q)
          /\ next = "capsules" => g.capsules = {r \in Runs : capsule[r] # None}
          /\ next = "evidence" => g.evidence = Known
          /\ \A r \in g.capsules : capsule[r] # None
      <4>1. seen[q] \in Reading /\ Known \in SUBSET Evidence
        BY <1>1 DEF Known
      <4>2. CASE next = "capsules"
        <5>1. g = [seen[q] EXCEPT !.capsules = {r \in Runs : capsule[r] # None}] /\ route[q] # "capsules"
          BY <3>2, <4>2
        <5> QED BY <3>1, <4>1, <4>2, <5>1 DEF Reading, Capsules, Versions, Graphed
      <4>3. CASE next = "evidence"
        <5>1. g = [seen[q] EXCEPT !.evidence = Known] /\ route[q] # "evidence"
          BY <3>2, <4>3
        <5> QED BY <3>1, <4>1, <4>3, <5>1 DEF Reading, Capsules, Versions, Graphed, RoutedAt
      <4> QED BY <3>2, <4>2, <4>3
    <3>4. CASE route[q] = "graph"
      <4>1. route'[q] = next /\ seen'[q] = g
        BY <1>1, <3>2, <3>4 DEF Arrives, Goto
      <4>2. Capsules(q)' = Capsules(q) /\ Versions(q)' = Versions(q)
        BY <3>1, <3>2, <3>3, <3>4, <4>1 DEF Capsules, Versions, Known
      <4>3. Reaches(q)'
        <5>1. seen'[q].runs = seen[q].runs /\ due'[q] = due[q] /\ seen[q].runs \subseteq Runs
          BY <1>1, <3>1, <3>3, <4>1 DEF Reading
        <5> QED BY <1>2, <3>1, <4>2, <5>1, ReachesMore
      <4> QED BY <3>2, <4>1, <4>3 DEF Graphed
    <3>5. CASE route[q] # "graph"
      <4>1. /\ q.evidence \in Walk(g, q.evidence) /\ Walk(g, q.evidence) \in SUBSET All
            /\ Holds(Walk(g, q.evidence), g.runs, g.capsules, g.evidence, capsule, derived, producer)
        <5>1. q.evidence \in g.evidence
          BY <3>1, <3>3, <3>5 DEF Reaches
        <5> QED BY <3>3, <5>1, WalkHolds DEF Typed
      <4>2. due[q] \subseteq Walk(g, q.evidence)
        BY <3>1, <3>3, <3>5, <4>1 DEF Reaches
      <4>3. due[q] \subseteq RunIds(g, q.evidence)
        BY <3>1, <4>2 DEF RunIds
      <4>4. /\ seen'[q].todo = RunIds(g, q.evidence)
            /\ route'[q] = IF RunIds(g, q.evidence) = {} THEN "done" ELSE "tagging"
        <5> DEFINE todo == RunIds(g, q.evidence)
        <5>1. /\ seen' = [seen EXCEPT ![q] = [NotRead EXCEPT !.todo = todo]]
              /\ route' = [route EXCEPT ![q] = IF todo = {} THEN "done" ELSE "tagging"]
          BY <3>2, <3>5 DEF Arrives, Goto
        <5> HIDE DEF todo
        <5>2. seen'[q].todo = todo /\ route'[q] = IF todo = {} THEN "done" ELSE "tagging"
          BY <1>1, <5>1 DEF NotRead
        <5> QED BY <5>2 DEF todo
      <4> QED BY <3>1, <4>3, <4>4 DEF Graphed
    <3> QED BY <3>4, <3>5
  <2> QED BY <1>9, <2>3, <2>4, <2>5, <2>6 DEF RouteStep
<1> QED BY <1>7, <1>8, <1>9, RouteShapes

(***************************************************************************)
(* The histories: each entry is right, and a recovery follows a tag.       *)
(***************************************************************************)
Rightful(r, h) ==
    IF h.state = "RECOVERED"
    THEN h.trigger = None /\ h.by \in Runs \ {r} /\ AgentOf[h.by] = AgentOf[r]
    ELSE /\ h.trigger \in Evidence /\ r \in Affected(h.trigger, Runs)
         /\ [evidence |-> h.trigger,
             end |-> IF h.state = "TAINTED" THEN "COMPROMISED" ELSE "REVOKED"] \in ended
Entries ==
    \A r \in Runs : \A i \in DOMAIN history[r] :
        /\ Rightful(r, history[r][i])
        /\ history[r][i].state = "RECOVERED" => i > 1 /\ history[r][i-1].state \in Recoverable

\* Of a request in stage s with job j: what it has read is over, and its replacement is
\* another Run of the Agent that has read none of it.
Unread(r, T) == reading[r] \cap T = {} /\ (capsule[r] # None => capsule[r] \cap T = {})
IsMarked(r, by) == \E i \in DOMAIN history[r] : history[r][i].state = "RECOVERED" /\ history[r][i].by = by
JobRight(c, s, j) ==
    /\ s = "checked" => \E i \in DOMAIN history[j.stale] : history[j.stale][i].state \in Recoverable
    /\ s = "starting" => j.stale \in index
    /\ s \in {"starting"} \cup Started => j.triggers # {} /\ \A e \in j.triggers : status[e] \in Ends
    /\ s \in Started => /\ j.replacement \in Runs \ {j.stale} /\ AgentOf[j.replacement] = AgentOf[j.stale]
                        /\ Unread(j.replacement, j.triggers)
    /\ s = "recovered" => j.replacement \in index /\ IsMarked(j.stale, j.replacement)
    /\ s = "completed" => \E x \in records : x.id = c /\ x.result = "COMPLETED"
Jobs == \A c \in Reconciles : JobRight(c, stage[c], job[c])

LEMMA EntriesInit == Init => Entries /\ Jobs
<1>1. DOMAIN << >> = {}
  OBVIOUS
<1> QED BY <1>1 DEF Init, Entries, Jobs, JobRight, Started

\* Entries stay right, and those that are new are to be.
LEMMA EntriesStay ==
    ASSUME Typed, Stays, Entries, NEW r \in Runs, NEW h, Rightful(r, h)
    PROVE  Rightful(r, h)'
  BY AffectedGrows DEF Rightful, Stays

LEMMA EntryAdded ==
    ASSUME Typed, Stays, Entries, NEW r \in Runs, NEW s, NEW t, NEW b, Transition(r, s, t, b),
           NEW h, h = [state |-> s, trigger |-> t, by |-> b], Rightful(r, h)',
           s = "RECOVERED" => StateOf(r) \in Recoverable
    PROVE  Entries'
<1>1. /\ Grow
      /\ DOMAIN history'[r] = 1 .. Len(history[r]) + 1 /\ DOMAIN history[r] = 1 .. Len(history[r])
      /\ history'[r][Len(history[r]) + 1] = h
      /\ \A q \in Runs \ {r} : history'[q] = history[q]
  BY TransitionGrows
<1>2. Len(history[r]) \in Nat
  BY DEF Typed, TypeOK
<1>3. ASSUME NEW q \in Runs, NEW i \in DOMAIN history[q]
      PROVE  /\ Rightful(q, history[q][i])'
             /\ history'[q][i].state = "RECOVERED" => i > 1 /\ history'[q][i-1].state \in Recoverable
  <2>1. PICK k : k = history[q][i]
    OBVIOUS
  <2>2. Rightful(q, k)'
    BY <2>1, EntriesStay DEF Entries
  <2>3. history'[q][i] = k
    BY <1>1, <2>1 DEF Grow
  <2>4. ASSUME k.state = "RECOVERED"
        PROVE  i > 1 /\ history'[q][i-1].state \in Recoverable
    <3>1. i > 1 /\ history[q][i-1].state \in Recoverable
      BY <2>1, <2>4 DEF Entries
    <3>2. i - 1 \in DOMAIN history[q]
      <4>1. history[q] \in Seq(Entry)
        BY DEF Typed, TypeOK
      <4>2. DOMAIN history[q] = 1 .. Len(history[q]) /\ Len(history[q]) \in Nat
        BY <4>1
      <4> QED BY <3>1, <4>2
    <3>3. history'[q][i-1] = history[q][i-1]
      BY <1>1, <3>2 DEF Grow
    <3> QED BY <3>1, <3>3
  <2>5. Rightful(q, history[q][i])'
    <3>1. k = history[q][i]'
      BY <2>3
    <3> QED BY <2>2, <3>1
  <2> QED BY <2>3, <2>4, <2>5
<1>4. ASSUME s = "RECOVERED"
      PROVE  Len(history[r]) >= 1 /\ history'[r][Len(history[r])].state \in Recoverable
  <2>1. history[r] # << >> /\ history[r][Len(history[r])].state \in Recoverable
    <3>1. "CLEAN" \notin Recoverable
      BY DEF Recoverable
    <3> QED BY <1>4, <3>1 DEF StateOf, Last
  <2>2. Len(history[r]) >= 1
    <3>1. history[r] \in Seq(Entry)
      BY DEF Typed, TypeOK
    <3> QED BY <1>2, <2>1, <3>1, EmptySeq
  <2>3. history'[r][Len(history[r])] = history[r][Len(history[r])]
    BY <1>1, <1>2, <2>2 DEF Grow
  <2> QED BY <2>1, <2>2, <2>3
<1>5. /\ Rightful(r, h)' /\ history'[r][Len(history[r]) + 1] = h
      /\ h.state = "RECOVERED" => /\ Len(history[r]) + 1 > 1
                                  /\ history'[r][(Len(history[r]) + 1) - 1].state \in Recoverable
  <2>1. h.state = s /\ (Len(history[r]) + 1) - 1 = Len(history[r])
    BY <1>2
  <2> QED BY <1>1, <1>2, <1>4, <2>1
<1>6. ASSUME NEW q \in Runs, NEW i \in DOMAIN history'[q]
      PROVE  /\ Rightful(q, history[q][i])'
             /\ history'[q][i].state = "RECOVERED" => i > 1 /\ history'[q][i-1].state \in Recoverable
  <2>1. i \in DOMAIN history[q] \/ (q = r /\ i = Len(history[r]) + 1)
    BY <1>1, <1>2
  <2>2. CASE i \in DOMAIN history[q]
    BY <1>3, <2>2
  <2>3. CASE q = r /\ i = Len(history[r]) + 1
    <3>1. PICK n : n = Len(history[r]) + 1
      OBVIOUS
    <3>2. i = n /\ history'[r][n] = h
      BY <1>5, <2>3, <3>1
    <3>3. Rightful(q, history[q][i])'
      BY <1>5, <2>3, <3>2
    <3> QED BY <1>5, <2>3, <3>3
  <2> QED BY <2>1, <2>2, <2>3
<1> QED BY <1>6 DEF Entries

LEMMA EntriesStep ==
    ASSUME Typed, Files, Routed, Entries, Jobs, [Next]_vars
    PROVE  Entries'
<1> USE DEF stores, plane, saved, builds, routes, work, ghosts
<1>1. Stays /\ Grow
  BY StaysStep, HistoryGrows
<1>2. ASSUME UNCHANGED history PROVE Entries'
  <2>1. ASSUME NEW r \in Runs, NEW i \in DOMAIN history[r]
        PROVE  Rightful(r, history[r][i])'
    <3>1. PICK k : k = history[r][i]
      OBVIOUS
    <3>2. Rightful(r, k)'
      BY <1>1, <3>1, EntriesStay DEF Entries
    <3>3. history'[r][i] = k
      BY <1>2, <3>1
    <3> QED BY <3>2, <3>3
  <2> QED BY <1>2, <2>1 DEF Entries
<1>3. ASSUME NEW q \in Requests, NEW r \in Runs, Tag(q, r)
      PROVE  Entries'
  <2>1. Transition(r, TagOf(q), q.evidence, None) /\ route[q] = "tagging" /\ r \in seen[q].todo
    BY <1>3 DEF Tag
  <2>2. q \in ended /\ r \in Affected(q.evidence, Runs) /\ q.evidence \in Evidence
    BY <2>1 DEF Routed, RoutedAt
  <2>3. q = [evidence |-> q.evidence, end |-> q.end] /\ q.end \in {"REVOKED", "COMPROMISED"}
    OBVIOUS
  <2>4. PICK h : h = [state |-> TagOf(q), trigger |-> q.evidence, by |-> None]
    OBVIOUS
  <2>5. Rightful(r, h)
    <3>1. h.state = TagOf(q) /\ h.trigger = q.evidence
      BY <2>4
    <3>2. q.end = IF h.state = "TAINTED" THEN "COMPROMISED" ELSE "REVOKED"
      BY <2>3, <3>1 DEF TagOf
    <3> QED BY <2>2, <2>3, <3>1, <3>2 DEF Rightful, TagOf
  <2>6. Rightful(r, h)'
    BY <1>1, <2>5, EntriesStay
  <2>7. TagOf(q) # "RECOVERED"
    BY DEF TagOf
  <2> QED BY <1>1, <2>1, <2>4, <2>6, <2>7, EntryAdded
<1>4. ASSUME NEW c \in Reconciles, MarkRecovered(c), ~UNCHANGED history
      PROVE  Entries'
  <2>1. /\ stage[c] = "polling" /\ StateOf(job[c].stale) \in Recoverable
        /\ Transition(job[c].stale, "RECOVERED", None, job[c].replacement)
    BY <1>4 DEF MarkRecovered, At
  <2>2. PICK r, b : r = job[c].stale /\ b = job[c].replacement
    OBVIOUS
  <2>3. r \in Runs
    <3>1. job[c] \in Job
      BY <2>1 DEF Typed, TypeOK, JobTyped, Reconciling
    <3> QED BY <2>2, <3>1 DEF Job
  <2>4. b \in Runs \ {r} /\ AgentOf[b] = AgentOf[r]
    BY <2>1, <2>2 DEF Jobs, JobRight, Started
  <2>5. PICK h : h = [state |-> "RECOVERED", trigger |-> None, by |-> b]
    OBVIOUS
  <2>6. Rightful(r, h)'
    BY <2>4, <2>5 DEF Rightful
  <2> QED BY <1>1, <2>1, <2>2, <2>3, <2>5, <2>6, EntryAdded
<1>5. ASSUME NEW c \in Reconciles, ReconcileStep(c), ~MarkRecovered(c)
      PROVE  UNCHANGED history
  BY <1>5 DEF ReconcileStep, Reconcile, Check, LookUp, StartRun, StartFails, PollFails,
              MarkRecoveredFails, RecordOutcome, RecordFails
<1>6. Crash => UNCHANGED history
  BY DEF Crash
<1>7. Plain => UNCHANGED history
  BY Frames DEF Rest
<1> QED BY <1>2, <1>3, <1>4, <1>5, <1>6, <1>7, Frames DEF Next, Plain

(***************************************************************************)
(* The requests to reconcile.                                              *)
(***************************************************************************)
\* What is over is not read any more.
LEMMA UnreadStays ==
    ASSUME Typed, Files, [Next]_vars, NEW r \in Runs, NEW T, T \subseteq Evidence,
           \A e \in T : status[e] \in Ends, Unread(r, T)
    PROVE  Unread(r, T)'
<1> USE DEF stores, plane, saved, builds, routes, work, ghosts
<1>1. /\ reading \in [Runs -> SUBSET Evidence] /\ capsule \in [Runs -> (SUBSET Evidence) \cup {None}]
      /\ build \in [Runs -> {"new", "ok", "failed"} \cup Building]
  BY DEF Typed, TypeOK
<1>2. Stays
  BY StaysStep
<1>3. capsule[r] # None => capsule'[r] = capsule[r]
  BY <1>2 DEF Stays
<1>4. CASE UNCHANGED <<saved, builds>>
  BY <1>4 DEF Unread
<1>5. ASSUME NEW q \in Runs, Admit(q), UNCHANGED saved PROVE Unread(r, T)'
  BY <1>5 DEF Unread, Admit
<1>6. ASSUME NEW q \in Runs, Read(q) PROVE Unread(r, T)'
  <2>1. Readable \cap T = {}
    BY DEF Readable, Active, Ends
  <2>2. reading'[r] = reading[r] \/ reading'[r] \subseteq Readable
    BY <1>1, <1>6 DEF Read
  <2> QED BY <1>6, <2>1, <2>2 DEF Unread, Read
<1>7. ASSUME NEW q \in Runs, WriteCapsule(q) PROVE Unread(r, T)'
  <2>1. reading'[r] = reading[r] \/ reading'[r] = {}
    BY <1>1, <1>7 DEF WriteCapsule
  <2>2. capsule'[r] = capsule[r] \/ capsule'[r] = reading[r]
    BY <1>1, <1>7 DEF WriteCapsule
  <2> QED BY <2>1, <2>2 DEF Unread
<1>8. ASSUME NEW q \in Runs, WriteIndex(q) \/ BuildFails(q) PROVE Unread(r, T)'
  <2>1. reading'[r] = reading[r] \/ reading'[r] = {}
    BY <1>1, <1>8 DEF WriteIndex, BuildFails
  <2>2. UNCHANGED capsule
    BY <1>8 DEF WriteIndex, BuildFails
  <2> QED BY <2>1, <2>2 DEF Unread
<1>9. ASSUME Crash PROVE Unread(r, T)'
  BY <1>9 DEF Unread, Crash
<1> QED BY <1>4, <1>5, <1>6, <1>7, <1>8, <1>9, Shapes

\* A request that stays where it is.
LEMMA JobStays ==
    ASSUME Typed, Files, [Next]_vars, records \subseteq records',
           NEW c, NEW s, NEW j, s \notin {"new", "rejected", "failed"} => j \in Job, JobRight(c, s, j)
    PROVE  JobRight(c, s, j)'
<1>1. Stays /\ Grow
  BY StaysStep, HistoryGrows
<1>2. CASE s \in {"new", "rejected", "failed"}
  BY <1>2 DEF JobRight, Started
<1>3. CASE s \notin {"new", "rejected", "failed"}
  <2>1. j.stale \in Runs /\ j.triggers \subseteq Evidence
    BY <1>3 DEF Job
  <2>2. ASSUME s = "checked"
        PROVE  \E i \in DOMAIN history'[j.stale] : history'[j.stale][i].state \in Recoverable
    BY <1>1, <2>1, <2>2 DEF JobRight, Grow
  <2>3. s = "starting" => j.stale \in index'
    BY <1>1 DEF JobRight, Stays
  <2>4. s \in {"starting"} \cup Started => j.triggers # {} /\ \A e \in j.triggers : status'[e] \in Ends
    BY <1>1, <2>1 DEF JobRight, Stays
  <2>5. ASSUME s \in Started
        PROVE  /\ j.replacement \in Runs \ {j.stale} /\ AgentOf[j.replacement] = AgentOf[j.stale]
               /\ Unread(j.replacement, j.triggers)'
    <3>1. /\ j.replacement \in Runs \ {j.stale} /\ AgentOf[j.replacement] = AgentOf[j.stale]
          /\ Unread(j.replacement, j.triggers) /\ \A e \in j.triggers : status[e] \in Ends
      BY <2>5 DEF JobRight
    <3>2. PICK r \in Runs, T \in SUBSET Evidence : r = j.replacement /\ T = j.triggers
      BY <2>1, <3>1
    <3>3. Unread(r, T)'
      BY <3>1, <3>2, UnreadStays
    <3> QED BY <3>1, <3>2, <3>3
  <2>6. ASSUME s = "recovered"
        PROVE  j.replacement \in index' /\ IsMarked(j.stale, j.replacement)'
    BY <1>1, <2>1, <2>6 DEF JobRight, Stays, Grow, IsMarked
  <2>7. s = "completed" => \E x \in records' : x.id = c /\ x.result = "COMPLETED"
    BY DEF JobRight
  <2> QED BY <2>2, <2>3, <2>4, <2>5, <2>6, <2>7 DEF JobRight
<1> QED BY <1>2, <1>3

LEMMA RecordsGrow == ASSUME [Next]_vars PROVE records \subseteq records'
<1> USE DEF stores, plane, saved, builds, routes, work, ghosts
<1>1. Plain => UNCHANGED records
  BY Frames DEF Rest
<1>2. \A c \in Reconciles : ReconcileStep(c) => records \subseteq records'
  <2> SUFFICES ASSUME NEW c \in Reconciles, ReconcileStep(c) PROVE records \subseteq records'
    OBVIOUS
  <2>1. CASE Reconcile(c) \/ Check(c) \/ LookUp(c) \/ StartRun(c) \/ StartFails(c)
    BY <2>1 DEF Reconcile, Check, LookUp, StartRun, StartFails
  <2>2. CASE PollFails(c) \/ MarkRecovered(c) \/ MarkRecoveredFails(c) \/ RecordOutcome(c) \/ RecordFails(c)
    BY <2>2 DEF PollFails, MarkRecovered, MarkRecoveredFails, RecordOutcome, RecordFails
  <2> QED BY <2>1, <2>2 DEF ReconcileStep
<1>3. Crash => UNCHANGED records
  BY DEF Crash
<1> QED BY <1>1, <1>2, <1>3, Frames DEF Next, Plain

LEMMA JobsStep ==
    ASSUME Typed, Serial, Files, Routed, Entries, Jobs, [Next]_vars
    PROVE  Jobs'
<1> USE DEF stores, plane, saved, builds, routes, work, ghosts
<1>1. /\ stage \in [Reconciles -> Stages] /\ job \in [Reconciles -> Job \cup {None}]
      /\ history \in [Runs -> Seq(Entry)] /\ capsule \in [Runs -> (SUBSET Evidence) \cup {None}]
      /\ reading \in [Runs -> SUBSET Evidence]
      /\ \A d \in Reconciles : stage[d] \notin {"new", "rejected", "failed"} => job[d] \in Job
  <2>1. \A d \in Reconciles : stage[d] \notin {"new", "rejected", "failed"} => job[d] # None
    BY DEF Typed, TypeOK, JobTyped, Reconciling
  <2> QED BY <2>1 DEF Typed, TypeOK, Stages
<1>2. Stays /\ Grow /\ records \subseteq records'
  BY StaysStep, HistoryGrows, RecordsGrow
<1>3. ASSUME NEW d \in Reconciles, stage'[d] = stage[d] \/ stage'[d] \in {"failed"}, job'[d] = job[d]
      PROVE  JobRight(d, stage[d], job[d])'
  <2>1. CASE stage'[d] = "failed"
    BY <2>1 DEF JobRight, Started
  <2>2. CASE stage'[d] = stage[d]
    <3>1. PICK s, j : s = stage[d] /\ j = job[d]
      OBVIOUS
    <3>2. JobRight(d, s, j)'
      BY <1>1, <1>2, <3>1, JobStays DEF Jobs
    <3> QED BY <1>3, <2>2, <3>1, <3>2
  <2> QED BY <1>3, <2>1, <2>2
<1>4. CASE UNCHANGED <<stage, job>>
  BY <1>3, <1>4 DEF Jobs
<1>5. CASE Crash
  <2>1. \A d \in Reconciles : job'[d] = job[d] /\ (stage'[d] = stage[d] \/ stage'[d] = "failed")
    BY <1>1, <1>5 DEF Crash
  <2> QED BY <1>3, <2>1 DEF Jobs
<1>6. ASSUME NEW c \in Reconciles, ReconcileStep(c)
      PROVE  Jobs'
  <2>1. ASSUME NEW s, stage' = [stage EXCEPT ![c] = s], \A d \in Reconciles \ {c} : job'[d] = job[d],
               NEW j, j = job'[c], JobRight(c, s, j)'
        PROVE  Jobs'
    <3>1. ASSUME NEW d \in Reconciles, d # c PROVE JobRight(d, stage[d], job[d])'
      BY <1>1, <1>3, <2>1, <3>1
    <3>2. stage'[c] = s
      BY <1>1, <2>1
    <3>3. JobRight(c, stage[c], job[c])'
      BY <2>1, <3>2
    <3> QED BY <3>1, <3>3 DEF Jobs
  <2>2. ASSUME NEW s, s \in {"rejected", "queued", "failed", "unfound", "unrecovered"}, NEW j,
               s \in {"unfound", "unrecovered"} => JobRight(c, "polling", j) /\ j \in Job
        PROVE  JobRight(c, s, j)'
    <3>1. CASE s \in {"rejected", "queued", "failed"}
      BY <3>1 DEF JobRight, Started
    <3>2. CASE s \in {"unfound", "unrecovered"}
      <4>1. JobRight(c, "polling", j)'
        BY <1>2, <2>2, <3>2, JobStays
      <4> QED BY <3>2, <4>1 DEF JobRight, Started
    <3> QED BY <2>2, <3>1, <3>2
  <2>3. ASSUME NEW s, GetsOn(c, s)
        PROVE  /\ stage' = [stage EXCEPT ![c] = s] /\ \A d \in Reconciles \ {c} : job'[d] = job[d]
               /\ job[c] \in Job
               /\ s \notin {"starting", "polling"} => job'[c] = job[c]
    BY <1>1, <2>3 DEF GetsOn, Forward
  <2>4. CASE Reconcile(c)
    <3>1. stage' = [stage EXCEPT ![c] = "queued"] /\ \A d \in Reconciles \ {c} : job'[d] = job[d]
      BY <1>1, <2>4 DEF Reconcile
    <3> QED BY <2>1, <2>2, <3>1
  <2>5. CASE IsRejected(c)
    <3>1. stage' = [stage EXCEPT ![c] = "rejected"] /\ \A d \in Reconciles \ {c} : job'[d] = job[d]
      BY <1>1, <2>5 DEF IsRejected
    <3> QED BY <2>1, <2>2, <3>1
  <2>6. CASE Check(c) /\ GetsOn(c, "checked")
    <3>1. /\ stage' = [stage EXCEPT ![c] = "checked"] /\ \A d \in Reconciles \ {c} : job'[d] = job[d]
          /\ job'[c] = job[c] /\ job[c].stale \in Runs
      BY <2>3, <2>6 DEF GetsOn
    <3>2. StateOf(job[c].stale) \in Recoverable /\ UNCHANGED history
      <4>1. stage'[c] = "checked"
        BY <1>1, <3>1
      <4> QED BY <1>1, <2>6, <4>1 DEF Check, Rejects, Answers
    <3>3. PICK r, j : r = job[c].stale /\ j = job[c]
      OBVIOUS
    <3>4. \E i \in DOMAIN history'[r] : history'[r][i].state \in Recoverable
      <4>1. "CLEAN" \notin Recoverable
        BY DEF Recoverable
      <4>2. history[r] # << >> /\ history[r][Len(history[r])].state \in Recoverable
        BY <3>2, <3>3, <4>1 DEF StateOf, Last
      <4>3. Len(history[r]) \in DOMAIN history[r]
        <5>1. history[r] \in Seq(Entry)
          BY <1>1, <3>1, <3>3
        <5> QED BY <4>2, <5>1, EmptySeq
      <4> QED BY <3>2, <4>2, <4>3
    <3>5. JobRight(c, "checked", j)'
      BY <3>3, <3>4 DEF JobRight, Started
    <3> QED BY <2>1, <3>1, <3>3, <3>5
  <2>7. CASE LookUp(c) /\ GetsOn(c, "starting")
    <3>1. /\ stage' = [stage EXCEPT ![c] = "starting"] /\ \A d \in Reconciles \ {c} : job'[d] = job[d]
          /\ job[c] \in Job /\ stage[c] = "checked"
      BY <2>3, <2>7 DEF GetsOn, LookUp, At
    <3>2. PICK r \in Runs : r = job[c].stale
      BY <3>1 DEF Job
    <3>3. stage'[c] = "starting"
      BY <1>1, <3>1
    <3> DEFINE T == {h.trigger : h \in Range(history[r])} \ {None}
    <3>4. /\ r \in index /\ job' = [job EXCEPT ![c].triggers = T]
          /\ UNCHANGED <<history, status, index>>
      BY <1>1, <2>7, <3>2, <3>3 DEF LookUp, Rejects, Answers
    <3>5. job'[c].stale = r /\ job'[c].triggers = T
      <4> HIDE DEF T
      <4> QED BY <1>1, <3>1, <3>2, <3>4 DEF Job
    <3>6. T # {}
      <4>1. PICK i \in DOMAIN history[r] : history[r][i].state \in Recoverable
        BY <3>1, <3>2 DEF Jobs, JobRight
      <4>2. history[r][i].trigger \in Evidence
        BY <4>1 DEF Entries, Rightful, Recoverable
      <4> QED BY <4>2 DEF Range
    <3>7. ASSUME NEW e \in T PROVE status[e] \in Ends
      <4>1. PICK i \in DOMAIN history[r] : e = history[r][i].trigger /\ e # None
        BY DEF Range
      <4>2. history[r][i].state # "RECOVERED"
        BY <4>1 DEF Entries, Rightful
      <4>3. PICK q \in ended : q.evidence = e
        BY <4>1, <4>2 DEF Entries, Rightful
      <4> QED BY <4>3 DEF Routed
    <3> HIDE DEF T
    <3>8. PICK j : j = job'[c]
      OBVIOUS
    <3>9. JobRight(c, "starting", j)'
      <4>1. j.stale = r /\ j.triggers = T
        BY <3>5, <3>8
      <4>2. j.stale \in index' /\ j.triggers # {} /\ \A e \in j.triggers : status'[e] \in Ends
        BY <3>4, <3>6, <3>7, <4>1
      <4> QED BY <4>2 DEF JobRight, Started
    <3> QED BY <2>1, <3>1, <3>8, <3>9
  <2>8. CASE StartRun(c) /\ GetsOn(c, "polling")
    <3>1. /\ stage' = [stage EXCEPT ![c] = "polling"] /\ \A d \in Reconciles \ {c} : job'[d] = job[d]
          /\ job[c] \in Job /\ stage[c] = "starting" /\ UNCHANGED <<status, saved>>
      BY <2>3, <2>8 DEF GetsOn, StartRun, At
    <3>2. PICK r \in Runs : /\ AgentOf[r] = AgentOf[job[c].stale] /\ Admit(r)
                            /\ job' = [job EXCEPT ![c].replacement = r]
      BY <2>8 DEF StartRun
    <3>3. PICK j : j = job'[c]
      OBVIOUS
    <3>4. j.replacement = r /\ j.stale = job[c].stale /\ j.triggers = job[c].triggers
      BY <1>1, <3>1, <3>2, <3>3 DEF Job
    <3>5. j.stale \in index /\ j.triggers # {} /\ \A e \in j.triggers : status[e] \in Ends
      BY <3>1, <3>4 DEF Jobs, JobRight
    <3>6. r # j.stale
      BY <3>2, <3>5 DEF Admit, Files
    <3>7. reading'[r] = {} /\ capsule'[r] = None
      BY <3>1, <3>2 DEF Admit, Files
    <3>8. Unread(j.replacement, j.triggers)'
      BY <3>4, <3>7 DEF Unread
    <3>9. JobRight(c, "polling", j)'
      BY <3>1, <3>2, <3>4, <3>5, <3>6, <3>8 DEF JobRight, Started
    <3> QED BY <2>1, <3>1, <3>3, <3>9
  <2>9. CASE MarkRecovered(c) /\ GetsOn(c, "recovered")
    <3>1. /\ stage' = [stage EXCEPT ![c] = "recovered"] /\ \A d \in Reconciles \ {c} : job'[d] = job[d]
          /\ job[c] \in Job /\ job'[c] = job[c] /\ stage[c] = "polling"
      BY <2>3, <2>9 DEF GetsOn, MarkRecovered, At
    <3>2. PICK r \in Runs, b \in Runs, j \in Job : r = job[c].stale /\ b = job[c].replacement /\ j = job[c]
      BY <3>1 DEF Job, Jobs, JobRight, Started
    <3>3. b \in index /\ Transition(r, "RECOVERED", None, b) /\ UNCHANGED index
      <4>1. stage'[c] = "recovered"
        BY <1>1, <3>1
      <4> QED BY <1>1, <2>9, <3>2, <4>1 DEF MarkRecovered, Moves
    <3>4. IsMarked(r, b)'
      <4>1. Len(history[r]) \in Nat
        BY <1>1
      <4>2. /\ Len(history[r]) + 1 \in DOMAIN history'[r]
            /\ history'[r][Len(history[r]) + 1] = [state |-> "RECOVERED", trigger |-> None, by |-> b]
        BY <3>3, <4>1, TransitionGrows
      <4> QED BY <4>2 DEF IsMarked
    <3>5. JobRight(c, "polling", j)'
      BY <1>2, <3>1, <3>2, JobStays DEF Jobs
    <3>6. JobRight(c, "recovered", j)'
      BY <3>2, <3>3, <3>4, <3>5 DEF JobRight, Started
    <3> QED BY <2>1, <3>1, <3>2, <3>6
  <2>10. ASSUME NEW s \in {"unfound", "unrecovered"}, GetsOn(c, s)
         PROVE  Jobs'
    <3>1. /\ stage' = [stage EXCEPT ![c] = s] /\ \A d \in Reconciles \ {c} : job'[d] = job[d]
          /\ job[c] \in Job /\ job'[c] = job[c] /\ stage[c] = "polling"
      BY <2>3, <2>10 DEF GetsOn, Forward
    <3>2. PICK j : j = job[c]
      OBVIOUS
    <3>3. JobRight(c, "polling", j)
      BY <3>1, <3>2 DEF Jobs
    <3>4. JobRight(c, s, j)'
      BY <2>2, <3>1, <3>2, <3>3
    <3> QED BY <2>1, <3>1, <3>2, <3>4
  <2>11. ASSUME GetsOn(c, "failed")
         PROVE  Jobs'
    BY <2>1, <2>2, <2>3, <2>11
  <2>12. CASE RecordOutcome(c) /\ GetsOn(c, "completed")
    <3>1. /\ stage' = [stage EXCEPT ![c] = "completed"] /\ \A d \in Reconciles \ {c} : job'[d] = job[d]
          /\ job[c] \in Job /\ job'[c] = job[c] /\ stage[c] = "recovered"
      BY <2>3, <2>12 DEF GetsOn, Forward
    <3>2. PICK j : j = job[c]
      OBVIOUS
    <3>3. JobRight(c, "recovered", j)'
      BY <1>2, <3>1, <3>2, JobStays DEF Jobs
    <3>4. \E x \in records' : x.id = c /\ x.result = "COMPLETED"
      <4>1. PICK x : x = RecordOf(c, Result(c))
        OBVIOUS
      <4>2. x.id = c /\ x.result = "COMPLETED"
        BY <3>1, <4>1 DEF RecordOf, Result
      <4>3. x \in records'
        BY <2>12, <4>1 DEF RecordOutcome
      <4> QED BY <4>2, <4>3
    <3>5. JobRight(c, "completed", j)'
      BY <3>3, <3>4 DEF JobRight, Started
    <3> QED BY <2>1, <3>1, <3>2, <3>5
  <2> QED BY <1>6, <2>4, <2>5, <2>6, <2>7, <2>8, <2>9, <2>10, <2>11, <2>12, ReconcileSteps
<1>7. \A q \in Requests : RouteStep(q) => UNCHANGED <<stage, job>>
  BY Frames
<1>8. Plain => UNCHANGED <<stage, job>>
  BY Frames DEF Rest
<1> QED BY <1>4, <1>5, <1>6, <1>7, <1>8 DEF Next, Plain

(***************************************************************************)
(* The records, and who has recovered a Run.                               *)
(***************************************************************************)
RecordRight(x) ==
    /\ IsMarked(x.stale, x.replacement)
    /\ x.replacement \in index /\ capsule[x.replacement] \cap x.triggers = {}
    /\ x.triggers # {} /\ x.newCapsule
Recorded == \A x \in records : x.result = "COMPLETED" => RecordRight(x)

Replaced(c, r, by) ==
    /\ job[c] # None /\ job[c].replacement = by /\ job[c].stale = r
    /\ stage[c] \in {"recovered", "failed", "completed"}
Witnessed ==
    \A r \in Runs : \A i \in DOMAIN history[r] :
        history[r][i].state = "RECOVERED" => \E c \in Reconciles : Replaced(c, r, history[r][i].by)

LEMMA RecordedStep ==
    ASSUME Typed, Files, Jobs, Recorded, [Next]_vars
    PROVE  Recorded'
<1> USE DEF stores, plane, saved, builds, routes, work, ghosts
<1>1. Stays /\ Grow /\ records \in SUBSET Record
  BY StaysStep, HistoryGrows DEF Typed, TypeOK
<1>2. ASSUME NEW x \in Record, RecordRight(x) PROVE RecordRight(x)'
  <2>1. x.stale \in Runs /\ x.replacement \in Runs
    BY DEF Record
  <2>2. IsMarked(x.stale, x.replacement)'
    BY <1>1, <1>2, <2>1 DEF RecordRight, IsMarked, Grow
  <2>3. capsule'[x.replacement] = capsule[x.replacement] /\ x.replacement \in index'
    BY <1>1, <1>2, <2>1 DEF RecordRight, Files, Stays
  <2> QED BY <1>2, <2>2, <2>3 DEF RecordRight
<1>3. ASSUME UNCHANGED records PROVE Recorded'
  BY <1>1, <1>2, <1>3 DEF Recorded
<1>4. ASSUME NEW c \in Reconciles, RecordOutcome(c)
      PROVE  Recorded'
  <2>1. /\ records' = records \cup {RecordOf(c, Result(c))} /\ UNCHANGED <<history, saved>>
        /\ stage[c] \in {"unfound", "unrecovered", "recovered"}
    BY <1>4 DEF RecordOutcome, At
  <2>2. PICK x : x = RecordOf(c, Result(c))
    OBVIOUS
  <2>3. ASSUME x.result = "COMPLETED"
        PROVE  RecordRight(x)'
    <3>1. stage[c] = "recovered" /\ x.stale = job[c].stale /\ x.replacement = job[c].replacement
          /\ x.triggers = job[c].triggers /\ x.newCapsule
      BY <2>2, <2>3 DEF RecordOf, Result
    <3>2. job[c].replacement \in index /\ IsMarked(job[c].stale, job[c].replacement)
          /\ Unread(job[c].replacement, job[c].triggers) /\ job[c].triggers # {}
          /\ job[c].replacement \in Runs
      BY <3>1 DEF Jobs, JobRight, Started
    <3>3. capsule[x.replacement] \cap x.triggers = {}
      BY <3>1, <3>2 DEF Files, Unread
    <3>4. RecordRight(x)
      BY <3>1, <3>2, <3>3 DEF RecordRight
    <3> QED BY <2>1, <3>4 DEF RecordRight, IsMarked
  <2>4. ASSUME NEW y \in records, y.result = "COMPLETED" PROVE RecordRight(y)'
    BY <1>1, <1>2, <2>4 DEF Recorded
  <2> QED BY <2>1, <2>2, <2>3, <2>4 DEF Recorded
<1>5. ASSUME NEW c \in Reconciles, ReconcileStep(c), ~RecordOutcome(c)
      PROVE  UNCHANGED records
  BY <1>5 DEF ReconcileStep, Reconcile, Check, LookUp, StartRun, StartFails, PollFails,
              MarkRecovered, MarkRecoveredFails, RecordFails
<1>6. Crash => UNCHANGED records
  BY DEF Crash
<1>7. Plain => UNCHANGED records
  BY Frames DEF Rest
<1> QED BY <1>3, <1>4, <1>5, <1>6, <1>7, Frames DEF Next, Plain

\* A request that has marked a Run keeps its job, and can only be completed or fail.
LEMMA ReplacedStays ==
    ASSUME Typed, [Next]_vars, NEW c \in Reconciles, NEW r, NEW by, Replaced(c, r, by)
    PROVE  Replaced(c, r, by)'
<1> USE DEF stores, plane, saved, builds, routes, work, ghosts
<1>1. stage \in [Reconciles -> Stages] /\ job \in [Reconciles -> Job \cup {None}]
  BY DEF Typed, TypeOK, Stages
<1>2. CASE UNCHANGED <<stage, job>>
  BY <1>2 DEF Replaced
<1>3. CASE Crash
  BY <1>1, <1>3 DEF Replaced, Crash
<1>4. ASSUME NEW d \in Reconciles, ReconcileStep(d)
      PROVE  Replaced(c, r, by)'
  <2>1. CASE Reconcile(d)
    <3>1. d # c
      BY <2>1 DEF Reconcile, Replaced
    <3> QED BY <1>1, <2>1, <3>1 DEF Reconcile, Replaced
  <2>2. CASE IsRejected(d)
    <3>1. d # c
      BY <2>2 DEF IsRejected, Replaced
    <3> QED BY <1>1, <2>2, <3>1 DEF IsRejected, Replaced
  <2>3. ASSUME NEW s, GetsOn(d, s)
        PROVE  Replaced(c, r, by)'
    <3>1. CASE d # c
      BY <1>1, <2>3, <3>1 DEF GetsOn, Replaced
    <3>2. CASE d = c
      <4>1. s \in {"failed", "completed"}
        BY <2>3, <3>2 DEF GetsOn, Forward, Replaced
      <4> QED BY <1>1, <2>3, <3>2, <4>1 DEF GetsOn, Replaced
    <3> QED BY <3>1, <3>2
  <2> QED BY <1>4, <2>1, <2>2, <2>3, ReconcileSteps
<1>5. \A q \in Requests : RouteStep(q) => UNCHANGED <<stage, job>>
  BY Frames
<1>6. Plain => UNCHANGED <<stage, job>>
  BY Frames DEF Rest
<1> QED BY <1>2, <1>3, <1>4, <1>5, <1>6 DEF Next, Plain

LEMMA WitnessedStep ==
    ASSUME Typed, Witnessed, [Next]_vars
    PROVE  Witnessed'
<1> USE DEF stores, plane, saved, builds, routes, work, ghosts
<1>1. /\ stage \in [Reconciles -> Stages] /\ job \in [Reconciles -> Job \cup {None}]
      /\ \A r \in Runs : Len(history[r]) \in Nat
  BY DEF Typed, TypeOK, Stages
<1>2. Grow
  BY HistoryGrows
<1>3. ASSUME NEW r \in Runs, NEW i \in DOMAIN history[r], history'[r][i].state = "RECOVERED"
      PROVE  \E c \in Reconciles : Replaced(c, r, history[r][i].by)'
  <2>1. PICK h : h = history[r][i]
    OBVIOUS
  <2>2. history'[r][i] = h
    BY <1>2, <2>1 DEF Grow
  <2>3. PICK b : b = h.by
    OBVIOUS
  <2>4. PICK c \in Reconciles : Replaced(c, r, b)
    BY <1>3, <2>1, <2>2, <2>3 DEF Witnessed
  <2>5. Replaced(c, r, b)'
    BY <2>4, ReplacedStays
  <2>6. b = history[r][i].by'
    BY <2>2, <2>3
  <2> QED BY <2>5, <2>6
<1>4. ASSUME UNCHANGED history PROVE Witnessed'
  BY <1>3, <1>4 DEF Witnessed
\* A Run that is tagged, or marked by c.
<1>5. ASSUME NEW r \in Runs, NEW s, NEW t, NEW b, Transition(r, s, t, b),
             s = "RECOVERED" => \E c \in Reconciles : Replaced(c, r, b)'
      PROVE  Witnessed'
  <2>1. /\ DOMAIN history'[r] = 1 .. Len(history[r]) + 1 /\ DOMAIN history[r] = 1 .. Len(history[r])
        /\ history'[r][Len(history[r]) + 1] = [state |-> s, trigger |-> t, by |-> b]
        /\ \A q \in Runs \ {r} : history'[q] = history[q]
    BY <1>5, TransitionGrows
  <2>2. ASSUME NEW q \in Runs, NEW i \in DOMAIN history'[q], history'[q][i].state = "RECOVERED"
        PROVE  \E c \in Reconciles : Replaced(c, q, history[q][i].by)'
    <3>1. CASE i \in DOMAIN history[q]
      BY <1>3, <2>2, <3>1
    <3>2. CASE i \notin DOMAIN history[q]
      <4>1. q = r /\ i = Len(history[r]) + 1
        BY <1>1, <2>1, <2>2, <3>2
      <4>2. history'[q][i] = [state |-> s, trigger |-> t, by |-> b]
        BY <2>1, <4>1
      <4>3. s = "RECOVERED" /\ b = history[q][i].by'
        BY <2>2, <4>2
      <4> QED BY <1>5, <4>1, <4>3
    <3> QED BY <3>1, <3>2
  <2> QED BY <2>2 DEF Witnessed
<1>6. ASSUME NEW q \in Requests, NEW r \in Runs, Tag(q, r) PROVE Witnessed'
  BY <1>5, <1>6 DEF Tag, TagOf
<1>7. ASSUME NEW c \in Reconciles, MarkRecovered(c), ~UNCHANGED history PROVE Witnessed'
  <2>1. /\ stage[c] = "polling" /\ stage' = [stage EXCEPT ![c] = "recovered"] /\ UNCHANGED job
        /\ Transition(job[c].stale, "RECOVERED", None, job[c].replacement)
    BY <1>7 DEF MarkRecovered, At, Moves
  <2>2. job[c] \in Job /\ job[c] # None
    BY <2>1 DEF Typed, TypeOK, JobTyped, Reconciling
  <2>3. PICK r \in Runs, b \in Runs \cup {None} : r = job[c].stale /\ b = job[c].replacement
    BY <2>2 DEF Job
  <2>4. Replaced(c, r, b)'
    BY <1>1, <2>1, <2>2, <2>3 DEF Replaced
  <2> QED BY <1>5, <2>1, <2>3, <2>4
<1>8. ASSUME NEW c \in Reconciles, ReconcileStep(c), ~MarkRecovered(c)
      PROVE  UNCHANGED history
  BY <1>8 DEF ReconcileStep, Reconcile, Check, LookUp, StartRun, StartFails, PollFails,
              MarkRecoveredFails, RecordOutcome, RecordFails
<1>9. Crash => UNCHANGED history
  BY DEF Crash
<1>10. Plain => UNCHANGED history
  BY Frames DEF Rest
<1> QED BY <1>4, <1>6, <1>7, <1>8, <1>9, <1>10, Frames DEF Next, Plain

(***************************************************************************)
(* The theorems.                                                           *)
(***************************************************************************)
Inv == /\ Typed /\ Serial /\ Files /\ Routed /\ Tagging
       /\ Entries /\ Jobs /\ Recorded /\ Witnessed

LEMMA InvHolds == Spec => []Inv
<1>1. Init => Inv
  <2>1. DOMAIN << >> = {}
    OBVIOUS
  <2> QED BY <2>1, TypeInit, SerialInit, FilesInit, RoutesInit, EntriesInit
          DEF Init, Inv, Recorded, Witnessed
<1>2. Inv /\ [Next]_vars => Inv'
  BY TypeAndTurnStep, FilesStep, RoutedStep, TaggingStep, EntriesStep, JobsStep, RecordedStep,
     WitnessedStep DEF Inv
<1> QED BY <1>1, <1>2, PTL DEF Spec

\* INV-12, no false alarm: whatever is read, tagged, reconciled and deleted meanwhile, a Run
\* is tagged only on account of Evidence that was ended that way and that it rests on, and
\* recovered only from a tag, by another Run of its Agent.
THEOREM OnlyDownstream == Spec => []TagsAreDownstream
<1>1. Inv => TagsAreDownstream
  BY DEF Inv, Entries, Rightful, TagsAreDownstream
<1> QED BY <1>1, InvHolds, PTL

\* INV-12, none missing: a revocation or compromise that is answered has tagged every Run
\* that rested on the Evidence when the graph began to be read, although the stores were
\* read one after the other while Runs went on.
THEOREM AllDownstream == Spec => []TagsAreComplete
<1>1. Inv => TagsAreComplete
  <2> SUFFICES ASSUME Inv, NEW q \in Requests, route[q] = "done", NEW r \in due[q]
               PROVE  \E h \in Range(history[r]) : h.state = TagOf(q) /\ h.trigger = q.evidence
    BY DEF TagsAreComplete
  <2>1. PICK i \in DOMAIN history[r] : history[r][i].state = TagOf(q) /\ history[r][i].trigger = q.evidence
    BY DEF Inv, Tagging, IsTagged
  <2> QED BY <2>1 DEF Range
<1> QED BY <1>1, InvHolds, PTL

\* INV-8 and R-10: a recovery recorded as completed is one: the Run was marked by the
\* replacement, whose capsule is there and has none of the triggers; and the other way round.
THEOREM RecoveriesReal == Spec => []RecoveryIsReal
<1>1. ASSUME Inv, NEW x \in records, x.result = "COMPLETED"
      PROVE  /\ \E h \in Range(history[x.stale]) : h.state = "RECOVERED" /\ h.by = x.replacement
             /\ x.replacement \in index /\ capsule[x.replacement] \cap x.triggers = {}
             /\ x.triggers # {} /\ x.newCapsule
  <2>1. RecordRight(x)
    BY <1>1 DEF Inv, Recorded
  <2>2. PICK i \in DOMAIN history[x.stale] : /\ history[x.stale][i].state = "RECOVERED"
                                             /\ history[x.stale][i].by = x.replacement
    BY <2>1 DEF RecordRight, IsMarked
  <2> QED BY <2>1, <2>2 DEF RecordRight, Range
<1>2. ASSUME Inv, NEW r \in Runs, NEW h \in Range(history[r]), h.state = "RECOVERED"
      PROVE  \E c \in Reconciles :
                 /\ job[c] # None /\ job[c].replacement = h.by /\ job[c].stale = r
                 /\ stage[c] \in {"recovered", "failed"}
                       \/ \E x \in records : x.id = c /\ x.result = "COMPLETED"
  <2>1. PICK i \in DOMAIN history[r] : h = history[r][i]
    BY <1>2 DEF Range
  <2>2. PICK c \in Reconciles : Replaced(c, r, h.by)
    BY <1>2, <2>1 DEF Inv, Witnessed
  <2>3. stage[c] = "completed" => \E x \in records : x.id = c /\ x.result = "COMPLETED"
    BY <1>2 DEF Inv, Jobs, JobRight
  <2> QED BY <2>2, <2>3 DEF Replaced
<1>3. Inv => RecoveryIsReal
  BY <1>1, <1>2 DEF RecoveryIsReal
<1> QED BY <1>3, InvHolds, PTL

(***************************************************************************)
(* The stores keep the promise of EvidenceStore, and so have what follows  *)
(* from it: no circle of derivations, and no end that is taken back.       *)
(***************************************************************************)
\* Every step of Runs, routes, reconciliations and mishaps is one of the Evidence store's
\* or leaves it alone.
THEOREM RecoveryRefinesStore == Spec => RefinesStore
<1>1. Init => Promise!Init
  BY DEF Init, Promise!Init
<1>2. ASSUME Typed, [Next]_vars PROVE [Promise!Next]_(Promise!vars)
  <2>1. CASE UNCHANGED stores
    BY <2>1 DEF stores, Promise!vars
  <2>2. ASSUME NEW p \in Proposals, Commit(p) PROVE Promise!Next
    <3>1. p.evidence \in Evidence /\ p.contributors \in SUBSET Promise!Recorded
      BY <2>2, RecoveryAssumption DEF Commit, Known, Promise!Recorded
    <3>2. Promise!Commit(p.evidence)
      BY <2>2, <3>1 DEF Commit, Promise!Commit, Promise!Recorded
    <3> QED BY <3>1, <3>2 DEF Promise!Next
  <2>3. ASSUME NEW q \in Requests, EndEvidence(q) PROVE Promise!Next
    <3>1. q.evidence \in Evidence /\ q.end \in {"REVOKED", "COMPROMISED"}
      BY RecoveryAssumption DEF Ends
    <3>2. Promise!End(q.evidence)
      BY <2>3, <3>1 DEF EndEvidence, Promise!End, Promise!Recorded
    <3> QED BY <3>1, <3>2 DEF Promise!Next
  <2> QED BY <1>2, <2>1, <2>2, <2>3, Shapes
<1> QED BY <1>1, <1>2, TypesHold, PTL DEF Spec, RefinesStore, Promise!Spec

StoreFacts == INSTANCE EvidenceStoreProofs

\* The graph that a revocation is followed along has no circle of derivations, at any time.
THEOREM DerivationsFounded == Spec => []Promise!DerivationFounded
<1>1. /\ Promise!Init <=> StoreFacts!Init
      /\ [Promise!Next]_(Promise!vars) <=> [StoreFacts!Next]_(StoreFacts!vars)
      /\ Promise!DerivationFounded <=> StoreFacts!DerivationFounded
  BY DEF Promise!Init, StoreFacts!Init, Promise!Next, StoreFacts!Next, Promise!vars, StoreFacts!vars,
         Promise!Commit, StoreFacts!Commit, Promise!Supersede, StoreFacts!Supersede, Promise!End,
         StoreFacts!End, Promise!Recorded, StoreFacts!Recorded, Promise!DerivationFounded,
         StoreFacts!DerivationFounded
<1> QED BY <1>1, StoreFacts!Founded, RecoveryRefinesStore, PTL
        DEF RefinesStore, Promise!Spec, StoreFacts!Spec
=============================================================================
