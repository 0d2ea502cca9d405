-------------------------- MODULE RunExecutionProofs --------------------------
(***************************************************************************)
(* Proofs about RunExecution, for any kinds of lines, configs and          *)
(* providers, any number of Runs and any bounds.                           *)
(***************************************************************************)
EXTENDS RunExecution, SequenceTheorems, TLAPS

USE ExecutionAssumption

(***************************************************************************)
(* The data.                                                               *)
(***************************************************************************)
\* The consumer takes the line in turn, the oldest, and leaves the rest as it is.
LEMMA TakeTurn ==
    ASSUME NEW S, NEW q \in Seq(S), q # << >>
    PROVE  /\ q[Turn] \in S
           /\ RemoveAt(q, Turn) \in Seq(S)
           /\ Len(RemoveAt(q, Turn)) = Len(q) - 1
           /\ \A i \in 1 .. Len(q) - 1 : RemoveAt(q, Turn)[i] = q[i + 1]
<1>1. Len(q) \in Nat /\ Len(q) >= 1
  BY EmptySeq
<1>2. RemoveAt(q, Turn) = SubSeq(q, 1, 0) \o SubSeq(q, 2, Len(q))
  BY DEF RemoveAt, Turn
<1>3. SubSeq(q, 1, 0) = << >> /\ SubSeq(q, 2, Len(q)) \in Seq(S)
  BY <1>1
<1>4. RemoveAt(q, Turn) = Tail(q)
  BY <1>2, <1>3, ConcatEmptySeq, TailIsSubSeq
<1>5. q[Turn] \in S
  BY <1>1, ElementOfSeq DEF Turn
<1> QED BY <1>1, <1>4, <1>5, HeadTailProperties

Versions == Seq([config : Configs, closed : BOOLEAN])

\* To close the versions there are changes nothing else about them.
LEMMA ClosedTyping ==
    ASSUME NEW s \in Versions, NEW cfg \in Configs
    PROVE  LET t == Append([i \in DOMAIN s |-> [s[i] EXCEPT !.closed = TRUE]],
                           [config |-> cfg, closed |-> FALSE])
           IN  /\ t \in Versions /\ Len(t) = Len(s) + 1 /\ DOMAIN t = 1 .. Len(s) + 1
               /\ t[Len(s) + 1] = [config |-> cfg, closed |-> FALSE]
               /\ \A i \in DOMAIN s : t[i] = [config |-> s[i].config, closed |-> TRUE]
<1> DEFINE V == [config : Configs, closed : BOOLEAN]
           c == [i \in DOMAIN s |-> [s[i] EXCEPT !.closed = TRUE]]
           v == [config |-> cfg, closed |-> FALSE]
<1>1. Len(s) \in Nat /\ DOMAIN s = 1 .. Len(s) /\ \A i \in 1 .. Len(s) : s[i] \in V
  <2>1. s \in Seq(V)
    BY DEF Versions
  <2> HIDE DEF V
  <2> QED BY <2>1
<1>2. \A i \in 1 .. Len(s) : c[i] = [config |-> s[i].config, closed |-> TRUE] /\ c[i] \in V
  BY <1>1
<1>3. c \in [1 .. Len(s) -> V]
  BY <1>1, <1>2
<1>4. c \in Seq(V)
  BY <1>1, <1>3, SeqDef
<1>5. Len(c) = Len(s)
  BY <1>1, <1>4
<1>6. v \in V
  OBVIOUS
<1>7. Append(c, v) \in Seq(V) /\ Len(Append(c, v)) = Len(s) + 1
  BY <1>4, <1>5, <1>6
<1>8. Append(c, v)[Len(s) + 1] = v /\ \A i \in 1 .. Len(s) : Append(c, v)[i] = c[i]
  BY <1>4, <1>5, <1>6
<1> QED BY <1>1, <1>2, <1>7, <1>8 DEF Versions

\* A line that is handled is room for one less, and is queued as it is recorded.
LEMMA HandleTyping ==
    ASSUME TypeOK, NEW kind \in Kinds, HandleLine(kind), Len(output) < MaxLines
    PROVE  /\ output' \in Seq(Kinds) /\ Len(output') = Len(output) + 1
           /\ waiting' \in Seq(Line)
<1>1. output \in Seq(Kinds) /\ waiting \in Seq(Line) /\ Len(output) \in Nat
  BY DEF TypeOK
<1>2. output' \in Seq(Kinds) /\ Len(output') = Len(output) + 1
  BY <1>1 DEF HandleLine
<1>3. CASE ~Forwarded(kind)
  BY <1>1, <1>2, <1>3 DEF HandleLine
<1>4. CASE Forwarded(kind)
  <2>1. RecordKind(kind) \in {"runtime.event", "runtime.parse_failure", "redaction_failure"}
    BY <1>4 DEF RecordKind, HandleLine, Forwarded
  <2>2. [at |-> Len(output'), kind |-> RecordKind(kind)] \in Line
    BY <1>1, <1>2, <2>1 DEF Line
  <2> QED BY <1>1, <1>2, <1>4, <2>2 DEF HandleLine
<1> QED BY <1>2, <1>3, <1>4

\* What a capture finds is at most one artifact.
LEMMA DiffTyping ==
    ASSUME TypeOK, NEW r \in Runs
    PROVE  /\ Recorded(r) \in Seq(Artifact)
           /\ artifacts \o Recorded(r) \in Seq(Artifact)
<1>1. Recorded(r) \in Seq(Artifact)
  <2>1. before[r] \in Content /\ workspace \in Content
    BY DEF TypeOK
  <2>2. CASE before[r] = workspace
    BY <2>2 DEF Recorded, DiffsOf
  <2>3. CASE before[r] # workspace
    <3> DEFINE a == [run |-> r, from |-> before[r], to |-> workspace,
                     state |-> IF before[r] = None THEN "CREATED"
                               ELSE IF workspace = None THEN "DELETED" ELSE "MODIFIED"]
    <3>1. a \in Artifact
      BY <2>1 DEF Artifact
    <3>2. Recorded(r) = <<a>>
      BY <2>3 DEF Recorded, DiffsOf
    <3> QED BY <3>1, <3>2
  <2> QED BY <2>2, <2>3
<1> QED BY <1>1, ConcatProperties DEF TypeOK

(***************************************************************************)
(* Types.  That the incomplete line has room is needed where it becomes a  *)
(* line, that a Run has a config where its version is made.                *)
(***************************************************************************)
Room == Len(output) + (IF partial THEN 1 ELSE 0) <= MaxLines
Started == \A r \in Runs : stage[r] # "new" => start[r] \in Configs
Typed == TypeOK /\ Room /\ Started

LEMMA TypeInit == Init => Typed
<1> SUFFICES ASSUME Init PROVE Typed
  OBVIOUS
<1>1. None \in Content /\ 0 \in 0 .. MaxWrites /\ 0 \in 0 .. MaxUpdates /\ 0 \in 0 .. MaxMishaps
  BY DEF Content
<1>2. << >> \in Seq([config : Configs, closed : BOOLEAN]) /\ << >> \in Seq(Artifact)
      /\ << >> \in Seq(Kinds) /\ << >> \in Seq(Line) /\ Len(<< >>) = 0
  BY EmptySeq
<1>3. Room
  BY <1>2 DEF Init, Room
<1>4. /\ stage \in [Runs -> {"new", "admitted", "resolved", "captured", "running", "draining",
                           "judged", "over"}]
      /\ start \in [Runs -> Configs \cup {None}] /\ pin \in [Runs -> Nat]
      /\ before \in [Runs -> Content]
  BY <1>1 DEF Init
<1> QED BY <1>1, <1>2, <1>3, <1>4 DEF Init, TypeOK, Typed, Started

\* What goes with an execution is typed when it is gone.
LEMMA ClearedTyping ==
    ASSUME Cleared
    PROVE  /\ child' \in {"none", "starting", "running", "exited"} /\ code' \in {0, 1}
           /\ others' \in {"nobody", "quiet", "holding"}
           /\ flags' \in SUBSET Flags /\ term' \in {"none", "asked", "failed", "done"}
           /\ partial' \in BOOLEAN /\ broken' \in BOOLEAN
           /\ output' \in Seq(Kinds) /\ waiting' \in Seq(Line) /\ chain' \in Seq(Line)
           /\ Room'
<1>1. << >> \in Seq(Kinds) /\ << >> \in Seq(Line) /\ Len(<< >>) = 0
  BY EmptySeq
<1>2. Room'
  BY <1>1 DEF Cleared, Room
<1> QED BY <1>1, <1>2 DEF Cleared, Forgotten

LEMMA TypeStep ==
    ASSUME Typed, [Next]_vars
    PROVE  Typed'
<1> USE DEF agent, disk, engine, process, stream, Typed, Started, Room
<1>1. ASSUME UpdateAgent PROVE  Typed'
  BY <1>1 DEF UpdateAgent, TypeOK
<1>2. ASSUME NEW r \in Runs, SendMessage(r) PROVE  Typed'
  BY <1>2 DEF SendMessage, Goto, TypeOK
<1>3. ASSUME NEW r \in Runs, Resolve(r) PROVE  Typed'
  <2>1. versions' \in Seq([config : Configs, closed : BOOLEAN]) /\ pin' \in [Runs -> Nat]
    <3>1. CASE Matching(start[r]) # {}
      <4>1. PICK i \in Matching(start[r]) : pin' = [pin EXCEPT ![r] = i]
        BY <1>3, <3>1 DEF Resolve
      <4>2. i \in Nat
        BY LenProperties DEF Matching, TypeOK
      <4> QED BY <1>3, <3>1, <4>1, <4>2 DEF Resolve, TypeOK
    <3>2. CASE Matching(start[r]) = {}
      <4>1. start[r] \in Configs
        BY <1>3 DEF Resolve, Started
      <4>2. versions' \in Versions
        <5>1. versions \in Versions
          BY DEF TypeOK, Versions
        <5>2. versions' = Append([i \in DOMAIN versions |-> [versions[i] EXCEPT !.closed = TRUE]],
                                 [config |-> start[r], closed |-> FALSE])
          BY <1>3, <3>2 DEF Resolve
        <5> QED BY <4>1, <5>1, <5>2, ClosedTyping
      <4>3. Len(versions) + 1 \in Nat
        BY DEF TypeOK
      <4>4. pin' \in [Runs -> Nat]
        BY <1>3, <3>2, <4>3 DEF Resolve, TypeOK
      <4>5. stage' = [stage EXCEPT ![r] = "resolved"]
        BY <1>3 DEF Resolve, Goto
      <4> QED BY <1>3, <4>2, <4>4, <4>5 DEF Resolve, TypeOK, Versions
    <3> QED BY <3>1, <3>2
  <2>2. stage' \in [Runs -> {"new", "admitted", "resolved", "captured", "running", "draining",
                           "judged", "over"}]
    BY <1>3 DEF Resolve, Goto, TypeOK
  <2>3. Started' /\ Room'
    BY <1>3 DEF Resolve, Goto, TypeOK
  <2> QED BY <1>3, <2>1, <2>2, <2>3 DEF Resolve, TypeOK
<1>4. ASSUME NEW r \in Runs, CaptureBefore(r) PROVE  Typed'
  BY <1>4 DEF CaptureBefore, Goto, TypeOK
<1>5. ASSUME NEW r \in Runs, PrepareFails(r) PROVE  Typed'
  BY <1>5 DEF PrepareFails, Mishap, Goto, TypeOK
<1>6. ASSUME NEW r \in Runs, Launch(r) PROVE  Typed'
  BY <1>6 DEF Launch, Goto, TypeOK
<1>7. ASSUME NEW r \in Runs, SpawnFails(r) PROVE  Typed'
  BY <1>7 DEF SpawnFails, Mishap, Goto, TypeOK, Verdicts
<1>8. ASSUME NEW r \in Runs, ContainerStarts(r) PROVE  Typed'
  BY <1>8 DEF ContainerStarts, TypeOK
<1>9. ASSUME NEW r \in Runs, Write(r) PROVE  Typed'
  BY <1>9 DEF Write, TypeOK, Content
<1>10. ASSUME NEW r \in Runs, Exit(r) \/ Detached(r) \/ BoxEnds(r) \/ ForceKill(r) \/ Release(r) PROVE  Typed'
  <2>1. CASE Exit(r)
    BY <2>1 DEF Exit, Leaves, TypeOK
  <2>2. CASE Detached(r)
    BY <2>2 DEF Detached, TypeOK
  <2>3. CASE BoxEnds(r)
    BY <2>3 DEF BoxEnds, TypeOK
  <2>4. CASE ForceKill(r)
    BY <2>4 DEF ForceKill, Leaves, TypeOK
  <2>5. CASE Release(r)
    BY <2>5 DEF Release, TypeOK
  <2> QED BY <1>10, <2>1, <2>2, <2>3, <2>4, <2>5
<1>11. ASSUME NEW r \in Runs, Cancel(r) \/ Timeout(r) \/ Overflow(r) PROVE  Typed'
  <2>1. flags' \in SUBSET Flags
    BY <1>11 DEF Cancel, Timeout, Overflow, TypeOK, Flags
  <2>2. term' \in {"none", "asked", "failed", "done"} /\ removing' \subseteq Runs
    BY <1>11 DEF Cancel, Timeout, Overflow, Terminate, TypeOK
  <2>3. Started' /\ Room'
    BY <1>11 DEF Cancel, Timeout, Overflow
  <2>4. UNCHANGED <<agent, writes, stage, start, disk, provider, box, child, code, others, stream,
                    verdict, mishaps, strayed>>
    BY <1>11 DEF Cancel, Timeout, Overflow
  <2> QED BY <2>1, <2>2, <2>3, <2>4 DEF TypeOK
<1>12. ASSUME NEW r \in Runs, RemoveContainer(r) PROVE  Typed'
  BY <1>12 DEF RemoveContainer, Mishap, TypeOK
<1>13. ASSUME NEW r \in Runs, Chunk(r) PROVE  Typed'
  <2>1. output' \in Seq(Kinds) /\ waiting' \in Seq(Line) /\ partial' \in BOOLEAN /\ Room'
    <3>1. CASE UNCHANGED <<output, waiting>> /\ partial'
      BY <1>13, <3>1 DEF Chunk, Emits, TypeOK
    <3>2. ASSUME NEW kind \in Kinds, HandleLine(kind), partial' \in BOOLEAN
          PROVE  output' \in Seq(Kinds) /\ waiting' \in Seq(Line) /\ Room'
      <4>1. Len(output') = Len(output) + 1
        BY <3>2 DEF HandleLine, TypeOK
      <4>2. Len(output) < MaxLines /\ Room'
        BY <1>13, <3>2, <4>1 DEF Chunk, Emits, TypeOK
      <4> QED BY <3>2, <4>2, HandleTyping
    <3> QED BY <1>13, <3>1, <3>2 DEF Chunk, Emits
  <2> QED BY <1>13, <2>1 DEF Chunk, Emits, TypeOK
<1>14. ASSUME NEW r \in Runs, stage[r] # "new", ServerDies(r),
             UNCHANGED mishaps \/ Mishap
      PROVE  Typed'
  <2>1. /\ stage' \in [Runs -> {"new", "admitted", "resolved", "captured", "running", "draining",
                              "judged", "over"}]
        /\ Started'
    BY <1>14 DEF ServerDies, Goto, TypeOK
  <2>2. mishaps' \in 0 .. MaxMishaps
    BY <1>14 DEF Mishap, TypeOK
  <2>3. strayed' \in BOOLEAN
    BY <1>14 DEF ServerDies, TypeOK
  <2>4. Cleared /\ verdict' = "crash" /\ UNCHANGED <<agent, writes, start, disk, engine>>
    BY <1>14 DEF ServerDies
  <2>5. "crash" \in Verdicts
    BY DEF Verdicts
  <2>6. Room' /\ output' \in Seq(Kinds) /\ waiting' \in Seq(Line) /\ chain' \in Seq(Line)
    BY <2>4, ClearedTyping
  <2>7. /\ child' \in {"none", "starting", "running", "exited"} /\ code' \in {0, 1}
        /\ others' \in {"nobody", "quiet", "holding"}
        /\ flags' \in SUBSET Flags /\ term' \in {"none", "asked", "failed", "done"}
        /\ partial' \in BOOLEAN /\ broken' \in BOOLEAN
    BY <2>4, ClearedTyping
  <2>8. TypeOK'
    BY <2>1, <2>2, <2>3, <2>4, <2>5, <2>6, <2>7 DEF TypeOK
  <2> QED BY <2>1, <2>6, <2>8
<1>15. ASSUME NEW r \in Runs, ChunkThrows(r) PROVE  Typed'
  BY <1>14, <1>15 DEF ChunkThrows, Emits
<1>16. ASSUME NEW r \in Runs, Accept(r) PROVE  Typed'
  <2>1. waiting \in Seq(Line) /\ waiting # << >> /\ chain \in Seq(Line)
    BY <1>16 DEF Accept, Listening, TypeOK
  <2>2. waiting' \in Seq(Line) /\ chain' \in Seq(Line)
    BY <1>16, <2>1, TakeTurn DEF Accept
  <2> QED BY <1>16, <2>2 DEF Accept, TypeOK
<1>17. ASSUME NEW r \in Runs, AppendFails(r) PROVE  Typed'
  <2>1. CASE stage[r] = "draining"
    BY <1>17, <2>1 DEF AppendFails, Mishap, TypeOK
  <2>2. CASE stage[r] # "draining"
    BY <1>14, <1>17, <2>2 DEF AppendFails, Listening, Executing
  <2> QED BY <2>1, <2>2
<1>18. ASSUME NEW r \in Runs, Close(r) PROVE  Typed'
  <2>1. output' \in Seq(Kinds) /\ waiting' \in Seq(Line) /\ Room'
    <3>1. CASE UNCHANGED <<output, waiting>>
      BY <1>18, <3>1 DEF Close, TypeOK
    <3>2. ASSUME Leftover, NEW kind \in Kinds, HandleLine(kind)
          PROVE  output' \in Seq(Kinds) /\ waiting' \in Seq(Line) /\ Room'
      <4>1. Len(output) < MaxLines
        BY <3>2 DEF Leftover, TypeOK
      <4> QED BY <1>18, <3>2, <4>1, HandleTyping DEF Close, TypeOK
    <3> QED BY <1>18, <3>1, <3>2 DEF Close
  <2>2. stage' \in [Runs -> {"new", "admitted", "resolved", "captured", "running", "draining",
                             "judged", "over"}]
    BY <1>18 DEF Close, Goto, TypeOK
  <2>3. /\ partial' = FALSE /\ UNCHANGED chain
        /\ UNCHANGED <<agent, writes, start, disk, engine, process, broken, verdict, mishaps, strayed>>
    BY <1>18 DEF Close
  <2>4. Started'
    BY <1>18 DEF Close, Goto, TypeOK
  <2>5. TypeOK'
    <3>1. /\ config' \in Configs /\ versions' \in Seq([config : Configs, closed : BOOLEAN])
          /\ workspace' \in Content /\ start' \in [Runs -> Configs \cup {None}] /\ pin' \in [Runs -> Nat]
          /\ before' \in [Runs -> Content] /\ pending' \subseteq Runs /\ artifacts' \in Seq(Artifact)
      BY <2>3 DEF TypeOK
    <3>2. /\ provider' \in Providers /\ box' \in Runs \cup {None} /\ removing' \subseteq Runs
          /\ child' \in {"none", "starting", "running", "exited"} /\ code' \in {0, 1}
          /\ others' \in {"nobody", "quiet", "holding"} /\ flags' \in SUBSET Flags
          /\ term' \in {"none", "asked", "failed", "done"}
      BY <2>3 DEF TypeOK
    <3>3. /\ partial' \in BOOLEAN /\ broken' \in BOOLEAN /\ strayed' \in BOOLEAN /\ chain' \in Seq(Line)
          /\ verdict' \in Verdicts \cup {None}
          /\ writes' \in 0 .. MaxWrites /\ updates' \in 0 .. MaxUpdates /\ mishaps' \in 0 .. MaxMishaps
      BY <2>3 DEF TypeOK
    <3> QED BY <2>1, <2>2, <3>1, <3>2, <3>3 DEF TypeOK
  <2> QED BY <2>1, <2>4, <2>5
<1>19. ASSUME NEW r \in Runs, CloseThrows(r) PROVE  Typed'
  <2>1. Room'
    BY <1>19 DEF CloseThrows, TypeOK
  <2>2. Started'
    BY <1>19 DEF CloseThrows, Goto, TypeOK
  <2>3. TypeOK'
    BY <1>19 DEF CloseThrows, Forgotten, Goto, TypeOK, Verdicts
  <2> QED BY <2>1, <2>2, <2>3
<1>20. ASSUME NEW r \in Runs, Judge(r) PROVE  Typed'
  <2>1. VerdictOf \in Verdicts
    BY DEF VerdictOf, Verdicts, Flags
  <2> QED BY <1>20, <2>1 DEF Judge, Forgotten, Goto, TypeOK
<1>21. ASSUME NEW r \in Runs, CaptureAfter(r) PROVE  Typed'
  BY <1>21, ClearedTyping, DiffTyping DEF CaptureAfter, Goto, TypeOK
<1>22. ASSUME NEW r \in Runs, CaptureFails(r) PROVE  Typed'
  <2>1. Cleared
    BY <1>22 DEF CaptureFails
  <2>2. Started'
    BY <1>22 DEF CaptureFails, Goto, TypeOK
  <2>3. artifacts' \in Seq(Artifact) /\ pending' \subseteq Runs
    BY <1>22, DiffTyping DEF CaptureFails, TypeOK
  <2>4. TypeOK'
    BY <1>22, <2>1, <2>3, ClearedTyping DEF CaptureFails, Mishap, Goto, TypeOK
  <2> QED BY <2>1, <2>2, <2>4, ClearedTyping
<1>23. ASSUME UNCHANGED vars PROVE  Typed'
  BY <1>23 DEF vars, TypeOK
<1> QED BY <1>1, <1>2, <1>3, <1>4, <1>5, <1>6, <1>7, <1>8, <1>9, <1>10, <1>11, <1>12, <1>13,
           <1>15, <1>16, <1>17, <1>18, <1>19, <1>20, <1>21, <1>22, <1>23
        DEF Next, Runner, Engine, Execution

LEMMA TypesHold == Spec => []Typed
<1>1. Typed /\ [Next]_vars => Typed'
  BY TypeStep
<1> QED BY TypeInit, <1>1, PTL DEF Spec

\* The state stays in its types: no line beyond the output, no pin but of a version, no
\* artifact but of a Run.
THEOREM TypeCorrect == Spec => []TypeOK
<1>1. Typed => TypeOK
  BY DEF Typed
<1> QED BY TypesHold, <1>1, PTL

(***************************************************************************)
(* One Run after the other.                                                *)
(***************************************************************************)
OneAtATime == \A r, s \in Runs : r < s /\ stage[s] # "new" => stage[r] = "over"

\* While a Run is under way those before it are over, and those after it new.
LEMMA Alone ==
    ASSUME OneAtATime, NEW r \in Runs, stage[r] \notin {"new", "over"}, NEW s \in Runs, s # r
    PROVE  stage[s] \in {"new", "over"}
<1>1. r \in Nat /\ s \in Nat
  BY DEF Runs
<1>2. r < s \/ s < r
  BY <1>1
<1> QED BY <1>2 DEF OneAtATime

\* A Run begins with its message and has its version resolved; every other step leaves
\* versions and pins alone, and takes at most one Run, that is under way, further.
Later == {"captured", "running", "draining", "judged", "over"}
Onwards == \/ UNCHANGED stage
           \/ \E r \in Runs, x \in Later : stage[r] \notin {"new", "over"} /\ Goto(r, x)

LEMMA Steps ==
    ASSUME Typed, [Next]_vars
    PROVE  \/ \E r \in Runs : SendMessage(r) \/ Resolve(r)
           \/ UNCHANGED <<versions, pin, start>> /\ Onwards
<1> USE DEF agent, disk, engine, process, stream, Later, Onwards
<1>1. ASSUME UpdateAgent \/ UNCHANGED vars
      PROVE  UNCHANGED <<versions, pin, start>> /\ UNCHANGED stage
  BY <1>1 DEF UpdateAgent, vars
<1>2. ASSUME NEW r \in Runs, CaptureBefore(r) \/ PrepareFails(r) \/ CaptureAfter(r) \/ CaptureFails(r)
      PROVE  UNCHANGED <<versions, pin, start>> /\ Onwards
  BY <1>2 DEF CaptureBefore, PrepareFails, CaptureAfter, CaptureFails
<1>3. ASSUME NEW r \in Runs,
             \/ Cancel(r) \/ Timeout(r) \/ Overflow(r) \/ ForceKill(r) \/ Chunk(r)
             \/ Accept(r) \/ Engine(r) \/ Write(r) \/ Exit(r) \/ Release(r)
      PROVE  UNCHANGED <<versions, pin, start>> /\ UNCHANGED stage
  <2>1. CASE Cancel(r) \/ Timeout(r) \/ Overflow(r) \/ ForceKill(r) \/ Chunk(r)
    BY <2>1 DEF Cancel, Timeout, Overflow, ForceKill, Chunk, Emits
  <2>2. CASE Accept(r) \/ Engine(r) \/ Write(r) \/ Exit(r) \/ Release(r)
    BY <2>2 DEF Accept, Engine, ContainerStarts, Detached, RemoveContainer, BoxEnds, Write, Exit,
              Release
  <2> QED BY <1>3, <2>1, <2>2
<1>4. ASSUME NEW r \in Runs, stage[r] \notin {"new", "over"}, ServerDies(r)
      PROVE  UNCHANGED <<versions, pin, start>> /\ Onwards
  BY <1>4 DEF ServerDies
<1>5. ASSUME NEW r \in Runs, Launch(r) \/ SpawnFails(r) \/ Close(r) \/ CloseThrows(r) \/ Judge(r)
      PROVE  UNCHANGED <<versions, pin, start>> /\ Onwards
  BY <1>5 DEF Launch, SpawnFails, Close, CloseThrows, Judge
<1>6. ASSUME NEW r \in Runs, ChunkThrows(r) \/ AppendFails(r)
      PROVE  UNCHANGED <<versions, pin, start>> /\ Onwards
  BY <1>4, <1>6 DEF ChunkThrows, Emits, AppendFails, Listening, Executing
<1> QED BY <1>1, <1>2, <1>3, <1>5, <1>6 DEF Next, Runner, Execution

LEMMA OrderStep ==
    ASSUME Typed, OneAtATime, [Next]_vars
    PROVE  OneAtATime'
<1>1. Runs \subseteq Nat
  BY DEF Runs
<1>2. stage \in [Runs -> {"new", "admitted", "resolved", "captured", "running", "draining",
                          "judged", "over"}]
  BY DEF Typed, TypeOK
<1>3. CASE UNCHANGED stage
  BY <1>3 DEF OneAtATime
<1>4. ASSUME NEW r \in Runs, SendMessage(r) PROVE OneAtATime'
  <2>1. stage' = [stage EXCEPT ![r] = "admitted"] /\ stage[r] = "new" /\ \A s \in 1 .. r - 1 : stage[s] = "over"
    BY <1>4 DEF SendMessage, Goto
  <2>2. ASSUME NEW q \in Runs, NEW s \in Runs, q < s, stage'[s] # "new" PROVE stage'[q] = "over"
    <3>1. CASE s = r
      <4>1. q \in 1 .. r - 1 /\ q # r
        BY <1>1, <2>2, <3>1 DEF Runs
      <4> QED BY <1>2, <2>1, <4>1
    <3>2. CASE s # r
      BY <1>2, <2>1, <2>2, <3>2 DEF OneAtATime
    <3> QED BY <3>1, <3>2
  <2> QED BY <2>2 DEF OneAtATime
<1>5. ASSUME NEW r \in Runs, NEW x \in Later \cup {"resolved"}, stage[r] \notin {"new", "over"}, Goto(r, x)
      PROVE  OneAtATime'
  BY <1>1, <1>2, <1>5 DEF OneAtATime, Goto
<1>6. ASSUME NEW r \in Runs, Resolve(r) PROVE OneAtATime'
  BY <1>5, <1>6 DEF Resolve
<1> QED BY <1>3, <1>4, <1>5, <1>6, Steps DEF Onwards

(***************************************************************************)
(* Versions and pins.                                                      *)
(***************************************************************************)
PinsTyped ==
    /\ \A r \in Runs : pin[r] <= Len(versions)
    /\ \A r \in Runs : stage[r] \in {"new", "admitted"} => pin[r] = 0
    /\ PinsItsVersion

LEMMA PinsStep ==
    ASSUME Typed, OneAtATime, PinsTyped, [Next]_vars
    PROVE  PinsTyped'
<1>1. /\ Runs \subseteq Nat
      /\ stage \in [Runs -> {"new", "admitted", "resolved", "captured", "running", "draining",
                             "judged", "over"}]
      /\ pin \in [Runs -> Nat] /\ start \in [Runs -> Configs \cup {None}]
      /\ versions \in Versions /\ Len(versions) \in Nat /\ DOMAIN versions = 1 .. Len(versions)
  BY DEF Runs, Typed, TypeOK, Versions
<1>2. ASSUME UNCHANGED <<versions, pin, start>>, Onwards PROVE PinsTyped'
  <2>1. \A r \in Runs : stage'[r] \in {"new", "admitted"} => stage[r] \in {"new", "admitted"}
    BY <1>1, <1>2 DEF Onwards, Later, Goto
  <2> QED BY <1>2, <2>1 DEF PinsTyped, PinsItsVersion
<1>3. ASSUME NEW r \in Runs, SendMessage(r) PROVE PinsTyped'
  <2>1. UNCHANGED <<versions, pin>> /\ stage[r] = "new" /\ pin[r] = 0
    BY <1>3 DEF SendMessage, agent, disk, PinsTyped
  <2>2. stage' = [stage EXCEPT ![r] = "admitted"] /\ start' = [start EXCEPT ![r] = config]
    BY <1>3 DEF SendMessage, Goto
  <2> QED BY <1>1, <2>1, <2>2 DEF PinsTyped, PinsItsVersion
<1>4. ASSUME NEW r \in Runs, Resolve(r) PROVE PinsTyped'
  <2>1. stage[r] = "admitted" /\ stage' = [stage EXCEPT ![r] = "resolved"] /\ UNCHANGED start
    BY <1>4 DEF Resolve, Goto
  <2>2. \A s \in Runs : r < s => pin[s] = 0
    BY <2>1 DEF OneAtATime, PinsTyped
  <2>3. \A s \in Runs : pin[s] <= Len(versions)
    BY DEF PinsTyped
  <2>4. CASE Matching(start[r]) # {}
    <3>1. PICK i \in Matching(start[r]) : pin' = [pin EXCEPT ![r] = i]
      BY <1>4, <2>4 DEF Resolve
    <3>2. UNCHANGED versions
      BY <1>4, <2>4 DEF Resolve
    <3>3. i \in DOMAIN versions /\ i = Len(versions) /\ versions[i].config = start[r]
      BY DEF Matching
    <3> QED BY <1>1, <2>1, <2>2, <2>3, <3>1, <3>2, <3>3 DEF PinsTyped, PinsItsVersion
  <2>5. CASE Matching(start[r]) = {}
    <3> DEFINE n == Len(versions) + 1
    <3>1. pin' = [pin EXCEPT ![r] = n]
      BY <1>4, <2>5 DEF Resolve
    <3>2. start[r] \in Configs
      BY <2>1 DEF Typed, Started
    <3>3. versions' = Append([i \in DOMAIN versions |-> [versions[i] EXCEPT !.closed = TRUE]],
                             [config |-> start[r], closed |-> FALSE])
      BY <1>4, <2>5 DEF Resolve
    <3>4. /\ Len(versions') = n /\ DOMAIN versions' = 1 .. n
          /\ versions'[n].config = start[r] /\ versions'[n].closed = FALSE
          /\ \A i \in 1 .. Len(versions) : /\ versions'[i].config = versions[i].config
                                           /\ versions'[i].closed = TRUE
      <4>1. /\ Len(versions') = n /\ DOMAIN versions' = 1 .. n
            /\ versions'[n] = [config |-> start[r], closed |-> FALSE]
            /\ \A i \in 1 .. Len(versions) : versions'[i] = [config |-> versions[i].config, closed |-> TRUE]
        <5> DEFINE t == Append([i \in DOMAIN versions |-> [versions[i] EXCEPT !.closed = TRUE]],
                               [config |-> start[r], closed |-> FALSE])
        <5>1. /\ Len(t) = Len(versions) + 1 /\ DOMAIN t = 1 .. Len(versions) + 1
              /\ t[Len(versions) + 1] = [config |-> start[r], closed |-> FALSE]
              /\ \A i \in DOMAIN versions : t[i] = [config |-> versions[i].config, closed |-> TRUE]
          BY <1>1, <3>2, ClosedTyping
        <5>2. versions' = t
          BY <3>3
        <5> HIDE DEF t
        <5> QED BY <1>1, <5>1, <5>2
      <4>2. versions'[n].config = start[r] /\ versions'[n].closed = FALSE
        BY <4>1
      <4>3. ASSUME NEW i \in 1 .. Len(versions)
            PROVE  versions'[i].config = versions[i].config /\ versions'[i].closed = TRUE
        <5>1. versions'[i] = [config |-> versions[i].config, closed |-> TRUE]
          BY <4>1
        <5> QED BY <5>1
      <4>4. Len(versions') = n /\ DOMAIN versions' = 1 .. n
        BY <4>1
      <4> HIDE DEF n
      <4> QED BY <4>2, <4>3, <4>4
    <3>5. n \in Nat /\ n # 0
      BY <1>1
    <3>6. \A s \in Runs : pin'[s] <= Len(versions')
      BY <1>1, <2>3, <3>1, <3>4
    <3>7. \A s \in Runs : pin'[s] # 0 => versions'[pin'[s]].config = start'[s]
      <4>1. ASSUME NEW s \in Runs, s # r, pin[s] # 0 PROVE versions'[pin[s]].config = start[s]
        <5>1. pin[s] \in 1 .. Len(versions)
          BY <1>1, <2>3, <4>1
        <5> QED BY <3>4, <4>1, <5>1 DEF PinsTyped, PinsItsVersion
      <4> QED BY <1>1, <2>1, <3>1, <3>4, <4>1
    <3>8. \A i \in DOMAIN versions' : versions'[i].closed = (i < Len(versions'))
      <4>1. ASSUME NEW i \in 1 .. Len(versions) PROVE versions'[i].closed = (i < n)
        <5>1. (i < n) = TRUE
          BY <1>1
        <5> QED BY <3>4, <5>1
      <4>2. versions'[n].closed = (n < n)
        <5>1. (n < n) = FALSE
          BY <1>1
        <5> QED BY <3>4, <5>1
      <4>3. \A i \in 1 .. n : i = n \/ i \in 1 .. Len(versions)
        BY <1>1
      <4> QED BY <3>4, <4>1, <4>2, <4>3
    <3>9. \A q, s \in Runs : q < s /\ pin'[s] # 0 => pin'[q] <= pin'[s]
      BY <1>1, <2>2, <2>3, <3>1, <3>5 DEF PinsTyped, PinsItsVersion
    <3>10. \A s \in Runs : stage'[s] \in {"new", "admitted"} => pin'[s] = 0
      BY <1>1, <2>1, <3>1 DEF PinsTyped
    <3> QED BY <3>6, <3>7, <3>8, <3>9, <3>10 DEF PinsTyped, PinsItsVersion
  <2> QED BY <2>4, <2>5
<1> QED BY <1>2, <1>3, <1>4, Steps

LEMMA PinsHold == Spec => [](Typed /\ OneAtATime /\ PinsTyped)
<1>1. Init => OneAtATime /\ PinsTyped
  <2> SUFFICES ASSUME Init PROVE OneAtATime /\ PinsTyped
    OBVIOUS
  <2>1. Len(<< >>) = 0 /\ DOMAIN << >> = {}
    OBVIOUS
  <2> QED BY <2>1 DEF Init, OneAtATime, PinsTyped, PinsItsVersion
<1>2. Typed /\ OneAtATime /\ PinsTyped /\ [Next]_vars => (Typed /\ OneAtATime /\ PinsTyped)'
  BY TypeStep, OrderStep, PinsStep
<1> QED BY TypeInit, <1>1, <1>2, PTL DEF Spec

\* A Run pins what the Agent was when its message came, the newest version, the only one
\* that is open.
THEOREM PinsStay == Spec => []PinsItsVersion
<1>1. PinsTyped => PinsItsVersion
  BY DEF PinsTyped
<1> QED BY PinsHold, <1>1, PTL

(***************************************************************************)
(* The output and the ledger: what is heard is chained or waits, in order, *)
(* what is chained before what waits.                                      *)
(***************************************************************************)
Heeds(o, l) == l.at \in DOMAIN o /\ o[l.at] # "blank" /\ l.kind = RecordKind(o[l.at])
Queued == {waiting[i].at : i \in DOMAIN waiting}
Woven ==
    /\ \A i \in DOMAIN chain : Heeds(output, chain[i])
    /\ \A i \in DOMAIN waiting : Heeds(output, waiting[i])
    /\ \A i, j \in DOMAIN chain : i < j => chain[i].at < chain[j].at
    /\ \A i, j \in DOMAIN waiting : i < j => waiting[i].at < waiting[j].at
    /\ \A i \in DOMAIN chain, j \in DOMAIN waiting : chain[i].at < waiting[j].at
    /\ Heard \subseteq Chained \cup Queued

\* No Run has an execution without its lines, and none that has its verdict has lines that
\* wait, unless the verdict says so.
Hears(r) == stage[r] \in {"running", "draining", "judged"}
Silent == output = << >> /\ waiting = << >> /\ chain = << >>
Told ==
    /\ (\A r \in Runs : ~Hears(r)) => Silent
    /\ \A r \in Runs : stage[r] = "judged" /\ verdict \notin {"audit", "parse"} => waiting = << >>

LEMMA SilentWoven == ASSUME Silent PROVE Woven
<1>1. DOMAIN << >> = {}
  OBVIOUS
<1> QED BY <1>1 DEF Silent, Woven, Heard, Chained, Queued

\* A line that is handled is the last of the output, and of what waits.
LEMMA HandleWoven ==
    ASSUME Typed, Woven, NEW kind \in Kinds, HandleLine(kind), UNCHANGED chain,
           Len(output) < MaxLines
    PROVE  Woven'
<1> DEFINE n == Len(output) + 1
<1>1. /\ output \in Seq(Kinds) /\ waiting \in Seq(Line) /\ chain \in Seq(Line) /\ Len(output) \in Nat
      /\ DOMAIN output = 1 .. Len(output) /\ Len(waiting) \in Nat /\ DOMAIN waiting = 1 .. Len(waiting)
  BY DEF Typed, TypeOK
<1>2. output' = Append(output, kind)
  BY DEF HandleLine
<1>3. Len(output') = n /\ DOMAIN output' = 1 .. n /\ output'[n] = kind
      /\ \A i \in 1 .. Len(output) : output'[i] = output[i]
  BY <1>1, <1>2
<1>4. ASSUME NEW l, Heeds(output, l) PROVE Heeds(output', l) /\ l.at < n
  BY <1>1, <1>3, <1>4 DEF Heeds
<1>5. \A i \in DOMAIN chain : Heeds(output', chain[i]) /\ chain[i].at < n
  BY <1>4 DEF Woven
<1>6. \A i \in DOMAIN waiting : Heeds(output', waiting[i]) /\ waiting[i].at < n
  BY <1>4 DEF Woven
<1>7. CASE ~Forwarded(kind)
  <2>1. UNCHANGED waiting
    BY <1>7 DEF HandleLine
  <2>2. Heard' \subseteq Heard
    BY <1>1, <1>3, <1>7 DEF Heard, Forwarded
  <2> QED BY <1>5, <1>6, <2>1, <2>2 DEF Woven, Chained, Queued
<1>8. CASE Forwarded(kind)
  <2> DEFINE l == [at |-> n, kind |-> RecordKind(kind)]
             m == Len(waiting) + 1
  <2>1. waiting' = Append(waiting, l)
    BY <1>3, <1>8 DEF HandleLine
  <2>2. waiting' \in Seq(Line)
    BY HandleTyping DEF Typed
  <2>3. Len(waiting') = m /\ DOMAIN waiting' = 1 .. m
    BY <1>1, <2>1, <2>2
  <2>4. waiting'[m] = l /\ \A i \in DOMAIN waiting : waiting'[i] = waiting[i]
    BY <1>1, <2>1
  <2>5. \A i \in DOMAIN waiting' : i = m \/ i \in DOMAIN waiting
    BY <1>1, <2>3
  <2>6. l.at = n /\ l.kind = RecordKind(kind)
    OBVIOUS
  <2> HIDE DEF l, m, n
  <2>7. n \in Heard' /\ Heeds(output', l)
    BY <1>1, <1>3, <1>8, <2>6 DEF Heard, Heeds, Forwarded, n
  <2>8. \A i \in DOMAIN waiting' : Heeds(output', waiting'[i])
    BY <1>6, <2>4, <2>5, <2>7
  <2>9. \A i, j \in DOMAIN waiting' : i < j => waiting'[i].at < waiting'[j].at
    <3>1. \A i \in DOMAIN waiting : ~(m < i)
      BY <1>1 DEF m
    <3>2. ~(m < m)
      BY <1>1 DEF m
    <3> QED BY <1>6, <2>4, <2>5, <2>6, <3>1, <3>2 DEF Woven
  <2>10. \A i \in DOMAIN chain, j \in DOMAIN waiting' : chain[i].at < waiting'[j].at
    BY <1>5, <2>4, <2>5, <2>6 DEF Woven
  <2>11. Heard' \subseteq Chained \cup Queued'
    <3>1. Heard' \subseteq Heard \cup {n}
      BY <1>1, <1>3 DEF Heard, n
    <3>2. m \in DOMAIN waiting' /\ DOMAIN waiting \subseteq DOMAIN waiting'
      BY <1>1, <2>3 DEF m
    <3>3. Queued \cup {n} \subseteq Queued'
      BY <2>4, <2>6, <3>2 DEF Queued
    <3> QED BY <3>1, <3>3 DEF Woven
  <2> QED BY <1>5, <2>8, <2>9, <2>10, <2>11 DEF Woven, Chained
<1> QED BY <1>7, <1>8

\* The line in turn becomes the last of the chain.
LEMMA AcceptWoven ==
    ASSUME Typed, Woven, NEW r \in Runs, Accept(r)
    PROVE  Woven' /\ waiting # << >>
<1> DEFINE k == Len(waiting)
           n == Len(chain) + 1
<1>1. /\ waiting \in Seq(Line) /\ k \in Nat /\ DOMAIN waiting = 1 .. k
      /\ chain \in Seq(Line) /\ Len(chain) \in Nat /\ DOMAIN chain = 1 .. Len(chain)
  BY DEF Typed, TypeOK
<1>2. waiting # << >> /\ UNCHANGED output
  BY DEF Accept, Listening, stream
<1>3. k >= 1
  BY <1>1, <1>2
<1>4. /\ waiting' \in Seq(Line) /\ Len(waiting') = k - 1
      /\ \A i \in 1 .. k - 1 : waiting'[i] = waiting[i + 1]
  <2>1. waiting' = RemoveAt(waiting, Turn)
    BY DEF Accept
  <2>2. /\ RemoveAt(waiting, Turn) \in Seq(Line)
        /\ Len(RemoveAt(waiting, Turn)) = Len(waiting) - 1
        /\ \A i \in 1 .. Len(waiting) - 1 : RemoveAt(waiting, Turn)[i] = waiting[i + 1]
    <3>1. waiting \in Seq(Line) /\ waiting # << >>
      BY <1>1, <1>2
    <3> QED BY <3>1, TakeTurn
  <2> QED BY <2>1, <2>2
<1>5. DOMAIN waiting' = 1 .. k - 1 /\ \A i \in DOMAIN waiting' : i + 1 \in DOMAIN waiting
  BY <1>1, <1>3, <1>4
<1>6. waiting[1] \in Line /\ 1 \in DOMAIN waiting
  BY <1>1, <1>3
<1>7. chain' = Append(chain, waiting[1])
  BY DEF Accept, Turn
<1>8. /\ DOMAIN chain' = 1 .. n /\ chain'[n] = waiting[1]
      /\ \A i \in DOMAIN chain : chain'[i] = chain[i]
  BY <1>1, <1>6, <1>7
<1>9. \A i \in DOMAIN chain' : i = n \/ i \in DOMAIN chain
  BY <1>1, <1>8
<1>10. output' = output
  BY <1>2
<1>11. \A i \in DOMAIN chain' : Heeds(output', chain'[i])
  BY <1>6, <1>8, <1>9, <1>10 DEF Woven
<1>12. \A i \in DOMAIN waiting' : Heeds(output', waiting'[i])
  BY <1>4, <1>5, <1>10 DEF Woven
<1>13. \A i, j \in DOMAIN chain' : i < j => chain'[i].at < chain'[j].at
  <2>1. ~(n < n) /\ \A i \in DOMAIN chain : ~(n < i)
    BY <1>1
  <2> QED BY <1>6, <1>8, <1>9, <2>1 DEF Woven
<1>14. \A i, j \in DOMAIN waiting' : i < j => waiting'[i].at < waiting'[j].at
  <2>1. \A i, j \in DOMAIN waiting' : i < j => i + 1 < j + 1
    BY <1>5
  <2> QED BY <1>4, <1>5, <2>1 DEF Woven
<1>15. \A i \in DOMAIN chain', j \in DOMAIN waiting' : chain'[i].at < waiting'[j].at
  <2>1. \A j \in DOMAIN waiting' : 1 < j + 1
    BY <1>5
  <2> QED BY <1>4, <1>5, <1>6, <1>8, <1>9, <2>1 DEF Woven
<1>16. Heard' \subseteq Chained' \cup Queued'
  <2>1. Chained \cup {waiting[1].at} \subseteq Chained'
    <3>1. n \in DOMAIN chain' /\ DOMAIN chain \subseteq DOMAIN chain'
      BY <1>1, <1>8
    <3> QED BY <1>8, <3>1 DEF Chained
  <2>2. Queued \subseteq Queued' \cup {waiting[1].at}
    <3>1. \A i \in DOMAIN waiting : i = 1 \/ (i - 1 \in DOMAIN waiting' /\ waiting'[i - 1] = waiting[i])
      BY <1>1, <1>4, <1>5
    <3> QED BY <3>1 DEF Queued
  <2> QED BY <1>2, <2>1, <2>2 DEF Woven, Heard
<1> QED BY <1>2, <1>11, <1>12, <1>13, <1>14, <1>15, <1>16 DEF Woven

LEMMA WovenInOrder == ASSUME Typed, Woven, Told PROVE EventsAreInOrder
<1>1. Heard \subseteq Nat /\ DOMAIN output \subseteq Nat
  <2>1. output \in Seq(Kinds)
    BY DEF Typed, TypeOK
  <2> QED BY <2>1 DEF Heard
<1>2. \A i \in Chained, k \in Heard : k < i => k \in Chained
  <2>1. ASSUME NEW i \in DOMAIN chain, NEW j \in DOMAIN waiting, waiting[j].at < chain[i].at PROVE FALSE
    <3>1. chain[i].at \in Nat /\ waiting[j].at \in Nat
      BY <1>1 DEF Woven, Heeds
    <3> QED BY <2>1, <3>1 DEF Woven
  <2> QED BY <2>1 DEF Woven, Chained, Queued
<1>3. ASSUME NEW r \in Runs, stage[r] = "judged", verdict \notin {"audit", "parse"}
      PROVE  Heard \subseteq Chained
  <2>1. DOMAIN waiting = {}
    BY <1>3 DEF Told
  <2> QED BY <2>1 DEF Woven, Queued
<1> QED BY <1>2, <1>3 DEF EventsAreInOrder, Woven, Heeds, Heard

\* Only the Run that is under way has a stage that says so.
LEMMA AloneHears ==
    ASSUME OneAtATime, NEW r \in Runs, stage[r] \notin {"new", "over"}
    PROVE  \A s \in Runs : s # r => ~Hears(s)
  BY Alone DEF Hears

LEMMA EventsStep ==
    ASSUME Typed, OneAtATime, Woven, Told, [Next]_vars
    PROVE  Woven' /\ Told'
<1> USE DEF agent, disk, engine, process, stream
<1>1. /\ stage \in [Runs -> {"new", "admitted", "resolved", "captured", "running", "draining",
                             "judged", "over"}]
      /\ output \in Seq(Kinds) /\ Len(output) \in Nat
  BY DEF Typed, TypeOK
<1>2. ASSUME UNCHANGED <<output, waiting, chain>> PROVE Woven'
  BY <1>2 DEF Woven, Heeds, Heard, Chained, Queued
<1>3. ASSUME Silent' PROVE Woven' /\ Told'
  <2>1. Woven'
    <3>1. DOMAIN << >> = {}
      OBVIOUS
    <3> QED BY <1>3, <3>1 DEF Silent, Woven, Heard, Chained, Queued
  <2> QED BY <1>3, <2>1 DEF Told, Silent
<1>4. ASSUME UNCHANGED <<stage, output, waiting, chain, verdict>> PROVE Woven' /\ Told'
  BY <1>2, <1>4 DEF Told, Hears, Silent
<1>5. ASSUME NEW r \in Runs, NEW x \in {"admitted", "resolved", "captured", "over"}, ~Hears(r),
             Goto(r, x), UNCHANGED <<output, waiting, chain, verdict>>
      PROVE  Woven' /\ Told'
  <2>1. \A s \in Runs : Hears(s)' <=> Hears(s)
    BY <1>1, <1>5 DEF Hears, Goto
  <2>2. \A s \in Runs : stage'[s] = "judged" => stage[s] = "judged"
    BY <1>1, <1>5 DEF Goto
  <2> QED BY <1>2, <1>5, <2>1, <2>2 DEF Told, Silent
\* The Run that moves is the one that is heard, before or after.
<1>6. ASSUME NEW r \in Runs, stage[r] \notin {"new", "over"}, NEW x \in {"running", "draining", "judged"},
             Goto(r, x), Woven', x = "judged" /\ verdict' \notin {"audit", "parse"} => waiting' = << >>
      PROVE  Told'
  <2>1. Hears(r)'
    BY <1>1, <1>6 DEF Hears, Goto
  <2>2. ASSUME NEW s \in Runs, stage'[s] = "judged" PROVE s = r /\ x = "judged"
    BY <1>1, <1>6, <2>2, AloneHears DEF Hears, Goto
  <2> QED BY <1>6, <2>1, <2>2 DEF Told
<1>7. ASSUME NEW r \in Runs, Hears(r), UNCHANGED stage, stage[r] = "judged" => verdict' \in {"audit", "parse"}
      PROVE  Told'
  <2>1. ASSUME NEW s \in Runs, stage[s] = "judged" PROVE s = r
    BY <1>7, <2>1, AloneHears DEF Hears
  <2> QED BY <1>7, <2>1 DEF Told, Hears
<1>8. ASSUME UpdateAgent \/ UNCHANGED vars PROVE Woven' /\ Told'
  BY <1>4, <1>8 DEF UpdateAgent, vars
<1>9. ASSUME NEW r \in Runs,
             \/ Cancel(r) \/ Timeout(r) \/ Overflow(r) \/ ForceKill(r)
             \/ Engine(r) \/ Write(r) \/ Exit(r) \/ Release(r)
      PROVE  Woven' /\ Told'
  <2>1. CASE Cancel(r) \/ Timeout(r) \/ Overflow(r) \/ ForceKill(r)
    BY <1>4, <2>1 DEF Cancel, Timeout, Overflow, ForceKill
  <2>2. CASE Engine(r) \/ Write(r) \/ Exit(r) \/ Release(r)
    BY <1>4, <2>2 DEF Engine, ContainerStarts, Detached, RemoveContainer, BoxEnds, Write, Exit,
              Release
  <2> QED BY <1>9, <2>1, <2>2
<1>10. ASSUME NEW r \in Runs, SendMessage(r) \/ Resolve(r) \/ CaptureBefore(r) \/ PrepareFails(r)
       PROVE  Woven' /\ Told'
  <2>1. ~Hears(r)
    BY <1>10 DEF SendMessage, Resolve, CaptureBefore, PrepareFails, Hears
  <2>2. UNCHANGED <<output, waiting, chain, verdict>>
    BY <1>10 DEF SendMessage, Resolve, CaptureBefore, PrepareFails
  <2>3. \E x \in {"admitted", "resolved", "captured", "over"} : Goto(r, x)
    BY <1>10 DEF SendMessage, Resolve, CaptureBefore, PrepareFails
  <2> QED BY <1>5, <2>1, <2>2, <2>3
<1>11. ASSUME NEW r \in Runs, Launch(r) PROVE Woven' /\ Told'
  <2>1. Woven'
    BY <1>2, <1>11 DEF Launch
  <2> QED BY <1>6, <1>11, <2>1 DEF Launch
<1>12. ASSUME NEW r \in Runs, SpawnFails(r) PROVE Woven' /\ Told'
  <2>1. stage[r] = "captured" /\ Goto(r, "judged") /\ UNCHANGED <<output, waiting, chain>>
    BY <1>12 DEF SpawnFails
  <2>2. waiting' = << >>
    <3>1. \A s \in Runs : ~Hears(s)
      BY <2>1, AloneHears DEF Hears
    <3> QED BY <2>1, <3>1 DEF Told, Silent
  <2>3. Woven'
    BY <1>2, <2>1
  <2> QED BY <1>6, <2>1, <2>2, <2>3
<1>13. ASSUME NEW r \in Runs, Chunk(r) PROVE Woven' /\ Told'
  <2>1. UNCHANGED <<stage, chain, verdict>> /\ stage[r] = "running"
    BY <1>13 DEF Chunk, Emits
  <2>2. Woven'
    <3>1. CASE UNCHANGED <<output, waiting>>
      BY <1>2, <2>1, <3>1
    <3>2. ASSUME NEW kind \in Kinds, HandleLine(kind), partial' \in BOOLEAN PROVE Woven'
      <4>1. Len(output') = Len(output) + 1
        BY <1>1, <3>2 DEF HandleLine
      <4>2. Len(output) < MaxLines
        BY <1>1, <1>13, <3>2, <4>1 DEF Chunk, Emits
      <4> QED BY <2>1, <3>2, <4>2, HandleWoven
    <3> QED BY <1>13, <3>1, <3>2 DEF Chunk, Emits
  <2> QED BY <1>7, <2>1, <2>2 DEF Hears
<1>14. ASSUME NEW r \in Runs, ChunkThrows(r) \/ (AppendFails(r) /\ stage[r] # "draining")
       PROVE  Woven' /\ Told'
  <2>1. Silent'
    BY <1>14 DEF ChunkThrows, Emits, AppendFails, ServerDies, Cleared, Silent
  <2> QED BY <1>3, <2>1
<1>15. ASSUME NEW r \in Runs, AppendFails(r), stage[r] = "draining" PROVE Woven' /\ Told'
  BY <1>4, <1>15 DEF AppendFails
<1>16. ASSUME NEW r \in Runs, Accept(r) PROVE Woven' /\ Told'
  <2>1. UNCHANGED <<stage, verdict>> /\ Hears(r)
    BY <1>16 DEF Accept, Listening, Executing, Hears
  <2>2. Woven' /\ waiting # << >>
    BY <1>16, AcceptWoven
  <2> QED BY <1>7, <2>1, <2>2 DEF Told
<1>17. ASSUME NEW r \in Runs, Close(r) PROVE Woven' /\ Told'
  <2>1. stage[r] = "running" /\ Goto(r, "draining") /\ UNCHANGED chain
    BY <1>17 DEF Close
  <2>2. Woven'
    <3>1. CASE UNCHANGED <<output, waiting>>
      BY <1>2, <2>1, <3>1
    <3>2. ASSUME Leftover, NEW kind \in Kinds, HandleLine(kind) PROVE Woven'
      <4>1. Len(output) < MaxLines
        BY <1>1, <3>2 DEF Leftover, Typed, Room
      <4> QED BY <2>1, <3>2, <4>1, HandleWoven
    <3> QED BY <1>17, <3>1, <3>2 DEF Close
  <2> QED BY <1>6, <2>1, <2>2
<1>18. ASSUME NEW r \in Runs, CloseThrows(r) \/ Judge(r) PROVE Woven' /\ Told'
  <2>1. stage[r] \in {"running", "draining"} /\ Goto(r, "judged") /\ UNCHANGED <<output, waiting, chain>>
    BY <1>18 DEF CloseThrows, Judge
  <2>2. verdict' \notin {"audit", "parse"} => waiting' = << >>
    BY <1>18 DEF CloseThrows, Judge, Drained, VerdictOf
  <2>3. Woven'
    BY <1>2, <2>1
  <2> QED BY <1>6, <2>1, <2>2, <2>3
<1>19. ASSUME NEW r \in Runs, CaptureAfter(r) \/ CaptureFails(r) PROVE Woven' /\ Told'
  <2>1. Silent'
    BY <1>19 DEF CaptureAfter, CaptureFails, Cleared, Silent
  <2> QED BY <1>3, <2>1
<1> QED BY <1>8, <1>9, <1>10, <1>11, <1>12, <1>13, <1>14, <1>15, <1>16, <1>17, <1>18, <1>19
        DEF Next, Runner, Execution

LEMMA EventsHold == Spec => [](Typed /\ OneAtATime /\ Woven /\ Told)
<1>1. Init => OneAtATime /\ Woven /\ Told
  <2> SUFFICES ASSUME Init PROVE OneAtATime /\ Woven /\ Told
    OBVIOUS
  <2>1. Silent
    BY DEF Init, Silent
  <2>2. OneAtATime /\ Told
    BY <2>1 DEF Init, OneAtATime, Told
  <2> QED BY <2>1, <2>2, SilentWoven
<1>2. Typed /\ OneAtATime /\ Woven /\ Told /\ [Next]_vars => (Typed /\ OneAtATime /\ Woven /\ Told)'
  BY TypeStep, OrderStep, EventsStep
<1> QED BY TypeInit, <1>1, <1>2, PTL DEF Spec

\* Whatever the order of chunks, appends, signals and faults, the ledger has a Run's output
\* from its beginning, line by line, and all of it once the Run's verdict does not say that
\* the audit or the parsing failed.
THEOREM EventsStayInOrder == Spec => []EventsAreInOrder
<1>1. Typed /\ Woven /\ Told => EventsAreInOrder
  BY WovenInOrder
<1> QED BY EventsHold, <1>1, PTL

(***************************************************************************)
(* The work file and its artifacts.  A Run that is under way began where   *)
(* the last artifact ended; the file is there too, unless a process may    *)
(* have changed it since.                                                  *)
(***************************************************************************)
Upto == IF artifacts = << >> THEN None ELSE Last(artifacts).to
Linked == \A i \in DOMAIN artifacts : artifacts[i].from = IF i = 1 THEN None ELSE artifacts[i-1].to
Fine == ~Unstored /\ ~strayed
Prepared(r) == stage[r] \in {"captured", "running", "draining", "judged"}
Accounted ==
    /\ \A r \in pending : Prepared(r) \/ stage[r] = "over"
    /\ \A r \in Runs : Prepared(r) => r \in pending
    /\ ~strayed => \A r \in Runs : box = r => stage[r] \in {"running", "draining"}
    /\ Fine => /\ Linked
               /\ \A r \in Runs : Prepared(r) => before[r] = Upto
               /\ (\A r \in Runs : ~Hears(r)) => workspace = Upto

LEMMA DiffLinked ==
    ASSUME Typed, NEW r \in Runs, before[r] = Upto, Linked, artifacts' = artifacts \o Recorded(r)
    PROVE  Linked' /\ Upto' = workspace
<1>1. artifacts \in Seq(Artifact) /\ Len(artifacts) \in Nat /\ DOMAIN artifacts = 1 .. Len(artifacts)
  BY DEF Typed, TypeOK
<1>2. CASE before[r] = workspace
  <2>1. artifacts' = artifacts
    BY <1>1, <1>2, ConcatEmptySeq DEF Recorded, DiffsOf
  <2> QED BY <1>2, <2>1 DEF Linked, Upto, Last
<1>3. CASE before[r] # workspace
  <2> DEFINE n == Len(artifacts) + 1
             a == [run |-> r, from |-> before[r], to |-> workspace,
                   state |-> IF before[r] = None THEN "CREATED"
                             ELSE IF workspace = None THEN "DELETED" ELSE "MODIFIED"]
  <2>1. Recorded(r) = <<a>>
    BY <1>3 DEF Recorded, DiffsOf
  <2>2. Recorded(r) \in Seq(Artifact)
    BY DiffTyping DEF Typed
  <2>3. a.from = Upto /\ a.to = workspace
    OBVIOUS
  <2>4. Len(<<a>>) = 1 /\ <<a>>[1] = a
    OBVIOUS
  <2> HIDE DEF a
  <2>5. /\ artifacts' \in Seq(Artifact) /\ Len(artifacts') = n
        /\ \A i \in 1 .. n : artifacts'[i] = IF i <= Len(artifacts) THEN artifacts[i] ELSE <<a>>[i - Len(artifacts)]
    BY <1>1, <2>1, <2>2, <2>4, ConcatProperties
  <2>6. DOMAIN artifacts' = 1 .. n /\ artifacts'[n] = a /\ \A i \in DOMAIN artifacts : artifacts'[i] = artifacts[i]
    BY <1>1, <2>4, <2>5
  <2>7. Upto' = workspace
    <3>1. artifacts' # << >>
      BY <1>1, <2>5
    <3> QED BY <2>3, <2>5, <2>6, <3>1 DEF Upto, Last
  <2>8. ASSUME NEW i \in DOMAIN artifacts'
        PROVE  artifacts'[i].from = IF i = 1 THEN None ELSE artifacts'[i-1].to
    <3>1. CASE i \in DOMAIN artifacts
      <4>1. i # 1 => i - 1 \in DOMAIN artifacts
        BY <1>1, <3>1
      <4> QED BY <2>6, <3>1, <4>1 DEF Linked
    <3>2. CASE i = n
      <4>1. CASE Len(artifacts) = 0
        <5>1. artifacts = << >>
          BY <1>1, <4>1
        <5> QED BY <1>1, <2>3, <2>6, <3>2, <4>1, <5>1 DEF Upto
      <4>2. CASE Len(artifacts) # 0
        <5>1. artifacts # << >> /\ n # 1 /\ n - 1 = Len(artifacts) /\ n - 1 \in DOMAIN artifacts
          BY <1>1, <4>2
        <5> QED BY <2>3, <2>6, <3>2, <5>1 DEF Upto, Last
      <4> QED BY <4>1, <4>2
    <3> QED BY <1>1, <2>6, <3>1, <3>2
  <2> QED BY <2>7, <2>8 DEF Linked
<1> QED BY <1>2, <1>3

LEMMA WorkStep ==
    ASSUME Typed, OneAtATime, Accounted, [Next]_vars
    PROVE  Accounted'
<1> USE DEF agent, disk, engine, process, stream
<1>1. /\ stage \in [Runs -> {"new", "admitted", "resolved", "captured", "running", "draining",
                             "judged", "over"}]
      /\ pending \subseteq Runs /\ before \in [Runs -> Content] /\ None \notin Runs
  BY DEF Typed, TypeOK, Runs
\* Steps that leave the work file, its records and the stages alone.
<1>2. ASSUME UNCHANGED <<workspace, stage, before, pending, artifacts, strayed>>,
             box' = box \/ box' = None \/ \E r \in Runs : box' = r /\ stage[r] = "running"
      PROVE  Accounted'
  BY <1>1, <1>2 DEF Accounted, Prepared, Hears, Fine, Unstored, Linked, Upto
\* Steps by which a Run gets on.
<1>3. ASSUME NEW r \in Runs, UNCHANGED <<workspace, before, pending, artifacts, box>>,
             \/ /\ stage[r] \in {"new", "admitted", "resolved"} /\ UNCHANGED strayed
                /\ \E x \in {"admitted", "resolved", "over"} : Goto(r, x)
             \/ /\ stage[r] = "captured" /\ UNCHANGED strayed
                /\ \E x \in {"running", "judged"} : Goto(r, x)
             \/ stage[r] = "running" /\ Goto(r, "draining") /\ UNCHANGED strayed
             \/ /\ stage[r] \in {"running", "draining"} /\ Goto(r, "judged")
                /\ strayed \/ box = r => strayed'
      PROVE  Accounted'
  <2>1. ASSUME NEW s \in Runs, s # r PROVE stage'[s] = stage[s]
    BY <1>1, <1>3, <2>1 DEF Goto
  <2>2. Prepared(r)' <=> Prepared(r)
    BY <1>1, <1>3 DEF Prepared, Goto
  <2>3. \A s \in Runs : Prepared(s)' <=> Prepared(s)
    BY <2>1, <2>2 DEF Prepared
  <2>4. Hears(r) => Hears(r)'
    BY <1>1, <1>3 DEF Hears, Goto
  <2>5. (\A s \in Runs : ~Hears(s)') => \A s \in Runs : ~Hears(s)
    BY <2>1, <2>4 DEF Hears
  <2>6. Fine' => Fine
    <3>1. ASSUME NEW s \in pending, stage[s] = "over" PROVE stage'[s] = "over"
      BY <1>1, <1>3, <2>1, <3>1
    <3>2. strayed => strayed'
      BY <1>3
    <3> QED BY <1>1, <1>3, <3>1, <3>2 DEF Fine, Unstored
  <2>7. ASSUME NEW s \in pending PROVE Prepared(s)' \/ stage'[s] = "over"
    BY <1>1, <2>1, <2>3, <1>3 DEF Accounted, Prepared
  <2>8. ASSUME NEW s \in Runs, ~strayed', box = s PROVE stage'[s] \in {"running", "draining"}
    BY <1>1, <1>3, <2>1, <2>8 DEF Accounted, Goto
  <2> QED BY <1>3, <2>3, <2>5, <2>6, <2>7, <2>8 DEF Accounted, Linked, Upto
<1>4. ASSUME UpdateAgent \/ UNCHANGED vars PROVE Accounted'
  BY <1>2, <1>4 DEF UpdateAgent, vars
<1>5. ASSUME NEW r \in Runs,
             \/ Cancel(r) \/ Timeout(r) \/ Overflow(r) \/ ForceKill(r)
             \/ Engine(r) \/ Exit(r) \/ Release(r) \/ Chunk(r) \/ Accept(r)
      PROVE  Accounted'
  <2>1. CASE \/ Cancel(r) \/ Timeout(r) \/ Overflow(r) \/ ForceKill(r)
            \/ Release(r) \/ Chunk(r) \/ Accept(r)
    BY <1>2, <2>1 DEF Cancel, Timeout, Overflow, ForceKill, Release, Chunk, Emits, Accept
  <2>2. CASE Engine(r) \/ Exit(r)
    BY <1>2, <2>2 DEF Engine, ContainerStarts, Detached, RemoveContainer, BoxEnds, Exit,
                      Release
  <2> QED BY <1>5, <2>1, <2>2
<1>6. ASSUME NEW r \in Runs, SendMessage(r) \/ Resolve(r) \/ PrepareFails(r) PROVE Accounted'
  <2>1. /\ UNCHANGED <<workspace, before, pending, artifacts, box, strayed>>
        /\ stage[r] \in {"new", "admitted", "resolved"}
    BY <1>6 DEF SendMessage, Resolve, PrepareFails
  <2>2. \E x \in {"admitted", "resolved", "over"} : Goto(r, x)
    BY <1>6 DEF SendMessage, Resolve, PrepareFails
  <2> QED BY <1>3, <2>1, <2>2
<1>7. ASSUME NEW r \in Runs, Launch(r) \/ SpawnFails(r) PROVE Accounted'
  <2>1. UNCHANGED <<workspace, before, pending, artifacts, box, strayed>> /\ stage[r] = "captured"
    BY <1>7 DEF Launch, SpawnFails
  <2>2. \E x \in {"running", "judged"} : Goto(r, x)
    BY <1>7 DEF Launch, SpawnFails
  <2> QED BY <1>3, <2>1, <2>2
<1>8. ASSUME NEW r \in Runs, Close(r) PROVE Accounted'
  BY <1>3, <1>8 DEF Close
<1>9. ASSUME NEW r \in Runs, CloseThrows(r) \/ Judge(r) PROVE Accounted'
  <2>1. /\ UNCHANGED <<workspace, before, pending, artifacts, box>>
        /\ stage[r] \in {"running", "draining"} /\ Goto(r, "judged")
        /\ strayed \/ box = r => strayed'
    BY <1>9 DEF CloseThrows, Judge, Strays
  <2> QED BY <1>3, <2>1
<1>10. ASSUME NEW r \in Runs, Write(r) PROVE Accounted'
  <2>1. /\ UNCHANGED <<stage, before, pending, artifacts, box, strayed>>
        /\ Works(r) \/ Executing(r) \/ strayed
    BY <1>10 DEF Write
  <2>2. ~strayed => Hears(r)
    BY <2>1 DEF Works, Executing, Accounted, Hears
  <2> QED BY <2>1, <2>2 DEF Accounted, Prepared, Hears, Fine, Unstored, Linked, Upto
<1>11. ASSUME NEW r \in Runs, CaptureBefore(r) PROVE Accounted'
  <2>1. /\ stage[r] = "resolved" /\ stage' = [stage EXCEPT ![r] = "captured"]
        /\ before' = [before EXCEPT ![r] = workspace] /\ pending' = pending \cup {r}
        /\ UNCHANGED <<workspace, artifacts, box, strayed>>
    BY <1>11 DEF CaptureBefore, Goto
  <2>2. \A s \in Runs : ~Hears(s) /\ ~Hears(s)'
    BY <1>1, <2>1, AloneHears DEF Hears
  <2>3. ASSUME Fine' PROVE Fine
    BY <1>1, <2>1, <2>3 DEF Fine, Unstored
  <2>4. \A s \in Runs : s # r => (Prepared(s)' <=> Prepared(s)) /\ before'[s] = before[s]
    BY <1>1, <2>1 DEF Prepared
  <2>5. Prepared(r)' /\ before'[r] = workspace
    BY <1>1, <2>1 DEF Prepared
  <2>6. \A s \in pending' : Prepared(s)' \/ stage'[s] = "over"
    BY <1>1, <2>1, <2>4, <2>5 DEF Accounted
  <2>7. \A s \in Runs : Prepared(s)' => s \in pending'
    BY <2>1, <2>4 DEF Accounted
  <2>8. ~strayed' => \A s \in Runs : box' = s => stage'[s] \in {"running", "draining"}
    BY <1>1, <2>1 DEF Accounted
  <2>9. Fine' => /\ Linked'
                 /\ \A s \in Runs : Prepared(s)' => before'[s] = Upto'
                 /\ workspace' = Upto'
    BY <2>1, <2>2, <2>3, <2>4, <2>5 DEF Accounted, Linked, Upto
  <2> QED BY <2>6, <2>7, <2>8, <2>9 DEF Accounted
\* A Run whose manifest stays pending when it is over.
<1>12. ASSUME NEW r \in Runs, Prepared(r), Goto(r, "over"),
              strayed \/ (stage[r] # "judged" /\ box = r) => strayed',
              UNCHANGED <<workspace, before, pending, artifacts, box>>
       PROVE  Accounted'
  <2>1. stage' = [stage EXCEPT ![r] = "over"] /\ r \in pending
    BY <1>12 DEF Goto, Accounted
  <2>2. ~Fine'
    BY <1>1, <1>12, <2>1 DEF Fine, Unstored
  <2>3. \A s \in Runs : s # r => (Prepared(s)' <=> Prepared(s)) /\ stage'[s] = stage[s]
    BY <1>1, <2>1 DEF Prepared
  <2>4. ~Prepared(r)'
    BY <1>1, <2>1 DEF Prepared
  <2>5. ASSUME ~strayed', NEW s \in Runs, box = s PROVE stage'[s] \in {"running", "draining"}
    BY <1>1, <1>12, <2>3, <2>5 DEF Accounted
  <2> QED BY <1>1, <1>12, <2>1, <2>2, <2>3, <2>4, <2>5 DEF Accounted
<1>13. ASSUME NEW r \in Runs, stage[r] \in {"running", "judged"} \/ Executing(r), ServerDies(r) PROVE Accounted'
  <2>1. Prepared(r)
    BY <1>13 DEF Prepared, Executing
  <2>2. strayed \/ (stage[r] # "judged" /\ box = r) => strayed'
    BY <1>13 DEF ServerDies
  <2> QED BY <1>12, <1>13, <2>1, <2>2 DEF ServerDies
<1>14. ASSUME NEW r \in Runs, ChunkThrows(r) PROVE Accounted'
  BY <1>13, <1>14 DEF ChunkThrows, Emits
<1>15. ASSUME NEW r \in Runs, AppendFails(r) PROVE Accounted'
  BY <1>2, <1>13, <1>15 DEF AppendFails, Listening
\* A Run whose diff is stored.
<1>16. ASSUME NEW r \in Runs, stage[r] = "judged", Goto(r, "over"),
              artifacts' = artifacts \o Recorded(r), pending' = pending \ {r},
              UNCHANGED <<workspace, before, box, strayed>>
       PROVE  Accounted'
  <2>1. stage' = [stage EXCEPT ![r] = "over"] /\ Prepared(r)
    BY <1>16 DEF Goto, Prepared
  <2>2. \A s \in Runs : s # r => (Prepared(s)' <=> Prepared(s)) /\ stage'[s] = stage[s]
    BY <1>1, <2>1 DEF Prepared
  <2>3. ~Prepared(r)' /\ stage'[r] = "over"
    BY <1>1, <2>1 DEF Prepared
  <2>4. \A s \in Runs : ~Prepared(s)'
    <3>1. ASSUME NEW s \in Runs, s # r PROVE ~Prepared(s)
      BY <1>16, <3>1, Alone DEF Prepared
    <3> QED BY <2>2, <2>3, <3>1
  <2>5. ASSUME Fine' PROVE Fine
    <3>1. ASSUME NEW s \in pending, stage[s] = "over" PROVE s \in pending' /\ stage'[s] = "over"
      BY <1>1, <1>16, <2>2, <3>1
    <3> QED BY <1>1, <1>16, <2>5, <3>1 DEF Fine, Unstored
  <2>6. Fine' => Linked' /\ workspace' = Upto'
    <3>1. ASSUME Fine PROVE Linked' /\ Upto' = workspace
      BY <1>16, <2>1, <3>1, DiffLinked DEF Accounted
    <3> QED BY <1>16, <2>5, <3>1
  <2>7. \A s \in pending' : Prepared(s)' \/ stage'[s] = "over"
    BY <1>1, <1>16, <2>2 DEF Accounted
  <2>8. ASSUME ~strayed', NEW s \in Runs, box' = s PROVE stage'[s] \in {"running", "draining"}
    BY <1>1, <1>16, <2>2, <2>8 DEF Accounted
  <2> QED BY <2>4, <2>6, <2>7, <2>8 DEF Accounted
<1>17. ASSUME NEW r \in Runs, CaptureAfter(r) PROVE Accounted'
  BY <1>16, <1>17 DEF CaptureAfter
<1>18. ASSUME NEW r \in Runs, CaptureFails(r) PROVE Accounted'
  <2>1. stage[r] = "judged" /\ Goto(r, "over") /\ UNCHANGED <<workspace, before, box, strayed>>
    BY <1>18 DEF CaptureFails
  <2>2. CASE UNCHANGED <<artifacts, pending>>
    <3>1. strayed \/ (stage[r] # "judged" /\ box = r) => strayed'
      BY <2>1
    <3> QED BY <1>12, <2>1, <2>2, <3>1 DEF Prepared
  <2>3. CASE artifacts' = artifacts \o Recorded(r) /\ pending' = pending \ {r}
    BY <1>16, <2>1, <2>3
  <2> QED BY <1>18, <2>2, <2>3 DEF CaptureFails
<1> QED BY <1>4, <1>5, <1>6, <1>7, <1>8, <1>9, <1>10, <1>11, <1>14, <1>15, <1>17, <1>18
        DEF Next, Runner, Execution

LEMMA WorkHolds == Spec => [](Typed /\ OneAtATime /\ Accounted)
<1>1. Init => OneAtATime /\ Accounted
  <2> SUFFICES ASSUME Init PROVE OneAtATime /\ Accounted
    OBVIOUS
  <2>1. DOMAIN << >> = {} /\ None \notin Runs
    BY DEF Runs
  <2> QED BY <2>1 DEF Init, OneAtATime, Accounted, Prepared, Hears, Fine, Linked, Upto
<1>2. Typed /\ OneAtATime /\ Accounted /\ [Next]_vars => (Typed /\ OneAtATime /\ Accounted)'
  BY TypeStep, OrderStep, WorkStep
<1> QED BY TypeInit, <1>1, <1>2, PTL DEF Spec

\* Unless a diff could not be stored or something outlived its Run, the artifacts account
\* for the work file from its creation to what it is between Runs, however a Run ended.
THEOREM ChangesStayRecorded == Spec => []ChangesAreRecorded
<1>1. Accounted => ChangesAreRecorded
  <2> SUFFICES ASSUME Accounted, ~Unstored, ~strayed
               PROVE  Linked /\ (~Busy => workspace = Upto)
    BY DEF ChangesAreRecorded, Linked, Upto
  <2>1. ~Busy => \A r \in Runs : ~Hears(r)
    BY DEF Busy, Hears
  <2> QED BY <2>1 DEF Accounted, Fine
<1> QED BY WorkHolds, <1>1, PTL

(***************************************************************************)
(* Why every execution ends.  While a Run is under way, one of the steps   *)
(* that must be taken in the end is owed: it can be taken, and stays the   *)
(* one that is owed and can be taken, until it or another step brings the  *)
(* Run nearer to its end.  From this and the fairness of each step alone,  *)
(* EveryExecutionEnds follows.  What nobody must do is to give the output  *)
(* up.                                                                     *)
(***************************************************************************)
Withheld(r) == stage[r] = "running" /\ child = "exited" /\ others = "holding"

Owed(r) ==
    CASE stage[r] = "judged"                        -> "CaptureAfter"
      [] stage[r] = "draining" /\ Drained           -> "Judge"
      [] stage[r] = "draining" /\ ~Drained          -> "Accept"
      [] Withheld(r)                                -> "Release"
      [] stage[r] = "running" /\ Closed             -> "Close"
      [] stage[r] = "running" /\ child = "starting" -> "ContainerStarts"
      [] stage[r] = "running" /\ child = "running" /\ term = "none"   -> "Timeout"
      [] stage[r] = "running" /\ child = "running" /\ term = "asked"  ->
            IF Contained THEN "RemoveContainer" ELSE "ForceKill"
      [] stage[r] = "running" /\ child = "running" /\ term = "failed" -> "ForceKill"
      [] stage[r] = "running" /\ child = "running" /\ term = "done"   -> "Detached"
      [] OTHER -> "nothing"

\* What the guard of each of these steps comes to.
Ready(r, step) ==
    CASE step = "Timeout"         -> Executing(r) /\ "timedOut" \notin flags
      [] step = "ContainerStarts" -> stage[r] = "running" /\ child = "starting"
      [] step = "RemoveContainer" -> r \in removing
      [] step = "ForceKill"       -> stage[r] = "running" /\ child \in {"starting", "running"} /\ Kills
      [] step = "Detached"        -> stage[r] = "running" /\ child = "running" /\ ~Works(r)
      [] step = "Close"           -> /\ stage[r] = "running" /\ Closed
                                     /\ Leftover => Kinds \ {"null"} # {}
      [] step = "Accept"          -> Listening(r)
      [] step = "Judge"           -> stage[r] = "draining" /\ Drained
      [] step = "CaptureAfter"    -> stage[r] = "judged"
      [] OTHER                    -> FALSE

Takes(r, step) ==
    CASE step = "Timeout"         -> Timeout(r)
      [] step = "ContainerStarts" -> ContainerStarts(r)
      [] step = "RemoveContainer" -> RemoveContainer(r)
      [] step = "ForceKill"       -> ForceKill(r)
      [] step = "Detached"        -> Detached(r)
      [] step = "Release"         -> Release(r)
      [] step = "Close"           -> Close(r)
      [] step = "Accept"          -> Accept(r)
      [] step = "Judge"           -> Judge(r)
      [] step = "CaptureAfter"    -> CaptureAfter(r)
      [] OTHER                    -> FALSE

\* What is owed can be done, but for the container nobody removes again, and is owed by
\* fairness, but for the output to be given up by those whom the process has left.
EndIsOwed == \A r \in Runs : Hears(r) => Overlooked(r) \/ Withheld(r) \/ Ready(r, Owed(r))

\* How many of these steps come after it, at most.
Ahead(step) ==
    CASE step = "ContainerStarts" -> 9 [] step = "Timeout" -> 8   [] step = "RemoveContainer" -> 7
      [] step = "ForceKill" -> 6       [] step = "Detached" -> 5  [] step = "Release" -> 4
      [] step = "Close" -> 3           [] step = "Accept" -> 2    [] step = "Judge" -> 1
      [] OTHER -> 0

\* The end of a Run, a step that is owed later, or a line less that waits when nothing is
\* heard any more.
Nearer(r) ==
    \/ stage'[r] = "over"
    \/ Ahead(Owed(r)') < Ahead(Owed(r))
    \/ Owed(r) = "Accept" /\ Owed(r)' = "Accept" /\ Len(waiting') < Len(waiting)

Still(r) == Owed(r)' = Owed(r) /\ (Owed(r) = "Accept" => waiting' = waiting)

\* No step takes a Run further from its end, and the one that is owed takes it nearer.
Spent ==
    \A r \in Runs : Hears(r) =>
        /\ Nearer(r) \/ Still(r)
        /\ Takes(r, Owed(r)) => Nearer(r)

(***************************************************************************)
(* What makes a Run's end depend on nothing but these steps: whatever has  *)
(* asked for the process to end has had its termination begun.             *)
(***************************************************************************)
Quiet == flags = {} /\ term = "none"
Ending(r) ==
    /\ stage[r] = "running" => child # "none"
    /\ stage[r] = "running" /\ child # "exited" /\ flags # {} => term # "none"
    /\ Executing(r) => (r \in removing <=> Contained /\ term = "asked")
    /\ r \in removing => Hears(r) \/ stage[r] = "over"
Ends ==
    /\ (\A r \in Runs : ~Hears(r)) => Quiet
    /\ Contained \/ (term \in {"none", "asked"} /\ child # "starting")
    /\ \A r \in Runs : Ending(r)

LEMMA EndsStep ==
    ASSUME Typed, OneAtATime, Ends, [Next]_vars
    PROVE  Ends'
<1> USE DEF agent, disk, engine, process, stream
<1>t. /\ stage \in [Runs -> {"new", "admitted", "resolved", "captured", "running", "draining",
                             "judged", "over"}]
      /\ child \in {"none", "starting", "running", "exited"}
      /\ flags \in SUBSET Flags /\ term \in {"none", "asked", "failed", "done"}
      /\ removing \subseteq Runs
  BY DEF Typed, TypeOK
\* A step that leaves the process alone.
<1>1. ASSUME UNCHANGED <<child, flags, term, provider, removing>>,
             (\A s \in Runs : ~Hears(s)') => \A s \in Runs : ~Hears(s),
             \A s \in Runs : stage'[s] = stage[s] \/ (~Executing(s)' /\ s \notin removing)
                             \/ (stage[s] = "running" /\ stage'[s] = "draining")
                             \/ (Hears(s) /\ stage'[s] = "judged")
      PROVE  Ends'
  BY <1>1 DEF Ends, Ending, Quiet, Hears, Executing, Contained
<1>2. ASSUME NEW r \in Runs, NEW x \in {"admitted", "resolved", "captured", "over"}, Goto(r, x),
             ~Hears(r), stage[r] # "over", UNCHANGED <<child, flags, term, provider, removing>>
      PROVE  Ends'
  <2>1. r \notin removing
    BY <1>2 DEF Ends, Ending
  <2>2. \A s \in Runs : Hears(s)' <=> Hears(s)
    BY <1>t, <1>2 DEF Goto, Hears
  <2>3. \A s \in Runs : stage'[s] = stage[s] \/ (~Executing(s)' /\ s \notin removing)
    BY <1>t, <1>2, <2>1 DEF Goto, Executing
  <2> QED BY <1>1, <1>2, <2>2, <2>3
<1>3. ASSUME NEW r \in Runs, NEW x \in {"draining", "judged"}, Goto(r, x), Hears(r),
             x = "draining" => stage[r] = "running",
             UNCHANGED <<child, flags, term, provider, removing>>
      PROVE  Ends'
  <2>1. Hears(r)'
    BY <1>t, <1>3 DEF Goto, Hears
  <2>2. \A s \in Runs : \/ stage'[s] = stage[s]
                        \/ stage[s] = "running" /\ stage'[s] = "draining"
                        \/ Hears(s) /\ stage'[s] = "judged"
    BY <1>t, <1>3 DEF Goto
  <2> QED BY <1>1, <1>3, <2>1, <2>2
<1>4. ASSUME UNCHANGED <<stage, child, flags, term, provider, removing>> PROVE Ends'
  BY <1>1, <1>4 DEF Hears
\* The end of an execution.
<1>5. ASSUME NEW r \in Runs, Hears(r), Cleared, Goto(r, "over"), UNCHANGED <<provider, removing>>
      PROVE  Ends'
  <2>1. \A s \in Runs : ~Hears(s)'
    BY <1>t, <1>5, AloneHears DEF Goto, Hears
  <2>2. ASSUME NEW s \in Runs PROVE s \in removing => stage'[s] = "over"
    <3>1. s \in removing => Hears(s) \/ stage[s] = "over"
      BY DEF Ends, Ending
    <3>2. s # r => stage'[s] = stage[s] /\ ~Hears(s)
      BY <1>t, <1>5, AloneHears DEF Goto, Hears
    <3> QED BY <1>t, <1>5, <3>1, <3>2 DEF Goto
  <2> QED BY <1>5, <2>1, <2>2 DEF Ends, Ending, Quiet, Cleared, Forgotten, Hears, Executing
\* Its process goes from one state to another.
<1>6. ASSUME UNCHANGED <<stage, flags, term, provider, removing>>,
             child' = "exited" \/ (child = "starting" /\ child' = "running")
      PROVE  Ends'
  BY <1>6 DEF Ends, Ending, Quiet, Hears, Executing, Contained
<1>7. ASSUME NEW r \in Runs, Launch(r) PROVE Ends'
  <2>1. stage[r] = "captured" /\ stage' = [stage EXCEPT ![r] = "running"]
        /\ UNCHANGED <<flags, term, provider, removing>>
        /\ child' = IF Contained THEN "starting" ELSE "running"
    BY <1>7 DEF Launch, Goto
  <2>2. \A s \in Runs : ~Hears(s)
    BY <2>1, AloneHears DEF Hears
  <2>3. Quiet /\ r \notin removing
    BY <2>1, <2>2 DEF Ends, Ending
  <2>4. \A s \in Runs : stage'[s] = IF s = r THEN "running" ELSE stage[s]
    BY <1>t, <2>1
  <2>5. \A s \in Runs : Ending(s)'
    BY <2>1, <2>2, <2>3, <2>4 DEF Ends, Ending, Quiet, Hears, Executing, Contained
  <2> QED BY <2>1, <2>3, <2>4, <2>5 DEF Ends, Quiet, Hears, Contained
<1>8. ASSUME NEW r \in Runs, Cancel(r) \/ Timeout(r) \/ Overflow(r) PROVE Ends'
  <2>1. Executing(r) /\ UNCHANGED <<stage, child, provider>> /\ Terminate(r)
    BY <1>8 DEF Cancel, Timeout, Overflow, Executing
  <2>2. ASSUME NEW s \in Runs, Hears(s) PROVE s = r
    BY <2>1, <2>2, AloneHears DEF Executing, Hears
  <2>3. CASE term = "none" /\ (Contained \/ child = "running")
    <3>1. term' = "asked" /\ removing' = IF Contained THEN removing \cup {r} ELSE removing
      BY <2>1, <2>3 DEF Terminate
    <3>2. ASSUME NEW s \in Runs PROVE Ending(s)'
      BY <2>1, <2>2, <3>1 DEF Ends, Ending, Hears, Executing, Contained
    <3> QED BY <2>1, <3>1, <3>2 DEF Ends, Hears, Executing, Contained
  <2>4. CASE ~(term = "none" /\ (Contained \/ child = "running"))
    <3>1. term' = term /\ removing' = removing
      BY <2>1, <2>4 DEF Terminate
    <3>2. ASSUME NEW s \in Runs PROVE Ending(s)'
      BY <1>t, <2>1, <2>2, <2>4, <3>1 DEF Ends, Ending, Hears, Executing, Contained
    <3> QED BY <2>1, <3>1, <3>2 DEF Ends, Hears, Executing, Contained
  <2> QED BY <2>3, <2>4
<1>9. ASSUME NEW r \in Runs, RemoveContainer(r) PROVE Ends'
  <2>1. /\ r \in removing /\ removing' = removing \ {r} /\ UNCHANGED <<stage, child, flags, provider>>
        /\ IF Executing(r) THEN term' \in {"done", "failed"} ELSE term' = term
    BY <1>9 DEF RemoveContainer
  <2>2. CASE Executing(r)
    <3>1. Contained /\ term = "asked"
      BY <2>1, <2>2 DEF Ends, Ending
    <3>2. ASSUME NEW s \in Runs, Hears(s) PROVE s = r
      BY <2>2, <3>2, AloneHears DEF Executing, Hears
    <3>3. ASSUME NEW s \in Runs PROVE Ending(s)'
      BY <2>1, <2>2, <3>1, <3>2 DEF Ends, Ending, Hears, Executing, Contained
    <3> QED BY <2>1, <2>2, <3>1, <3>3 DEF Ends, Hears, Executing, Contained
  <2>3. CASE ~Executing(r)
    BY <2>1, <2>3 DEF Ends, Ending, Quiet, Hears, Executing, Contained
  <2> QED BY <2>2, <2>3
<1>10. ASSUME NEW r \in Runs, ServerDies(r), Hears(r) PROVE Ends'
  BY <1>5, <1>10 DEF ServerDies
<1>11. ASSUME NEW r \in Runs, SendMessage(r) \/ Resolve(r) \/ CaptureBefore(r) \/ PrepareFails(r)
       PROVE  Ends'
  <2>1. /\ stage[r] \in {"new", "admitted", "resolved"} /\ UNCHANGED <<child, flags, term, provider, removing>>
        /\ \E x \in {"admitted", "resolved", "captured", "over"} : Goto(r, x)
    BY <1>11 DEF SendMessage, Resolve, CaptureBefore, PrepareFails
  <2> QED BY <1>2, <2>1 DEF Hears
<1>12. ASSUME NEW r \in Runs, SpawnFails(r) PROVE Ends'
  <2>1. /\ stage[r] = "captured" /\ stage' = [stage EXCEPT ![r] = "judged"]
        /\ UNCHANGED <<child, flags, term, provider, removing>>
    BY <1>12 DEF SpawnFails, Goto
  <2>2. \A s \in Runs : ~Executing(s)' /\ (s \in removing => Hears(s)' \/ stage'[s] = "over")
    BY <1>t, <2>1, AloneHears DEF Ends, Ending, Executing, Hears
  <2>3. Hears(r)'
    BY <1>t, <2>1 DEF Hears
  <2> QED BY <2>1, <2>2, <2>3 DEF Ends, Ending, Quiet, Executing, Contained
<1>13. ASSUME NEW r \in Runs, Close(r) \/ CloseThrows(r) \/ Judge(r) PROVE Ends'
  <2>1. CASE Close(r)
    <3>1. /\ Hears(r) /\ UNCHANGED <<child, flags, term, provider, removing>>
          /\ Goto(r, "draining") /\ stage[r] = "running"
      BY <2>1 DEF Close, Hears
    <3> QED BY <1>3, <3>1
  <2>2. CASE CloseThrows(r) \/ Judge(r)
    <3>1. Hears(r) /\ Forgotten /\ Goto(r, "judged") /\ UNCHANGED <<provider, removing>>
      BY <2>2 DEF CloseThrows, Judge, Hears
    <3>2. \A s \in Runs : ~Executing(s)' /\ (s \in removing => Hears(s)' \/ stage'[s] = "over")
      BY <1>t, <3>1, AloneHears DEF Ends, Ending, Executing, Goto, Hears
    <3> QED BY <3>1, <3>2 DEF Ends, Ending, Quiet, Forgotten, Executing, Contained
  <2> QED BY <1>13, <2>1, <2>2
<1>14. ASSUME NEW r \in Runs, CaptureAfter(r) \/ CaptureFails(r) PROVE Ends'
  <2>1. Hears(r) /\ Cleared /\ Goto(r, "over") /\ UNCHANGED <<provider, removing>>
    BY <1>14 DEF CaptureAfter, CaptureFails, Hears
  <2> QED BY <1>5, <2>1
<1>15. ASSUME NEW r \in Runs, ContainerStarts(r) \/ Exit(r) \/ Detached(r) \/ ForceKill(r) PROVE Ends'
  <2>1. /\ UNCHANGED <<stage, flags, term, provider, removing>>
        /\ child' = "exited" \/ (child = "starting" /\ child' = "running")
    BY <1>15 DEF ContainerStarts, Exit, Detached, ForceKill
  <2> QED BY <1>6, <2>1
<1>16. ASSUME NEW r \in Runs, BoxEnds(r) \/ Write(r) \/ Release(r) \/ Chunk(r) \/ Accept(r) PROVE Ends'
  BY <1>4, <1>16 DEF BoxEnds, Write, Release, Chunk, Accept
<1>17. ASSUME NEW r \in Runs, ChunkThrows(r) PROVE Ends'
  BY <1>10, <1>17 DEF ChunkThrows, Emits, Hears
<1>18. ASSUME NEW r \in Runs, AppendFails(r) PROVE Ends'
  <2>1. CASE stage[r] = "draining" /\ UNCHANGED <<stage, child, flags, term, provider, removing>>
    BY <1>4, <2>1
  <2>2. CASE ServerDies(r)
    BY <1>10, <1>18, <2>2 DEF AppendFails, Listening, Executing, Hears
  <2> QED BY <1>18, <2>1, <2>2 DEF AppendFails
<1>19. ASSUME UpdateAgent \/ UNCHANGED vars PROVE Ends'
  BY <1>4, <1>19 DEF UpdateAgent, vars
<1> QED BY <1>7, <1>8, <1>9, <1>11, <1>12, <1>13, <1>14, <1>15, <1>16, <1>17, <1>18, <1>19
        DEF Next, Runner, Engine, Execution

LEMMA EndsHold == Spec => [](Typed /\ OneAtATime /\ Ends)
<1>1. ASSUME Init PROVE OneAtATime /\ Ends
  BY <1>1 DEF Init, OneAtATime, Ends, Ending, Quiet, Hears, Executing
<1>2. Typed /\ OneAtATime /\ Ends /\ [Next]_vars => (Typed /\ OneAtATime /\ Ends)'
  BY TypeStep, OrderStep, EndsStep
<1> QED BY TypeInit, <1>1, <1>2, PTL DEF Spec

\* There is always a step towards the end of a Run that can be taken, and must be in the
\* end: no Run waits for what its process does, or for a second attempt to end it.  It may
\* wait, for ever, for those whom its process has left to give its output up.
THEOREM TheEndIsOwed ==
    ASSUME Kinds \ {"null"} # {}
    PROVE  Spec => []EndIsOwed
<1>1. ASSUME Typed, Ends, NEW r \in Runs, Hears(r)
      PROVE  Overlooked(r) \/ Withheld(r) \/ Ready(r, Owed(r))
  <2>t. child \in {"none", "starting", "running", "exited"} /\ term \in {"none", "asked", "failed", "done"}
    BY <1>1 DEF Typed, TypeOK
  <2>1. CASE stage[r] = "judged"
    BY <2>1 DEF Owed, Ready
  <2>2. CASE stage[r] = "draining"
    <3>1. CASE Drained
      BY <2>2, <3>1 DEF Owed, Ready
    <3>2. CASE ~Drained
      BY <2>2, <3>2 DEF Owed, Ready, Drained, Listening, Executing
    <3> QED BY <3>1, <3>2
  <2>3. CASE stage[r] = "running" /\ child \in {"exited", "starting"}
    BY <2>3 DEF Owed, Ready, Withheld, Closed
  <2>4. CASE stage[r] = "running" /\ child = "running"
    <3>1. CASE term = "none"
      <4>1. flags = {} /\ Executing(r)
        BY <1>1, <2>4, <3>1 DEF Ends, Ending, Executing
      <4>2. Owed(r) = "Timeout"
        BY <2>4, <3>1 DEF Owed
      <4> QED BY <4>1, <4>2 DEF Ready
    <3>2. CASE term = "asked" /\ Contained
      <4>1. r \in removing
        BY <1>1, <2>4, <3>2 DEF Ends, Ending, Executing
      <4>2. Owed(r) = "RemoveContainer"
        BY <2>4, <3>2 DEF Owed
      <4> QED BY <4>1, <4>2 DEF Ready
    <3>3. CASE (term = "asked" /\ ~Contained) \/ term = "failed"
      <4>1. Kills
        BY <1>1, <3>3 DEF Ends, Kills
      <4>2. Owed(r) = "ForceKill"
        BY <2>4, <3>3 DEF Owed
      <4> QED BY <2>4, <4>1, <4>2 DEF Ready
    <3>4. CASE term = "done"
      <4>1. Contained /\ Owed(r) = "Detached"
        BY <1>1, <2>4, <3>4 DEF Ends, Owed
      <4>2. CASE box = r
        BY <2>4, <3>4, <4>2 DEF Overlooked
      <4>3. CASE box # r
        BY <2>4, <4>1, <4>3 DEF Ready, Works
      <4> QED BY <4>2, <4>3
    <3> QED BY <2>t, <3>1, <3>2, <3>3, <3>4
  <2> QED BY <1>1, <2>t, <2>1, <2>2, <2>3, <2>4 DEF Ends, Ending, Hears
<1>2. Typed /\ OneAtATime /\ Ends => EndIsOwed
  BY <1>1 DEF EndIsOwed
<1> QED BY EndsHold, <1>2, PTL

LEMMA Aheads ==
    /\ Ahead("ContainerStarts") = 9 /\ Ahead("Timeout") = 8 /\ Ahead("RemoveContainer") = 7
    /\ Ahead("ForceKill") = 6 /\ Ahead("Detached") = 5 /\ Ahead("Release") = 4 /\ Ahead("Close") = 3
    /\ Ahead("Accept") = 2 /\ Ahead("Judge") = 1 /\ Ahead("CaptureAfter") = 0
  BY DEF Ahead

\* What is owed by a Run that is under way.
LEMMA OwedFacts ==
    ASSUME Typed, Ends, NEW r \in Runs, Hears(r)
    PROVE  /\ stage[r] = "judged" => Owed(r) = "CaptureAfter"
           /\ stage[r] = "draining" => Owed(r) = IF Drained THEN "Judge" ELSE "Accept"
           /\ stage[r] = "running" /\ child = "exited" =>
                 Owed(r) = IF others = "holding" THEN "Release" ELSE "Close"
           /\ stage[r] = "running" /\ child = "starting" => Owed(r) = "ContainerStarts"
           /\ stage[r] = "running" /\ child = "running" =>
                 Owed(r) = CASE term = "none" -> "Timeout"
                             [] term = "failed" -> "ForceKill"
                             [] term = "done" -> "Detached"
                             [] OTHER -> IF Contained THEN "RemoveContainer" ELSE "ForceKill"
           /\ stage[r] = "running" => child \in {"starting", "running", "exited"}
<1>1. child \in {"none", "starting", "running", "exited"} /\ term \in {"none", "asked", "failed", "done"}
  BY DEF Typed, TypeOK
<1> QED BY <1>1 DEF Owed, Withheld, Closed, Ends, Ending

\* To take the first line that waits leaves one less.
LEMMA AcceptSpends ==
    ASSUME Typed, NEW r \in Runs, Accept(r)
    PROVE  /\ Len(waiting') < Len(waiting) /\ UNCHANGED <<stage, child, others, term, provider, broken>>
           /\ ~Drained
<1>1. waiting \in Seq(Line) /\ waiting # << >> /\ waiting' = RemoveAt(waiting, Turn)
      /\ UNCHANGED <<stage, child, others, term, provider, broken>> /\ ~broken
  BY DEF Accept, Listening, Typed, TypeOK, engine, process
<1>2. Len(waiting') = Len(waiting) - 1 /\ Len(waiting) \in Nat
  BY <1>1, TakeTurn
<1> QED BY <1>1, <1>2 DEF Drained

\* The end of the output is the end of the listening.
LEMMA CloseDrains ==
    ASSUME Typed, NEW r \in Runs, Close(r) \/ CloseThrows(r) \/ Judge(r)
    PROVE  /\ Close(r) => stage'[r] = "draining" /\ stage[r] = "running" /\ Closed
           /\ CloseThrows(r) => stage'[r] = "judged" /\ stage[r] = "running" /\ Closed
           /\ Judge(r) => stage'[r] = "judged" /\ stage[r] = "draining" /\ Drained
  BY DEF Close, CloseThrows, Judge, Goto, Typed, TypeOK

\* The step that is owed is spent by being taken.
LEMMA OwedIsPaid ==
    ASSUME Typed, Ends, NEW r \in Runs, Hears(r), Takes(r, Owed(r))
    PROVE  Nearer(r)
<1> USE DEF agent, disk, engine, process, stream
<1>t. /\ stage \in [Runs -> {"new", "admitted", "resolved", "captured", "running", "draining",
                             "judged", "over"}]
      /\ child \in {"none", "starting", "running", "exited"}
      /\ term \in {"none", "asked", "failed", "done"}
  BY DEF Typed, TypeOK
<1>1. CASE stage[r] = "judged"
  <2>1. CaptureAfter(r)
    BY <1>1, OwedFacts DEF Takes
  <2> QED BY <1>t, <2>1 DEF CaptureAfter, Goto, Nearer
<1>2. CASE stage[r] = "draining" /\ Drained
  <2>1. Judge(r) /\ Owed(r) = "Judge"
    BY <1>2, OwedFacts DEF Takes
  <2>2. Owed(r)' = "CaptureAfter"
    BY <2>1, CloseDrains DEF Owed, Withheld, Closed
  <2> QED BY <2>1, <2>2, Aheads DEF Nearer
<1>3. CASE stage[r] = "draining" /\ ~Drained
  <2>1. Accept(r) /\ Owed(r) = "Accept"
    BY <1>3, OwedFacts DEF Takes
  <2>2. stage'[r] = "draining" /\ Len(waiting') < Len(waiting)
    BY <1>3, <2>1, AcceptSpends
  <2>3. Owed(r)' = "Judge" \/ Owed(r)' = "Accept"
    BY <2>2 DEF Owed, Withheld, Closed
  <2> QED BY <2>1, <2>2, <2>3, Aheads DEF Nearer
<1>r. CASE Withheld(r)
  <2>1. Release(r) /\ Owed(r) = "Release"
    BY <1>r, OwedFacts DEF Takes, Withheld
  <2>2. UNCHANGED <<stage, child>> /\ others' # "holding"
    BY <2>1 DEF Release
  <2>3. Owed(r)' = "Close"
    BY <1>r, <2>2 DEF Owed, Withheld, Closed
  <2> QED BY <2>1, <2>3, Aheads DEF Nearer
<1>4. CASE stage[r] = "running" /\ Closed
  <2>1. Close(r) /\ Owed(r) = "Close"
    BY <1>4, OwedFacts DEF Takes, Closed
  <2>2. Owed(r)' = "Judge" \/ Owed(r)' = "Accept"
    BY <2>1, CloseDrains DEF Owed, Withheld, Closed
  <2> QED BY <2>1, <2>2, Aheads DEF Nearer
<1>5. CASE stage[r] = "running" /\ child = "starting"
  <2>1. ContainerStarts(r) /\ Owed(r) = "ContainerStarts"
    BY <1>5, OwedFacts DEF Takes
  <2>2. UNCHANGED <<stage, term>> /\ child' \in {"running", "exited"}
    BY <2>1 DEF ContainerStarts
  <2>3. Owed(r)' \in {"Release", "Close", "Timeout", "RemoveContainer", "ForceKill", "Detached"}
    BY <1>t, <1>5, <2>2 DEF Owed, Withheld, Closed
  <2> QED BY <2>1, <2>3, Aheads DEF Nearer
<1>6. CASE stage[r] = "running" /\ child = "running" /\ term = "none"
  <2>1. Timeout(r) /\ Owed(r) = "Timeout"
    BY <1>6, OwedFacts DEF Takes
  <2>2. UNCHANGED <<stage, child>> /\ term' = "asked"
    BY <1>6, <2>1 DEF Timeout, Terminate
  <2>3. Owed(r)' \in {"RemoveContainer", "ForceKill"}
    BY <1>6, <2>2 DEF Owed
  <2> QED BY <2>1, <2>3, Aheads DEF Nearer
<1>7. CASE stage[r] = "running" /\ child = "running" /\ term = "asked" /\ Contained
  <2>1. RemoveContainer(r) /\ Owed(r) = "RemoveContainer"
    BY <1>7, OwedFacts DEF Takes
  <2>2. UNCHANGED <<stage, child>> /\ term' \in {"failed", "done"}
    BY <1>7, <2>1 DEF RemoveContainer, Executing
  <2>3. Owed(r)' \in {"Detached", "ForceKill"}
    BY <1>7, <2>2 DEF Owed
  <2> QED BY <2>1, <2>3, Aheads DEF Nearer
<1>8. CASE stage[r] = "running" /\ child = "running" /\ (term = "failed" \/ (term = "asked" /\ ~Contained))
  <2>1. ForceKill(r) /\ Owed(r) = "ForceKill"
    BY <1>8, OwedFacts DEF Takes
  <2>2. UNCHANGED stage /\ child' = "exited"
    BY <2>1 DEF ForceKill
  <2>3. Owed(r)' \in {"Release", "Close"}
    BY <1>8, <2>2 DEF Owed, Withheld, Closed
  <2> QED BY <2>1, <2>3, Aheads DEF Nearer
<1>9. CASE stage[r] = "running" /\ child = "running" /\ term = "done"
  <2>1. Detached(r) /\ Owed(r) = "Detached"
    BY <1>9, OwedFacts DEF Takes
  <2>2. UNCHANGED stage /\ child' = "exited"
    BY <2>1 DEF Detached
  <2>3. Owed(r)' \in {"Release", "Close"}
    BY <1>9, <2>2 DEF Owed, Withheld, Closed
  <2> QED BY <2>1, <2>3, Aheads DEF Nearer
<1> QED BY <1>t, <1>1, <1>2, <1>3, <1>4, <1>r, <1>5, <1>6, <1>7, <1>8, <1>9, OwedFacts
        DEF Hears, Withheld, Closed

\* What the Run that is under way does, or what is done to it, takes it nearer to its end or
\* leaves it where it was.
LEMMA OwnSteps ==
    ASSUME Typed, Ends, NEW r \in Runs, Hears(r),
           Runner(r) \/ Engine(r) \/ Execution(r) \/ Write(r) \/ Exit(r) \/ Release(r)
    PROVE  Nearer(r) \/ Still(r)
<1> USE DEF agent, disk, engine, process, stream
<1>t. /\ stage \in [Runs -> {"new", "admitted", "resolved", "captured", "running", "draining",
                             "judged", "over"}]
      /\ child \in {"none", "starting", "running", "exited"}
      /\ term \in {"none", "asked", "failed", "done"}
  BY DEF Typed, TypeOK
<1>1. ASSUME UNCHANGED <<stage, child, others, term, provider, broken>>,
             stage[r] = "draining" => waiting' = waiting
      PROVE  Still(r)
  <2>1. Owed(r)' = Owed(r)
    BY <1>1 DEF Owed, Withheld, Closed, Drained, Contained
  <2>2. Owed(r) = "Accept" => stage[r] = "draining"
    BY OwedFacts DEF Hears, Typed, TypeOK
  <2> QED BY <1>1, <2>1, <2>2 DEF Still
<1>2. ASSUME Goto(r, "over") PROVE Nearer(r)
  BY <1>t, <1>2 DEF Goto, Nearer
<1>3. CASE Launch(r) \/ SpawnFails(r) \/ SendMessage(r) \/ Resolve(r) \/ CaptureBefore(r) \/ PrepareFails(r)
  BY <1>3 DEF Launch, SpawnFails, SendMessage, Resolve, CaptureBefore, PrepareFails, Hears
<1>4. CASE CaptureAfter(r) \/ CaptureFails(r) \/ ChunkThrows(r)
  BY <1>2, <1>4 DEF CaptureAfter, CaptureFails, ChunkThrows, ServerDies
<1>5. CASE Chunk(r) \/ Write(r) \/ BoxEnds(r)
  <2>1. UNCHANGED <<stage, child, others, term, provider, broken>> /\ (stage[r] = "draining" => waiting' = waiting)
    BY <1>5 DEF Chunk, Emits, Write, BoxEnds
  <2> QED BY <1>1, <2>1
<1>6. CASE Cancel(r) \/ Timeout(r) \/ Overflow(r)
  <2>1. UNCHANGED <<stage, child, others, provider, broken, waiting>> /\ Terminate(r)
    BY <1>6 DEF Cancel, Timeout, Overflow
  <2>2. CASE term' = term
    BY <1>1, <2>1, <2>2
  <2>3. CASE term = "none" /\ term' = "asked"
    <3>1. CASE stage[r] = "running" /\ child = "running"
      <4>1. Owed(r) = "Timeout" /\ Owed(r)' \in {"RemoveContainer", "ForceKill"}
        BY <2>1, <2>3, <3>1 DEF Owed
      <4> QED BY <4>1, Aheads DEF Nearer
    <3>2. CASE ~(stage[r] = "running" /\ child = "running")
      <4>1. Owed(r)' = Owed(r)
        BY <2>1, <3>2 DEF Owed, Withheld, Closed, Drained
      <4> QED BY <2>1, <4>1 DEF Still
    <3> QED BY <3>1, <3>2
  <2> QED BY <2>1, <2>2, <2>3 DEF Terminate
<1>7. CASE ContainerStarts(r) \/ Exit(r) \/ Detached(r) \/ ForceKill(r)
  <2>1. /\ UNCHANGED <<stage, term>> /\ stage[r] = "running"
        /\ \/ child = "starting" /\ child' \in {"running", "exited"}
           \/ child = "running" /\ child' = "exited"
    BY <1>7 DEF ContainerStarts, Exit, Detached, ForceKill
  <2>2. CASE child = "starting"
    <3>1. /\ Owed(r) = "ContainerStarts"
          /\ Owed(r)' \in {"Release", "Close", "Timeout", "RemoveContainer", "ForceKill", "Detached"}
      BY <1>t, <2>1, <2>2 DEF Owed, Withheld, Closed
    <3> QED BY <3>1, Aheads DEF Nearer
  <2>3. CASE child = "running"
    <3>1. /\ Owed(r) \in {"Timeout", "RemoveContainer", "ForceKill", "Detached"}
          /\ Owed(r)' \in {"Release", "Close"}
      BY <1>t, <2>1, <2>3 DEF Owed, Withheld, Closed
    <3> QED BY <3>1, Aheads DEF Nearer
  <2> QED BY <2>1, <2>2, <2>3
<1>8. CASE RemoveContainer(r)
  <2>1. /\ UNCHANGED <<stage, child, others, provider, broken, waiting>> /\ r \in removing
        /\ IF Executing(r) THEN term' \in {"done", "failed"} ELSE term' = term
    BY <1>8 DEF RemoveContainer
  <2>2. CASE stage[r] = "running" /\ child = "running"
    <3>1. Contained /\ term = "asked" /\ term' \in {"done", "failed"}
      BY <2>1, <2>2 DEF Ends, Ending, Executing
    <3>2. Owed(r) = "RemoveContainer" /\ Owed(r)' \in {"Detached", "ForceKill"}
      BY <2>1, <2>2, <3>1 DEF Owed
    <3> QED BY <3>2, Aheads DEF Nearer
  <2>3. CASE ~(stage[r] = "running" /\ child = "running")
    <3>1. Owed(r)' = Owed(r)
      BY <2>1, <2>3 DEF Owed, Withheld, Closed, Drained
    <3> QED BY <2>1, <3>1 DEF Still
  <2> QED BY <2>2, <2>3
<1>9. CASE Accept(r)
  <2>1. CASE stage[r] = "draining"
    <3>1. Owed(r) = "Accept" /\ Len(waiting') < Len(waiting) /\ stage'[r] = "draining"
      BY <1>9, <2>1, AcceptSpends, OwedFacts
    <3>2. Owed(r)' = "Judge" \/ Owed(r)' = "Accept"
      BY <3>1 DEF Owed, Withheld, Closed
    <3> QED BY <3>1, <3>2, Aheads DEF Nearer
  <2>2. CASE stage[r] # "draining"
    BY <1>1, <1>9, <2>2, AcceptSpends
  <2> QED BY <2>1, <2>2
<1>10. CASE AppendFails(r)
  <2>1. CASE stage[r] = "draining" /\ broken' = TRUE /\ UNCHANGED stage
    <3>1. Owed(r) = "Accept" /\ Owed(r)' = "Judge"
      BY <1>10, <2>1, OwedFacts DEF AppendFails, Listening, Drained, Owed, Withheld, Closed
    <3> QED BY <3>1, Aheads DEF Nearer
  <2>2. CASE ServerDies(r)
    BY <1>2, <2>2 DEF ServerDies
  <2> QED BY <1>10, <2>1, <2>2 DEF AppendFails
<1>11. CASE Close(r) \/ CloseThrows(r) \/ Judge(r)
  <2>1. \/ Owed(r) = "Close" /\ Owed(r)' \in {"Judge", "Accept", "CaptureAfter"}
        \/ Owed(r) = "Judge" /\ Owed(r)' = "CaptureAfter"
    BY <1>11, CloseDrains DEF Owed, Withheld, Closed
  <2> QED BY <2>1, Aheads DEF Nearer
<1>12. CASE Release(r)
  <2>1. UNCHANGED <<stage, child, term, provider, broken, waiting>> /\ others' # "holding"
    BY <1>12 DEF Release
  <2>2. CASE Withheld(r)
    <3>1. Owed(r) = "Release" /\ Owed(r)' = "Close"
      BY <2>1, <2>2 DEF Owed, Withheld, Closed
    <3> QED BY <3>1, Aheads DEF Nearer
  <2>3. CASE ~Withheld(r)
    <3>1. Owed(r)' = Owed(r)
      BY <2>1, <2>3 DEF Owed, Withheld, Closed, Drained
    <3> QED BY <2>1, <3>1 DEF Still
  <2> QED BY <2>2, <2>3
<1> QED BY <1>3, <1>4, <1>5, <1>6, <1>7, <1>8, <1>9, <1>10, <1>11, <1>12
        DEF Runner, Engine, Execution

\* Every Run that is under way gets nearer to its end with the step it is owed, and no step,
\* of its process, of a request, or of the Runs before it, takes it back.
THEOREM StepsAreSpent == Spec => [][Spent]_vars
<1> USE DEF agent, disk, engine, process, stream
<1>1. ASSUME Typed, OneAtATime, Ends, Next, NEW r \in Runs, Hears(r)
      PROVE  Nearer(r) \/ Still(r)
  <2>1. ASSUME UNCHANGED <<stage, child, others, term, provider, broken, waiting>>
        PROVE  Still(r)
    BY <2>1 DEF Still, Owed, Withheld, Closed, Drained, Contained
  <2>2. CASE UpdateAgent
    BY <2>1, <2>2 DEF UpdateAgent
  <2>3. ASSUME NEW s \in Runs, s # r, Runner(s) \/ Engine(s) \/ Execution(s) \/ Write(s) \/ Exit(s) \/ Release(s)
        PROVE  Still(r)
    <3>1. stage[s] \in {"new", "over"}
      BY <1>1, <2>3, Alone DEF Hears
    <3>2. ~Runner(s) /\ ~Exit(s) /\ ~Release(s) /\ ~ContainerStarts(s) /\ ~Detached(s)
      <4>1. ~(Launch(s) \/ SpawnFails(s) \/ Cancel(s) \/ Timeout(s) \/ Overflow(s) \/ ForceKill(s))
        BY <3>1 DEF Launch, SpawnFails, Cancel, Timeout, Overflow, ForceKill, Executing
      <4>2. ~(Chunk(s) \/ ChunkThrows(s) \/ Accept(s) \/ AppendFails(s))
        BY <3>1 DEF Chunk, ChunkThrows, Accept, AppendFails, Emits, Listening, Executing
      <4>3. ~(Close(s) \/ CloseThrows(s) \/ Judge(s) \/ Exit(s) \/ ContainerStarts(s) \/ Detached(s))
        BY <3>1 DEF Close, CloseThrows, Judge, Exit, ContainerStarts, Detached
      <4>4. ~Release(s)
        BY <3>1 DEF Release, Executing
      <4> QED BY <4>1, <4>2, <4>3, <4>4 DEF Runner
    <3>3. ~Execution(s)
      <4>1. ~SendMessage(s)
        BY <1>1 DEF SendMessage, Busy, Hears
      <4> QED BY <3>1, <4>1 DEF Execution, Resolve, CaptureBefore, PrepareFails, CaptureAfter, CaptureFails
    <3>4. CASE RemoveContainer(s)
      BY <2>1, <3>1, <3>4 DEF RemoveContainer, Executing
    <3>5. CASE BoxEnds(s) \/ Write(s)
      BY <2>1, <3>5 DEF BoxEnds, Write
    <3> QED BY <2>3, <3>2, <3>3, <3>4, <3>5 DEF Engine
  <2> QED BY <1>1, <2>2, <2>3, OwnSteps DEF Next
<1>2. Typed /\ OneAtATime /\ Ends /\ [Next]_vars => [Spent]_vars
  BY <1>1, OwedIsPaid DEF Spent
<1> QED BY EndsHold, <1>2, PTL DEF Spec

(***************************************************************************)
(* The contract with AgentLifecycle: executions one after the other, with  *)
(* one process each.                                                       *)
(***************************************************************************)
\* Where a Run stands, for whoever knows only of executions.
Stand(r) ==
    CASE stage[r] = "new" -> "new"
      [] stage[r] \in {"admitted", "resolved", "captured"} -> "admitted"
      [] stage[r] \in {"running", "draining"} -> "running"
      [] stage[r] = "judged" -> "ended"
      [] stage[r] = "over" -> "over"

Stands == [r \in Runs |-> Stand(r)]

Serial == INSTANCE SerialExecution WITH state <- Stands

\* A step that moves one Run moves it as the contract names it.
LEMMA GotoMoves ==
    ASSUME TypeOK, NEW r \in Runs, NEW s, Goto(r, s)
    PROVE  /\ s \in {"admitted", "resolved", "captured"} => Serial!Becomes(r, "admitted")
           /\ s \in {"running", "draining"} => Serial!Becomes(r, "running")
           /\ s = "judged" => Serial!Becomes(r, "ended")
           /\ s = "over" => Serial!Becomes(r, "over")
<1>1. \A q \in Runs : stage'[q] = IF q = r THEN s ELSE stage[q]
  BY DEF Goto, TypeOK
<1>2. \A q \in Runs \ {r} : Stand(q)' = Stand(q)
  BY <1>1 DEF Stand
<1>3. /\ s \in {"admitted", "resolved", "captured"} => Stand(r)' = "admitted"
      /\ s \in {"running", "draining"} => Stand(r)' = "running"
      /\ s = "judged" => Stand(r)' = "ended"
      /\ s = "over" => Stand(r)' = "over"
  BY <1>1 DEF Stand
<1>4. \A x : Stand(r)' = x => Stands' = [Stands EXCEPT ![r] = x]
  BY <1>2 DEF Stands
<1> QED BY <1>3, <1>4 DEF Serial!Becomes

\* And leaves it where it is when it stays within the same.
LEMMA SameStand ==
    ASSUME NEW r \in Runs, NEW s, Serial!Becomes(r, s), Stand(r) = s
    PROVE  UNCHANGED Stands
  BY DEF Serial!Becomes, Stands

\* The contract's step for each step of an execution that moves it.
LEMMA SerialStep ==
    ASSUME TypeOK, Next
    PROVE  Serial!Next \/ UNCHANGED Stands
<1> DEFINE Goal == Serial!Next \/ UNCHANGED Stands
<1>1. \A r \in Runs : Stands[r] = Stand(r)
  BY DEF Stands
<1>2. ASSUME UNCHANGED stage
      PROVE  UNCHANGED Stands
  BY <1>2 DEF Stands, Stand
<1>3. ASSUME NEW r \in Runs, NEW s \in {"admitted", "running", "ended", "over"},
             Serial!Becomes(r, s),
             \/ s \in {"running", "ended"} /\ Stand(r) = "admitted"
             \/ s = "ended" /\ Stand(r) = "running"
             \/ s = "over" /\ Stand(r) \in {"admitted", "running", "ended"}
             \/ s = Stand(r)
      PROVE  Goal
  <2>1. CASE s = Stand(r)
    BY <1>3, <2>1, SameStand
  <2>2. CASE s = "running" /\ Stand(r) = "admitted"
    BY <1>1, <1>3, <2>2 DEF Serial!Next, Serial!Launch
  <2>3. CASE s = "ended" /\ Stand(r) \in {"admitted", "running"}
    BY <1>1, <1>3, <2>3 DEF Serial!Next, Serial!End
  <2>4. CASE s = "over" /\ Stand(r) \in {"admitted", "running", "ended"}
    BY <1>1, <1>3, <2>4 DEF Serial!Next, Serial!Leave, Serial!UnderWay
  <2> QED BY <1>3, <2>1, <2>2, <2>3, <2>4
<1> HIDE DEF Goal
<1>4. ASSUME NEW r \in Runs, SendMessage(r)
      PROVE  Goal
  <2>1. Stand(r) = "new" /\ Serial!Becomes(r, "admitted")
    BY <1>4, GotoMoves DEF SendMessage, Stand
  <2>2. \A s \in Runs : Stand(s) \in {"new", "over"}
    BY <1>4 DEF SendMessage, Busy, Stand
  <2>3. Serial!Admit(r)
    BY <1>1, <2>1, <2>2 DEF Serial!Admit, Serial!UnderWay
  <2> QED BY <2>3 DEF Goal, Serial!Next
<1>5. ASSUME NEW r \in Runs, Resolve(r) \/ CaptureBefore(r)
      PROVE  Goal
  <2>1. Stand(r) = "admitted"
    BY <1>5 DEF Resolve, CaptureBefore, Stand
  <2>2. Goto(r, "resolved") \/ Goto(r, "captured")
    BY <1>5 DEF Resolve, CaptureBefore
  <2>3. Serial!Becomes(r, "admitted")
    BY <2>2, GotoMoves
  <2> QED BY <1>3, <2>1, <2>3
<1>6. ASSUME NEW r \in Runs, PrepareFails(r)
      PROVE  Goal
  <2>1. Stand(r) = "admitted" /\ Serial!Becomes(r, "over")
    BY <1>6, GotoMoves DEF PrepareFails, Stand
  <2> QED BY <1>3, <2>1
<1>7. ASSUME NEW r \in Runs, Launch(r)
      PROVE  Goal
  <2>1. Stand(r) = "admitted" /\ Serial!Becomes(r, "running")
    BY <1>7, GotoMoves DEF Launch, Stand
  <2> QED BY <1>3, <2>1
<1>8. ASSUME NEW r \in Runs, SpawnFails(r)
      PROVE  Goal
  <2>1. Stand(r) = "admitted" /\ Serial!Becomes(r, "ended")
    BY <1>8, GotoMoves DEF SpawnFails, Stand
  <2> QED BY <1>3, <2>1
<1>9. ASSUME NEW r \in Runs, Close(r)
      PROVE  Goal
  <2>1. Stand(r) = "running" /\ Serial!Becomes(r, "running")
    BY <1>9, GotoMoves DEF Close, Stand
  <2> QED BY <1>3, <2>1
<1>10. ASSUME NEW r \in Runs, CloseThrows(r) \/ Judge(r)
       PROVE  Goal
  <2>1. Stand(r) = "running" /\ Goto(r, "judged")
    BY <1>10 DEF CloseThrows, Judge, Stand
  <2>2. Serial!Becomes(r, "ended")
    BY <2>1, GotoMoves
  <2> QED BY <1>3, <2>1, <2>2
<1>11. ASSUME NEW r \in Runs, CaptureAfter(r) \/ CaptureFails(r)
       PROVE  Goal
  <2>1. Stand(r) = "ended" /\ Goto(r, "over")
    BY <1>11 DEF CaptureAfter, CaptureFails, Stand
  <2>2. Serial!Becomes(r, "over")
    BY <2>1, GotoMoves
  <2> QED BY <1>3, <2>1, <2>2
<1>12. ASSUME NEW r \in Runs, ServerDies(r), stage[r] \in {"running", "draining", "judged"}
       PROVE  Goal
  <2>1. Stand(r) \in {"running", "ended"} /\ Serial!Becomes(r, "over")
    BY <1>12, GotoMoves DEF ServerDies, Stand
  <2> QED BY <1>3, <2>1
<1>13. ASSUME NEW r \in Runs, ChunkThrows(r) \/ AppendFails(r)
       PROVE  Goal
  <2>1. \/ UNCHANGED stage
        \/ ServerDies(r) /\ stage[r] \in {"running", "draining", "judged"}
    BY <1>13 DEF ChunkThrows, AppendFails, Emits, Listening, Executing
  <2> QED BY <1>2, <1>12, <2>1 DEF Goal
<1>14. ASSUME NEW r \in Runs,
              \/ Cancel(r) \/ Timeout(r) \/ Overflow(r) \/ ForceKill(r)
              \/ Chunk(r) \/ Accept(r) \/ Engine(r) \/ Write(r) \/ Exit(r) \/ Release(r)
       PROVE  UNCHANGED stage
  BY <1>14 DEF Cancel, Timeout, Overflow, ForceKill, Chunk, Accept, Engine, ContainerStarts,
               Detached, RemoveContainer, BoxEnds, Write, Exit,
              Release
<1>15. UpdateAgent => UNCHANGED stage
  BY DEF UpdateAgent
<1>16. UNCHANGED stage => Goal
  BY <1>2 DEF Goal
<1>17. ASSUME NEW r \in Runs, Runner(r) \/ Engine(r) \/ Execution(r) \/ Write(r) \/ Exit(r) \/ Release(r)
       PROVE  Goal
  BY <1>4, <1>5, <1>6, <1>7, <1>8, <1>9, <1>10, <1>11, <1>13, <1>14, <1>16, <1>17
     DEF Runner, Execution
<1>18. Goal
  BY <1>15, <1>16, <1>17 DEF Next
<1> QED BY <1>18 DEF Goal

\* What the process, the engine and the output do is within the contract that AgentLifecycle
\* shares: Runs of an Agent are executed one after the other, each with one process at most,
\* and none is over before its process.
THEOREM ExecutionsAreSerial == Spec => Serial!Spec
<1>1. Init => Serial!Init
  BY DEF Init, Serial!Init, Stands, Stand
<1>2. Typed /\ [Next]_vars => [Serial!Next]_Stands
  <2>1. CASE Typed /\ UNCHANGED vars
    BY <2>1 DEF vars, Stands, Stand
  <2>2. CASE Typed /\ Next
    BY <2>2, SerialStep DEF Typed
  <2> QED BY <2>1, <2>2
<1> QED BY <1>1, <1>2, TypesHold, PTL DEF Spec, Serial!Spec
=============================================================================
