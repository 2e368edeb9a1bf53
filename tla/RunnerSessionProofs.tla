------------------------- MODULE RunnerSessionProofs -------------------------
(***************************************************************************)
(* Proofs about RunnerSession, for any output streams, pipe capacity and   *)
(* bound on the chunks, with or without timeout, crashes and job failures: *)
(* SessionInv, DescendantsSurvive, and the refinement of CommandRun.       *)
(***************************************************************************)
EXTENDS RunnerSession, FiniteSetTheorems, TLAPS

(* What a frame can be.                                                    *)
LEMMA FrameKinds ==
    ASSUME NEW f \in Frame
    PROVE  \/ f = Ready /\ f.kind = "ready"
           \/ f.kind = "output" /\ f.stream \in Stream /\ f = Output(f.stream)
           \/ f.kind = "error" /\ f.refreshable \in BOOLEAN /\ f = Failed(f.refreshable)
           \/ f.kind = "exit" /\ f.timedOut \in BOOLEAN /\ f = Command(f.timedOut)
BY DEF Frame, Ready, Output, Failed, Command

LEMMA FramesAre ==
    /\ Ready \in Frame
    /\ \A s \in Stream : Output(s) \in Frame
    /\ \A b \in BOOLEAN : Failed(b) \in Frame /\ Command(b) \in Frame
BY DEF Frame

----------------------------------------------------------------------------
(* The output frames of a stream in a queue.                               *)
LEMMA FiniteOutputs ==
    ASSUME NEW q \in Seq(Frame), NEW s \in Stream
    PROVE  IsFiniteSet({i \in 1..Len(q) : q[i] = Output(s)})
<1>1. Len(q) \in Nat
    OBVIOUS
<1>2. IsFiniteSet(1..Len(q))
    BY <1>1, FS_Interval
<1> QED BY <1>2, FS_Subset

LEMMA OutputsType ==
    ASSUME NEW q \in Seq(Frame), NEW s \in Stream
    PROVE  OutputsIn(q, s) \in Nat
BY FiniteOutputs, FS_CardinalityType DEF OutputsIn

LEMMA NoOutputs ==
    ASSUME NEW q \in Seq(Frame), NEW s \in Stream, \A i \in 1..Len(q) : q[i].kind # "output"
    PROVE  OutputsIn(q, s) = 0
<1>1. {i \in 1..Len(q) : q[i] = Output(s)} = {}
    BY DEF Output
<1> QED BY <1>1, FS_EmptySet DEF OutputsIn

LEMMA AppendFrame ==
    ASSUME NEW q \in Seq(Frame), NEW f \in Frame, NEW s \in Stream
    PROVE  OutputsIn(Append(q, f), s) = OutputsIn(q, s) + (IF f = Output(s) THEN 1 ELSE 0)
<1> DEFINE I(r) == {i \in 1..Len(r) : r[i] = Output(s)}
<1>1. /\ Len(q) \in Nat /\ Len(Append(q, f)) = Len(q) + 1
      /\ Append(q, f)[Len(q) + 1] = f
      /\ \A i \in 1..Len(q) : Append(q, f)[i] = q[i]
    OBVIOUS
<1>2. I(Append(q, f)) = IF f = Output(s) THEN I(q) \cup {Len(q) + 1} ELSE I(q)
    BY <1>1
<1>3. IsFiniteSet(I(q))
    BY FiniteOutputs
<1>4. Cardinality(I(q) \cup {Len(q) + 1}) = Cardinality(I(q)) + 1
    <2>1. Len(q) + 1 \notin I(q)
        BY <1>1
    <2> HIDE DEF I
    <2> QED BY <1>3, <2>1, FS_AddElement
<1>5. Cardinality(I(q)) \in Nat
    BY <1>3, FS_CardinalityType
<1> HIDE DEF I
<1>6. Cardinality(I(Append(q, f))) = Cardinality(I(q)) + (IF f = Output(s) THEN 1 ELSE 0)
    BY <1>2, <1>4, <1>5
<1> QED BY <1>6 DEF OutputsIn, I

LEMMA TailFrame ==
    ASSUME NEW q \in Seq(Frame), q # <<>>, NEW s \in Stream
    PROVE  OutputsIn(q, s) = OutputsIn(Tail(q), s) + (IF Head(q) = Output(s) THEN 1 ELSE 0)
<1> DEFINE I(r) == {i \in 1..Len(r) : r[i] = Output(s)}
           shift == [i \in I(Tail(q)) |-> i + 1]
<1>1. /\ Len(q) \in Nat \ {0} /\ Head(q) = q[1] /\ Len(Tail(q)) = Len(q) - 1
      /\ \A i \in 1..Len(q) - 1 : Tail(q)[i] = q[i + 1]
    OBVIOUS
<1>2. \A i \in I(Tail(q)) : i + 1 \in I(q) \ {1}
    BY <1>1
<1>3. \A i \in I(q) \ {1} : i - 1 \in I(Tail(q)) /\ i - 1 + 1 = i
    BY <1>1
<1>4. shift \in Bijection(I(Tail(q)), I(q) \ {1})
    <2> HIDE DEF I
    <2>1. shift \in [I(Tail(q)) -> I(q) \ {1}]
        BY <1>2
    <2>2. \A a, b \in I(Tail(q)) : a + 1 = b + 1 => a = b
        BY DEF I
    <2>3. \A b \in I(q) \ {1} : \E a \in I(Tail(q)) : shift[a] = b
        BY <1>3
    <2>4. shift \in Injection(I(Tail(q)), I(q) \ {1})
        BY <2>1, <2>2 DEF Injection, IsInjective
    <2>5. shift \in Surjection(I(Tail(q)), I(q) \ {1})
        BY <2>1, <2>3 DEF Surjection
    <2> QED BY <2>4, <2>5 DEF Bijection
<1>5. IsFiniteSet(I(q)) /\ IsFiniteSet(I(Tail(q)))
    <2>1. Tail(q) \in Seq(Frame)
        OBVIOUS
    <2> QED BY <2>1, FiniteOutputs
<1>6. Cardinality(I(q) \ {1}) = Cardinality(I(Tail(q)))
    BY <1>4, <1>5, FS_Bijection, ZenonT(60) DEF ExistsBijection
<1>7. 1 \in I(q) <=> Head(q) = Output(s)
    BY <1>1
<1>8. Cardinality(I(q) \ {1}) = IF 1 \in I(q) THEN Cardinality(I(q)) - 1 ELSE Cardinality(I(q))
    BY <1>5, FS_RemoveElement
<1>9. Cardinality(I(q)) \in Nat
    BY <1>5, FS_CardinalityType
<1> HIDE DEF I
<1>10. Cardinality(I(q)) = Cardinality(I(Tail(q))) + (IF Head(q) = Output(s) THEN 1 ELSE 0)
    BY <1>6, <1>7, <1>8, <1>9
<1> QED BY <1>10 DEF OutputsIn, I

----------------------------------------------------------------------------
LEMMA InitTypes == Init => TypeOK
<1> SUFFICES ASSUME Init PROVE TypeOK
    OBVIOUS
<1>1. toRunner \in Seq({"request", "terminate"}) /\ toParent \in Seq(Frame)
    BY DEF Init
<1>2. pipe \in [Stream -> 0..PipeRoom] /\ written \in [Stream -> Nat]
    BY SessionConstants DEF Init
<1>3. /\ captured \in [Stream -> Nat]
      /\ reader \in [Stream -> {"none", "reading", "holding", "ended"}]
    BY DEF Init
<1>4. /\ parent = "logon" /\ attempt = 1 /\ writer = "none" /\ cancelled = FALSE
      /\ report = NoReport /\ runner = "none"
      /\ timedOut = FALSE /\ preserved = FALSE /\ started = 0
      /\ alive = {} /\ doomed = {} /\ holders = {} /\ forked = FALSE
    BY DEF Init
<1>5. started \in Nat /\ attempt \in 1..2 /\ alive \subseteq Process
    BY <1>4
<1>6. report \in {NoReport, Failure} \cup
                  [kind : {"exit"}, timedOut : BOOLEAN, output : [Stream -> Nat]]
    BY <1>4
<1>7. /\ parent \in ParentUp /\ writer \in {"none", "polling", "gone"}
      /\ runner \in RunnerUp \cup {"none", "killed", "dead"}
    BY <1>4 DEF ParentUp
<1>8. /\ cancelled \in BOOLEAN /\ timedOut \in BOOLEAN
      /\ preserved \in BOOLEAN /\ forked \in BOOLEAN
    BY <1>4
<1>9. doomed \subseteq alive /\ holders \subseteq alive
    BY <1>4
<1> HIDE DEF Init
<1> QED BY <1>1, <1>2, <1>3, <1>5, <1>6, <1>7, <1>8, <1>9 DEF TypeOK

(* Frames added to the queue towards the parent are frames.                *)
LEMMA SendTypes ==
    ASSUME TypeOK, NEW f \in Frame, Send(f)
    PROVE  toParent' \in Seq(Frame)
<1>1. toParent \in Seq(Frame)
    BY DEF TypeOK
<1> QED BY <1>1 DEF Send

(* A queue that is read.                                                   *)
LEMMA RestTypes ==
    ASSUME NEW S, NEW q \in Seq(S), q # <<>>
    PROVE  Head(q) \in S /\ Tail(q) \in Seq(S)
OBVIOUS

(* The steps of the parent and of its cancel writer.                       *)
LEMMA ParentTypes ==
    ASSUME TypeOK, ParentFacts, ParentStep \/ WriterStep
    PROVE  TypeOK'
<1> USE DEF TypeOK, ipc, run, tree, data, ParentUp, RunnerUp, Running
<1>1. CASE Logon
    <2>1. toRunner' \in Seq({"request", "terminate"}) /\ toParent' \in Seq(Frame)
        <3>1. <<>> \in Seq({"request", "terminate"}) /\ <<>> \in Seq(Frame)
            OBVIOUS
        <3> QED BY <1>1, <3>1 DEF Logon
    <2>2. report' \in {report, Failure} /\ attempt' = attempt /\ writer' = writer
        BY <1>1 DEF Logon, AttemptFails
    <2>3. parent' \in {"connecting", "refresh", "done"} /\ runner' \in {runner, "started"}
        BY <1>1 DEF Logon, AttemptFails
    <2>4. captured' = captured
        BY <1>1 DEF Logon, AttemptFails
    <2> QED BY <1>1, <2>1, <2>2, <2>3, <2>4 DEF Logon
<1>2. CASE Refresh BY <1>2 DEF Refresh, ParentFacts
<1>3. CASE Connect BY <1>3 DEF Connect
<1>4. CASE ConnectFails BY <1>4 DEF ConnectFails, AttemptFails, KillRunner
<1>5. CASE ReadReady BY <1>5 DEF ReadReady
<1>6. CASE ReadStartupError BY <1>6 DEF ReadStartupError, AttemptFails, KillRunner
<1>7. CASE ReadyTimeout BY <1>7 DEF ReadyTimeout, AttemptFails, KillRunner
<1>8. CASE ReadOutput
    <2>1. Head(toParent) \in Frame /\ Tail(toParent) \in Seq(Frame)
        BY <1>8, RestTypes DEF ReadOutput
    <2>2. Head(toParent).stream \in Stream
        BY <1>8, <2>1, FrameKinds DEF ReadOutput, Ready
    <2>3. captured' \in [Stream -> Nat]
        BY <1>8, <2>2, SMTT(60) DEF ReadOutput
    <2>4. toParent' \in Seq(Frame)
        BY <1>8, <2>1 DEF ReadOutput
    <2> QED BY <1>8, <2>3, <2>4, SMTT(60) DEF ReadOutput
<1>9. CASE ReadExit
    <2>1. Head(toParent) \in Frame /\ Tail(toParent) \in Seq(Frame)
        BY <1>9, RestTypes DEF ReadExit
    <2>2. Head(toParent).timedOut \in BOOLEAN
        BY <1>9, <2>1, FrameKinds DEF ReadExit, Ready
    <2>3. report' \in [kind : {"exit"}, timedOut : BOOLEAN, output : [Stream -> Nat]]
        BY <1>9, <2>2 DEF ReadExit, Exit
    <2> QED BY <1>9, <2>1, <2>3 DEF ReadExit
<1>10. CASE ReadEof BY <1>10 DEF ReadEof
<1>11. CASE JoinWriter BY <1>11 DEF JoinWriter
<1>12. CASE SendTerminate BY <1>12 DEF SendTerminate
<1>13. CASE StopWriter BY <1>13 DEF StopWriter
<1> QED BY <1>1, <1>2, <1>3, <1>4, <1>5, <1>6, <1>7, <1>8, <1>9, <1>10, <1>11, <1>12,
           <1>13 DEF ParentStep, WriterStep

(* The steps of the runner.                                                *)
LEMMA RunnerTypes ==
    ASSUME TypeOK,
           StartFacts, MainStep \/ Timeout \/ ObeyTerminate \/ \E s \in Stream : ReaderStep(s)
    PROVE  TypeOK'
<1> USE DEF TypeOK, session, ipc, tree, data, RunnerUp, Running, Process
<1>1. CASE SpawnChild
    <2>1. toRunner' \in Seq({"request", "terminate"})
        BY <1>1, RestTypes DEF SpawnChild
    <2>2. doomed = {}
        BY <1>1 DEF SpawnChild, StartFacts
    <2> QED BY <1>1, <2>1, <2>2 DEF SpawnChild
<1>2. CASE SpawnFails
    <2>1. toRunner' \in Seq({"request", "terminate"})
        BY <1>2, RestTypes DEF SpawnFails
    <2>2. toParent' \in Seq(Frame)
        BY <1>2, SendTypes, FramesAre DEF SpawnFails
    <2> QED BY <1>2, <2>1, <2>2 DEF SpawnFails
<1>3. CASE RequestLost BY <1>3 DEF RequestLost
<1>4. CASE SendReady
    <2>1. toParent' \in Seq(Frame)
        BY <1>4, SendTypes, FramesAre DEF SendReady
    <2> QED BY <1>4, <2>1, SMTT(60) DEF SendReady
<1>5. CASE RootExited BY <1>5, ZenonT(60) DEF RootExited
<1>6. CASE RootTerminated BY <1>6 DEF RootTerminated
<1>7. CASE Drained BY <1>7 DEF Drained
<1>8. CASE SendExit BY <1>8, SendTypes, FramesAre DEF SendExit
<1>9. CASE ProcessExit BY <1>9, ZenonT(60) DEF ProcessExit, RunnerEnds
<1>10. CASE Timeout BY <1>10, ZenonT(60) DEF Timeout, Terminate
<1>11. CASE ObeyTerminate
    <2>1. toRunner' \in Seq({"request", "terminate"})
        BY <1>11, RestTypes DEF ObeyTerminate
    <2>2. doomed' \in SUBSET alive
        BY <1>11 DEF ObeyTerminate, Terminate
    <2> QED BY <1>11, <2>1, <2>2 DEF ObeyTerminate, run
<1>12. ASSUME NEW s \in Stream, ReadChunk(s) PROVE TypeOK'
    <2>1. pipe[s] - 1 \in 0..PipeRoom
        BY <1>12, SessionConstants, SMTT(60) DEF ReadChunk
    <2>2. pipe' \in [Stream -> 0..PipeRoom]
        BY <1>12, <2>1 DEF ReadChunk
    <2> QED BY <1>12, <2>2, SMTT(60) DEF ReadChunk
<1>13. ASSUME NEW s \in Stream, SendChunk(s) PROVE TypeOK'
    BY <1>13, SendTypes, FramesAre, SMTT(60) DEF SendChunk
<1>14. ASSUME NEW s \in Stream, ReadEnd(s) PROVE TypeOK'
    BY <1>14 DEF ReadEnd
<1> QED BY <1>1, <1>2, <1>3, <1>4, <1>5, <1>6, <1>7, <1>8, <1>9, <1>10, <1>11, <1>12,
           <1>13, <1>14 DEF MainStep, ReaderStep

(* Cancel, crashes and the command.                                        *)
LEMMA OutsideTypes ==
    ASSUME TypeOK, Environment
    PROVE  TypeOK'
<1> USE DEF TypeOK, session, ipc, run, tree, data, RunnerUp, Running, Process
<1>1. CASE Cancel BY <1>1 DEF Cancel
<1>2. CASE ParentCrash BY <1>2 DEF ParentCrash
<1>3. CASE RunnerCrash BY <1>3 DEF RunnerCrash, RunnerEnds
<1>4. CASE Fork BY <1>4 DEF Fork
<1>5. ASSUME NEW p \in Process, CloseOutput(p) PROVE TypeOK'
    BY <1>5 DEF CloseOutput
<1>6. ASSUME NEW p \in Process, Ends(p) PROVE TypeOK'
    BY <1>6 DEF Ends
<1>7. ASSUME NEW p \in Process, NEW s \in Stream, Write(p, s) PROVE TypeOK'
    <2>1. pipe[s] + 1 \in 0..PipeRoom
        BY <1>7, SessionConstants DEF Write
    <2>2. pipe' \in [Stream -> 0..PipeRoom] /\ written' \in [Stream -> Nat]
        BY <1>7, <2>1 DEF Write
    <2> QED BY <1>7, <2>2 DEF Write
<1> QED BY <1>1, <1>2, <1>3, <1>4, <1>5, <1>6, <1>7 DEF Environment

LEMMA NextTypes ==
    ASSUME TypeOK, StartFacts, ParentFacts, [Next]_vars
    PROVE  TypeOK'
<1>1. CASE UNCHANGED vars BY <1>1 DEF vars, TypeOK
<1> QED BY <1>1, ParentTypes, RunnerTypes, OutsideTypes DEF Next

----------------------------------------------------------------------------
LEMMA InitFacts == Init => SessionFacts
<1> SUFFICES ASSUME Init PROVE SessionFacts
    OBVIOUS
<1>1. /\ parent = "logon" /\ attempt = 1 /\ report = [kind |-> "none"] /\ runner = "none"
      /\ toParent = <<>> /\ started = 0 /\ alive = {} /\ preserved = FALSE
      /\ \A s \in Stream : /\ reader[s] = "none" /\ captured[s] = 0
                           /\ pipe[s] = 0 /\ written[s] = 0
    BY DEF Init, NoReport
<1>2. \A s \in Stream : OutputsIn(toParent, s) = 0
    <2>1. toParent \in Seq(Frame) /\ Len(toParent) = 0
        BY <1>1
    <2>2. \A i \in 1..Len(toParent) : toParent[i].kind # "output"
        BY <2>1
    <2> QED BY <2>1, <2>2, NoOutputs
<1> HIDE DEF Init
<1>3. StartFacts
    BY <1>1 DEF StartFacts
<1>4. ParentFacts
    BY <1>1 DEF ParentFacts, NoReport
<1>5. FrameFacts
    BY <1>1 DEF FrameFacts
<1>6. ReaderFacts
    BY <1>1 DEF ReaderFacts
<1>7. Conserved
    BY <1>1, <1>2 DEF Conserved, HeldBy
<1>8. JobFacts /\ CompleteOutput /\ RootNotOrphaned
    BY <1>1, SMTT(60) DEF JobFacts, CompleteOutput, RootNotOrphaned
<1> QED BY <1>3, <1>4, <1>5, <1>6, <1>7, <1>8 DEF SessionFacts

(* The frame the parent reads next.                                        *)
LEMMA FirstFrame ==
    ASSUME TypeOK, FrameFacts, toParent # <<>>
    PROVE  /\ Head(toParent) \in Frame /\ Tail(toParent) \in Seq(Frame)
           /\ Len(toParent) \in Nat \ {0} /\ Len(Tail(toParent)) = Len(toParent) - 1
           /\ \A i \in 1..Len(toParent) - 1 : Tail(toParent)[i] = toParent[i + 1]
           /\ runner \notin {"none", "started", "spawned"}
           /\ Head(toParent).kind = "error" =>
                  started = 0 /\ runner \in {"failed", "killed", "dead"}
           /\ Head(toParent).kind # "error" => started = 1
           /\ Head(toParent).kind = "exit" =>
                  /\ Len(toParent) = 1
                  /\ ~Head(toParent).timedOut => \A s \in Stream : reader[s] = "ended"
<1>1. toParent \in Seq(Frame)
    BY DEF TypeOK
<1>2. /\ Len(toParent) \in Nat \ {0} /\ Head(toParent) = toParent[1]
      /\ Head(toParent) \in Frame /\ Tail(toParent) \in Seq(Frame)
      /\ Len(Tail(toParent)) = Len(toParent) - 1
      /\ \A i \in 1..Len(toParent) - 1 : Tail(toParent)[i] = toParent[i + 1]
    BY <1>1
<1>3. 1 \in 1..Len(toParent)
    BY <1>2
<1> QED BY <1>2, <1>3 DEF FrameFacts

LEMMA StartStep ==
    ASSUME TypeOK, SessionFacts, Next
    PROVE  StartFacts'
<1> USE DEF SessionFacts, StartFacts, session, ipc, run, tree, data
<1>1. CASE Logon \/ Refresh \/ Connect \/ ConnectFails \/ ReadyTimeout
    BY <1>1 DEF Logon, Refresh, Connect, ConnectFails, ReadyTimeout, AttemptFails, KillRunner,
                RunnerUp, Running, Failure
<1>2. CASE ReadReady \/ ReadEof \/ JoinWriter \/ WriterStep
    BY <1>2 DEF ReadReady, ReadEof, JoinWriter, WriterStep, SendTerminate, StopWriter,
                Failure
<1>3. CASE ReadStartupError
    BY <1>3, FirstFrame DEF ReadStartupError, AttemptFails, KillRunner, RunnerUp, Running, Failure
<1>4. CASE ReadOutput \/ ReadExit
    BY <1>4, FirstFrame DEF ReadOutput, ReadExit
<1>5. CASE SpawnChild \/ SpawnFails \/ RequestLost \/ SendReady
    BY <1>5 DEF SpawnChild, SpawnFails, RequestLost, SendReady
<1>6. CASE RootExited \/ RootTerminated \/ Drained \/ SendExit
    BY <1>6 DEF RootExited, RootTerminated, Drained, SendExit
<1>7. CASE ProcessExit \/ RunnerCrash
    BY <1>7 DEF ProcessExit, RunnerCrash, RunnerEnds, RunnerUp, Running
<1>8. CASE Timeout \/ ObeyTerminate
    BY <1>8 DEF Timeout, ObeyTerminate
<1>9. ASSUME NEW s \in Stream, ReaderStep(s) PROVE StartFacts'
    BY <1>9 DEF ReaderStep, ReadChunk, SendChunk, ReadEnd, Running
<1>10. CASE Cancel \/ ParentCrash \/ Fork
    BY <1>10 DEF Cancel, ParentCrash, Fork, Active
<1>11. ASSUME NEW p \in Process, CloseOutput(p) \/ Ends(p) PROVE StartFacts'
    BY <1>11 DEF CloseOutput, Ends
<1>12. ASSUME NEW p \in Process, NEW s \in Stream, Write(p, s) PROVE StartFacts'
    BY <1>12 DEF Write, Active, TypeOK
<1> QED BY <1>1, <1>2, <1>3, <1>4, <1>5, <1>6, <1>7, <1>8, <1>9, <1>10, <1>11, <1>12
        DEF Next, ParentStep, MainStep, Environment

LEMMA ParentFactsStep ==
    ASSUME TypeOK, SessionFacts, Next
    PROVE  ParentFacts'
<1> USE DEF SessionFacts, ParentFacts, session
<1>1. CASE UNCHANGED <<parent, attempt, report>>
    BY <1>1
<1>2. CASE ParentStep
    <2> USE DEF ParentUp
    <2>1. CASE Logon \/ Refresh \/ Connect \/ ConnectFails
        BY <2>1 DEF Logon, Refresh, Connect, ConnectFails, AttemptFails
    <2>2. CASE ReadReady \/ ReadStartupError \/ ReadyTimeout
        BY <2>2 DEF ReadReady, ReadStartupError, ReadyTimeout, AttemptFails
    <2>3. CASE ReadOutput \/ ReadExit \/ ReadEof \/ JoinWriter
        BY <2>3 DEF ReadOutput, ReadExit, ReadEof, JoinWriter
    <2> QED BY <1>2, <2>1, <2>2, <2>3 DEF ParentStep
<1>3. CASE ParentCrash
    BY <1>3 DEF ParentCrash, ParentUp
<1>4. ~ParentStep /\ ~ParentCrash => UNCHANGED <<parent, attempt, report>>
    BY DEF Next, WriterStep, SendTerminate, StopWriter, MainStep, SpawnChild, SpawnFails,
           RequestLost, SendReady, RootExited, RootTerminated, Drained, SendExit,
           ProcessExit, RunnerCrash, RunnerEnds, Timeout, ObeyTerminate, ReaderStep,
           ReadChunk, SendChunk, ReadEnd, Environment, Cancel, Fork, CloseOutput, Ends, Write
<1> QED BY <1>1, <1>2, <1>3, <1>4

LEMMA ReaderFactsStep ==
    ASSUME TypeOK, SessionFacts, Next
    PROVE  ReaderFacts'
<1> USE DEF SessionFacts, ReaderFacts, session, ipc, run, tree, data
<1>1. CASE ParentStep \/ WriterStep \/ Cancel \/ ParentCrash
    BY <1>1 DEF ParentStep, Logon, Refresh, Connect, ConnectFails, ReadReady,
       ReadStartupError, ReadyTimeout, ReadOutput, ReadExit, ReadEof, JoinWriter, KillRunner,
       WriterStep, SendTerminate, StopWriter, Cancel, ParentCrash
<1>2. CASE SpawnChild
    BY <1>2 DEF SpawnChild, StartFacts
<1>3. CASE SpawnFails \/ RequestLost \/ ProcessExit \/ RunnerCrash
    BY <1>3 DEF SpawnFails, RequestLost, ProcessExit, RunnerCrash, RunnerEnds
<1>4. CASE SendReady
    BY <1>4 DEF SendReady, TypeOK
<1>5. CASE RootExited \/ RootTerminated \/ Drained \/ SendExit
    BY <1>5 DEF RootExited, RootTerminated, Drained, SendExit, JobFacts
<1>6. CASE Timeout \/ ObeyTerminate
    BY <1>6 DEF Timeout, ObeyTerminate
<1>7. ASSUME NEW s \in Stream, ReaderStep(s) PROVE ReaderFacts'
    BY <1>7, SMTT(60) DEF ReaderStep, ReadChunk, SendChunk, ReadEnd, Running, TypeOK
<1>8. CASE Fork
    BY <1>8 DEF Fork
<1>9. ASSUME NEW p \in Process, CloseOutput(p) \/ Ends(p) PROVE ReaderFacts'
    BY <1>9 DEF CloseOutput, Ends
<1>10. ASSUME NEW p \in Process, NEW s \in Stream, Write(p, s) PROVE ReaderFacts'
    BY <1>10 DEF Write
<1> QED BY <1>1, <1>2, <1>3, <1>4, <1>5, <1>6, <1>7, <1>8, <1>9, <1>10
        DEF Next, MainStep, Environment

LEMMA JobFactsStep ==
    ASSUME TypeOK, SessionFacts, Next, UNCHANGED jobFails
    PROVE  JobFacts' /\ RootNotOrphaned'
<1> USE DEF SessionFacts, JobFacts, RootNotOrphaned, session, ipc, run, tree, data
<1>1. CASE ParentStep \/ WriterStep \/ Cancel \/ ParentCrash
    <2>1. UNCHANGED <<preserved, timedOut, alive, doomed>>
        BY <1>1 DEF ParentStep, Logon, Refresh, Connect, ConnectFails, ReadReady,
           ReadStartupError, ReadyTimeout, ReadOutput, ReadExit, ReadEof, JoinWriter,
           WriterStep, SendTerminate, StopWriter, Cancel, ParentCrash
    <2>2. runner' \in {runner, "started", "killed"}
        BY <1>1 DEF ParentStep, Logon, Refresh, Connect, ConnectFails, ReadReady,
           ReadStartupError, ReadyTimeout, ReadOutput, ReadExit, ReadEof, JoinWriter,
           KillRunner, WriterStep, SendTerminate, StopWriter, Cancel, ParentCrash
    <2> QED BY <2>1, <2>2
<1>2. CASE SpawnChild
    BY <1>2 DEF SpawnChild, StartFacts
<1>3. CASE SpawnFails \/ RequestLost \/ SendReady
    BY <1>3 DEF SpawnFails, RequestLost, SendReady
<1>4. CASE ProcessExit \/ RunnerCrash
    BY <1>4 DEF ProcessExit, RunnerCrash, RunnerEnds
<1>5. CASE RootExited
    BY <1>5 DEF RootExited, TypeOK
<1>6. CASE RootTerminated \/ Drained \/ SendExit
    BY <1>6 DEF RootTerminated, Drained, SendExit
<1>7. CASE Timeout \/ ObeyTerminate
    BY <1>7 DEF Timeout, ObeyTerminate, Running
<1>8. ASSUME NEW s \in Stream, ReaderStep(s) PROVE JobFacts' /\ RootNotOrphaned'
    BY <1>8 DEF ReaderStep, ReadChunk, SendChunk, ReadEnd
<1>9. CASE Fork
    BY <1>9 DEF Fork, Active
<1>10. ASSUME NEW p \in Process, CloseOutput(p) \/ Ends(p)
       PROVE  JobFacts' /\ RootNotOrphaned'
    BY <1>10 DEF CloseOutput, Ends
<1>11. ASSUME NEW p \in Process, NEW s \in Stream, Write(p, s)
       PROVE  JobFacts' /\ RootNotOrphaned'
    BY <1>11 DEF Write
<1> QED BY <1>1, <1>2, <1>3, <1>4, <1>5, <1>6, <1>7, <1>8, <1>9, <1>10, <1>11
        DEF Next, MainStep, Environment

(* A frame is added at the end, or the parent no longer listens.           *)
LEMMA SendFrame ==
    ASSUME TypeOK, NEW f \in Frame, Send(f)
    PROVE  \/ ~Listening /\ toParent' = toParent
           \/ /\ Listening /\ toParent' = Append(toParent, f)
              /\ Len(toParent') = Len(toParent) + 1 /\ Len(toParent) \in Nat
              /\ toParent'[Len(toParent) + 1] = f
              /\ \A i \in 1..Len(toParent) : toParent'[i] = toParent[i]
<1>1. toParent \in Seq(Frame)
    BY DEF TypeOK
<1> QED BY <1>1 DEF Send

(* Sending a frame that suits the state keeps FrameFacts.                  *)
LEMMA SendFacts ==
    ASSUME TypeOK, FrameFacts, NEW f \in Frame, Send(f),
           \A i \in 1..Len(toParent) : toParent[i].kind # "exit",
           \A i \in 1..Len(toParent) : toParent[i].kind = "error" =>
               started' = 0 /\ runner' \in {"failed", "killed", "dead"},
           started' = started, runner' \notin {"none", "started", "spawned"},
           Listening =>
              /\ f.kind = "error" => started = 0 /\ runner' \in {"failed", "killed", "dead"}
              /\ f.kind # "error" => started = 1
              /\ f.kind = "exit" => /\ runner' \in {"exited", "killed", "dead"}
                                    /\ ~f.timedOut => \A s \in Stream : reader'[s] = "ended"
    PROVE  FrameFacts'
<1>1. CASE ~Listening /\ toParent' = toParent
    BY <1>1 DEF FrameFacts
<1>2. CASE Listening /\ toParent' = Append(toParent, f)
    <2>1. /\ Len(toParent') = Len(toParent) + 1 /\ Len(toParent) \in Nat
          /\ toParent'[Len(toParent) + 1] = f
          /\ \A i \in 1..Len(toParent) : toParent'[i] = toParent[i]
        BY <1>2, SendFrame
    <2>2. ASSUME NEW i \in 1..Len(toParent')
          PROVE  i \in 1..Len(toParent) \/ i = Len(toParent) + 1
        BY <2>1
    <2>3. ASSUME NEW i \in 1..Len(toParent)
          PROVE  /\ toParent'[i].kind = "error" =>
                        started' = 0 /\ runner' \in {"failed", "killed", "dead"}
                 /\ toParent'[i].kind # "error" => started' = 1
                 /\ toParent'[i].kind # "exit"
        BY <2>1 DEF FrameFacts
    <2>4. ASSUME NEW i, i = Len(toParent) + 1
          PROVE  /\ toParent'[i].kind = "error" =>
                        started' = 0 /\ runner' \in {"failed", "killed", "dead"}
                 /\ toParent'[i].kind # "error" => started' = 1
                 /\ toParent'[i].kind = "exit" =>
                        /\ i = Len(toParent') /\ runner' \in {"exited", "killed", "dead"}
                        /\ ~toParent'[i].timedOut => \A s \in Stream : reader'[s] = "ended"
        BY <1>2, <2>1, <2>4
    <2> QED BY <2>2, <2>3, <2>4 DEF FrameFacts
<1> QED BY <1>1, <1>2, SendFrame

LEMMA FrameStep ==
    ASSUME TypeOK, SessionFacts, Next
    PROVE  FrameFacts'
<1> USE DEF SessionFacts, session, ipc, run, tree, data
<1>1. CASE Logon \/ ConnectFails \/ ReadyTimeout \/ ReadStartupError
    BY <1>1 DEF Logon, ConnectFails, ReadyTimeout, ReadStartupError, AttemptFails, KillRunner,
                FrameFacts, StartFacts, RunnerUp, Running
<1>2. CASE Refresh \/ Connect \/ ReadEof \/ JoinWriter \/ WriterStep \/ Cancel \/ ParentCrash
    BY <1>2 DEF Refresh, Connect, ReadEof, JoinWriter, WriterStep, SendTerminate, StopWriter,
                Cancel, ParentCrash, FrameFacts
<1>3. CASE ReadReady \/ ReadOutput \/ ReadExit
    <2>1. toParent # <<>> /\ toParent' = Tail(toParent)
        BY <1>3 DEF ReadReady, ReadOutput, ReadExit
    <2>2. UNCHANGED <<runner, started, reader>>
        BY <1>3 DEF ReadReady, ReadOutput, ReadExit
    <2>3. Len(toParent) \in Nat \ {0} /\ Len(toParent') = Len(toParent) - 1
          /\ \A i \in 1..Len(toParent) - 1 : toParent'[i] = toParent[i + 1]
          /\ runner \notin {"none", "started", "spawned"}
        BY <2>1, FirstFrame
    <2> QED BY <2>2, <2>3 DEF FrameFacts
<1>4. CASE SpawnChild
    BY <1>4 DEF SpawnChild, FrameFacts
<1>5. CASE SpawnFails
    <2>1. PICK b \in BOOLEAN : Send(Failed(b))
        BY <1>5 DEF SpawnFails
    <2>2. toParent = <<>> /\ started = 0 /\ runner' = "failed" /\ started' = started
        BY <1>5 DEF SpawnFails, FrameFacts, StartFacts
    <2> QED BY <2>1, <2>2, SendFacts, FramesAre DEF Failed
<1>6. CASE SendReady
    <2>1. toParent = <<>> /\ started = 1 /\ runner' \in {"watching", "failed"}
        BY <1>6 DEF SendReady, FrameFacts, StartFacts, TypeOK
    <2> QED BY <1>6, <2>1, SendFacts, FramesAre DEF SendReady, Ready
<1>7. CASE RequestLost \/ RootExited \/ RootTerminated \/ Drained \/ ProcessExit \/ RunnerCrash
    BY <1>7 DEF RequestLost, RootExited, RootTerminated, Drained, ProcessExit, RunnerCrash,
                RunnerEnds, FrameFacts
<1>8. CASE SendExit
    <2>1. started = 1 /\ \A i \in 1..Len(toParent) : toParent[i].kind \notin {"exit", "error"}
        BY <1>8 DEF SendExit, FrameFacts, StartFacts, TypeOK
    <2>2. ~timedOut => \A s \in Stream : reader[s] = "ended"
        BY <1>8 DEF SendExit, ReaderFacts
    <2> QED BY <1>8, <2>1, <2>2, SendFacts, FramesAre DEF SendExit, Command, TypeOK
<1>9. CASE Timeout \/ ObeyTerminate
    BY <1>9 DEF Timeout, ObeyTerminate, FrameFacts
<1>10. ASSUME NEW s \in Stream, SendChunk(s) PROVE FrameFacts'
    <2>1. started = 1 /\ \A i \in 1..Len(toParent) : toParent[i].kind \notin {"exit", "error"}
        BY <1>10 DEF SendChunk, Running, FrameFacts, StartFacts, TypeOK
    <2> QED BY <1>10, <2>1, SendFacts, FramesAre DEF SendChunk, Running, Output
<1>11. ASSUME NEW s \in Stream, ReadChunk(s) \/ ReadEnd(s) PROVE FrameFacts'
    BY <1>11 DEF ReadChunk, ReadEnd, FrameFacts, Running
<1>12. CASE Fork
    BY <1>12 DEF Fork, FrameFacts
<1>13. ASSUME NEW p \in Process, CloseOutput(p) \/ Ends(p) PROVE FrameFacts'
    BY <1>13 DEF CloseOutput, Ends, FrameFacts
<1>14. ASSUME NEW p \in Process, NEW s \in Stream, Write(p, s) PROVE FrameFacts'
    BY <1>14 DEF Write, FrameFacts
<1> QED BY <1>1, <1>2, <1>3, <1>4, <1>5, <1>6, <1>7, <1>8, <1>9, <1>10, <1>11, <1>12,
           <1>13, <1>14 DEF Next, ParentStep, MainStep, ReaderStep, Environment

LEMMA ConservedStep ==
    ASSUME TypeOK, SessionFacts, Next
    PROVE  Conserved'
<1> USE DEF SessionFacts, session, ipc, run, tree, data
<1>0. toParent \in Seq(Frame)
    BY DEF TypeOK
<1>1. CASE Logon
    <2>1. CASE toParent' = <<>>
        <3>1. \A s \in Stream : OutputsIn(<<>>, s) = 0
            <4>1. <<>> \in Seq(Frame) /\ \A i \in 1..Len(<<>>) : <<>>[i].kind # "output"
                OBVIOUS
            <4> QED BY <4>1, NoOutputs
        <3> QED BY <1>1, <2>1, <3>1 DEF Logon, AttemptFails, StartFacts, Conserved, HeldBy
    <2>2. CASE UNCHANGED ipc
        BY <1>1, <2>2 DEF Logon, AttemptFails, Conserved, Listening, ParentUp
    <2> QED BY <1>1, <2>1, <2>2 DEF Logon
<1>2. CASE Refresh \/ Connect \/ ConnectFails \/ ReadStartupError \/ ReadyTimeout \/ ReadEof
           \/ JoinWriter \/ WriterStep \/ ParentCrash
    BY <1>2 DEF Refresh, Connect, ConnectFails, ReadStartupError, ReadyTimeout, ReadEof,
       JoinWriter, WriterStep, SendTerminate, StopWriter, ParentCrash, AttemptFails, Conserved,
       Listening, ParentUp
<1>3. CASE ReadReady \/ ReadExit
    <2>1. /\ toParent # <<>> /\ toParent' = Tail(toParent)
          /\ \A s \in Stream : Head(toParent) # Output(s)
        BY <1>3 DEF ReadReady, ReadExit, Ready, Output
    <2>2. \A s \in Stream : OutputsIn(toParent', s) = OutputsIn(toParent, s)
        <3>1. \A s \in Stream : OutputsIn(Tail(toParent), s) \in Nat
            BY <1>0, <2>1, OutputsType, RestTypes
        <3> QED BY <1>0, <2>1, <3>1, TailFrame
    <2> QED BY <1>3, <2>2 DEF ReadReady, ReadExit, Conserved, Listening, ParentUp
<1>4. CASE ReadOutput
    <2> DEFINE c == Head(toParent).stream
    <2>1. /\ toParent # <<>> /\ toParent' = Tail(toParent) /\ Tail(toParent) \in Seq(Frame)
          /\ c \in Stream /\ Head(toParent) = Output(c)
        BY <1>4, FirstFrame, FrameKinds DEF ReadOutput, Ready
    <2>2. \A s \in Stream : Head(toParent) = Output(s) <=> s = c
        BY <2>1 DEF Output
    <2>3. \A s \in Stream : /\ OutputsIn(toParent', s) \in Nat
                            /\ OutputsIn(toParent, s) =
                                  OutputsIn(toParent', s) + (IF s = c THEN 1 ELSE 0)
        BY <1>0, <2>1, <2>2, OutputsType, TailFrame
    <2> HIDE DEF c
    <2>4. \A s \in Stream : captured'[s] = captured[s] + (IF s = c THEN 1 ELSE 0)
        BY <1>4, <2>1 DEF ReadOutput, TypeOK, c
    <2>5. UNCHANGED <<parent, reader, pipe, written>>
        BY <1>4 DEF ReadOutput
    <2>6. \A s \in Stream : captured[s] \in Nat /\ pipe[s] \in Nat /\ HeldBy(reader[s]) \in Nat
        BY SessionConstants DEF TypeOK, HeldBy
    <2> QED BY <2>3, <2>4, <2>5, <2>6 DEF Conserved, Listening
<1>5. CASE SpawnChild \/ RequestLost \/ RootExited \/ RootTerminated \/ Drained \/ ProcessExit
           \/ RunnerCrash \/ Timeout \/ ObeyTerminate \/ Cancel \/ Fork
    BY <1>5 DEF SpawnChild, RequestLost, RootExited, RootTerminated, Drained, ProcessExit,
       RunnerCrash, RunnerEnds, Timeout, ObeyTerminate, Cancel, Fork, Conserved, Listening
<1>6. ASSUME NEW f \in Frame, \A s \in Stream : f # Output(s), Send(f)
      PROVE  Listening => \A s \in Stream : OutputsIn(toParent', s) = OutputsIn(toParent, s)
    <2> SUFFICES ASSUME Listening, NEW s \in Stream
                 PROVE  OutputsIn(toParent', s) = OutputsIn(toParent, s)
        OBVIOUS
    <2>1. OutputsIn(toParent, s) \in Nat
        BY <1>0, OutputsType
    <2>2. toParent' = Append(toParent, f)
        BY <1>6 DEF Send
    <2>3. OutputsIn(Append(toParent, f), s) = OutputsIn(toParent, s) + 0
        BY <1>0, <1>6, AppendFrame
    <2> QED BY <2>1, <2>2, <2>3
<1>7. CASE SpawnFails \/ SendReady \/ SendExit
    <2>1. PICK f \in Frame : (\A s \in Stream : f # Output(s)) /\ Send(f)
        BY <1>7, FramesAre DEF SpawnFails, SendReady, SendExit, TypeOK, Failed, Ready, Command,
           Output
    <2>2. UNCHANGED <<parent, captured, pipe, written>>
        BY <1>7 DEF SpawnFails, SendReady, SendExit
    <2>3. \A s \in Stream : HeldBy(reader'[s]) = HeldBy(reader[s])
        BY <1>7 DEF SpawnFails, SendReady, SendExit, ReaderFacts, HeldBy
    <2> QED BY <1>6, <2>1, <2>2, <2>3 DEF Conserved, Listening
<1>8. ASSUME NEW c \in Stream, SendChunk(c) PROVE Conserved'
    <2>1. UNCHANGED <<parent, captured, pipe, written>>
        BY <1>8 DEF SendChunk
    <2>2. \A s \in Stream : HeldBy(reader[s]) = HeldBy(reader'[s]) + (IF s = c THEN 1 ELSE 0)
        BY <1>8 DEF SendChunk, HeldBy, TypeOK
    <2>3. \A s \in Stream : OutputsIn(toParent, s) \in Nat /\ HeldBy(reader'[s]) \in Nat
        BY <1>0, OutputsType DEF HeldBy
    <2>4. Listening => \A s \in Stream :
            OutputsIn(toParent', s) = OutputsIn(toParent, s) + (IF s = c THEN 1 ELSE 0)
        <3>1. \A s \in Stream : Output(c) = Output(s) <=> s = c
            BY DEF Output
        <3>2. Listening => toParent' = Append(toParent, Output(c))
            BY <1>8 DEF SendChunk, Send
        <3>3. Output(c) \in Frame
            BY FramesAre
        <3>4. \A s \in Stream : OutputsIn(Append(toParent, Output(c)), s) =
                                 OutputsIn(toParent, s) + (IF s = c THEN 1 ELSE 0)
            BY <1>0, <3>1, <3>3, AppendFrame
        <3> QED BY <3>2, <3>4
    <2>5. \A s \in Stream : captured[s] \in Nat /\ pipe[s] \in Nat
        BY SessionConstants DEF TypeOK
    <2> QED BY <2>1, <2>2, <2>3, <2>4, <2>5 DEF Conserved, Listening
<1>9. ASSUME NEW c \in Stream, ReadChunk(c) PROVE Conserved'
    <2>1. UNCHANGED <<parent, captured, toParent, written>>
        BY <1>9 DEF ReadChunk
    <2>2. \A s \in Stream : /\ HeldBy(reader'[s]) = HeldBy(reader[s]) + (IF s = c THEN 1 ELSE 0)
                            /\ HeldBy(reader[s]) \in Nat
                            /\ pipe[s] \in Nat
                            /\ pipe'[s] = pipe[s] - (IF s = c THEN 1 ELSE 0)
        BY <1>9, SessionConstants, SMTT(60) DEF ReadChunk, HeldBy, TypeOK
    <2>3. \A s \in Stream : OutputsIn(toParent, s) \in Nat /\ captured[s] \in Nat
        BY <1>0, OutputsType DEF TypeOK
    <2> QED BY <2>1, <2>2, <2>3 DEF Conserved, Listening
<1>10. ASSUME NEW c \in Stream, ReadEnd(c) PROVE Conserved'
    BY <1>10 DEF ReadEnd, Conserved, Listening, HeldBy, TypeOK
<1>11. ASSUME NEW p \in Process, CloseOutput(p) \/ Ends(p) PROVE Conserved'
    BY <1>11 DEF CloseOutput, Ends, Conserved, Listening
<1>12. ASSUME NEW p \in Process, NEW c \in Stream, Write(p, c) PROVE Conserved'
    <2>1. UNCHANGED <<parent, captured, toParent, reader>>
        BY <1>12 DEF Write
    <2>2. \A s \in Stream : /\ written'[s] = written[s] + (IF s = c THEN 1 ELSE 0)
                            /\ pipe'[s] = pipe[s] + (IF s = c THEN 1 ELSE 0)
                            /\ pipe[s] \in Nat /\ written[s] \in Nat
        <3>1. \A s \in Stream : pipe[s] \in Nat /\ written[s] \in Nat
            BY SessionConstants DEF TypeOK
        <3>2. /\ written' = [written EXCEPT ![c] = written[c] + 1]
              /\ pipe' = [pipe EXCEPT ![c] = pipe[c] + 1]
            BY <1>12 DEF Write
        <3>3. \A s \in Stream \ {c} : written'[s] = written[s] /\ pipe'[s] = pipe[s]
            BY <3>2 DEF TypeOK
        <3>4. written'[c] = written[c] + 1 /\ pipe'[c] = pipe[c] + 1
            BY <3>2 DEF TypeOK
        <3> QED BY <3>1, <3>3, <3>4
    <2>3. \A s \in Stream : /\ OutputsIn(toParent, s) \in Nat /\ captured[s] \in Nat
                            /\ HeldBy(reader[s]) \in Nat
        BY <1>0, OutputsType DEF TypeOK, HeldBy
    <2> QED BY <2>1, <2>2, <2>3 DEF Conserved, Listening
<1> QED BY <1>1, <1>2, <1>3, <1>4, <1>5, <1>7, <1>8, <1>9, <1>10, <1>11, <1>12
        DEF Next, ParentStep, MainStep, ReaderStep, Environment

(* What the parent has collected when it reads the exit frame.             *)
LEMMA ExitOutput ==
    ASSUME TypeOK, SessionFacts, ReadExit
    PROVE  /\ started = 1 /\ report = NoReport
           /\ Head(toParent).timedOut \in BOOLEAN
           /\ captured \in [Stream -> Nat] /\ \A s \in Stream : captured[s] <= written[s]
           /\ ~Head(toParent).timedOut => captured = written /\ holders = {}
<1> USE DEF SessionFacts
<1>1. /\ toParent # <<>> /\ Head(toParent).kind = "exit" /\ parent = "capturing"
      /\ Len(toParent) = 1 /\ toParent \in Seq(Frame)
      /\ started = 1 /\ Head(toParent) \in Frame
      /\ ~Head(toParent).timedOut => \A s \in Stream : reader[s] = "ended"
    BY FirstFrame DEF ReadExit, TypeOK
<1>2. Head(toParent).timedOut \in BOOLEAN
    BY <1>1, FrameKinds DEF Ready
<1>3. report = NoReport
    BY <1>1 DEF ParentFacts, ParentUp
<1>4. \A s \in Stream : captured[s] \in Nat /\ pipe[s] \in Nat /\ HeldBy(reader[s]) \in Nat
    BY SessionConstants DEF TypeOK, HeldBy
<1>5. \A s \in Stream : OutputsIn(toParent, s) = 0
    <2>1. \A i \in 1..Len(toParent) : toParent[i].kind # "output"
        BY <1>1
    <2> QED BY <1>1, <2>1, NoOutputs
<1>6. \A s \in Stream : captured[s] + HeldBy(reader[s]) + pipe[s] = written[s]
    BY <1>1, <1>4, <1>5 DEF Conserved, Listening, ParentUp
<1>7. ASSUME ~Head(toParent).timedOut PROVE captured = written /\ holders = {}
    <2>1. \A s \in Stream : reader[s] = "ended" /\ pipe[s] = 0 /\ holders = {}
        BY <1>1, <1>7 DEF ReaderFacts
    <2>2. \A s \in Stream : captured[s] = written[s]
        BY <1>4, <1>6, <2>1 DEF HeldBy
    <2> QED BY <2>1, <2>2, SessionConstants DEF TypeOK
<1>8. \A s \in Stream : captured[s] <= written[s]
    BY <1>4, <1>6
<1> QED BY <1>1, <1>2, <1>3, <1>7, <1>8 DEF TypeOK

LEMMA OutputStep ==
    ASSUME TypeOK, SessionFacts, Next
    PROVE  CompleteOutput'
<1> USE DEF SessionFacts, CompleteOutput, session, ipc, run, tree, data
<1>1. CASE ParentStep /\ ~ReadExit
    BY <1>1 DEF ParentStep, Logon, Refresh, Connect, ConnectFails, ReadReady,
       ReadStartupError, ReadyTimeout, ReadOutput, ReadEof, JoinWriter, AttemptFails, Failure
<1>2. CASE ReadExit
    BY <1>2, ExitOutput DEF ReadExit, Exit
<1>3. CASE WriterStep \/ Cancel \/ ParentCrash \/ Timeout \/ ObeyTerminate \/ RunnerCrash
    BY <1>3 DEF WriterStep, SendTerminate, StopWriter, Cancel, ParentCrash, Timeout,
       ObeyTerminate, RunnerCrash, RunnerEnds
<1>4. CASE SpawnChild
    BY <1>4 DEF SpawnChild, StartFacts
<1>5. CASE MainStep /\ ~SpawnChild
    BY <1>5 DEF MainStep, SpawnFails, RequestLost, SendReady, RootExited, RootTerminated,
       Drained, SendExit, ProcessExit, RunnerEnds
<1>6. ASSUME NEW s \in Stream, ReaderStep(s) PROVE CompleteOutput'
    BY <1>6 DEF ReaderStep, ReadChunk, SendChunk, ReadEnd
<1>7. CASE Fork
    BY <1>7 DEF Fork
<1>8. ASSUME NEW p \in Process, CloseOutput(p) \/ Ends(p) PROVE CompleteOutput'
    BY <1>8 DEF CloseOutput, Ends
<1>9. ASSUME NEW p \in Process, NEW s \in Stream, Write(p, s) PROVE CompleteOutput'
    BY <1>9 DEF Write
<1> QED BY <1>1, <1>2, <1>3, <1>4, <1>5, <1>6, <1>7, <1>8, <1>9 DEF Next, Environment

LEMMA FactsStep ==
    ASSUME TypeOK, SessionFacts, [Next /\ UNCHANGED jobFails]_<<vars, jobFails>>
    PROVE  SessionFacts'
<1>1. CASE UNCHANGED <<vars, jobFails>>
    BY <1>1 DEF vars, SessionFacts, StartFacts, ParentFacts, FrameFacts, ReaderFacts,
       Conserved, Listening, JobFacts, CompleteOutput, RootNotOrphaned
<1>2. CASE Next /\ UNCHANGED jobFails
    BY <1>2, StartStep, ParentFactsStep, FrameStep, ReaderFactsStep, ConservedStep,
       JobFactsStep, OutputStep DEF SessionFacts
<1> QED BY <1>1, <1>2

(* The state is well typed and the inductive facts of a session hold.      *)
THEOREM SessionInvariant == Spec => [](TypeOK /\ SessionFacts)
<1>1. Init => TypeOK /\ SessionFacts
    BY InitTypes, InitFacts
<1>2. TypeOK /\ SessionFacts /\ [Next /\ UNCHANGED jobFails]_<<vars, jobFails>> =>
        (TypeOK /\ SessionFacts)'
    BY NextTypes, FactsStep DEF SessionFacts, vars
<1> QED BY <1>1, <1>2, PTL DEF Spec

(* Whatever fails, is retried, killed or times out: the command is started *)
(* at most once, an exit that is not a timeout comes with everything that  *)
(* was written, and the root of the command never outlives the runner.     *)
THEOREM SessionSafety == Spec => []SessionInv
<1>1. TypeOK /\ SessionFacts => SessionInv
    BY DEF SessionInv, SessionFacts, CommandOnce, StartFacts
<1> QED BY <1>1, SessionInvariant, PTL

(* A runner that saw the root exit leaves the descendants alone when it    *)
(* ends, unless a timeout or a failed job call made it give up.            *)
THEOREM DescendantsSafety == Spec => DescendantsSurvive
<1>1. TypeOK /\ SessionFacts /\ [Next /\ UNCHANGED jobFails]_<<vars, jobFails>> =>
        [runner = "exited" /\ runner' = "dead" /\ ~timedOut /\ ~jobFails
            => doomed' = doomed]_vars
    <2> SUFFICES ASSUME SessionFacts, Next, runner = "exited", runner' = "dead",
                        ~timedOut, ~jobFails
                 PROVE  doomed' = doomed
        BY DEF vars
    <2>1. preserved
        BY DEF SessionFacts, JobFacts
    <2>2. CASE ParentStep \/ WriterStep \/ MainStep \/ Timeout \/ ObeyTerminate
        BY <2>1, <2>2 DEF session, ipc, run, tree, ParentStep, Logon, Refresh, Connect,
           ConnectFails, ReadReady, ReadStartupError, ReadyTimeout, ReadOutput, ReadExit,
           ReadEof, JoinWriter, WriterStep, SendTerminate, StopWriter, MainStep, SpawnChild,
           SpawnFails, RequestLost, SendReady, RootExited, RootTerminated, Drained, SendExit,
           ProcessExit, RunnerEnds, Timeout, ObeyTerminate, Running
    <2>3. CASE Environment \/ \E s \in Stream : ReaderStep(s)
        BY <2>1, <2>3 DEF session, ipc, run, tree, Environment, Cancel, ParentCrash,
           RunnerCrash, RunnerEnds, Fork, CloseOutput, Ends, Write, ReaderStep, ReadChunk,
           SendChunk, ReadEnd
    <2> QED BY <2>2, <2>3 DEF Next
<1> QED BY <1>1, SessionInvariant, PTL DEF Spec, DescendantsSurvive

----------------------------------------------------------------------------
(* Refinement of CommandRun: the phase of the command, what it has         *)
(* produced and what the caller is told change together as they may.       *)
LEMMA RefinesInit == Init => Abstract!Init
BY DEF Init, Abstract!Init, Phase, NoReport, Abstract!NoReport

Same == UNCHANGED <<started, holders, written>>

LEMMA ParentRefines ==
    ASSUME TypeOK, SessionFacts, ParentStep
    PROVE  [Abstract!Next]_(Abstract!vars)
<1> USE DEF SessionFacts, ipc, run, tree, data
<1>1. Same
    BY DEF Same, ParentStep, Logon, Refresh, Connect, ConnectFails, ReadReady,
       ReadStartupError, ReadyTimeout, ReadOutput, ReadExit, ReadEof, JoinWriter
<1>2. Phase' = Phase
    BY <1>1 DEF Same, Phase
<1>3. CASE ReadExit
    <2>1. /\ started = 1 /\ report = NoReport
          /\ Head(toParent).timedOut \in BOOLEAN
          /\ \A s \in Stream : captured[s] <= written[s]
          /\ ~Head(toParent).timedOut => captured = written /\ holders = {}
        BY <1>3, ExitOutput
    <2>2. report' = Exit(Head(toParent).timedOut, captured)
        BY <1>3 DEF ReadExit
    <2>3. CASE Head(toParent).timedOut = FALSE
        <3>1. captured = written /\ holders = {}
            BY <2>1, <2>3
        <3>2. Phase = "ended"
            BY <2>1, <3>1 DEF Phase
        <3>3. report' = [kind |-> "exit", timedOut |-> FALSE, output |-> written]
            BY <2>2, <2>3, <3>1 DEF Exit
        <3>4. Abstract!ReportExit
            BY <1>1, <1>2, <2>1, <3>2, <3>3
               DEF Same, NoReport, Abstract!ReportExit, Abstract!NoReport, Abstract!Exit
        <3> QED BY <3>4 DEF Abstract!Next
    <2>4. CASE Head(toParent).timedOut = TRUE
        <3>1. Phase # "pending"
            BY <2>1 DEF Phase
        <3>2. report' = [kind |-> "exit", timedOut |-> TRUE, output |-> captured]
            BY <2>2, <2>4 DEF Exit
        <3>3. report'.kind = "exit" /\ report'.output = captured
            BY <3>2
        <3>4. Abstract!ReportTimeout
            BY <1>1, <1>2, <2>1, <3>1, <3>2, <3>3
               DEF Same, NoReport, Abstract!ReportTimeout, Abstract!NoReport, Abstract!Exit
        <3> QED BY <3>4 DEF Abstract!Next
    <2> QED BY <2>1, <2>3, <2>4
<1>4. CASE ~ReadExit
    <2>1. report' = report \/ (report = NoReport /\ report' = Failure)
        <3>1. CASE Logon \/ Refresh \/ Connect \/ ConnectFails
            BY <3>1 DEF ParentFacts, ParentUp, Logon, Refresh, Connect, ConnectFails, AttemptFails
        <3>2. CASE ReadReady \/ ReadStartupError \/ ReadyTimeout
            BY <3>2 DEF ParentFacts, ParentUp, ReadReady, ReadStartupError, ReadyTimeout,
               AttemptFails
        <3>3. CASE ReadOutput \/ ReadEof \/ JoinWriter
            BY <3>3 DEF ParentFacts, ParentUp, ReadOutput, ReadEof, JoinWriter
        <3> QED BY <1>4, <3>1, <3>2, <3>3 DEF ParentStep
    <2>2. CASE report' = report
        BY <1>1, <1>2, <2>2 DEF Same, Abstract!vars
    <2>3. CASE report = NoReport /\ report' = Failure
        BY <1>1, <1>2, <2>3 DEF Same, NoReport, Failure, Abstract!Next, Abstract!ReportFailure,
           Abstract!NoReport, Abstract!Failure
    <2> QED BY <2>1, <2>2, <2>3
<1> QED BY <1>3, <1>4

LEMMA OtherRefines ==
    ASSUME TypeOK, SessionFacts, Next, ~ParentStep
    PROVE  [Abstract!Next]_(Abstract!vars)
<1> USE DEF SessionFacts, session, ipc, run, tree, data
<1>1. CASE SpawnChild
    <2>1. started = 0 /\ started' = 1 /\ holders' = {"root"} /\ UNCHANGED <<written, report>>
        BY <1>1 DEF SpawnChild, StartFacts
    <2> QED BY <2>1 DEF Phase, Abstract!Next, Abstract!Start
<1>2. CASE Same /\ report' = report
    BY <1>2 DEF Same, Phase, Abstract!vars
<1>3. CASE WriterStep \/ Timeout \/ ObeyTerminate \/ Cancel \/ ParentCrash \/ RunnerCrash
    BY <1>2, <1>3 DEF Same, WriterStep, SendTerminate, StopWriter, Timeout, ObeyTerminate,
       Cancel, ParentCrash, RunnerCrash, RunnerEnds
<1>4. CASE MainStep /\ ~SpawnChild
    BY <1>2, <1>4 DEF Same, MainStep, SpawnFails, RequestLost, SendReady, RootExited,
       RootTerminated, Drained, SendExit, ProcessExit, RunnerEnds
<1>5. ASSUME NEW s \in Stream, ReaderStep(s) PROVE Same /\ report' = report
    BY <1>5 DEF Same, ReaderStep, ReadChunk, SendChunk, ReadEnd
<1>6. CASE Fork
    <2>1. holders' = {} <=> holders = {}
        BY <1>6 DEF Fork
    <2>2. UNCHANGED <<started, written, report>>
        BY <1>6 DEF Fork
    <2> QED BY <2>1, <2>2 DEF Phase, Abstract!vars
<1>7. ASSUME NEW p \in Process, CloseOutput(p) \/ Ends(p)
      PROVE  [Abstract!Next]_(Abstract!vars)
    <2>1. holders' = holders \ {p} /\ UNCHANGED <<started, written, report>>
        BY <1>7 DEF CloseOutput, Ends
    <2>2. Phase' = Phase \/ (Phase = "running" /\ Phase' = "ended")
        <3>1. CASE started = 0
            BY <2>1, <3>1 DEF Phase
        <3>2. CASE started # 0 /\ holders = {}
            BY <2>1, <3>2 DEF Phase
        <3>3. CASE started # 0 /\ holders # {}
            BY <2>1, <3>3 DEF Phase
        <3> QED BY <3>1, <3>2, <3>3
    <2> QED BY <2>1, <2>2 DEF Abstract!vars, Abstract!Next, Abstract!End
<1>8. ASSUME NEW p \in Process, NEW s \in Stream, Write(p, s)
      PROVE  [Abstract!Next]_(Abstract!vars)
    <2>1. /\ p \in holders /\ written' = [written EXCEPT ![s] = @ + 1]
          /\ UNCHANGED <<started, holders, report>>
        BY <1>8 DEF Write
    <2>2. Phase = "running" /\ Phase' = Phase
        BY <2>1 DEF Phase, StartFacts, TypeOK
    <2> QED BY <2>1, <2>2 DEF Abstract!Next, Abstract!Produce
<1> QED BY <1>1, <1>2, <1>3, <1>4, <1>5, <1>6, <1>7, <1>8 DEF Next, Environment

(* A session of any size implements CommandRun.                            *)
THEOREM SessionRefinement == Spec => ImplementsCommandRun
<1>1. TypeOK /\ SessionFacts /\ [Next /\ UNCHANGED jobFails]_<<vars, jobFails>> =>
        [Abstract!Next]_(Abstract!vars)
    <2>1. ASSUME UNCHANGED <<vars, jobFails>> PROVE UNCHANGED Abstract!vars
        BY <2>1 DEF vars, Abstract!vars, Phase
    <2> QED BY <2>1, ParentRefines, OtherRefines
<1> QED BY <1>1, RefinesInit, SessionInvariant, PTL DEF Spec, ImplementsCommandRun, Abstract!Spec
=============================================================================
