---------------------------- MODULE CommandProofs ----------------------------
(***************************************************************************)
(* Proofs about what runs a command: about Captures, for any processes,    *)
(* streams, timeouts and bounds (nothing the capture tracks survives it,   *)
(* its report is true, and it is a run of CommandRun), and about the       *)
(* policy of a command on macOS, for any paths and commands (Seatbelt).    *)
(***************************************************************************)
EXTENDS Captures, Seatbelt, SequenceTheorems, TLAPS

(* What the steps do, seen from the tree, the output and the report.       *)
Starts == (Begin \/ FailToStart) /\ UNCHANGED <<stranger, listed>>

WaitEnds == \E o \in {"exited", "timed out", "cancelled"}, next \in {"ended", "term"} :
    /\ EndWait(o, next) /\ UNCHANGED <<stranger, listed>>
    /\ next = IF OnWindows THEN "ended" ELSE "term"
    /\ o = "timed out" => IF OnWindows THEN Expired
                          ELSE request.timeout # None /\ elapsed >= request.timeout

(* A step of the killing, which lets more processes die but no more: it is *)
(* told here where it leads.                                               *)
Kills ==
    /\ UNCHANGED <<alive, born, holders, tracked, data, wait, report, stranger>>
    /\ doomed \subseteq doomed' /\ doomed' \subseteq doomed \cup alive
    /\ listed' \subseteq listed \cup alive
    /\ \/ /\ OnWindows /\ UNCHANGED listed
          /\ \/ pc = "ended" /\ pc' = "join"
             \/ pc \in {"wait", "ended", "join"} /\ pc' = "dead"
          /\ tracked \cap alive \subseteq doomed'
       \/ /\ ~OnWindows /\ pc \in {"term", "grace", "kill", "members", "reap"}
          /\ pc' \in {"grace", "kill", "members", "reap", "join"}
          /\ pc' = "members" => "members" \in request.trouble
          /\ pc' \in {"reap", "join"} =>
                "members" \in request.trouble \/ pc = "reap" \/ Group \subseteq doomed'

Reads == \E s \in Stream :
    /\ Read(s) \/ Eof(s, TRUE) \/ Eof(s, FALSE)
    /\ born # {} /\ pc # "done"
    /\ UNCHANGED <<wait, report, pc, stranger, listed>>

Runs == \E p \in Proc :
    /\ Fork(p) \/ Close(p) \/ Write(p) \/ Ends(p)
    /\ UNCHANGED <<wait, report, pc, stranger, listed>>

Passes ==
    /\ UNCHANGED <<tree, data, outcome, report, pc, listed>>
    /\ elapsed' \in {elapsed, elapsed + 1} /\ cancelled' \in {cancelled, TRUE}
    /\ stranger' \in {stranger, "yes", "gone"}

Leaves == ~OnWindows /\ \E p \in Proc : Escape(p) /\ UNCHANGED stranger

Finishes == Finish /\ UNCHANGED <<stranger, listed>>
Fails == ~OnWindows /\ SignalError /\ UNCHANGED stranger

Step ==
    \/ Starts \/ WaitEnds \/ Kills \/ Reads \/ Runs \/ Passes \/ Leaves
    \/ Finishes \/ Fails \/ UNCHANGED vars

(* Every step is one of these.                                             *)
LEMMA Steps ==
    ASSUME TypeOK, StageFacts, Next, UNCHANGED request
    PROVE  Step
<1> USE DEF Step, Finishes, Fails
<1>1. ASSUME OnWindows, WindowsMain, UNCHANGED listed PROVE Step
    <2>1. CASE SpawnInJob
        BY <1>1, <2>1 DEF SpawnInJob, Starts
    <2>2. CASE WaitInJob
        BY <1>1, <2>2 DEF WaitInJob, WaitEnds
    <2>3. CASE CloseJob
        <3>1. Kills
            BY <1>1, <2>3 DEF CloseJob, Kills
        <3> QED BY <3>1
    <2>4. CASE Finish /\ UNCHANGED stranger
        BY <1>1, <2>4
    <2> QED BY <1>1, <2>1, <2>2, <2>3, <2>4 DEF WindowsMain
<1>2. ASSUME ~OnWindows, MacMain, UNCHANGED stranger PROVE Step
    <2>1. CASE SpawnInGroup
        BY <1>2, <2>1 DEF SpawnInGroup, Starts
    <2>2. CASE PollChild
        BY <1>2, <2>2 DEF PollChild, WaitEnds
    <2>3. CASE Term
        <3>1. Kills
            BY <1>2, <2>3 DEF Term, Afterwards, Kills, tree, Group
        <3> QED BY <3>1
    <2>4. CASE Grace
        <3>1. Kills
            BY <1>2, <2>4 DEF Grace, Afterwards, Kills, tree, Group
        <3> QED BY <3>1
    <2>5. CASE Kill
        <3>1. Kills
            BY <1>2, <2>5 DEF Kill, Afterwards, Kills, Group
        <3> QED BY <3>1
    <2>6. CASE KillMember
        <3>1. Kills
            BY <1>2, <2>6 DEF KillMember, Afterwards, Kills, Group, StageFacts
        <3> QED BY <3>1
    <2>7. CASE SignalError
        BY <1>2, <2>7
    <2>8. CASE Reap
        <3>1. Kills
            BY <1>2, <2>8 DEF Reap, Kills, tree
        <3> QED BY <3>1
    <2>9. CASE Finish /\ UNCHANGED listed
        BY <1>2, <2>9
    <2> QED BY <1>2, <2>1, <2>2, <2>3, <2>4, <2>5, <2>6, <2>7, <2>8, <2>9 DEF MacMain
<1>3. ASSUME NEW s \in Stream, Readers(s) PROVE Step
    <2>1. Reads
        BY <1>3 DEF Readers, JobReaders, GroupReaders, Reads, StageFacts, Eof
    <2> QED BY <2>1
<1>4. CASE Command \/ Killed
    <2>1. Runs
        BY <1>4 DEF Command, CommandStep, Killed, Dies, Runs
    <2> QED BY <2>1
<1>5. CASE Time
    <2>1. Passes
        BY <1>5 DEF Time, Tick, Passes
    <2> QED BY <2>1
<1>6. CASE Strangers
    <2>1. Passes
        BY <1>6 DEF Strangers, StrangerEnds, Passes, wait
    <2> QED BY <2>1
<1>7. CASE Others
    <2>1. CASE Cancel /\ UNCHANGED <<stranger, listed>>
        <3>1. Passes
            BY <2>1 DEF Cancel, Passes
        <3> QED BY <3>1
    <2>2. CASE OnWindows /\ Crash /\ UNCHANGED listed
        <3>1. Kills
            BY <2>2 DEF Crash, Kills
        <3> QED BY <3>1
    <2>3. CASE OnWindows /\ Inherit /\ UNCHANGED listed
        <3>1. Passes
            BY <2>3 DEF Inherit, Passes, wait
        <3> QED BY <3>1
    <2>4. CASE ~OnWindows /\ (\E p \in Proc : Escape(p)) /\ UNCHANGED stranger
        <3>1. Leaves
            BY <2>4 DEF Leaves
        <3> QED BY <3>1
    <2> QED BY <1>7, <2>1, <2>2, <2>3, <2>4 DEF Others
<1>8. CASE Over
    BY <1>8 DEF Over
<1>9. CASE Main
    BY <1>1, <1>2, <1>9 DEF Main
<1>10. CASE \E s \in Stream : Readers(s)
    BY <1>3, <1>10
<1> QED BY <1>4, <1>5, <1>6, <1>7, <1>8, <1>9, <1>10 DEF Next

-----------------------------------------------------------------------------
LEMMA Counts ==
    ASSUME TypeOK, CaptureFacts, NEW s \in Stream
    PROVE  /\ MaxChunks \in Nat
           /\ captured[s] \in Nat /\ pipe[s] \in Nat /\ produced[s] \in Nat
           /\ produced[s] <= MaxChunks /\ captured[s] + pipe[s] = produced[s]
<1>1. MaxChunks \in Nat
    BY CaptureConstants
<1>2. captured[s] \in 0..MaxChunks /\ pipe[s] \in 0..MaxChunks /\ produced[s] \in 0..MaxChunks
    BY DEF TypeOK, CaptureTypeOK
<1>3. captured[s] + pipe[s] = produced[s]
    BY DEF CaptureFacts, OutputFacts
<1> QED BY <1>1, <1>2, <1>3

LEMMA TypesStep ==
    ASSUME TypeOK, CaptureFacts, Step, UNCHANGED request
    PROVE  TypeOK'
<1>1. CASE Starts
    BY <1>1, CaptureConstants DEF Starts, Begin, FailToStart, StartRoot,
       TypeOK, CaptureTypeOK, data, wait, tree
<1>2. CASE WaitEnds
    BY <1>2 DEF WaitEnds, EndWait, TypeOK, CaptureTypeOK, data, tree
<1>3. CASE Kills
    BY <1>3, ZenonT(60) DEF Kills, TypeOK, CaptureTypeOK, data, wait
<1>4. CASE Reads
    <2>1. PICK s \in Stream : Read(s) \/ Eof(s, TRUE) \/ Eof(s, FALSE)
        BY <1>4 DEF Reads
    <2>2. /\ captured' \in [Stream -> 0..MaxChunks] /\ pipe' \in [Stream -> 0..MaxChunks]
          /\ reader' \in [Stream -> {"reading", "eof"}]
        <3>1. CASE Read(s)
            <4>1. pipe[s] > 0
                BY <3>1 DEF Read
            <4>2. captured[s] + 1 \in 0..MaxChunks /\ pipe[s] - 1 \in 0..MaxChunks
                BY <4>1, Counts
            <4> QED BY <3>1, <4>2 DEF Read, TypeOK, CaptureTypeOK
        <3>2. CASE Eof(s, TRUE) \/ Eof(s, FALSE)
            BY <3>2 DEF Eof, TypeOK, CaptureTypeOK
        <3> QED BY <2>1, <3>1, <3>2
    <2>3. UNCHANGED <<tree, produced, wait, report, pc, stranger, listed>>
        BY <1>4 DEF Reads, Read, Eof
    <2> QED BY <2>2, <2>3, ZenonT(60) DEF TypeOK, CaptureTypeOK, tree, wait
<1>5. CASE Runs
    <2>1. PICK p \in Proc : Fork(p) \/ Close(p) \/ Write(p) \/ Ends(p)
        BY <1>5 DEF Runs
    <2>2. UNCHANGED <<wait, report, pc, stranger, listed>>
        BY <1>5 DEF Runs
    <2>3. CASE Fork(p)
        <3>1. request.procs \subseteq Proc
            BY CaptureConstants DEF TypeOK, CaptureTypeOK
        <3>2. /\ alive' \subseteq born' /\ born' \subseteq Proc /\ doomed' = doomed
              /\ holders' \subseteq alive' /\ tracked' \subseteq born'
            BY <2>3, <3>1 DEF Fork, TypeOK, CaptureTypeOK
        <3>3. UNCHANGED data
            BY <2>3 DEF Fork
        <3> QED BY <2>2, <3>2, <3>3, ZenonT(60) DEF TypeOK, CaptureTypeOK, data, wait
    <2>4. CASE Close(p)
        BY <2>2, <2>4, ZenonT(60) DEF Close, TypeOK, CaptureTypeOK, data, wait
    <2>5. CASE Write(p)
        <3>1. PICK s \in request.streams :
                  /\ produced[s] < MaxChunks
                  /\ produced' = [produced EXCEPT ![s] = @ + 1]
                  /\ pipe' = [pipe EXCEPT ![s] = @ + 1]
            BY <2>5 DEF Write
        <3>2. s \in Stream
            BY CaptureConstants DEF TypeOK, CaptureTypeOK
        <3>5. produced[s] + 1 \in 0..MaxChunks /\ pipe[s] + 1 \in 0..MaxChunks
            BY <3>1, <3>2, Counts
        <3>6. produced' \in [Stream -> 0..MaxChunks] /\ pipe' \in [Stream -> 0..MaxChunks]
            BY <3>1, <3>5 DEF TypeOK, CaptureTypeOK
        <3>7. UNCHANGED <<tree, captured, reader>>
            BY <2>5 DEF Write
        <3> QED BY <2>2, <3>6, <3>7, ZenonT(60) DEF TypeOK, CaptureTypeOK, tree, wait
    <2>6. CASE Ends(p)
        BY <2>2, <2>6, ZenonT(60) DEF Ends, TypeOK, CaptureTypeOK, data, wait
    <2> QED BY <2>1, <2>3, <2>4, <2>5, <2>6
<1>6. CASE Passes
    <2>1. elapsed' \in Nat
        <3>1. elapsed \in Nat
            BY DEF TypeOK, CaptureTypeOK
        <3> QED BY <1>6, <3>1 DEF Passes
    <2>3. cancelled' \in BOOLEAN
        BY <1>6 DEF Passes, TypeOK, CaptureTypeOK
    <2>4. stranger' \in {"no", "yes", "gone"}
        BY <1>6 DEF Passes, TypeOK, CaptureTypeOK
    <2>2. UNCHANGED <<tree, data, outcome, report, pc, listed>>
        BY <1>6 DEF Passes
    <2> QED BY <2>1, <2>2, <2>3, <2>4 DEF TypeOK, CaptureTypeOK, data, tree
<1>7. CASE Leaves
    BY <1>7 DEF Leaves, Escape, TypeOK, CaptureTypeOK, data, wait
<1>8. CASE Finishes
    BY <1>8 DEF Finishes, Finish, Exit, TypeOK, CaptureTypeOK, tree, data, wait
<1>9. CASE Fails
    BY <1>9 DEF Fails, SignalError, Group, TypeOK, CaptureTypeOK, data, wait
<1>10. CASE UNCHANGED vars
    BY <1>10, ZenonT(60) DEF vars, TypeOK, CaptureTypeOK, tree, data, wait
<1> QED BY <1>1, <1>2, <1>3, <1>4, <1>5, <1>6, <1>7, <1>8, <1>9, <1>10 DEF Step

(* The capture is where its platform has it.                               *)
LEMMA StageStep ==
    ASSUME TypeOK, CaptureFacts, Step, UNCHANGED request
    PROVE  StageFacts'
<1> USE DEF CaptureFacts, StageFacts, OnWindows
<1>1. CASE Starts
    BY <1>1 DEF Starts, Begin, FailToStart, StartRoot, tree
<1>2. CASE WaitEnds
    BY <1>2 DEF WaitEnds, EndWait, tree, OnWindows
<1>3. CASE Kills
    BY <1>3 DEF Kills, OnWindows
<1>4. CASE Reads
    BY <1>4 DEF Reads, Read, Eof, tree
<1>5. CASE Runs
    <2>1. pc' = pc /\ (born' = {} <=> born = {})
        BY <1>5 DEF Runs, Fork, Close, Write, Ends, tree, TypeOK, CaptureTypeOK
    <2> QED BY <2>1
<1>6. CASE Passes
    BY <1>6 DEF Passes, tree
<1>7. CASE Leaves
    BY <1>7 DEF Leaves, Escape
<1>8. CASE Finishes
    BY <1>8 DEF Finishes, Finish, tree
<1>9. CASE Fails
    BY <1>9 DEF Fails, SignalError, OnWindows
<1>10. CASE UNCHANGED vars
    BY <1>10 DEF vars, tree
<1> QED BY <1>1, <1>2, <1>3, <1>4, <1>5, <1>6, <1>7, <1>8, <1>9, <1>10 DEF Step

(* A report is made once, of what was collected.                           *)
LEMMA ReportStep ==
    ASSUME TypeOK, CaptureFacts, Step, UNCHANGED request
    PROVE  ReportFacts'
<1>0. NoReport.kind # "exit" /\ Failure.kind # "exit"
    BY DEF NoReport, Failure
<1> USE <1>0 DEF CaptureFacts, ReportFacts, StageFacts
<1>1. CASE Starts
    <2>1. pc = "new" /\ pc' # "new"
        BY <1>1 DEF Starts, Begin, FailToStart
    <2>2. \/ report' = report /\ pc' = "wait"
          \/ report' = Failure /\ pc' = "done"
        BY <1>1 DEF Starts, Begin, FailToStart
    <2> QED BY <2>1, <2>2
<1>2. CASE WaitEnds
    <2>1. pc = "wait" /\ report' = report
        BY <1>2 DEF WaitEnds, EndWait
    <2> QED BY <2>1
<1>3. CASE Kills
    BY <1>3 DEF Kills, Joined, data, wait
<1>4. CASE Reads
    <2>1. pc # "done" /\ report' = report
        BY <1>4 DEF Reads
    <2> QED BY <2>1
<1>5. CASE Runs
    BY <1>5 DEF Runs, Fork, Close, Write, Ends, tree, data, wait, Joined, TypeOK, CaptureTypeOK
<1>6. CASE Passes
    BY <1>6 DEF Passes, Joined, tree, data
<1>7. CASE Leaves
    BY <1>7 DEF Leaves, Escape, Joined, data, wait
<1>8. CASE Finishes
    BY <1>8 DEF Finishes, Finish, Exit, Joined, tree, data, wait
<1>9. CASE Fails
    BY <1>9 DEF Fails, SignalError
<1>10. CASE UNCHANGED vars
    BY <1>10 DEF vars, Joined, tree, data, wait
<1> QED BY <1>1, <1>2, <1>3, <1>4, <1>5, <1>6, <1>7, <1>8, <1>9, <1>10 DEF Step

(* Output is in a pipe or collected, and who has read a pipe to its end    *)
(* has seen the last process that could write go.                          *)
LEMMA OutputStep ==
    ASSUME TypeOK, CaptureFacts, Step, UNCHANGED request
    PROVE  OutputFacts'
<1>0. ASSUME NEW s \in Stream
      PROVE  /\ captured[s] + pipe[s] = produced[s]
             /\ reader[s] = "eof" => born # {} /\ holders = {} /\ pipe[s] = 0
    BY DEF CaptureFacts, OutputFacts
<1>1. CASE Starts
    <2>1. born = {} /\ UNCHANGED data
        BY <1>1 DEF Starts, Begin, FailToStart, CaptureFacts, StageFacts
    <2>2. ASSUME NEW s \in Stream PROVE reader[s] # "eof"
        BY <1>0, <2>1
    <2> QED BY <1>0, <2>1, <2>2 DEF OutputFacts, data
<1>2. CASE \/ WaitEnds \/ Kills \/ Passes \/ Leaves \/ Finishes \/ Fails \/ UNCHANGED vars
    <2>1. UNCHANGED <<born, holders, data>>
        BY <1>2 DEF WaitEnds, EndWait, Kills, Passes, Leaves, Escape, Finishes, Finish, Fails,
           SignalError, vars, tree
    <2> QED BY <1>0, <2>1 DEF OutputFacts, data
<1>3. CASE Reads
    <2>1. PICK c \in Stream : Read(c) \/ Eof(c, TRUE) \/ Eof(c, FALSE)
        BY <1>3 DEF Reads
    <2>2. UNCHANGED <<born, holders, produced>> /\ born # {}
        BY <1>3 DEF Reads, Read, Eof, tree
    <2>3. ASSUME NEW s \in Stream
          PROVE  /\ captured'[s] + pipe'[s] = produced'[s]
                 /\ reader'[s] = "eof" => born' # {} /\ holders' = {} /\ pipe'[s] = 0
        <3>1. captured[s] \in Nat /\ pipe[s] \in Nat
            BY Counts
        <3>2. CASE Read(c)
            <4>1. reader' = reader /\ reader[c] = "reading" /\ pipe[c] > 0
                BY <3>2 DEF Read
            <4>2. /\ captured'[s] = captured[s] + (IF s = c THEN 1 ELSE 0)
                  /\ pipe'[s] = pipe[s] - (IF s = c THEN 1 ELSE 0)
                <5>1. /\ captured' = [captured EXCEPT ![c] = captured[c] + 1]
                      /\ pipe' = [pipe EXCEPT ![c] = pipe[c] - 1]
                    BY <3>2 DEF Read
                <5>2. /\ captured \in [Stream -> 0..MaxChunks]
                      /\ pipe \in [Stream -> 0..MaxChunks]
                    BY DEF TypeOK, CaptureTypeOK
                <5> QED BY <3>1, <5>1, <5>2
            <4> QED BY <1>0, <2>2, <3>1, <4>1, <4>2
        <3>3. CASE Eof(c, TRUE) \/ Eof(c, FALSE)
            <4>1. /\ UNCHANGED <<captured, pipe>> /\ holders = {} /\ pipe[c] = 0
                  /\ reader' = [reader EXCEPT ![c] = "eof"]
                BY <3>3 DEF Eof
            <4> QED BY <1>0, <2>2, <4>1 DEF TypeOK, CaptureTypeOK
        <3> QED BY <2>1, <3>2, <3>3
    <2> QED BY <2>3 DEF OutputFacts
<1>4. CASE Runs
    <2>1. PICK p \in Proc : Fork(p) \/ Close(p) \/ Write(p) \/ Ends(p)
        BY <1>4 DEF Runs
    <2>2. CASE Fork(p) \/ Close(p) \/ Ends(p)
        <3>1. UNCHANGED data /\ (born # {} => born' # {}) /\ (holders = {} => holders' = {})
            BY <2>2 DEF Fork, Close, Ends
        <3> QED BY <1>0, <3>1 DEF OutputFacts, data
    <2>3. CASE Write(p)
        <3>1. PICK c \in request.streams :
                  /\ produced' = [produced EXCEPT ![c] = @ + 1]
                  /\ pipe' = [pipe EXCEPT ![c] = @ + 1]
            BY <2>3 DEF Write
        <3>2. holders # {} /\ UNCHANGED <<captured, reader>>
            BY <2>3 DEF Write
        <3>3. ASSUME NEW s \in Stream
              PROVE  captured'[s] + pipe'[s] = produced'[s] /\ reader'[s] # "eof"
            <4>1. captured[s] \in Nat /\ pipe[s] \in Nat
                BY Counts
            <4>2. /\ produced'[s] = produced[s] + (IF s = c THEN 1 ELSE 0)
                  /\ pipe'[s] = pipe[s] + (IF s = c THEN 1 ELSE 0)
                <5>1. produced \in [Stream -> 0..MaxChunks] /\ pipe \in [Stream -> 0..MaxChunks]
                    BY DEF TypeOK, CaptureTypeOK
                <5>2. produced[s] \in Nat
                    BY Counts
                <5> QED BY <3>1, <4>1, <5>1, <5>2
            <4> QED BY <1>0, <3>2, <4>1, <4>2
        <3> QED BY <3>3 DEF OutputFacts
    <2> QED BY <2>1, <2>2, <2>3
<1> QED BY <1>1, <1>2, <1>3, <1>4 DEF Step

(* What comes to be is tracked where its parent is, and what is tracked    *)
(* when the capture comes to an end is being killed; what is being killed  *)
(* starts nothing.                                                         *)
LEMMA TreeStep ==
    ASSUME TypeOK, CaptureFacts, Step, UNCHANGED request
    PROVE  TreeFacts'
<1> DEFINE Over1 == OnWindows /\ pc \in {"join", "done", "dead"}
           Over2 == /\ ~OnWindows /\ "members" \notin request.trouble
                    /\ pc \in {"reap", "join"} \/ (pc = "done" /\ report # Failure)
<1>0. /\ OnWindows => alive \subseteq tracked
      /\ Over1 => alive \subseteq doomed
      /\ Over2 => Group \subseteq doomed
      /\ OnWindows' = OnWindows /\ alive \subseteq born /\ tracked \subseteq born
    BY DEF CaptureFacts, TreeFacts, OnWindows, TypeOK, CaptureTypeOK
<1>1. CASE Starts
    <2>1. CASE Begin
        BY <1>0, <2>1 DEF Begin, StartRoot, TreeFacts
    <2>2. CASE FailToStart
        <3>1. alive = {} /\ UNCHANGED tree
            BY <1>0, <2>2 DEF FailToStart, CaptureFacts, StageFacts
        <3>2. alive' \subseteq tracked' /\ alive' \subseteq doomed' /\ Group' \subseteq doomed'
            BY <3>1 DEF tree, Group
        <3> QED BY <3>2 DEF TreeFacts
    <2> QED BY <1>1, <2>1, <2>2 DEF Starts
<1>2. CASE WaitEnds
    <2>1. UNCHANGED tree /\ pc' \in {"ended", "term"}
        BY <1>2 DEF WaitEnds, EndWait
    <2> QED BY <1>0, <2>1 DEF TreeFacts, tree
<1>3. CASE Kills
    <2>1. /\ UNCHANGED <<alive, tracked, report>> /\ doomed \subseteq doomed' /\ Group' = Group
        BY <1>3 DEF Kills, Group
    <2>2. CASE OnWindows
        BY <1>0, <1>3, <2>1, <2>2 DEF Kills, TreeFacts
    <2>3. CASE ~OnWindows
        BY <1>0, <1>3, <2>1, <2>3 DEF Kills, TreeFacts
    <2> QED BY <2>2, <2>3
<1>4. CASE Reads \/ Passes \/ UNCHANGED vars
    <2>1. UNCHANGED <<alive, tracked, doomed, pc, report>> /\ Group' = Group
        BY <1>4 DEF Reads, Read, Eof, Passes, vars, tree, Group
    <2> QED BY <1>0, <2>1 DEF TreeFacts
<1>5. CASE Runs
    <2>1. PICK p \in Proc : Fork(p) \/ Close(p) \/ Write(p) \/ Ends(p)
        BY <1>5 DEF Runs
    <2>2. UNCHANGED <<pc, report>>
        BY <1>5 DEF Runs
    <2>3. CASE Close(p) \/ Write(p) \/ Ends(p)
        <3>1. alive' \subseteq alive /\ UNCHANGED <<tracked, doomed>> /\ Group' \subseteq Group
            BY <2>3 DEF Close, Write, Ends, tree, Group
        <3> QED BY <1>0, <2>2, <3>1 DEF TreeFacts
    <2>4. CASE Fork(p)
        <3>1. PICK q \in request.procs \ born :
                  /\ alive' = alive \cup {q}
                  /\ tracked' = IF p \in tracked THEN tracked \cup {q} ELSE tracked
            BY <2>4 DEF Fork
        <3>2. p \in alive /\ p \notin doomed /\ doomed' = doomed
            BY <2>4 DEF Fork
        <3>3. OnWindows => alive' \subseteq tracked'
            BY <1>0, <3>1, <3>2
        <3>4. ~Over1
            BY <1>0, <3>2
        <3>5. Over2 => Group' \subseteq doomed'
            BY <1>0, <3>1, <3>2 DEF Group
        <3> QED BY <1>0, <2>2, <3>3, <3>4, <3>5 DEF TreeFacts
    <2> QED BY <2>1, <2>3, <2>4
<1>6. CASE Leaves
    <2>1. UNCHANGED <<alive, doomed, pc, report>> /\ ~OnWindows /\ Group' \subseteq Group
        BY <1>6 DEF Leaves, Escape, Group
    <2> QED BY <1>0, <2>1 DEF TreeFacts
<1>7. CASE Finishes
    <2>1. UNCHANGED <<alive, tracked, doomed>> /\ Group' = Group /\ pc = "join" /\ pc' = "done"
        BY <1>7 DEF Finishes, Finish, tree, Group
    <2> QED BY <1>0, <2>1 DEF TreeFacts
<1>8. CASE Fails
    <2>1. UNCHANGED <<alive, tracked>> /\ ~OnWindows /\ pc' = "done" /\ report' = Failure
        BY <1>8 DEF Fails, SignalError
    <2> QED BY <1>0, <2>1 DEF TreeFacts, Failure
<1> QED BY <1>1, <1>2, <1>3, <1>4, <1>5, <1>6, <1>7, <1>8 DEF Step

(* A wait that has timed out has lasted as long as it was to.              *)
LEMMA TimeStep ==
    ASSUME TypeOK, CaptureFacts, Step, UNCHANGED request
    PROVE  TimeFacts'
<1>0. /\ outcome = "timed out" => request.timeout # None /\ (Counted => elapsed >= request.timeout)
      /\ Counted' = Counted /\ OnWindows' = OnWindows /\ elapsed \in Nat
    BY DEF CaptureFacts, TimeFacts, Counted, OnWindows, TypeOK, CaptureTypeOK
<1>1. CASE WaitEnds
    <2>1. SUFFICES ASSUME outcome' = "timed out"
                   PROVE  request.timeout # None /\ (Counted => elapsed' >= request.timeout)
        BY <1>0 DEF TimeFacts
    <2>2. elapsed' = elapsed
        BY <1>1 DEF WaitEnds, EndWait
    <2>3. request \in Requests
        BY DEF TypeOK, CaptureTypeOK
    <2>4. IF OnWindows THEN Expired ELSE request.timeout # None /\ elapsed >= request.timeout
        BY <1>1, <2>1 DEF WaitEnds, EndWait
    <2>5. CASE OnWindows
        <3>1. /\ request.timeout # None /\ elapsed >= Waits
              /\ Counted => request.token \/ request.timeout < Wrap - 1
            BY <2>1, <2>4, <2>5 DEF Expired, Endless, Counted, Infinite
        <3>2. request.timeout \in Nat
            BY <2>3, <3>1, CaptureConstants
        <3>3. request.timeout < Wrap - 1 => request.timeout % Wrap = request.timeout
            BY <3>2, WindowsConstants
        <3>4. Counted => Waits = request.timeout
            BY <3>1, <3>3 DEF Waits
        <3> QED BY <2>2, <3>1, <3>4
    <2> QED BY <2>2, <2>4, <2>5
<1>2. CASE Passes
    <2>1. outcome' = outcome
        BY <1>2 DEF Passes
    <2>2. elapsed' \in Nat /\ elapsed' >= elapsed
        <3>1. elapsed' \in {elapsed, elapsed + 1}
            BY <1>2 DEF Passes
        <3>2. elapsed \in Nat
            BY <1>0
        <3> QED BY <3>1, <3>2
    <2>3. ASSUME outcome = "timed out", Counted PROVE elapsed' >= request.timeout
        <3>1. request.timeout \in Nat /\ elapsed >= request.timeout
            BY <1>0, <2>3, CaptureConstants DEF TypeOK, CaptureTypeOK
        <3>2. elapsed \in Nat
            BY <1>0
        <3> QED BY <2>2, <3>1, <3>2
    <2> QED BY <1>0, <2>1, <2>3 DEF TimeFacts
<1>3. CASE \/ Starts \/ Kills \/ Reads \/ Runs \/ Leaves \/ Finishes \/ Fails \/ UNCHANGED vars
    <2>1. UNCHANGED wait
        BY <1>3 DEF Starts, Begin, FailToStart, Kills, Reads, Runs, Leaves, Escape, Finishes,
           Finish, Fails, SignalError, vars
    <2> QED BY <1>0, <2>1 DEF TimeFacts, wait
<1> QED BY <1>1, <1>2, <1>3 DEF Step

LEMMA InitFacts ==
    ASSUME Init
    PROVE  TypeOK /\ CaptureFacts
<1> USE DEF Init, CaptureInit
<1>1. TypeOK
    <2>1. [s \in Stream |-> 0] \in [Stream -> 0..MaxChunks]
        BY CaptureConstants
    <2>2. [s \in Stream |-> "reading"] \in [Stream -> {"reading", "eof"}]
        OBVIOUS
    <2> QED BY <2>1, <2>2 DEF TypeOK, CaptureTypeOK
<1>2. StageFacts /\ TimeFacts
    BY DEF StageFacts, TimeFacts
<1>3. ReportFacts
    BY DEF ReportFacts, NoReport
<1>4. OutputFacts
    BY DEF OutputFacts
<1>5. TreeFacts
    BY DEF TreeFacts, Group
<1> QED BY <1>1, <1>2, <1>3, <1>4, <1>5 DEF CaptureFacts

(* Types, and what a capture's properties rest on, hold in every state.    *)
THEOREM CaptureInvariant == Spec => [](TypeOK /\ CaptureFacts)
<1>1. Init => TypeOK /\ CaptureFacts
    BY InitFacts
<1>2. TypeOK /\ CaptureFacts /\ [Next /\ UNCHANGED request]_<<vars, request>>
      => TypeOK' /\ CaptureFacts'
    <2>1. SUFFICES ASSUME TypeOK, CaptureFacts, [Next /\ UNCHANGED request]_<<vars, request>>
                   PROVE  TypeOK' /\ CaptureFacts'
        OBVIOUS
    <2>2. Step /\ UNCHANGED request
        BY <2>1, Steps DEF Step, CaptureFacts
    <2> QED BY <2>1, <2>2, TypesStep, StageStep, ReportStep, OutputStep, TreeStep, TimeStep
            DEF CaptureFacts
<1> QED BY <1>1, <1>2, PTL DEF Spec

(* When the readers are done all output has been collected.                *)
LEMMA AllCollected ==
    ASSUME TypeOK, CaptureFacts, Joined
    PROVE  captured = produced /\ holders = {}
<1>1. ASSUME NEW s \in Stream PROVE captured[s] = produced[s] /\ holders = {}
    <2>1. reader[s] = "eof"
        BY DEF Joined
    <2>2. pipe[s] = 0 /\ holders = {}
        BY <2>1 DEF CaptureFacts, OutputFacts
    <2> QED BY <2>2, Counts
<1>2. captured \in [Stream -> 0..MaxChunks] /\ produced \in [Stream -> 0..MaxChunks]
    BY DEF TypeOK, CaptureTypeOK
<1> QED BY <1>1, <1>2, CaptureConstants

(* A capture of either platform leaves nothing running that it could       *)
(* track, and reports time and output truly, whatever the processes of the *)
(* command, those that inherit its pipes and the caller do.                *)
THEOREM CaptureSafety == Spec => []CaptureInv
<1>1. TypeOK /\ CaptureFacts => CaptureInv
    <2>1. SUFFICES ASSUME TypeOK, CaptureFacts PROVE CaptureInv
        OBVIOUS
    <2>2. TreeTerminated /\ NoSurvivors
        BY <2>1 DEF CaptureFacts, TreeFacts, TreeTerminated, NoSurvivors
    <2>3. TimeoutInTime
        BY <2>1 DEF CaptureFacts, ReportFacts, TimeFacts, TimeoutInTime
    <2>4. OutputComplete
        BY <2>1, AllCollected DEF CaptureFacts, ReportFacts, OutputComplete
    <2> QED BY <2>1, <2>2, <2>3, <2>4 DEF CaptureInv
<1> QED BY <1>1, CaptureInvariant, PTL

-----------------------------------------------------------------------------
(* The steps as CommandRun has them.                                       *)
LEMMA StepImplements ==
    ASSUME TypeOK, CaptureFacts, Step
    PROVE  Abstract!Next \/ UNCHANGED <<Phase, produced, report>>
<1>0. holders \subseteq alive /\ alive \subseteq born
    BY DEF TypeOK, CaptureTypeOK
<1> USE DEF Phase
<1>1. CASE Starts
    <2>1. pc = "new" /\ born = {} /\ report = NoReport
        BY <1>1 DEF Starts, Begin, FailToStart, CaptureFacts, StageFacts, ReportFacts
    <2>2. CASE Begin
        <3>1. Abstract!Start
            BY <2>1, <2>2 DEF Abstract!Start, Begin, StartRoot, data
        <3> QED BY <3>1 DEF Abstract!Next
    <2>3. CASE FailToStart
        <3>1. Abstract!ReportFailure
            BY <2>1, <2>3 DEF Abstract!ReportFailure, Abstract!NoReport, Abstract!Failure,
               FailToStart, NoReport, Failure, tree, data
        <3> QED BY <3>1 DEF Abstract!Next
    <2> QED BY <1>1, <2>2, <2>3 DEF Starts
<1>2. CASE \/ WaitEnds \/ Kills \/ Passes \/ Leaves \/ Reads \/ UNCHANGED vars
    BY <1>2 DEF WaitEnds, EndWait, Kills, Passes, Leaves, Escape, Reads, Read, Eof, vars, tree, data
<1>3. CASE Runs
    <2>1. PICK p \in Proc : Fork(p) \/ Close(p) \/ Write(p) \/ Ends(p)
        BY <1>3 DEF Runs
    <2>2. report' = report
        BY <1>3 DEF Runs
    <2>3. CASE Fork(p) \/ Close(p) \/ Ends(p)
        <3>1. /\ produced' = produced /\ (holders = {} => holders' = {})
              /\ born = {} <=> born' = {}
            BY <1>0, <2>3 DEF Fork, Close, Ends, data
        <3>2. UNCHANGED <<Phase, produced, report>> \/ Abstract!End
            BY <2>2, <3>1 DEF Abstract!End
        <3> QED BY <3>2 DEF Abstract!Next
    <2>4. CASE Write(p)
        <3>1. PICK s \in request.streams : produced' = [produced EXCEPT ![s] = @ + 1]
            BY <2>4 DEF Write
        <3>2. s \in Stream
            BY CaptureConstants DEF TypeOK, CaptureTypeOK
        <3>3. Phase = "running" /\ Phase' = Phase
            BY <1>0, <2>4 DEF Write, tree
        <3>4. Abstract!Produce(s)
            BY <2>2, <3>1, <3>3 DEF Abstract!Produce
        <3> QED BY <3>2, <3>4 DEF Abstract!Next
    <2> QED BY <2>1, <2>3, <2>4
<1>4. CASE Finishes
    <2>1. /\ pc = "join" /\ Joined /\ report' = Exit(outcome = "timed out")
          /\ UNCHANGED <<tree, data>>
        BY <1>4 DEF Finishes, Finish
    <2>2. born # {} /\ report = NoReport
        BY <2>1 DEF CaptureFacts, StageFacts, ReportFacts
    <2>3. captured = produced /\ holders = {}
        BY <2>1, AllCollected
    <2>4. Phase = "ended" /\ UNCHANGED <<Phase, produced>>
        BY <2>1, <2>2, <2>3 DEF tree, data
    <2>5. CASE outcome = "timed out"
        <3>1. report' = Abstract!Exit(TRUE, produced)
            BY <2>1, <2>3, <2>5 DEF Abstract!Exit, Exit
        <3>2. \A s \in Stream : produced[s] <= produced[s]
            BY Counts
        <3>3. Abstract!ReportTimeout
            BY <2>2, <2>4, <3>1, <3>2 DEF Abstract!ReportTimeout, Abstract!Exit,
               Abstract!NoReport, NoReport
        <3> QED BY <3>3 DEF Abstract!Next
    <2>6. CASE outcome # "timed out"
        <3>1. report' = Abstract!Exit(FALSE, produced)
            BY <2>1, <2>3, <2>6 DEF Abstract!Exit, Exit
        <3>2. Abstract!ReportExit
            BY <2>2, <2>4, <3>1 DEF Abstract!ReportExit, Abstract!NoReport, NoReport
        <3> QED BY <3>2 DEF Abstract!Next
    <2> QED BY <2>5, <2>6
<1>5. CASE Fails
    <2>1. /\ report = NoReport /\ report' = Failure /\ UNCHANGED <<Phase, produced>>
        BY <1>5 DEF Fails, SignalError, CaptureFacts, ReportFacts, data
    <2>2. Abstract!ReportFailure
        BY <2>1 DEF Abstract!ReportFailure, Abstract!NoReport, Abstract!Failure, NoReport, Failure
    <2> QED BY <2>2 DEF Abstract!Next
<1> QED BY <1>1, <1>2, <1>3, <1>4, <1>5 DEF Step

(* A capture of either platform is a run of a command as CommandRun has    *)
(* it: its command starts once at most, and an exit is reported with all   *)
(* the output, when nobody is left that could write more.                  *)
THEOREM CaptureRefinement == Spec => ImplementsCommandRun
<1>1. Init => Abstract!Init
    BY DEF Init, CaptureInit, Abstract!Init, Phase, Abstract!NoReport, NoReport
<1>2. TypeOK /\ CaptureFacts /\ [Next /\ UNCHANGED request]_<<vars, request>>
      => [Abstract!Next]_(Abstract!vars)
    <2>1. SUFFICES ASSUME TypeOK, CaptureFacts, [Next /\ UNCHANGED request]_<<vars, request>>
                   PROVE  [Abstract!Next]_(Abstract!vars)
        OBVIOUS
    <2>2. Step
        BY <2>1, Steps DEF Step, CaptureFacts
    <2> QED BY <2>1, <2>2, StepImplements DEF Abstract!vars
<1> QED BY <1>1, <1>2, CaptureInvariant, PTL DEF Spec, ImplementsCommandRun, Abstract!Spec

-----------------------------------------------------------------------------
Path == Seq(STRING)

(* A prefix, name by name.                                                 *)
LEMMA WithinMeans ==
    ASSUME NEW p \in Path, NEW dir \in Path
    PROVE  Within(p, dir) <=> Len(dir) <= Len(p) /\ \A i \in 1..Len(dir) : p[i] = dir[i]
<1>1. CASE Len(dir) <= Len(p)
  <2>1. /\ SubSeq(dir, 1, Len(dir)) \in Path /\ SubSeq(p, 1, Len(dir)) \in Path
        /\ Len(SubSeq(dir, 1, Len(dir))) = Len(dir) /\ Len(SubSeq(p, 1, Len(dir))) = Len(dir)
        /\ \A i \in 1..Len(dir) : SubSeq(dir, 1, Len(dir))[i] = dir[i] /\ SubSeq(p, 1, Len(dir))[i] = p[i]
    BY <1>1 DEF Path
  <2>2. (SubSeq(dir, 1, Len(dir)) = SubSeq(p, 1, Len(dir)))
          <=> \A i \in 1..Len(dir) : SubSeq(dir, 1, Len(dir))[i] = SubSeq(p, 1, Len(dir))[i]
    BY <2>1 DEF Path
  <2> QED BY <1>1, <2>1, <2>2 DEF Within, IsPrefix
<1>2. CASE ~(Len(dir) <= Len(p))  BY <1>2 DEF Within, IsPrefix
<1> QED BY <1>1, <1>2

(* What lies around a path lies around one another; what lies in a path    *)
(* lies in all around it.                                                  *)
LEMMA WithinOrder ==
    ASSUME NEW p \in Path, NEW a \in Path, NEW b \in Path
    PROVE  /\ Within(p, p)
           /\ Within(p, a) /\ Within(a, b) => Within(p, b)
           /\ Within(p, a) /\ Within(p, b) => Within(a, b) \/ Within(b, a)
           /\ Within(p, a) /\ Within(a, p) => a = p
<1>1. Within(p, p)  BY WithinMeans
<1>2. Within(p, a) /\ Within(a, b) => Within(p, b)
  <2> SUFFICES ASSUME Within(p, a), Within(a, b) PROVE Within(p, b)
    OBVIOUS
  <2>1. /\ Len(a) <= Len(p) /\ Len(b) <= Len(a) /\ Len(p) \in Nat /\ Len(a) \in Nat /\ Len(b) \in Nat
        /\ \A i \in 1..Len(a) : p[i] = a[i]
        /\ \A i \in 1..Len(b) : a[i] = b[i]
    <3>1. Len(p) \in Nat /\ Len(a) \in Nat /\ Len(b) \in Nat
      BY DEF Path
    <3> QED BY <3>1, WithinMeans
  <2> QED BY <2>1, WithinMeans
<1>3. Within(p, a) /\ Within(p, b) => Within(a, b) \/ Within(b, a)
  <2> SUFFICES ASSUME Within(p, a), Within(p, b) PROVE Within(a, b) \/ Within(b, a)
    OBVIOUS
  <2>1. /\ Len(a) <= Len(p) /\ Len(b) <= Len(p) /\ Len(p) \in Nat /\ Len(a) \in Nat /\ Len(b) \in Nat
        /\ \A i \in 1..Len(a) : p[i] = a[i]
        /\ \A i \in 1..Len(b) : p[i] = b[i]
    <3>1. Len(p) \in Nat /\ Len(a) \in Nat /\ Len(b) \in Nat
      BY DEF Path
    <3> QED BY <3>1, WithinMeans
  <2>2. CASE Len(a) <= Len(b)  BY <2>1, <2>2, WithinMeans
  <2>3. CASE Len(b) <= Len(a)  BY <2>1, <2>3, WithinMeans
  <2> QED BY <2>1, <2>2, <2>3
<1>4. Within(p, a) /\ Within(a, p) => a = p
  <2> SUFFICES ASSUME Within(p, a), Within(a, p) PROVE a = p
    OBVIOUS
  <2>1. /\ Len(a) <= Len(p) /\ \A i \in 1..Len(a) : p[i] = a[i]
    BY WithinMeans
  <2>2. Len(p) <= Len(a)
    BY WithinMeans
  <2> QED BY <2>1, <2>2 DEF Path
<1> QED BY <1>1, <1>2, <1>3, <1>4

(* What a proper part of a path is.                                        *)
LEMMA ProperPart ==
    ASSUME NEW p \in Path, NEW dir \in Path, Within(p, dir), p # dir
    PROVE  Len(dir) < Len(p) /\ Len(dir) \in Nat /\ dir = SubSeq(p, 1, Len(dir))
<1>1. /\ Len(dir) <= Len(p) /\ Len(p) \in Nat /\ Len(dir) \in Nat
      /\ \A i \in 1..Len(dir) : p[i] = dir[i]
  BY WithinMeans DEF Path
<1>2. Len(dir) # Len(p)
  BY <1>1 DEF Path
<1>3. dir = SubSeq(p, 1, Len(dir))
  <2>1. /\ SubSeq(p, 1, Len(dir)) \in Path /\ Len(SubSeq(p, 1, Len(dir))) = Len(dir)
        /\ \A i \in 1..Len(dir) : SubSeq(p, 1, Len(dir))[i] = p[i]
    BY <1>1 DEF Path
  <2> QED BY <1>1, <2>1 DEF Path
<1> QED BY <1>1, <1>2, <1>3

LEMMA PartOfPath ==
    ASSUME NEW p \in Path, NEW n \in 0..Len(p)
    PROVE  /\ SubSeq(p, 1, n) \in Path /\ Len(SubSeq(p, 1, n)) = n
           /\ Within(p, SubSeq(p, 1, n))
           /\ \A i \in 1..n : SubSeq(p, 1, n)[i] = p[i]
<1> DEFINE q == SubSeq(p, 1, n)
<1>1. q \in Path /\ Len(q) = n /\ \A i \in 1..n : q[i] = p[i]
  BY DEF Path
<1>2. n <= Len(p)
  BY DEF Path
<1> HIDE DEF q
<1>3. Within(p, q)
  BY <1>1, <1>2, WithinMeans
<1> QED BY <1>1, <1>3 DEF q

LEMMA ParentPart ==
    ASSUME NEW p \in Path, Len(p) > 1
    PROVE  Parent(p) = SubSeq(p, 1, Len(p) - 1) /\ Len(p) - 1 \in 1..Len(p)
BY DEF Parent, Front, Path

(* What an appended name leaves.                                           *)
LEMMA AppendedPart ==
    ASSUME NEW r \in Path, NEW m \in STRING
    PROVE  /\ Append(r, m) \in Path /\ Within(Append(r, m), r) /\ ~Within(r, Append(r, m))
           /\ \A p \in Path : Within(Append(r, m), p) => p = Append(r, m) \/ Within(r, p)
<1> DEFINE q == Append(r, m)
<1>1. /\ q \in Path /\ Len(q) = Len(r) + 1 /\ Len(r) \in Nat
      /\ \A i \in 1..Len(r) : q[i] = r[i]
  BY AppendProperties DEF Path
<1> HIDE DEF q
<1>3. Within(q, r) /\ ~Within(r, q)
  BY <1>1, WithinMeans
<1>4. ASSUME NEW p \in Path, Within(q, p)
      PROVE  p = q \/ Within(r, p)
  <2>1. Len(p) <= Len(q) /\ \A i \in 1..Len(p) : q[i] = p[i]
    BY <1>4, <1>1, WithinMeans
  <2>2. Len(p) \in Nat
    BY DEF Path
  <2>3. CASE Len(p) = Len(r) + 1  BY <1>1, <2>1, <2>3 DEF Path
  <2>4. CASE Len(p) <= Len(r)     BY <1>1, <2>1, <2>2, <2>4, WithinMeans
  <2> QED BY <1>1, <2>1, <2>2, <2>3, <2>4
<1> QED BY <1>1, <1>3, <1>4 DEF q

-----------------------------------------------------------------------------
(* The disk. *)

DiskOK == place \in [Objects -> Paths \cup {Absent}] /\ Standing(place)

LEMMA PathsArePaths ==
    ASSUME NEW p \in Paths
    PROVE  p \in Path /\ p # Absent /\ p # <<>> /\ Len(p) \in Nat /\ Len(p) >= 1
<1>1. p \in Path /\ p # Absent /\ p # <<>>
  BY PathsAssumption DEF Path
<1> QED BY <1>1 DEF Path

LEMMA PlaceIsPath ==
    ASSUME DiskOK, NEW o \in Objects, place[o] # Absent
    PROVE  /\ place[o] \in Paths /\ place[o] \in Path
           /\ Len(place[o]) \in Nat /\ Len(place[o]) >= 1
BY PathsArePaths DEF DiskOK

(* Above what is on the disk are directories.                              *)
LEMMA AboveIsDir ==
    ASSUME DiskOK, NEW o \in Objects, place[o] # Absent,
           NEW d \in Path, d # <<>>, Within(place[o], d), d # place[o]
    PROVE  \E x \in Objects : place[x] = d /\ Kind[x] = "dir"
<1>1. place[o] \in Path  BY PlaceIsPath
<1>2. Len(d) < Len(place[o]) /\ Len(d) \in Nat /\ d = SubSeq(place[o], 1, Len(d))
  BY <1>1, ProperPart
<1>3. Len(d) >= 1  BY <1>2 DEF Path
<1>4. Len(d) \in 1..Len(place[o]) - 1  BY <1>1, <1>2, <1>3 DEF Path
<1> QED BY <1>2, <1>4 DEF DiskOK, Standing

(* So it is above what can be made.                                        *)
LEMMA AboveFreeIsDir ==
    ASSUME DiskOK, NEW p \in FreePlaces, NEW d \in Path, d # <<>>, Within(p, d), d # p
    PROVE  \E x \in Objects : place[x] = d /\ Kind[x] = "dir"
<1>1. p \in Paths /\ Len(p) > 1 /\ IsDir(Parent(p)) /\ p \in Path
  BY PathsArePaths DEF FreePlaces
<1> DEFINE up == Parent(p)
<1>2. PICK x \in Objects : place[x] = up /\ Kind[x] = "dir"
  BY <1>1 DEF IsDir, At
<1>3. Len(d) < Len(p) /\ Len(d) \in Nat /\ Len(p) \in Nat
  BY <1>1, ProperPart DEF Path
<1>4. /\ up \in Path /\ Len(up) = Len(p) - 1 /\ up # Absent
      /\ \A i \in 1..Len(p) - 1 : up[i] = p[i]
  <2>1. up = SubSeq(p, 1, Len(p) - 1)  BY <1>1, ParentPart
  <2>2. Len(p) - 1 \in 0..Len(p) /\ Len(p) - 1 \in 1..Len(p)  BY <1>1, <1>3
  <2>3. SubSeq(p, 1, Len(p) - 1) \in Paths  BY <1>1, <2>2, PathsAssumption
  <2> QED BY <1>1, <2>1, <2>2, <2>3, PartOfPath, PathsArePaths
<1> HIDE DEF up
<1>5. Within(up, d)
  <2>1. \A i \in 1..Len(d) : p[i] = d[i]  BY <1>1, WithinMeans
  <2> QED BY <1>3, <1>4, <2>1, WithinMeans
<1>6. CASE up = d  BY <1>2, <1>6
<1>7. CASE up # d
  <2> QED BY <1>2, <1>4, <1>5, <1>7, AboveIsDir
<1> QED BY <1>6, <1>7

LEMMA PutStands ==
    ASSUME DiskOK, NEW o \in Objects, place[o] = Absent, NEW p \in FreePlaces,
           place' = [place EXCEPT ![o] = p]
    PROVE  DiskOK'
<1>1. p \in Paths /\ p \in Path /\ p # Absent /\ Len(p) \in Nat /\ At(p) = {}
  BY PathsArePaths DEF FreePlaces, Missing
<1>2. /\ place' \in [Objects -> Paths \cup {Absent}]
      /\ place'[o] = p /\ \A x \in Objects \ {o} : place'[x] = place[x]
  BY <1>1 DEF DiskOK
<1>3. \A x \in Objects : place[x] # p
  BY <1>1 DEF At
<1>4. ASSUME NEW a \in Objects, place'[a] # Absent
      PROVE  /\ \A x \in Objects : place'[x] = place'[a] => x = a
             /\ \A n \in 1..Len(place'[a]) - 1 :
                  \E x \in Objects : place'[x] = SubSeq(place'[a], 1, n) /\ Kind[x] = "dir"
  <2>1. ASSUME NEW x \in Objects, place'[x] = place'[a] PROVE x = a
    BY <1>2, <1>3, <1>4, <2>1 DEF DiskOK, Standing
  <2>2. ASSUME NEW n \in 1..Len(place'[a]) - 1
        PROVE  \E x \in Objects : place'[x] = SubSeq(place'[a], 1, n) /\ Kind[x] = "dir"
    <3>1. place'[a] \in Paths /\ place'[a] \in Path /\ Len(place'[a]) \in Nat
      BY <1>2, <1>4, PathsArePaths
    <3>2. /\ SubSeq(place'[a], 1, n) \in Path /\ Len(SubSeq(place'[a], 1, n)) = n
          /\ Within(place'[a], SubSeq(place'[a], 1, n))
      BY <3>1, PartOfPath
    <3>3. SubSeq(place'[a], 1, n) # <<>> /\ SubSeq(place'[a], 1, n) # place'[a]
      BY <3>1, <3>2
    <3>4. \E x \in Objects : place[x] = SubSeq(place'[a], 1, n) /\ Kind[x] = "dir"
      <4>1. CASE a = o   BY <1>2, <3>2, <3>3, <4>1, AboveFreeIsDir
      <4>2. CASE a # o
        <5>1. place'[a] = place[a] /\ place[a] # Absent  BY <1>2, <1>4, <4>2
        <5> QED BY <3>2, <3>3, <5>1, AboveIsDir
      <4> QED BY <4>1, <4>2
    <3>5. SubSeq(place'[a], 1, n) # Absent
      <4>1. n \in 1..Len(place'[a])  BY <3>1
      <4> QED BY <3>1, <4>1, PathsAssumption
    <3> QED BY <1>2, <3>4, <3>5
  <2> QED BY <2>1, <2>2
<1> QED BY <1>2, <1>4 DEF DiskOK, Standing

LEMMA UnlinkStands ==
    ASSUME DiskOK, NEW o \in Objects, Unlink(o)
    PROVE  DiskOK'
<1>1. place[o] # Absent /\ Below(o) = {o} /\ place' = [place EXCEPT ![o] = Absent]
  BY DEF Unlink
<1>2. /\ place' \in [Objects -> Paths \cup {Absent}]
      /\ place'[o] = Absent /\ \A x \in Objects \ {o} : place'[x] = place[x]
  BY <1>1 DEF DiskOK
<1>3. ASSUME NEW a \in Objects, place'[a] # Absent
      PROVE  /\ \A x \in Objects : place'[x] = place'[a] => x = a
             /\ \A n \in 1..Len(place'[a]) - 1 :
                  \E x \in Objects : place'[x] = SubSeq(place'[a], 1, n) /\ Kind[x] = "dir"
  <2>1. a # o /\ place'[a] = place[a]  BY <1>2, <1>3
  <2>2. ASSUME NEW x \in Objects, place'[x] = place'[a] PROVE x = a
    BY <1>2, <1>3, <2>1, <2>2 DEF DiskOK, Standing
  <2>3. ASSUME NEW n \in 1..Len(place[a]) - 1
        PROVE  \E x \in Objects : place'[x] = SubSeq(place[a], 1, n) /\ Kind[x] = "dir"
    <3>1. PICK x \in Objects : place[x] = SubSeq(place[a], 1, n) /\ Kind[x] = "dir"
      BY <1>3, <2>1 DEF DiskOK, Standing
    <3>2. place[a] \in Path /\ Len(place[a]) \in Nat
      BY <1>3, <2>1, PlaceIsPath
    <3>3. Within(place[a], place[x])
      <4>1. n \in 0..Len(place[a])  BY <3>2
      <4> QED BY <3>1, <3>2, <4>1, PartOfPath
    <3>4. x # o
      BY <1>1, <1>3, <2>1, <3>3 DEF Below
    <3> QED BY <1>2, <3>1, <3>4
  <2> QED BY <2>1, <2>2, <2>3
<1> QED BY <1>2, <1>3 DEF DiskOK, Standing

(* Where what lies in a renamed directory comes to lie.                    *)
MovedTo(px, po, p) == p \o SubSeq(px, Len(po) + 1, Len(px))

LEMMA MovedPath ==
    ASSUME NEW px \in Path, NEW po \in Path, NEW p \in Path, Within(px, po)
    PROVE  /\ MovedTo(px, po, p) \in Path
           /\ Len(MovedTo(px, po, p)) = Len(p) + Len(px) - Len(po)
           /\ \A i \in 1..Len(p) : MovedTo(px, po, p)[i] = p[i]
           /\ \A i \in 1..Len(px) - Len(po) : MovedTo(px, po, p)[Len(p) + i] = px[Len(po) + i]
           /\ Within(MovedTo(px, po, p), p)
<1> DEFINE rest == SubSeq(px, Len(po) + 1, Len(px))
<1>1. Len(px) \in Nat /\ Len(po) \in Nat /\ Len(p) \in Nat /\ Len(po) <= Len(px)
  <2>1. Len(px) \in Nat /\ Len(po) \in Nat /\ Len(p) \in Nat  BY DEF Path
  <2> QED BY <2>1, WithinMeans
<1>2. /\ rest \in Path /\ Len(rest) = Len(px) - Len(po)
      /\ \A i \in 1..Len(rest) : rest[i] = px[Len(po) + i]
  BY <1>1, SubSeqProperties DEF Path
<1> HIDE DEF rest
<1> DEFINE q == p \o rest
<1>3. /\ q \in Path /\ Len(q) = Len(p) + Len(rest)
      /\ \A i \in 1..Len(p) + Len(rest) : q[i] = IF i <= Len(p) THEN p[i] ELSE rest[i - Len(p)]
  <2>1. p \in Seq(STRING) /\ rest \in Seq(STRING)  BY <1>2 DEF Path
  <2> HIDE DEF q
  <2>2. q = p \o rest  BY DEF q
  <2> QED BY <2>1, <2>2, ConcatProperties DEF Path
<1> HIDE DEF q
<1>4. \A i \in 1..Len(p) : q[i] = p[i]
  <2>1. \A i \in 1..Len(p) : i \in 1..Len(p) + Len(rest) /\ i <= Len(p)
    BY <1>1, <1>2
  <2> QED BY <1>3, <2>1
<1>5. ASSUME NEW i \in 1..Len(px) - Len(po) PROVE q[Len(p) + i] = px[Len(po) + i]
  <2>1. Len(p) + i \in 1..Len(p) + Len(rest) /\ ~(Len(p) + i <= Len(p)) /\ Len(p) + i - Len(p) = i /\ i \in 1..Len(rest)
    BY <1>1, <1>2, <1>3
  <2> QED BY <1>2, <1>3, <2>1
<1>6. Within(q, p)
  BY <1>1, <1>2, <1>3, <1>4, WithinMeans
<1>7. q = MovedTo(px, po, p)
  BY DEF q, rest, MovedTo
<1> QED BY <1>1, <1>2, <1>3, <1>4, <1>5, <1>6, <1>7

LEMMA MovedSelf ==
    ASSUME NEW po \in Path, NEW p \in Path
    PROVE  MovedTo(po, po, p) = p
<1> DEFINE q == MovedTo(po, po, p)
<1>1. Within(po, po) /\ Len(po) \in Nat /\ Len(p) \in Nat
  BY WithinOrder DEF Path
<1>2. q \in Path /\ Len(q) = Len(p) /\ \A i \in 1..Len(p) : q[i] = p[i]
  <2>1. /\ q \in Path /\ Len(q) = Len(p) + Len(po) - Len(po)
        /\ \A i \in 1..Len(p) : q[i] = p[i]
    BY <1>1, MovedPath
  <2> HIDE DEF q
  <2> QED BY <1>1, <2>1
<1> HIDE DEF q
<1>3. q = p
  BY <1>2 DEF Path
<1> QED BY <1>3 DEF q

(* Two that move stay apart, and the parts of one move with it.            *)
LEMMA MovedApart ==
    ASSUME NEW px \in Path, NEW py \in Path, NEW po \in Path, NEW p \in Path,
           Within(px, po), Within(py, po), MovedTo(px, po, p) = MovedTo(py, po, p)
    PROVE  px = py
<1>1. Len(px) \in Nat /\ Len(py) \in Nat /\ Len(po) \in Nat /\ Len(p) \in Nat
  BY DEF Path
<1>2. Len(px) = Len(py) /\ Len(po) <= Len(px)
  <2>1. /\ Len(MovedTo(px, po, p)) = Len(p) + Len(px) - Len(po)
        /\ Len(MovedTo(py, po, p)) = Len(p) + Len(py) - Len(po)
    BY MovedPath
  <2>2. Len(po) <= Len(px)  BY WithinMeans
  <2> QED BY <1>1, <2>1, <2>2
<1>3. ASSUME NEW i \in 1..Len(px) PROVE px[i] = py[i]
  <2>1. CASE i <= Len(po)
    <3>1. i \in 1..Len(po)  BY <1>1, <1>2, <2>1
    <3> QED BY <3>1, WithinMeans
  <2>2. CASE ~(i <= Len(po))
    <3> DEFINE j == i - Len(po)
    <3>1. j \in 1..Len(px) - Len(po) /\ j \in 1..Len(py) - Len(po) /\ Len(po) + j = i
      BY <1>1, <1>2, <2>2
    <3> HIDE DEF j
    <3>2. \A l \in 1..Len(px) - Len(po) : MovedTo(px, po, p)[Len(p) + l] = px[Len(po) + l]
      BY MovedPath
    <3>3. \A l \in 1..Len(py) - Len(po) : MovedTo(py, po, p)[Len(p) + l] = py[Len(po) + l]
      BY MovedPath
    <3>4. MovedTo(px, po, p)[Len(p) + j] = px[i] /\ MovedTo(py, po, p)[Len(p) + j] = py[i]
      BY <3>1, <3>2, <3>3
    <3> QED BY <3>4
  <2> QED BY <2>1, <2>2
<1> QED BY <1>1, <1>2, <1>3 DEF Path

LEMMA MovedParts ==
    ASSUME NEW px \in Path, NEW po \in Path, NEW p \in Path, Within(px, po),
           NEW n \in Nat, Len(p) <= n, n <= Len(MovedTo(px, po, p)),
           NEW k \in Nat, k = n - Len(p) + Len(po)
    PROVE  /\ Within(SubSeq(px, 1, k), po)
           /\ SubSeq(MovedTo(px, po, p), 1, n) = MovedTo(SubSeq(px, 1, k), po, p)
<1>1. Len(px) \in Nat /\ Len(po) \in Nat /\ Len(p) \in Nat /\ Len(po) <= Len(px)
  <2>1. Len(px) \in Nat /\ Len(po) \in Nat /\ Len(p) \in Nat  BY DEF Path
  <2> QED BY <2>1, WithinMeans
<1>2. k \in Len(po)..Len(px) /\ k \in 0..Len(px)
  <2>1. Len(MovedTo(px, po, p)) = Len(p) + Len(px) - Len(po)  BY MovedPath
  <2> QED BY <1>1, <2>1
<1> DEFINE pk == SubSeq(px, 1, k)  m == MovedTo(px, po, p)  mk == MovedTo(pk, po, p)
<1>3. pk \in Path /\ Len(pk) = k /\ \A i \in 1..k : pk[i] = px[i]
  BY <1>2, PartOfPath
<1>4. Within(pk, po)
  <2>1. \A i \in 1..Len(po) : px[i] = po[i]  BY WithinMeans
  <2>2. \A i \in 1..Len(po) : i \in 1..k  BY <1>1, <1>2
  <2> HIDE DEF pk
  <2>3. \A i \in 1..Len(po) : pk[i] = po[i]  BY <1>3, <2>1, <2>2
  <2>4. Len(po) <= Len(pk)  BY <1>1, <1>2, <1>3
  <2>5. pk \in Path  BY <1>3
  <2> QED BY <2>3, <2>4, <2>5, WithinMeans
<1>5. /\ m \in Path /\ Len(m) = Len(p) + Len(px) - Len(po)
      /\ \A i \in 1..Len(p) : m[i] = p[i]
      /\ \A i \in 1..Len(px) - Len(po) : m[Len(p) + i] = px[Len(po) + i]
  BY MovedPath
<1>6. /\ mk \in Path /\ Len(mk) = Len(p) + Len(pk) - Len(po)
      /\ \A i \in 1..Len(p) : mk[i] = p[i]
      /\ \A i \in 1..Len(pk) - Len(po) : mk[Len(p) + i] = pk[Len(po) + i]
  <2> HIDE DEF pk
  <2> QED BY <1>3, <1>4, MovedPath
<1>7. Len(mk) = n
  BY <1>1, <1>2, <1>3, <1>6
<1> DEFINE mn == SubSeq(m, 1, n)
<1>8. mn \in Path /\ Len(mn) = n /\ \A i \in 1..n : mn[i] = m[i]
  <2>1. n \in 0..Len(m)  OBVIOUS
  <2> HIDE DEF m
  <2> QED BY <1>5, <2>1, PartOfPath
<1> HIDE DEF pk, m, mk, mn
<1>9. ASSUME NEW i \in 1..n PROVE mn[i] = mk[i]
  <2>1. CASE i <= Len(p)
    <3>1. i \in 1..Len(p)  BY <1>1, <2>1
    <3> QED BY <1>5, <1>6, <1>8, <3>1
  <2>2. CASE ~(i <= Len(p))
    <3> DEFINE j == i - Len(p)
    <3>1. /\ j \in 1..Len(px) - Len(po) /\ j \in 1..Len(pk) - Len(po) /\ Len(p) + j = i
          /\ Len(po) + j \in 1..k
      BY <1>1, <1>2, <1>3, <2>2
    <3> HIDE DEF j
    <3> QED BY <1>3, <1>5, <1>6, <1>8, <3>1
  <2> QED BY <2>1, <2>2
<1>10. mn = mk
  <2> QED BY <1>6, <1>7, <1>8, <1>9 DEF Path
<1> QED BY <1>4, <1>10 DEF pk, m, mk, mn

LEMMA PartLengths ==
    ASSUME NEW lx \in Nat, NEW lo \in Nat, NEW lp \in Nat, NEW lt \in Nat, lo >= 1,
           lt = lp + lx - lo, NEW n \in 1..lt - 1, ~(n < lp)
    PROVE  n \in Nat /\ lp <= n /\ n <= lt /\ n - lp + lo \in 1..lx - 1
OBVIOUS

LEMMA RenameStands ==
    ASSUME DiskOK, NEW o \in Objects, NEW p \in FreePlaces, Rename(o, p)
    PROVE  DiskOK'
<1> DEFINE to(x) == MovedTo(place[x], place[o], p)
<1>1. /\ place[o] # Absent /\ ~Within(p, place[o]) /\ p \in Paths
      /\ \A x \in Below(o) : to(x) \in Paths
      /\ place' = [x \in Objects |-> IF x \in Below(o) THEN to(x) ELSE place[x]]
  BY DEF Rename, MovedTo, FreePlaces
<1>2. /\ p \in Path /\ Len(p) \in Nat /\ Len(p) >= 1 /\ At(p) = {}
      /\ place[o] \in Path /\ Len(place[o]) \in Nat /\ Len(place[o]) >= 1
  BY <1>1, PathsArePaths, PlaceIsPath DEF FreePlaces, Missing
<1>3. ASSUME NEW x \in Below(o)
      PROVE  /\ x \in Objects /\ place[x] # Absent /\ Within(place[x], place[o])
             /\ place[x] \in Path /\ Len(place[x]) \in Nat
             /\ to(x) \in Path /\ Within(to(x), p)
             /\ Len(to(x)) = Len(p) + Len(place[x]) - Len(place[o])
             /\ \A i \in 1..Len(p) : to(x)[i] = p[i]
  <2>1. x \in Objects /\ place[x] # Absent /\ Within(place[x], place[o])
    BY DEF Below
  <2>2. place[x] \in Path /\ Len(place[x]) \in Nat
    BY <2>1, PlaceIsPath
  <2> QED BY <1>2, <2>1, <2>2, MovedPath
<1> HIDE DEF to
<1>4. ASSUME NEW x \in Objects
      PROVE  /\ x \in Below(o) => place'[x] = to(x)
             /\ x \notin Below(o) => place'[x] = place[x]
  BY <1>1
<1>5. place' \in [Objects -> Paths \cup {Absent}]
  BY <1>1 DEF DiskOK
<1>6. ASSUME NEW a \in Objects, place'[a] # Absent
      PROVE  place[a] # Absent /\ place[a] \in Path /\ place'[a] \in Paths /\ place'[a] \in Path
  BY <1>3, <1>4, <1>5, <1>6, PlaceIsPath, PathsArePaths
(* Nothing that stays lies where the others go.                            *)
<1>7. ASSUME NEW a \in Objects, place[a] # Absent PROVE ~Within(place[a], p)
  <2> SUFFICES ASSUME Within(place[a], p) PROVE FALSE
    OBVIOUS
  <2>1. place[a] # p
    BY <1>2 DEF At
  <2>2. p # <<>>
    BY <1>2
  <2> QED BY <1>2, <1>7, <2>1, <2>2, AboveIsDir DEF At
<1>8. ASSUME NEW a \in Objects, place'[a] # Absent, NEW x \in Objects, place'[x] = place'[a]
      PROVE  x = a
  <2>1. place[a] # Absent /\ place[x] # Absent
    BY <1>6, <1>8
  <2>2. CASE a \in Below(o) /\ x \in Below(o)
    <3>1. MovedTo(place[x], place[o], p) = MovedTo(place[a], place[o], p)
      BY <1>4, <1>8, <2>2 DEF to
    <3>2. /\ place[x] \in Path /\ place[a] \in Path
          /\ Within(place[x], place[o]) /\ Within(place[a], place[o])
      BY <1>3, <2>2
    <3>3. place[x] = place[a]
      BY <1>2, <3>1, <3>2, MovedApart
    <3> QED BY <2>1, <3>3 DEF DiskOK, Standing
  <2>3. CASE a \notin Below(o) /\ x \in Below(o)
    BY <1>3, <1>4, <1>7, <1>8, <2>1, <2>3
  <2>4. CASE a \in Below(o) /\ x \notin Below(o)
    BY <1>3, <1>4, <1>7, <1>8, <2>1, <2>4
  <2>5. CASE a \notin Below(o) /\ x \notin Below(o)
    BY <1>4, <1>8, <2>1, <2>5 DEF DiskOK, Standing
  <2> QED BY <2>2, <2>3, <2>4, <2>5
<1>9. ASSUME NEW a \in Objects, place'[a] # Absent, NEW n \in 1..Len(place'[a]) - 1
      PROVE  \E x \in Objects : place'[x] = SubSeq(place'[a], 1, n) /\ Kind[x] = "dir"
  <2>1. place[a] # Absent /\ place[a] \in Path /\ Len(place[a]) \in Nat
    BY <1>6, <1>9, PlaceIsPath
  <2>2. CASE a \notin Below(o)
    <3>1. place'[a] = place[a]
      BY <1>4, <2>2
    <3>2. PICK x \in Objects : place[x] = SubSeq(place[a], 1, n) /\ Kind[x] = "dir"
      BY <1>9, <2>1, <3>1 DEF DiskOK, Standing
    <3>3. n \in 0..Len(place[a]) /\ n \in 1..Len(place[a])
      BY <1>9, <2>1, <3>1
    <3>4. Within(place[a], place[x]) /\ place[x] \in Path
      BY <2>1, <3>2, <3>3, PartOfPath
    <3>5. x \notin Below(o)
      <4> SUFFICES ASSUME x \in Below(o) PROVE FALSE
        OBVIOUS
      <4>1. Within(place[a], place[o])
        BY <1>2, <1>3, <2>1, <3>4, WithinOrder
      <4> QED BY <2>1, <2>2, <4>1 DEF Below
    <3> QED BY <1>4, <3>1, <3>2, <3>5
  <2>3. CASE a \in Below(o) /\ n < Len(p)
    <3>1. place'[a] = to(a) /\ to(a) \in Path /\ Len(to(a)) \in Nat
      BY <1>3, <1>4, <2>3 DEF Path
    <3>2. n \in 0..Len(p) /\ n \in 0..Len(to(a)) /\ n \in Nat /\ n >= 1
      BY <1>2, <1>9, <2>3, <3>1
    <3> DEFINE d == SubSeq(p, 1, n)  e == SubSeq(to(a), 1, n)
    <3>3. d \in Path /\ Len(d) = n /\ Within(p, d) /\ \A i \in 1..n : d[i] = p[i]
      BY <1>2, <3>2, PartOfPath
    <3>4. e \in Path /\ Len(e) = n /\ \A i \in 1..n : e[i] = to(a)[i]
      BY <3>1, <3>2, PartOfPath
    <3> HIDE DEF d, e
    <3>5. \A i \in 1..n : e[i] = d[i]
      <4>1. \A i \in 1..n : i \in 1..Len(p)  BY <1>2, <2>3, <3>2
      <4> QED BY <1>3, <2>3, <3>3, <3>4, <4>1
    <3>6. e = d
      BY <3>3, <3>4, <3>5 DEF Path
    <3>7. d # p /\ d # <<>>
      BY <2>3, <3>2, <3>3
    <3>8. PICK x \in Objects : place[x] = d /\ Kind[x] = "dir"
      BY <3>3, <3>7, AboveFreeIsDir
    <3>9. x \notin Below(o)
      <4> SUFFICES ASSUME x \in Below(o) PROVE FALSE
        OBVIOUS
      <4>1. Within(p, place[o])
        BY <1>2, <1>3, <3>3, <3>8, WithinOrder
      <4> QED BY <1>1, <4>1
    <3> QED BY <1>4, <3>1, <3>6, <3>8, <3>9 DEF e
  <2>4. CASE a \in Below(o) /\ ~(n < Len(p))
    <3>1. /\ place'[a] = to(a) /\ to(a) \in Path /\ Len(to(a)) \in Nat
          /\ Len(to(a)) = Len(p) + Len(place[a]) - Len(place[o])
      BY <1>3, <1>4, <2>4 DEF Path
    <3> DEFINE k == n - Len(p) + Len(place[o])  part == SubSeq(place[a], 1, k)
    <3>2. n \in Nat /\ Len(p) <= n /\ n <= Len(to(a)) /\ k \in 1..Len(place[a]) - 1
      <4>1. n \in 1..Len(to(a)) - 1  BY <1>9, <3>1
      <4> HIDE DEF k, part
      <4>2. /\ n \in Nat /\ Len(p) <= n /\ n <= Len(to(a))
            /\ n - Len(p) + Len(place[o]) \in 1..Len(place[a]) - 1
        BY <1>2, <2>1, <2>4, <3>1, <4>1, PartLengths
      <4> QED BY <4>2 DEF k
    <3>3. Within(part, place[o]) /\ SubSeq(to(a), 1, n) = MovedTo(part, place[o], p)
      <4>1. Within(place[a], place[o])  BY <1>3, <2>4
      <4>2. n <= Len(MovedTo(place[a], place[o], p))  BY <3>2 DEF to
      <4>3. n \in Nat /\ Len(p) <= n  BY <3>2
      <4>4. k \in Nat /\ k = n - Len(p) + Len(place[o])  BY <3>2
      <4> DEFINE px == place[a]  po == place[o]
      <4>5. /\ px \in Path /\ po \in Path /\ p \in Path /\ Within(px, po) /\ n \in Nat /\ Len(p) <= n
            /\ n <= Len(MovedTo(px, po, p)) /\ k \in Nat /\ k = n - Len(p) + Len(po)
        BY <1>2, <2>1, <4>1, <4>2, <4>3, <4>4
      <4> HIDE DEF k, px, po
      <4>6. /\ Within(SubSeq(px, 1, k), po)
            /\ SubSeq(MovedTo(px, po, p), 1, n) = MovedTo(SubSeq(px, 1, k), po, p)
        BY <4>5, MovedParts
      <4> QED BY <4>6 DEF to, px, po
    <3>4. k \in 1..Len(place[a]) - 1
      BY <3>2
    <3>5. PICK x \in Objects : place[x] = part /\ Kind[x] = "dir"
      BY <2>1, <3>4 DEF DiskOK, Standing
    <3>6. part # Absent
      <4>1. place[a] \in Paths /\ k \in 1..Len(place[a])  BY <2>1, <3>4, PlaceIsPath
      <4> QED BY <4>1, PathsAssumption
    <3> HIDE DEF k, part
    <3>7. x \in Below(o)
      BY <3>3, <3>5, <3>6 DEF Below
    <3> QED BY <1>4, <3>1, <3>3, <3>5, <3>7 DEF to
  <2> QED BY <2>2, <2>3, <2>4
<1> QED BY <1>5, <1>8, <1>9 DEF DiskOK, Standing

-----------------------------------------------------------------------------
(* The policy of a running command: what it grants lies below the roots it *)
(* was built from and outside their metadata, whatever the disk was then.  *)

ScratchPaths == {p \in Paths : \E s \in Scratch : Within(p, s)}

PolicyOf(granted, above) ==
    IF roots = {}
    THEN << Rule(TRUE, AllOps, FALSE, ScratchPaths), Rule(FALSE, {"unlink"}, TRUE, above) >>
    ELSE << Rule(TRUE, AllOps, FALSE, granted), Rule(FALSE, {"unlink"}, TRUE, roots),
            Rule(TRUE, AllOps, FALSE, ScratchPaths), Rule(FALSE, {"unlink"}, TRUE, above) >>

(* What the rule of the root r can give: a file is given without what lies *)
(* below it.                                                               *)
ByRule(p, r) ==
    /\ Within(p, r) /\ (r \in files => p = r)
    /\ \A m \in Metadata : ~Within(p, Append(r, m))

PolicyStands ==
    /\ files \subseteq roots /\ roots \subseteq Paths
    /\ rules # <<>> =>
         \E granted \in SUBSET Paths, above \in SUBSET Paths :
            /\ \A p \in granted : \E r \in roots : ByRule(p, r)
            /\ rules = PolicyOf(granted, above)

BeltInv == DiskOK /\ PolicyStands /\ writes \in [Objects -> 0..MaxChanges]

(* What an operation that is let through touches.                          *)
LEMMA AllowedMeans ==
    ASSUME PolicyStands, rules # <<>>, NEW op, NEW p, NEW kind, Allowed(op, p, kind)
    PROVE  \/ \E s \in Scratch : Within(p, s)
           \/ /\ \E r \in roots : ByRule(p, r)
              /\ ~(op = "unlink" /\ kind = "dir" /\ p \in roots)
<1>1. PICK granted \in SUBSET Paths, above \in SUBSET Paths :
         /\ \A x \in granted : \E r \in roots : ByRule(x, r)
         /\ rules = PolicyOf(granted, above)
  BY DEF PolicyStands
<1> DEFINE hits == {i \in DOMAIN rules : /\ op \in rules[i].ops
                                         /\ p \in rules[i].paths
                                         /\ rules[i].dirsOnly => kind = "dir"}
           last == CHOOSE i \in hits : \A j \in hits : j <= i
<1>2. hits # {} /\ rules[last].allow
  BY DEF Allowed
<1>0. \A i \in DOMAIN rules :
        i \in hits <=> /\ op \in rules[i].ops
                       /\ p \in rules[i].paths
                       /\ rules[i].dirsOnly => kind = "dir"
  OBVIOUS
<1>9. hits \subseteq DOMAIN rules /\ ((\E i \in hits : \A j \in hits : j <= i)
                                        => last \in hits /\ \A j \in hits : j <= last)
  OBVIOUS
<1> HIDE DEF hits, last
<1>3. CASE roots = {}
  <2>1. rules = << Rule(TRUE, AllOps, FALSE, ScratchPaths), Rule(FALSE, {"unlink"}, TRUE, above) >>
    BY <1>1, <1>3 DEF PolicyOf
  <2>2. /\ DOMAIN rules = {1, 2}
        /\ rules[1].paths = ScratchPaths /\ rules[2].allow = FALSE
    BY <2>1 DEF Rule
  <2>3. \E i \in hits : \A j \in hits : j <= i
    BY <1>2, <1>9, <2>2
  <2>4. last = 1 /\ last \in DOMAIN rules /\ last \in hits
    BY <1>2, <1>9, <2>2, <2>3
  <2>5. p \in ScratchPaths
    BY <1>0, <2>2, <2>4
  <2> QED BY <2>5 DEF ScratchPaths
<1>4. CASE roots # {}
  <2>1. rules = << Rule(TRUE, AllOps, FALSE, granted), Rule(FALSE, {"unlink"}, TRUE, roots),
                   Rule(TRUE, AllOps, FALSE, ScratchPaths), Rule(FALSE, {"unlink"}, TRUE, above) >>
    BY <1>1, <1>4 DEF PolicyOf
  <2>2. /\ DOMAIN rules = {1, 2, 3, 4}
        /\ rules[1].paths = granted /\ rules[3].paths = ScratchPaths
        /\ rules[2].allow = FALSE /\ rules[4].allow = FALSE
        /\ rules[2].ops = {"unlink"} /\ rules[2].paths = roots
    BY <2>1 DEF Rule
  <2>3. \E i \in hits : \A j \in hits : j <= i
    BY <1>2, <1>9, <2>2
  <2>4. last \in DOMAIN rules /\ last \in hits /\ \A j \in hits : j <= last
    BY <1>9, <2>3
  <2>5. last = 1 \/ last = 3
    BY <1>2, <2>2, <2>4
  <2>6. CASE last = 3
    <3>1. p \in ScratchPaths  BY <1>0, <2>2, <2>4, <2>6
    <3> QED BY <3>1 DEF ScratchPaths
  <2>7. CASE last = 1
    <3>1. p \in granted  BY <1>0, <2>2, <2>4, <2>7
    <3>2. 2 \notin hits /\ 2 \in DOMAIN rules  BY <2>2, <2>4, <2>7
    <3>3. ~(op = "unlink" /\ kind = "dir" /\ p \in roots)
      BY <1>0, <2>2, <3>2
    <3> QED BY <1>1, <3>1, <3>3
  <2> QED BY <2>5, <2>6, <2>7
<1> QED BY <1>3, <1>4

LEMMA FourRules ==
    ASSUME NEW a, NEW b, NEW c, NEW d
    PROVE  <<a, b>> \o <<c, d>> = <<a, b, c, d>>
<1> DEFINE S == {a, b, c, d}  s == <<a, b>>  t == <<c, d>>
<1>1. s \in Seq(S) /\ t \in Seq(S) /\ Len(s) = 2 /\ Len(t) = 2
  OBVIOUS
<1>2. s[1] = a /\ s[2] = b /\ t[1] = c /\ t[2] = d
  OBVIOUS
<1> DEFINE u == s \o t
<1> HIDE DEF s, t, S
<1>3. /\ u \in Seq(S) /\ Len(u) = 4
      /\ \A i \in 1..Len(s) + Len(t) : u[i] = IF i <= Len(s) THEN s[i] ELSE t[i - Len(s)]
  <2>1. /\ u \in Seq(S) /\ Len(u) = Len(s) + Len(t)
        /\ \A i \in 1..Len(s) + Len(t) : u[i] = IF i <= Len(s) THEN s[i] ELSE t[i - Len(s)]
    BY ONLY <1>1, ConcatProperties, Zenon DEF u
  <2> QED BY <1>1, <2>1
<1> HIDE DEF u
<1>4. u[1] = a /\ u[2] = b /\ u[3] = c /\ u[4] = d
  BY <1>1, <1>2, <1>3
<1>5. u = <<a, b, c, d>>
  BY <1>3, <1>4
<1> QED BY <1>5 DEF u, s, t

(* A launch builds such a policy.                                          *)
LEMMA LaunchStands ==
    ASSUME NEW q \in Commands, Launch(q)
    PROVE  PolicyStands'
<1> DEFINE rs == WritableRoots(q)
           granted == UNION {Covered(r) \ Kept(r) : r \in rs}
           above == ProtectedAncestors(rs)
<1>1. rs \subseteq Paths
  <2>1. TempRoots(q) \subseteq Paths
    BY CommandsAssumption DEF TempRoots
  <2> QED BY <2>1, CommandsAssumption DEF WritableRoots
<1>2. granted \in SUBSET Paths /\ above \in SUBSET Paths
  BY DEF Covered, ProtectedAncestors
<1>4. roots' = rs /\ rules' = Policy(rs) /\ files' = {r \in rs : ~Missing(r) /\ ~IsDir(r)}
  BY DEF Launch
<1>3. ASSUME NEW p \in granted
      PROVE  \E r \in rs : ByRule(p, r)'
  <2>1. PICK r \in rs : p \in Covered(r) \ Kept(r)
    OBVIOUS
  <2>2. p \in Paths /\ p \in Path /\ r \in Path
    BY <1>1, <2>1, PathsArePaths DEF Covered
  <2>3. Within(p, r) /\ (r \in files' => p = r)
    BY <1>4, <2>1, <2>2, WithinOrder DEF Covered
  <2>4. \A m \in Metadata : ~Within(p, Append(r, m))
    BY <2>1, <2>2 DEF Kept, MetadataPattern
  <2> QED BY <2>3, <2>4 DEF ByRule
<1>5. files' \subseteq roots' /\ roots' \subseteq Paths
  BY <1>1, <1>4
<1>6. PICK allowed \in SUBSET Paths, held \in SUBSET Paths : allowed = granted /\ held = above
  BY <1>2
<1>7. Policy(rs) = IF rs = {}
        THEN << Rule(TRUE, AllOps, FALSE, ScratchPaths), Rule(FALSE, {"unlink"}, TRUE, held) >>
        ELSE << Rule(TRUE, AllOps, FALSE, allowed), Rule(FALSE, {"unlink"}, TRUE, rs),
                Rule(TRUE, AllOps, FALSE, ScratchPaths), Rule(FALSE, {"unlink"}, TRUE, held) >>
  <2>1. CASE rs = {}
    BY <1>6, <2>1 DEF Policy, AccessPolicy, ScratchPaths
  <2>2. CASE rs # {}
    <3>1. Policy(rs) = << Rule(TRUE, AllOps, FALSE, granted), Rule(FALSE, {"unlink"}, TRUE, rs),
                          Rule(TRUE, AllOps, FALSE, ScratchPaths), Rule(FALSE, {"unlink"}, TRUE, above) >>
      BY ONLY <2>2, FourRules DEF Policy, AccessPolicy, ScratchPaths
    <3> HIDE DEF granted, above
    <3> QED BY <1>6, <2>2, <3>1
  <2> QED BY <2>1, <2>2
<1>8. \A p \in allowed : \E r \in rs : ByRule(p, r)'
  BY <1>3, <1>6
<1> HIDE DEF granted, above, rs
<1>9. rules' = PolicyOf(allowed, held)'
  BY <1>4, <1>7 DEF PolicyOf
<1> QED BY <1>4, <1>5, <1>8, <1>9 DEF PolicyStands

LEMMA BeltInitStands == BeltInit => BeltInv
<1> SUFFICES ASSUME BeltInit PROVE BeltInv
  OBVIOUS
<1>1. DiskOK
  BY DiskAssumption DEF BeltInit, DiskOK
<1>2. writes \in [Objects -> 0..MaxChanges]
  BY DiskAssumption DEF BeltInit
<1> QED BY <1>1, <1>2 DEF BeltInit, BeltInv, PolicyStands

LEMMA PolicyKept ==
    ASSUME PolicyStands, UNCHANGED <<rules, roots, files>>
    PROVE  PolicyStands'
BY DEF PolicyStands, PolicyOf, ByRule

LEMMA BeltStepStands == BeltInv /\ [BeltNext]_beltVars => BeltInv'
<1> SUFFICES ASSUME BeltInv, [BeltNext]_beltVars PROVE BeltInv'
  OBVIOUS
<1> USE DEF BeltInv
<1>1. ASSUME NEW q \in Commands, Launch(q) PROVE BeltInv'
  <2>1. PolicyStands'  BY <1>1, LaunchStands
  <2> QED BY <1>1, <2>1 DEF Launch, DiskOK, Standing
<1>2. CASE End
  BY <1>2 DEF End, DiskOK, Standing, PolicyStands
<1>3. ASSUME NEW o \in Objects, Modify(o) PROVE BeltInv'
  <2>1. writes' \in [Objects -> 0..MaxChanges]
    BY <1>3, DiskAssumption DEF Modify
  <2> QED BY <1>3, <2>1, PolicyKept DEF Modify, DiskOK, Standing
<1>4. ASSUME NEW o \in Objects, Unlink(o) PROVE BeltInv'
  <2>1. DiskOK'  BY <1>4, UnlinkStands
  <2> QED BY <1>4, <2>1, PolicyKept DEF Unlink
<1>5. ASSUME NEW o \in Objects, NEW p \in FreePlaces, Create(o, p) PROVE BeltInv'
  <2>1. DiskOK'  BY <1>5, PutStands DEF Create
  <2> QED BY <1>5, <2>1, PolicyKept DEF Create
<1>6. ASSUME NEW o \in Objects, NEW p \in FreePlaces, Rename(o, p) PROVE BeltInv'
  <2>1. DiskOK'  BY <1>6, RenameStands
  <2> QED BY <1>6, <2>1, PolicyKept DEF Rename
<1>7. ASSUME NEW o \in UserObjects, NEW p \in FreePlaces, UserCreates(o, p) PROVE BeltInv'
  <2>1. o \in Objects  BY DiskAssumption
  <2>2. DiskOK'  BY <1>7, <2>1, PutStands DEF UserCreates
  <2> QED BY <1>7, <2>2, PolicyKept DEF UserCreates
<1>8. CASE UNCHANGED beltVars
  BY <1>8, PolicyKept DEF beltVars, DiskOK, Standing
<1> QED BY <1>1, <1>2, <1>3, <1>4, <1>5, <1>6, <1>7, <1>8 DEF BeltNext, Sandboxed

THEOREM BeltInvHolds == BeltSpec => []BeltInv
BY BeltInitStands, BeltStepStands, PTL DEF BeltSpec

(* The variables have their types, and no rule of a policy speaks of what  *)
(* is no path of the disk.                                                 *)
THEOREM BeltTypesHold == BeltSpec => []BeltTypeOK
<1>1. BeltInv => BeltTypeOK
  <2> SUFFICES ASSUME BeltInv PROVE BeltTypeOK
    OBVIOUS
  <2>1. \A i \in DOMAIN rules : rules[i].ops \subseteq AllOps /\ rules[i].paths \subseteq Paths
    <3>1. CASE rules = <<>>  BY <3>1
    <3>2. CASE rules # <<>>
      <4>1. PICK granted \in SUBSET Paths, above \in SUBSET Paths : rules = PolicyOf(granted, above)
        BY <3>2 DEF BeltInv, PolicyStands
      <4>2. roots \subseteq Paths /\ ScratchPaths \subseteq Paths
        BY DEF BeltInv, PolicyStands, ScratchPaths
      <4>3. CASE roots = {}
        <5>1. /\ DOMAIN rules = {1, 2}
              /\ rules[1] = Rule(TRUE, AllOps, FALSE, ScratchPaths)
              /\ rules[2] = Rule(FALSE, {"unlink"}, TRUE, above)
          BY <4>1, <4>3 DEF PolicyOf
        <5> QED BY <4>2, <5>1 DEF Rule, AllOps
      <4>4. CASE roots # {}
        <5> DEFINE a == Rule(TRUE, AllOps, FALSE, granted)  b == Rule(FALSE, {"unlink"}, TRUE, roots)
                   c == Rule(TRUE, AllOps, FALSE, ScratchPaths)  d == Rule(FALSE, {"unlink"}, TRUE, above)
        <5>2. rules = <<a, b, c, d>>  BY <4>1, <4>4 DEF PolicyOf
        <5> HIDE DEF a, b, c, d
        <5>3. DOMAIN rules = {1, 2, 3, 4}  BY <5>2
        <5>4. rules[1] = a /\ rules[2] = b /\ rules[3] = c /\ rules[4] = d  BY <5>2
        <5>1. /\ DOMAIN rules = {1, 2, 3, 4}
              /\ rules[1] = Rule(TRUE, AllOps, FALSE, granted)
              /\ rules[2] = Rule(FALSE, {"unlink"}, TRUE, roots)
              /\ rules[3] = Rule(TRUE, AllOps, FALSE, ScratchPaths)
              /\ rules[4] = Rule(FALSE, {"unlink"}, TRUE, above)
          BY <5>3, <5>4 DEF a, b, c, d
        <5> QED BY <4>2, <5>1 DEF Rule, AllOps
      <4> QED BY <4>3, <4>4
    <3> QED BY <3>1, <3>2
  <2> QED BY <2>1 DEF BeltInv, DiskOK, PolicyStands, BeltTypeOK
<1> QED BY <1>1, BeltInvHolds, PTL

-----------------------------------------------------------------------------
(* What a step of the sandboxed process changes.                           *)

Written(o) ==
    place'[o] = place[o] /\ place[o] # Absent /\ Allowed("data", place[o], "file")
Made(o) ==
    place[o] = Absent /\ place'[o] \in FreePlaces /\ Allowed("create", place'[o], Kind[o])
Removed(o) ==
    place[o] # Absent /\ place'[o] = Absent /\ Allowed("unlink", place[o], Kind[o])
Carried(o, a, p) ==
    /\ place[a] # Absent /\ place[o] # Absent /\ Within(place[o], place[a])
    /\ place'[o] = MovedTo(place[o], place[a], p) /\ place'[a] = p
    /\ Allowed("unlink", place[a], Kind[a]) /\ Allowed("create", p, Kind[a])

LEMMA ChangesMeans ==
    ASSUME BeltInv, [BeltNext]_beltVars, NEW o \in Objects, Changed(o), ~ByUser(o)
    PROVE  /\ rules # <<>>
           /\ \/ Written(o) \/ Made(o) \/ Removed(o)
              \/ \E a \in Objects, p \in FreePlaces : Carried(o, a, p)
<1> USE DEF BeltInv, DiskOK
<1>1. ASSUME NEW x \in Objects, Modify(x)
      PROVE  x = o /\ rules # <<>> /\ Written(o)
  BY <1>1 DEF Modify, Changed, Written
<1>2. ASSUME NEW x \in Objects, Unlink(x)
      PROVE  x = o /\ rules # <<>> /\ Removed(o)
  BY <1>2 DEF Unlink, Changed, Removed
<1>3. ASSUME NEW x \in Objects, NEW p \in FreePlaces, Create(x, p)
      PROVE  x = o /\ rules # <<>> /\ Made(o)
  BY <1>3 DEF Create, Changed, Made
<1>4. ASSUME NEW a \in Objects, NEW p \in FreePlaces, Rename(a, p)
      PROVE  rules # <<>> /\ Carried(o, a, p)
  <2>1. o \in Below(a)  BY <1>4 DEF Rename, Changed
  <2>2. place[a] \in Path /\ p \in Path /\ place[a] # Absent
    BY <1>4, PathsArePaths, PlaceIsPath DEF Rename, FreePlaces
  <2>3. a \in Below(a) /\ place'[a] = MovedTo(place[a], place[a], p)
    BY <1>4, <2>2, WithinOrder DEF Rename, MovedTo, Below
  <2>4. place'[a] = p
    BY <2>2, <2>3, MovedSelf
  <2> QED BY <1>4, <2>1, <2>4 DEF Rename, Carried, MovedTo, Below
<1>5. ASSUME NEW x \in UserObjects, NEW p \in FreePlaces, UserCreates(x, p) PROVE FALSE
  BY <1>5, DiskAssumption DEF UserCreates, Changed, ByUser
<1>6. ASSUME NEW q \in Commands, Launch(q) PROVE FALSE
  BY <1>6 DEF Launch, Changed
<1>7. CASE End  BY <1>7 DEF End, Changed
<1>8. CASE UNCHANGED beltVars  BY <1>8 DEF beltVars, Changed
<1> QED BY <1>1, <1>2, <1>3, <1>4, <1>5, <1>6, <1>7, <1>8 DEF BeltNext, Sandboxed

(* A directory on the disk is what an object that stands there is.         *)
LEMMA DirAt ==
    ASSUME DiskOK, NEW x \in Objects, place[x] # Absent, NEW y \in Objects,
           place[y] = place[x], Kind[y] = "dir"
    PROVE  Kind[x] = "dir"
BY DEF DiskOK, Standing

LEMMA AroundIsDir ==
    ASSUME DiskOK, NEW o \in Objects, place[o] # Absent, NEW a \in Objects, place[a] # Absent,
           Within(place[o], place[a]), place[o] # place[a]
    PROVE  Kind[a] = "dir"
<1>1. place[a] \in Path /\ place[a] # <<>>
  BY PathsArePaths, PlaceIsPath
<1>2. PICK x \in Objects : place[x] = place[a] /\ Kind[x] = "dir"
  BY <1>1, AboveIsDir
<1> QED BY <1>2, DirAt

(* The process changes what its roots and the scratch directories give it. *)
InScratch(p) == \E s \in Scratch : Within(p, s)
Given(p) ==
    InScratch(p) \/ \E r \in roots : Within(p, r) /\ (p # r /\ r \in files => Brought(r))

LEMMA RootsArePaths ==
    ASSUME PolicyStands
    PROVE  /\ \A r \in roots : r \in Paths /\ r \in Path /\ r # <<>>
           /\ \A s \in Scratch : s \in Path
BY PathsArePaths, PathsAssumption DEF PolicyStands, Path

(* Where a path lies, all in it lies.                                      *)
LEMMA InScratchToo ==
    ASSUME PolicyStands, NEW q \in Path, NEW p \in Path, Within(q, p), InScratch(p)
    PROVE  InScratch(q)
BY RootsArePaths, WithinOrder DEF InScratch

LEMMA OnlyGrantedSteps ==
    ASSUME BeltInv, [BeltNext]_beltVars, NEW o \in Objects, Changed(o), ~ByUser(o),
           NEW p \in {place[o], place'[o]} \ {Absent}
    PROVE  Given(p)
<1>1. rules # <<>> /\ PolicyStands /\ DiskOK
  BY ChangesMeans DEF BeltInv
(* What is removed, written or made: the place itself is granted.          *)
<1>2. ASSUME NEW q \in Paths, NEW op, NEW kind, Allowed(op, q, kind) PROVE Given(q)
  BY <1>1, <1>2, AllowedMeans DEF Given, InScratch, ByRule
<1>3. CASE Written(o)
  BY <1>1, <1>2, <1>3, PlaceIsPath DEF Written
<1>4. CASE Made(o)
  BY <1>2, <1>4 DEF Made, FreePlaces
<1>5. CASE Removed(o)
  BY <1>1, <1>2, <1>5, PlaceIsPath DEF Removed
(* What moves lies in a directory, and no rule of a file lets one go; it   *)
(* comes to lie in the place of the directory.                             *)
<1>6. ASSUME NEW a \in Objects, NEW to \in FreePlaces, Carried(o, a, to)
      PROVE  Given(p)
  <2>1. /\ place[o] \in Path /\ place[a] \in Path /\ place[a] \in Paths
        /\ to \in Paths /\ to \in Path /\ Missing(to)
        /\ Within(place[o], place[a]) /\ place[a] # Absent /\ place[o] # Absent
    BY <1>1, <1>6, PlaceIsPath, PathsArePaths DEF Carried, FreePlaces
  <2>2. place'[o] \in Path /\ Within(place'[o], to)
    BY <1>6, <2>1, MovedPath DEF Carried
  <2>3. Given(place[o])
    <3>1. CASE InScratch(place[a])
      BY <1>1, <2>1, <3>1, InScratchToo DEF Given
    <3>2. CASE place[o] = place[a]
      BY <1>2, <1>6, <2>1, <3>2 DEF Carried
    <3>3. CASE ~InScratch(place[a]) /\ place[o] # place[a]
      <4>1. Kind[a] = "dir"
        BY <1>1, <2>1, <3>3, AroundIsDir
      <4>2. PICK r \in roots : ByRule(place[a], r) /\ place[a] \notin roots
        BY <1>1, <1>6, <3>3, <4>1, AllowedMeans DEF Carried, InScratch
      <4>3. Within(place[o], r) /\ r \notin files
        BY <1>1, <2>1, <4>2, RootsArePaths, WithinOrder DEF ByRule
      <4> QED BY <4>3 DEF Given
    <3> QED BY <3>1, <3>2, <3>3
  <2>4. Given(place'[o])
    <3>1. CASE InScratch(to)
      BY <1>1, <2>1, <2>2, <3>1, InScratchToo DEF Given
    <3>2. CASE \E r \in roots : ByRule(to, r)
      <4>1. PICK r \in roots : ByRule(to, r)
        BY <3>2
      <4>2. Within(place'[o], r)
        BY <1>1, <2>1, <2>2, <4>1, RootsArePaths, WithinOrder DEF ByRule
      <4>3. r \in files => Brought(r)
        <5>1. r \in files => place'[a] = r /\ place[a] # r
          BY <1>6, <2>1, <4>1 DEF Carried, ByRule, Missing, At
        <5> QED BY <2>1, <5>1 DEF Brought
      <4> QED BY <4>2, <4>3 DEF Given
    <3> QED BY <1>1, <1>6, <3>1, <3>2, AllowedMeans DEF Carried, InScratch
  <2> QED BY <2>3, <2>4
<1> QED BY <1>3, <1>4, <1>5, <1>6, ChangesMeans

(* The process changes only what lies below its roots and the scratch      *)
(* directories, whatever the requests and however the roots lie: a root    *)
(* that was a file at the launch grants nothing beside it, and nothing     *)
(* below but what comes with a directory renamed to it.                    *)
THEOREM OnlyGrantedHolds == BeltSpec => OnlyGranted
<1>1. BeltInv /\ [BeltNext]_beltVars =>
        [\A o \in Objects : (Changed(o) /\ ~ByUser(o)) =>
           \A p \in {place[o], place'[o]} \ {Absent} :
               \/ \E s \in Scratch : Within(p, s)
               \/ \E r \in roots :
                      Within(p, r) /\ (p # r /\ r \in files => Brought(r))]_beltVars
  BY OnlyGrantedSteps DEF Given, InScratch
<1> QED BY <1>1, BeltInvHolds, PTL DEF BeltSpec, OnlyGranted

-----------------------------------------------------------------------------
(* Nothing in the metadata of a root is let through, where the root alone  *)
(* contains it.                                                            *)
LEMMA MetadataDenied ==
    ASSUME PolicyStands, rules # <<>>, NEW op, NEW p \in Paths, NEW kind, Allowed(op, p, kind),
           NEW q \in Path, Within(q, p), NEW r \in roots, OnlyIn(q, r), NEW m \in Metadata
    PROVE  ~Within(p, Append(r, m))
<1>1. p \in Path
  BY PathsArePaths
<1>2. ~InScratch(p)
  BY <1>1, InScratchToo DEF InScratch, OnlyIn
<1>3. PICK x \in roots : ByRule(p, x)
  BY <1>2, AllowedMeans DEF InScratch
<1>4. Within(q, x)
  BY <1>1, <1>3, RootsArePaths, WithinOrder DEF ByRule
<1>5. x = r
  BY <1>4 DEF OnlyIn
<1> QED BY <1>3, <1>5 DEF ByRule

(* Nor is a directory around an anchored root moved or removed.            *)
LEMMA AroundRootsDenied ==
    ASSUME PolicyStands, rules # <<>>, NEW p \in Paths, Allowed("unlink", p, "dir"),
           NEW r \in roots, Anchored(r)
    PROVE  ~Within(r, p)
<1> SUFFICES ASSUME Within(r, p) PROVE FALSE
  OBVIOUS
<1>1. p \in Path /\ p # <<>> /\ r \in Path
  BY PathsArePaths, RootsArePaths
<1>2. ~InScratch(p)
  BY <1>1, InScratchToo DEF InScratch, Anchored
<1>3. PICK x \in roots : Within(p, x) /\ p \notin roots
  BY <1>2, AllowedMeans DEF InScratch, ByRule
<1>4. x \in Path /\ x # <<>>
  BY RootsArePaths
<1>5. x \in {r, Parent(r)}
  BY <1>1, <1>3, <1>4, WithinOrder DEF Anchored
<1>6. CASE x = r
  BY <1>1, <1>3, <1>6, WithinOrder
<1>7. CASE x = Parent(r) /\ x # r
  <2>1. /\ Len(p) < Len(r) /\ Len(p) \in Nat /\ Len(p) >= 1 /\ Len(r) \in Nat
        /\ p = SubSeq(r, 1, Len(p))
    <3>1. p # r
      BY <1>3
    <3> QED BY <1>1, <3>1, ProperPart DEF Path
  <2>2. x = SubSeq(r, 1, Len(r) - 1) /\ Len(r) - 1 \in 0..Len(r)
    BY <1>1, <1>7, <2>1, ParentPart
  <2>3. Len(x) = Len(r) - 1
    BY <1>1, <2>2, PartOfPath
  <2>4. Len(x) <= Len(p)
    BY <1>1, <1>3, <1>4, WithinMeans
  <2>5. Len(p) = Len(r) - 1
    BY <2>1, <2>3, <2>4
  <2> QED BY <1>3, <2>1, <2>2, <2>5
<1> QED BY <1>5, <1>6, <1>7

LEMMA OnlyRootAnchored ==
    ASSUME PolicyStands, NEW r \in roots, NEW q \in Path, Within(q, r), OnlyIn(q, r)
    PROVE  Anchored(r)
BY RootsArePaths, WithinOrder DEF OnlyIn, Anchored

(* A directory that is a root stays where it is.                           *)
THEOREM RootsStayHolds == BeltSpec => RootsStay
<1>1. ASSUME BeltInv, [BeltNext]_beltVars, NEW o \in Objects,
             place[o] \in roots, Kind[o] = "dir", Anchored(place[o])
      PROVE  place'[o] = place[o]
  <2> SUFFICES ASSUME place'[o] # place[o] PROVE FALSE
    OBVIOUS
  <2>1. PolicyStands /\ DiskOK
    BY <1>1 DEF BeltInv
  <2>2. place[o] \in Paths /\ place[o] # Absent /\ place[o] \in Path
    BY <1>1, <2>1, RootsArePaths, PathsArePaths
  <2>3. Changed(o) /\ ~ByUser(o)
    BY <2>2 DEF Changed, ByUser
  <2>4. Within(place[o], place[o])
    BY <2>2, WithinOrder
  <2>5. rules # <<>>
    BY <1>1, <2>3, ChangesMeans
  <2>6. CASE Removed(o)
    BY <1>1, <2>1, <2>2, <2>4, <2>5, <2>6, AroundRootsDenied DEF Removed
  <2>7. ASSUME NEW a \in Objects, NEW p \in FreePlaces, Carried(o, a, p) PROVE FALSE
    <3>1. Kind[a] = "dir"
      BY <1>1, <2>1, <2>7, AroundIsDir, DirAt DEF Carried
    <3>2. place[a] \in Paths
      BY <2>1, <2>7, PlaceIsPath DEF Carried
    <3> QED BY <1>1, <2>1, <2>5, <2>7, <3>1, <3>2, AroundRootsDenied DEF Carried
  <2> QED BY <1>1, <2>2, <2>3, <2>6, <2>7, ChangesMeans DEF Written, Made
<1>2. BeltInv /\ [BeltNext]_beltVars =>
        [\A o \in Objects :
           (place[o] \in roots /\ Kind[o] = "dir" /\ Anchored(place[o]))
               => place'[o] = place[o]]_beltVars
  BY <1>1
<1> QED BY <1>2, BeltInvHolds, PTL DEF BeltSpec, RootsStay

LEMMA MetadataKeptSteps ==
    ASSUME BeltInv, [BeltNext]_beltVars, NEW o \in Objects, place[o] # Absent,
           NEW r \in roots, OnlyIn(place[o], r), NEW m \in Metadata, Within(place[o], Append(r, m))
    PROVE  ~Changed(o)
<1> SUFFICES ASSUME Changed(o) PROVE FALSE
  OBVIOUS
<1> DEFINE kept == Append(r, m)
<1>1. PolicyStands /\ DiskOK
  BY DEF BeltInv
<1>2. /\ place[o] \in Paths /\ place[o] \in Path /\ r \in Path
      /\ kept \in Path /\ Within(kept, r) /\ ~Within(r, kept)
      /\ \A p \in Path : Within(kept, p) => p = kept \/ Within(r, p)
  BY <1>1, RootsArePaths, PlaceIsPath, PathsAssumption, AppendedPart
<1>3. rules # <<>> /\ ~ByUser(o) /\ Within(place[o], place[o])
  BY <1>2, ChangesMeans, WithinOrder DEF ByUser
<1>4. CASE Written(o) \/ Removed(o)
  BY <1>1, <1>2, <1>3, <1>4, MetadataDenied DEF Written, Removed
<1>5. ASSUME NEW a \in Objects, NEW p \in FreePlaces, Carried(o, a, p) PROVE FALSE
  <2>1. /\ place[a] # Absent /\ place[a] \in Paths /\ place[a] \in Path
        /\ Within(place[o], place[a]) /\ Allowed("unlink", place[a], Kind[a])
    BY <1>1, <1>5, PlaceIsPath DEF Carried
  <2>2. ~Within(place[a], kept)
    BY <1>1, <1>2, <1>3, <2>1, MetadataDenied
  <2>3. Within(kept, place[a])
    BY <1>2, <2>1, <2>2, WithinOrder
  <2>4. Within(r, place[a])
    BY <1>2, <2>1, <2>2, <2>3, WithinOrder
  <2>5. place[o] # place[a]
    BY <2>2
  <2>6. Kind[a] = "dir"
    BY <1>1, <2>1, <2>5, AroundIsDir
  <2>7. Anchored(r)
    <3>1. Within(place[o], r)
      BY <1>2, WithinOrder
    <3> QED BY <1>1, <1>2, <3>1, OnlyRootAnchored
  <2> QED BY <1>1, <1>3, <2>1, <2>4, <2>6, <2>7, AroundRootsDenied
<1> QED BY <1>3, <1>4, <1>5, ChangesMeans DEF Made

LEMMA NoNewMetadataSteps ==
    ASSUME BeltInv, [BeltNext]_beltVars, NEW o \in Objects, place'[o] # Absent, ~ByUser(o),
           NEW r \in roots, OnlyIn(place'[o], r), ~Brought(r),
           NEW m \in Metadata, Within(place'[o], Append(r, m))
    PROVE  ~Changed(o)
<1> SUFFICES ASSUME Changed(o) PROVE FALSE
  OBVIOUS
<1> DEFINE kept == Append(r, m)
<1>1. PolicyStands /\ DiskOK /\ rules # <<>>
  BY ChangesMeans DEF BeltInv
<1>2. /\ r \in Path /\ r # Absent
      /\ kept \in Path /\ Within(kept, r) /\ ~Within(r, kept)
      /\ \A p \in Path : Within(kept, p) => p = kept \/ Within(r, p)
  BY <1>1, RootsArePaths, PathsArePaths, PathsAssumption, AppendedPart
<1>3. CASE Written(o)
  BY <1>1, <1>3, MetadataDenied, PlaceIsPath, WithinOrder DEF Written
<1>4. CASE Made(o)
  <2>1. place'[o] \in Paths /\ place'[o] \in Path
    BY <1>4, PathsArePaths DEF Made, FreePlaces
  <2> QED BY <1>1, <1>4, <2>1, MetadataDenied, WithinOrder DEF Made
<1>5. ASSUME NEW a \in Objects, NEW p \in FreePlaces, Carried(o, a, p) PROVE FALSE
  <2>1. /\ p \in Paths /\ p \in Path /\ Missing(p) /\ Allowed("create", p, Kind[a])
        /\ place[a] # Absent /\ place'[a] = p
    BY <1>5, PathsArePaths DEF FreePlaces, Carried
  <2>2. place'[o] \in Path /\ Within(place'[o], p)
    BY <1>1, <1>5, <2>1, PlaceIsPath, MovedPath DEF Carried
  <2>3. ~Within(p, kept)
    BY <1>1, <2>1, <2>2, MetadataDenied
  <2>4. Within(kept, p)
    BY <1>2, <2>1, <2>2, <2>3, WithinOrder
  <2>5. Within(r, p)
    BY <1>2, <2>1, <2>3, <2>4, WithinOrder
  (* The directory comes to lie where the root of its rule is, or below.   *)
  <2>6. ~InScratch(p)
    BY <1>1, <2>1, <2>2, InScratchToo DEF InScratch, OnlyIn
  <2>7. PICK x \in roots : ByRule(p, x)
    BY <1>1, <2>1, <2>6, AllowedMeans DEF InScratch
  <2>8. x = r
    BY <1>1, <2>1, <2>2, <2>7, RootsArePaths, WithinOrder DEF OnlyIn, ByRule
  <2>9. p = r
    BY <1>2, <2>1, <2>5, <2>7, <2>8, WithinOrder DEF ByRule
  <2>10. place[a] # r
    BY <2>1, <2>9 DEF Missing, At
  <2> QED BY <2>1, <2>9, <2>10 DEF Brought
<1> QED BY <1>3, <1>4, <1>5, ChangesMeans DEF Removed

(* What stands in the metadata of a root is neither changed nor joined,    *)
(* wherever the roots lie, as long as no other root and no scratch         *)
(* directory contains it too.                                              *)
THEOREM MetadataUntouchedHolds == BeltSpec => MetadataUntouched
<1>1. BeltInv /\ [BeltNext]_beltVars =>
        [\A o \in Objects : place[o] # Absent /\ Changed(o) =>
           \A r \in roots : InMetadata(place[o], r) => ~OnlyIn(place[o], r)]_beltVars
  BY MetadataKeptSteps DEF InMetadata
<1>2. BeltInv /\ [BeltNext]_beltVars =>
        [\A o \in Objects : place'[o] # Absent /\ Changed(o) /\ ~ByUser(o) =>
           \A r \in roots :
               InMetadata(place'[o], r) => ~OnlyIn(place'[o], r) \/ Brought(r)]_beltVars
  BY NoNewMetadataSteps DEF InMetadata
<1>3. BeltSpec => MetadataKept
  BY <1>1, BeltInvHolds, PTL DEF BeltSpec, MetadataKept
<1>4. BeltSpec => NoNewMetadata
  BY <1>2, BeltInvHolds, PTL DEF BeltSpec, NoNewMetadata
<1> QED BY <1>3, <1>4 DEF MetadataUntouched
=============================================================================
