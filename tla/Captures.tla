------------------------------ MODULE Captures -------------------------------
(***************************************************************************)
(* A capture of a command without a runner, as the platform it runs on     *)
(* does it: by WindowsCapture or by MacCapture.                            *)
(***************************************************************************)
EXTENDS WindowsCapture, MacCapture

vars == <<tree, data, wait, report, pc, stranger, listed>>

TypeOK == CaptureTypeOK /\ stranger \in {"no", "yes", "gone"} /\ listed \subseteq Proc

OnWindows == request.platform = "windows"

Init == CaptureInit /\ stranger = "no" /\ listed = {}

Main ==
    \/ OnWindows /\ WindowsMain /\ UNCHANGED listed
    \/ ~OnWindows /\ MacMain /\ UNCHANGED stranger

Readers(s) ==
    \/ OnWindows /\ JobReaders(s) /\ UNCHANGED listed
    \/ ~OnWindows /\ GroupReaders(s) /\ UNCHANGED stranger

Command == CommandStep /\ UNCHANGED <<wait, report, pc, stranger, listed>>
Killed == (\E p \in Proc : Dies(p)) /\ UNCHANGED <<wait, report, pc, stranger, listed>>
Time == Tick /\ UNCHANGED <<stranger, listed>>
Strangers == StrangerEnds /\ UNCHANGED listed

Others ==
    \/ Cancel /\ UNCHANGED <<stranger, listed>>
    \/ OnWindows /\ (Crash \/ Inherit) /\ UNCHANGED listed
    \/ ~OnWindows /\ (\E p \in Proc : Escape(p)) /\ UNCHANGED stranger

Over == pc \in {"done", "dead"} /\ UNCHANGED vars

Next ==
    \/ Main \/ Command \/ Killed \/ Time \/ Strangers \/ Others
    \/ (\E s \in Stream : Readers(s))
    \/ Over

Spec == Init /\ [][Next /\ UNCHANGED request]_<<vars, request>>

(* The capture's threads run, time passes, what is killed dies, and a      *)
(* helper of the caller does not run forever.  The command may.            *)
FairSpec ==
    /\ Spec
    /\ WF_vars(Main) /\ WF_vars(Time) /\ WF_vars(Killed) /\ WF_vars(Strangers)
    /\ \A s \in Stream : WF_vars(Readers(s))

----------------------------------------------------------------------------
(* When a capture on Windows has returned, or its process has died, no     *)
(* process of the command goes on (windows_capture.rs,                     *)
(* run_sandbox_capture: the entire sandboxed process tree is terminated).  *)
TreeTerminated == OnWindows /\ pc \in {"done", "dead"} => alive \subseteq doomed

(* When a capture on macOS has returned and could signal the group as a    *)
(* whole, nothing of the group goes on (tests/macos_process_tree.rs: no    *)
(* descendant survives).                                                   *)
NoSurvivors ==
    pc = "done" /\ ~OnWindows /\ report # Failure /\ "members" \notin request.trouble =>
        Group \subseteq doomed

(* A timeout that the wait of this platform counts as it was asked for.    *)
Counted == ~OnWindows \/ request.token \/ request.timeout < Infinite

(* A capture reports a timeout only when the time has passed.              *)
TimeoutInTime ==
    report.kind = "exit" /\ report.timedOut /\ Counted => elapsed >= request.timeout

(* A report has all the command ever wrote, a timeout's too: the readers   *)
(* end after the last process.                                             *)
OutputComplete == report.kind = "exit" => report.output = produced

(* What the properties above rest on: where the capture of each platform   *)
(* may be; that a report is made once, from what the readers collected;    *)
(* that output is in a pipe or collected, and a reader ends after the last *)
(* process that could write; that what the capture tracks is what it has   *)
(* killed when it comes to an end; that a wait times out in time.          *)
StageFacts ==
    /\ IF OnWindows THEN pc \in {"new", "wait", "ended", "join", "done", "dead"}
                    ELSE pc \notin {"ended", "dead"}
    /\ pc = "new" => born = {}
    /\ born = {} => pc \in {"new", "done"}
    /\ pc = "members" => "members" \in request.trouble
ReportFacts ==
    /\ pc # "done" => report = NoReport
    /\ report.kind = "exit" => /\ born # {} /\ Joined /\ report.output = captured
                               /\ report.timedOut => outcome = "timed out"
OutputFacts == \A s \in Stream :
    /\ captured[s] + pipe[s] = produced[s]
    /\ reader[s] = "eof" => born # {} /\ holders = {} /\ pipe[s] = 0
TreeFacts ==
    /\ OnWindows => alive \subseteq tracked
    /\ OnWindows /\ pc \in {"join", "done", "dead"} => alive \subseteq doomed
    /\ /\ ~OnWindows /\ "members" \notin request.trouble
       /\ pc \in {"reap", "join"} \/ (pc = "done" /\ report # Failure)
       => Group \subseteq doomed
TimeFacts == outcome = "timed out" =>
    request.timeout # None /\ (Counted => elapsed >= request.timeout)
CaptureFacts == StageFacts /\ ReportFacts /\ OutputFacts /\ TreeFacts /\ TimeFacts

(* The invariant of a capture on either platform: it is well typed, leaves *)
(* nothing running, and reports the truth about time and output.           *)
CaptureInv == TypeOK /\ TreeTerminated /\ NoSurvivors /\ TimeoutInTime /\ OutputComplete

(* A capture with a timeout returns, or one that is cancelled, whatever    *)
(* the command's processes do, and on macOS so does one whose command has  *)
(* exited though others of its group live on, if none of them escapes.     *)
Ending ==
    \/ (request.timeout # None /\ Counted) \/ cancelled
    \/ ~OnWindows /\ Root \notin alive
Returns ==
    (pc = "wait" /\ Ending /\ request.trouble \subseteq {"signal"}) ~> pc \in {"done", "dead"}

(* Both are runs of a command as CommandRun has it.                        *)
Phase == IF born = {} THEN "pending" ELSE IF holders = {} THEN "ended" ELSE "running"
Abstract == INSTANCE CommandRun WITH phase <- Phase
ImplementsCommandRun == Abstract!Spec
=============================================================================
