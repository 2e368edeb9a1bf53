---------------------------- MODULE RunnerSession ----------------------------
(***************************************************************************)
(* One elevated capture (src/src/elevated_impl.rs): the parent logs on as  *)
(* the sandbox user, starts the command runner, hands it the request and   *)
(* reads frames until the exit frame; the runner                           *)
(* (src/src/bin/command_runner/win.rs) starts the command in a job object, *)
(* copies its output into frames and watches for exit and timeout, while   *)
(* its input thread obeys the terminate frame of the parent's cancel       *)
(* writer.                                                                 *)
(*                                                                         *)
(* Output is counted in chunks.  The command is any process tree: a root   *)
(* that may start one descendant, each of which may write, close its       *)
(* standard handles, and end or not.  Time is abstract: every timeout may  *)
(* expire whenever its wait is pending.                                    *)
(***************************************************************************)
EXTENDS Naturals, Sequences, FiniteSets, FiniteSetsExt

CONSTANTS
    Stream,         \* output streams of the command
    MaxChunks,      \* bound: chunks written to the streams
    PipeRoom,       \* capacity of a pipe: frames, or chunks
    HasTimeout,     \* the request has a timeout
    Crashes         \* parent and runner may be killed from outside

ASSUME SessionConstants ==
    /\ Stream # {}
    /\ MaxChunks \in Nat
    /\ PipeRoom \in Nat \ {0}
    /\ HasTimeout \in BOOLEAN
    /\ Crashes \in BOOLEAN

VARIABLES
    parent, attempt,    \* the capturing process, its spawn attempt
    writer,             \* its cancel writer thread
    cancelled,          \* the caller's cancellation token
    captured, report,   \* output collected so far; what the caller was told
    toRunner, toParent, \* the two pipes
    runner,             \* the runner's main thread
    reader,             \* its output reader threads
    timedOut, preserved, \* timeout seen; kill-on-close cleared
    started,            \* how often the command was started
    alive, doomed,      \* processes of the command; those being killed
    holders,            \* processes that hold the output pipes open
    forked,             \* the root has started its descendant
    pipe, written,      \* stream -> chunks in its pipe, chunks written
    jobFails            \* the job object calls of this session may fail

session == <<parent, attempt, writer, captured, report>>
ipc == <<toRunner, toParent>>
run == <<runner, reader, timedOut, preserved, started>>
tree == <<alive, doomed, holders, forked>>
data == <<pipe, written>>
vars == <<parent, attempt, writer, cancelled, captured, report, toRunner, toParent,
          runner, reader, timedOut, preserved, started, alive, doomed, holders,
          forked, pipe, written>>

Process == {"root", "child"}
Command(p) == [kind |-> "exit", timedOut |-> p]
Ready == [kind |-> "ready"]
Output(s) == [kind |-> "output", stream |-> s]
Failed(refreshable) == [kind |-> "error", refreshable |-> refreshable]
Frame == {Ready} \cup {Output(s) : s \in Stream} \cup {Failed(b) : b \in BOOLEAN}
         \cup {Command(b) : b \in BOOLEAN}

\* The runner's threads run; after "exited" only the process end is left.
Running == {"watching", "terminating", "draining", "exiting"}
RunnerUp == Running \cup {"started", "spawned", "failed", "exited"}
ParentUp == {"logon", "refresh", "connecting", "waiting", "capturing", "joining"}

NoReport == [kind |-> "none"]
Failure == [kind |-> "failed"]
Exit(b, output) == [kind |-> "exit", timedOut |-> b, output |-> output]

TypeOK ==
    /\ parent \in ParentUp \cup {"done", "crashed"}
    /\ attempt \in 1..2
    /\ writer \in {"none", "polling", "gone"}
    /\ cancelled \in BOOLEAN
    /\ captured \in [Stream -> Nat]
    /\ report \in {NoReport, Failure} \cup
                  [kind : {"exit"}, timedOut : BOOLEAN, output : [Stream -> Nat]]
    /\ toRunner \in Seq({"request", "terminate"})
    /\ toParent \in Seq(Frame)
    /\ runner \in RunnerUp \cup {"none", "killed", "dead"}
    /\ reader \in [Stream -> {"none", "reading", "holding", "ended"}]
    /\ timedOut \in BOOLEAN
    /\ preserved \in BOOLEAN
    /\ started \in Nat
    /\ alive \subseteq Process
    /\ doomed \subseteq alive
    /\ holders \subseteq alive
    /\ forked \in BOOLEAN
    /\ pipe \in [Stream -> 0..PipeRoom]
    /\ written \in [Stream -> Nat]

Init ==
    /\ parent = "logon" /\ attempt = 1
    /\ writer = "none" /\ cancelled = FALSE
    /\ captured = [s \in Stream |-> 0] /\ report = NoReport
    /\ toRunner = <<>> /\ toParent = <<>>
    /\ runner = "none" /\ reader = [s \in Stream |-> "none"]
    /\ timedOut = FALSE /\ preserved = FALSE /\ started = 0
    /\ alive = {} /\ doomed = {} /\ holders = {} /\ forked = FALSE
    /\ pipe = [s \in Stream |-> 0] /\ written = [s \in Stream |-> 0]
    /\ jobFails \in BOOLEAN

----------------------------------------------------------------------------
(* The parent: logon, handshake, one retry (runner_client.rs).             *)

\* Mutant: any failure of the first attempt is retried.
RetryAnyFailure(refreshable) ==
    IF attempt = 1
    THEN parent' = "refresh" /\ UNCHANGED <<attempt, writer, captured, report>>
    ELSE parent' = "done" /\ report' = Failure /\ UNCHANGED <<attempt, writer, captured>>

(* An error of an attempt: retry_runner_spawn_once refreshes the           *)
(* credentials and spawns again, once, when the error says that they were  *)
(* refused.                                                                *)
AttemptFails(refreshable) ==
    IF refreshable /\ attempt = 1
    THEN parent' = "refresh" /\ UNCHANGED <<attempt, writer, captured, report>>
    ELSE parent' = "done" /\ report' = Failure /\ UNCHANGED <<attempt, writer, captured>>

(* CreateProcessWithLogonW with fresh pipes.                               *)
Logon ==
    /\ parent = "logon"
    /\ \/ /\ parent' = "connecting"
          /\ runner' = "started"
          /\ toRunner' = <<>> /\ toParent' = <<>>
          /\ UNCHANGED <<attempt, writer, captured, report>>
       \/ /\ \E refreshable \in BOOLEAN : AttemptFails(refreshable)
          /\ UNCHANGED <<runner, ipc>>
    /\ UNCHANGED <<cancelled, reader, timedOut, preserved, started, tree, data>>

(* refresh_logon_sandbox_creds, which may fail.                            *)
Refresh ==
    /\ parent = "refresh"
    /\ \/ parent' = "logon" /\ attempt' = attempt + 1 /\ report' = report
       \/ parent' = "done" /\ attempt' = attempt /\ report' = Failure
    /\ UNCHANGED <<writer, cancelled, captured, ipc, run, tree, data>>

(* TerminateProcess on the runner, which takes effect later.               *)
KillRunner == runner' = IF runner \in RunnerUp THEN "killed" ELSE runner

(* Both pipes connected, the spawn request sent.                           *)
Connect ==
    /\ parent = "connecting"
    /\ runner = "started"
    /\ parent' = "waiting"
    /\ toRunner' = Append(toRunner, "request")
    /\ UNCHANGED <<attempt, writer, cancelled, captured, report, toParent, run, tree, data>>

ConnectFails ==
    /\ parent = "connecting"
    /\ KillRunner
    /\ AttemptFails(FALSE)
    /\ UNCHANGED <<cancelled, ipc, reader, timedOut, preserved, started, tree, data>>

ReadReady ==
    /\ parent = "waiting"
    /\ toParent # <<>> /\ Head(toParent) = Ready
    /\ toParent' = Tail(toParent)
    /\ parent' = "capturing"
    /\ writer' = "polling"
    /\ UNCHANGED <<attempt, cancelled, captured, report, toRunner, run, tree, data>>

ReadStartupError ==
    /\ parent = "waiting"
    /\ toParent # <<>> /\ Head(toParent).kind = "error"
    /\ KillRunner
    /\ AttemptFails(Head(toParent).refreshable)
    /\ UNCHANGED <<cancelled, ipc, reader, timedOut, preserved, started, tree, data>>

(* 15 s without a complete frame, or a broken pipe.                        *)
ReadyTimeout ==
    /\ parent = "waiting"
    /\ toParent = <<>>
    /\ KillRunner
    /\ AttemptFails(FALSE)
    /\ UNCHANGED <<cancelled, ipc, reader, timedOut, preserved, started, tree, data>>

(* The capture loop (elevated_impl.rs).                                    *)
ReadOutput ==
    /\ parent = "capturing"
    /\ toParent # <<>> /\ Head(toParent).kind = "output"
    /\ captured' = [captured EXCEPT ![Head(toParent).stream] = @ + 1]
    /\ toParent' = Tail(toParent)
    /\ UNCHANGED <<parent, attempt, writer, cancelled, report, toRunner, run, tree, data>>

(* The loop ends with a result; the cancel writer is then told to stop and *)
(* joined before the result is returned.                                   *)
ReadExit ==
    /\ parent = "capturing"
    /\ toParent # <<>> /\ Head(toParent).kind = "exit"
    /\ parent' = "joining"
    /\ report' = Exit(Head(toParent).timedOut, captured)
    /\ toParent' = Tail(toParent)
    /\ UNCHANGED <<attempt, writer, cancelled, captured, toRunner, run, tree, data>>

ReadEof ==
    /\ parent = "capturing"
    /\ toParent = <<>> /\ runner = "dead"
    /\ parent' = "joining"
    /\ report' = Failure
    /\ UNCHANGED <<attempt, writer, cancelled, captured, ipc, run, tree, data>>

JoinWriter ==
    /\ parent = "joining"
    /\ writer = "gone"
    /\ parent' = "done"
    /\ UNCHANGED <<attempt, writer, cancelled, captured, report, ipc, run, tree, data>>

(* The cancel writer polls the token; it may have seen the done flag unset *)
(* before the loop ended.  A frame to a runner that is gone is lost.       *)
SendTerminate ==
    /\ writer = "polling" /\ parent \in ParentUp
    /\ cancelled
    /\ writer' = "gone"
    /\ toRunner' = IF runner \in RunnerUp THEN Append(toRunner, "terminate") ELSE toRunner
    /\ UNCHANGED <<parent, attempt, cancelled, captured, report, toParent, run, tree, data>>

StopWriter ==
    /\ writer = "polling"
    /\ parent = "joining"
    /\ writer' = "gone"
    /\ UNCHANGED <<parent, attempt, cancelled, captured, report, ipc, run, tree, data>>

----------------------------------------------------------------------------
(* The runner (bin/command_runner/win.rs).                                 *)

(* A frame reaches the parent unless it has closed the pipe; a full pipe   *)
(* blocks the writing thread.                                              *)
Listening == parent \in ParentUp
Send(frame) ==
    IF Listening THEN /\ Len(toParent) < PipeRoom
                      /\ toParent' = Append(toParent, frame)
    ELSE toParent' = toParent

(* read_spawn_request and spawn_ipc_process: the command is created inside *)
(* the job.                                                                *)
SpawnChild ==
    /\ runner = "started"
    /\ toRunner # <<>> /\ Head(toRunner) = "request"
    /\ toRunner' = Tail(toRunner)
    /\ runner' = "spawned"
    /\ started' = started + 1
    /\ alive' = {"root"} /\ holders' = {"root"}
    /\ UNCHANGED <<session, cancelled, toParent, reader, timedOut, preserved, doomed, forked, data>>

SpawnFails ==
    /\ runner = "started"
    /\ toRunner # <<>> /\ Head(toRunner) = "request"
    /\ toRunner' = Tail(toRunner)
    /\ runner' = "failed"
    /\ \E refreshable \in BOOLEAN : Send(Failed(refreshable))
    /\ UNCHANGED <<session, cancelled, reader, timedOut, preserved, started, tree, data>>

(* The pipes break before the request has been read.                       *)
RequestLost ==
    /\ runner = "started"
    /\ ~Listening
    /\ runner' = "failed"
    /\ UNCHANGED <<session, cancelled, ipc, reader, timedOut, preserved, started, tree, data>>

(* SpawnReady, then the reader and input threads.  A parent that has gone  *)
(* makes the runner fail.                                                  *)
SendReady ==
    /\ runner = "spawned"
    /\ Send(Ready)
    /\ IF Listening
       THEN runner' = "watching" /\ reader' = [s \in Stream |-> "reading"]
       ELSE runner' = "failed" /\ reader' = reader
    /\ UNCHANGED <<session, cancelled, toRunner, timedOut, preserved, started, tree, data>>

(* The reader threads: read_handle_loop around one frame per chunk.        *)
ReadChunk(s) ==
    /\ runner \in Running
    /\ reader[s] = "reading"
    /\ pipe[s] > 0
    /\ pipe' = [pipe EXCEPT ![s] = @ - 1]
    /\ reader' = [reader EXCEPT ![s] = "holding"]
    /\ UNCHANGED <<session, cancelled, ipc, runner, timedOut, preserved, started, tree, written>>

\* Mutant: a chunk that finds the pipe full is dropped.
DropChunk(s) ==
    /\ runner \in Running
    /\ reader[s] = "holding"
    /\ toParent' = IF Len(toParent) < PipeRoom THEN Append(toParent, Output(s)) ELSE toParent
    /\ reader' = [reader EXCEPT ![s] = "reading"]
    /\ UNCHANGED <<session, cancelled, toRunner, runner, timedOut, preserved, started, tree, data>>

SendChunk(s) ==
    /\ runner \in Running
    /\ reader[s] = "holding"
    /\ Send(Output(s))
    /\ reader' = [reader EXCEPT ![s] = "reading"]
    /\ UNCHANGED <<session, cancelled, toRunner, runner, timedOut, preserved, started, tree, data>>

ReadEnd(s) ==
    /\ runner \in Running
    /\ reader[s] = "reading"
    /\ pipe[s] = 0 /\ holders = {}
    /\ reader' = [reader EXCEPT ![s] = "ended"]
    /\ UNCHANGED <<session, cancelled, ipc, runner, timedOut, preserved, started, tree, data>>

\* Mutant: only the root is killed, not the job.
TerminateRoot == doomed' = doomed \cup ({"root"} \cap alive)

(* terminate_job_or_process: the whole tree, or at best the root when the  *)
(* job cannot be terminated.                                               *)
Terminate ==
    \/ doomed' = alive
    \/ jobFails /\ \E killed \in SUBSET {"root"} : doomed' = doomed \cup (killed \cap alive)

(* The input thread gets a terminate frame.                                *)
ObeyTerminate ==
    /\ runner \in Running
    /\ toRunner # <<>> /\ Head(toRunner) = "terminate"
    /\ toRunner' = Tail(toRunner)
    /\ Terminate
    /\ UNCHANGED <<session, cancelled, toParent, run, alive, holders, forked, data>>

\* Mutant: preserve_descendants is not called.
RootExitedKeepsJob ==
    /\ runner = "watching"
    /\ "root" \notin alive
    /\ runner' = "draining"
    /\ UNCHANGED <<session, cancelled, ipc, reader, timedOut, preserved, started, tree, data>>

RootExited ==
    /\ runner = "watching"
    /\ "root" \notin alive
    /\ preserved' \in {TRUE, ~jobFails}
    /\ runner' = "draining"
    /\ UNCHANGED <<session, cancelled, ipc, reader, timedOut, started, tree, data>>

Timeout ==
    /\ HasTimeout
    /\ runner = "watching"
    /\ "root" \in alive
    /\ timedOut' = TRUE
    /\ Terminate
    /\ runner' = "terminating"
    /\ UNCHANGED <<session, cancelled, ipc, reader, preserved, started, alive, holders, forked, data>>

(* The root is gone within TERMINATION_WAIT_MS, or the readers are not     *)
(* waited for.                                                             *)
RootTerminated ==
    /\ runner = "terminating"
    /\ runner' = IF "root" \in alive THEN "exiting" ELSE "draining"
    /\ UNCHANGED <<session, cancelled, ipc, reader, timedOut, preserved, started, tree, data>>

Drained ==
    /\ runner = "draining"
    /\ \A s \in Stream : reader[s] = "ended"
    /\ runner' = "exiting"
    /\ UNCHANGED <<session, cancelled, ipc, reader, timedOut, preserved, started, tree, data>>

SendExit ==
    /\ runner = "exiting"
    /\ Send(Command(timedOut))
    /\ runner' = "exited"
    /\ UNCHANGED <<session, cancelled, toRunner, reader, timedOut, preserved, started, tree, data>>

(* The end of the runner process closes the last handle of the job.        *)
RunnerEnds ==
    /\ runner' = "dead"
    /\ doomed' = IF preserved THEN doomed ELSE alive
    /\ UNCHANGED <<session, cancelled, ipc, reader, timedOut, preserved, started,
                   alive, holders, forked, data>>

ProcessExit == runner \in {"failed", "exited", "killed"} /\ RunnerEnds
RunnerCrash == Crashes /\ runner \in RunnerUp /\ RunnerEnds

----------------------------------------------------------------------------
(* Outside: the caller's token, a parent that is killed, and the command.  *)
Cancel ==
    /\ ~cancelled
    /\ cancelled' = TRUE
    /\ UNCHANGED <<session, ipc, run, tree, data>>

ParentCrash ==
    /\ Crashes
    /\ parent \in ParentUp
    /\ parent' = "crashed"
    /\ UNCHANGED <<attempt, writer, cancelled, captured, report, ipc, run, tree, data>>

Active(p) == p \in alive \ doomed

Chunks == FoldSet(LAMBDA s, n : written[s] + n, 0, Stream)

Write(p, s) ==
    /\ Active(p) /\ p \in holders
    /\ Chunks < MaxChunks /\ pipe[s] < PipeRoom
    /\ written' = [written EXCEPT ![s] = @ + 1]
    /\ pipe' = [pipe EXCEPT ![s] = @ + 1]
    /\ UNCHANGED <<session, cancelled, ipc, run, tree>>

Fork ==
    /\ Active("root") /\ ~forked
    /\ forked' = TRUE
    /\ alive' = alive \cup {"child"}
    /\ holders' = IF "root" \in holders THEN holders \cup {"child"} ELSE holders
    /\ UNCHANGED <<session, cancelled, ipc, run, doomed, data>>

CloseOutput(p) ==
    /\ Active(p) /\ p \in holders
    /\ holders' = holders \ {p}
    /\ UNCHANGED <<session, cancelled, ipc, run, alive, doomed, forked, data>>

(* A process ends by itself, or because it is killed.                      *)
Ends(p) ==
    /\ p \in alive
    /\ alive' = alive \ {p}
    /\ doomed' = doomed \ {p}
    /\ holders' = holders \ {p}
    /\ UNCHANGED <<session, cancelled, ipc, run, forked, data>>

ParentStep ==
    \/ Logon \/ Refresh \/ Connect \/ ConnectFails \/ ReadReady \/ ReadStartupError
    \/ ReadyTimeout \/ ReadOutput \/ ReadExit \/ ReadEof \/ JoinWriter
WriterStep == SendTerminate \/ StopWriter
MainStep ==
    \/ SpawnChild \/ SpawnFails \/ RequestLost \/ SendReady
    \/ RootExited \/ RootTerminated \/ Drained \/ SendExit \/ ProcessExit
ReaderStep(s) == ReadChunk(s) \/ SendChunk(s) \/ ReadEnd(s)
Environment ==
    \/ Cancel \/ ParentCrash \/ RunnerCrash
    \/ Fork
    \/ \E p \in Process : CloseOutput(p) \/ Ends(p) \/ \E s \in Stream : Write(p, s)

Next ==
    \/ ParentStep \/ WriterStep
    \/ MainStep \/ Timeout \/ ObeyTerminate
    \/ \E s \in Stream : ReaderStep(s)
    \/ Environment

Spec == Init /\ [][Next /\ UNCHANGED jobFails]_<<vars, jobFails>>

(* Every thread of parent and runner keeps running and its timeouts expire;*)
(* what is being killed dies.  Nothing is asked of the command itself.     *)
FairSpec ==
    /\ Spec
    /\ WF_vars(ParentStep) /\ WF_vars(WriterStep)
    /\ WF_vars(MainStep) /\ WF_vars(Timeout) /\ WF_vars(ObeyTerminate)
    /\ \A s \in Stream : WF_vars(ReaderStep(s))
    /\ \A p \in Process : WF_vars(p \in doomed /\ Ends(p))

----------------------------------------------------------------------------
(* Whatever fails and is retried, the command runs at most once            *)
(* (retry_runner_spawn_once retries only what did not start it).           *)
CommandOnce == started <= 1

(* The caller of a command that was not timed out gets everything that was *)
(* written to the pipes, and nobody can write more: the exit frame follows *)
(* the last output frame (the joins before the exit frame).                *)
CompleteOutput ==
    report.kind = "exit" /\ ~report.timedOut =>
        /\ report.output = written
        /\ holders = {}

(* The root of the command never survives its runner: only descendants of  *)
(* a root that has exited do (preserve_descendants is not called before).  *)
RootNotOrphaned == runner = "dead" /\ "root" \in alive => "root" \in doomed

(* The invariant of a session: one start, whole output, no orphaned root.  *)
SessionInv == TypeOK /\ CommandOnce /\ CompleteOutput /\ RootNotOrphaned

(* What SessionInv rests on, inductive.  Before the command is started     *)
(* nothing of it is there, and an attempt that may be retried has not      *)
(* started it.                                                             *)
StartFacts ==
    /\ started <= 1
    /\ runner \in {"none", "started"} => started = 0
    /\ parent \in {"logon", "refresh"} => started = 0 /\ runner \in {"none", "killed", "dead"}
    /\ started = 0 =>
          /\ runner \in {"none", "started", "failed", "killed", "dead"}
          /\ alive = {} /\ ~preserved /\ report.kind # "exit"
          /\ \A s \in Stream : /\ reader[s] = "none"
                               /\ pipe[s] = 0 /\ written[s] = 0 /\ captured[s] = 0

(* The parent retries once and reports once, after the capture loop.       *)
ParentFacts ==
    /\ parent = "refresh" => attempt = 1
    /\ parent \in ParentUp \ {"joining"} => report = NoReport

(* An error frame comes from a runner that started nothing, every other    *)
(* frame from one that did, the exit frame last and after the readers.     *)
FrameFacts ==
    /\ runner \in {"none", "started", "spawned"} => toParent = <<>>
    /\ \A i \in 1..Len(toParent) :
          /\ toParent[i].kind = "error" =>
                started = 0 /\ runner \in {"failed", "killed", "dead"}
          /\ toParent[i].kind # "error" => started = 1
          /\ toParent[i].kind = "exit" =>
                /\ i = Len(toParent) /\ runner \in {"exited", "killed", "dead"}
                /\ ~toParent[i].timedOut => \A s \in Stream : reader[s] = "ended"

(* A reader ends when nobody can write to its pipe any more, and a runner  *)
(* that is not pressed by a timeout exits after its readers.               *)
ReaderFacts ==
    /\ runner = "spawned" => \A s \in Stream : reader[s] = "none"
    /\ runner \in {"exiting", "exited"} /\ ~timedOut => \A s \in Stream : reader[s] = "ended"
    /\ \A s \in Stream : reader[s] = "ended" => pipe[s] = 0 /\ holders = {}

(* No chunk is lost or doubled on its way to a parent that listens.        *)
OutputsIn(q, s) == Cardinality({i \in 1..Len(q) : q[i] = Output(s)})
HeldBy(r) == IF r = "holding" THEN 1 ELSE 0
Conserved ==
    Listening => \A s \in Stream :
        captured[s] + OutputsIn(toParent, s) + HeldBy(reader[s]) + pipe[s] = written[s]

(* Kill-on-close is cleared only when the root is gone, and, where the job *)
(* calls work, whenever it exited by itself.                               *)
JobFacts ==
    /\ preserved => "root" \notin alive
    /\ runner = "terminating" => timedOut
    /\ runner \in {"draining", "exiting", "exited"} /\ ~timedOut /\ ~jobFails => preserved

SessionFacts ==
    /\ StartFacts /\ ParentFacts /\ FrameFacts /\ ReaderFacts /\ Conserved /\ JobFacts
    /\ CompleteOutput /\ RootNotOrphaned

(* A runner that has seen the root exit does not kill the descendants by   *)
(* ending, unless it had to give up on a timeout.                          *)
DescendantsSurvive ==
    [][runner = "exited" /\ runner' = "dead" /\ ~timedOut /\ ~jobFails
          => doomed' = doomed]_vars

(* A cancelled capture returns, whatever the command does, where the job   *)
(* object calls work.                                                      *)
CancelEnds == (cancelled /\ ~jobFails) ~> parent \notin ParentUp

(* A timed-out command is gone in the end, with its descendants, where the *)
(* job object calls work.                                                  *)
TimedOutTreeDies == (timedOut /\ ~jobFails) ~> alive = {}

(* A handshake that failed leaves no command behind, not even one that was *)
(* started too late for it (TerminateProcess in spawn_runner_transport and *)
(* the runner's kill-on-close job).                                        *)
FailedStartLeavesNothing ==
    (parent = "done" /\ writer = "none" /\ ~jobFails) ~> alive = {}

(* Whatever ends a session early, a cancel, a timeout or a failed start,   *)
(* ends it, and the last two end the command too.                          *)
EarlyEndsEnd == CancelEnds /\ TimedOutTreeDies /\ FailedStartLeavesNothing

(* The session implements CommandRun.                                      *)
Phase == IF started = 0 THEN "pending" ELSE IF holders # {} THEN "running" ELSE "ended"
Abstract == INSTANCE CommandRun WITH phase <- Phase, produced <- written
ImplementsCommandRun == Abstract!Spec
=============================================================================
