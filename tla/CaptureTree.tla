----------------------------- MODULE CaptureTree -----------------------------
(***************************************************************************)
(* What the captures of a command without a runner have in common: the     *)
(* processes of the command, the pipes they write to, the threads that     *)
(* read the pipes, and the wait of the capture.  WindowsCapture and        *)
(* MacCapture add how a capture starts the command and ends it; Captures   *)
(* puts them together.                                                     *)
(*                                                                         *)
(* Output is counted in chunks and time in ticks of the wait loop.         *)
(***************************************************************************)
EXTENDS Naturals, FiniteSets

CONSTANTS
    Proc, Root,         \* processes a command may consist of; the first one
    Stream, MaxChunks,  \* its output streams; bound: chunks written to each
    Requests,           \* the captures considered
    None                \* no timeout

\* What a capture is given, and what its command may do: its processes and the
\* streams they write to; its timeout, and whether it has a token to cancel
\* it; on macOS, whether processes may leave the group ("escape"), the group
\* cannot be signalled as a whole ("members"), or no signal sent ("signal").
ASSUME CaptureConstants ==
    /\ Root \in Proc /\ Stream # {} /\ None \notin Nat /\ MaxChunks \in Nat
    /\ \A q \in Requests :
          /\ DOMAIN q = {"platform", "procs", "streams", "timeout", "token", "trouble"}
          /\ q.platform \in {"windows", "macos"}
          /\ Root \in q.procs /\ q.procs \subseteq Proc /\ q.streams \subseteq Stream
          /\ q.timeout \in Nat \ {0} \/ q.timeout = None
          /\ q.token \in BOOLEAN /\ q.trouble \subseteq {"escape", "members", "signal"}

VARIABLES
    alive, born,        \* processes that run, and those ever started
    doomed,             \* processes being killed
    holders,            \* processes that hold the pipes open for writing
    tracked,            \* processes in the job, or in the process group
    produced, pipe,     \* per stream: chunks written, chunks in the pipe
    captured, reader,   \* chunks collected by its reader, "reading" or "eof"
    elapsed, cancelled, \* ticks since the wait began; the caller's token
    report,             \* what the caller was told
    pc, outcome,        \* the step of the capture, and how its wait ended
    request             \* what it was given: it never changes

tree == <<alive, born, doomed, holders, tracked>>
data == <<produced, pipe, captured, reader>>
wait == <<elapsed, cancelled, outcome>>

NoReport == [kind |-> "none"]
Failure == [kind |-> "failed"]
Exit(timedOut) == [kind |-> "exit", timedOut |-> timedOut, output |-> captured]

CaptureTypeOK ==
    /\ alive \subseteq born /\ born \subseteq Proc /\ doomed \subseteq Proc
    /\ holders \subseteq alive /\ tracked \subseteq born
    /\ produced \in [Stream -> 0..MaxChunks] /\ captured \in [Stream -> 0..MaxChunks]
    /\ pipe \in [Stream -> 0..MaxChunks] /\ reader \in [Stream -> {"reading", "eof"}]
    /\ elapsed \in Nat /\ cancelled \in BOOLEAN
    /\ report \in {NoReport, Failure} \cup
           [kind : {"exit"}, timedOut : BOOLEAN, output : [Stream -> 0..MaxChunks]]
    /\ pc \in {"new", "wait", "ended", "term", "grace", "kill", "members", "reap",
               "join", "done", "dead"}
    /\ outcome \in {"none", "exited", "timed out", "cancelled"}
    /\ request \in Requests

CaptureInit ==
    /\ alive = {} /\ born = {} /\ doomed = {} /\ holders = {} /\ tracked = {}
    /\ produced = [s \in Stream |-> 0] /\ pipe = [s \in Stream |-> 0]
    /\ captured = [s \in Stream |-> 0] /\ reader = [s \in Stream |-> "reading"]
    /\ elapsed = 0 /\ cancelled = FALSE /\ report = NoReport
    /\ pc = "new" /\ outcome = "none" /\ request \in Requests

(* The command: any process may start another one, which inherits its      *)
(* handles and its group, write, close its handles, and end.               *)
StartRoot ==
    /\ alive' = {Root} /\ born' = {Root} /\ holders' = {Root} /\ tracked' = {Root}
    /\ UNCHANGED doomed

Fork(p) ==
    /\ p \in alive \ doomed
    /\ \E q \in request.procs \ born :
          /\ alive' = alive \cup {q} /\ born' = born \cup {q}
          /\ holders' = IF p \in holders THEN holders \cup {q} ELSE holders
          /\ tracked' = IF p \in tracked THEN tracked \cup {q} ELSE tracked
    /\ UNCHANGED <<doomed, data>>

Close(p) ==
    /\ p \in holders \ doomed /\ holders' = holders \ {p}
    /\ UNCHANGED <<alive, born, doomed, tracked, data>>

Write(p) ==
    /\ p \in holders \ doomed
    /\ \E s \in request.streams :
          /\ produced[s] < MaxChunks
          /\ produced' = [produced EXCEPT ![s] = @ + 1]
          /\ pipe' = [pipe EXCEPT ![s] = @ + 1]
    /\ UNCHANGED <<tree, captured, reader>>

Ends(p) ==
    /\ p \in alive
    /\ alive' = alive \ {p} /\ holders' = holders \ {p}
    /\ UNCHANGED <<born, doomed, tracked, data>>

Dies(p) == p \in doomed /\ Ends(p)

\* The command itself; what a capture kills dies.
CommandStep == \E p \in Proc : Fork(p) \/ Close(p) \/ Write(p) \/ Ends(p)

(* A reader thread, until nobody can write any more.                       *)
Read(s) ==
    /\ reader[s] = "reading" /\ pipe[s] > 0
    /\ pipe' = [pipe EXCEPT ![s] = @ - 1]
    /\ captured' = [captured EXCEPT ![s] = @ + 1]
    /\ UNCHANGED <<tree, produced, reader>>

Eof(s, others) ==
    /\ reader[s] = "reading" /\ pipe[s] = 0 /\ holders = {} /\ ~others
    /\ reader' = [reader EXCEPT ![s] = "eof"]
    /\ UNCHANGED <<tree, produced, pipe, captured>>

Joined == \A s \in Stream : reader[s] = "eof"

----------------------------------------------------------------------------
(* Steps both captures have                                                *)

FailToStart ==
    /\ pc = "new" /\ pc' = "done" /\ report' = Failure
    /\ UNCHANGED <<tree, data, wait>>

Begin ==
    /\ pc = "new" /\ pc' = "wait" /\ StartRoot
    /\ UNCHANGED <<data, wait, report>>

EndWait(o, next) ==
    /\ pc = "wait" /\ pc' = next /\ outcome' = o
    /\ UNCHANGED <<tree, data, elapsed, cancelled, report>>

(* Once the timeout has passed, more time makes no difference.             *)
Tick ==
    /\ pc = "wait" /\ request.timeout # None /\ elapsed < request.timeout
    /\ elapsed' = elapsed + 1
    /\ UNCHANGED <<tree, data, cancelled, outcome, report, pc>>

Cancel ==
    /\ request.token /\ ~cancelled /\ cancelled' = TRUE
    /\ UNCHANGED <<tree, data, elapsed, outcome, report, pc>>

\* Mutant: the caller is told before the readers are done.
FinishEarly ==
    /\ pc = "join" /\ pc' = "done"
    /\ report' = Exit(outcome = "timed out")
    /\ UNCHANGED <<tree, data, wait>>

(* The readers are joined, and the caller is told.                         *)
Finish ==
    /\ pc = "join" /\ Joined /\ pc' = "done"
    /\ report' = Exit(outcome = "timed out")
    /\ UNCHANGED <<tree, data, wait>>
=============================================================================
