---------------------------- MODULE WindowsCapture ----------------------------
(***************************************************************************)
(* A capture on Windows without elevation (windows_capture.rs): the        *)
(* command is started inside a job object (process.rs, job.rs), waited for *)
(* with a timeout and perhaps a cancellation token, and when the wait is   *)
(* over the last handle of the job is closed, which kills what is left of  *)
(* the command, so that the readers of its pipes come to an end.           *)
(*                                                                         *)
(* Between the creation of the pipes and the closing of the capture's own  *)
(* write ends another thread of the caller may start a process that        *)
(* inherits them (Command::spawn has no handle list).                      *)
(***************************************************************************)
EXTENDS CaptureTree

CONSTANT Wrap      \* the wait's milliseconds are taken modulo Wrap: 2^32 in the source

ASSUME WindowsConstants == Wrap \in Nat \ {0}

VARIABLE stranger   \* the process that inherited the pipes: "no", "yes", "gone"

----------------------------------------------------------------------------
(* spawn_process_with_pipes, create_process_as_user: the process is in the *)
(* job from its first moment on.                                           *)
SpawnInJob == (Begin \/ FailToStart) /\ UNCHANGED stranger

Inherit ==
    /\ pc = "new" /\ stranger = "no" /\ stranger' = "yes"
    /\ UNCHANGED <<tree, data, wait, report, pc>>

StrangerEnds ==
    /\ stranger = "yes" /\ stranger' = "gone"
    /\ UNCHANGED <<tree, data, wait, report, pc>>

(* wait_for_process without a token waits once, for the milliseconds cut   *)
(* to what a wait can hold, the largest of which is forever; with one, in  *)
(* slices, for all of them.                                                *)
Infinite == Wrap - 1
Waits == IF request.token THEN request.timeout ELSE request.timeout % Wrap
Endless == request.timeout = None \/ (~request.token /\ Waits = Infinite)

Expired == ~Endless /\ elapsed >= Waits

(* Each pass of the loop looks at the token, the time and the process.      *)
WaitInJob ==
    /\ \/ Root \notin alive /\ EndWait("exited", "ended")
       \/ Expired /\ EndWait("timed out", "ended")
       \/ cancelled /\ EndWait("cancelled", "ended")
    /\ UNCHANGED stranger

\* Mutant: a handle of the job is kept until the readers are joined.
KeepJob ==
    /\ pc = "ended" /\ pc' = "join"
    /\ doomed' = IF outcome = "exited" THEN doomed ELSE doomed \cup (tracked \cap alive)
    /\ UNCHANGED <<alive, born, holders, tracked, data, wait, report, stranger>>

(* The job is terminated, or if that fails its first process, unless it    *)
(* has exited; then the last handle of the job is closed.                  *)
CloseJob ==
    /\ pc = "ended" /\ pc' = "join"
    /\ doomed' = doomed \cup (tracked \cap alive)
    /\ UNCHANGED <<alive, born, holders, tracked, data, wait, report, stranger>>

(* The calling process is killed: its handles of the job are closed.       *)
Crash ==
    /\ pc \in {"wait", "ended", "join"} /\ pc' = "dead"
    /\ doomed' = doomed \cup (tracked \cap alive)
    /\ UNCHANGED <<alive, born, holders, tracked, data, wait, report, stranger>>

JobReaders(s) ==
    /\ pc \in {"wait", "ended", "join"}
    /\ Read(s) \/ Eof(s, stranger = "yes")
    /\ UNCHANGED <<wait, report, pc, stranger>>

WindowsMain == SpawnInJob \/ WaitInJob \/ CloseJob \/ (Finish /\ UNCHANGED stranger)
=============================================================================
