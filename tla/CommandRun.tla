----------------------------- MODULE CommandRun -----------------------------
(***************************************************************************)
(* What an elevated capture promises its caller, without runner, pipes or  *)
(* threads: the command is started at most once, and an exit that is not a *)
(* timeout is reported with everything the command wrote, when nobody is   *)
(* left that could write more.                                             *)
(***************************************************************************)
EXTENDS Naturals

CONSTANT Stream     \* the command's output streams

VARIABLES
    phase,          \* "pending", "running" or "ended": who may still write
    produced,       \* stream -> chunks written so far
    report          \* NoReport, or what the caller was told

vars == <<phase, produced, report>>

NoReport == [kind |-> "none"]
Failure == [kind |-> "failed"]
Exit(timedOut, output) == [kind |-> "exit", timedOut |-> timedOut, output |-> output]

Init ==
    /\ phase = "pending"
    /\ produced = [s \in Stream |-> 0]
    /\ report = NoReport

Start ==
    /\ phase = "pending"
    /\ phase' = "running"
    /\ UNCHANGED <<produced, report>>

Produce(s) ==
    /\ phase = "running"
    /\ produced' = [produced EXCEPT ![s] = @ + 1]
    /\ UNCHANGED <<phase, report>>

End ==
    /\ phase = "running"
    /\ phase' = "ended"
    /\ UNCHANGED <<produced, report>>

ReportExit ==
    /\ phase = "ended"
    /\ report = NoReport
    /\ report' = Exit(FALSE, produced)
    /\ UNCHANGED <<phase, produced>>

(* After a timeout the output may lack what was written last.              *)
ReportTimeout ==
    /\ phase # "pending"
    /\ report = NoReport
    /\ report'.kind = "exit" /\ report' = Exit(TRUE, report'.output)
    /\ \A s \in Stream : report'.output[s] <= produced[s]
    /\ UNCHANGED <<phase, produced>>

ReportFailure ==
    /\ report = NoReport
    /\ report' = Failure
    /\ UNCHANGED <<phase, produced>>

Next ==
    \/ Start
    \/ \E s \in Stream : Produce(s)
    \/ End
    \/ ReportExit
    \/ ReportTimeout
    \/ ReportFailure

Spec == Init /\ [][Next]_vars
=============================================================================
