------------------------------ MODULE MacCapture ------------------------------
(***************************************************************************)
(* A capture on macOS (macos_capture.rs): the command is started as the    *)
(* leader of a process group and polled with a timeout and a cancellation  *)
(* token; then its group is asked to end, given a grace period, and        *)
(* killed, and the readers of its pipes are joined.  A group that may not  *)
(* be signalled as a whole is signalled member by member.                  *)
(***************************************************************************)
EXTENDS CaptureTree

VARIABLE listed     \* members still to be killed one by one

Group == tracked \cap alive

----------------------------------------------------------------------------
(* create_seatbelt_command_args or the spawn may fail.                     *)
SpawnInGroup == (Begin \/ FailToStart) /\ UNCHANGED listed

(* wait_for_child: an exit comes before a cancellation, and that before a  *)
(* timeout.                                                                *)
PollChild ==
    /\ \/ Root \notin alive /\ EndWait("exited", "term")
       \/ Root \in alive /\ cancelled /\ EndWait("cancelled", "term")
       \/ /\ Root \in alive /\ ~cancelled
          /\ request.timeout # None /\ elapsed >= request.timeout
          /\ EndWait("timed out", "term")
    /\ UNCHANGED listed

----------------------------------------------------------------------------
(* ChildProcessGroup.terminate.  A child that has exited has been reaped;  *)
(* otherwise it is waited for.                                             *)
Afterwards == IF outcome = "exited" THEN "join" ELSE "reap"

(* SIGTERM, and later signal 0 to see who is left.  A leader that is dead  *)
(* but not reaped may still count.                                         *)
Term ==
    /\ pc = "term"
    /\ \/ Group = {} /\ pc' = Afterwards
       \/ (Group # {} \/ outcome # "exited") /\ pc' = "grace"
    /\ UNCHANGED <<tree, data, wait, report, listed>>

Grace ==
    /\ pc = "grace"
    /\ pc' = "kill" \/ (Group = {} /\ pc' = Afterwards)
    /\ UNCHANGED <<tree, data, wait, report, listed>>

\* Mutant: only the leader is killed.
KillLeader ==
    /\ pc = "kill"
    /\ pc' = Afterwards /\ doomed' = doomed \cup (Group \cap {Root}) /\ UNCHANGED listed
    /\ UNCHANGED <<alive, born, holders, tracked, data, wait, report>>

(* SIGKILL to the group, or to a list of its members.                      *)
Kill ==
    /\ pc = "kill"
    /\ IF "members" \in request.trouble
       THEN pc' = "members" /\ listed' = Group /\ UNCHANGED doomed
       ELSE pc' = Afterwards /\ doomed' = doomed \cup Group /\ UNCHANGED listed
    /\ UNCHANGED <<alive, born, holders, tracked, data, wait, report>>

(* One member, unless it has left the group meanwhile; the leader last.    *)
KillMember ==
    /\ pc = "members"
    /\ \/ listed = {} /\ pc' = Afterwards /\ UNCHANGED <<doomed, listed>>
       \/ \E p \in listed :
             /\ p = Root => listed = {Root}
             /\ doomed' = doomed \cup (Group \cap {p})
             /\ listed' = listed \ {p} /\ UNCHANGED pc
    /\ UNCHANGED <<alive, born, holders, tracked, data, wait, report>>

(* A signal cannot be sent: the capture fails, and the drop of the group   *)
(* tries to kill it once more.                                             *)
SignalError ==
    /\ "signal" \in request.trouble /\ pc \in {"term", "grace", "kill"} /\ pc' = "done"
    /\ report' = Failure
    /\ doomed' = doomed \/ doomed' = doomed \cup Group
    /\ UNCHANGED <<alive, born, holders, tracked, data, wait, listed>>

Reap ==
    /\ pc = "reap" /\ Root \notin alive /\ pc' = "join"
    /\ UNCHANGED <<tree, data, wait, report, listed>>

----------------------------------------------------------------------------
Escape(p) ==
    /\ "escape" \in request.trouble /\ p \in Group \ (doomed \cup {Root})
    /\ tracked' = tracked \ {p}
    /\ UNCHANGED <<alive, born, doomed, holders, data, wait, report, pc, listed>>

GroupReaders(s) ==
    /\ born # {} /\ pc # "done"
    /\ Read(s) \/ Eof(s, FALSE)
    /\ UNCHANGED <<wait, report, pc, listed>>

MacMain ==
    \/ SpawnInGroup \/ PollChild \/ Term \/ Grace \/ Kill \/ KillMember
    \/ SignalError \/ Reap \/ (Finish /\ UNCHANGED listed)
=============================================================================
