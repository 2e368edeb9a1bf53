------------------------------ MODULE PipeConnect ------------------------------
(***************************************************************************)
(* How the parent of an elevated command connects the two pipes to the     *)
(* runner it has just launched (runner_client.rs, runner_pipe.rs).         *)
(* ConnectNamedPipe has no timeout, so a thread of its own makes the call  *)
(* and the parent cancels it when it waits too long.  Several sessions of  *)
(* one process run at once, and share its handle table: a handle that is   *)
(* closed is the number of the next one created.                           *)
(*                                                                         *)
(* RunnerSession takes a connection as one step that succeeds or fails.    *)
(***************************************************************************)
EXTENDS Integers, FiniteSets

CONSTANTS
    None,
    Sessions,
    Handles,        \* the handle table of the process
    Settings        \* which sessions there are, whose runners get to open a
                    \* pipe, and a bound on pipes that somebody else opens

States == {"runner", "stranger", "started", "in", "out", "dead", "starting", "published",
           "blocked", "connected", "reporting", "ended", "ok", "error"}

ASSUME HandlesAssumption ==
    /\ Handles \subseteq Nat /\ IsFiniteSet(Handles) /\ IsFiniteSet(Sessions)
    /\ Cardinality(Handles) >= 2 * Cardinality(Sessions)
    /\ None \notin Handles /\ None \notin Sessions \X {"in", "out"} /\ None \notin States
    /\ Settings \subseteq [sessions : SUBSET Sessions, open : SUBSET Sessions, strangers : Nat]

Pipes == {"in", "out"}

VARIABLES
    pc,         \* where the parent's thread of a session is
    cur,        \* the pipe it is connecting
    owner,      \* the pipe a handle stands for: <<session, pipe>> or None
    handle,     \* the handles a session's parent holds as integers
    client,     \* who has opened a pipe
    runner,     \* the runner process of a session
    thr,        \* the connect threads
    arg,        \* the handle a connect thread was given
    used,       \* the pipe a connect thread is blocked on
    res,        \* what a connect thread has sent
    dup,        \* duplicated thread handles that are open
    setting     \* the setting: it never changes

parentVars == <<pc, cur>>
threadVars == <<thr, arg, used, res>>
vars == <<pc, cur, owner, handle, client, runner, thr, arg, used, res, dup>>

Free == {h \in Handles : owner[h] = None}
NextFree == CHOOSE h \in Free : \A g \in Free : h <= g
Open(pipe) == \E h \in Handles : owner[h] = pipe

Init ==
    /\ setting \in Settings
    /\ pc = [s \in Sessions |-> IF s \in setting.sessions THEN "idle" ELSE "failed"]
    /\ cur = [s \in Sessions |-> "in"]
    /\ owner = [h \in Handles |-> None]
    /\ handle = [s \in Sessions |-> [p \in Pipes |-> None]]
    /\ client = [q \in Sessions \X Pipes |-> None]
    /\ runner = [s \in Sessions |-> None]
    /\ thr = [q \in Sessions \X Pipes |-> None]
    /\ arg = [q \in Sessions \X Pipes |-> None]
    /\ used = [q \in Sessions \X Pipes |-> None]
    /\ res = [q \in Sessions \X Pipes |-> None]
    /\ dup = [q \in Sessions \X Pipes |-> FALSE]

Goto(s, there) == pc' = [pc EXCEPT ![s] = there]

-----------------------------------------------------------------------------
(* The parent: spawn_runner_transport. *)

(* create_named_pipe, twice.  The second one is taken to succeed.            *)
CreateIn(s) ==
    /\ pc[s] = "idle"
    /\ \/ /\ owner' = [owner EXCEPT ![NextFree] = <<s, "in">>]
          /\ handle' = [handle EXCEPT ![s]["in"] = NextFree]
          /\ Goto(s, "create")
       \/ /\ Goto(s, "failed")
          /\ UNCHANGED <<owner, handle>>
    /\ UNCHANGED <<cur, client, runner, threadVars, dup>>

CreateOut(s) ==
    /\ pc[s] = "create"
    /\ owner' = [owner EXCEPT ![NextFree] = <<s, "out">>]
    /\ handle' = [handle EXCEPT ![s]["out"] = NextFree]
    /\ Goto(s, "launch")
    /\ UNCHANGED <<cur, client, runner, threadVars, dup>>

(* CreateProcessWithLogonW; without a process only the pipes are closed.     *)
Launch(s) ==
    /\ pc[s] = "launch"
    /\ \/ runner' = [runner EXCEPT ![s] = "started"] /\ Goto(s, "connect")
       \/ Goto(s, "close") /\ UNCHANGED runner
    /\ UNCHANGED <<cur, owner, handle, client, threadVars, dup>>

(* connect_pipe_with_timeout: the thread, then the handle it publishes.      *)
StartThread(s) ==
    /\ pc[s] = "connect"
    /\ thr' = [thr EXCEPT ![<<s, cur[s]>>] = "starting"]
    /\ arg' = [arg EXCEPT ![<<s, cur[s]>>] = handle[s][cur[s]]]
    /\ Goto(s, "publish")
    /\ UNCHANGED <<cur, owner, handle, client, runner, used, res, dup>>

TakeHandle(s) ==
    /\ pc[s] = "publish"
    /\ \/ dup[<<s, cur[s]>>] /\ Goto(s, "wait")
       \/ ~dup[<<s, cur[s]>>] /\ thr[<<s, cur[s]>>] = "ended" /\ Goto(s, "kill")
    /\ UNCHANGED <<cur, owner, handle, client, runner, threadVars, dup>>

(* What the result of the thread makes the parent do: the next pipe, the     *)
(* handshake, or the end.                                                    *)
Outcome(s) ==
    /\ dup' = [dup EXCEPT ![<<s, cur[s]>>] = FALSE]
    /\ IF res[<<s, cur[s]>>] # "ok" THEN Goto(s, "kill") /\ UNCHANGED cur
       ELSE IF cur[s] = "in"
       THEN Goto(s, "connect") /\ cur' = [cur EXCEPT ![s] = "out"]
       ELSE Goto(s, "handshake") /\ UNCHANGED cur
    /\ UNCHANGED <<owner, handle, client, runner, threadVars>>

GiveUp(s) ==
    /\ dup' = [dup EXCEPT ![<<s, cur[s]>>] = FALSE]
    /\ Goto(s, "kill")
    /\ UNCHANGED <<cur, owner, handle, client, runner>>

(* A message within RUNNER_PIPE_CONNECT_TIMEOUT, then the thread is joined.  *)
Receive(s) ==
    /\ pc[s] = "wait"
    /\ res[<<s, cur[s]>>] # None /\ thr[<<s, cur[s]>>] = "ended"
    /\ Outcome(s)

TimeOut(s) ==
    /\ pc[s] = "wait" /\ res[<<s, cur[s]>>] = None
    /\ Goto(s, "late")
    /\ UNCHANGED <<cur, owner, handle, client, runner, threadVars, dup>>

(* try_take_completed_connect_result, before the cancellation.               *)
FirstLook(s) ==
    /\ pc[s] = "late"
    /\ IF thr[<<s, cur[s]>>] = "ended" THEN Outcome(s)
       ELSE /\ Goto(s, "cancel")
            /\ UNCHANGED <<cur, owner, handle, client, runner, threadVars, dup>>

(* CancelSynchronousIo finds a call to cancel only while one is blocked.     *)
Cancel(s) ==
    /\ pc[s] = "cancel"
    /\ IF thr[<<s, cur[s]>>] = "blocked"
       THEN /\ thr' = [thr EXCEPT ![<<s, cur[s]>>] = "reporting"]
            /\ used' = [used EXCEPT ![<<s, cur[s]>>] = None]
            /\ res' = [res EXCEPT ![<<s, cur[s]>>] = "error"]
            /\ UNCHANGED arg
            /\ GiveUp(s)
       ELSE /\ Goto(s, "look")
            /\ UNCHANGED <<cur, owner, handle, client, runner, threadVars, dup>>

(* ERROR_NOT_FOUND: it may be done by now.  It is not joined.                *)
SecondLook(s) ==
    /\ pc[s] = "look"
    /\ IF thr[<<s, cur[s]>>] = "ended" THEN Outcome(s)
       ELSE GiveUp(s) /\ UNCHANGED threadVars

(* A spawn request and its answer; or any failure of either.                 *)
Handshake(s) ==
    /\ pc[s] = "handshake"
    /\ \/ runner[s] = "out" /\ Goto(s, "ready")
       \/ Goto(s, "kill")
    /\ UNCHANGED <<cur, owner, handle, client, runner, threadVars, dup>>

(* TerminateProcess, with the process handle kept until now.                 *)
Kill(s) ==
    /\ pc[s] = "kill"
    /\ Goto(s, "close")
    /\ runner' = [runner EXCEPT ![s] = "dead"]
    /\ UNCHANGED <<cur, owner, handle, client, threadVars, dup>>

\* One of the pipes is forgotten.
CloseIn(s) ==
    /\ pc[s] = "close"
    /\ owner' = [owner EXCEPT ![handle[s]["in"]] = None]
    /\ handle' = [handle EXCEPT ![s] = [p \in Pipes |-> None]]
    /\ Goto(s, "failed")
    /\ UNCHANGED <<cur, client, runner, threadVars, dup>>

\* The handles are closed by hand, and once more when the transport is dropped.
CloseTwice(s) ==
    /\ \/ pc[s] = "close" /\ UNCHANGED handle
       \/ pc[s] = "failed" /\ handle' = [handle EXCEPT ![s] = [p \in Pipes |-> None]]
    /\ owner' = [h \in Handles |-> IF \E p \in Pipes : handle[s][p] = h THEN None ELSE owner[h]]
    /\ Goto(s, "failed")
    /\ UNCHANGED <<cur, client, runner, threadVars, dup>>

Close(s) ==
    /\ pc[s] = "close"
    /\ owner' = [h \in Handles |-> IF \E p \in Pipes : handle[s][p] = h THEN None ELSE owner[h]]
    /\ handle' = [handle EXCEPT ![s] = [p \in Pipes |-> None]]
    /\ Goto(s, "failed")
    /\ UNCHANGED <<cur, client, runner, threadVars, dup>>

Parent(s) ==
    \/ CreateIn(s) \/ CreateOut(s) \/ Launch(s) \/ StartThread(s) \/ TakeHandle(s)
    \/ Receive(s) \/ TimeOut(s) \/ FirstLook(s) \/ Cancel(s) \/ SecondLook(s)
    \/ Handshake(s) \/ Kill(s) \/ Close(s)

-----------------------------------------------------------------------------
(* A connect thread.  The handle it was given is a number: by the time it    *)
(* is used the parent may have closed it, and it may stand for another pipe. *)

Publish(s, p) ==
    /\ thr[<<s, p>>] = "starting"
    /\ \/ thr' = [thr EXCEPT ![<<s, p>>] = "published"] /\ dup' = [dup EXCEPT ![<<s, p>>] = TRUE]
       \/ thr' = [thr EXCEPT ![<<s, p>>] = "ended"] /\ UNCHANGED dup
    /\ UNCHANGED <<parentVars, owner, handle, client, runner, arg, used, res>>

ThreadTo(s, p, there) ==
    /\ thr' = [thr EXCEPT ![<<s, p>>] = there]
    /\ UNCHANGED <<parentVars, owner, handle, client, runner, arg, dup>>

Send(s, p, r) ==
    /\ res' = [res EXCEPT ![<<s, p>>] = r]
    /\ used' = [used EXCEPT ![<<s, p>>] = None]
    /\ ThreadTo(s, p, "reporting")

Alive(pipe) == client[pipe] = "runner" => runner[pipe[1]] # "dead"

(* ConnectNamedPipe: on a closed handle, on a pipe a client has opened       *)
(* (ERROR_PIPE_CONNECTED) or opened and left, or a call that blocks.         *)
Call(s, p) ==
    LET o == owner[arg[<<s, p>>]]
    IN /\ thr[<<s, p>>] = "published"
       /\ \/ o = None /\ Send(s, p, "error")
          \/ o # None /\ client[o] # None /\ ~Alive(o) /\ Send(s, p, "error")
          \/ /\ o # None /\ client[o] # None /\ Alive(o)
             /\ ThreadTo(s, p, "connected") /\ UNCHANGED <<used, res>>
          \/ /\ o # None /\ client[o] = None
             /\ used' = [used EXCEPT ![<<s, p>>] = o]
             /\ ThreadTo(s, p, "blocked") /\ UNCHANGED res

(* A blocked call ends when a client comes or the pipe is closed.            *)
Unblock(s, p) ==
    /\ thr[<<s, p>>] = "blocked"
    /\ \/ ~Open(used[<<s, p>>]) /\ Send(s, p, "error")
       \/ /\ Open(used[<<s, p>>]) /\ client[used[<<s, p>>]] # None
          /\ used' = [used EXCEPT ![<<s, p>>] = None]
          /\ ThreadTo(s, p, "connected") /\ UNCHANGED res

\* Whoever has opened the pipe will do.
CheckAny(s, p) ==
    /\ thr[<<s, p>>] = "connected"
    /\ Send(s, p, IF owner[arg[<<s, p>>]] # None THEN "ok" ELSE "error")

\* The thread owns its handle: it closes the number when the client is not the runner.
CheckCloses(s, p) ==
    LET o == owner[arg[<<s, p>>]]
        own == o # None /\ o[1] = s /\ client[o] = "runner"
    IN /\ thr[<<s, p>>] = "connected"
       /\ res' = [res EXCEPT ![<<s, p>>] = IF own THEN "ok" ELSE "error"]
       /\ owner' = IF own THEN owner ELSE [owner EXCEPT ![arg[<<s, p>>]] = None]
       /\ thr' = [thr EXCEPT ![<<s, p>>] = "reporting"]
       /\ UNCHANGED <<parentVars, handle, client, runner, arg, used, dup>>

(* GetNamedPipeClientProcessId against the process launched.                 *)
Check(s, p) ==
    LET o == owner[arg[<<s, p>>]]
    IN /\ thr[<<s, p>>] = "connected"
       /\ Send(s, p, IF o # None /\ o[1] = s /\ client[o] = "runner" THEN "ok" ELSE "error")

EndThread(s, p) ==
    /\ thr[<<s, p>>] = "reporting"
    /\ ThreadTo(s, p, "ended")
    /\ UNCHANGED <<used, res>>

Thread(s, p) == Publish(s, p) \/ Call(s, p) \/ Unblock(s, p) \/ Check(s, p) \/ EndThread(s, p)

-----------------------------------------------------------------------------
(* The runner opens one pipe and then the other; it exits where it cannot,   *)
(* and may die anywhere.                                                     *)
Opens(s, p, here, next) ==
    /\ runner[s] = here
    /\ s \in setting.open
    /\ IF Open(<<s, p>>) /\ client[<<s, p>>] = None
       THEN /\ client' = [client EXCEPT ![<<s, p>>] = "runner"]
            /\ runner' = [runner EXCEPT ![s] = next]
       ELSE runner' = [runner EXCEPT ![s] = "dead"] /\ UNCHANGED client
    /\ UNCHANGED <<parentVars, owner, handle, threadVars, dup>>

RunnerDies(s) ==
    /\ runner[s] \in {"started", "in", "out"}
    /\ runner' = [runner EXCEPT ![s] = "dead"]
    /\ UNCHANGED <<parentVars, owner, handle, client, threadVars, dup>>

Runner(s) == Opens(s, "in", "started", "in") \/ Opens(s, "out", "in", "out") \/ RunnerDies(s)

(* External: another process of the sandbox user opens a pipe, as the        *)
(* descriptor of the pipe lets it.                                           *)
Stranger(q) ==
    /\ Open(q) /\ client[q] = None
    /\ Cardinality({r \in DOMAIN client : client[r] = "stranger"}) < setting.strangers
    /\ client' = [client EXCEPT ![q] = "stranger"]
    /\ UNCHANGED <<parentVars, owner, handle, runner, threadVars, dup>>

AllDone == \A s \in Sessions : pc[s] \in {"ready", "failed"}

Next ==
    \/ \E s \in Sessions :
          \/ Parent(s) \/ Runner(s)
          \/ \E p \in Pipes : Thread(s, p) \/ Stranger(<<s, p>>)
    \/ AllDone /\ UNCHANGED vars

Spec == Init /\ [][Next /\ UNCHANGED setting]_<<vars, setting>>

(* A thread that can go on does, and a timeout expires.  Neither the runner  *)
(* nor anybody else has to open a pipe.                                      *)
FairSpec ==
    /\ Spec
    /\ \A s \in Sessions :
          /\ WF_vars(Parent(s))
          /\ \A p \in Pipes : WF_vars(Thread(s, p))

-----------------------------------------------------------------------------
Places == {"idle", "create", "launch", "connect", "publish", "wait", "late", "cancel", "look",
           "handshake", "kill", "close", "ready", "failed"}
ThreadPlaces == {None, "starting", "published", "blocked", "connected", "reporting", "ended"}

(* Every variable has its type, and a thread that runs has its handle. *)
TypeOK ==
    /\ pc \in [Sessions -> Places]
    /\ cur \in [Sessions -> Pipes]
    /\ owner \in [Handles -> (Sessions \X Pipes) \cup {None}]
    /\ handle \in [Sessions -> [Pipes -> Handles \cup {None}]]
    /\ client \in [Sessions \X Pipes -> {None, "runner", "stranger"}]
    /\ runner \in [Sessions -> {None, "started", "in", "out", "dead"}]
    /\ thr \in [Sessions \X Pipes -> ThreadPlaces]
    /\ arg \in [Sessions \X Pipes -> Handles \cup {None}]
    /\ \A q \in Sessions \X Pipes : arg[q] = None <=> thr[q] = None
    /\ used \in [Sessions \X Pipes -> (Sessions \X Pipes) \cup {None}]
    /\ res \in [Sessions \X Pipes -> {None, "ok", "error"}]
    /\ dup \in [Sessions \X Pipes -> BOOLEAN]
    /\ setting \in Settings

(* A spawn request, and the transport that is returned, speak to the process *)
(* that was launched on both pipes, whoever else has opened one and whatever *)
(* a late thread of another session does to the handle (connect_pipe).       *)
PeersAreRunner ==
    \A s \in Sessions : pc[s] \in {"handshake", "ready"} =>
        \A p \in Pipes : client[<<s, p>>] = "runner" /\ owner[handle[s][p]] = <<s, p>>

(* A launch that fails leaves no runner behind, however far it got           *)
(* (spawn_runner_transport).                                                 *)
NoStrayRunner ==
    \A s \in Sessions : pc[s] = "failed" => runner[s] \in {None, "dead"}

(* A session's pipes are open as long as it goes on, and closed when it has  *)
(* failed: another session's cleanup never closes one of them, although      *)
(* handles are numbers used again, and no thread handle stays open.          *)
HandlesHeld ==
    \A s \in Sessions :
        /\ pc[s] \notin {"idle", "create", "failed"} =>
              \A p \in Pipes : handle[s][p] # None /\ owner[handle[s][p]] = <<s, p>>
        /\ pc[s] = "failed" => \A p \in Pipes : ~Open(<<s, p>>) /\ ~dup[<<s, p>>]

(* What the proofs need besides.  A parent holds handles from the creation *)
(* of its pipes to their closing, starts its runner after them and ends it *)
(* before; it goes on to the next pipe when its runner has opened one.     *)
ParentFacts(s) ==
    /\ pc[s] \in {"idle", "failed"} => \A p \in Pipes : handle[s][p] = None
    /\ pc[s] = "create" => handle[s]["in"] # None /\ handle[s]["out"] = None
    /\ pc[s] \notin {"idle", "create", "failed"} => \A p \in Pipes : handle[s][p] # None
    /\ pc[s] \in {"idle", "create", "launch"} =>
          runner[s] = None /\ \A p \in Pipes : thr[<<s, p>>] = None
    /\ pc[s] \in {"close", "failed"} => runner[s] \in {None, "dead"}
    /\ cur[s] = "out" => client[<<s, "in">>] = "runner"
    /\ pc[s] \in {"handshake", "ready"} => cur[s] = "out" /\ client[<<s, "out">>] = "runner"

(* The number a thread was given is its session's handle until it is       *)
(* closed, whoever has the number afterwards.                              *)
ThreadFacts(s, p) ==
    /\ thr[<<s, p>>] = "starting" => pc[s] = "publish" /\ cur[s] = p
    /\ dup[<<s, p>>] => pc[s] \in {"publish", "wait", "late", "cancel", "look"} /\ cur[s] = p
    /\ dup[<<s, p>>] => thr[<<s, p>>] # "starting"
    /\ arg[<<s, p>>] # None => handle[s][p] \in {arg[<<s, p>>], None}
    /\ res[<<s, p>>] = "ok" => client[<<s, p>>] = "runner"

(* The handle table and what the parents hold are the same.                *)
TableFacts ==
    /\ \A s \in Sessions, p \in Pipes : handle[s][p] # None => owner[handle[s][p]] = <<s, p>>
    /\ \A h \in Handles, s \in Sessions, p \in Pipes : owner[h] = <<s, p>> => handle[s][p] = h

(* As long as the handle is held the thread is in the call for its own pipe, *)
(* and what it reports comes of that pipe.                                   *)
FailureFacts(s, p) ==
    /\ thr[<<s, p>>] = None => used[<<s, p>>] = None /\ res[<<s, p>>] = None
    /\ thr[<<s, p>>] = "blocked" => used[<<s, p>>] # None
    /\ handle[s][p] # None =>
          /\ used[<<s, p>>] \in {None, <<s, p>>}
          /\ thr[<<s, p>>] = "connected" => client[<<s, p>>] # None
          /\ res[<<s, p>>] = "error" =>
                client[<<s, p>>] = "stranger" \/ runner[s] = "dead" \/ pc[s] = "kill"

PipeFacts ==
    /\ TableFacts
    /\ \A s \in Sessions : ParentFacts(s) /\ \A p \in Pipes : ThreadFacts(s, p)
    /\ \A s \in Sessions, p \in Pipes : FailureFacts(s, p)

(* What a launch holds it owns, and what it started or opened it takes back  *)
(* when it fails.                                                            *)
PipesInv == TypeOK /\ NoStrayRunner /\ HandlesHeld

(* While a parent still waits, its thread reports a failure only for a       *)
(* reason of this launch: somebody else has opened the pipe, or its own      *)
(* runner has died.  What other launches cancel, close and create meanwhile, *)
(* and their late threads with numbers that now stand for this pipe, make no *)
(* connection of it fail (connect_pipe_with_timeout).                        *)
FailuresOwn ==
    \A s \in Sessions :
        (pc[s] \in {"wait", "late", "cancel", "look"} /\ res[<<s, cur[s]>>] = "error") =>
            client[<<s, cur[s]>>] = "stranger" \/ runner[s] = "dead"

(* A launch comes to an end though nobody ever opens a pipe: nothing the     *)
(* parent waits for waits for the runner.                                    *)
Returns == \A s \in Sessions : <>(pc[s] \in {"ready", "failed"})

(* A connect thread ends, also one the parent has given up and not joined:   *)
(* closing the pipes lets the blocked connect unwind                         *)
(* (connect_pipe_with_timeout).                                              *)
ThreadsEnd ==
    \A s \in Sessions, p \in Pipes : (thr[<<s, p>>] = "starting") ~> (thr[<<s, p>>] = "ended")

(* Launches end, and so do the threads they leave behind.                    *)
ConnectsEnd == Returns /\ ThreadsEnd
=============================================================================
