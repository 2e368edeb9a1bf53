------------------------------ MODULE LogonCreds ------------------------------
(***************************************************************************)
(* How an elevated capture gets the credentials of a sandbox account       *)
(* (src/src/identity.rs): it checks the marker and the users file of its   *)
(* home and the accounts of the machine, runs a setup when one of them is  *)
(* not right, refreshes ACLs, logs on, and after a refused logon removes   *)
(* the users file and does it all once more.                               *)
(*                                                                         *)
(* Captures of several processes share the home; those of one process that *)
(* ask for the same settings share a setup run (SetupFlight).  A run is    *)
(* here what SetupProvision is in detail: it invalidates the marker, draws *)
(* new passwords under the machine's lock, records them and commits the    *)
(* marker, and can fail before each of these.  Other homes rotate the      *)
(* passwords too, an uninstall disables the accounts, and a recorded       *)
(* password may stop being readable.  Reads of the files and queries of    *)
(* the accounts can fail; what cannot be read counts as missing, an        *)
(* account that cannot be queried as fine.                                 *)
(***************************************************************************)
EXTENDS Naturals

CONSTANTS
    Client, Process,    \* captures and processes
    Ports,              \* proxy ports
    Calls,              \* who may call: per capture what it is called with
    None,               \* no marker that can be used
    MaxGen              \* bound: generations of passwords

Settings == [ports : SUBSET Ports, binding : BOOLEAN]

\* The process of a capture, the settings of its environment, the account it
\* logs on to, and whether it keeps the settings of the marker.
CaptureCall == [process : Process, want : Settings, offline : BOOLEAN, preserve : BOOLEAN]

ASSUME CredsConstants ==
    /\ Calls \subseteq [Client -> CaptureCall]
    /\ None \notin Settings
    /\ MaxGen \in Nat \ {0}

\* A run that captures share: what its payload tells apart.
SharedRun == Process \X Settings

VARIABLES
    marker,         \* setup_marker.json: its settings, or None
    users,          \* sandbox_users.json: the generation it records, or 0
    garbled,        \* the passwords in it cannot be decoded
    password,       \* the generation the accounts have
    enabled,        \* the accounts exist and are not disabled
    last,           \* the last generation drawn
    run, drawn,     \* per flight: its step, the generation it has drawn
    stage,
    desired,        \* per capture: the settings it asks setup for
    creds,          \* per capture: the generation it holds, or 0
    retried,        \* per capture: it is on its second attempt
    disturbed,      \* history: others touched what this attempt depends on
    unseen,         \* history: a look of this attempt at accounts or files failed
    call            \* what the captures are called with: it never changes

machine == <<password, enabled, last>>
home == <<marker, users, garbled>>
setup == <<run, drawn>>
local == <<desired, creds, retried>>
credsVars == <<home, machine, setup, stage, local, disturbed, unseen>>

\* Outcomes of a call: a logon, a refused logon, no identity after setup, no
\* sandbox group for the ACL refresh, a helper that failed by itself, a
\* password that cannot be decoded, a users file that cannot be deleted.
Outcome == {"done", "refused", "notready", "nogroup", "helper", "undecoded", "undeleted"}

CredsTypeOK ==
    /\ marker \in Settings \cup {None}
    /\ users \in 0..MaxGen /\ password \in 0..MaxGen /\ last \in 0..MaxGen
    /\ enabled \in BOOLEAN /\ garbled \in BOOLEAN
    /\ run \in [SharedRun -> {"none", "begin", "rotate", "write", "commit", "verify"}]
    /\ drawn \in [SharedRun -> 0..MaxGen]
    /\ stage \in [Client -> Outcome \cup {"idle", "check", "marker", "users", "accounts",
                  "setup", "waiting", "remarker", "reusers", "refresh", "logon", "remove"}]
    /\ desired \in [Client -> Settings]
    /\ creds \in [Client -> 0..MaxGen]
    /\ retried \in [Client -> BOOLEAN]
    /\ disturbed \in [Client -> BOOLEAN] /\ unseen \in [Client -> BOOLEAN]
    /\ call \in [Client -> CaptureCall]

\* A home that was never set up, on a machine where another home was.
CredsInit ==
    /\ marker = None /\ users = 0 /\ garbled = FALSE
    /\ password \in {0, 1} /\ last = password /\ enabled = (password # 0)
    /\ run = [f \in SharedRun |-> "none"] /\ drawn = [f \in SharedRun |-> 0]
    /\ stage = [c \in Client |-> "idle"]
    /\ call \in Calls
    /\ desired = [c \in Client |-> call[c].want]
    /\ creds = [c \in Client |-> 0]
    /\ retried = [c \in Client |-> FALSE]
    /\ disturbed = [c \in Client |-> FALSE] /\ unseen = [c \in Client |-> FALSE]

Go(c, step) == stage' = [stage EXCEPT ![c] = step]
FlightOf(c) == <<call[c].process, desired[c]>>
Waiting(f) == {c \in Client : stage[c] = "waiting" /\ FlightOf(c) = f}

\* Everybody is disturbed but those who wait for this flight.
DisturbBut(calm) ==
    disturbed' = [c \in Client |-> disturbed[c] \/ c \notin calm]

----------------------------------------------------------------------------
(* require_logon_sandbox_creds                                             *)

\* Mutant: only the ports are compared.
SamePorts(c, m, s) == call[c].offline => m.ports = s.ports

(* SetupMarker::request_mismatch_reason finds nothing wrong.               *)
Matches(c, m, s) ==
    call[c].offline => m.binding = s.binding /\ (m.binding \/ m.ports = s.ports)

(* offline_proxy_settings_from_env; online captures want no ports open.    *)
FromEnv(c) == IF call[c].offline THEN call[c].want ELSE [ports |-> {}, binding |-> FALSE]

(* desired_offline_proxy_settings                                          *)
Desired(c, m) == IF call[c].preserve /\ m # None THEN m ELSE FromEnv(c)

Start(c) ==
    /\ stage[c] \in Outcome \cup {"idle"}
    /\ Go(c, "check")
    /\ creds' = [creds EXCEPT ![c] = 0]
    /\ retried' = [retried EXCEPT ![c] = FALSE]
    /\ disturbed' = [disturbed EXCEPT ![c] = FALSE]
    /\ unseen' = [unseen EXCEPT ![c] = FALSE]
    /\ UNCHANGED <<home, machine, setup, desired>>

(* load_marker takes a marker that it cannot read for missing.             *)
CheckMarker(c) ==
    /\ stage[c] = "check"
    /\ \E m \in {marker, None} :
          /\ desired' = [desired EXCEPT ![c] = Desired(c, m)]
          /\ Go(c, IF m # None /\ Matches(c, m, Desired(c, m)) THEN "marker" ELSE "setup")
    /\ UNCHANGED <<home, machine, setup, creds, retried, disturbed, unseen>>

\* A file is missing or cannot be read: there is no identity, which asks for
\* a setup before there was one, and is noticed only at the end after it.
NoIdentity(c, before, missing) ==
    /\ Go(c, IF stage[c] = before THEN "setup" ELSE "refresh")
    /\ unseen' = [unseen EXCEPT ![c] = @ \/ (stage[c] # before /\ ~missing)]

(* select_identity reads the marker and the users file once more; a        *)
(* password that cannot be decoded ends the call.                          *)
SelectMarker(c) ==
    /\ stage[c] \in {"marker", "remarker"}
    /\ \/ /\ marker # None
          /\ Go(c, IF stage[c] = "marker" THEN "users" ELSE "reusers")
          /\ unseen' = unseen
       \/ NoIdentity(c, "marker", marker = None)
    /\ UNCHANGED <<home, machine, setup, local, disturbed>>

SelectUsers(c) ==
    /\ stage[c] \in {"users", "reusers"}
    /\ \/ /\ users # 0 /\ ~garbled
          /\ Go(c, IF stage[c] = "users" THEN "accounts" ELSE "refresh")
          /\ creds' = [creds EXCEPT ![c] = users] /\ unseen' = unseen
       \/ /\ users # 0 /\ garbled
          /\ Go(c, "undecoded") /\ UNCHANGED <<creds, unseen>>
       \/ /\ NoIdentity(c, "users", users = 0)
          /\ creds' = [creds EXCEPT ![c] = 0]
    /\ UNCHANGED <<home, machine, setup, desired, retried, disturbed>>

\* Mutant: the accounts are not looked at.
SkipAccounts(c) ==
    /\ stage[c] = "accounts"
    /\ Go(c, "refresh")
    /\ UNCHANGED <<home, machine, setup, local, disturbed, unseen>>

(* An account that is missing or disabled asks for a setup; one whose      *)
(* query fails does not.                                                   *)
CheckAccounts(c) ==
    /\ stage[c] = "accounts"
    /\ \/ Go(c, "refresh") /\ creds' = creds
          /\ unseen' = [unseen EXCEPT ![c] = @ \/ ~enabled]
       \/ /\ ~enabled /\ Go(c, "setup")
          /\ creds' = [creds EXCEPT ![c] = 0] /\ unseen' = unseen
    /\ UNCHANGED <<home, machine, setup, desired, retried, disturbed>>

(* run_elevated_setup_with_proxy_settings: lead a flight or join one.  A   *)
(* run that is under way already may have written what it writes.          *)
RequestSetup(c) ==
    /\ stage[c] = "setup"
    /\ Go(c, "waiting")
    /\ run' = [run EXCEPT ![FlightOf(c)] = IF @ = "none" THEN "begin" ELSE @]
    /\ disturbed' = [disturbed EXCEPT ![c] = @ \/ run[FlightOf(c)] \notin {"none", "begin"}]
    /\ UNCHANGED <<home, machine, drawn, local, unseen>>

(* The ACL refresh, whose helper looks up the sandbox users group, which   *)
(* an uninstall removes with the accounts or leaves; then "setup is        *)
(* missing or out of date" if there is no identity.                        *)
Refresh(c) ==
    /\ stage[c] = "refresh"
    /\ \/ Go(c, "helper")
       \/ ~enabled /\ Go(c, "nogroup")
       \/ Go(c, IF creds[c] = 0 THEN "notready" ELSE "logon")
    /\ UNCHANGED <<home, machine, setup, local, disturbed, unseen>>

----------------------------------------------------------------------------
(* retry_runner_spawn_once and refresh_logon_sandbox_creds                 *)

Logon(c) ==
    /\ stage[c] = "logon"
    /\ Go(c, IF enabled /\ creds[c] = password THEN "done"
             ELSE IF retried[c] THEN "refused" ELSE "remove")
    /\ UNCHANGED <<home, machine, setup, local, disturbed, unseen>>

\* What the first attempt found is forgotten with its users file.
RemoveUsers(c) ==
    /\ stage[c] = "remove"
    /\ \/ /\ Go(c, "check")
          /\ users' = 0 /\ garbled' = FALSE
          /\ retried' = [retried EXCEPT ![c] = TRUE]
          /\ creds' = [creds EXCEPT ![c] = 0]
          /\ disturbed' = [d \in Client |-> d # c]
          /\ unseen' = [unseen EXCEPT ![c] = FALSE]
       \/ /\ Go(c, "undeleted")
          /\ UNCHANGED <<users, garbled, retried, creds, disturbed, unseen>>
    /\ UNCHANGED <<marker, machine, setup, desired>>

----------------------------------------------------------------------------
(* The setup run of a flight                                               *)

BeginRun(f) ==
    /\ run[f] = "begin"
    /\ run' = [run EXCEPT ![f] = "rotate"]
    /\ marker' = None
    /\ DisturbBut(Waiting(f))
    /\ UNCHANGED <<users, garbled, machine, drawn, stage, local, unseen>>

\* The machine's lock is held from the passwords to the users file.
Locked == \E f \in SharedRun : run[f] = "write"

Rotate(f) ==
    /\ run[f] = "rotate" /\ ~Locked /\ last < MaxGen
    /\ run' = [run EXCEPT ![f] = "write"]
    /\ drawn' = [drawn EXCEPT ![f] = last + 1]
    /\ last' = last + 1 /\ password' = last + 1
    /\ DisturbBut(Waiting(f))
    /\ UNCHANGED <<home, enabled, stage, local, unseen>>

(* The accounts are enabled under the same lock, once they are protected.  *)
WriteUsers(f) ==
    /\ run[f] = "write"
    /\ run' = [run EXCEPT ![f] = "commit"]
    /\ users' = drawn[f] /\ garbled' = FALSE
    /\ enabled' = TRUE
    /\ DisturbBut(Waiting(f))
    /\ UNCHANGED <<marker, password, last, drawn, stage, local, unseen>>

CommitMarker(f) ==
    /\ run[f] = "commit"
    /\ run' = [run EXCEPT ![f] = "verify"]
    /\ marker' = f[2]
    /\ DisturbBut(Waiting(f))
    /\ UNCHANGED <<users, garbled, machine, drawn, stage, local, unseen>>

\* Mutant: only one of those who wait is told.
TellOne(f, step) ==
    /\ run' = [run EXCEPT ![f] = "none"]
    /\ drawn' = [drawn EXCEPT ![f] = 0]
    /\ \E c \in Waiting(f) : Go(c, step)

\* All who wait get the result of the run.
Tell(f, step) ==
    /\ run' = [run EXCEPT ![f] = "none"]
    /\ drawn' = [drawn EXCEPT ![f] = 0]
    /\ stage' = [c \in Client |-> IF c \in Waiting(f) THEN step ELSE stage[c]]

(* verify_setup_completed; a setup that looks incomplete, be it that a     *)
(* file cannot be read, is an error for all.                               *)
VerifyRun(f) ==
    /\ run[f] = "verify"
    /\ LET complete == marker # None /\ users # 0 IN
       \/ complete /\ Tell(f, "remarker") /\ unseen' = unseen
       \/ /\ Tell(f, "notready")
          /\ unseen' = [c \in Client |-> unseen[c] \/ (complete /\ c \in Waiting(f))]
    /\ UNCHANGED <<home, machine, local, disturbed>>

RunFails(f) ==
    /\ run[f] \in {"begin", "rotate", "write", "commit"}
    /\ Tell(f, "helper")
    /\ UNCHANGED <<home, machine, local, disturbed, unseen>>

----------------------------------------------------------------------------
(* Other homes and the uninstall, both under the lock, and whatever makes  *)
(* a recorded password unreadable                                          *)

OtherHome ==
    /\ ~Locked /\ last < MaxGen
    /\ last' = last + 1 /\ password' = last + 1 /\ enabled' = TRUE
    /\ DisturbBut({})
    /\ UNCHANGED <<home, setup, stage, local, unseen>>

Uninstall ==
    /\ ~Locked /\ enabled
    /\ enabled' = FALSE
    /\ DisturbBut({})
    /\ UNCHANGED <<home, password, last, setup, stage, local, unseen>>

Garble ==
    /\ users # 0 /\ ~garbled
    /\ garbled' = TRUE
    /\ DisturbBut({})
    /\ UNCHANGED <<marker, users, machine, setup, stage, local, unseen>>

ClientStep(c) ==
    \/ CheckMarker(c) \/ SelectMarker(c) \/ SelectUsers(c) \/ CheckAccounts(c)
    \/ RequestSetup(c) \/ Refresh(c) \/ Logon(c) \/ RemoveUsers(c)
RunStep(f) ==
    BeginRun(f) \/ Rotate(f) \/ WriteUsers(f) \/ CommitMarker(f) \/ VerifyRun(f) \/ RunFails(f)

CredsNext ==
    \/ \E c \in Client : Start(c) \/ ClientStep(c)
    \/ \E f \in SharedRun : RunStep(f)
    \/ OtherHome \/ Uninstall \/ Garble

CredsSpec == CredsInit /\ [][CredsNext /\ UNCHANGED call]_<<credsVars, call>>

(* Captures go on, and a run that is waited for goes on or fails; nobody   *)
(* has to call, other homes and the uninstall owe nothing.                 *)
CredsFairSpec ==
    /\ CredsSpec
    /\ \A c \in Client : WF_credsVars(ClientStep(c))
    /\ \A f \in SharedRun : WF_credsVars(RunStep(f))

----------------------------------------------------------------------------
(* Whatever crashed runs, other homes and uninstalls left behind, the      *)
(* second logon of an attempt that nobody disturbs is not refused;         *)
(* it finds the setup incomplete or the sandbox group gone only if a look  *)
(* of its own at the files or the accounts failed; and a password it       *)
(* cannot decode, which it does not repair, was in the file before the     *)
(* attempt, never in one that its setup has written.  Every other state of *)
(* marker, users file and accounts require_logon_sandbox_creds and         *)
(* refresh_logon_sandbox_creds repair.                                     *)
Recovers ==
    \A c \in Client : ~disturbed[c] =>
        /\ stage[c] # "refused"
        /\ stage[c] \in {"notready", "nogroup"} => unseen[c]
        /\ stage[c] = "undecoded" => garbled /\ ~retried[c]

(* The captures' state is well typed, and they recover.                    *)
CredsInv == CredsTypeOK /\ Recovers

(* What the firewall lets through under settings s.                        *)
Reachable(s) == IF s.binding THEN {"any"} ELSE s.ports

(* An undisturbed capture that is about to log on to the offline account   *)
(* finds the firewall as its environment wants it ("runtime validation for *)
(* offline firewall settings", src/src/identity.rs:51).                    *)
OwnSettings ==
    \A c \in Client :
        stage[c] = "logon" /\ ~disturbed[c] /\ call[c].offline /\ ~call[c].preserve =>
            marker # None /\ Reachable(marker) = Reachable(call[c].want)

(* What both rest on, inductive: who waits has a run to wait for, and what *)
(* an attempt that nobody disturbs has found out, or its run has done,     *)
(* still holds when it goes on.                                            *)
Repaired == users = password /\ users # 0 /\ enabled /\ ~garbled
RunSoFar(f) ==
    /\ run[f] \in {"write", "commit", "verify"} => drawn[f] = password /\ password # 0
    /\ run[f] \in {"commit", "verify"} => users = drawn[f] /\ enabled /\ ~garbled
    /\ run[f] = "verify" => marker = f[2]
Calm(c) ==
    /\ stage[c] \in {"check", "marker", "users"} /\ retried[c] => users = 0
    /\ stage[c] \in {"marker", "users", "accounts", "remarker", "reusers", "refresh", "logon"} =>
          marker # None /\ Matches(c, marker, desired[c])
    /\ stage[c] = "accounts" => creds[c] # 0 /\ ~retried[c]
    /\ stage[c] = "waiting" => RunSoFar(FlightOf(c))
    /\ stage[c] \in {"remarker", "reusers"} => Repaired
    /\ stage[c] \in {"refresh", "logon"} =>
          /\ enabled \/ (unseen[c] /\ ~retried[c])
          /\ creds[c] # 0 \/ (unseen[c] /\ stage[c] = "refresh")
          /\ retried[c] /\ creds[c] # 0 => creds[c] = password
    /\ stage[c] = "remove" => ~retried[c]
    /\ stage[c] # "refused"
    /\ stage[c] \in {"notready", "nogroup"} => unseen[c]
    /\ stage[c] = "undecoded" => garbled /\ ~retried[c]
ClientFacts(c) ==
    /\ stage[c] = "waiting" => run[FlightOf(c)] # "none"
    /\ stage[c] \in {"check", "marker", "users", "setup", "waiting", "remarker", "reusers"} =>
          creds[c] = 0
    /\ call[c].offline /\ ~call[c].preserve => desired[c] = call[c].want
    /\ ~disturbed[c] => Calm(c)
CredsFacts == \A c \in Client : ClientFacts(c)

(* Every call ends, also of captures that joined somebody else's run.      *)
CallsEnd == \A c \in Client : stage[c] = "check" ~> stage[c] \in Outcome
=============================================================================
