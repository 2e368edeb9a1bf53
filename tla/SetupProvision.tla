--------------------------- MODULE SetupProvision ---------------------------
(***************************************************************************)
(* Elevated sandbox setup: several runs of the setup helper                *)
(* (src/src/bin/setup_main/win.rs) provisioning one machine.  The two      *)
(* sandbox accounts, the firewall rules and the WFP filters are shared by  *)
(* every CODEX_HOME; the users file and the setup marker belong to one.    *)
(* The machine-wide setup lock covers the account and network changes but  *)
(* not the preparation and the commit of the marker.                       *)
(*                                                                         *)
(* A run may fail or die at every step; both leave behind what was done,   *)
(* and release the lock and the marker handle.  The uninstall that shares  *)
(* the lock is not part of the repository: the Cleanup* actions model what *)
(* the code expects of it (win.rs:668-670, 713-714).                       *)
(***************************************************************************)
EXTENDS Naturals

CONSTANTS
    Helper,         \* helper processes
    Home,           \* CODEX_HOME directories
    Port,           \* loopback TCP ports
    Payload,        \* the requests that may be sent to a helper
    SerialHomes,    \* homes no two helpers work for at the same time
    MaxRuns,        \* bound: helper launches
    MaxCleanups,    \* bound: uninstall attempts
    Free, Cleaner,  \* the lock is free / held by uninstall
    Nobody,         \* no process pins the marker
    NoMarker, EmptyMarker

User == {"offline", "online"}
Mode == {"full", "interactive", "provision_only"}
Settings == [ports : SUBSET Port, local : BOOLEAN]

ASSUME ProvisionConstants ==
    /\ Payload # {}
    /\ Payload \subseteq [home : Home, mode : Mode, settings : Settings]
    /\ SerialHomes \subseteq Home
    /\ MaxRuns \in Nat
    /\ MaxCleanups \in Nat
    /\ Free \notin Helper
    /\ Cleaner \notin Helper
    /\ Free # Cleaner
    /\ Nobody \notin Helper
    /\ NoMarker \notin Settings
    /\ EmptyMarker \notin Settings
    /\ NoMarker # EmptyMarker

VARIABLES
    marker,     \* home -> setup_marker.json: missing, empty, or the settings it records
    pinned,     \* home -> the run that holds the marker open without sharing
    users,      \* home -> generation of the passwords in sandbox_users.json, 0 when unusable
    account,    \* user -> the local account; sid 0 when there is none
    firewall,   \* the four rules: SID they apply to (0 when absent), TCP ports left open
    wfp,        \* SID the WFP filters apply to, 0 when absent
    mutex,      \* owner of Global\CodexSandboxSetup
    pc, payload, repairing, secret,  \* of each helper: step, request, locals
    generation, \* number of password pairs drawn so far
    runs, cleanups

files == <<marker, pinned, users>>
network == <<firewall, wfp>>
helpers == <<pc, payload, repairing, secret>>
bounds == <<runs, cleanups>>
vars == <<marker, pinned, users, account, firewall, wfp, mutex,
          pc, payload, repairing, secret, generation, runs, cleanups>>

(***************************************************************************)
(* Where a run is.  "locked" up to "wfp_done" (and "offline_enabled") are  *)
(* the steps under the setup lock.                                         *)
(***************************************************************************)
BeforeLock == {"start", "removed", "prepared"}
UnderLock == {"locked", "checked", "offline_set", "online_set", "users_open",
              "users_written", "legacy_removed", "udp_removed", "udp_blocked",
              "tcp_broad", "narrowing", "loopback_done", "outbound_done",
              "wfp_done", "offline_enabled", "enabled"}
AfterLock == {"provisioned", "dirs_locked"}
Live == BeforeLock \cup UnderLock \cup AfterLock
Prepared == Live \ {"start", "removed"}

Account == [sid : Nat, disabled : BOOLEAN, pw : Nat]
Firewall == [udp : Nat, tcp : Nat, open : SUBSET Port, legacy : BOOLEAN, outbound : Nat]

TypeOK ==
    /\ marker \in [Home -> Settings \cup {NoMarker, EmptyMarker}]
    /\ pinned \in [Home -> Helper \cup {Nobody}]
    /\ users \in [Home -> Nat]
    /\ account \in [User -> Account]
    /\ firewall \in Firewall
    /\ wfp \in Nat
    /\ mutex \in Helper \cup {Free, Cleaner}
    /\ pc \in [Helper -> Live \cup {"idle"}]
    /\ payload \in [Helper -> Payload]
    /\ repairing \in [Helper -> BOOLEAN]
    /\ secret \in [Helper -> Nat]
    /\ generation \in Nat
    /\ runs \in Nat
    /\ cleanups \in Nat

(* A machine without sandbox, possibly with the proxy allow rule of an     *)
(* older release.                                                          *)
Init ==
    /\ marker = [h \in Home |-> NoMarker]
    /\ pinned = [h \in Home |-> Nobody]
    /\ users = [h \in Home |-> 0]
    /\ account = [u \in User |-> [sid |-> 0, disabled |-> FALSE, pw |-> 0]]
    /\ \E old \in BOOLEAN :
          firewall = [udp |-> 0, tcp |-> 0, open |-> {}, legacy |-> old, outbound |-> 0]
    /\ wfp = 0
    /\ mutex = Free
    /\ pc = [p \in Helper |-> "idle"]
    /\ payload = [p \in Helper |-> CHOOSE request \in Payload : TRUE]
    /\ repairing = [p \in Helper |-> FALSE]
    /\ secret = [p \in Helper |-> 0]
    /\ generation = 0
    /\ runs = 0
    /\ cleanups = 0

----------------------------------------------------------------------------
HomeOf(p) == payload[p].home
Requested(p) == payload[p].settings
Retains(p) == payload[p].mode = "provision_only"
Exists(u) == account[u].sid # 0
IsDisabled(u) == Exists(u) /\ account[u].disabled

Goto(p, from, to) ==
    /\ pc[p] = from
    /\ pc' = [pc EXCEPT ![p] = to]

(* The orchestrator starts a helper with a request.                        *)
Launch(p) ==
    /\ runs < MaxRuns
    /\ Goto(p, "idle", "start")
    /\ \E request \in Payload :
          /\ request.home \in SerialHomes =>
                \A q \in Helper : pc[q] # "idle" => HomeOf(q) # request.home
          /\ payload' = [payload EXCEPT ![p] = request]
    /\ repairing' = [repairing EXCEPT ![p] = FALSE]
    /\ secret' = [secret EXCEPT ![p] = 0]
    /\ runs' = runs + 1
    /\ UNCHANGED <<files, account, network, mutex, generation, cleanups>>

(* prepare_setup_marker, first half: a marker another run holds open       *)
(* without sharing cannot be removed, and the run fails (see Abort).       *)
RemoveMarker(p) ==
    /\ Goto(p, "start", "removed")
    /\ pinned[HomeOf(p)] = Nobody
    /\ marker' = [marker EXCEPT ![HomeOf(p)] = NoMarker]
    /\ UNCHANGED <<pinned, users, account, network, mutex, payload, repairing,
                   secret, generation, bounds>>

(* prepare_setup_marker, second half: CREATE_NEW; only service             *)
(* provisioning keeps the handle.                                          *)
CreateMarker(p) ==
    /\ Goto(p, "removed", "prepared")
    /\ marker[HomeOf(p)] = NoMarker
    /\ marker' = [marker EXCEPT ![HomeOf(p)] = EmptyMarker]
    /\ pinned' = IF Retains(p) THEN [pinned EXCEPT ![HomeOf(p)] = p] ELSE pinned
    /\ UNCHANGED <<users, account, network, mutex, payload, repairing, secret,
                   generation, bounds>>

\* Mutant of AcquireLock: a run does not wait for the lock.
AcquireUnguarded(p) ==
    /\ Goto(p, "prepared", "locked")
    /\ mutex' = p
    /\ UNCHANGED <<files, account, network, payload, repairing, secret,
                   generation, bounds>>

(* acquire_sandbox_setup_lock(INFINITE); an abandoned mutex is acquired    *)
(* like a free one.                                                        *)
AcquireLock(p) ==
    /\ Goto(p, "prepared", "locked")
    /\ mutex = Free
    /\ mutex' = p
    /\ UNCHANGED <<files, account, network, payload, repairing, secret,
                   generation, bounds>>

CheckAccounts(p) ==
    /\ Goto(p, "locked", "checked")
    /\ repairing' = [repairing EXCEPT ![p] = \E u \in User : IsDisabled(u)]
    /\ UNCHANGED <<files, account, network, mutex, payload, secret, generation, bounds>>

(* ensure_local_user: create the account, or else give it a new password.  *)
(* The flags of an existing account stay; a SID is never reused.           *)
Ensured(u, p, pw) ==
    IF Exists(u) THEN [account[u] EXCEPT !.pw = pw]
    ELSE [sid |-> pw, disabled |-> repairing[p], pw |-> pw]

EnsureOffline(p) ==
    /\ Goto(p, "checked", "offline_set")
    /\ generation' = generation + 1
    /\ secret' = [secret EXCEPT ![p] = generation']
    /\ account' = [account EXCEPT !["offline"] = Ensured("offline", p, generation')]
    /\ UNCHANGED <<files, network, mutex, payload, repairing, bounds>>

\* Mutant of EnsureOnline: an account that exists keeps its password.
EnsureOnlineOnce(p) ==
    /\ Goto(p, "offline_set", "online_set")
    /\ account' = IF Exists("online") THEN account
                  ELSE [account EXCEPT !["online"] = Ensured("online", p, secret[p])]
    /\ UNCHANGED <<files, network, mutex, payload, repairing, secret, generation, bounds>>

EnsureOnline(p) ==
    /\ Goto(p, "offline_set", "online_set")
    /\ account' = [account EXCEPT !["online"] = Ensured("online", p, secret[p])]
    /\ UNCHANGED <<files, network, mutex, payload, repairing, secret, generation, bounds>>

(* write_secrets: fs::write truncates the file first, service provisioning *)
(* replaces it atomically.                                                 *)
TruncateUsers(p) ==
    /\ ~Retains(p)
    /\ Goto(p, "online_set", "users_open")
    /\ users' = [users EXCEPT ![HomeOf(p)] = 0]
    /\ UNCHANGED <<marker, pinned, account, network, mutex, payload, repairing,
                   secret, generation, bounds>>

WriteUsers(p) ==
    /\ Goto(p, IF Retains(p) THEN "online_set" ELSE "users_open", "users_written")
    /\ users' = [users EXCEPT ![HomeOf(p)] = secret[p]]
    /\ UNCHANGED <<marker, pinned, account, network, mutex, payload, repairing,
                   secret, generation, bounds>>

----------------------------------------------------------------------------
(* ensure_offline_proxy_allowlist, local binding allowed: the three        *)
(* loopback rules go.                                                      *)
FirewallStep(p, from, to) ==
    /\ Goto(p, from, to)
    /\ UNCHANGED <<files, account, wfp, mutex, payload, repairing, secret,
                   generation, bounds>>

RemoveLegacyRule(p) ==
    /\ Requested(p).local
    /\ FirewallStep(p, "users_written", "legacy_removed")
    /\ firewall' = [firewall EXCEPT !.legacy = FALSE]

RemoveUdpRule(p) ==
    /\ FirewallStep(p, "legacy_removed", "udp_removed")
    /\ firewall' = [firewall EXCEPT !.udp = 0]

RemoveTcpRule(p) ==
    /\ FirewallStep(p, "udp_removed", "loopback_done")
    /\ firewall' = [firewall EXCEPT !.tcp = 0, !.open = {}]

(* Proxy-only mode: ensure_block_rule gives a rule the SID of the offline  *)
(* account.  Without RemotePorts a new rule blocks every port, an existing *)
(* one keeps the ports it has: configure_rule sets only what it is given.  *)
OfflineSid == account["offline"].sid

BlockUdp(p) ==
    /\ ~Requested(p).local
    /\ FirewallStep(p, "users_written", "udp_blocked")
    /\ firewall' = [firewall EXCEPT !.udp = OfflineSid]

BlockAllTcp(p) ==
    /\ FirewallStep(p, "udp_blocked", "tcp_broad")
    /\ firewall' = [firewall EXCEPT !.tcp = OfflineSid]

DropLegacyAllow(p) ==
    /\ FirewallStep(p, "tcp_broad", "narrowing")
    /\ firewall' = [firewall EXCEPT !.legacy = FALSE]

(* blocked_loopback_tcp_remote_ports is None when no port is left to       *)
(* block; the rule is then not narrowed.                                   *)
NarrowTcp(p) ==
    /\ FirewallStep(p, "narrowing", "loopback_done")
    /\ firewall' = IF Requested(p).ports = Port THEN firewall
                   ELSE [firewall EXCEPT !.open = Requested(p).ports]

BlockOutbound(p) ==
    /\ FirewallStep(p, "loopback_done", "outbound_done")
    /\ firewall' = [firewall EXCEPT !.outbound = OfflineSid]

\* Mutant of InstallWfp: best effort during a repair as well.
InstallWfpBestEffort(p) ==
    /\ Goto(p, "outbound_done", "wfp_done")
    /\ wfp' \in {wfp, OfflineSid}
    /\ UNCHANGED <<files, account, firewall, mutex, payload, repairing, secret,
                   generation, bounds>>

(* The WFP filters change in one transaction.  A failure ends the run only *)
(* when disabled accounts are being repaired.                              *)
InstallWfp(p) ==
    /\ Goto(p, "outbound_done", "wfp_done")
    /\ \/ wfp' = OfflineSid
       \/ ~repairing[p] /\ wfp' = wfp
    /\ UNCHANGED <<files, account, firewall, mutex, payload, repairing, secret,
                   generation, bounds>>

(* A repair ends by re-enabling both accounts, the offline one first; an   *)
(* account that is missing by then fails the run.                          *)
Enable(p, u, from, to) ==
    /\ Goto(p, from, to)
    /\ repairing[p]
    /\ Exists(u)
    /\ account' = [account EXCEPT ![u].disabled = FALSE]
    /\ UNCHANGED <<files, network, mutex, payload, repairing, secret, generation, bounds>>

EnableOffline(p) == Enable(p, "offline", "wfp_done", "offline_enabled")
EnableOnline(p) == Enable(p, "online", "offline_enabled", "enabled")

(* The lock guard goes out of scope at the end of provision_sandbox.       *)
ReleaseLock(p) ==
    /\ Goto(p, IF repairing[p] THEN "enabled" ELSE "wfp_done", "provisioned")
    /\ mutex' = Free
    /\ UNCHANGED <<files, account, network, payload, repairing, secret,
                   generation, bounds>>

\* Mutant of LockDirs: the marker is committed before the directories are locked.
CommitThenLockDirs(p) ==
    /\ Goto(p, "provisioned", "dirs_locked")
    /\ marker' = [marker EXCEPT ![HomeOf(p)] = Requested(p)]
    /\ UNCHANGED <<pinned, users, account, network, mutex, payload, repairing, secret,
                   generation, bounds>>

(* Locking the sandbox directories, and for a full run its ACL grants.     *)
LockDirs(p) ==
    /\ Goto(p, "provisioned", "dirs_locked")
    /\ UNCHANGED <<files, account, network, mutex, payload, repairing, secret,
                   generation, bounds>>

(* commit_setup_marker writes through the retained handle, or opens the    *)
(* path again: then a marker that another run pins fails the run, and one  *)
(* that another run has removed is created anew.                           *)
CommitMarker(p) ==
    /\ Goto(p, "dirs_locked", "idle")
    /\ pinned[HomeOf(p)] = IF Retains(p) THEN p ELSE Nobody
    /\ marker' = [marker EXCEPT ![HomeOf(p)] = Requested(p)]
    /\ pinned' = [pinned EXCEPT ![HomeOf(p)] = Nobody]
    /\ UNCHANGED <<users, account, network, mutex, payload, repairing, secret,
                   generation, bounds>>

\* Mutant of Abort: a run that dies keeps the setup lock.
AbortHoldingLock(p) ==
    /\ pc[p] # "idle"
    /\ pc' = [pc EXCEPT ![p] = "idle"]
    /\ pinned' = [h \in Home |-> IF pinned[h] = p THEN Nobody ELSE pinned[h]]
    /\ UNCHANGED <<marker, users, account, network, mutex, payload, repairing, secret,
                   generation, bounds>>

(* A step returns an error, or the process dies.  Death inside the fs::write *)
(* of the commit leaves a truncated marker.                                *)
Abort(p) ==
    /\ pc[p] # "idle"
    /\ pc' = [pc EXCEPT ![p] = "idle"]
    /\ mutex' = IF mutex = p THEN Free ELSE mutex
    /\ pinned' = [h \in Home |-> IF pinned[h] = p THEN Nobody ELSE pinned[h]]
    /\ \/ marker' = marker
       \/ /\ pc[p] = "dirs_locked"
          /\ pinned[HomeOf(p)] = IF Retains(p) THEN p ELSE Nobody
          /\ marker' = [marker EXCEPT ![HomeOf(p)] = EmptyMarker]
    /\ UNCHANGED <<users, account, network, payload, repairing, secret,
                   generation, bounds>>

----------------------------------------------------------------------------
(* Uninstall (external): takes the lock, disables the accounts, then       *)
(* removes the protections and the accounts.  It may stop anywhere.        *)
CleanupStart ==
    /\ cleanups < MaxCleanups
    /\ mutex = Free
    /\ mutex' = Cleaner
    /\ cleanups' = cleanups + 1
    /\ UNCHANGED <<files, account, network, helpers, generation, runs>>

CleanupDisable(u) ==
    /\ mutex = Cleaner
    /\ Exists(u)
    /\ account' = [account EXCEPT ![u].disabled = TRUE]
    /\ UNCHANGED <<files, network, mutex, helpers, generation, bounds>>

AllDisabled == \A u \in User : Exists(u) => IsDisabled(u)

CleanupRule ==
    /\ mutex = Cleaner
    /\ AllDisabled
    /\ \/ firewall' = [firewall EXCEPT !.udp = 0]
       \/ firewall' = [firewall EXCEPT !.tcp = 0, !.open = {}]
       \/ firewall' = [firewall EXCEPT !.outbound = 0]
    /\ UNCHANGED <<files, account, wfp, mutex, helpers, generation, bounds>>

CleanupWfp ==
    /\ mutex = Cleaner
    /\ AllDisabled
    /\ wfp' = 0
    /\ UNCHANGED <<files, account, firewall, mutex, helpers, generation, bounds>>

CleanupDelete(u) ==
    /\ mutex = Cleaner
    /\ AllDisabled
    /\ Exists(u)
    /\ account' = [account EXCEPT ![u] = [sid |-> 0, disabled |-> FALSE, pw |-> 0]]
    /\ UNCHANGED <<files, network, mutex, helpers, generation, bounds>>

CleanupStop ==
    /\ mutex = Cleaner
    /\ mutex' = Free
    /\ UNCHANGED <<files, account, network, helpers, generation, bounds>>

Cleanup ==
    \/ CleanupStart
    \/ \E u \in User : CleanupDisable(u) \/ CleanupDelete(u)
    \/ CleanupRule
    \/ CleanupWfp
    \/ CleanupStop

HelperStep(p) ==
    \/ RemoveMarker(p) \/ CreateMarker(p) \/ AcquireLock(p) \/ CheckAccounts(p)
    \/ EnsureOffline(p) \/ EnsureOnline(p) \/ TruncateUsers(p) \/ WriteUsers(p)
    \/ RemoveLegacyRule(p) \/ RemoveUdpRule(p) \/ RemoveTcpRule(p)
    \/ BlockUdp(p) \/ BlockAllTcp(p) \/ DropLegacyAllow(p) \/ NarrowTcp(p)
    \/ BlockOutbound(p) \/ InstallWfp(p) \/ EnableOffline(p) \/ EnableOnline(p)
    \/ ReleaseLock(p) \/ LockDirs(p) \/ CommitMarker(p)

Next ==
    \/ \E p \in Helper : Launch(p) \/ HelperStep(p) \/ Abort(p)
    \/ Cleanup

Spec == Init /\ [][Next]_vars

(* A running helper takes its next step or fails; the kernel hands the     *)
(* mutex to the waiters in turn.                                           *)
FairSpec ==
    /\ Spec
    /\ \A p \in Helper : /\ WF_vars(HelperStep(p) \/ (Abort(p) /\ pc[p] # "prepared"))
                         /\ SF_vars(AcquireLock(p))
    /\ WF_vars(CleanupStop)

----------------------------------------------------------------------------
(* A home whose marker and users file pass the readiness checks and whose  *)
(* offline account accepts the recorded password.                          *)
Complete(h) == marker[h] \in Settings
Usable(h) ==
    /\ Complete(h)
    /\ Exists("offline") /\ ~account["offline"].disabled
    /\ users[h] # 0 /\ users[h] = account["offline"].pw

LoopbackEnforced(s) ==
    /\ ~firewall.legacy
    /\ IF s.local THEN firewall.udp = 0 /\ firewall.tcp = 0
       ELSE /\ firewall.udp = OfflineSid
            /\ firewall.tcp = OfflineSid
            /\ firewall.open \subseteq s.ports
            /\ s.ports # Port => firewall.open = s.ports

(* The rules that settings s ask for are in force for the offline account. *)
Enforced(s) ==
    /\ firewall.outbound = OfflineSid
    /\ LoopbackEnforced(s)

(* Whoever can log on as the offline user with what a home records, runs   *)
(* under the firewall settings that home's marker records: neither a crash,*)
(* nor setup for another home, nor an interrupted uninstall breaks this    *)
(* (request_mismatch_reason and require_logon_sandbox_creds trust it).     *)
UsableMeansEnforced == \A h \in Home : Usable(h) => Enforced(marker[h])

(* The two passwords of a usable home come from the same run: when the     *)
(* offline logon works, the online one is not refused for its password.    *)
PasswordsTogether ==
    \A h \in Home : Usable(h) /\ Exists("online") => account["online"].pw = users[h]

(* "The empty file intentionally fails readiness checks until setup        *)
(* succeeds" (sandbox_users.rs:381-382): between the creation of its       *)
(* marker and its commit a run's home is not complete.                     *)
UnfinishedNotReady ==
    \A p \in Helper : pc[p] \in Prepared => ~Complete(HomeOf(p))

(* A disabled account is only enabled again, by whatever sequence of       *)
(* interrupted uninstalls and repairs, when every protection of the        *)
(* offline account is back (win.rs:713-714).                               *)
ProtectedBeforeEnabled ==
    [][\A u \in User :
          IsDisabled(u) /\ account'[u].sid = account[u].sid /\ ~account'[u].disabled
          => \E p \in Helper : mutex = p /\ Enforced(Requested(p)) /\ wfp = OfflineSid]_vars

(* An account is created enabled only when no other account is waiting     *)
(* disabled for its repair (win.rs:668-670).                               *)
ReplacementStaysDisabled ==
    [][\A u \in User : ~Exists(u) /\ account'[u].sid # 0 /\ ~account'[u].disabled
          => \A v \in User : ~IsDisabled(v)]_vars

(* After an interrupted uninstall nobody can log on before the repair is   *)
(* through, neither with an old account nor with one created for it.       *)
RepairedBeforeLogon == ProtectedBeforeEnabled /\ ReplacementStaysDisabled

(* Every launched helper ends: the lock of a run that died is handed on.   *)
RunEnds == \A p \in Helper : pc[p] # "idle" ~> pc[p] = "idle"
----------------------------------------------------------------------------
(* Why UsableMeansEnforced holds when runs of one home do not overlap, or  *)
(* all of them retain the marker: the conjuncts of an inductive invariant. *)
OneRunPerHome ==
    \A request \in Payload : request.home \in SerialHomes \/ request.mode = "provision_only"

LoopbackFacts(p) ==
    LET s == Requested(p) IN
    /\ pc[p] \in {"legacy_removed", "udp_removed"} => s.local /\ ~firewall.legacy
    /\ pc[p] = "udp_removed" => firewall.udp = 0
    /\ pc[p] \in {"udp_blocked", "tcp_broad", "narrowing"} =>
          ~s.local /\ firewall.udp = OfflineSid
    /\ pc[p] \in {"tcp_broad", "narrowing"} => firewall.tcp = OfflineSid
    /\ pc[p] = "narrowing" => ~firewall.legacy

AfterOffline == {"offline_set", "online_set", "users_open", "users_written",
                 "legacy_removed", "udp_removed", "udp_blocked", "tcp_broad",
                 "narrowing", "loopback_done", "outbound_done", "wfp_done",
                 "offline_enabled", "enabled"}
AfterNetwork == {"outbound_done", "wfp_done", "offline_enabled", "enabled"}
AfterUsers == (AfterOffline \ {"offline_set", "online_set", "users_open"}) \cup AfterLock

LockInv == \A p \in Helper : pc[p] \in UnderLock <=> mutex = p
HomeInv ==
    /\ \A p, q \in Helper :
          p # q /\ pc[p] # "idle" /\ pc[q] # "idle" /\ HomeOf(p) \in SerialHomes
              => HomeOf(p) # HomeOf(q)
    /\ \A p \in Helper :
          Retains(p) /\ pc[p] \in Prepared =>
              pinned[HomeOf(p)] = p /\ marker[HomeOf(p)] # NoMarker
SecretInv ==
    /\ \A h \in Home : users[h] <= generation
    /\ \A p \in Helper :
          pc[p] \in AfterOffline \cup AfterLock =>
             /\ 0 < secret[p] /\ secret[p] <= generation
             /\ \A h \in Home : users[h] = secret[p] => h = HomeOf(p)
             /\ \A q \in Helper :
                   q # p /\ pc[q] \in AfterOffline \cup AfterLock => secret[q] # secret[p]
HolderFacts(p) ==
    /\ pc[p] \in AfterOffline =>
          /\ Exists("offline")
          /\ account["offline"].pw = secret[p]
          /\ LoopbackFacts(p)
    /\ pc[p] = "loopback_done" => LoopbackEnforced(Requested(p))
    /\ pc[p] \in AfterNetwork => Enforced(Requested(p))
    /\ pc[p] \in AfterUsers => users[HomeOf(p)] = secret[p]
    /\ /\ pc[p] \in AfterLock
       /\ Exists("offline") /\ ~account["offline"].disabled
       /\ account["offline"].pw = secret[p]
       => Enforced(Requested(p))
HolderInv == \A p \in Helper : HolderFacts(p)

(* The inductive invariant: lock ownership, one prepared run per home, no  *)
(* complete marker during a run, passwords that belong to one run each,    *)
(* and what the firewall holds at each step of the run that owns the lock. *)
EnforcementInv ==
    /\ LockInv /\ HomeInv /\ SecretInv /\ HolderInv
    /\ UnfinishedNotReady
    /\ UsableMeansEnforced
----------------------------------------------------------------------------
(* Why PasswordsTogether holds, whatever runs overlap: the owner of the    *)
(* lock gives both accounts the password it has drawn before it records    *)
(* it, and a password that is being replaced is recorded nowhere.          *)
TogetherFacts(p) ==
    /\ pc[p] \in AfterOffline => /\ 0 < secret[p] /\ secret[p] <= generation
                                 /\ account["offline"].pw = secret[p]
    /\ pc[p] = "offline_set" => \A h \in Home : users[h] # secret[p]
    /\ pc[p] \in AfterOffline \ {"offline_set"} => account["online"].pw = secret[p]
TogetherInv ==
    /\ LockInv
    /\ \A h \in Home : users[h] <= generation
    /\ \A p \in Helper : TogetherFacts(p)
    /\ \A h \in Home :
          Exists("offline") /\ Exists("online") /\ users[h] # 0 /\ users[h] = account["offline"].pw
              => account["online"].pw = users[h]

(* Why RepairedBeforeLogon holds, whatever runs overlap: what the owner of *)
(* the lock knows of the accounts it may enable or create, and of the      *)
(* protections it has put back.                                            *)
RepairFacts(p) ==
    /\ pc[p] \in AfterOffline => Exists("offline") /\ LoopbackFacts(p)
    /\ pc[p] = "loopback_done" => LoopbackEnforced(Requested(p))
    /\ pc[p] \in AfterNetwork => Enforced(Requested(p))
    /\ repairing[p] /\ pc[p] \in AfterNetwork \ {"outbound_done"} => wfp = OfflineSid
    /\ ~repairing[p] /\ pc[p] \in {"checked", "offline_set"} => \A u \in User : ~IsDisabled(u)
RepairInv == LockInv /\ \A p \in Helper : RepairFacts(p)
=============================================================================
