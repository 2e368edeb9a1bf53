# TLA+ models of yj-sandbox

yj-sandbox runs a command in a sandbox on Windows (a separate local account, a
firewall and a restricted token) and on macOS (Seatbelt). This directory holds
TLA+ models of the parts of it that are hard to test: setup helpers that change
one machine, captures that share files of a home without a lock, sessions of
several processes over pipes, access lists that outlive the sessions that wrote
them, and the path from an invocation to what its command may touch. TLC checks
the models on small instances; TLAPS proves every safety and action property of
the passing runs, and both refinements, for all instances that satisfy the
assumptions and hypotheses of section 5. Paths below are relative to the
repository root.

    tlc -workers 2 -config Session.cfg MCRunnerSession.tla
    tlapm SetupProofs.tla

Each `MC*` module gives the instances of one system, each `.cfg` runs it.

## 1. Inventory

### Parts, their state and their operations

| part (source under `src/`) | state | operations | module |
|---|---|---|---|
| Setup helper (`bin/setup_main/win.rs`, `win/sandbox_users.rs`, `win/firewall.rs`, `setup_mutex.rs`, `wfp.rs`) | accounts, firewall rules and WFP filters of the machine; `setup_marker.json` and `sandbox_users.json` of a home; the setup mutex | full, interactive and service provisioning, repair, refresh | `SetupProvision`, refresh: `GroupAcl`, `SessionAcl` |
| Setup orchestrator (`setup.rs`, `ssh_config_dependencies.rs`) | `SETUP_FLIGHTS` of the process, `setup_error.json` of a home | run or join a setup, launch a helper and read its report, build the roots of a refresh | `SetupFlight`, `ReadRoots` |
| Identity and credentials (`identity.rs`) | none of its own; marker, users file and accounts | check, select, set up, refresh, one retry | `LogonCreds` |
| Elevated capture (`elevated_impl.rs`, `elevated/runner_client.rs`, `framed_io.rs`) | runner process, two pipes, connect threads, cancel writer, output | launch, connect, handshake, capture loop, cancel | `PipeConnect`, `RunnerSession` |
| Command runner (`bin/command_runner/win.rs`, `job.rs`, `process.rs`) | job, root process, readers, input loop | spawn, stream, terminate, time out, report | `RunnerSession` |
| Unelevated capture (`windows_capture.rs`) | job, pipes, readers | spawn, wait, cancel, time out | `WindowsCapture` |
| macOS capture (`macos_capture.rs`) | process group, pipes, readers | spawn, poll, signal, collect | `MacCapture` |
| Write roots and access lists (`resolved_permissions.rs`, `allow.rs`, `spawn_prep.rs`, `acl.rs`, `token.rs`) | entries of capability SIDs on the disk | filter roots, grant, deny, guard, launch | `SessionAcl` |
| Sandbox group's entries (`deny_read_acl.rs`, `deny_read_state.rs`, `win/read_acl_mutex.rs`) | entries of the group, the record of denials, the read ACL mutex | deny, take back, grant, record, read grants in the background | `GroupAcl` |
| Capability SIDs (`cap.rs`) | the file `cap_sid` of a home | look up, create, store | `CapSids` |
| Helper materialization (`helper_materialization.rs`) | copies in `.sandbox-bin`, a cache per process | resolve, copy, fall back, launch | `HelperCopy` |
| Seatbelt policy (`seatbelt.rs`, `macos_permissions.rs`) | rules of a launch; the disk | build rules; what a command may do | `Seatbelt` |
| Command line (`bin/yj-sandbox-run/main.rs`) | `config.toml`, a profile's file | resolve permissions, choose a backend, dispatch, persist after setup | `CommandLine` |
| Tokens, native wrappers, ConPTY, logging, environment, errors | none that outlives a call | text or single system calls | not modelled |

### How they interact

An invocation resolves permissions and a backend (`CommandLine`). An elevated
capture asks `identity.rs` for credentials (`LogonCreds`), which compares the
marker with the settings it wants and, when they differ, has `setup.rs` launch
the setup helper through `SETUP_FLIGHTS` (`SetupFlight`, `SetupProvision`); then
it always refreshes the access lists for its roots (`ReadRoots`, `GroupAcl`,
`SessionAcl`). The capture resolves the command runner (`HelperCopy`), starts it
*as the sandbox account*, connects two pipes (`PipeConnect`), sends one spawn
request and reads frames until the exit frame (`RunnerSession`). The command's
token holds the capability SIDs of its roots (`CapSids`). The other backends
start the command themselves (`WindowsCapture`, `MacCapture` with `Seatbelt`).

### What is hard here

- **Shared machine, separate homes.** Accounts and rules are shared by all
  `CODEX_HOME`s, markers and passwords are not. The code relies on new passwords
  in every run, which nobody states and no test covers.
- **Files and access lists without locks**: capability SIDs, the deny-read
  record, helper copies, the error report, the entries of a path.
- **What stays behind**: entries of earlier sessions, denials of a crashed
  refresh, half a copy, a marker without its accounts.
- **Sessions of three processes and many threads** over pipes that block, with
  timeouts in several places, a cancel, and descendants that keep pipes open.
- **Decisions taken early and used late**: roots, metadata, ssh configuration
  and the backend are looked up before the command runs.

`PROJECT.json` lists the hazards with their lines and the properties about them.

### What makes each part correct

- Setup helper: whoever can log on with what a home records is under the
  settings that home's marker records; an unfinished run does not look finished;
  disabled accounts come back only with all protections; every run ends.
- Orchestrator: one run per payload, everybody gets an answer, about the run
  that was asked for; what nobody may read is not granted, the rest is.
- Identity: an attempt nobody disturbs ends in a logon, from any leftover state,
  under the settings asked for; calls end.
- Sessions and captures: at most one start, the whole output before a
  successful end, no orphan, cancel and timeout reach the whole tree; a pipe is
  the runner's, and every handle is closed once.
- Access lists: a command changes only what its own request gives it; denied
  paths stay unwritable and unreadable; roots are usable; nothing is left that
  nobody will take back.
- Shared files: the token holds the SIDs that were granted; a launched helper is
  whole and current.
- Seatbelt: metadata below a root is not changed, roots stay where they are.
- Command line: every entry is enforced or the invocation refused.

## 2. Plan

Done, in this order: setup and its flights, sessions and captures, credentials
and the files of a home, access lists, Seatbelt, the command line; for each the
module, its run, its inductive invariant and the theorems of section 5.
`CommandRun` is the abstract specification that `RunnerSession` and `Captures`
implement; `HomeFiles`, `Captures` and `ElevatedLine` compose the modules of
parts that meet. What remains open is liveness, which the prover does not reach,
and `ProtectedKept` beyond the requests named in *Known limits*.

## 3. Modules

Where a system has several instances worth running, they are chosen in `Init`
as the value of a variable that never changes (`setting`, `request`, `call`,
`jobFails`, `usage`, `habit`, ...): one run then covers them all, and the
properties say for which of them they hold.

### SetupProvision

One helper process per element of `Helper`, each with a program counter that
names the step of `run_setup` it has reached.

| variable | code |
|---|---|
| `marker`, `pinned` | `setup_marker.json` of a home (missing, empty, committed settings) and the process that holds it open without sharing (`PreparedSetupMarker::Retained`) |
| `users` | `sandbox_users.json`: the generation of the passwords it records, 0 when missing or truncated |
| `account` | the local accounts: SID (never reused), disabled flag, generation of the password |
| `firewall` | UDP, TCP, outbound rules with the SID in their user list, the TCP ports left open, the legacy allow rule |
| `wfp`, `mutex` | SID of the filters; `Global\CodexSandboxSetup` |
| `repairing`, `secret` | locals of `provision_sandbox` |

Actions follow `run_setup` in order: `RemoveMarker`, `CreateMarker`
(`prepare_setup_marker`), `AcquireLock`, `CheckAccounts`, `EnsureOffline`,
`EnsureOnline`, `TruncateUsers`/`WriteUsers` (`provision_sandbox_users`), the
rule updates of `ensure_offline_proxy_allowlist` one COM object at a time,
`BlockOutbound`, `InstallWfp`, `EnableOffline`/`EnableOnline` (repair),
`ReleaseLock`, `LockDirs`, `CommitMarker`. `Abort` is an error return or the
death of the process at any of them. The setters of one firewall rule are one
step, as are the two passwords drawn in a run: they are drawn together, and only
equality of passwords matters. `LockDirs` stands for all ACL work after the lock
is released; it touches no variable of the model, but can fail.

Requests that write no marker (`refresh_only`, `ReadAclsOnly`) change none of
these variables and are left out here. `SerialHomes` are the homes whose setups
do not overlap; at the others only service requests arrive. The uninstall is not
in the repository; the `Cleanup*` actions model what the comments in
`provision_sandbox` expect of it: it holds the same lock, disables accounts
before it removes protections, and may be interrupted.

### SetupFlight

`flights` is `SETUP_FLIGHTS`, `outcome` the `Mutex<Option<..>>` of each flight,
`made` remembers which payload a flight was made for, `report` is
`setup_error.json`. `Lead`/`Join` are the look-up under the map's lock, `Look`
the body of the loop in `SetupFlight::wait`, `Complete` sets the result and
wakes sleepers, `RemoveFlight` has the pointer comparison of the code. A run
clears the report, launches, and reads the report or verifies the marker.
`Bypass` is a request with retained directory handles, which shares no flight.
`Carrier` are the threads that may come with such handles. `SpawnReader` is the
read-ACL helper that a refresh starts and does not wait for
(`spawn_read_acl_helper`): it is one of `reading` while its run goes on and is
counted in `late` afterwards, and when it fails it writes `report` as every
helper does (`ReaderEnds`). A report that somebody is just writing cannot be
parsed (`BeingWritten`). Which runs are refreshes is left open; a run that spawns
a reader is one. `wrote` and `alone` are history variables used by `OwnReport`
only: what a run's own helpers reported last, and whether it overlapped no other
run and found no helper of an earlier one at work.

### RunnerSession and CommandRun

`CommandRun` is what a caller may rely on: a command starts at most once,
produces output, ends; the caller gets either a failure, or an exit with all the
output produced before it unless it was timed out. `RunnerSession` is the
session itself: the parent's attempt and capture loop, the cancel writer, the
runner's main thread, one reader per stream, the input loop, two pipes of
bounded length, and the command as a root process with one descendant. The
pipes' contents are sequences of frames; a chunk of output is a count. A process
that is told to die (`doomed`) dies later, so a terminated runner or tree can
still act for a while. Stdin, resize and ConPTY are left out: a capture uses
none of them (`tty: false`, `stdin_open: false`).

The refinement maps `phase` to what the tree does (not started, some process
still holds an output pipe, all ended) and `produced` to what was written.

`jobFails` says whether calls on the job object may fail; the properties about
terminated trees speak of sessions where they work.

### LogonCreds

Captures (`Client`) of one or more processes with the files of one home:
`marker`, `users` and the machine's `password` are generations, as in
`SetupProvision`, whose runs are cut down here to the order in which they touch
these files. `Start` to the logon follow `require_logon_sandbox_creds` and the
one retry after `refresh_logon_sandbox_creds`; captures of one process share a
run (`SharedRun`). Names that `SetupFlight` has too carry a prefix here
(`CredsSpec`, `CredsTypeOK`), and the step of a capture is its `stage`: the
proofs about both stand in one module. `OtherHome` is a setup of another home
(new passwords), `Uninstall` disables or removes the accounts, `Garble` makes
the recorded passwords undecodable (a damaged file, a lost DPAPI key). A read of
marker or users file may fail, which counts as missing, and so may the query of
an account, which counts as fine. `disturbed` records that somebody else touched
what the present attempt depends on, `unseen` that a look of the attempt itself
failed so that it went on with something untrue.

### PipeConnect

The parent's launch and connection of a runner: the table of handle values
(`owner`), one connect thread per pipe, its timeout, the cancellation of its
blocking call, the late look for its answer, the handshake and the clean-up.
Handle values are reused, which is what makes a late thread dangerous. Strangers
are other processes of the sandbox user. The second `create_named_pipe` is taken
to succeed. `RunnerSession` takes all of this as one step.

### CaptureTree, WindowsCapture, MacCapture, Captures

`CaptureTree` is what both platforms have: processes, the pipes and who holds
them, readers, time, the caller's token. `WindowsCapture` tracks the tree with a
job (and other children of the caller that inherit a pipe end), `MacCapture`
with a process group, whose members are listed and signalled one by one when the
group cannot be signalled, and may escape it. `Captures` puts both together and
shows that they implement `CommandRun`. A wait is taken modulo `Wrap`, which is
2^32 in the code.

### PathTree

The paths that access lists are about, as a tree given by `Parent`. What is above
a path (`Up`) is the least set that holds it and the parents of its members, so
that no recursion is needed. A path stands for its canonical key.

### SessionAcl

The capability side of the access lists. `aces` are the explicit entries on the
disk; sessions compute roots, SIDs and denied paths (`Begin`), then grant, deny
and guard one entry at a time, each edit in two steps (`Fetch`, `Store`), since
the code reads and writes a list without a lock. Commands create and delete
what their token allows: its restricting SIDs are the capabilities of its roots,
Everyone and the logon session (taken for one, since only the program's own
objects name the latter), and the sandbox user when the elevated backend made it
(`Besides`). `setting.open` are the entries by which others let these write;
nothing in the model adds or removes one. What others deny is left out, which
only makes commands able to do more. Links and the spelling of paths are left
out. `Plain`
says which instances `ProtectedKept` is proved for; `KeptFacts` and its parts at
the end of the module are the invariant behind it.

### GroupAcl

The sandbox group's side: what the account may read. A refresh of the helper
denies paths, takes back recorded denials nobody wants, records, grants, and
starts the read ACL helper in the background; `Crash` can come anywhere, single
edits can fail. Edits are atomic here, `SessionAcl` takes them apart. Which
paths of a request overlap is up to the instance.

### CapSids, HelperCopy, HomeFiles

`CapSids`: the file as a text that is truncated and rewritten; what does not
parse is thrown away. `HelperCopy`: source, destination and temporary files with
build, length and time; a copy in use can be neither removed nor replaced. An
update of the package brings a length that no build had (`resized`, with any
time), an old length and a later time (`touched`), or an old length and an old
time (`alike`).
`HomeFiles` puts the two protocols of one home side by side.

### CommandLine, ReadRoots, ElevatedLine

`CommandLine`: an invocation goes through `resolve_permissions` or, entry by
entry, `resolve_sandbox_state`, reads the configuration files one after the
other and is dispatched or refused; setup and an editor write the files
meanwhile. `ReadRoots`: the roots of a refresh from its request, the profile and
the files ~/.ssh/config includes. The walk over these is a function of the
depth, the file and the files met so far (`VisitFile`); `Meet` hands the set of
files met from one include to the next, as the code does through `&mut visited`.
A walk that reaches `MaxDepth` adds nothing. A request says whether the profile
could be listed; `Drives` are the roots without a parent, which a read of the
whole disk leaves out around the working directory. `ElevatedLine` composes them: the
permissions of an invocation that the elevated backend runs become the request
of the refresh, as `require_logon_sandbox_creds` makes it. In an instance
refreshes come either from invocations or from other callers, so that a property
can tell whose grants it looks at. Entries with an "unknown" special path are
accepted and ignored, as in the code.

### Seatbelt

Objects at places of a disk (`Absent` is nowhere), the rules of a launch in
order, and a sandboxed process that writes, creates, removes and renames
whatever the last matching rule allows. The user creates objects meanwhile. A
path is a sequence of names; `Disks` are the disks a first command may find, of
which all one can say is that no two objects share a place and a directory leads
to each (`Standing`). `Commands` are the launches, with their workspaces, extra
roots, working directory and `TMPDIR`, and with the temporary roots or without
(`TempRoots`); the default profile has them, and `/tmp` among them is a root and
a scratch directory at once. `files` are the roots that were files at the launch.
Names that the capture modules have too carry a
prefix (`BeltSpec`, `BeltTypeOK`): the proofs about both stand in one module.

## 4. Runs

| run | question | instances and bounds |
|---|---|---|
| `ProvisionHomes` | is a home that looks ready enforced, whatever crashes, another home and an uninstall do; does every run end? | 2 helpers; one home set up one run at a time, one by the service; 2 runs per helper, 1 uninstall |
| `Flight` | is a payload run once, is no flight left behind, is the report the run's own, does everybody return? | 3 threads, 1 payload and runs with handles, 2 flights, 1 read-ACL helper at a time |
| `Creds` | do captures recover from any leftovers but those named, under their own settings, and end? | 2 captures of one or two processes, 3 generations of passwords |
| `Session` | one start, whole output, no orphan, cancel and timeout reach the tree, refinement of `CommandRun` | 2 streams, 2 chunks, pipes of 1 frame, crashes, job calls that work or fail |
| `Pipes` | is the peer the runner, is every handle held and closed, does a connection fail only for its own launch, do threads end? | 1 session with 2 strangers; 2 sessions, the runner of one never opens |
| `Captures` | is the tree terminated, the output whole, the timeout in time, does the capture return; refinement | 2 or 3 processes, timeouts below, at and beyond the width, with and without a token; macOS with escapes, failing signals |
| `Acl` | are commands confined to their request, denied paths kept, roots usable? | 2 sessions at once; 4 one after another; 3 in a user profile; 3 where others have opened directories |
| `Group` | are denied paths unreadable, denials taken back, read grants made? | 3 refreshes with failing edits; 2 with all faults and crashes; 2 at once |
| `HomeFiles` | does the token hold the granted SIDs; is a launched runner whole and current? | 2 captures, 4 SIDs; 2 processes with 2 updates of all kinds, faults and 1 death; 3 processes with updates |
| `Belt` | is metadata kept and do roots stay, across launches? | 2 disks of 5 to 7 objects and 3 more to come, 6 requests: roots apart, nested, below `/tmp`, files, missing, and the temporary ones |
| `Line` | is every entry enforced from the command line to the refresh, is the backend the one chosen, is the configuration kept; is the right set of roots granted? | states of up to 3 entries; 7 contents of each file with 1 edit and 1 setup; 2 setups; 8 requests under 5 include lists of 3 files |
| `LineInline` | does setup take effect on a home without configuration? | violated, see *Findings* |

### Properties

A property of a run that has several parts is the conjunction of definitions
that stand, each with its comment, above it in the same module.

| run | properties and their parts |
|---|---|
| `ProvisionHomes` | `UsableMeansEnforced`; `PasswordsTogether`; `UnfinishedNotReady`; `RepairedBeforeLogon` (`ProtectedBeforeEnabled`, `ReplacementStaysDisabled`); `RunEnds` |
| `Flight` | `FlightInv` (`OneRunPerPayload`, `FlightsLed`, `SleepersAwaited` and what they rest on); `OwnReport`; `CallsReturn` |
| `Creds` | `CredsInv` (`CredsTypeOK`, `Recovers`); `OwnSettings`; `CallsEnd` |
| `Session` | `SessionInv` (`TypeOK`, `CommandOnce`, `CompleteOutput`, `RootNotOrphaned`); `ImplementsCommandRun`; `DescendantsSurvive`; `EarlyEndsEnd` (`CancelEnds`, `TimedOutTreeDies`, `FailedStartLeavesNothing`) |
| `Pipes` | `PeersAreRunner`; `PipesInv` (`TypeOK`, `NoStrayRunner`, `HandlesHeld`); `FailuresOwn`; `ConnectsEnd` (`Returns`, `ThreadsEnd`) |
| `Captures` | `CaptureInv` (`TypeOK`, `TreeTerminated`, `NoSurvivors`, `TimeoutInTime`, `OutputComplete`); `Returns`; `ImplementsCommandRun` |
| `Acl` | `TypeOK`; `Confined`; `ProtectedKept`; `RootsUsable` |
| `Group` | `Unreadable`; `GroupInv` (`TypeOK`, `NoLeftovers`, `RootsWritable`); `ReadsCome` |
| `HomeFiles` | `TokenExact` (`CapTypeOK`, `TokenGranted`, `NoOtherRoot`); `CopySound` (`CopyTypeOK`, `WholeImage`, `GoneBriefly`, `FreshIsCurrent`); `Launches` |
| `Belt` | `BeltTypeOK`; `MetadataUntouched` (`MetadataKept`, `NoNewMetadata`); `RootsStay`; `OnlyGranted` |
| `Line` | `EntriesEnforced` (`LineTypeOK`, `EntriesKept`, `WritesAsked`, `WeakBackendsRefuse`, `NetworkAsked`, `GrantsOfEntries`); `BackendAsConfigured` (`BackendChosen`, `TableSelects`); `GrantsExact` (`RootsTypeOK`, `DependenciesFound`, `SecretsKeptBack`, `DeniedNotGranted`, `NothingLost`); `ConfigKept` (`ConfigWhole`, `RestKept`) |

The inductive invariants of section 5 (`EnforcementInv`, `SessionFacts`,
`CredsFacts`, `KeptFacts`, `BeltInv`, ...) are proved and in no run, as are
`TypeOK` of `SetupProvision` and of `SetupFlight`; TLC has checked each on the
instances of its run.

**Why these bounds.** A stale marker needs two runs of different homes; every
step can be a crash, so longer sequences repeat states in which the machine is
half done and nobody holds the lock. With three threads one leads, one sleeps
and one arrives late or runs beside them; payloads meet only in the report, where
a run with handles does the same. Pipes of one frame make every writer block. One descendant
is enough to outlive the root, a second to be forked while members are
signalled. Races over a file need two writers; what stays behind needs a second
and a third session to meet it. A denial can be overridden from above, at the
path and below it, so the trees have three levels. Two entries contradict or
complement each other in every way; a third before them reads the whole disk.
`MaxDepth` = 4 with three files lies beyond every chain without a circle, as 32
does for a user's. Bounds appear in guards (`MaxRuns`, `MaxCleanups`,
`MaxFlights`, `MaxReaders`, `MaxGen`, `MaxSid`, `MaxUpdates`, `MaxDeaths`, `MaxChanges`,
`setting.begun`, `usage`'s edits and setups) and are named where they are
declared.

**Fairness.** A thread or process of the program that can take its next step
takes it, and timeouts fire; calls of the system it waits for return.
`SetupProvision`: waiting for the mutex is strongly fair, because the kernel
serves waiters in turn and a dead owner's mutex is handed on. `Flight`,
`Creds`: nobody is obliged to call, other homes, the uninstall and read-ACL
helpers owe nothing.
`Session`, `Captures`: what is killed dies, time passes, and a helper of the
caller that inherited a pipe ends; nothing is assumed of the command, which may
run for ever and never write. `Pipes`: neither the runner nor a stranger has to
open a pipe; closing a pipe ends a call that is blocked on it. `Group`:
refreshes and background helpers run on, unless they crash. `HomeFiles`: a
process that resolves the runner goes on. `CHECK_DEADLOCK FALSE` stands where
work is bounded, so that a finished system stops; the other modules let a
finished system stutter (`Over`, `AllDone`).

### Findings

- `LineInline`. "Successful setup persists `windows.sandbox = "elevated"`"
  (`README.md:153`). `persist_elevated_mode` assigns
  `document["windows"]["sandbox"]`; where the file has no `[windows]` table this
  makes an inline table, which `config_sandbox_value` does not look into
  (`as_table`, `bin/yj-sandbox-run/main.rs:170`). The next invocation falls back
  to the default backend. `TableSelects` shows that a table is updated rightly.

### Known limits

Behaviours the models show and the properties above therefore except, by their
statement or their instances:

- Setup: the marker is prepared and committed outside the lock
  (`src/bin/setup_main/win.rs:567`). Full runs of one home with different
  settings may overlap, and the last commit need not be that of the run that
  configured the firewall last. The rule of an earlier run keeps its exempted
  ports through the update that is to block all of them
  (`win/firewall.rs:111`); the home is not ready at that point.
- Reports: a read-ACL helper outlives its run (`bin/setup_main/win.rs:184`) and
  writes `setup_error.json` when it fails (`bin/setup_main/win.rs:538`); a later
  run whose own helper fails without a report then answers with that failure, or
  finds the file half written. `OwnReport` excepts runs that found such a helper
  at work. Who joins a completed flight before it is removed gets its result.
- Credentials: a password that cannot be decoded is reported and not repaired
  (`identity.rs:160`, `209`), before or after a setup; an account whose query
  fails counts as fine (`identity.rs:231`); a users file that cannot be deleted
  ends the retry. `Recovers` says exactly when these show.
- Credentials: the marker is compared, then loaded again without comparison
  (`identity.rs:148`); a setup of somebody else in between is not noticed.
  `OwnSettings` speaks of captures nobody disturbs.
- Capability SIDs: an update can be lost, and then a root gets another SID
  later. `TokenGranted` still holds for what the session looked up undisturbed.
- Access lists: what others have opened to Everyone or, elevated, to the sandbox
  user can be written outside every root, and a metadata directory whose parent
  they opened below the root can be replaced; `audit.rs`, which looks for such
  places, has no caller. `Confined` and `ProtectedKept` except exactly these.
- Access lists: an edit of another session that overlaps one's own can undo a
  denial (`acl.rs:655`); `ProtectedKept` excepts such paths. A root inside a
  denied directory is granted explicitly. `dacl_has_write_deny_for_sid` counts
  the denial that the metadata of that root inherits (`acl.rs:273`), so the setup
  helper gives it no entry of its own (`bin/setup_main/win.rs:1027`), while the
  grant of the root is nearer and comes first: there `.git` can be written,
  although a root keeps its metadata (`resolved_permissions.rs:15`). With a
  request of that shape TLC finds `ProtectedKept` violated; `Plain` excludes it.
  Unelevated, a profile root is
  expanded for the token and not for the grants. Deny-write entries are never
  revoked.
- Sandbox group: the helper that grants reads in the background may come after a
  later denial of the same roots; denied paths inside one another or inside read
  roots, crashes and overlapping refreshes leave entries behind. A half-written
  record makes every later refresh fail. A read ACL helper that leaves because
  another one is at work does not come back for its own roots, which matters
  when they differ: `ReadsCome` is about requests with the same ones. A read grant on a profile child stays
  when the child becomes a dependency later.
- macOS: a descendant that escapes its group keeps the pipes open and the
  capture waiting; members forked while others are signalled one by one survive
  (`NoSurvivors` excepts groups that cannot be signalled as a whole).
- Helper copies: between removal and rename there is no copy, and a process that
  resolved it before fails to launch. An update that has the length of an
  earlier build and keeps an earlier time than the copy passes for the old build
  (`helper_materialization.rs:352`), as does one that came while a copy was made
  and differs in its time alone.
- Runner pipes: an answer that is sent while its thread has not ended is dropped
  by both looks, and the launch fails as timed out
  (`elevated/runner_client.rs:188`, `274`).
- Seatbelt: `/tmp` is a root of the default profile and a scratch directory whose
  rule comes last (`seatbelt.rs:29`, `960`), so nothing below it is kept, neither
  the metadata of roots there nor the roots themselves, although metadata inside
  any root stays read-only by `resolved_permissions.rs:15`. Of nested roots the
  outer one allows metadata of the inner one, and a directory between them can
  be renamed. A root that is missing at the launch can be filled with a directory
  that brings its own `.git`. The properties except these cases, by `OnlyIn`,
  `Anchored` and `Brought`. A read-only launch may write scratch.
- Command line: an editor's save between the read and the rename of setup is
  lost.
- Timeouts are cut to 32 bits where no token is given, and in the runner
  (`bin/command_runner/win.rs:623`). A startup error frame larger than the pipe
  buffer never becomes complete (`framed_io.rs:77`). The runner's input thread
  keeps a process handle that the main thread closes (`win.rs:657`). If the
  second pipe cannot be created, the first handle leaks
  (`elevated/runner_client.rs:323`).

## 5. Proofs

A theorem holds for all values of the constants that satisfy the `ASSUME`s of
its module: any sets of helpers, homes, threads, sessions, paths or processes,
any requests, any bounds. What the assumptions say beyond types:

| module | assumption | why |
|---|---|---|
| `SetupProvision` | `Payload # {}` | `payload` has a value before the first request |
| `RunnerSession`, `CaptureTree` | `Stream # {}` | a command has stdout |
| `LogonCreds` | `MaxGen > 0` | another home may have drawn passwords already |
| `CapSids` | finite `Root`, at least one root per session | a fresh SID exists; every request has a writable root or the workspace |
| `HelperCopy` | `None` is no file | missing and present differ |
| `PipeConnect` | finite `Handles` and `Sessions`, with two handles for each session | the handle table always has a free entry |
| `WindowsCapture` | `Wrap > 0` | it is 2^32 |
| `PathTree` | no path is above its parent | directories form a tree |
| `Seatbelt` | a disk stands; paths are closed under prefixes; commands name paths | any file system |
| `CommandLine` | entries and options are lists; what is no file content differs from one | what clap and the parser accept |
| `ReadRoots` | configuration files, the profile and its children are on the disk; the profile is no platform root | `canonical_existing_paths` keeps no other; the platform roots are Windows and program directories |
| `ElevatedLine` | in an instance refreshes come from invocations or from other callers | what is composed, see section 3 |
| `SetupFlight` | a code is no answer of the orchestrator's own | they are strings here |
| `SessionAcl` | entries left by earlier releases lie at the root of their SID or, denials, anywhere; what others opened is for Everyone or the sandbox user; an unelevated request denies nothing | how the code has always granted; `windows_capture.rs` passes no paths |
| `GroupAcl` | `Corrupt` is no set of paths; `requests # {}` | a record that parses is told from one that does not |

Some theorems have a hypothesis of their own, discussed below: `OneRunPerHome`,
`ProfileByHelper`, `Plain(setting)`, `DenialsApart`, `WritesApart`,
and the bound on configuration files. The instances of the runs satisfy them:
`MCSetupProvision`, `MCSessionAcl` and `MCGroupAcl` state so as
assumptions, which TLC evaluates, and `Line.cfg` has 3 configuration files and a
`MaxDepth` of 4. One exception is deliberate: of the settings of `MCSessionAcl`
the one with a request for the repository's `.git` as a root (`WithGit`) is not
`Plain`; there `ProtectedKept` is only model-checked.

**SetupProofs, provisioning.** `ProvisionTypes`: `Spec => []TypeOK`.
`EnforcementInvariant`: under `OneRunPerHome` (runs of one home do not overlap,
or all requests are service requests; the overlaps described under *Known
limits* show that the assumption is needed) `Spec => []EnforcementInv`.
`UsableMeansEnforced` alone is not inductive: a commit makes a home usable, so
one must know what the firewall holds at that point, although the lock was
released before. The argument:

1. `LockInv`: the steps under the lock are exactly those of the owner.
2. `SecretInv`: a generation of passwords belongs to one run and can be
   recorded only by the home of that run.
3. `HolderFacts`: the owner's steps build up the protections it asked for, and
   after it releases the lock they stand *as long as the offline password is
   its own*. Another run changes that password before it touches a rule; the
   uninstall disables the account before it does.
4. `HomeInv` and `UnfinishedNotReady`: during a run its home is not complete.
5. So a commit that makes a home usable finds the firewall as its run left it,
   and every later change to the firewall comes after a change that makes the
   home unusable.

`EnforcementSafety` and `UnfinishedSafety` follow. `PasswordSafety` and
`RepairSafety` need no hypothesis. `TogetherInv` says that the owner of the lock
gives both accounts the password it has drawn before it records it, and that a
password being replaced is recorded nowhere; `RepairInv` says what the owner
knows of the accounts it may enable or create, and of the protections it has put
back.

**SetupProofs, command line.** `FilesInv` follows the setup command and the
files, `RunInv` the invocation: what it has gathered is what the entries before
the next one say (`GatheredFrom`), and once it is resolved it stays
(`ResolvedOK`). `ChoiceInv` says what the value read so far is, at each of the
places it is read from; `RootsInv` that a refresh that belongs to an invocation
carries the permissions of that invocation. `ConfigKeptHolds`,
`BackendIsConfigured` and `EntriesEnforcedHolds` follow without a hypothesis.

`GrantsExactHolds` says that a refresh grants exactly what is asked for and
nothing keeps back. It rests on the walk over the configuration files finding
every file that can be reached (`WalkFinds`), for any graph of includes. The
walk is a function defined by recursion on the depth, within it on the position
in a list; that both definitions have a value (`MeetsExist`, `WalksExist`) and
every claim about them is proved by the least number at which it fails
(`LeastNumber`, `AllNumbers`), since the library's induction theorems are of no
use to the provers. The argument of `MeetWell` and `VisitWell`: a walk at some
depth has met at least that many files, since each level down adds one. So one
that is cut at `MaxDepth` has met them all, as long as there are no more files
than levels (the theorem's hypothesis, `Cardinality(SshFiles) <= MaxDepth`), and
every other walk has met, with each file it adds, all that file includes. The
hypothesis is needed: the depth at which a file is met depends on the order of
the includes, so with more files than levels a file can be met too deep first,
be marked as seen, and be skipped where its includes could have been followed.
`MaxDepth` is 32 in the code; a user has fewer such files.

**IdentityProofs, flights.** `FlightInvariant`: `Spec => [](TypeOK /\
FlightInv)`. `OneRunPerPayload` needs that a leader's flight is the one the map
holds for its payload (`LeadersMapped`); `SleepersAwaited` needs that who is
about to sleep has a result to read or a leader that will complete the flight
(`ResultsStored`). `FlightSafety` draws the three properties. `ReportSafety`
rests on `AloneInv`: a run that has its home to itself is the only one, no
read-ACL helper but its own is at work, and from its cleared report on the file
holds what its own helpers wrote last.

**IdentityProofs, credentials.** `CredsInvariant` is about captures that nobody
disturbs (`Calm`): what such a capture has found out of marker, users file and
accounts still holds unless the look itself failed (`unseen`), and while it waits for a
run, so does what that run has done (`RunSoFar`): its users file can be decoded,
too. A capture is disturbed exactly when somebody else changes
what it depends on, so that the steps of others need no further argument; the
weight lies on the run that ends for all who wait for it (`RunEnds`).
`CredsSafety` and `SettingsSafety` follow.

**RunnerSessionProofs.** `SessionFacts` ties the parent, the runner, the readers
and the two pipes together. Its centre is `Conserved`: of each stream, what was
captured, what is in frames under way, what a reader holds and what is in the
pipe add up to what the command has written. Frames are counted in a sequence by
the cardinality of its positions. With it `CompleteOutput` follows from the exit
frame being last. `SessionSafety` and `DescendantsSafety` follow, and
`SessionRefinement`: every step maps to a step of `CommandRun` or to a stutter.

**HomeFilesProofs.** Each protocol has its invariant, kept by its own steps and
untouched by the other's. `CapFacts`: a SID in the file or in anybody's hands
belongs to one root (`OneRoot`), and what an undisturbed session has looked up
is what a later look-up finds (`Steady`). `CopyFacts`: no file has a length or a
time that no build so far had (`Dated`), a copy is no newer than the update that
brought its build unless one came while it was made (`Stamped`), and what a
process is copying is whole and current (`InMaking`). So a new length or a later
time tells a new build, and nothing else does. `TokenSafety` and `CopySafety`
follow.

**PipeConnectProofs.** `PipeFacts`: an entry of the handle table belongs to a
pipe of a session exactly when its parent holds that number (`TableFacts`), and
the number that a connect thread was given is its session's handle until that is
closed, whoever has the number afterwards (`ThreadFacts`). That a free entry
exists when one is needed is a counting argument (`TableHasRoom`).
`PipesSafety` and `PeersSafety` follow. `FailureFacts` adds that a thread of a
session that still waits is in the call for its own pipe, whatever was closed and
made under its number elsewhere, and that a failure it reports has its cause
there; from this `FailuresSafety`.

**CommandProofs, captures.** One invariant for both platforms (`CaptureFacts`):
what the report can be at each stage, that captured output and the pipe's
content add up to what was produced, that a reader ends after the last process
that could write, that a capture which comes to an end has killed what it
tracks, and that a wait times out in time. `CaptureSafety` follows, and
`CaptureRefinement` shows that a capture of either platform is a run of
`CommandRun`.

**CommandProofs, Seatbelt.** `BeltInv`: the disk stands, and the rules in force
are those of `PolicyOf` with paths that lie in the roots and in none of their
metadata (`PolicyStands`). `AllowedMeans` turns the order of the rules into what
an operation that is let through can touch; from it follow `BeltTypesHold`,
`OnlyGrantedHolds`, `RootsStayHolds` and `MetadataUntouchedHolds`, for any disk
and any roots, nested, temporary or missing. What the last two except, because an
outer root's rule or a scratch directory's allows it (*Known limits*), is part of
the properties. The rules about roots and their ancestors keep a rename from
carrying metadata along with a directory.

**SessionAclProofs.** `ConfinedFacts`: every entry on the disk, in a list that
was fetched or in an edit that lets its SID write was opened by others or lies at
or below the root the SID is for, and the roots of a session are its request's. `Confined` follows by
the transitivity of `Up`, whatever entries earlier sessions left. For
`RootsUsable` one must know that each root's grant is still to come or on the
disk unless an edit of the same list overlapped (`UsableFacts`); that a root's
own entry cannot be denied through another root needs the antisymmetry of `Up`.
The hypothesis of `RootsSafety`, `ProfileByHelper`, says that unelevated
requests do not have the whole profile as a root: there the token gets
capabilities for the children and the grants are made for the profile (*Known
limits*).

`ProtectedSafety` proves `ProtectedKept` in `Plain` settings: what is on the
disk lies in directories that are, entries of earlier releases are grants at the
root of their SID, no request has a root at or below a path it may deny, and
unelevated no writable path lies in a root without being one. Sessions may still
overlap in any way. `KeptFacts` adds to `ConfinedFacts` and `UsableFacts`:

1. `EntriesOfRoots`: each grant is an entry at its SID's root, no denial stands
   at or above the root of its SID. So an explicit grant never lies below a
   denial for the same SID.
2. `PlanOfRequest`: what a session still has to grant and deny follows from its
   request; when its command runs nothing is left to do.
3. `DenialsDue`: for each root above a denied path some root at or below it has
   its denial on the disk or on its way, and on the way from that root to the
   path there is nothing that is not also below the outer one (`Covers`), unless
   edits of the list overlapped or somebody deleted the path meanwhile. The
   inner root comes in because what has appeared in the working directory since
   the plan was made is denied to the SID of that root only (`Guard`).
4. `Refreshed`: an entry of an earlier release, which lets children be deleted,
   is replaced at each root before its command starts.

**GroupAclProofs.** `GroupInvariant`: `StateFacts` says for each step of a
refresh what it has denied, added and still has to take back, and that refreshes
which take turns do. `LeftoversSafety` adds `RecordFacts`: each denial on the
disk is on record or known to the refresh at work. `DenialSafety` (`Unreadable`)
needs `DenialsApart`: no request denies a path inside one that it or another
request denies, or one that another request grants itself. Otherwise an entry
found by inheritance is taken back with the other request's, or a helper that
comes late replaces it. `WritableSafety` and `GroupSafety` (`GroupInv`) need
`WritesApart`: refreshes take turns, or none denies a path at or above what
another writes.

**Only model-checked.** Liveness, which is beyond the prover: `RunEnds`,
`CallsReturn`, `CallsEnd`, `EarlyEndsEnd`, `ConnectsEnd`, `Returns`,
`ReadsCome`, `Launches`. `ImplementsCommandRun` is proved for both systems;
`CommandRun` promises no liveness. Of the safety properties only `ProtectedKept`
is checked beyond what is proved, in the setting that is not `Plain`. Outside
the other hypotheses nothing is claimed: there the behaviours of *Known limits*
appear.

## 6. Not modelled

- `audit.rs` is exported and has no caller in the repository; what it would find
  is in *Known limits*.
- `effective_cwd` and `cwd_junction.rs`, `lock_sandbox_dir`, `no_reparse_dir.rs`:
  single operations on a directory, folded into the steps that call them.
- `gemini.rs` (the Low Integrity backend): its grants are never taken back and
  its capture is that of `WindowsCapture`.
- Token, desktop and WFP wrappers: one system call each. What a token may do by
  its restricting SIDs (capabilities, Everyone and the logon session, elevated
  the sandbox user) is part of `SessionAcl`. The SIDs that mark a network route
  are restricting as well, and no entry names them (`token.rs:495`). The check
  against the token's ordinary SIDs is taken to pass.
- ConPTY, stdin and resize: a capture uses none of them.
- Frame encoding, quoting, environment, logging, error texts.
- Seatbelt's reads, network rules, unreadable roots and globs, which no caller
  sets; symlinked roots, case folding.
- Panics. The one that would matter, inside `run` of a flight, is listed among
  the hazards.
- The spelling of paths and links on Windows: a path stands for its canonical
  key.
