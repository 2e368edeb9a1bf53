------------------------------ MODULE HelperCopy ------------------------------
(***************************************************************************)
(* The copy of the command runner that a sandbox home keeps under          *)
(* .sandbox-bin (helper_materialization.rs).  Every process that captures  *)
(* an elevated command resolves the runner, launches it and may be one of  *)
(* many: they share one destination file, and nothing locks it.  The       *)
(* package beside them may be updated in place meanwhile.                  *)
(*                                                                         *)
(* A file is a record: the build it holds, its length, its modification    *)
(* time and whether all of it is there.  Time is the number of updates so  *)
(* far: a file written since the last update is no older than the source.  *)
(* All processes have one version number, hence one destination name.      *)
(***************************************************************************)
EXTENDS Integers, FiniteSets

CONSTANTS
    Processes,      \* processes that launch the runner from one home
    None,           \* no such file
    Settings,       \* the settings a behaviour may be in
    MaxUpdates,     \* bound on updates of the package
    MaxDeaths       \* bound on processes that die while resolving

File == [build : 0..MaxUpdates, len : 0..MaxUpdates, time : 0..MaxUpdates, whole : BOOLEAN]

\* A setting: the processes there are; whether there is a copy already; the
\* kinds of update; whether the package may be updated while a copy is made;
\* whether processes may die, and reading, writing and renaming fail.
ASSUME CopyAssumption ==
    /\ Settings \subseteq
          [processes : SUBSET Processes, copied : BOOLEAN,
           kinds : SUBSET {"resized", "touched", "alike"}, midCopy : BOOLEAN, faults : BOOLEAN]
    /\ MaxUpdates \in Nat /\ MaxDeaths \in Nat /\ None \notin File

VARIABLES
    source,     \* the runner beside the package
    copy,       \* the destination under .sandbox-bin
    updates,    \* updates so far: the clock
    deaths,     \* processes that died so far
    stage,      \* where each process is in resolving and launching
    temp,       \* its temporary file
    opened,     \* the source file it has open
    cached,     \* its HELPER_PATH_CACHE holds the destination
    target,     \* the path it launches: "copy" or "source"
    image,      \* what its runner executes
    setting     \* the setting: it never changes

copyVars == <<source, copy, updates, deaths, stage, temp, opened, cached, target, image>>

Steps == {"idle", "check", "open", "write", "exists", "remove", "rename",
          "recheck", "launch", "running", "failed"}

(* The states inside copy_from_source_if_needed that hold a temporary file. *)
Copying == {"write", "exists", "remove", "rename", "recheck"}

(* A home without a copy, or with one of the present build; the updates     *)
(* that follow make it one of an earlier build.                             *)
CopyInit ==
    /\ source = [build |-> 0, len |-> 0, time |-> 0, whole |-> TRUE]
    /\ setting \in Settings
    /\ copy = IF setting.copied THEN source ELSE None
    /\ updates = 0 /\ deaths = 0
    /\ stage = [p \in Processes |-> "idle"]
    /\ temp = [p \in Processes |-> None]
    /\ opened = [p \in Processes |-> None]
    /\ cached = [p \in Processes |-> FALSE]
    /\ target = [p \in Processes |-> "source"]
    /\ image = [p \in Processes |-> None]

\* A length is not compared.
FreshByTime ==
    /\ copy # None
    /\ copy.time >= source.time

(* destination_is_fresh: same length, and written no earlier. *)
Fresh ==
    /\ copy # None
    /\ copy.len = source.len
    /\ copy.time >= source.time

(* A file that a process executes can be neither removed nor replaced. *)
InUse == \E p \in Processes : stage[p] = "running" /\ target[p] = "copy"

(***************************************************************************)
(* resolve_helper_for_launch: the copied path, remembered for the life of  *)
(* the process, or on any error the path beside the package.               *)
(***************************************************************************)
UseCopy(p) ==
    /\ stage' = [stage EXCEPT ![p] = "launch"]
    /\ target' = [target EXCEPT ![p] = "copy"]
    /\ cached' = [cached EXCEPT ![p] = TRUE]
    /\ temp' = [temp EXCEPT ![p] = None]
    /\ opened' = [opened EXCEPT ![p] = None]

FallBack(p) ==
    /\ stage' = [stage EXCEPT ![p] = "launch"]
    /\ target' = [target EXCEPT ![p] = "source"]
    /\ temp' = [temp EXCEPT ![p] = None]
    /\ opened' = [opened EXCEPT ![p] = None]
    /\ UNCHANGED cached

GoTo(p, step) ==
    /\ stage' = [stage EXCEPT ![p] = step]
    /\ UNCHANGED <<target, cached>>

(* copy_helper_if_needed: a cached path is taken as it is. *)
Resolve(p) ==
    /\ stage[p] = "idle" /\ p \in setting.processes
    /\ IF cached[p]
         THEN UseCopy(p)
         ELSE GoTo(p, "check") /\ UNCHANGED <<temp, opened>>
    /\ UNCHANGED <<source, copy, updates, deaths, image>>

(* copy_from_source_if_needed reuses a fresh destination. *)
Check(p) ==
    /\ stage[p] = "check"
    /\ \/ Fresh /\ UseCopy(p)
       \/ ~Fresh /\ GoTo(p, "open") /\ UNCHANGED <<temp, opened>>
       \/ setting.faults /\ FallBack(p)
    /\ UNCHANGED <<source, copy, updates, deaths, image>>

(* A file written now from another one, in part and in full. *)
PartOf(file) ==
    [build |-> file.build, len |-> file.len, time |-> updates, whole |-> FALSE]
CopyOf(file) ==
    [build |-> file.build, len |-> file.len, time |-> updates, whole |-> file.whole]

(* The temporary file is made in the destination's directory. *)
Open(p) ==
    /\ stage[p] = "open"
    /\ \/ /\ GoTo(p, "write")
          /\ opened' = [opened EXCEPT ![p] = source]
          /\ temp' = [temp EXCEPT ![p] = PartOf(source)]
       \/ setting.faults /\ FallBack(p)
    /\ UNCHANGED <<source, copy, updates, deaths, image>>

(* io::copy reads the file that was opened, updated since or not. *)
WriteTemp(p) ==
    /\ stage[p] = "write"
    /\ \/ /\ GoTo(p, "exists")
          /\ temp' = [temp EXCEPT ![p] = CopyOf(opened[p])]
          /\ UNCHANGED opened
       \/ setting.faults /\ FallBack(p)
    /\ UNCHANGED <<source, copy, updates, deaths, image>>

(* A destination that is there is removed before the rename. *)
Exists(p) ==
    /\ stage[p] = "exists"
    /\ GoTo(p, IF copy = None THEN "rename" ELSE "remove")
    /\ UNCHANGED <<source, copy, updates, deaths, temp, opened, image>>

\* A copy in use is waited for.
RemoveWaits(p) ==
    /\ stage[p] = "remove" /\ ~InUse
    /\ IF copy = None
         THEN FallBack(p) /\ UNCHANGED copy
         ELSE GoTo(p, "rename") /\ copy' = None /\ UNCHANGED <<temp, opened>>
    /\ UNCHANGED <<source, updates, deaths, image>>

(* It may be gone by now, or in use: both are errors. *)
Remove(p) ==
    /\ stage[p] = "remove"
    /\ IF copy = None \/ InUse
         THEN FallBack(p) /\ UNCHANGED copy
         ELSE GoTo(p, "rename") /\ copy' = None /\ UNCHANGED <<temp, opened>>
    /\ UNCHANGED <<source, updates, deaths, image>>

(* The rename replaces a file another process has put there since. *)
Rename(p) ==
    /\ stage[p] = "rename"
    /\ \/ ~InUse /\ copy' = temp[p] /\ UseCopy(p)
       \/ /\ InUse \/ setting.faults
          /\ GoTo(p, "recheck")
          /\ UNCHANGED <<copy, temp, opened>>
    /\ UNCHANGED <<source, updates, deaths, image>>

(* After a failed rename the copy of another process will do if it is fresh. *)
Recheck(p) ==
    /\ stage[p] = "recheck"
    /\ IF Fresh THEN UseCopy(p) ELSE FallBack(p)
    /\ UNCHANGED <<source, copy, updates, deaths, image>>

(* spawn_runner_transport starts whatever is at the path it resolved. *)
Launch(p) ==
    /\ stage[p] = "launch"
    /\ LET there == IF target[p] = "copy" THEN copy ELSE source
       IN /\ GoTo(p, IF there = None THEN "failed" ELSE "running")
          /\ image' = [image EXCEPT ![p] = there]
    /\ UNCHANGED <<source, copy, updates, deaths, temp, opened>>

(* The runner exits, or the launch error is reported; the process goes on. *)
Finish(p) ==
    /\ stage[p] \in {"running", "failed"}
    /\ GoTo(p, "idle")
    /\ image' = [image EXCEPT ![p] = None]
    /\ UNCHANGED <<source, copy, updates, deaths, temp, opened>>

(* A process dies and another takes its place: it has cached nothing.  Its   *)
(* temporary file stays behind under a name nobody uses again.               *)
Die(p) ==
    /\ setting.faults /\ stage[p] # "running" /\ deaths < MaxDeaths
    /\ deaths' = deaths + 1
    /\ stage' = [stage EXCEPT ![p] = "idle"]
    /\ cached' = [cached EXCEPT ![p] = FALSE]
    /\ temp' = [temp EXCEPT ![p] = None]
    /\ opened' = [opened EXCEPT ![p] = None]
    /\ UNCHANGED <<source, copy, updates, target, image>>

NextBuild(len, time) ==
    [build |-> source.build + 1, len |-> len, time |-> time, whole |-> source.whole]

(* External: the package is updated.  A resized build has a length that no   *)
(* earlier one had; the time is the one it is unpacked with, old or new.  A  *)
(* touched one has a length there has been and is newer than any copy; one   *)
(* that is alike also has an earlier time.                                   *)
Update ==
    /\ updates < MaxUpdates
    /\ setting.midCopy \/ \A p \in Processes : stage[p] \notin Copying
    /\ updates' = updates + 1
    /\ \/ /\ "resized" \in setting.kinds
          /\ \E time \in 0..updates' : source' = NextBuild(updates', time)
       \/ /\ "touched" \in setting.kinds
          /\ \E len \in 0..updates : source' = NextBuild(len, updates')
       \/ /\ "alike" \in setting.kinds
          /\ \E len, time \in 0..updates : source' = NextBuild(len, time)
    /\ UNCHANGED <<copy, deaths, stage, temp, opened, cached, target, image>>

Work(p) ==
    \/ Check(p) \/ Open(p) \/ WriteTemp(p) \/ Exists(p)
    \/ Remove(p) \/ Rename(p) \/ Recheck(p) \/ Launch(p) \/ Finish(p)

CopyNext ==
    \/ \E p \in Processes : Resolve(p) \/ Work(p) \/ Die(p)
    \/ Update

-----------------------------------------------------------------------------
(* Every variable has its type. *)
CopyTypeOK ==
    /\ setting \in Settings
    /\ source \in File /\ copy \in File \cup {None}
    /\ updates \in 0..MaxUpdates /\ deaths \in 0..MaxDeaths
    /\ stage \in [Processes -> Steps]
    /\ temp \in [Processes -> File \cup {None}]
    /\ opened \in [Processes -> File \cup {None}]
    /\ cached \in [Processes -> BOOLEAN]
    /\ target \in [Processes -> {"copy", "source"}]
    /\ image \in [Processes -> File \cup {None}]
    /\ \A p \in Processes : (stage[p] \in Copying) <=> (temp[p] # None)

(* No process ever finds half an executable at the destination, whoever      *)
(* copies at the time and whatever write fails: it is put there by a rename  *)
(* (copy_from_source_if_needed).                                             *)
WholeImage ==
    copy # None => copy.whole

(* Where nobody dies and no call fails, the destination is empty while some  *)
(* process stands between removing the old copy and renaming its own, and at *)
(* no other time once a process has cached the path: nothing on the way      *)
(* there leaves the home without a copy.                                     *)
GoneBriefly ==
    (~setting.faults /\ copy = None /\ \E p \in Processes : cached[p])
        => \E q \in Processes : stage[q] = "rename"

(* A copy that passes for fresh is the build beside the package: a process   *)
(* never reuses the copy of an earlier build (destination_is_fresh), if the  *)
(* last update brought a length no earlier build had, or a time later than   *)
(* any copy of one, none of which was being made during an update.  One that *)
(* keeps a length and brings an earlier time is missed.                      *)
FreshIsCurrent ==
    /\ Fresh
    /\ \/ source.len = source.build
       \/ source.time = source.build /\ ~setting.midCopy
    => copy.build = source.build

(* What the proofs need besides.  No file is ahead of the source, and its  *)
(* length came with its build or before.                                   *)
Dated(f) ==
    f # None => f.len <= f.build /\ f.build <= source.build /\ f.time <= updates

SourceFacts ==
    /\ source.whole /\ source.build = updates
    /\ Dated(source)

(* A file in the making is whole once written, and current if the package  *)
(* is left alone meanwhile.                                                *)
InMaking(f) == f # None /\ f.whole /\ (setting.midCopy \/ f.build = source.build)

(* Then the copy is no newer than the update that brought its build.       *)
Stamped == ~setting.midCopy /\ copy # None => copy.time <= copy.build

CopyFacts ==
    /\ SourceFacts /\ Dated(copy)
    /\ \A p \in Processes : Dated(opened[p]) /\ Dated(temp[p])
    /\ \A p \in Processes : stage[p] = "write" => InMaking(opened[p])
    /\ \A p \in Processes : stage[p] \in Copying \ {"write"} => InMaking(temp[p])
    /\ InUse => copy # None
    /\ Stamped /\ WholeImage /\ GoneBriefly

(* A process that resolves the runner launches something in the end: it      *)
(* never waits for a copy to become removable, which others who launch it    *)
(* over and over could put off for ever (copy_from_source_if_needed).        *)
Launches ==
    \A p \in Processes : stage[p] = "check" ~> stage[p] \in {"running", "failed", "idle"}
=============================================================================
