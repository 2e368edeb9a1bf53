------------------------------- MODULE Seatbelt -------------------------------
(***************************************************************************)
(* What a command sandboxed with sandbox-exec may change on a macOS disk,  *)
(* launch after launch.  A launch gathers writable roots and the metadata  *)
(* (.git, .codex, .agents) to keep below them from the disk as it is       *)
(* (resolved_permissions.rs), and generates an ordered list of rules       *)
(* (seatbelt.rs); the sandboxed process and the user then create, write,   *)
(* remove and rename, and the next launch starts from what is left.        *)
(*                                                                         *)
(* A path is a sequence of names.  Rules list the paths they match.  The   *)
(* kernel (external) lets the last rule that matches an operation decide.  *)
(***************************************************************************)
EXTENDS Integers, Sequences, FiniteSets, SequencesExt

CONSTANTS
    Absent,         \* an object that is not on the disk
    Objects,        \* files and directories
    Kind,           \* Kind[o] is "file" or "dir"
    Disks,          \* the disks to start from: object -> its path, or Absent
    Paths,          \* the paths considered
    Metadata,       \* the names that are kept: PROTECTED_SUBDIRS
    Scratch,        \* system scratch directories every process may write
    SystemTemp,     \* what /tmp stands for
    Commands,       \* what launches are given: roots, a directory, and TMPDIR
    NewObjects,     \* what the sandboxed process may create
    UserObjects,    \* what the user creates meanwhile
    MaxChanges      \* bound on writes to the objects, all told

(* A disk: no two objects at one place, and directories all the way down to   *)
(* each.                                                                     *)
Standing(disk) ==
    \A o \in Objects : disk[o] # Absent =>
        /\ \A x \in Objects : disk[x] = disk[o] => x = o
        /\ \A n \in 1..Len(disk[o]) - 1 :
               \E x \in Objects : disk[x] = SubSeq(disk[o], 1, n) /\ Kind[x] = "dir"

ASSUME DiskAssumption ==
    /\ Kind \in [Objects -> {"file", "dir"}]
    /\ Disks \subseteq [Objects -> Paths \cup {Absent}] /\ \A disk \in Disks : Standing(disk)
    /\ NewObjects \subseteq Objects /\ UserObjects \subseteq Objects \ NewObjects
    /\ MaxChanges \in Nat

ASSUME PathsAssumption ==
    /\ Paths \subseteq Seq(STRING) \ {<<>>} /\ Absent \notin Paths
    /\ \A p \in Paths : \A n \in 1..Len(p) : SubSeq(p, 1, n) \in Paths
    /\ Metadata \subseteq STRING /\ Scratch \subseteq Seq(STRING)

ASSUME CommandsAssumption ==
    /\ SystemTemp \in Paths
    /\ \A q \in Commands :
          /\ q.workspaces \subseteq Paths /\ q.extra \subseteq Paths
          /\ q.temp \in BOOLEAN /\ q.tmpdir \in Paths \cup {Absent}

VARIABLES
    place,      \* where each object is
    writes,     \* how often each object has been written
    rules,      \* the policy of the running command, <<>> when none runs
    roots,      \* its writable roots
    files       \* those of them that were files at the launch

beltVars == <<place, writes, rules, roots, files>>

Within(p, dir) == IsPrefix(dir, p)
Parent(p) == Front(p)
At(p) == {o \in Objects : place[o] = p}
Missing(p) == At(p) = {}
IsDir(p) == \E o \in At(p) : Kind[o] = "dir"

-----------------------------------------------------------------------------
(* The policy. *)

(* macos_temp_env_roots: TMPDIR, unless it is not set, and /tmp.             *)
TempRoots(q) == IF q.temp THEN {q.tmpdir, SystemTemp} \ {Absent} ELSE {}

(* macos_writable_roots_for_cwd: of the workspaces those around the          *)
(* directory the command starts in, all extra roots, and the temporary ones, *)
(* which a request has unless it declines them.                              *)
WritableRoots(q) == {r \in q.workspaces : Within(q.cwd, r)} \cup q.extra \cup TempRoots(q)

(* protected_subpaths: metadata that is there at the launch. *)
ReadOnlySubpaths(root) ==
    {p \in {Append(root, m) : m \in Metadata} : ~Missing(p)}

\* A kept path is excluded, what is below it is not.
KeptLiteral(root) ==
    {Append(root, m) : m \in Metadata} \cap Paths

(* seatbelt_protected_metadata_name_regex: there or not. *)
MetadataPattern(root, m) == {p \in Paths : Within(p, Append(root, m))}

(* What the rule of a root leaves out. *)
Kept(root) ==
    {p \in Paths : \E q \in ReadOnlySubpaths(root) : Within(p, q)}
    \cup UNION {MetadataPattern(root, m) : m \in Metadata}

\* What is no directory is matched with all below its directory.
CoveredBeside(root) ==
    {p \in Paths : IF IsDir(root) THEN Within(p, root) ELSE Within(p, Parent(root))}

(* normalize_writable_root_for_sandbox: a file is matched literally; a root  *)
(* that is not there yet is taken for a directory.                           *)
Covered(root) ==
    {p \in Paths : IF IsDir(root) \/ Missing(root) THEN Within(p, root) ELSE p = root}

Rule(allow, ops, dirsOnly, paths) ==
    [allow |-> allow, ops |-> ops, dirsOnly |-> dirsOnly, paths |-> paths]

AllOps == {"data", "create", "unlink"}

\* The rule for the roots themselves is not generated.
AccessUnanchored(rs) ==
    IF rs = {} THEN <<>>
    ELSE <<Rule(TRUE, AllOps, FALSE, UNION {Covered(r) \ Kept(r) : r \in rs})>>

(* One allow rule whose alternatives are the roots, then for each root a     *)
(* rule that keeps the directory itself from being renamed or removed.       *)
AccessPolicy(rs) ==
    IF rs = {} THEN <<>>
    ELSE << Rule(TRUE, AllOps, FALSE, UNION {Covered(r) \ Kept(r) : r \in rs}),
            Rule(FALSE, {"unlink"}, TRUE, rs) >>

\* The walk towards the top does not stop at the root.
AncestorsToTop(rs) ==
    UNION {UNION {{SubSeq(q, 1, n) : n \in 0..Len(q) - 1} : q \in ReadOnlySubpaths(r)} : r \in rs}

(* The directories between a root and the metadata kept below it. *)
ProtectedAncestors(rs) ==
    {p \in Paths : \E r \in rs : \E q \in ReadOnlySubpaths(r) : Within(p, r) /\ Within(Parent(q), p)}

(* create_seatbelt_command_args: roots, then the scratch directories of a    *)
(* process, then the denies that must come last.                             *)
Policy(rs) ==
    AccessPolicy(rs)
    \o << Rule(TRUE, AllOps, FALSE, {p \in Paths : \E s \in Scratch : Within(p, s)}),
          Rule(FALSE, {"unlink"}, TRUE, ProtectedAncestors(rs)) >>

(* External: the last rule that matches decides, and without one the base    *)
(* policy's (deny default).                                                  *)
Allowed(op, p, kind) ==
    LET hits == {i \in DOMAIN rules :
                    /\ op \in rules[i].ops
                    /\ p \in rules[i].paths
                    /\ rules[i].dirsOnly => kind = "dir"}
    IN hits # {} /\ rules[CHOOSE i \in hits : \A j \in hits : j <= i].allow

-----------------------------------------------------------------------------
BeltInit ==
    /\ place \in Disks
    /\ writes = [o \in Objects |-> 0]
    /\ rules = <<>> /\ roots = {} /\ files = {}

(* run_sandbox_capture, until the process is spawned. *)
Launch(q) ==
    /\ rules = <<>>
    /\ roots' = WritableRoots(q)
    /\ rules' = Policy(WritableRoots(q))
    /\ files' = {r \in WritableRoots(q) : ~Missing(r) /\ ~IsDir(r)}
    /\ UNCHANGED <<place, writes>>

(* The command ends and the process group is gone. *)
End ==
    /\ rules # <<>>
    /\ rules' = <<>> /\ roots' = {} /\ files' = {}
    /\ UNCHANGED <<place, writes>>

(* Where an object can be made: nothing is there, and its parent is a        *)
(* directory.                                                                *)
FreePlaces == {p \in Paths : Len(p) > 1 /\ Missing(p) /\ IsDir(Parent(p))}

(* A path of one name stands for a directory only root can move. *)
Below(o) == {x \in Objects : place[x] # Absent /\ Within(place[x], place[o])}

(* External: the sandboxed process. *)
Modify(o) ==
    /\ rules # <<>> /\ place[o] # Absent /\ Kind[o] = "file"
    /\ writes[o] < MaxChanges
    /\ Allowed("data", place[o], "file")
    /\ writes' = [writes EXCEPT ![o] = @ + 1]
    /\ UNCHANGED <<place, rules, roots, files>>

Create(o, p) ==
    /\ rules # <<>> /\ place[o] = Absent /\ o \in NewObjects
    /\ p \in FreePlaces /\ Allowed("create", p, Kind[o])
    /\ place' = [place EXCEPT ![o] = p]
    /\ UNCHANGED <<writes, rules, roots, files>>

Unlink(o) ==
    /\ rules # <<>> /\ place[o] # Absent /\ Len(place[o]) > 1 /\ Below(o) = {o}
    /\ Allowed("unlink", place[o], Kind[o])
    /\ place' = [place EXCEPT ![o] = Absent]
    /\ UNCHANGED <<writes, rules, roots, files>>

(* What lies below a renamed directory moves with it, unasked. *)
Rename(o, p) ==
    /\ rules # <<>> /\ place[o] # Absent /\ Len(place[o]) > 1
    /\ p \in FreePlaces /\ ~Within(p, place[o])
    /\ Allowed("unlink", place[o], Kind[o]) /\ Allowed("create", p, Kind[o])
    /\ LET moved == [x \in Below(o) |-> p \o SubSeq(place[x], Len(place[o]) + 1, Len(place[x]))]
       IN /\ \A x \in Below(o) : moved[x] \in Paths
          /\ place' = [x \in Objects |-> IF x \in Below(o) THEN moved[x] ELSE place[x]]
    /\ UNCHANGED <<writes, rules, roots, files>>

(* External: the user, at any time, and under no policy. *)
UserCreates(o, p) ==
    /\ o \in UserObjects /\ place[o] = Absent
    /\ p \in FreePlaces
    /\ place' = [place EXCEPT ![o] = p]
    /\ UNCHANGED <<writes, rules, roots, files>>

Sandboxed ==
    \/ \E o \in Objects : Modify(o) \/ Unlink(o)
    \/ \E p \in FreePlaces, o \in Objects : Create(o, p) \/ Rename(o, p)

BeltNext ==
    \/ \E q \in Commands : Launch(q)
    \/ End
    \/ Sandboxed
    \/ \E o \in UserObjects, p \in FreePlaces : UserCreates(o, p)

BeltSpec == BeltInit /\ [][BeltNext]_beltVars

-----------------------------------------------------------------------------
(* Every variable has its type: the disk stands, and rules speak of its      *)
(* paths.                                                                    *)
BeltTypeOK ==
    /\ place \in [Objects -> Paths \cup {Absent}] /\ Standing(place)
    /\ writes \in [Objects -> 0..MaxChanges]
    /\ files \subseteq roots /\ roots \subseteq Paths
    /\ \A i \in DOMAIN rules : rules[i].ops \subseteq AllOps /\ rules[i].paths \subseteq Paths

(* The sandboxed process has changed o, which was there or is its doing. *)
Changed(o) == place'[o] # place[o] \/ writes'[o] # writes[o]
ByUser(o) == o \in UserObjects /\ place[o] = Absent

(* A directory or file from elsewhere takes the place r.                     *)
Brought(r) == \E x \in Objects : place[x] \notin {Absent, r} /\ place'[x] = r

(* Of what a launch grants, only the root r contains p: no scratch directory *)
(* does, and no other root.                                                  *)
OnlyIn(p, r) ==
    /\ \A s \in Scratch : ~Within(p, s)
    /\ \A x \in roots : Within(p, x) => x = r

InMetadata(p, r) == \E m \in Metadata : Within(p, Append(r, m))

(* Metadata directly below a writable root is neither written, removed nor   *)
(* moved by the sandboxed process, whatever directories it renames around it *)
(* and whenever the user has created it (resolved_permissions.rs: .git,      *)
(* .codex and .agents inside any writable root stay read-only).  Excepted is *)
(* what another root or a scratch directory contains as well: below /tmp,    *)
(* which is both, nothing is kept.                                           *)
MetadataKept ==
    [][\A o \in Objects : place[o] # Absent /\ Changed(o) =>
           \A r \in roots : InMetadata(place[o], r) => ~OnlyIn(place[o], r)]_beltVars

(* No metadata comes to stand in a writable root by the doing of the         *)
(* sandboxed process, neither created there nor moved there with a directory *)
(* around it (seatbelt_protected_metadata_name_regex), whether the root is a *)
(* directory, a file or missing, but in a directory that is renamed to a     *)
(* root that was missing.  The exception above holds here too.               *)
NoNewMetadata ==
    [][\A o \in Objects : place'[o] # Absent /\ Changed(o) /\ ~ByUser(o) =>
           \A r \in roots :
               InMetadata(place'[o], r) => ~OnlyIn(place'[o], r) \/ Brought(r)]_beltVars

(* Metadata below a writable root is the user's alone.                       *)
MetadataUntouched == MetadataKept /\ NoNewMetadata

(* Of the other roots at most its own directory contains r, and no scratch   *)
(* directory does.                                                           *)
Anchored(r) ==
    /\ \A s \in Scratch : ~Within(r, s)
    /\ \A x \in roots : Within(r, x) => x \in {r, Parent(r)}

(* A directory that is a writable root stays where it is: the sandboxed      *)
(* process cannot replace the boundary the next policy is built from         *)
(* (build_seatbelt_access_policy), unless it lies deeper in another root, or *)
(* is or lies in a scratch directory, whose rule comes after.                *)
RootsStay ==
    [][\A o \in Objects :
           (place[o] \in roots /\ Kind[o] = "dir" /\ Anchored(place[o]))
               => place'[o] = place[o]]_beltVars

(* The process changes only what lies below its roots and the scratch        *)
(* directories, before and after the change, and a root that was a file at   *)
(* the launch grants that place and nothing beside or below it               *)
(* (normalize_writable_root_for_sandbox), also when it is a directory later, *)
(* but what comes with a directory that is renamed to it.                    *)
OnlyGranted ==
    [][\A o \in Objects : (Changed(o) /\ ~ByUser(o)) =>
           \A p \in {place[o], place'[o]} \ {Absent} :
               \/ \E s \in Scratch : Within(p, s)
               \/ \E r \in roots :
                      Within(p, r) /\ (p # r /\ r \in files => Brought(r))]_beltVars
=============================================================================
