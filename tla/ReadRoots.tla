------------------------------- MODULE ReadRoots -------------------------------
(***************************************************************************)
(* Which roots a setup refresh grants to the sandbox group and to the      *)
(* capabilities of a session (setup.rs: build_payload_roots), while the    *)
(* user edits the ssh configuration that decides what is kept back         *)
(* (ssh_config_dependencies.rs).                                           *)
(*                                                                         *)
(* A path is a sequence of names.  The profile directory is never granted  *)
(* as a whole: its children are, but for some well-known names and for     *)
(* those that hold a file the ssh configuration depends on.                *)
(***************************************************************************)
EXTENDS Integers, Sequences, FiniteSets, SequencesExt

CONSTANTS
    NoRefresh,
    UserProfile,    \* the path of USERPROFILE
    Children,       \* the names in it
    Excluded,       \* USERPROFILE_ROOT_EXCLUSIONS
    HelperRoot,     \* the directory of copied helpers
    Platform,       \* WINDOWS_PLATFORM_DEFAULT_READ_ROOTS
    Sensitive,      \* the control directories of CODEX_HOME
    CodexHome,
    Existing,       \* the paths on the disk
    Drives,         \* those that have no parent
    SshFiles,       \* ssh configuration files; Main is ~/.ssh/config
    Main,
    PathOf,         \* where a configuration file is
    MaxDepth,       \* the depth at which includes are not followed
    Habits          \* what users and sessions do, by name:
                    \*   lists     what a file may include, in order
                    \*   named     what the other directives of a file may name
                    \*   refreshes what a session asks for

ASSUME FilesAssumption ==
    /\ Main \in SshFiles
    /\ PathOf \in [SshFiles -> Existing]
    /\ \A h \in DOMAIN Habits : Habits[h].lists \subseteq Seq(SshFiles)
    /\ MaxDepth \in Nat

ASSUME ProfileAssumption ==
    /\ UserProfile \in Existing /\ UserProfile \in Seq(STRING) /\ UserProfile \notin Platform \cup {HelperRoot}
    /\ Children \subseteq STRING /\ \A c \in Children : Append(UserProfile, c) \in Existing
    /\ "none" \notin Children \cup Excluded

VARIABLES
    habit,          \* the instance, chosen at the start
    includes,       \* includes[f] is the list of files f includes
    names,          \* names[f] are the paths its other directives name
    asked,          \* the request of a refresh that has just been made
    read,           \* the read roots in its payload
    write           \* the write roots in its payload

grants == <<asked, read, write>>
rootsVars == <<includes, names, grants>>

Within(p, dir) == IsPrefix(dir, p)
Child(p) == IF Within(p, UserProfile) /\ p # UserProfile THEN p[Len(UserProfile) + 1] ELSE "none"

-----------------------------------------------------------------------------
(* The paths the configuration depends on: visit_config. *)

(* The files met by a walk that has met seen and comes to f; the walk from   *)
(* a file that f includes is deeper[g][met].                                 *)
Meet(deeper, f, seen) ==
    IF f \in seen THEN seen
    ELSE LET met[i \in 0..Len(includes[f])] ==
                IF i = 0 THEN seen \cup {f} ELSE deeper[includes[f][i]][met[i - 1]]
         IN met[Len(includes[f])]

VisitFile[depth \in 0..MaxDepth] ==
    [f \in SshFiles |-> [seen \in SUBSET SshFiles |->
        IF depth = MaxDepth THEN seen ELSE Meet(VisitFile[depth + 1], f, seen)]]

(* The first file, and what the files met include and name.                  *)
DependencyPaths ==
    {PathOf[Main]}
    \cup UNION {{PathOf[g] : g \in ToSet(includes[f])} \cup names[f] : f \in VisitFile[0][Main][{}]}

-----------------------------------------------------------------------------
(* The roots of a refresh. *)

CanonicalExisting(paths) == paths \cap Existing

(* The children of the profile, or the profile where it cannot be read.     *)
ProfileReadRoots(q) ==
    IF q.listed THEN {Append(UserProfile, c) : c \in Children \ Excluded} ELSE {UserProfile}

(* A read of the whole disk leaves out the drive the command runs on.       *)
Readable(q) == {r \in q.readable : r \in Drives => ~Within(q.cwd, r)}

(* gather_read_roots, with or without the whole disk. *)
Gather(q) ==
    CanonicalExisting(
        IF q.fullRead
        THEN {HelperRoot} \cup Platform \cup ProfileReadRoots(q) \cup {q.cwd} \cup q.writable \cup Readable(q)
        ELSE {HelperRoot} \cup (IF q.platform THEN Platform ELSE {}) \cup q.readable)

(* The complete readable set of a split policy. *)
Overridden(q) ==
    CanonicalExisting({HelperRoot} \cup (IF q.platform THEN Platform ELSE {}) \cup q.readable)

ExpandProfile(q, roots) ==
    IF UserProfile \in roots THEN (roots \ {UserProfile}) \cup ProfileReadRoots(q) ELSE roots

IsExclusion(p) == Child(p) \in Excluded
IsDependency(p) ==
    Child(p) # "none" /\ \E d \in DependencyPaths : Child(d) = Child(p)

\* Only the paths the configuration names are dropped, not what they lie in.
FilteredExactly(q, roots) ==
    {p \in ExpandProfile(q, roots) \ {UserProfile} : ~IsExclusion(p) /\ p \notin DependencyPaths}

(* The four filters, in their order. *)
Filtered(q, roots) ==
    {p \in ExpandProfile(q, roots) \ {UserProfile} : ~IsExclusion(p) /\ ~IsDependency(p)}

(* effective_write_roots_for_permissions. *)
WriteRoots(q) ==
    {p \in Filtered(q, CanonicalExisting(q.writable)) :
        p # CodexHome /\ \A s \in Sensitive : ~Within(p, s)}

(* build_payload_roots. *)
ReadRootsOf(q) ==
    {p \in Filtered(q, IF q.override THEN Overridden(q) ELSE Gather(q)) \ WriteRoots(q) :
        \A d \in q.denied : ~Within(p, d)}

-----------------------------------------------------------------------------
RootsInit ==
    /\ habit \in DOMAIN Habits
    /\ includes \in [SshFiles -> Habits[habit].lists]
    /\ names = [f \in SshFiles |-> {}]
    /\ asked = NoRefresh /\ read = {} /\ write = {}

(* run_setup_refresh_inner, until the helper has its payload. *)
Refresh(q) ==
    /\ asked' = q
    /\ read' = ReadRootsOf(q)
    /\ write' = WriteRoots(q)
    /\ UNCHANGED <<includes, names>>

Forget == asked' = NoRefresh /\ read' = {} /\ write' = {}

(* External: the user edits a configuration file. *)
EditSsh(f, list, paths) ==
    /\ asked # NoRefresh
    /\ includes' = [includes EXCEPT ![f] = list]
    /\ names' = [names EXCEPT ![f] = paths]
    /\ Forget

RootsNext ==
    \/ \E q \in Habits[habit].refreshes : Refresh(q)
    \/ \E f \in SshFiles, list \in Habits[habit].lists, paths \in Habits[habit].named : EditSsh(f, list, paths)

-----------------------------------------------------------------------------
(* What a reader of the configuration would say, without walking it: the     *)
(* least set of files that holds Main and what they include.                 *)
Closed(fs) == Main \in fs /\ \A f \in fs : ToSet(includes[f]) \subseteq fs
Used == {f \in SshFiles : \A fs \in SUBSET SshFiles : Closed(fs) => f \in fs}

KeptBack(c) ==
    \/ c \in Excluded
    \/ \E f \in Used : Child(PathOf[f]) = c \/ \E d \in names[f] : Child(d) = c

(* Every variable has its type: grants are paths that are there. *)
RootsTypeOK ==
    /\ habit \in DOMAIN Habits
    /\ includes \in [SshFiles -> Habits[habit].lists]
    /\ names \in [SshFiles -> Habits[habit].named \cup {{}}]
    /\ read \subseteq Existing /\ write \subseteq Existing

(* The walk through the configuration ends and finds what every file in use  *)
(* names, whatever includes what, in whatever order, twice or in a circle    *)
(* (visit_config).                                                           *)
DependenciesFound ==
    DependencyPaths = {PathOf[f] : f \in Used} \cup UNION {names[f] : f \in Used}

(* No grant is the profile, lies in a child with a well-known name, or in a  *)
(* child that holds a file the ssh configuration depends on, also where a    *)
(* session asks for one by name (filter_ssh_config_dependency_roots).        *)
SecretsKeptBack ==
    \A p \in read \cup write :
        p # UserProfile /\ (Child(p) # "none" => ~KeptBack(Child(p)))

(* Nothing at or below a path that is denied is granted for reading, and     *)
(* nothing at or below a control directory for writing.                      *)
DeniedNotGranted ==
    asked # NoRefresh =>
        /\ \A p \in read, d \in asked.denied : ~Within(p, d)
        /\ \A p \in write : p # CodexHome /\ \A s \in Sensitive : ~Within(p, s)

Expanded(p) == IF p = UserProfile THEN {Append(UserProfile, c) : c \in Children} ELSE {p}

(* What a session asks for and nothing keeps back is granted: a root that is *)
(* there by itself, the profile by its children where they can be listed,    *)
(* and with a read of the whole disk the profile and the work directory      *)
(* unasked, though not the drive this lies on.  Otherwise a command fails    *)
(* where it may not.                                                         *)
NothingLost ==
    asked # NoRefresh =>
        LET whole == asked.fullRead /\ ~asked.override
            reads == (asked.readable \ (IF whole THEN {d \in Drives : Within(asked.cwd, d)} ELSE {}))
                     \cup (IF whole THEN {asked.cwd, UserProfile} ELSE {})
            unlisted == IF asked.listed THEN {} ELSE {UserProfile}
            Free(roots) == {p \in (UNION {Expanded(r) : r \in roots \ unlisted}) \cap Existing :
                                Child(p) = "none" \/ ~KeptBack(Child(p))}
        IN /\ \A p \in Free(reads) :
                 p \in read \cup write \/ \E d \in asked.denied : Within(p, d)
           /\ \A p \in Free(asked.writable) :
                 p \in write \/ p = CodexHome \/ \E s \in Sensitive : Within(p, s)
=============================================================================
