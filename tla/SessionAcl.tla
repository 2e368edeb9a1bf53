------------------------------ MODULE SessionAcl ------------------------------
(***************************************************************************)
(* What a sandboxed command may write on Windows.  A session turns the     *)
(* request into writable roots and denied paths (resolved_permissions.rs,  *)
(* allow.rs, the filters of setup.rs), gives every root a capability SID   *)
(* (CapSids), puts allow and deny entries for these SIDs on the disk       *)
(* (acl.rs), and starts the command with a write-restricted token that     *)
(* holds the SIDs of its own roots (token.rs).  It also holds Everyone and *)
(* the logon session, and with the elevated backend the sandbox user: what *)
(* others have opened to these the command may write, and nothing here     *)
(* looks for it (audit.rs is never called).                                *)
(*                                                                         *)
(* The entries stay on the disk when the session is over, and sessions of  *)
(* several processes edit the same lists: an edit fetches the list of a    *)
(* path and stores a new one, with nothing to keep others out in between.  *)
(*                                                                         *)
(* The unelevated backend does all this itself; the elevated one leaves it *)
(* to the setup helper (win.rs), which picks the SIDs a little otherwise.  *)
(* Path spelling and links are left out: a path is its canonical key.      *)
(***************************************************************************)
EXTENDS Naturals, FiniteSets, FiniteSetsExt, PathTree

CONSTANTS
    Session,
    Protected, Codex,       \* .git, .codex and .agents; the last two of them
    Profile, Excluded,      \* USERPROFILE, or None, and children never granted
    Home, Control,          \* CODEX_HOME and its sandbox directories
    Setting                 \* where callers start, and what they ask for:
                            \*   requests  the requests they make
                            \*   present   the paths that exist at first
                            \*   old       entries an earlier release may have left
                            \*   open      entries by which others let Everyone or
                            \*             the sandbox user write
                            \*   atOnce    bound: sessions at the same time
                            \*   begun     bound: sessions begun

Request == [cwd : Path, workspace : SUBSET Path, extra : SUBSET Path,
            deny : SUBSET Path, elevated : BOOLEAN]

(* Entries: the write grant has no right to delete children; earlier ones  *)
(* had it.                                                                 *)
Rights == [allow |-> {"write", "delete"}, old |-> {"write", "delete", "child"},
           deny |-> {"write", "delete", "child"}]
Capability == {"cwd", "path"} \X Path
Others == {"everyone", "user"} \X {None}
Sid == Capability \cup Others
Ace == [path : Path, sid : Sid, type : DOMAIN Rights]

\* An entry that grants something lies below the root its SID stands for.
OfRoot(a) == a.sid \in Capability /\ (a.type # "deny" => a.sid[2] \in Up[a.path])

ASSUME AclConstants ==
    /\ None \notin [ace : Ace, list : SUBSET Ace]
    /\ Codex \subseteq Protected /\ Protected \subseteq Path
    /\ Excluded \subseteq {p \in Path : Parent[p] = Profile}
    /\ Control \subseteq {p \in Path : Parent[p] = Home}
    /\ \A g \in Setting :
          /\ g.requests # {} /\ g.present \subseteq Path
          /\ g.atOnce \in Nat /\ g.begun \in Nat
          /\ g.old \subseteq Ace /\ \A a \in g.old : OfRoot(a)
          /\ g.open \subseteq [path : g.present, sid : Others, type : {"allow", "old"}]
          \* The unelevated backend is never given paths to deny.
          /\ \A q \in g.requests : q \in Request /\ (~q.elevated => q.deny = {})

VARIABLES
    setting,    \* the instance, chosen at the start
    exists,     \* the paths on the disk
    aces,       \* the explicit entries of all paths
    pc, req,    \* per session: its step and its request
    roots,      \* the roots it holds capabilities for
    grants,     \* paths still to be granted
    denies,     \* pairs still to be denied: a path, and the root of the SID
    denied,     \* all paths it denies
    edit,       \* the list it fetched and is about to store, or None
    lost,       \* history: paths deleted since it began, by others or with a
                \* right that others opened
    raced,      \* history: paths where an edit undid another one
    begun       \* sessions begun so far

disk == <<exists, aces>>
plan == <<req, roots, denied>>
vars == <<setting, exists, aces, pc, req, roots, grants, denies, denied, edit, lost, raced, begun>>

TypeOK ==
    /\ setting \in Setting
    /\ exists \subseteq Path /\ aces \subseteq Ace
    /\ pc \in [Session -> {"idle", "grant", "deny", "guard", "run"}]
    /\ req \in [Session -> Request]
    /\ roots \in [Session -> SUBSET Path] /\ grants \in [Session -> SUBSET Path]
    /\ denies \in [Session -> SUBSET (Path \X Path)] /\ denied \in [Session -> SUBSET Path]
    /\ edit \in [Session -> [ace : Ace, list : SUBSET Ace] \cup {None}]
    /\ lost \in [Session -> SUBSET Path] /\ raced \subseteq Path
    /\ begun \in 0..setting.begun

Init ==
    /\ setting \in Setting
    /\ exists = setting.present
    /\ aces \in {setting.open \cup left : left \in SUBSET setting.old}
    /\ pc = [s \in Session |-> "idle"]
    /\ req = [s \in Session |-> CHOOSE q \in setting.requests : TRUE]
    /\ roots = [s \in Session |-> {}] /\ grants = [s \in Session |-> {}]
    /\ denies = [s \in Session |-> {}] /\ denied = [s \in Session |-> {}]
    /\ edit = [s \in Session |-> None]
    /\ lost = [s \in Session |-> {}] /\ raced = {} /\ begun = 0

----------------------------------------------------------------------------
(* Roots and denied paths of a request                                     *)

(* writable_roots_for_cwd: workspace roots that contain the command's      *)
(* directory, and the extra roots.                                         *)
WritableRoots(q) == {w \in q.workspace : w \in Up[q.cwd]} \cup q.extra

(* compute_allow_paths_for_permissions: what exists of the roots, and of   *)
(* the protected children of each.                                         *)
AllowPaths(q) == WritableRoots(q) \cap exists
ProtectedSubpaths(q) == {p \in Protected \cap exists : Parent[p] \in WritableRoots(q)}

(* expand_user_profile_root: the profile stands for its children.          *)
ExpandProfile(rs) ==
    (rs \ {Profile}) \cup
        (IF Profile \in rs THEN (Children(Profile) \cap exists) \ Excluded ELSE {})

(* filter_sensitive_write_roots                                            *)
FilterSensitive(rs) == rs \ ({Home} \cup Below(Control))

(* filter_user_profile_root_exclusions, filter_ssh_config_dependency_roots *)
FilterExcluded(rs) == rs \ Below(Excluded)

(* effective_write_roots_for_permissions                                   *)
EffectiveRoots(q) == FilterSensitive(FilterExcluded(ExpandProfile(AllowPaths(q))))

\* Mutant: one workspace SID for all, as the old format had it.
SharedSid(cwd, r) == <<"cwd", CHOOSE p \in Path : Parent[p] = None>>

\* Mutant: a SID for every pair of a directory and a root.
SidOfPair(cwd, r) == <<cwd, r>>

(* workspace_write_cap_sid_for_root                                        *)
SidOf(cwd, r) == IF r = cwd THEN <<"cwd", r>> ELSE <<"path", r>>

Sids(s) == {SidOf(req[s].cwd, r) : r \in roots[s]}

(* matching_root_capability: the most specific root that contains a path.  *)
Matching(rs, p) == {r \in rs \cap Up[p] : \A o \in rs \cap Up[p] : o \in Up[r]}

(* deny_root_capabilities_for_path, workspace_write_cap_sids_for_path: the *)
(* roots that overlap a path, or all if none does.                         *)
DenyRoots(rs, d) ==
    LET overlapping == {r \in rs : r \in Up[d] \/ d \in Up[r]} IN
    IF overlapping = {} THEN rs ELSE overlapping

----------------------------------------------------------------------------
(* The disk: effective entries, nearer lists before inherited ones, and in *)
(* a list deny before allow                                                *)

Has(p, sids, type, right) ==
    \E a \in aces : a.path = p /\ a.sid \in sids /\ a.type \in type /\ right \in Rights[a.type]

(* Some SIDs are granted a right on a path.                                *)
Granted(sids, p, right) ==
    \E q \in Up[p] :
        /\ Has(q, sids, {"allow", "old"}, right)
        /\ \A n \in Up[p] : q \in Up[n] => ~Has(n, sids, {"deny"}, right)

(* The restricting SIDs of the token besides the capabilities: Everyone    *)
(* and the logon session, which is taken for the same, and the token user  *)
(* if that is the sandbox user.                                            *)
Besides(s) == {sid \in Others : sid[1] = "user" => req[s].elevated}
Restricting(s) == Sids(s) \cup Besides(s)

MayDelete(sids, p) ==
    \/ Granted(sids, p, "delete")
    \/ Parent[p] # None /\ Granted(sids, Parent[p], "child")

CanWrite(s, p) == Granted(Restricting(s), p, "write")
CanDelete(s, p) == MayDelete(Restricting(s), p)

----------------------------------------------------------------------------
(* Preparing a session                                                     *)

Go(s, step) == pc' = [pc EXCEPT ![s] = step]

(* A session with roots; without write capabilities nothing is granted, and*)
(* a request whose roots are all filtered out is an error.                 *)
Begin(s) ==
    /\ pc[s] = "idle" /\ begun < setting.begun
    /\ Cardinality({o \in Session : pc[o] # "idle"}) < setting.atOnce
    /\ begun' = begun + 1
    /\ \E q \in setting.requests :
        LET rs == EffectiveRoots(q)
            ds == ProtectedSubpaths(q) \cup q.deny IN
        /\ rs # {}
        /\ req' = [req EXCEPT ![s] = q]
        /\ roots' = [roots EXCEPT ![s] = rs]
        /\ grants' = [grants EXCEPT ![s] = IF q.elevated THEN rs ELSE AllowPaths(q)]
        /\ denied' = [denied EXCEPT ![s] = ds]
        /\ denies' = [denies EXCEPT ![s] = {x \in ds \X rs : x[2] \in DenyRoots(rs, x[1])}]
    /\ Go(s, "grant")
    /\ lost' = [lost EXCEPT ![s] = {}]
    /\ UNCHANGED <<disk, edit, raced>>

List(p) == {a \in aces : a.path = p}

(* Ensure an entry: if it has no effect yet, fetch the list to edit it.    *)
Fetch(s, p, sid, type, present) ==
    IF present THEN UNCHANGED edit
    ELSE edit' = [edit EXCEPT ![s] = [ace |-> [path |-> p, sid |-> sid, type |-> type],
                                      list |-> List(p)]]

\* Mutant: an old entry counts as a grant.
NoRefresh(p, sid) ==
    \E a \in aces : a.path \in Up[p] /\ a.sid = sid /\ a.type # "deny"

\* Mutant: the grant of any SID will do.
AnyGrant(p, sid) ==
    /\ \E a \in aces : a.path \in Up[p] /\ a.type # "deny"
    /\ [path |-> p, sid |-> sid, type |-> "old"] \notin aces

(* dacl_allow_mask_needs_refresh: all rights are there, inherited or not,  *)
(* and no explicit entry has the right to delete children.                 *)
HasGrant(p, sid) ==
    /\ \E a \in aces : a.path \in Up[p] /\ a.sid = sid /\ a.type # "deny"
    /\ [path |-> p, sid |-> sid, type |-> "old"] \notin aces

(* dacl_has_write_deny_for_sid: an inherited denial counts.                *)
HasDeny(p, sid) == \E a \in aces : a.path \in Up[p] /\ a.sid = sid /\ a.type = "deny"

(* ensure_allow_write_aces; a root that is gone is an error unelevated and *)
(* skipped by the helper, and so is a path no root of the session contains.*)
Grant(s) ==
    /\ pc[s] = "grant" /\ edit[s] = None
    /\ \E p \in grants[s] :
        LET match == IF req[s].elevated THEN {p} ELSE Matching(roots[s], p) IN
        /\ p \in exists \/ req[s].elevated
        /\ grants' = [grants EXCEPT ![s] = @ \ {p}]
        /\ IF p \notin exists \/ match = {} THEN UNCHANGED edit
           ELSE \E r \in match :
                    LET sid == SidOf(req[s].cwd, r) IN
                    Fetch(s, p, sid, "allow", HasGrant(p, sid))
    /\ UNCHANGED <<disk, pc, plan, denies, lost, raced, begun>>

GrantsDone(s) ==
    /\ pc[s] = "grant" /\ edit[s] = None /\ grants[s] = {}
    /\ Go(s, "deny")
    /\ UNCHANGED <<disk, plan, grants, denies, edit, lost, raced, begun>>

(* add_deny_write_ace; the helper creates what is missing first.           *)
Deny(s) ==
    /\ pc[s] \in {"deny", "guard"} /\ edit[s] = None
    /\ \E x \in denies[s] :
        LET sid == SidOf(req[s].cwd, x[2]) IN
        /\ x[1] \in exists \/ req[s].elevated
        /\ exists' = exists \cup Up[x[1]]
        /\ denies' = [denies EXCEPT ![s] = @ \ {x}]
        /\ Fetch(s, x[1], sid, "deny", HasDeny(x[1], sid))
    /\ UNCHANGED <<aces, pc, plan, grants, lost, raced, begun>>

(* protect_workspace_codex_dir and protect_workspace_agents_dir, for what  *)
(* has appeared in the command's directory since the paths were computed.  *)
Guard(s) ==
    /\ pc[s] = "deny" /\ edit[s] = None /\ denies[s] = {} /\ ~req[s].elevated
    /\ LET cwd == req[s].cwd IN
       denies' = [denies EXCEPT ![s] =
           IF cwd \in roots[s] THEN (Codex \cap Children(cwd) \cap exists) \X {cwd} ELSE {}]
    /\ denied' = [denied EXCEPT ![s] = @ \cup {x[1] : x \in denies'[s]}]
    /\ Go(s, "guard")
    /\ UNCHANGED <<disk, req, roots, grants, edit, lost, raced, begun>>

Launch(s) ==
    /\ pc[s] = IF req[s].elevated THEN "deny" ELSE "guard"
    /\ edit[s] = None /\ denies[s] = {}
    /\ Go(s, "run")
    /\ UNCHANGED <<disk, plan, grants, denies, edit, lost, raced, begun>>

(* The new list: SET_ACCESS drops what the SID had on the path, allowed or *)
(* denied; DENY_ACCESS adds.                                               *)
NewList(s, e) ==
    IF e.ace.type = "deny" THEN e.list \cup {e.ace}
    ELSE {a \in e.list : a.sid # e.ace.sid} \cup {e.ace}

Store(s) ==
    /\ edit[s] # None
    /\ LET e == edit[s] IN
       LET p == e.ace.path IN
       /\ aces' = (aces \ List(p)) \cup (IF p \in exists THEN NewList(s, e) ELSE {})
       /\ raced' = IF List(p) = e.list THEN raced ELSE raced \cup {p}
    /\ edit' = [edit EXCEPT ![s] = None]
    /\ UNCHANGED <<exists, pc, plan, grants, denies, lost, begun>>

(* The command ends, or a step of the preparation fails; entries stay.     *)
Stop(s) ==
    /\ pc[s] # "idle"
    /\ Go(s, "idle")
    /\ roots' = [roots EXCEPT ![s] = {}] /\ grants' = [grants EXCEPT ![s] = {}]
    /\ denies' = [denies EXCEPT ![s] = {}] /\ denied' = [denied EXCEPT ![s] = {}]
    /\ edit' = [edit EXCEPT ![s] = None]
    /\ lost' = [lost EXCEPT ![s] = {}]
    /\ req' = [req EXCEPT ![s] = CHOOSE q \in setting.requests : TRUE]
    /\ UNCHANGED <<disk, raced, begun>>

----------------------------------------------------------------------------
(* Commands create and delete; what is created has no entries of its own   *)

Create(s, p) ==
    /\ pc[s] = "run" /\ p \notin exists
    /\ Parent[p] \in exists /\ CanWrite(s, Parent[p])
    /\ exists' = exists \cup {p}
    /\ UNCHANGED <<aces, pc, plan, grants, denies, edit, lost, raced, begun>>

Delete(s, p) ==
    /\ pc[s] = "run" /\ p \in exists /\ Children(p) \cap exists = {}
    /\ CanDelete(s, p)
    /\ exists' = exists \ {p}
    /\ aces' = aces \ List(p)
    /\ lost' = [o \in Session |->
           IF pc[o] = "idle" \/ (o = s /\ MayDelete(Sids(s), p)) THEN lost[o]
           ELSE lost[o] \cup {p}]
    /\ UNCHANGED <<pc, plan, grants, denies, edit, raced, begun>>

Next == \E s \in Session :
    \/ Begin(s) \/ Grant(s) \/ GrantsDone(s) \/ Deny(s) \/ Guard(s) \/ Launch(s)
    \/ Store(s) \/ Stop(s)
    \/ \E p \in Path : Create(s, p) \/ Delete(s, p)

Spec == Init /\ [][Next /\ UNCHANGED setting]_vars

----------------------------------------------------------------------------
Running == {s \in Session : pc[s] = "run"}
CanChange(s, p) == p \in exists /\ (CanWrite(s, p) \/ CanDelete(s, p))

\* The request gives a path away: it is below a root that may be granted, or
\* below a child of the profile that may be.
Asked(q, p) == \E r \in WritableRoots(q) \cap Up[p] :
    /\ r \notin Below(Control) \cup Below(Excluded)
    /\ IF r = Profile THEN p # Profile /\ p \notin Below(Excluded) ELSE r # Home

\* What others have opened to a session's token.
Opened(s) == {a \in setting.open : a.sid \in Besides(s)}

(* What Confined rests on: every entry that grants something, on the disk  *)
(* or about to be stored, was there before, opened by others, or lies      *)
(* below the root its SID stands for, and all                              *)
(* roots of a session are its request's, or children of the profile if     *)
(* that is one.                                                            *)
Placed(a) == a \in setting.open \/ OfRoot(a)
RootsOf(q) == {r \in Path :
    /\ r \notin {Home} \cup Below(Control) \cup Below(Excluded)
    /\ \/ r \in WritableRoots(q) \ {Profile}
       \/ Profile \in WritableRoots(q) /\ Parent[r] = Profile}
EditsPlaced == \A s \in Session :
    edit[s] # None => \A a \in edit[s].list \cup {edit[s].ace} : Placed(a)
ConfinedFacts ==
    /\ \A a \in aces : Placed(a)
    /\ \A s \in Session : roots[s] \subseteq RootsOf(req[s])
    /\ EditsPlaced

(* A command changes only what is below a root of its own request, or what *)
(* others have opened to Everyone or, elevated, to the sandbox user: no    *)
(* number of sessions that left entries for other roots behind opens more, *)
(* and the filters keep profile and control directories from being roots.  *)
Confined == \A s \in Running : \A p \in Path :
    CanChange(s, p) => Asked(req[s], p) \/ \E a \in Opened(s) : a.path \in Up[p]

\* Others have opened p, in a denied path d or below the nearest root on the
\* way to it; or the directory of d, whose children may be deleted then.
OpenedThere(s, d, p) == \E a \in Opened(s) :
    \/ a.path \in Up[p] /\ \A r \in roots[s] \cap Up[d] : a.path \notin Up[r]
    \/ p = d /\ Parent[d] # None /\ a.path \in Up[Parent[d]] /\ "child" \in Rights[a.type]

\* A denied path, but for roots the request has inside it.
Kept(s, d) == \A p \in Down(d) : CanChange(s, p) =>
    \/ \E r \in WritableRoots(req[s]) : r \in Up[p] /\ d \in Up[r]
    \/ OpenedThere(s, d, p)

(* "`.git` / `.codex` / `.agents` inside any writable root stay read-only" *)
(* (src/src/resolved_permissions.rs:15), and so do denied paths: a running *)
(* command cannot change, delete or replace them, also where others have   *)
(* opened the root or what is above it.  Excepted are what others opened   *)
(* nearer to the path, paths that somebody else deleted, and paths where   *)
(* edits of entries there or above overlapped.                             *)
ProtectedKept ==
    \A s \in Running : \A d \in denied[s] \ (lost[s] \cup Below(raced)) : Kept(s, d)

(* A command starts with every root writable that it has a capability for, *)
(* unless it is denied there itself ("extra writable roots ... are always  *)
(* writable", src/src/resolved_permissions.rs:14).                         *)
Usable(s) == \A r \in (roots[s] \cap exists) \ (lost[s] \cup raced) :
    Granted(Sids(s), r, "write") \/ Has(r, Sids(s), {"deny"}, "write")
RootsUsable ==
    [][\A s \in Session : pc[s] # "run" /\ pc'[s] = "run" => Usable(s)']_vars

\* What RootsUsable rests on: until a session launches, each of its roots is
\* there, and has the session's own grant, or is still to be granted, unless
\* somebody else deleted it or edits of its entries overlapped.
GrantOf(s, r) == [path |-> r, sid |-> SidOf(req[s].cwd, r), type |-> "allow"]
Coming(s, r) ==
    \/ pc[s] = "grant" /\ r \in grants[s]
    \/ pc[s] = "grant" /\ edit[s] # None /\ edit[s].ace = GrantOf(s, r)
    \/ GrantOf(s, r) \in aces
UsableSoon(s) ==
    /\ edit[s] # None => edit[s].ace.type # "old"
    /\ pc[s] = "idle" => roots[s] = {}
    /\ pc[s] # "run" => /\ roots[s] \subseteq exists \cup lost[s]
                        /\ \A r \in roots[s] \ (lost[s] \cup raced) : Coming(s, r)
UsableFacts == \A s \in Session : UsableSoon(s)

\* Without the helper a profile root is expanded for the token only, so its
\* children are roots nobody grants.
ProfileByHelper == \A g \in Setting : \A q \in g.requests :
    ~q.elevated => Profile \notin WritableRoots(q)

\* What a session may deny: the paths it is given, and protected children.
Deniable(q) == q.deny \cup {p \in Protected : Parent[p] \in WritableRoots(q)}

(* Where ProtectedKept holds for certain: no request has a root at or in a *)
(* path it denies, nor, without the helper, one that is filtered out but   *)
(* lies in another; paths exist in directories; and earlier releases       *)
(* granted roots to their own SIDs.                                        *)
Plain(g) ==
    /\ \A p \in g.present : Parent[p] \in g.present \cup {None}
    /\ \A a \in g.old : a.type # "deny" /\ a.path = a.sid[2] /\ a.path \in g.present
    /\ \A q \in g.requests :
          /\ \A r \in RootsOf(q) : Up[r] \cap Deniable(q) = {}
          /\ ~q.elevated => \A p \in WritableRoots(q) :
                 Up[p] \cap RootsOf(q) # {} => p \in RootsOf(q)

(* What it rests on there.  On the disk: grants are entries of the root    *)
(* their SID stands for, and denials of nothing at or above it.            *)
OfItsRoot(a) ==
    \/ a \in setting.open
    \/ IF a.type = "deny" THEN a.path \notin Up[a.sid[2]] ELSE a.path = a.sid[2]
EntriesOfRoots ==
    /\ \A p \in exists : Parent[p] \in exists \cup {None}
    /\ \A a \in aces : a.path \in exists /\ OfItsRoot(a)
    /\ \A s \in Session :
          edit[s] # None => \A a \in edit[s].list \cup {edit[s].ace} :
                                 OfItsRoot(a) /\ a.path = edit[s].ace.path

\* What a session has yet to do follows from its request and its roots.
PlanOfRequest(s) ==
    /\ req[s] \in setting.requests
    /\ denied[s] \subseteq Deniable(req[s]) /\ denies[s] \subseteq denied[s] \X roots[s]
    /\ \A p \in grants[s] : p \in roots[s] \/ (~req[s].elevated /\ Up[p] \cap roots[s] = {})
    /\ pc[s] = "run" => denies[s] = {} /\ edit[s] = None

\* The denial of d to the SID of r is in effect, or on its way.
DenialDue(s, d, r) ==
    LET sid == SidOf(req[s].cwd, r) IN
    \/ <<d, r>> \in denies[s]
    \/ /\ d \in exists
       /\ \/ HasDeny(d, sid)
          \/ edit[s] # None /\ edit[s].ace = [path |-> d, sid |-> sid, type |-> "deny"]

\* Below r on the way to d, everything is also below o.
Covers(r, o, d) == \A n \in Up[d] \ Up[r] : o \in Up[n]

\* For each root above a denied path there is a denial nearer to the path.
DenialsDue(s) ==
    \A d \in denied[s] \ (lost[s] \cup Below(raced)) : \A o \in roots[s] \cap Up[d] :
        \E r \in roots[s] \cap Up[d] : Covers(r, o, d) /\ DenialDue(s, d, r)

\* An earlier grant of a root is replaced before the command starts.
OldOf(s, r) == [GrantOf(s, r) EXCEPT !.type = "old"]
Refreshed(s, r) ==
    \/ pc[s] = "grant" /\ r \in grants[s]
    \/ pc[s] = "grant" /\ edit[s] # None /\ edit[s].ace = GrantOf(s, r)
    \/ OldOf(s, r) \notin aces

KeptFacts ==
    /\ EntriesOfRoots
    /\ \A s \in Session :
          /\ PlanOfRequest(s) /\ DenialsDue(s)
          /\ \A r \in roots[s] \ raced : Refreshed(s, r)
=============================================================================
