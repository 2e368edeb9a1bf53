----------------------------- MODULE MCSessionAcl -----------------------------
(***************************************************************************)
(* Four instances: two sessions around a workspace and a project in it;    *)
(* one session after the other, each on the disk the earlier ones left;    *)
(* roots in a user profile that holds CODEX_HOME; and a disk on which      *)
(* others have opened directories.                                         *)
(***************************************************************************)
EXTENDS SessionAcl, TLC

CONSTANTS s1, s2, w, git, codex, x, xgit, other, profile, docs, ssh, home, bin, log

Paths == {w, git, codex, x, xgit, other, profile, docs, ssh, home, bin, log}
Parents == w :> None @@ git :> w @@ codex :> w @@ x :> w @@ xgit :> x @@ other :> None
           @@ profile :> None @@ docs :> profile @@ ssh :> profile
           @@ home :> profile @@ bin :> home @@ log :> bin

Symmetry == Permutations({s1, s2})

Ask(cwd, workspace, extra, deny, elevated) ==
    [cwd |-> cwd, workspace |-> workspace, extra |-> extra, deny |-> deny,
     elevated |-> elevated]

InWorkspace == Ask(w, {w}, {}, {}, FALSE)
WithProject == Ask(other, {w, other}, {x}, {}, FALSE)
FromProject == Ask(x, {w}, {}, {xgit}, TRUE)
NotProject == Ask(w, {w}, {}, {x}, TRUE)
WithGit == Ask(w, {w}, {git}, {}, TRUE)
Nested == Ask(w, {w}, {x}, {}, FALSE)

\* The profile, and what must be filtered out of it.
OfProfile == Ask(docs, {profile}, {}, {}, TRUE)
WithKeys == Ask(docs, {docs}, {ssh, home}, {}, FALSE)
WithLog == Ask(home, {docs}, {log, docs}, {home}, TRUE)

Old(sid, p) == {[path |-> p, sid |-> <<sid, p>>, type |-> "old"]}
Work == {w, git, x, xgit, other}
Open(who, p, type) == [path |-> p, sid |-> <<who, None>>, type |-> type]

Settings == {
    [requests |-> {InWorkspace, WithProject, FromProject}, present |-> Work,
     old |-> Old("cwd", w), open |-> {}, atOnce |-> 2, begun |-> 2],
    [requests |-> {InWorkspace, WithProject, FromProject, WithGit, Nested}, present |-> Work,
     old |-> Old("cwd", w), open |-> {}, atOnce |-> 1, begun |-> 4],
    [requests |-> {OfProfile, WithKeys, WithLog},
     present |-> {profile, docs, ssh, home, bin, log},
     old |-> Old("path", docs), open |-> {}, atOnce |-> 2, begun |-> 3],
    [requests |-> {InWorkspace, WithProject, FromProject, NotProject}, present |-> Work, old |-> {},
     open |-> {Open("user", w, "old"), Open("everyone", x, "old"),
               Open("everyone", xgit, "allow"), Open("everyone", other, "allow")},
     atOnce |-> 1, begun |-> 3]}

ASSUME ProfilesByHelper == ProfileByHelper
ASSUME PlainSettings == \A g \in Settings : Plain(g) <=> WithGit \notin g.requests
===============================================================================
