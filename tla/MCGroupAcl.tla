----------------------------- MODULE MCGroupAcl -----------------------------
(***************************************************************************)
(* Instances of GroupAcl: a folder of secrets, a file in it, a project and *)
(* a tool directory below one top.                                         *)
(***************************************************************************)
EXTENDS GroupAcl, TLC

CONSTANTS top, secrets, key, project, tools

MCPath == {top, secrets, key, project, tools}
MCParent == (key :> secrets) @@ (top :> None) @@
            [p \in {secrets, project, tools} |-> top]

\* A refresh that denies, reads and writes, and starts a command.
Ask(deny, read, write) == [deny |-> deny, read |-> read, write |-> write, launch |-> TRUE]

\* A refresh for more read roots: it denies nothing and starts nothing.
MoreReads(read) == [deny |-> {}, read |-> read, write |-> {}, launch |-> FALSE]

\* Denied paths are apart from each other and from the read roots; tools is
\* denied by some requests and written by another.
ApartRequests ==
    {Ask({secrets}, {project, key}, {}), Ask({tools}, {top}, {project}),
     Ask({secrets, tools}, {top}, {project}), Ask({}, {top}, {project, tools}),
     MoreReads({top, project})}

\* The same read roots for all, some of them denied to one or the other.
SharedRequests ==
    {Ask({}, {project, tools}, {}), Ask({secrets}, {project, tools}, {}),
     MoreReads({project, tools})}

\* One refresh after another, on a disk where an earlier release or another
\* home has left a grant: three while only single edits fail; two while all
\* can fail and be cut short.
InTurn(faults, dirs, n) ==
    [world |-> {}, old |-> {<<project, "read">>}, runtime |-> dirs,
     requests |-> ApartRequests, faults |-> faults, runs |-> n, active |-> 1]

\* Two refreshes at once; tools can be read by all users.
AtOnce == [world |-> {tools}, old |-> {}, runtime |-> {}, requests |-> SharedRequests,
           faults |-> {}, runs |-> 2, active |-> 2]

MCSettings == {InTurn({"add", "grant"}, {}, 3), InTurn(Fault, {top}, 2), AtOnce}

ASSUME InstancesApart == DenialsApart /\ WritesApart
=============================================================================
