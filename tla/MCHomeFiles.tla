------------------------------ MODULE MCHomeFiles ------------------------------
(***************************************************************************)
(* Two captures that share a write root, one of which has another root;    *)
(* two processes that copy a runner while calls fail and processes die,    *)
(* and three while the package is updated at any time.                     *)
(***************************************************************************)
EXTENDS HomeFiles, TLC

CONSTANTS s1, s2, shared, own, p1, p2, p3

Overlapping == s1 :> {shared, own} @@ s2 :> {shared}

Resolving(processes, copied, kinds, midCopy, faults) ==
    [processes |-> processes, copied |-> copied, kinds |-> kinds,
     midCopy |-> midCopy, faults |-> faults]

NoHelper == Resolving({}, FALSE, {}, FALSE, FALSE)
Copies ==
    {Resolving({p1, p2}, FALSE, {"resized", "alike"}, TRUE, TRUE),
     Resolving({p1, p2}, TRUE, {"resized", "touched", "alike"}, FALSE, TRUE),
     Resolving({p1, p2, p3}, TRUE, {"resized"}, TRUE, FALSE)}

AllSettings == Copies \cup {NoHelper}
SidsOrCopies == {<<{s1, s2}, NoHelper>>} \cup ({{}} \X Copies)
=============================================================================
