------------------------------- MODULE PathTree -------------------------------
(***************************************************************************)
(* The directories that access lists are about: a tree of paths, each of   *)
(* which stands for its canonical key, whether it exists or not.  What is  *)
(* above a path is defined as the least set of paths that holds the path   *)
(* and the parents of its members.                                         *)
(***************************************************************************)

CONSTANTS Path, Parent, None    \* the parent of a top is None

Closed == {c \in SUBSET Path : \A x \in c : Parent[x] \in c \cup {None}}

\* A path and what is above it, and a path and what is below it.
Up == [p \in Path |-> {q \in Path : \A c \in Closed : p \in c => q \in c}]
Down(p) == {q \in Path : p \in Up[q]}
Below(paths) == UNION {Down(p) : p \in paths}
Children(p) == {q \in Path : Parent[q] = p}

ASSUME TreeConstants ==
    /\ None \notin Path
    /\ Parent \in [Path -> Path \cup {None}]
    /\ \A p \in Path : Parent[p] # None => p \notin Up[Parent[p]]
===============================================================================
