----------------------------- MODULE MCPipeConnect -----------------------------
(***************************************************************************)
(* One session whose runner and whose strangers do what they can; and two  *)
(* sessions, of which one waits for a runner that never comes.             *)
(***************************************************************************)
EXTENDS PipeConnect

CONSTANTS s1, s2

Two == {s1, s2}
Table == 1..4

OneOrTwo ==
    {[sessions |-> {s1}, open |-> {s1}, strangers |-> 2],
     [sessions |-> {s1, s2}, open |-> {s2}, strangers |-> 0]}
=============================================================================
