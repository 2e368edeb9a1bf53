----------------------------- MODULE MCLogonCreds -----------------------------
(***************************************************************************)
(* Two captures: of one process or of two, with the same settings or       *)
(* different ones, keeping the marker's settings or not.                   *)
(***************************************************************************)
EXTENDS LogonCreds, TLC

CONSTANTS c1, c2, a, b, p1

Open == [ports |-> {p1}, binding |-> FALSE]
Binding == [ports |-> {p1}, binding |-> TRUE]

Offline(p, settings, keeps) ==
    [process |-> p, want |-> settings, offline |-> TRUE, preserve |-> keeps]

\* One process whose captures ask for the same; two processes, of which the
\* second keeps what the marker says and else asks for something different.
TwoCaptures ==
    {c1 :> Offline(a, Open, FALSE) @@ c2 :> other :
        other \in {Offline(a, Open, FALSE), Offline(b, Binding, TRUE)}}
=============================================================================
