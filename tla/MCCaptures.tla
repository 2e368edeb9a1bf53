----------------------------- MODULE MCCaptures ------------------------------
(***************************************************************************)
(* Captures of commands of two or three processes on both platforms.       *)
(***************************************************************************)
EXTENDS Captures

Procs == {"root", "child", "grandchild"}

Windows(procs, streams, timeout, token) ==
    [platform |-> "windows", procs |-> procs, streams |-> streams,
     timeout |-> timeout, token |-> token, trouble |-> {}]

Mac(streams, trouble) ==
    [platform |-> "macos", procs |-> Procs, streams |-> streams,
     timeout |-> 2, token |-> TRUE, trouble |-> trouble]

\* On Windows: a plain wait, one whose milliseconds do not fit, one in slices,
\* and one without a timeout; on macOS: with trouble of every kind, and with
\* none but a signal that fails.
AllCaptures ==
    {Windows(Procs, {"out", "err"}, 2, FALSE), Windows({"root", "child"}, {"out"}, 5, FALSE),
     Windows({"root", "child"}, {"out"}, 5, TRUE), Windows({"root", "child"}, {"out"}, None, TRUE),
     Mac({"out", "err"}, {"escape", "members", "signal"}), Mac({"out"}, {"signal"})}
=============================================================================
