--------------------------- MODULE MCRunnerSession ---------------------------
(***************************************************************************)
(* An instance of RunnerSession: the two output streams of a capture, one  *)
(* of which may outgrow its pipe; the job object calls work or may fail.   *)
(***************************************************************************)
EXTENDS RunnerSession

Streams == {"stdout", "stderr"}
=============================================================================
