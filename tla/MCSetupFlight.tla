---------------------------- MODULE MCSetupFlight ----------------------------
(***************************************************************************)
(* Three threads: a leader, a follower and a third that follows as well or *)
(* runs a helper of its own at the same time.                              *)
(***************************************************************************)
EXTENDS SetupFlight

CONSTANTS t1, t2, t3, p1

Threads == {t1, t2, t3}
=============================================================================
