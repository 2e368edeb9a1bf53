------------------------------- MODULE HomeFiles -------------------------------
(***************************************************************************)
(* The two files of a sandbox home that its captures share without a lock: *)
(* the capability SIDs (CapSids) and the copy of the command runner        *)
(* (HelperCopy).  The protocols share no state, so that an instance may    *)
(* let captures do one of them while nobody does the other.                *)
(***************************************************************************)
EXTENDS CapSids, HelperCopy

CONSTANT Homes      \* which captures look up SIDs, and who copies the runner

ASSUME HomesAssumption == Homes \subseteq (SUBSET Session) \X Settings

vars == <<capVars, copyVars>>
chosen == <<sessions, setting>>

TypeOK == CapTypeOK /\ CopyTypeOK

Init == CapInit /\ CopyInit /\ chosen \in Homes

Next ==
    \/ CapNext /\ UNCHANGED copyVars
    \/ CopyNext /\ UNCHANGED capVars

Spec == Init /\ [][Next /\ UNCHANGED chosen]_<<vars, chosen>>

(* A process that resolves the runner goes on, and its runner exits.  That *)
(* a process launches again is its user's choice, and nothing is asked of  *)
(* the captures that look up SIDs.                                         *)
FairSpec ==
    Spec /\ \A p \in Processes : WF_vars(Work(p) /\ UNCHANGED capVars)

----------------------------------------------------------------------------
(* The SIDs in a command's token are those granted on its roots: no fewer, *)
(* and none that opens another root (cap.rs).                              *)
TokenExact == CapTypeOK /\ TokenGranted /\ NoOtherRoot

(* The copy of the runner is whole, current, and there but for the moment  *)
(* of its replacement (helper_materialization.rs).                         *)
CopySound == CopyTypeOK /\ WholeImage /\ GoneBriefly /\ FreshIsCurrent
=============================================================================
