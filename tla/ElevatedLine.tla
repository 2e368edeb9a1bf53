------------------------------ MODULE ElevatedLine ------------------------------
(***************************************************************************)
(* An invocation of yj-sandbox-run that the elevated backend runs: the     *)
(* permissions its entries add up to (CommandLine) become the request of   *)
(* the setup refresh that precedes the command (ReadRoots).                *)
(*                                                                         *)
(* The same refresh serves other callers of the library; an instance has   *)
(* invocations or such callers.                                            *)
(***************************************************************************)
EXTENDS CommandLine, ReadRoots

CONSTANTS
    Temp,           \* the directory of TEMP and TMP
    Instances       \* how the program is used while users and sessions do what

(* A refresh is the invocation's where there are invocations.               *)
ASSUME InstancesAssumption ==
    \A i \in Instances :
        /\ i \in (DOMAIN Usages) \X (DOMAIN Habits)
        /\ Usages[i[1]].requests = {} \/ Habits[i[2]].refreshes = {}

elevatedVars == <<lineVars, rootsVars>>
chosen == <<usage, habit>>

ElevatedInit == LineInit /\ RootsInit /\ chosen \in Instances

(* The permissions as the setup sees them; the command line has no roots   *)
(* of its own to put in their place.                                       *)
SessionRequest(s, listed) ==
    [fullRead |-> s.full, override |-> FALSE, platform |-> s.platform, cwd |-> Cwd,
     readable |-> s.reads, writable |-> s.writes \cup (IF s.temp THEN {Temp} ELSE {}),
     denied |-> s.denyRead, listed |-> listed]

(* require_logon_sandbox_creds: the roots that the permissions need are    *)
(* gathered first and refreshed as the complete set of roots, to which the *)
(* platform's own are always added.                                        *)
RefreshRequest(s, listed) ==
    LET q == SessionRequest(s, listed)
    IN [q EXCEPT !.override = TRUE, !.platform = TRUE, !.readable = Gather(q)]

LaunchRefresh ==
    /\ step = "launched" /\ backend = "elevated" /\ asked = NoRefresh
    /\ \E listed \in BOOLEAN : Refresh(RefreshRequest(perms, listed))
    /\ UNCHANGED lineVars

(* What an invocation was granted is forgotten when it ends.               *)
Ends == step # "idle" /\ step' = "idle"

ElevatedNext ==
    \/ LineNext /\ (IF Ends THEN Forget /\ UNCHANGED <<includes, names>>
                            ELSE UNCHANGED rootsVars)
    \/ LaunchRefresh
    \/ RootsNext /\ UNCHANGED lineVars

ElevatedSpec == ElevatedInit /\ [][ElevatedNext /\ UNCHANGED chosen]_<<elevatedVars, chosen>>

----------------------------------------------------------------------------
(* What the setup of a launched command grants for reading is the helper's *)
(* directory, a root of the platform, or what an entry of its state or an  *)
(* option names (resolve_sandbox_state to build_payload_roots), unless its *)
(* state reads the whole disk; and it grants nothing at or below a place   *)
(* an entry denies.                                                        *)
GrantsOfEntries ==
    (Launched /\ ByState /\ asked # NoRefresh) =>
        \A p \in read :
            /\ \/ perms.full \/ p \in Platform \cup {HelperRoot}
               \/ \E e \in Asked : Located(e) /\ e.access = "read" /\ p \in Expanded(Place(e))
               \/ \E d \in request.readable : p \in Expanded(d)
            /\ \A e \in Asked :
                  (Located(e) /\ e.access \in {"deny", "none"}) => ~Within(p, Place(e))

(* An invocation runs under every entry of its state and under no more than  *)
(* it asked for, on a backend that can enforce it, down to the roots the     *)
(* setup refresh grants for it.                                              *)
EntriesEnforced ==
    /\ LineTypeOK
    /\ EntriesKept /\ WritesAsked /\ WeakBackendsRefuse /\ NetworkAsked
    /\ GrantsOfEntries

(* The configuration decides the backend, and setup decides it through the   *)
(* configuration.                                                            *)
BackendAsConfigured == BackendChosen /\ TableSelects

(* A refresh grants exactly what it is asked for and nothing keeps back.     *)
GrantsExact ==
    /\ RootsTypeOK
    /\ DependenciesFound /\ SecretsKeptBack /\ DeniedNotGranted /\ NothingLost

(* Setup changes its setting and nothing else, and never leaves half a file. *)
ConfigKept == ConfigWhole /\ RestKept
=============================================================================
