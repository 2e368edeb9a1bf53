------------------------------- MODULE GroupAcl -------------------------------
(***************************************************************************)
(* What the sandbox accounts may read.  Before an elevated command starts, *)
(* the setup helper is run as a refresh (win.rs, run_setup_full): it       *)
(* denies the sandbox group the paths of the request and takes back the    *)
(* denials it has on record and no longer wants (deny_read_acl.rs,         *)
(* deny_read_state.rs), starts a second helper that grants the read roots  *)
(* in the background, and grants the runtime directories and the write     *)
(* roots itself.  All of this edits the entries of one SID, the group's,   *)
(* and nothing keeps two refreshes apart.                                  *)
(*                                                                         *)
(* Edits of one list are atomic here; SessionAcl takes them apart.         *)
(***************************************************************************)
EXTENDS Naturals, FiniteSets, PathTree

CONSTANTS
    Present,                \* paths that exist at first
    Corrupt,                \* the content of a state file cut short
    Settings,               \* the settings a behaviour starts from
    MaxRuns                 \* bound: refreshes

Kind == {"deny", "read", "write"}
Ace == Path \X Kind
Request == [deny : SUBSET Path, read : SUBSET Path, write : SUBSET Path, launch : BOOLEAN]
Fault == {"add", "revoke", "store", "grant", "crash"}

ASSUME GroupConstants ==
    /\ Present \subseteq Path /\ \A paths \in SUBSET Path : paths # Corrupt
    /\ \A t \in Settings :
          /\ DOMAIN t = {"world", "old", "runtime", "requests", "faults", "runs", "active"}
          /\ t.world \subseteq Path /\ t.old \subseteq Path \X {"read", "write"}
          /\ t.runtime \subseteq Path /\ t.requests \subseteq Request /\ t.requests # {}
          /\ t.faults \subseteq Fault /\ t.runs \in 0..MaxRuns /\ t.active \in 0..MaxRuns
    /\ MaxRuns \in Nat

Run == 1..MaxRuns

VARIABLES
    exists, aces,       \* the disk: paths, and explicit entries of the group
    recorded,           \* deny_read_acl_state.json
    pc, req,            \* per refresh: its step, and its request
    todo,               \* what is left of the loop it is in
    applied, added,     \* paths it denied, and those it added an entry to
    stale,              \* recorded paths it has to take back
    helper,             \* the read ACL helper it spawned
    hroots,             \* what that one has left to do
    setting             \* what this behaviour started from: it never changes

sync == <<todo, applied, added, stale>>
vars == <<exists, aces, recorded, pc, req, sync, helper, hroots>>

TypeOK ==
    /\ exists \subseteq Path /\ aces \subseteq Ace
    /\ recorded = Corrupt \/ recorded \subseteq Path
    /\ setting \in Settings
    /\ pc \in [Run -> {"new", "load", "apply", "revoke", "spawn", "grant", "bad", "run", "done"}]
    /\ req \in [Run -> setting.requests] /\ todo \in [Run -> SUBSET Ace]
    /\ applied \in [Run -> SUBSET Path] /\ added \in [Run -> SUBSET Path]
    /\ stale \in [Run -> SUBSET Path]
    /\ helper \in [Run -> {"none", "start", "work", "ended"}]
    /\ hroots \in [Run -> SUBSET Path]

Init ==
    /\ exists = Present /\ recorded = {}
    /\ setting \in Settings /\ aces = setting.old
    /\ pc = [r \in Run |-> "new"]
    /\ req = [r \in Run |-> CHOOSE q \in setting.requests : TRUE]
    /\ todo = [r \in Run |-> {}] /\ stale = [r \in Run |-> {}]
    /\ applied = [r \in Run |-> {}] /\ added = [r \in Run |-> {}]
    /\ helper = [r \in Run |-> "none"] /\ hroots = [r \in Run |-> {}]

----------------------------------------------------------------------------
(* Entries.  Those of a directory are inherited by all below it.           *)

(* dacl_has_read_deny_for_sid: an inherited entry counts.                  *)
HasDeny(p) == \E q \in Up[p] : <<q, "deny">> \in aces

(* path_mask_allows: allow entries only, inherited ones too.               *)
HasRead(p) == \E q \in Up[p] : {<<q, "read">>, <<q, "write">>} \cap aces # {}
HasWrite(p) == \E q \in Up[p] : <<q, "write">> \in aces
WorldHas(p) == Up[p] \cap setting.world # {}

(* add_deny_read_ace                                                       *)
WithDeny(p) == IF HasDeny(p) THEN aces ELSE aces \cup {<<p, "deny">>}

(* revoke_ace: all explicit entries of the SID go, to allow or to deny.    *)
Without(p) == {a \in aces : a[1] # p}

(* ensure_allow_mask_aces: SET_ACCESS replaces what the SID had on a path. *)
WithGrant(p, kind) == Without(p) \cup {<<p, kind>>}

(* How Windows decides: explicit entries before inherited ones, near ones  *)
(* before far ones, and in a list those that deny first.                   *)
Readable(p) ==
    \E q \in Up[p] :
        /\ q \in setting.world \/ <<q, "read">> \in aces \/ <<q, "write">> \in aces
        /\ \A o \in Up[p] : <<o, "deny">> \in aces => o \notin Down(q)

----------------------------------------------------------------------------
(* A refresh: denials first                                                *)

Active == {r \in Run : pc[r] \notin {"new", "done"}}

(* Refreshes are started in turn; fields of one that is over are reset to  *)
(* keep the states few.                                                    *)
Begin(r) ==
    /\ r <= setting.runs /\ pc[r] = "new" /\ \A o \in Run : o < r => pc[o] # "new"
    /\ Cardinality(Active) < setting.active
    /\ \E q \in setting.requests : req' = [req EXCEPT ![r] = q]
    /\ pc' = [pc EXCEPT ![r] = "load"]
    /\ UNCHANGED <<exists, aces, recorded, sync, helper, hroots>>

Finish(r) ==
    /\ pc' = [pc EXCEPT ![r] = "done"]
    /\ todo' = [todo EXCEPT ![r] = {}] /\ stale' = [stale EXCEPT ![r] = {}]
    /\ applied' = [applied EXCEPT ![r] = {}] /\ added' = [added EXCEPT ![r] = {}]

(* load_state: a file that does not parse fails every refresh.             *)
Load(r) ==
    /\ pc[r] = "load"
    /\ UNCHANGED <<exists, aces, recorded, req, helper, hroots>>
    /\ \/ recorded = Corrupt /\ Finish(r)
       \/ /\ recorded # Corrupt
          /\ stale' = [stale EXCEPT ![r] = recorded]
          /\ todo' = [todo EXCEPT ![r] = req[r].deny \X {"deny"}]
          /\ pc' = [pc EXCEPT ![r] = "apply"]
          /\ UNCHANGED <<applied, added>>

(* apply_deny_read_acls, one path: a missing one is made a directory.      *)
Apply(r) ==
    /\ pc[r] = "apply"
    /\ \E a \in todo[r] : LET p == a[1] IN
          /\ exists' = exists \cup Up[p]
          /\ aces' = WithDeny(p)
          /\ added' = [added EXCEPT ![r] = IF HasDeny(p) THEN @ ELSE @ \cup {p}]
          /\ applied' = [applied EXCEPT ![r] = @ \cup {p}]
          /\ todo' = [todo EXCEPT ![r] = @ \ {a}]
    /\ UNCHANGED <<recorded, pc, req, stale, helper, hroots>>

\* Mutant: a path that cannot be denied leaves the others as they are.
ApplyFailsOnly(r) ==
    /\ pc[r] = "apply" /\ "add" \in setting.faults /\ todo[r] # {}
    /\ Finish(r)
    /\ UNCHANGED <<exists, aces, recorded, req, helper, hroots>>

(* A path cannot be denied: those this call denied are taken back.         *)
ApplyFails(r) ==
    /\ pc[r] = "apply" /\ "add" \in setting.faults /\ todo[r] # {}
    /\ aces' = {a \in aces : a[1] \notin added[r]}
    /\ Finish(r)
    /\ UNCHANGED <<exists, recorded, req, helper, hroots>>

\* Mutant: what the call denied counts as stale, as if the keys never match.
AppliedAllStale(r) ==
    /\ pc[r] = "apply" /\ todo[r] = {}
    /\ pc' = [pc EXCEPT ![r] = "revoke"]
    /\ UNCHANGED <<exists, aces, recorded, req, sync, helper, hroots>>

(* What is on record and was not denied again is stale.                   *)
Applied(r) ==
    /\ pc[r] = "apply" /\ todo[r] = {}
    /\ stale' = [stale EXCEPT ![r] = @ \ applied[r]]
    /\ pc' = [pc EXCEPT ![r] = "revoke"]
    /\ UNCHANGED <<exists, aces, recorded, req, todo, applied, added, helper, hroots>>

(* A recorded path no longer wanted.  revoke_ace tells nobody when it      *)
(* fails.                                                                  *)
RevokeStale(r) ==
    /\ pc[r] = "revoke"
    /\ \E p \in stale[r] :
          /\ stale' = [stale EXCEPT ![r] = @ \ {p}]
          /\ \/ aces' = Without(p)
             \/ "revoke" \in setting.faults /\ UNCHANGED aces
    /\ UNCHANGED <<exists, recorded, pc, req, todo, applied, added, helper, hroots>>

(* The paths denied by this refresh are the record from now on.            *)
Store(r) ==
    /\ pc[r] = "revoke" /\ stale[r] = {}
    /\ recorded' = applied[r]
    /\ pc' = [pc EXCEPT ![r] = "spawn"]
    /\ UNCHANGED <<exists, aces, req, sync, helper, hroots>>

(* store_state writes in place: it may fail and leave the old record.      *)
StoreFails(r) ==
    /\ pc[r] = "revoke" /\ stale[r] = {} /\ "store" \in setting.faults
    /\ Finish(r)
    /\ UNCHANGED <<exists, aces, recorded, req, helper, hroots>>

(* The helper is killed; while it writes the record, half of it is there.  *)
Crash(r) ==
    /\ pc[r] \in {"load", "apply", "revoke", "spawn", "grant", "bad"} /\ "crash" \in setting.faults
    /\ \/ UNCHANGED recorded
       \/ pc[r] = "revoke" /\ stale[r] = {} /\ recorded' = Corrupt
    /\ Finish(r)
    /\ UNCHANGED <<exists, aces, req, helper, hroots>>

----------------------------------------------------------------------------
(* A refresh: grants                                                       *)

MutexTaken == \E r \in Run : helper[r] = "work"

(* build_payload_roots: what is writable or denied needs no read grant.    *)
ReadRoots(q) == ((q.read \cap exists) \ q.write) \ Below(q.deny)

(* spawn_read_acl_helper, unless one is at work                            *)
SpawnHelper(r) ==
    /\ pc[r] = "spawn"
    /\ LET roots == ReadRoots(req[r]) IN
       IF roots = {} \/ MutexTaken
       THEN UNCHANGED <<helper, hroots>>
       ELSE /\ helper' = [helper EXCEPT ![r] = "start"]
            /\ hroots' = [hroots EXCEPT ![r] = roots]
    /\ todo' = [todo EXCEPT ![r] = (setting.runtime \X {"read"}) \cup ((req[r].write \cap exists) \X {"write"})]
    /\ pc' = [pc EXCEPT ![r] = "grant"]
    /\ UNCHANGED <<exists, aces, recorded, req, applied, added, stale>>

Needs(p, kind) == IF kind = "write" THEN ~HasWrite(p) ELSE ~HasRead(p)

(* A runtime directory or a write root.  After an error the rest is still  *)
(* done.                                                                   *)
Grant(r) ==
    /\ pc[r] \in {"grant", "bad"}
    /\ \E a \in todo[r] :
          /\ todo' = [todo EXCEPT ![r] = @ \ {a}]
          /\ \/ /\ aces' = IF Needs(a[1], a[2]) THEN WithGrant(a[1], a[2]) ELSE aces
                /\ UNCHANGED pc
             \/ /\ "grant" \in setting.faults /\ Needs(a[1], a[2])
                /\ pc' = [pc EXCEPT ![r] = "bad"] /\ UNCHANGED aces
    /\ UNCHANGED <<exists, recorded, req, applied, added, stale, helper, hroots>>

(* The refresh is over and the caller starts its command, if it has one;   *)
(* with errors, the refresh has failed.                                    *)
Launch(r) ==
    /\ pc[r] \in {"grant", "bad"} /\ todo[r] = {}
    /\ IF pc[r] = "grant" /\ req[r].launch
       THEN pc' = [pc EXCEPT ![r] = "run"] /\ UNCHANGED sync
       ELSE Finish(r)
    /\ UNCHANGED <<exists, aces, recorded, req, helper, hroots>>

End(r) ==
    /\ pc[r] = "run" /\ Finish(r)
    /\ UNCHANGED <<exists, aces, recorded, req, helper, hroots>>

----------------------------------------------------------------------------
(* The read ACL helper (run_read_acl_only)                                 *)

EndHelper(r) ==
    /\ helper' = [helper EXCEPT ![r] = "ended"]
    /\ hroots' = [hroots EXCEPT ![r] = {}]

(* acquire_read_acl_mutex: one that finds the mutex leaves.                *)
HelperBegins(r) ==
    /\ helper[r] = "start"
    /\ IF MutexTaken THEN EndHelper(r)
       ELSE helper' = [helper EXCEPT ![r] = "work"] /\ UNCHANGED hroots
    /\ UNCHANGED <<exists, aces, recorded, pc, req, sync>>

\* Mutant: the first root that needs no grant ends the loop.
HelperGrantsReturn(r) ==
    /\ helper[r] = "work"
    /\ \E p \in hroots[r] : LET has == WorldHas(p) \/ HasRead(p) IN
          /\ hroots' = [hroots EXCEPT ![r] = IF has THEN {} ELSE @ \ {p}]
          /\ aces' = IF has THEN aces ELSE WithGrant(p, "read")
    /\ UNCHANGED <<exists, recorded, pc, req, sync, helper>>

(* apply_read_acls, one root                                               *)
HelperGrants(r) ==
    /\ helper[r] = "work"
    /\ \E p \in hroots[r] :
          /\ hroots' = [hroots EXCEPT ![r] = @ \ {p}]
          /\ IF WorldHas(p) \/ HasRead(p) THEN UNCHANGED aces
             ELSE \/ aces' = WithGrant(p, "read")
                  \/ "grant" \in setting.faults /\ UNCHANGED aces
    /\ UNCHANGED <<exists, recorded, pc, req, sync, helper>>

HelperEnds(r) ==
    /\ helper[r] = "work" /\ hroots[r] = {}
    /\ EndHelper(r)
    /\ UNCHANGED <<exists, aces, recorded, pc, req, sync>>

Over ==
    /\ \A r \in 1..setting.runs : pc[r] = "done" /\ helper[r] \in {"none", "ended"}
    /\ UNCHANGED vars

RefreshStep(r) ==
    \/ Load(r) \/ Apply(r) \/ ApplyFails(r) \/ Applied(r) \/ RevokeStale(r)
    \/ Store(r) \/ StoreFails(r) \/ SpawnHelper(r) \/ Grant(r) \/ Launch(r)

HelperStep(r) == HelperBegins(r) \/ HelperGrants(r) \/ HelperEnds(r)

Next ==
    \/ \E r \in Run : Begin(r) \/ RefreshStep(r) \/ Crash(r) \/ End(r) \/ HelperStep(r)
    \/ Over

Spec == Init /\ [][Next /\ UNCHANGED setting]_<<vars, setting>>

(* Processes run on: the helper is waited for, its child by nobody.        *)
FairSpec == Spec /\ \A r \in Run : WF_vars(RefreshStep(r)) /\ WF_vars(HelperStep(r))

----------------------------------------------------------------------------
(* Properties                                                              *)

Running(r) == pc[r] = "run"

(* One refresh or command at a time.                                       *)
Alone == setting.active = 1

(* While a command runs and no other refresh is under way, its account     *)
(* cannot read the paths its request denies, whatever was granted before,  *)
(* above them, or by a helper that is late (win.rs: deny entries must be   *)
(* present before the command starts).                                     *)
Unreadable ==
    Alone => \A r \in Run : Running(r) => \A p \in req[r].deny : ~Readable(p)

(* When no refresh is under way, every denial on the disk is on record, so *)
(* that the next one takes it back (sync_persistent_deny_read_acls: no old *)
(* entries are left behind), unless an entry could not be taken back, or   *)
(* the record not be written.                                              *)
NoLeftovers ==
    /\ Alone /\ setting.faults \subseteq {"add", "grant"}
    /\ \A r \in Active : pc[r] = "run"
    => \A p \in Path : <<p, "deny">> \in aces => p \in recorded

(* A running command can use its write roots, though the entries of the    *)
(* same SID on the same paths are taken back when a denial is.             *)
RootsWritable == \A r \in Run : Running(r) => \A p \in req[r].write \cap Present : HasWrite(p)

(* A refresh leaves no denial that nobody will take back, and takes no     *)
(* grant back that is needed.                                              *)
GroupInv == TypeOK /\ NoLeftovers /\ RootsWritable

(* The read roots of a command that runs become readable, though the       *)
(* helper meant to grant them may find another one at work and leave: that *)
(* one grants them, if all ask for the same and no grant fails.            *)
SameRoots ==
    setting.faults = {} /\ \A q, o \in setting.requests : q.read = o.read
RootsReadable(r) == \A p \in ReadRoots(req[r]) \cap Present : Readable(p)
ReadsCome == \A r \in Run : (Running(r) /\ SameRoots) ~> RootsReadable(r)

\* Settings in which no request denies a path that is inside one it denies
\* itself, or another one does, nor one that the other makes readable; and
\* those in which no two refreshes overlap, or none denies a path above what
\* another writes.
DenialsApart == \A t \in Settings : t.active = 1 =>
    \A q, o \in t.requests : \A p \in q.deny :
        /\ o.deny \cap Up[p] \subseteq {p}
        /\ p \notin t.runtime \cup q.write \cup ((o.read \ o.write) \ Below(o.deny))
WritesApart == \A t \in Settings :
    t.active = 1 \/ \A q, o \in t.requests : q.write \cap Below(o.deny) = {}

\* What the invariants rest on.  Where a refresh is: what it denied so far,
\* and what it is still to do.
Known == UNION {q.deny : q \in setting.requests}
DeniedPaths == {p \in Path : <<p, "deny">> \in aces}
RunFacts(r) ==
    /\ pc[r] \in {"new", "load", "done"} => applied[r] = {}
    /\ pc[r] # "new" => applied[r] \subseteq req[r].deny
    /\ added[r] \subseteq applied[r] /\ stale[r] \subseteq Known
    /\ pc[r] = "apply" => /\ todo[r] \subseteq req[r].deny \X {"deny"}
                          /\ \A p \in req[r].deny \ applied[r] : <<p, "deny">> \in todo[r]
    /\ pc[r] \in {"revoke", "spawn", "grant", "bad", "run"} => req[r].deny \subseteq applied[r]
    /\ pc[r] = "revoke" => stale[r] \cap applied[r] = {}
    /\ pc[r] \in {"grant", "bad"} =>
          todo[r] \subseteq (setting.runtime \X {"read"}) \cup (req[r].write \X {"write"})
    /\ hroots[r] \subseteq UNION {(o.read \ o.write) \ Below(o.deny) : o \in setting.requests}
OneActive == Alone => \A r, o \in Active : r = o
StateFacts ==
    /\ Present \subseteq exists /\ DeniedPaths \subseteq Known
    /\ recorded = Corrupt \/ recorded \subseteq Known
    /\ OneActive /\ \A r \in Run : RunFacts(r)

\* Every denial on the disk is on record, or known to the refresh at work.
Careful == Alone /\ setting.faults \subseteq {"add", "grant"}
RecordFacts == Careful =>
    /\ recorded # Corrupt
    /\ \A r \in Run :
          /\ pc[r] = "apply" => stale[r] = recorded /\ DeniedPaths \subseteq recorded \cup added[r]
          /\ pc[r] = "revoke" => DeniedPaths \subseteq stale[r] \cup applied[r]
    /\ (\A r \in Run : pc[r] \notin {"apply", "revoke"}) => DeniedPaths \subseteq recorded

\* What a refresh denied stays denied, and what it is to make writable
\* becomes so and stays so.
DenyFacts == Alone => \A r \in Run : applied[r] \subseteq DeniedPaths
WriteFacts == \A r \in Run : \A p \in req[r].write \cap Present :
    /\ pc[r] = "grant" => HasWrite(p) \/ <<p, "write">> \in todo[r]
    /\ pc[r] = "run" => HasWrite(p)
=============================================================================
