---------------------------- MODULE GroupAclProofs ----------------------------
(***************************************************************************)
(* Proofs about GroupAcl, for any tree of paths, any requests and any      *)
(* number of refreshes.                                                    *)
(***************************************************************************)
EXTENDS GroupAcl, FiniteSetTheorems, TLAPS

\* A step of a refresh, or of its helper.
StepOf(r) == Begin(r) \/ RefreshStep(r) \/ Crash(r) \/ End(r) \/ HelperStep(r)

(* What is above a path are paths, itself among them.                      *)
LEMMA Above ==
    ASSUME NEW p \in Path
    PROVE  Up[p] \subseteq Path /\ p \in Up[p]
BY DEF Up

(* The requests of a setting, and the parts of one.                        *)
LEMMA RequestTypes ==
    ASSUME TypeOK
    PROVE  /\ \A q \in setting.requests : /\ q \in Request
                                          /\ q.deny \subseteq Path /\ q.read \subseteq Path
                                          /\ q.write \subseteq Path /\ q.launch \in BOOLEAN
           /\ setting.requests # {} /\ setting.runtime \subseteq Path
           /\ setting.old \subseteq Path \X {"read", "write"}
<1>1. setting \in Settings
    BY DEF TypeOK
<1>2. setting.requests \subseteq Request
    BY <1>1, GroupConstants
<1>3. \A q \in Request : /\ q.deny \subseteq Path /\ q.read \subseteq Path
                         /\ q.write \subseteq Path /\ q.launch \in BOOLEAN
    BY DEF Request
<1> QED BY <1>1, <1>2, <1>3, GroupConstants

LEMMA TodoTypes ==
    ASSUME TypeOK, NEW r \in Run, NEW a \in todo[r]
    PROVE  a = <<a[1], a[2]>> /\ a[1] \in Path /\ a[2] \in Kind
<1>1. a \in Path \X Kind
    BY DEF TypeOK, Ace
<1> QED BY <1>1

(* An entry that is replaced or added is one of the group's.               *)
LEMMA EntryTypes ==
    ASSUME TypeOK, NEW p \in Path, NEW kind \in Kind
    PROVE  WithGrant(p, kind) \subseteq Ace /\ WithDeny(p) \subseteq Ace /\ Without(p) \subseteq Ace
<1>1. \A k \in Kind : <<p, k>> \in Ace
    BY DEF Ace
<1>2. "deny" \in Kind
    BY DEF Kind
<1> QED BY <1>1, <1>2 DEF TypeOK, WithGrant, Without, WithDeny

LEMMA InitTypes == Init => TypeOK
<1> SUFFICES ASSUME Init PROVE TypeOK
    OBVIOUS
<1>1. PICK t \in Settings : setting = t
    BY DEF Init
<1>2. /\ t.requests # {} /\ t.old \subseteq Path \X {"read", "write"}
      /\ Present \subseteq Path
    BY GroupConstants
<1>3. aces \subseteq Ace
    BY <1>1, <1>2 DEF Init, Ace, Kind
<1>4. (CHOOSE q \in setting.requests : TRUE) \in setting.requests
    BY <1>1, <1>2
<1> QED BY <1>1, <1>2, <1>3, <1>4 DEF Init, TypeOK

(* The parts of a step, one at a time.                                     *)
LEMMA RefreshTypes ==
    ASSUME TypeOK, setting' = setting, NEW r \in Run, RefreshStep(r)
    PROVE  TypeOK'
<1> USE DEF TypeOK, Finish, sync
<1>1. CASE Load(r)
    <2>1. req[r].deny \X {"deny"} \subseteq Ace
        BY RequestTypes DEF Ace, Kind
    <2> QED BY <1>1, <2>1 DEF Load
<1>2. CASE Apply(r)
    <2>1. PICK a \in todo[r] :
              /\ exists' = exists \cup Up[a[1]] /\ aces' = WithDeny(a[1])
              /\ added' = [added EXCEPT ![r] = IF HasDeny(a[1]) THEN @ ELSE @ \cup {a[1]}]
              /\ applied' = [applied EXCEPT ![r] = @ \cup {a[1]}]
              /\ todo' = [todo EXCEPT ![r] = @ \ {a}]
        BY <1>2 DEF Apply
    <2>2. a[1] \in Path /\ "deny" \in Kind
        BY TodoTypes DEF Kind
    <2>3. Up[a[1]] \subseteq Path /\ WithDeny(a[1]) \subseteq Ace
        BY <2>2, Above, EntryTypes
    <2>4. UNCHANGED <<recorded, pc, req, stale, helper, hroots>>
        BY <1>2 DEF Apply
    <2>5. /\ applied' \in [Run -> SUBSET Path] /\ added' \in [Run -> SUBSET Path]
          /\ todo' \in [Run -> SUBSET Ace]
        BY <2>1, <2>2
    <2> QED BY <2>1, <2>3, <2>4, <2>5
<1>3. CASE ApplyFails(r)
    BY <1>3 DEF ApplyFails
<1>4. CASE Applied(r)
    BY <1>4 DEF Applied
<1>5. CASE RevokeStale(r)
    <2>1. PICK p \in stale[r] : /\ stale' = [stale EXCEPT ![r] = @ \ {p}]
                                /\ aces' = Without(p) \/ UNCHANGED aces
        BY <1>5 DEF RevokeStale
    <2>2. aces' \subseteq Ace
        BY <2>1 DEF Without
    <2> QED BY <1>5, <2>1, <2>2 DEF RevokeStale
<1>6. CASE Store(r)
    BY <1>6 DEF Store
<1>7. CASE StoreFails(r)
    BY <1>7 DEF StoreFails
<1>8. CASE SpawnHelper(r)
    <2>1. (setting.runtime \X {"read"}) \cup ((req[r].write \cap exists) \X {"write"}) \subseteq Ace
        BY RequestTypes DEF Ace, Kind
    <2>2. ReadRoots(req[r]) \subseteq Path
        BY DEF ReadRoots
    <2>3. todo' \in [Run -> SUBSET Ace]
        BY <1>8, <2>1 DEF SpawnHelper
    <2>4. /\ helper' \in [Run -> {"none", "start", "work", "ended"}]
          /\ hroots' \in [Run -> SUBSET Path]
        BY <1>8, <2>2 DEF SpawnHelper
    <2> QED BY <1>8, <2>3, <2>4 DEF SpawnHelper
<1>9. CASE Grant(r)
    <2>1. PICK a \in todo[r] :
              /\ todo' = [todo EXCEPT ![r] = @ \ {a}]
              /\ \/ aces' = WithGrant(a[1], a[2]) /\ UNCHANGED pc
                 \/ UNCHANGED <<aces, pc>>
                 \/ pc' = [pc EXCEPT ![r] = "bad"] /\ UNCHANGED aces
        BY <1>9 DEF Grant
    <2>2. aces' \subseteq Ace
        BY <2>1, TodoTypes, EntryTypes
    <2> QED BY <1>9, <2>1, <2>2 DEF Grant
<1>10. CASE Launch(r)
    BY <1>10 DEF Launch
<1> QED BY <1>1, <1>2, <1>3, <1>4, <1>5, <1>6, <1>7, <1>8, <1>9, <1>10 DEF RefreshStep

LEMMA StepTypes ==
    ASSUME TypeOK, setting' = setting, NEW r \in Run, StepOf(r)
    PROVE  TypeOK'
<1> USE DEF TypeOK, Finish, sync
<1>1. CASE Begin(r)
    BY <1>1 DEF Begin
<1>2. CASE Crash(r)
    BY <1>2 DEF Crash
<1>3. CASE End(r)
    BY <1>3 DEF End
<1>4. CASE HelperBegins(r) \/ HelperEnds(r)
    BY <1>4 DEF HelperBegins, HelperEnds, EndHelper
<1>5. CASE HelperGrants(r)
    <2>1. PICK p \in hroots[r] : /\ hroots' = [hroots EXCEPT ![r] = @ \ {p}]
                                 /\ UNCHANGED aces \/ aces' = WithGrant(p, "read")
        BY <1>5 DEF HelperGrants
    <2>2. aces' \subseteq Ace
        BY <2>1, EntryTypes DEF Kind
    <2> QED BY <1>5, <2>1, <2>2 DEF HelperGrants
<1> QED BY <1>1, <1>2, <1>3, <1>4, <1>5, RefreshTypes DEF StepOf, HelperStep

LEMMA NextTypes ==
    ASSUME TypeOK, [Next /\ UNCHANGED setting]_<<vars, setting>>
    PROVE  TypeOK'
<1>1. CASE UNCHANGED <<vars, setting>>
    BY <1>1 DEF vars, sync, TypeOK
<1>2. CASE Over /\ setting' = setting
    BY <1>1, <1>2 DEF Over
<1> QED BY <1>1, <1>2, StepTypes DEF Next, StepOf
-----------------------------------------------------------------------------
(* A step is one of its refresh or helper: the others stay where they are. *)
LEMMA OthersStay ==
    ASSUME TypeOK, NEW r \in Run, StepOf(r), NEW o \in Run, o # r
    PROVE  /\ pc'[o] = pc[o] /\ req'[o] = req[o] /\ todo'[o] = todo[o]
           /\ applied'[o] = applied[o] /\ added'[o] = added[o] /\ stale'[o] = stale[o]
           /\ hroots'[o] = hroots[o]
<1> USE DEF TypeOK, Finish, sync
<1>1. CASE Begin(r) \/ Crash(r) \/ End(r)
    BY <1>1 DEF Begin, Crash, End
<1>2. CASE HelperStep(r)
    BY <1>2 DEF HelperStep, HelperBegins, HelperGrants, HelperEnds, EndHelper
<1>3. CASE Load(r) \/ Apply(r) \/ ApplyFails(r) \/ Applied(r)
    BY <1>3 DEF Load, Apply, ApplyFails, Applied
<1>4. CASE RevokeStale(r) \/ Store(r) \/ StoreFails(r)
    BY <1>4 DEF RevokeStale, Store, StoreFails
<1>5. CASE SpawnHelper(r) \/ Grant(r) \/ Launch(r)
    BY <1>5 DEF SpawnHelper, Grant, Launch
<1> QED BY <1>1, <1>2, <1>3, <1>4, <1>5 DEF StepOf, RefreshStep

(* Denials come from Apply alone, and go with three kinds of edits.        *)
LEMMA ApplyDenies ==
    ASSUME TypeOK, NEW r \in Run, NEW p \in Path, aces' = WithDeny(p)
    PROVE  /\ DeniedPaths \subseteq DeniedPaths'
           /\ HasDeny(p) => DeniedPaths' = DeniedPaths
           /\ ~HasDeny(p) => DeniedPaths' = DeniedPaths \cup {p}
BY DEF DeniedPaths, WithDeny

LEMMA GrantDenials ==
    ASSUME TypeOK, NEW p \in Path, NEW kind \in {"read", "write"}, aces' = WithGrant(p, kind)
    PROVE  DeniedPaths' = DeniedPaths \ {p}
BY DEF DeniedPaths, WithGrant, Without

(* A grant is for a path to be granted, and drops the denial of no other.  *)
LEMMA GrantEffect ==
    ASSUME TypeOK, StateFacts, NEW r \in Run, Grant(r)
    PROVE  \E a \in todo[r] :
              /\ todo' = [todo EXCEPT ![r] = @ \ {a}]
              /\ a[1] \in Path /\ a[2] \in {"read", "write"}
              /\ a \in (setting.runtime \X {"read"}) \cup (req[r].write \X {"write"})
              /\ DeniedPaths' \subseteq DeniedPaths /\ DeniedPaths \ {a[1]} \subseteq DeniedPaths'
              /\ \/ aces' = aces /\ pc' = [pc EXCEPT ![r] = "bad"]
                 \/ pc' = pc /\ aces' = IF Needs(a[1], a[2]) THEN WithGrant(a[1], a[2]) ELSE aces
              /\ UNCHANGED <<exists, recorded, req, applied, added, stale, helper, hroots>>
<1>1. PICK a \in todo[r] :
          /\ todo' = [todo EXCEPT ![r] = @ \ {a}]
          /\ \/ aces' = aces /\ pc' = [pc EXCEPT ![r] = "bad"]
             \/ pc' = pc /\ aces' = IF Needs(a[1], a[2]) THEN WithGrant(a[1], a[2]) ELSE aces
    BY DEF Grant
<1>2. /\ pc[r] \in {"grant", "bad"}
      /\ UNCHANGED <<exists, recorded, req, applied, added, stale, helper, hroots>>
    BY DEF Grant
<1>3. a \in (setting.runtime \X {"read"}) \cup (req[r].write \X {"write"})
    BY <1>2 DEF StateFacts, RunFacts
<1>4. a[1] \in Path /\ a[2] \in {"read", "write"}
    BY <1>3, TodoTypes
<1>5. DeniedPaths' \subseteq DeniedPaths /\ DeniedPaths \ {a[1]} \subseteq DeniedPaths'
    <2>1. CASE aces' = aces
        BY <2>1 DEF DeniedPaths
    <2>2. CASE aces' = WithGrant(a[1], a[2])
        BY <1>4, <2>2, GrantDenials
    <2> QED BY <1>1, <2>1, <2>2
<1> QED BY <1>1, <1>2, <1>3, <1>4, <1>5

LEMMA HelperEffect ==
    ASSUME TypeOK, NEW r \in Run, HelperGrants(r)
    PROVE  \E p \in hroots[r] :
              /\ hroots' = [hroots EXCEPT ![r] = @ \ {p}] /\ p \in Path
              /\ DeniedPaths' \subseteq DeniedPaths /\ DeniedPaths \ {p} \subseteq DeniedPaths'
              /\ aces' = aces \/ (~HasRead(p) /\ aces' = WithGrant(p, "read"))
              /\ UNCHANGED <<exists, recorded, pc, req, sync, helper>>
<1>1. PICK p \in hroots[r] :
          /\ hroots' = [hroots EXCEPT ![r] = @ \ {p}]
          /\ aces' = aces \/ (~HasRead(p) /\ aces' = WithGrant(p, "read"))
    BY DEF HelperGrants
<1>2. p \in Path
    BY DEF TypeOK
<1>3. DeniedPaths' \subseteq DeniedPaths /\ DeniedPaths \ {p} \subseteq DeniedPaths'
    <2>1. CASE aces' = aces
        BY <2>1 DEF DeniedPaths
    <2>2. CASE aces' = WithGrant(p, "read")
        BY <1>2, <2>2, GrantDenials
    <2> QED BY <1>1, <2>1, <2>2
<1> QED BY <1>1, <1>2, <1>3 DEF HelperGrants

(* One recorded path less; its entries go, unless nobody hears that they   *)
(* do not.                                                                 *)
LEMMA RevokeEffect ==
    ASSUME TypeOK, NEW r \in Run, RevokeStale(r)
    PROVE  \E p \in stale[r] :
              /\ stale' = [stale EXCEPT ![r] = @ \ {p}] /\ p \in Path
              /\ DeniedPaths' \subseteq DeniedPaths /\ DeniedPaths \ {p} \subseteq DeniedPaths'
              /\ "revoke" \notin setting.faults => DeniedPaths' = DeniedPaths \ {p}
              /\ aces' = aces \/ aces' = Without(p)
              /\ UNCHANGED <<exists, recorded, pc, req, todo, applied, added, helper, hroots>>
<1>1. PICK p \in stale[r] :
          /\ stale' = [stale EXCEPT ![r] = @ \ {p}]
          /\ aces' = Without(p) \/ ("revoke" \in setting.faults /\ aces' = aces)
    BY DEF RevokeStale
<1>2. p \in Path
    BY DEF TypeOK
<1>3. aces' = Without(p) => DeniedPaths' = DeniedPaths \ {p}
    BY DEF DeniedPaths, Without
<1>4. aces' = aces => DeniedPaths' = DeniedPaths
    BY DEF DeniedPaths
<1> QED BY <1>1, <1>2, <1>3, <1>4 DEF RevokeStale

LEMMA ApplyEffect ==
    ASSUME TypeOK, StateFacts, NEW r \in Run, Apply(r)
    PROVE  \E p \in req[r].deny :
              /\ p \in Path /\ exists \subseteq exists' /\ aces \subseteq aces'
              /\ DeniedPaths \subseteq DeniedPaths'
              /\ HasDeny(p) => DeniedPaths' = DeniedPaths
              /\ ~HasDeny(p) => DeniedPaths' = DeniedPaths \cup {p}
              /\ added' = [added EXCEPT ![r] = IF HasDeny(p) THEN @ ELSE @ \cup {p}]
              /\ applied' = [applied EXCEPT ![r] = @ \cup {p}]
              /\ todo' = [todo EXCEPT ![r] = @ \ {<<p, "deny">>}]
              /\ UNCHANGED <<recorded, pc, req, stale, helper, hroots>>
<1>1. PICK a \in todo[r] :
          /\ exists' = exists \cup Up[a[1]]
          /\ aces' = WithDeny(a[1])
          /\ added' = [added EXCEPT ![r] = IF HasDeny(a[1]) THEN @ ELSE @ \cup {a[1]}]
          /\ applied' = [applied EXCEPT ![r] = @ \cup {a[1]}]
          /\ todo' = [todo EXCEPT ![r] = @ \ {a}]
    BY DEF Apply
<1>2. a \in req[r].deny \X {"deny"}
    BY DEF Apply, StateFacts, RunFacts
<1>3. a[1] \in req[r].deny /\ a = <<a[1], "deny">> /\ a[1] \in Path
    BY <1>2, TodoTypes
<1>4. aces \subseteq aces'
    BY <1>1 DEF WithDeny
<1> QED BY <1>1, <1>3, <1>4, ApplyDenies DEF Apply

(* All other steps leave the entries alone, but for one that takes back    *)
(* what its refresh added.                                                 *)
LEMMA OtherEffect ==
    ASSUME TypeOK, NEW r \in Run, StepOf(r),
           ~Apply(r), ~RevokeStale(r), ~Grant(r), ~HelperGrants(r)
    PROVE  /\ exists' = exists
           /\ \/ aces' = aces /\ DeniedPaths' = DeniedPaths
              \/ /\ ApplyFails(r) /\ aces' = {a \in aces : a[1] \notin added[r]}
                 /\ DeniedPaths' = DeniedPaths \ added[r]
<1>1. /\ exists' = exists
      /\ aces' = aces \/ (ApplyFails(r) /\ aces' = {a \in aces : a[1] \notin added[r]})
    BY DEF StepOf, RefreshStep, HelperStep, Begin, Load, ApplyFails, Applied, Store, StoreFails,
           SpawnHelper, Launch, Crash, End, HelperBegins, HelperEnds
<1>2. aces' = aces => DeniedPaths' = DeniedPaths
    BY DEF DeniedPaths
<1>3. aces' = {a \in aces : a[1] \notin added[r]} => DeniedPaths' = DeniedPaths \ added[r]
    BY DEF DeniedPaths
<1> QED BY <1>1, <1>2, <1>3

-----------------------------------------------------------------------------
(* Only the beginning of a refresh makes one active, and under Alone no    *)
(* other one is then.                                                      *)
LEMMA ActiveShrinks ==
    ASSUME TypeOK, NEW r \in Run, StepOf(r), ~Begin(r)
    PROVE  Active' \subseteq Active
<1>1. \A o \in Run : o # r => pc'[o] = pc[o]
    BY OthersStay
<1>2. pc'[r] = pc[r] \/ pc[r] \notin {"new", "done"}
    BY DEF StepOf, RefreshStep, HelperStep, Load, Apply, ApplyFails, Applied, RevokeStale, Store,
           StoreFails, SpawnHelper, Grant, Launch, Crash, End, HelperBegins, HelperGrants,
           HelperEnds
<1> QED BY <1>1, <1>2 DEF Active

LEMMA BeginsAlone ==
    ASSUME TypeOK, NEW r \in Run, Begin(r), Alone
    PROVE  Active = {} /\ Active' = {r}
<1>1. Run \subseteq 1..MaxRuns /\ IsFiniteSet(1..MaxRuns)
    BY GroupConstants, FS_Interval DEF Run
<1>2. IsFiniteSet(Active)
    BY <1>1, FS_Subset DEF Active
<1>3. Cardinality(Active) < 1 /\ Cardinality(Active) \in Nat
    BY <1>2, FS_CardinalityType DEF Begin, Alone
<1>4. Active = {}
    BY <1>2, <1>3, FS_EmptySet
<1>5. \A o \in Run : pc'[o] = IF o = r THEN "load" ELSE pc[o]
    BY DEF Begin, TypeOK
<1> QED BY <1>4, <1>5 DEF Active

LEMMA InitFacts == Init => StateFacts
<1> SUFFICES ASSUME Init PROVE StateFacts
    OBVIOUS
<1>1. TypeOK
    BY InitTypes
<1>2. DeniedPaths = {}
    BY <1>1, RequestTypes DEF Init, DeniedPaths
<1>3. Active = {}
    BY DEF Init, Active
<1>4. \A r \in Run : RunFacts(r)
    BY DEF Init, RunFacts
<1> QED BY <1>2, <1>3, <1>4 DEF Init, StateFacts, OneActive

(* A refresh's own facts, step by step.                                    *)
LEMMA RunKeeps ==
    ASSUME TypeOK, StateFacts, setting' = setting, NEW r \in Run, StepOf(r)
    PROVE  RunFacts(r)'
<1> USE DEF TypeOK, Finish, sync
<1>0. RunFacts(r) /\ Known' = Known
    BY DEF StateFacts, Known
<1>1. CASE Begin(r) \/ End(r) \/ Crash(r)
    BY <1>0, <1>1 DEF Begin, End, Crash, RunFacts
<1>2. CASE Load(r)
    BY <1>0, <1>2 DEF Load, RunFacts, StateFacts
<1>3. CASE Apply(r)
    <2>1. PICK p \in req[r].deny :
              /\ added' = [added EXCEPT ![r] = IF HasDeny(p) THEN @ ELSE @ \cup {p}]
              /\ applied' = [applied EXCEPT ![r] = @ \cup {p}]
              /\ todo' = [todo EXCEPT ![r] = @ \ {<<p, "deny">>}]
              /\ UNCHANGED <<pc, req, stale, hroots>>
        BY <1>3, ApplyEffect
    <2>2. pc[r] = "apply"
        BY <1>3 DEF Apply
    <2> QED BY <1>0, <2>1, <2>2 DEF RunFacts
<1>4. CASE ApplyFails(r)
    BY <1>0, <1>4 DEF ApplyFails, RunFacts
<1>11. CASE Applied(r)
    <2>1. /\ pc[r] = "apply" /\ todo[r] = {} /\ pc'[r] = "revoke"
          /\ stale'[r] = stale[r] \ applied[r]
          /\ UNCHANGED <<req, todo, applied, added, hroots>>
        BY <1>11 DEF Applied
    <2>2. req[r].deny \subseteq applied[r]
        BY <1>0, <2>1 DEF RunFacts
    <2> QED BY <1>0, <2>1, <2>2 DEF RunFacts
<1>5. CASE RevokeStale(r)
    <2>1. PICK p \in stale[r] :
              /\ stale' = [stale EXCEPT ![r] = @ \ {p}]
              /\ UNCHANGED <<pc, req, todo, applied, added, hroots>>
        BY <1>5, RevokeEffect
    <2> QED BY <1>0, <2>1 DEF RunFacts
<1>6. CASE Store(r) \/ StoreFails(r)
    BY <1>0, <1>6 DEF Store, StoreFails, RunFacts
<1>7. CASE SpawnHelper(r)
    <2>1. /\ UNCHANGED <<req, applied, added, stale>> /\ pc[r] = "spawn" /\ pc'[r] = "grant"
          /\ todo'[r] = (setting.runtime \X {"read"}) \cup ((req[r].write \cap exists) \X {"write"})
          /\ hroots'[r] = hroots[r] \/ hroots'[r] = ReadRoots(req[r])
        BY <1>7 DEF SpawnHelper
    <2>2. ReadRoots(req[r]) \subseteq UNION {(o.read \ o.write) \ Below(o.deny) : o \in setting.requests}
        <3>1. req[r] \in setting.requests
            OBVIOUS
        <3> HIDE DEF TypeOK
        <3> QED BY <3>1 DEF ReadRoots
    <2> QED BY <1>0, <2>1, <2>2 DEF RunFacts
<1>8. CASE Grant(r)
    <2>1. PICK a \in todo[r] :
              /\ todo' = [todo EXCEPT ![r] = @ \ {a}]
              /\ pc' = pc \/ pc' = [pc EXCEPT ![r] = "bad"]
              /\ UNCHANGED <<req, applied, added, stale, hroots>>
        BY <1>8, GrantEffect
    <2>2. pc[r] \in {"grant", "bad"}
        BY <1>8 DEF Grant
    <2> QED BY <1>0, <2>1, <2>2 DEF RunFacts
<1>9. CASE Launch(r)
    BY <1>0, <1>9 DEF Launch, RunFacts
<1>10. CASE HelperStep(r)
    <2>1. UNCHANGED <<pc, req, todo, applied, added, stale>> /\ hroots'[r] \subseteq hroots[r]
        BY <1>10 DEF HelperStep, HelperBegins, HelperGrants, HelperEnds, EndHelper
    <2> QED BY <1>0, <2>1 DEF RunFacts
<1> QED BY <1>1, <1>2, <1>3, <1>4, <1>5, <1>6, <1>7, <1>8, <1>9, <1>10, <1>11 DEF StepOf, RefreshStep

LEMMA StateKeeps ==
    ASSUME TypeOK, StateFacts, setting' = setting, NEW r \in Run, StepOf(r)
    PROVE  StateFacts'
<1>1. \A o \in Run : RunFacts(o)'
    <2>1. ASSUME NEW o \in Run, o # r PROVE RunFacts(o)'
        BY <2>1, OthersStay DEF StateFacts, RunFacts, Known
    <2> QED BY <2>1, RunKeeps
<1>2. OneActive'
    <2>1. CASE Begin(r)
        BY <2>1, BeginsAlone DEF OneActive, Alone
    <2>2. CASE ~Begin(r)
        BY <2>2, ActiveShrinks DEF StateFacts, OneActive, Alone
    <2> QED BY <2>1, <2>2
<1>3. Present \subseteq exists' /\ DeniedPaths' \subseteq Known
    <2>1. CASE Apply(r)
        <3>1. req[r].deny \subseteq Known
            BY DEF TypeOK, Known
        <3> QED BY <2>1, <3>1, ApplyEffect DEF StateFacts
    <2>2. CASE ~Apply(r)
        BY <2>2, RevokeEffect, GrantEffect, HelperEffect, OtherEffect DEF StateFacts
    <2> QED BY <2>1, <2>2
<1>4. recorded' = Corrupt \/ recorded' \subseteq Known
    <2>1. \/ recorded' = recorded \/ recorded' = Corrupt
          \/ Store(r) /\ recorded' = applied[r]
        BY DEF StepOf, RefreshStep, HelperStep, Begin, Load, Apply, ApplyFails, Applied,
               RevokeStale, Store, StoreFails, SpawnHelper, Grant, Launch, Crash, End,
               HelperBegins, HelperGrants, HelperEnds
    <2>2. Store(r) => applied[r] \subseteq req[r].deny
        BY DEF Store, StateFacts, RunFacts
    <2>3. req[r].deny \subseteq Known
        BY DEF TypeOK, Known
    <2> QED BY <2>1, <2>2, <2>3 DEF StateFacts
<1>5. Known' = Known
    BY DEF Known
<1> QED BY <1>1, <1>2, <1>3, <1>4, <1>5 DEF StateFacts

(* Types, and where every refresh is, hold in every state.                 *)
THEOREM GroupInvariant == Spec => [](TypeOK /\ StateFacts)
<1>1. Init => TypeOK /\ StateFacts
    BY InitTypes, InitFacts
<1>2. TypeOK /\ StateFacts /\ [Next /\ UNCHANGED setting]_<<vars, setting>>
      => TypeOK' /\ StateFacts'
    <2>1. SUFFICES ASSUME TypeOK, StateFacts, [Next /\ UNCHANGED setting]_<<vars, setting>>
                   PROVE  StateFacts'
        BY NextTypes
    <2>2. CASE UNCHANGED <<vars, setting>>
        BY <2>1, <2>2 DEF vars, sync, StateFacts, RunFacts, OneActive, Active, Alone, Known,
                          DeniedPaths
    <2>3. CASE Over /\ setting' = setting
        BY <2>2, <2>3 DEF Over
    <2> QED BY <2>1, <2>2, <2>3, StateKeeps DEF Next, StepOf
<1> QED BY <1>1, <1>2, PTL DEF Spec

-----------------------------------------------------------------------------
(* What is recorded: no denial is lost sight of.                           *)
LEMMA RecordKeeps ==
    ASSUME TypeOK, StateFacts, RecordFacts, setting' = setting, NEW r \in Run, StepOf(r)
    PROVE  RecordFacts'
<1>1. SUFFICES ASSUME Careful PROVE RecordFacts'
    BY DEF RecordFacts, Careful, Alone
<1>2. /\ recorded # Corrupt
      /\ \A o \in Run :
            /\ pc[o] = "apply" => stale[o] = recorded /\ DeniedPaths \subseteq recorded \cup added[o]
            /\ pc[o] = "revoke" => DeniedPaths \subseteq stale[o] \cup applied[o]
      /\ (\A o \in Run : pc[o] \notin {"apply", "revoke"}) => DeniedPaths \subseteq recorded
    BY <1>1 DEF RecordFacts
<1>3. \A o \in Run : o # r => pc'[o] = pc[o]
    BY OthersStay
\* What its refresh is at, no other one is.
<1>4. ASSUME pc[r] \in {"load", "apply", "revoke", "spawn", "grant", "bad", "run"}
      PROVE  \A o \in Run : o # r => pc[o] \notin {"apply", "revoke"} /\ pc'[o] \notin {"apply", "revoke"}
    BY <1>1, <1>3, <1>4 DEF StateFacts, OneActive, Active, Careful
\* So it is enough that the facts hold where the step ends.
<1>5. ASSUME pc[r] \in {"load", "apply", "revoke", "spawn", "grant", "bad", "run"},
             recorded' # Corrupt,
             pc'[r] = "apply" => stale'[r] = recorded' /\ DeniedPaths' \subseteq recorded' \cup added'[r],
             pc'[r] = "revoke" => DeniedPaths' \subseteq stale'[r] \cup applied'[r],
             pc'[r] \notin {"apply", "revoke"} => DeniedPaths' \subseteq recorded'
      PROVE  RecordFacts'
    BY <1>4, <1>5 DEF RecordFacts
<1>6. pc[r] \in {"load", "spawn", "grant", "bad", "run"} => DeniedPaths \subseteq recorded
    BY <1>2, <1>4
<1>7. RunFacts(r)
    BY DEF StateFacts
<1>8. CASE Begin(r)
    <2>1. Active = {}
        BY <1>1, <1>8, BeginsAlone DEF Careful
    <2>2. \A o \in Run : pc[o] \notin {"apply", "revoke"}
        BY <2>1 DEF Active
    <2>3. pc'[r] = "load" /\ UNCHANGED <<aces, recorded>>
        BY <1>8 DEF Begin, TypeOK
    <2>4. \A o \in Run : pc'[o] \notin {"apply", "revoke"}
        BY <1>3, <2>2, <2>3
    <2> QED BY <1>2, <2>2, <2>3, <2>4 DEF RecordFacts, DeniedPaths
<1>9. CASE Load(r)
    <2>1. /\ pc[r] = "load" /\ pc'[r] = "apply" /\ stale'[r] = recorded
          /\ UNCHANGED <<aces, recorded>>
        BY <1>2, <1>9 DEF Load, TypeOK
    <2> QED BY <1>2, <1>5, <1>6, <2>1 DEF DeniedPaths
<1>10. CASE Apply(r)
    <2>1. PICK p \in req[r].deny :
              /\ HasDeny(p) => DeniedPaths' = DeniedPaths
              /\ ~HasDeny(p) => DeniedPaths' = DeniedPaths \cup {p}
              /\ added' = [added EXCEPT ![r] = IF HasDeny(p) THEN @ ELSE @ \cup {p}]
              /\ UNCHANGED <<recorded, pc, stale>>
        BY <1>10, ApplyEffect
    <2>2. pc[r] = "apply"
        BY <1>10 DEF Apply
    <2>3. added'[r] = IF HasDeny(p) THEN added[r] ELSE added[r] \cup {p}
        BY <2>1 DEF TypeOK
    <2>4. stale[r] = recorded /\ DeniedPaths \subseteq recorded \cup added[r]
        BY <1>2, <2>2
    <2>5. DeniedPaths' \subseteq recorded \cup added'[r]
        BY <2>1, <2>3, <2>4
    <2> QED BY <1>2, <1>5, <2>1, <2>2, <2>4, <2>5
<1>11. CASE ApplyFails(r)
    <2>1. pc[r] = "apply" /\ pc'[r] = "done" /\ recorded' = recorded
        BY <1>11 DEF ApplyFails, Finish, TypeOK
    <2>2. DeniedPaths' = DeniedPaths \ added[r]
        BY <1>11 DEF ApplyFails, DeniedPaths
    <2> QED BY <1>2, <1>5, <2>1, <2>2
<1>12. CASE Applied(r)
    <2>1. /\ pc[r] = "apply" /\ pc'[r] = "revoke" /\ stale'[r] = stale[r] \ applied[r]
          /\ UNCHANGED <<aces, recorded, applied>>
        BY <1>12 DEF Applied, TypeOK
    <2>2. DeniedPaths \subseteq stale[r] \cup applied[r]
        BY <1>2, <1>7, <2>1 DEF RunFacts
    <2> QED BY <1>2, <1>5, <2>1, <2>2 DEF DeniedPaths
<1>13. CASE RevokeStale(r)
    <2>1. PICK p \in stale[r] :
              /\ stale' = [stale EXCEPT ![r] = @ \ {p}]
              /\ "revoke" \notin setting.faults => DeniedPaths' = DeniedPaths \ {p}
              /\ UNCHANGED <<recorded, pc, applied>>
        BY <1>13, RevokeEffect
    <2>2. pc[r] = "revoke" /\ DeniedPaths' = DeniedPaths \ {p} /\ stale'[r] = stale[r] \ {p}
        BY <1>1, <1>13, <2>1 DEF RevokeStale, Careful, TypeOK
    <2> QED BY <1>2, <1>5, <2>1, <2>2
<1>14. CASE Store(r)
    <2>1. /\ pc[r] = "revoke" /\ stale[r] = {} /\ pc'[r] = "spawn" /\ recorded' = applied[r]
          /\ aces' = aces
        BY <1>14 DEF Store, TypeOK
    <2>2. applied[r] # Corrupt
        BY GroupConstants DEF TypeOK
    <2>3. DeniedPaths \subseteq applied[r]
        BY <1>2, <2>1
    <2> QED BY <1>5, <2>1, <2>2, <2>3 DEF DeniedPaths
<1>15. CASE SpawnHelper(r) \/ Grant(r) \/ Launch(r) \/ End(r)
    <2>1. /\ pc[r] \in {"spawn", "grant", "bad", "run"} /\ recorded' = recorded
          /\ pc'[r] \notin {"apply", "revoke"}
        BY <1>15 DEF SpawnHelper, Grant, Launch, End, Finish, TypeOK
    <2>2. DeniedPaths' \subseteq DeniedPaths
        BY <1>15, GrantEffect DEF SpawnHelper, Launch, End, DeniedPaths
    <2> QED BY <1>2, <1>5, <1>6, <2>1, <2>2
<1>16. CASE HelperStep(r)
    <2>1. UNCHANGED <<recorded, pc, applied, added, stale>>
        BY <1>16 DEF HelperStep, HelperBegins, HelperGrants, HelperEnds, sync
    <2>2. DeniedPaths' \subseteq DeniedPaths
        BY <1>16, HelperEffect DEF HelperStep, HelperBegins, HelperEnds, DeniedPaths
    <2> QED BY <1>2, <2>1, <2>2 DEF RecordFacts
<1>17. ~Crash(r) /\ ~StoreFails(r)
    BY <1>1 DEF Crash, StoreFails, Careful
<1> QED BY <1>8, <1>9, <1>10, <1>11, <1>12, <1>13, <1>14, <1>15, <1>16, <1>17
           DEF StepOf, RefreshStep

(* When no refresh is under way, every denial on the disk is on record, so *)
(* that the next refresh takes back those it does not want: for any        *)
(* requests, as long as refreshes take turns, denials can be taken back    *)
(* and the record be written.                                              *)
THEOREM LeftoversSafety == Spec => []NoLeftovers
<1>1. Init => RecordFacts
    <2>1. SUFFICES ASSUME Init PROVE RecordFacts
        OBVIOUS
    <2>2. DeniedPaths = {}
        BY <2>1, InitTypes, RequestTypes DEF Init, DeniedPaths
    <2>3. {} # Corrupt
        BY GroupConstants
    <2> QED BY <2>1, <2>2, <2>3 DEF Init, RecordFacts
<1>2. TypeOK /\ StateFacts /\ RecordFacts /\ [Next /\ UNCHANGED setting]_<<vars, setting>>
      => RecordFacts'
    <2>1. SUFFICES ASSUME TypeOK, StateFacts, RecordFacts,
                          [Next /\ UNCHANGED setting]_<<vars, setting>>
                   PROVE  RecordFacts'
        OBVIOUS
    <2>2. CASE UNCHANGED <<vars, setting>>
        BY <2>1, <2>2 DEF vars, sync, RecordFacts, Careful, Alone, DeniedPaths
    <2>3. CASE Over /\ setting' = setting
        BY <2>2, <2>3 DEF Over
    <2> QED BY <2>1, <2>2, <2>3, RecordKeeps DEF Next, StepOf
<1>3. TypeOK /\ RecordFacts => NoLeftovers
    <2>1. SUFFICES ASSUME TypeOK, RecordFacts, Careful, \A r \in Active : pc[r] = "run",
                          NEW p \in Path, <<p, "deny">> \in aces
                   PROVE  p \in recorded
        BY DEF NoLeftovers, Careful
    <2>2. \A r \in Run : pc[r] \notin {"apply", "revoke"}
        BY <2>1 DEF Active
    <2> QED BY <2>1, <2>2 DEF RecordFacts, DeniedPaths
<1> QED BY <1>1, <1>2, <1>3, GroupInvariant, PTL DEF Spec

-----------------------------------------------------------------------------
(* In settings that keep denials apart: what a request denies is not       *)
(* granted, by itself or by the helper of another one, and is not denied   *)
(* already by another one's denial above it.                               *)
LEMMA ApartPaths ==
    ASSUME DenialsApart, TypeOK, Alone, NEW q \in setting.requests, NEW p \in q.deny
    PROVE  /\ Known \cap Up[p] \subseteq {p}
           /\ p \notin setting.runtime \cup q.write
           /\ p \notin UNION {(o.read \ o.write) \ Below(o.deny) : o \in setting.requests}
<1>1. setting \in Settings /\ setting.active = 1
    BY DEF TypeOK, Alone
<1>2. \A o \in setting.requests :
          /\ o.deny \cap Up[p] \subseteq {p}
          /\ p \notin setting.runtime \cup q.write \cup ((o.read \ o.write) \ Below(o.deny))
    BY <1>1 DEF DenialsApart
<1>3. Known \cap Up[p] \subseteq {p}
    BY <1>2 DEF Known
<1> QED BY <1>2, <1>3

LEMMA DenyKeeps ==
    ASSUME DenialsApart, TypeOK, StateFacts, DenyFacts, setting' = setting,
           NEW r \in Run, StepOf(r)
    PROVE  DenyFacts'
<1>1. SUFFICES ASSUME Alone, NEW o \in Run, NEW p \in applied'[o] PROVE p \in DeniedPaths'
    BY DEF DenyFacts, Alone
<1>2. /\ applied[o] \subseteq DeniedPaths /\ RunFacts(o) /\ RunFacts(o)'
      /\ req[o] \in setting.requests
    BY <1>1, StateKeeps DEF DenyFacts, StateFacts, TypeOK
<1>3. CASE Apply(r)
    <2>1. PICK d \in req[r].deny :
              /\ d \in Path /\ DeniedPaths \subseteq DeniedPaths'
              /\ ~HasDeny(d) => DeniedPaths' = DeniedPaths \cup {d}
              /\ applied' = [applied EXCEPT ![r] = @ \cup {d}]
        BY <1>3, ApplyEffect
    <2>2. d \in DeniedPaths'
        <3>1. CASE HasDeny(d)
            <4>1. PICK q \in Up[d] : <<q, "deny">> \in aces
                BY <3>1 DEF HasDeny
            <4>2. q \in Known
                BY <2>1, <4>1, Above DEF DeniedPaths, StateFacts
            <4>3. Known \cap Up[d] \subseteq {d}
                BY <1>1, <2>1, ApartPaths DEF TypeOK
            <4> QED BY <2>1, <4>1, <4>2, <4>3 DEF DeniedPaths
        <3>2. CASE ~HasDeny(d)
            BY <2>1, <3>2
        <3> QED BY <3>1, <3>2
    <2>3. p \in applied[o] \/ p = d
        BY <1>1, <2>1 DEF TypeOK
    <2> QED BY <1>2, <2>1, <2>2, <2>3
<1>4. CASE ~Apply(r)
    <2>1. p \in applied[o]
        <3>1. applied'[o] \subseteq applied[o]
            BY <1>4 DEF TypeOK, StepOf, RefreshStep, HelperStep, Begin, Load, ApplyFails, Applied,
                        RevokeStale, Store, StoreFails, SpawnHelper, Grant, Launch, Crash, End,
                        HelperBegins, HelperGrants, HelperEnds, Finish, sync
        <3> QED BY <1>1, <3>1
    <2>2. pc[o] \notin {"new", "load", "done"} /\ p \in req[o].deny /\ p \in DeniedPaths
        BY <1>2, <2>1 DEF RunFacts
    <2>3. /\ p \notin setting.runtime \cup req[o].write
          /\ p \notin UNION {(q.read \ q.write) \ Below(q.deny) : q \in setting.requests}
        BY <1>1, <1>2, <2>2, ApartPaths
    <2>4. o \in Active
        BY <2>2 DEF Active
    <2>5. CASE RevokeStale(r)
        <3>1. PICK q \in stale[r] : DeniedPaths \ {q} \subseteq DeniedPaths'
            BY <2>5, RevokeEffect
        <3>2. o = r /\ pc[o] = "revoke"
            BY <1>1, <2>4, <2>5 DEF RevokeStale, Active, StateFacts, OneActive
        <3>3. p # q
            BY <1>2, <2>1, <3>1, <3>2 DEF RunFacts
        <3> QED BY <2>2, <3>1, <3>3
    <2>6. CASE Grant(r)
        <3>1. PICK a \in todo[r] :
                  /\ a \in (setting.runtime \X {"read"}) \cup (req[r].write \X {"write"})
                  /\ DeniedPaths \ {a[1]} \subseteq DeniedPaths'
            BY <2>6, GrantEffect DEF StateFacts
        <3>2. o = r
            BY <1>1, <2>4, <2>6 DEF Grant, Active, StateFacts, OneActive
        <3>3. p # a[1]
            BY <2>3, <3>1, <3>2
        <3> QED BY <2>2, <3>1, <3>3
    <2>7. CASE HelperGrants(r)
        <3>1. PICK q \in hroots[r] : DeniedPaths \ {q} \subseteq DeniedPaths'
            BY <2>7, HelperEffect
        <3>2. p # q
            BY <2>3, <3>1 DEF StateFacts, RunFacts
        <3> QED BY <2>2, <3>1, <3>2
    <2>8. CASE ApplyFails(r)
        <3>1. o = r
            BY <1>1, <2>4, <2>8 DEF ApplyFails, Active, StateFacts, OneActive
        <3>2. applied'[o] = {}
            BY <2>8, <3>1 DEF ApplyFails, Finish, TypeOK
        <3> QED BY <1>1, <3>2
    <2>9. CASE ~RevokeStale(r) /\ ~Grant(r) /\ ~HelperGrants(r) /\ ~ApplyFails(r)
        BY <1>4, <2>2, <2>9, OtherEffect
    <2> QED BY <2>5, <2>6, <2>7, <2>8, <2>9
<1> QED BY <1>3, <1>4

(* While a command runs and no other refresh is under way, its account     *)
(* cannot read what its request denies: for any requests, one after        *)
(* another, none of which denies a path inside another's denied one or     *)
(* makes another's readable; whatever entries there were before, whichever *)
(* edits fail, wherever refreshes are cut short, and however late a helper *)
(* grants.                                                                 *)
THEOREM DenialSafety ==
    ASSUME DenialsApart
    PROVE  Spec => []Unreadable
<1>1. Init => DenyFacts
    BY DEF Init, DenyFacts
<1>2. TypeOK /\ StateFacts /\ DenyFacts /\ [Next /\ UNCHANGED setting]_<<vars, setting>>
      => DenyFacts'
    <2>1. SUFFICES ASSUME TypeOK, StateFacts, DenyFacts,
                          [Next /\ UNCHANGED setting]_<<vars, setting>>
                   PROVE  DenyFacts'
        OBVIOUS
    <2>2. CASE UNCHANGED <<vars, setting>>
        BY <2>1, <2>2 DEF vars, sync, DenyFacts, Alone, DeniedPaths
    <2>3. CASE Over /\ setting' = setting
        BY <2>2, <2>3 DEF Over
    <2> QED BY <2>1, <2>2, <2>3, DenyKeeps DEF Next, StepOf
<1>3. TypeOK /\ StateFacts /\ DenyFacts => Unreadable
    <2>1. SUFFICES ASSUME TypeOK, StateFacts, DenyFacts, Alone, NEW r \in Run, pc[r] = "run",
                          NEW p \in req[r].deny
                   PROVE  ~Readable(p)
        BY DEF Unreadable, Running
    <2>2. p \in applied[r] /\ p \in DeniedPaths
        BY <2>1 DEF StateFacts, RunFacts, DenyFacts
    <2>3. p \in Path /\ p \in Up[p] /\ Up[p] \subseteq Path /\ <<p, "deny">> \in aces
        BY <2>2, Above DEF DeniedPaths
    <2>4. \A q \in Up[p] : p \in Down(q)
        BY <2>3 DEF Down
    <2> QED BY <2>3, <2>4 DEF Readable
<1> QED BY <1>1, <1>2, <1>3, GroupInvariant, PTL DEF Spec

-----------------------------------------------------------------------------
(* No grant takes away that a path is writable.                            *)
LEMMA WritesStay ==
    ASSUME TypeOK, NEW p \in Path, NEW kind \in {"read", "write"},
           kind = "write" => ~HasWrite(p), kind = "read" => ~HasRead(p),
           aces' = WithGrant(p, kind), NEW q \in Path, HasWrite(q)
    PROVE  HasWrite(q)'
<1>1. <<p, "write">> \notin aces
    BY Above DEF HasWrite, HasRead
<1>2. PICK u \in Up[q] : <<u, "write">> \in aces
    BY DEF HasWrite
<1>3. u # p
    BY <1>1, <1>2
<1> QED BY <1>2, <1>3 DEF HasWrite, WithGrant, Without

(* What is taken back is denied by a request, and so lies above none that  *)
(* another refresh at work writes.                                         *)
LEMMA TakenBackApart ==
    ASSUME WritesApart, TypeOK, StateFacts, NEW r \in Run, NEW o \in Run, o # r,
           o \in Active, r \in Active, NEW p \in req[o].write, NEW q \in Known, p \in Path
    PROVE  q \notin Up[p]
<1>1. setting \in Settings /\ setting.active # 1
    BY DEF TypeOK, StateFacts, OneActive, Alone
<1>2. PICK u \in setting.requests : q \in u.deny
    BY DEF Known
<1>3. req[o].write \cap Below(u.deny) = {}
    BY <1>1 DEF WritesApart, TypeOK
<1> QED BY <1>2, <1>3 DEF Below, Down

LEMMA WriteKeeps ==
    ASSUME WritesApart, TypeOK, StateFacts, WriteFacts, setting' = setting,
           NEW r \in Run, StepOf(r)
    PROVE  WriteFacts'
<1>1. SUFFICES ASSUME NEW o \in Run, NEW p \in req'[o].write \cap Present,
                      pc'[o] \in {"grant", "run"}
               PROVE  \/ HasWrite(p)'
                      \/ pc'[o] = "grant" /\ <<p, "write">> \in todo'[o]
    BY DEF WriteFacts
<1>2. p \in Path /\ RunFacts(o)
    BY GroupConstants DEF StateFacts
\* The step does not take the entries of writable paths away from others.
<1>3. ASSUME o \in Active, p \in req[o].write, HasWrite(p), o # r \/ pc[r] \in {"grant", "run"}
      PROVE  HasWrite(p)'
    <2>1. CASE Apply(r)
        <3>1. aces \subseteq aces'
            BY <2>1, ApplyEffect
        <3> QED BY <1>3, <3>1 DEF HasWrite
    <2>2. CASE RevokeStale(r)
        <3>1. PICK q \in stale[r] : aces' = aces \/ aces' = Without(q)
            BY <2>2, RevokeEffect
        <3>2. o # r /\ r \in Active
            BY <1>3, <2>2 DEF RevokeStale, Active
        <3>3. q \in Known
            BY <3>1 DEF StateFacts, RunFacts
        <3>4. q \notin Up[p]
            BY <1>2, <1>3, <3>2, <3>3, TakenBackApart
        <3> QED BY <1>3, <3>1, <3>4 DEF HasWrite, Without
    <2>3. CASE Grant(r)
        <3>1. PICK a \in todo[r] :
                  /\ a[1] \in Path /\ a[2] \in {"read", "write"}
                  /\ \/ aces' = aces
                     \/ Needs(a[1], a[2]) /\ aces' = WithGrant(a[1], a[2])
            BY <2>3, GrantEffect
        <3>2. CASE aces' = aces
            BY <1>3, <3>2 DEF HasWrite
        <3>3. CASE Needs(a[1], a[2]) /\ aces' = WithGrant(a[1], a[2])
            BY <1>2, <1>3, <3>1, <3>3, WritesStay DEF Needs
        <3> QED BY <3>1, <3>2, <3>3
    <2>4. CASE HelperGrants(r)
        <3>1. PICK q \in hroots[r] :
                  /\ q \in Path
                  /\ aces' = aces \/ (~HasRead(q) /\ aces' = WithGrant(q, "read"))
            BY <2>4, HelperEffect
        <3>2. CASE aces' = aces
            BY <1>3, <3>2 DEF HasWrite
        <3>3. CASE ~HasRead(q) /\ aces' = WithGrant(q, "read")
            BY <1>2, <1>3, <3>1, <3>3, WritesStay
        <3> QED BY <3>1, <3>2, <3>3
    <2>5. CASE ~Apply(r) /\ ~RevokeStale(r) /\ ~Grant(r) /\ ~HelperGrants(r)
        <3>1. CASE aces' = aces
            BY <1>3, <3>1 DEF HasWrite
        <3>2. CASE ApplyFails(r) /\ aces' = {a \in aces : a[1] \notin added[r]}
            <4>1. o # r /\ r \in Active /\ pc[r] = "apply"
                BY <1>3, <3>2 DEF ApplyFails, Active
            <4>2. added[r] \subseteq Known
                BY <4>1 DEF StateFacts, RunFacts, Known, TypeOK
            <4>3. added[r] \cap Up[p] = {}
                BY <1>2, <1>3, <4>1, <4>2, TakenBackApart
            <4> QED BY <1>3, <3>2, <4>3 DEF HasWrite
        <3> QED BY <2>5, <3>1, <3>2, OtherEffect
    <2> QED BY <2>1, <2>2, <2>3, <2>4, <2>5
<1>4. CASE o # r
    <2>1. pc'[o] = pc[o] /\ req'[o] = req[o] /\ todo'[o] = todo[o]
        BY <1>4, OthersStay
    <2>2. o \in Active /\ (HasWrite(p) \/ (pc[o] = "grant" /\ <<p, "write">> \in todo[o]))
        BY <1>1, <2>1 DEF WriteFacts, Active
    <2> QED BY <1>1, <1>3, <1>4, <2>1, <2>2
<1>5. CASE o = r
    <2>1. CASE SpawnHelper(r)
        <3>1. /\ pc'[r] = "grant" /\ req' = req
              /\ todo'[r] = (setting.runtime \X {"read"}) \cup ((req[r].write \cap exists) \X {"write"})
            BY <2>1 DEF SpawnHelper, TypeOK
        <3>2. p \in exists
            BY <1>1 DEF StateFacts
        <3> QED BY <1>1, <1>5, <3>1, <3>2
    <2>2. CASE Grant(r)
        <3>1. PICK a \in todo[r] :
                  /\ todo' = [todo EXCEPT ![r] = @ \ {a}] /\ UNCHANGED req
                  /\ a[1] \in Path /\ a[2] \in {"read", "write"}
                  /\ \/ pc' = [pc EXCEPT ![r] = "bad"]
                     \/ pc' = pc /\ aces' = IF Needs(a[1], a[2]) THEN WithGrant(a[1], a[2]) ELSE aces
            BY <2>2, GrantEffect
        <3>2. pc'[o] = "grant" /\ pc[o] = "grant" /\ pc' = pc
            BY <1>1, <1>5, <2>2, <3>1 DEF Grant, TypeOK
        <3>3. HasWrite(p) \/ <<p, "write">> \in todo[r]
            BY <1>1, <1>5, <3>1, <3>2 DEF WriteFacts
        <3>4. CASE HasWrite(p)
            BY <1>1, <1>3, <1>5, <3>1, <3>2, <3>4 DEF Active
        <3>5. CASE <<p, "write">> \in todo[r] /\ a # <<p, "write">>
            BY <1>5, <3>1, <3>2, <3>5 DEF TypeOK
        <3>6. CASE ~HasWrite(p) /\ a = <<p, "write">>
            <4>1. a[1] = p /\ a[2] = "write" /\ Needs(a[1], a[2])
                BY <3>6 DEF Needs
            <4>2. pc' # [pc EXCEPT ![r] = "bad"]
                BY <1>5, <3>2 DEF TypeOK
            <4>3. aces' = WithGrant(p, "write")
                BY <3>1, <4>1, <4>2
            <4> QED BY <1>2, <4>3, Above DEF HasWrite, WithGrant
        <3> QED BY <3>3, <3>4, <3>5, <3>6
    <2>3. CASE Launch(r)
        <3>1. pc[r] = "grant" /\ todo[r] = {} /\ UNCHANGED <<aces, req>>
            BY <1>1, <1>5, <2>3 DEF Launch, Finish, TypeOK
        <3>2. HasWrite(p)
            BY <1>1, <1>5, <3>1 DEF WriteFacts
        <3> QED BY <3>1, <3>2 DEF HasWrite
    <2>4. CASE HelperStep(r)
        <3>1. UNCHANGED <<pc, req, todo>>
            BY <2>4 DEF HelperStep, HelperBegins, HelperGrants, HelperEnds, sync
        <3>2. o \in Active /\ (HasWrite(p) \/ (pc[o] = "grant" /\ <<p, "write">> \in todo[o]))
            BY <1>1, <3>1 DEF WriteFacts, Active
        <3> QED BY <1>1, <1>3, <1>5, <3>1, <3>2
    <2>5. CASE ~(SpawnHelper(r) \/ Grant(r) \/ Launch(r) \/ HelperStep(r))
        BY <1>1, <1>5, <2>5 DEF StepOf, RefreshStep, Begin, Load, Apply, ApplyFails, Applied,
                                RevokeStale, Store, StoreFails, Crash, End, Finish, TypeOK
    <2> QED BY <2>1, <2>2, <2>3, <2>4, <2>5
<1> QED BY <1>4, <1>5

(* A command that runs can write its roots, though entries of the same SID *)
(* on the same paths are taken back with denials: for any requests, if     *)
(* refreshes take turns or none denies a path above what another writes.   *)
THEOREM WritableSafety ==
    ASSUME WritesApart
    PROVE  Spec => []RootsWritable
<1>1. Init => WriteFacts
    BY DEF Init, WriteFacts
<1>2. TypeOK /\ StateFacts /\ WriteFacts /\ [Next /\ UNCHANGED setting]_<<vars, setting>>
      => WriteFacts'
    <2>1. SUFFICES ASSUME TypeOK, StateFacts, WriteFacts,
                          [Next /\ UNCHANGED setting]_<<vars, setting>>
                   PROVE  WriteFacts'
        OBVIOUS
    <2>2. CASE UNCHANGED <<vars, setting>>
        BY <2>1, <2>2 DEF vars, sync, WriteFacts, HasWrite
    <2>3. CASE Over /\ setting' = setting
        BY <2>2, <2>3 DEF Over
    <2> QED BY <2>1, <2>2, <2>3, WriteKeeps DEF Next, StepOf
<1>3. WriteFacts => RootsWritable
    BY DEF WriteFacts, RootsWritable, Running
<1> QED BY <1>1, <1>2, <1>3, GroupInvariant, PTL DEF Spec

(* Both together: a refresh leaves no denial that nobody will take back,   *)
(* and takes no grant back that is needed.                                 *)
THEOREM GroupSafety ==
    ASSUME WritesApart
    PROVE  Spec => []GroupInv
BY GroupInvariant, LeftoversSafety, WritableSafety, PTL DEF GroupInv

===============================================================================
