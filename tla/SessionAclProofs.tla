--------------------------- MODULE SessionAclProofs ---------------------------
(***************************************************************************)
(* Proofs about SessionAcl, for any tree of paths, any number of sessions  *)
(* and any requests: a command changes only what its request gives away,   *)
(* finds its roots writable when it starts, and leaves what it is denied.  *)
(***************************************************************************)
EXTENDS SessionAcl, TLAPS

(* What is above a path: the least set that holds it and is closed.        *)
LEMMA UpSelf ==
    ASSUME NEW p \in Path
    PROVE  Up[p] \subseteq Path /\ p \in Up[p]
BY DEF Up

LEMMA UpLeast ==
    ASSUME NEW p \in Path, NEW c \in Closed, p \in c
    PROVE  Up[p] \subseteq c
BY DEF Up

LEMMA UpClosed ==
    ASSUME NEW p \in Path
    PROVE  Up[p] \in Closed
<1>1. ASSUME NEW x \in Up[p], Parent[x] # None PROVE Parent[x] \in Up[p]
    <2>1. x \in Path /\ Parent[x] \in Path
        BY <1>1, UpSelf, TreeConstants, AclConstants
    <2>2. ASSUME NEW c \in Closed, p \in c PROVE Parent[x] \in c
        <3>1. x \in c
            BY <2>2, UpLeast
        <3> QED BY <1>1, <2>2, <3>1 DEF Closed
    <2> QED BY <2>1, <2>2 DEF Up
<1> QED BY <1>1, UpSelf DEF Closed

LEMMA UpTransitive ==
    ASSUME NEW p \in Path, NEW q \in Up[p]
    PROVE  q \in Path /\ Up[q] \subseteq Up[p]
BY UpSelf, UpClosed, UpLeast

(* A path is above itself, and otherwise what is above it is above its     *)
(* parent.                                                                 *)
LEMMA UpOfParent ==
    ASSUME NEW p \in Path
    PROVE  /\ Parent[p] = None => Up[p] = {p}
           /\ Parent[p] # None => /\ Parent[p] \in Path
                                  /\ Up[p] = {p} \cup Up[Parent[p]]
<1>1. CASE Parent[p] = None
    <2>1. {p} \in Closed
        BY <1>1 DEF Closed
    <2>2. Up[p] \subseteq {p}
        BY <2>1, UpLeast
    <2> QED BY <1>1, <2>2, UpSelf
<1>2. CASE Parent[p] # None
    <2>1. Parent[p] \in Path
        BY <1>2, TreeConstants, AclConstants
    <2>2. Up[Parent[p]] \in Closed /\ Parent[p] \in Up[Parent[p]]
        BY <2>1, UpClosed, UpSelf
    <2>3. {p} \cup Up[Parent[p]] \in Closed
        BY <2>2 DEF Closed
    <2>4. Up[p] \subseteq {p} \cup Up[Parent[p]]
        <3> HIDE <2>2
        <3> QED BY <2>3, UpLeast
    <2>5. Parent[p] \in Up[p]
        BY <1>2, UpSelf, UpClosed DEF Closed
    <2>6. Up[Parent[p]] \subseteq Up[p]
        BY <2>5, UpTransitive
    <2> QED BY <1>2, <2>1, <2>4, <2>6, UpSelf
<1> QED BY <1>1, <1>2

(* Of two paths above a third one is above the other.                      *)
LEMMA UpChain ==
    ASSUME NEW p \in Path, NEW x \in Up[p], NEW y \in Up[p]
    PROVE  x \in Up[y] \/ y \in Up[x]
<1> DEFINE Ordered == {a \in Up[p] : \A b \in Up[p] : b \in Up[a] \/ a \in Up[b]}
<1>1. p \in Ordered
    BY UpSelf
<1>2. ASSUME NEW a \in Ordered, Parent[a] # None PROVE Parent[a] \in Ordered
    <2>1. /\ a \in Up[p] /\ a \in Path
          /\ Parent[a] \in Path /\ Up[a] = {a} \cup Up[Parent[a]]
        BY <1>2, UpSelf, UpOfParent
    <2>2. Parent[a] \in Up[p]
        BY <1>2, <2>1, UpClosed DEF Closed
    <2>3. ASSUME NEW b \in Up[p] PROVE b \in Up[Parent[a]] \/ Parent[a] \in Up[b]
        <3>1. b \in Path /\ (b \in Up[a] \/ a \in Up[b])
            BY UpSelf
        <3>2. CASE b = a
            BY <2>1, <3>2, UpSelf
        <3>3. CASE b # a /\ b \in Up[a]
            BY <2>1, <3>3
        <3>4. CASE a \in Up[b]
            <4>1. Up[a] \subseteq Up[b]
                BY <3>1, <3>4, UpTransitive
            <4> QED BY <2>1, <4>1, UpSelf
        <3> QED BY <3>1, <3>2, <3>3, <3>4
    <2> QED BY <2>2, <2>3
<1>3. Ordered \in Closed
    <2>1. Ordered \subseteq Path
        BY UpSelf
    <2>2. \A a \in Ordered : Parent[a] \in Ordered \cup {None}
        BY <1>2
    <2> HIDE DEF Ordered
    <2> QED BY <2>1, <2>2 DEF Closed
<1>4. Up[p] \subseteq Ordered
    <2> HIDE DEF Ordered
    <2> QED BY <1>1, <1>3, UpLeast
<1> QED BY <1>4

(* A path lies below one child of another at most.                         *)
LEMMA OneChild ==
    ASSUME NEW p \in Path, NEW x \in Up[p], NEW y \in Up[p], NEW z \in Path,
           Parent[x] = z, Parent[y] = z
    PROVE  x = y
<1>1. x \in Path /\ y \in Path /\ z # None
    BY UpSelf, TreeConstants, AclConstants
<1>2. x \notin Up[z] /\ y \notin Up[z]
    BY <1>1, TreeConstants, AclConstants
<1>3. Up[x] = {x} \cup Up[z] /\ Up[y] = {y} \cup Up[z]
    BY <1>1, UpOfParent
<1> QED BY <1>2, <1>3, UpChain
-----------------------------------------------------------------------------
(* The roots of a request, their SIDs, and the entries made for them.      *)
LEMMA RequestPaths ==
    ASSUME NEW q \in Request
    PROVE  WritableRoots(q) \subseteq Path
BY DEF Request, WritableRoots

LEMMA EffectiveRootsAre ==
    ASSUME NEW q \in Request
    PROVE  EffectiveRoots(q) \subseteq RootsOf(q)
<1>1. \A r \in Children(Profile) : r \in Path /\ Parent[r] = Profile
    BY DEF Children
<1>2. ASSUME NEW r \in EffectiveRoots(q) PROVE r \in RootsOf(q)
    <2>1. /\ r \in ExpandProfile(AllowPaths(q))
          /\ r \notin {Home} \cup Below(Control) \cup Below(Excluded)
        BY DEF EffectiveRoots, FilterSensitive, FilterExcluded
    <2>2. CASE r \in AllowPaths(q) \ {Profile}
        <3>1. r \in WritableRoots(q) \ {Profile} /\ r \in Path
            BY <2>2, RequestPaths DEF AllowPaths
        <3> QED BY <2>1, <3>1 DEF RootsOf
    <2>3. CASE r \in Children(Profile) /\ Profile \in AllowPaths(q)
        BY <1>1, <2>1, <2>3 DEF AllowPaths, RootsOf
    <2> QED BY <2>1, <2>2, <2>3 DEF ExpandProfile
<1> QED BY <1>2

LEMMA SidTypes ==
    ASSUME NEW cwd \in Path, NEW r \in Path
    PROVE  SidOf(cwd, r) \in Capability /\ SidOf(cwd, r) \in Sid /\ SidOf(cwd, r)[2] = r
BY DEF SidOf, Sid, Capability

(* What others opened is no entry of a capability.                         *)
LEMMA OpenIsOthers ==
    ASSUME setting \in Setting, NEW a \in setting.open
    PROVE  /\ a \in Ace /\ a.sid \in Others /\ a.sid \notin Capability /\ a.type # "deny"
           /\ a.path \in setting.present
<1>1. a \in [path : setting.present, sid : Others, type : {"allow", "old"}] /\ setting.present \subseteq Path
    BY TreeConstants, AclConstants
<1>2. \A sid \in Others : sid \notin Capability
    BY DEF Others, Capability
<1> QED BY <1>1, <1>2 DEF Ace, Sid, Rights

LEMMA NewAce ==
    ASSUME NEW p \in Path, NEW sid \in Capability, NEW type \in {"allow", "deny"},
           type # "deny" => sid[2] \in Up[p]
    PROVE  /\ [path |-> p, sid |-> sid, type |-> type] \in Ace
           /\ Placed([path |-> p, sid |-> sid, type |-> type])
BY DEF Ace, Sid, Placed, OfRoot, Rights

(* An entry that is fetched to be stored is typed and placed.              *)
LEMMA FetchKeeps ==
    ASSUME TypeOK, ConfinedFacts, setting' = setting, NEW s \in Session, NEW p \in Path,
           NEW sid \in Capability, NEW type \in {"allow", "deny"}, type # "deny" => sid[2] \in Up[p],
           NEW present \in BOOLEAN, Fetch(s, p, sid, type, present)
    PROVE  /\ edit' \in [Session -> [ace : Ace, list : SUBSET Ace] \cup {None}]
           /\ EditsPlaced'
<1> DEFINE New == [ace |-> [path |-> p, sid |-> sid, type |-> type], list |-> List(p)]
<1>1. New.ace \in Ace /\ Placed(New.ace)
    BY NewAce
<1>2. New.list \in SUBSET Ace /\ \A a \in New.list : Placed(a)
    BY DEF List, TypeOK, ConfinedFacts
<1>3. New \in [ace : Ace, list : SUBSET Ace]
    BY <1>1, <1>2
<1>4. edit' = edit \/ edit' = [edit EXCEPT ![s] = New]
    BY DEF Fetch
<1>5. /\ edit \in [Session -> [ace : Ace, list : SUBSET Ace] \cup {None}]
      /\ EditsPlaced
    BY DEF TypeOK, ConfinedFacts
<1> HIDE DEF New
<1>6. edit' \in [Session -> [ace : Ace, list : SUBSET Ace] \cup {None}]
    BY <1>3, <1>4, <1>5
<1>7. ASSUME NEW o \in Session, edit'[o] # None
      PROVE  \A a \in edit'[o].list \cup {edit'[o].ace} : Placed(a)
    <2>1. CASE edit'[o] = edit[o]
        BY <1>5, <1>7, <2>1 DEF EditsPlaced
    <2>2. CASE edit'[o] = New
        BY <1>1, <1>2, <2>2
    <2> QED BY <1>4, <1>5, <2>1, <2>2
<1>8. EditsPlaced'
    BY <1>7 DEF EditsPlaced, Placed, OfRoot
<1> QED BY <1>6, <1>8

LEMMA InitFacts ==
    ASSUME Init
    PROVE  TypeOK /\ ConfinedFacts
<1>1. PICK g \in Setting : setting = g
    BY DEF Init
<1>2. /\ g.requests # {} /\ \A q \in g.requests : q \in Request
      /\ g.present \subseteq Path /\ g.begun \in Nat
      /\ g.old \subseteq Ace /\ \A a \in g.old : OfRoot(a)
      /\ \A a \in g.open : a \in Ace
    BY <1>1, OpenIsOthers, TreeConstants, AclConstants
<1>3. (CHOOSE q \in setting.requests : TRUE) \in Request
    BY <1>1, <1>2
<1>4. PICK left \in SUBSET g.old : aces = g.open \cup left
    BY <1>1 DEF Init
<1>5. TypeOK
    BY <1>1, <1>2, <1>3, <1>4 DEF Init, TypeOK
<1>6. ConfinedFacts
    BY <1>1, <1>2, <1>4 DEF Init, ConfinedFacts, EditsPlaced, Placed
<1> QED BY <1>5, <1>6

LEMMA BeginKeeps ==
    ASSUME TypeOK, ConfinedFacts, setting' = setting, NEW s \in Session, Begin(s)
    PROVE  TypeOK' /\ ConfinedFacts'
<1> DEFINE Rs(q) == EffectiveRoots(q)
           Ds(q) == ProtectedSubpaths(q) \cup q.deny
<1>1. PICK q \in setting.requests :
          /\ req' = [req EXCEPT ![s] = q]
          /\ roots' = [roots EXCEPT ![s] = Rs(q)]
          /\ grants' = [grants EXCEPT ![s] = IF q.elevated THEN Rs(q) ELSE AllowPaths(q)]
          /\ denied' = [denied EXCEPT ![s] = Ds(q)]
          /\ denies' = [denies EXCEPT ![s] =
                            {x \in Ds(q) \X Rs(q) : x[2] \in DenyRoots(Rs(q), x[1])}]
    BY DEF Begin
<1>2. q \in Request
    BY TreeConstants, AclConstants DEF TypeOK
<1>3. Rs(q) \subseteq RootsOf(q) /\ RootsOf(q) \subseteq Path
    BY <1>2, EffectiveRootsAre DEF RootsOf
<1>4. Ds(q) \subseteq Path /\ AllowPaths(q) \subseteq Path
    BY <1>2, RequestPaths, TreeConstants, AclConstants DEF ProtectedSubpaths, AllowPaths, Request
<1>5. {x \in Ds(q) \X Rs(q) : x[2] \in DenyRoots(Rs(q), x[1])} \in SUBSET (Path \X Path)
    BY <1>3, <1>4
<1> HIDE DEF Rs, Ds
<1>6. begun' \in 0..setting.begun
    BY TreeConstants, AclConstants DEF Begin, TypeOK
<1>7. TypeOK'
    BY <1>1, <1>2, <1>3, <1>4, <1>5, <1>6 DEF Begin, Go, TypeOK, disk
<1>8. ConfinedFacts'
    <2>1. UNCHANGED <<aces, edit>>
        BY DEF Begin, disk
    <2>2. ASSUME NEW o \in Session PROVE roots'[o] \subseteq RootsOf(req'[o])
        <3>1. CASE o = s
            BY <1>1, <1>3, <3>1 DEF TypeOK
        <3>2. CASE o # s
            <4>1. roots[o] \subseteq RootsOf(req[o])
                BY DEF ConfinedFacts
            <4>2. roots'[o] = roots[o] /\ req'[o] = req[o]
                BY <1>1, <3>2 DEF TypeOK
            <4> QED BY <4>1, <4>2
        <3> QED BY <3>1, <3>2
    <2>3. EditsPlaced'
        BY <2>1 DEF ConfinedFacts, EditsPlaced, Placed, OfRoot
    <2> QED BY <2>1, <2>2, <2>3 DEF ConfinedFacts, Placed, OfRoot, RootsOf, WritableRoots
<1> QED BY <1>7, <1>8

LEMMA GrantKeeps ==
    ASSUME TypeOK, ConfinedFacts, setting' = setting, NEW s \in Session, Grant(s)
    PROVE  TypeOK' /\ ConfinedFacts'
<1> DEFINE Match(p) == IF req[s].elevated THEN {p} ELSE Matching(roots[s], p)
<1>1. PICK p \in grants[s] :
          /\ grants' = [grants EXCEPT ![s] = @ \ {p}]
          /\ IF p \notin exists \/ Match(p) = {} THEN UNCHANGED edit
             ELSE \E r \in Match(p) :
                    LET sid == SidOf(req[s].cwd, r) IN
                    Fetch(s, p, sid, "allow", HasGrant(p, sid))
    BY DEF Grant
<1>2. UNCHANGED <<exists, aces, pc, req, roots, denied, denies, lost, raced, begun>>
    BY DEF Grant, disk, plan
<1>3. p \in Path /\ req[s].cwd \in Path /\ roots[s] \subseteq Path
    BY DEF TypeOK, Request
<1>4. \A r \in Match(p) : r \in Up[p] /\ r \in Path
    BY <1>3, UpSelf DEF Matching
<1>5. /\ edit' \in [Session -> [ace : Ace, list : SUBSET Ace] \cup {None}]
      /\ EditsPlaced'
    <2>1. CASE UNCHANGED edit
        <3>1. edit \in [Session -> [ace : Ace, list : SUBSET Ace] \cup {None}]
            BY DEF TypeOK
        <3>2. EditsPlaced
            BY DEF ConfinedFacts
        <3> QED BY <2>1, <3>1, <3>2 DEF EditsPlaced, Placed, OfRoot
    <2>2. ASSUME NEW r \in Match(p),
                 Fetch(s, p, SidOf(req[s].cwd, r), "allow", HasGrant(p, SidOf(req[s].cwd, r)))
          PROVE  <1>5!:
        <3>1. SidOf(req[s].cwd, r) \in Capability /\ SidOf(req[s].cwd, r)[2] \in Up[p]
            BY <1>3, <1>4, SidTypes
        <3>2. HasGrant(p, SidOf(req[s].cwd, r)) \in BOOLEAN
            BY DEF HasGrant
        <3> QED BY <1>3, <2>2, <3>1, <3>2, FetchKeeps
    <2> QED BY <1>1, <2>1, <2>2
<1>6. TypeOK'
    BY <1>1, <1>2, <1>5 DEF TypeOK
<1>7. ConfinedFacts'
    BY <1>2, <1>5 DEF ConfinedFacts, Placed, OfRoot, RootsOf, WritableRoots
<1> QED BY <1>6, <1>7

LEMMA DenyKeeps ==
    ASSUME TypeOK, ConfinedFacts, setting' = setting, NEW s \in Session, Deny(s)
    PROVE  TypeOK' /\ ConfinedFacts'
<1>1. PICK x \in denies[s] :
          /\ exists' = exists \cup Up[x[1]]
          /\ denies' = [denies EXCEPT ![s] = @ \ {x}]
          /\ Fetch(s, x[1], SidOf(req[s].cwd, x[2]), "deny", HasDeny(x[1], SidOf(req[s].cwd, x[2])))
    BY DEF Deny
<1>2. UNCHANGED <<aces, pc, req, roots, denied, grants, lost, raced, begun>>
    BY DEF Deny, plan
<1>3. x[1] \in Path /\ x[2] \in Path /\ req[s].cwd \in Path
    BY DEF TypeOK, Request
<1>4. SidOf(req[s].cwd, x[2]) \in Capability
    BY <1>3, SidTypes
<1>5. HasDeny(x[1], SidOf(req[s].cwd, x[2])) \in BOOLEAN
    BY DEF HasDeny
<1>6. edit' \in [Session -> [ace : Ace, list : SUBSET Ace] \cup {None}] /\ EditsPlaced'
    BY <1>1, <1>3, <1>4, <1>5, FetchKeeps
<1>7. exists' \subseteq Path
    BY <1>1, <1>3, UpSelf DEF TypeOK
<1>8. TypeOK'
    BY <1>1, <1>2, <1>6, <1>7 DEF TypeOK
<1>9. ConfinedFacts'
    BY <1>2, <1>6 DEF ConfinedFacts, Placed, OfRoot, RootsOf, WritableRoots
<1> QED BY <1>8, <1>9

LEMMA StoreKeeps ==
    ASSUME TypeOK, ConfinedFacts, setting' = setting, NEW s \in Session, Store(s)
    PROVE  TypeOK' /\ ConfinedFacts'
<1> DEFINE e == edit[s]
<1>1. /\ e \in [ace : Ace, list : SUBSET Ace]
      /\ \A a \in e.list \cup {e.ace} : Placed(a)
    BY DEF Store, TypeOK, ConfinedFacts, EditsPlaced
<1>2. /\ NewList(s, e) \subseteq e.list \cup {e.ace}
      /\ aces' \subseteq aces \cup NewList(s, e)
      /\ raced' \subseteq raced \cup {e.ace.path}
      /\ edit' = [edit EXCEPT ![s] = None]
      /\ UNCHANGED <<exists, pc, req, roots, denied, grants, denies, lost, begun>>
    BY DEF NewList, Store, plan
<1>3. aces' \subseteq Ace /\ \A a \in aces' : Placed(a)
    BY <1>1, <1>2 DEF TypeOK, ConfinedFacts
<1>4. e.ace.path \in Path
    BY <1>1 DEF Ace
<1> HIDE DEF e
<1>5. TypeOK'
    BY <1>2, <1>3, <1>4 DEF TypeOK
<1>6. \A o \in Session : edit'[o] # None => edit'[o] = edit[o]
    BY <1>2 DEF TypeOK
<1>7. EditsPlaced'
    BY <1>6 DEF ConfinedFacts, EditsPlaced, Placed, OfRoot
<1>8. ConfinedFacts'
    BY <1>2, <1>3, <1>7 DEF ConfinedFacts, Placed, OfRoot, RootsOf, WritableRoots
<1> QED BY <1>5, <1>8

(* The other steps of a session leave entries and edits alone, or drop     *)
(* some.                                                                   *)
LEMMA GuardKeeps ==
    ASSUME TypeOK, ConfinedFacts, setting' = setting, NEW s \in Session, Guard(s)
    PROVE  TypeOK' /\ ConfinedFacts'
<1>1. req[s].cwd \in Path /\ Codex \cap Children(req[s].cwd) \cap exists \subseteq Path
    BY DEF TypeOK, Request
<1>2. PICK d \in SUBSET (Path \X Path) : denies' = [denies EXCEPT ![s] = d]
    BY <1>1 DEF Guard
<1>3. denies'[s] = d
    BY <1>2 DEF TypeOK
<1>4. denied' = [denied EXCEPT ![s] = @ \cup {x[1] : x \in d}]
    BY <1>3 DEF Guard
<1>5. {x[1] : x \in d} \subseteq Path
    OBVIOUS
<1>6. UNCHANGED <<exists, aces, req, roots, grants, edit, lost, raced, begun>>
      /\ pc' = [pc EXCEPT ![s] = "guard"]
    BY DEF Guard, Go, disk
<1>7. TypeOK'
    BY <1>2, <1>4, <1>5, <1>6 DEF TypeOK
<1>8. ConfinedFacts'
    BY <1>6 DEF ConfinedFacts, EditsPlaced, Placed, OfRoot, RootsOf, WritableRoots
<1> QED BY <1>7, <1>8

LEMMA StopKeeps ==
    ASSUME TypeOK, ConfinedFacts, setting' = setting, NEW s \in Session, Stop(s)
    PROVE  TypeOK' /\ ConfinedFacts'
<1>1. PICK q \in Request : req' = [req EXCEPT ![s] = q]
    <2>1. (CHOOSE q \in setting.requests : TRUE) \in Request
        BY TreeConstants, AclConstants DEF TypeOK
    <2> QED BY <2>1 DEF Stop
<1>2. TypeOK'
    BY <1>1 DEF Stop, Go, TypeOK, disk
<1>3. \A o \in Session : /\ edit'[o] # None => edit'[o] = edit[o]
                         /\ roots'[o] = {} \/ (roots'[o] = roots[o] /\ req'[o] = req[o])
    BY <1>1 DEF Stop, TypeOK
<1>4. EditsPlaced'
    BY <1>3 DEF ConfinedFacts, EditsPlaced, Placed, OfRoot
<1>5. \A o \in Session : roots'[o] \subseteq RootsOf(req'[o])
    BY <1>3 DEF ConfinedFacts
<1>6. ConfinedFacts'
    BY <1>4, <1>5 DEF Stop, disk, ConfinedFacts, Placed, OfRoot, RootsOf, WritableRoots
<1> QED BY <1>2, <1>6

LEMMA OthersKeep ==
    ASSUME TypeOK, ConfinedFacts, setting' = setting, NEW s \in Session,
           \/ GrantsDone(s) \/ Launch(s)
           \/ \E p \in Path : Create(s, p) \/ Delete(s, p)
    PROVE  TypeOK' /\ ConfinedFacts'
<1>1. /\ aces' \subseteq aces
      /\ UNCHANGED <<req, roots, denied, grants, denies, edit, raced, begun>>
    BY DEF GrantsDone, Launch, Create, Delete, disk, plan
<1>2. TypeOK'
    <2>1. CASE GrantsDone(s) \/ Launch(s)
        BY <2>1 DEF GrantsDone, Launch, Go, TypeOK, disk, plan
    <2>2. ASSUME NEW p \in Path, Create(s, p) PROVE TypeOK'
        BY <2>2 DEF Create, TypeOK, plan
    <2>3. ASSUME NEW p \in Path, Delete(s, p) PROVE TypeOK'
        BY <2>3 DEF Delete, TypeOK, plan
    <2> QED BY <2>1, <2>2, <2>3
<1>3. ConfinedFacts'
    BY <1>1 DEF ConfinedFacts, EditsPlaced, Placed, OfRoot, RootsOf, WritableRoots
<1> QED BY <1>2, <1>3

(* Types, and where entries and roots lie, hold in every state.            *)
THEOREM ConfinedInvariant == Spec => [](TypeOK /\ ConfinedFacts)
<1>1. Init => TypeOK /\ ConfinedFacts
    BY InitFacts
<1>2. TypeOK /\ ConfinedFacts /\ [Next /\ UNCHANGED setting]_vars => TypeOK' /\ ConfinedFacts'
    <2>1. SUFFICES ASSUME TypeOK, ConfinedFacts, [Next /\ UNCHANGED setting]_vars
                   PROVE  TypeOK' /\ ConfinedFacts'
        OBVIOUS
    <2>2. CASE UNCHANGED vars
        <3>1. TypeOK'
            BY <2>1, <2>2 DEF vars, TypeOK
        <3>2. ConfinedFacts'
            BY <2>1, <2>2 DEF vars, ConfinedFacts, EditsPlaced, Placed, OfRoot, RootsOf, WritableRoots
        <3> QED BY <3>1, <3>2
    <2>3. ASSUME NEW s \in Session, setting' = setting,
                 \/ Begin(s) \/ Grant(s) \/ GrantsDone(s) \/ Deny(s) \/ Guard(s) \/ Launch(s)
                 \/ Store(s) \/ Stop(s)
                 \/ \E p \in Path : Create(s, p) \/ Delete(s, p)
          PROVE  TypeOK' /\ ConfinedFacts'
        <3>1. CASE Begin(s) BY <2>1, <2>3, <3>1, BeginKeeps
        <3>2. CASE Grant(s) BY <2>1, <2>3, <3>2, GrantKeeps
        <3>3. CASE Deny(s) BY <2>1, <2>3, <3>3, DenyKeeps
        <3>4. CASE Guard(s) BY <2>1, <2>3, <3>4, GuardKeeps
        <3>5. CASE Store(s) BY <2>1, <2>3, <3>5, StoreKeeps
        <3>6. CASE Stop(s) BY <2>1, <2>3, <3>6, StopKeeps
        <3>7. CASE \/ GrantsDone(s) \/ Launch(s)
                   \/ \E p \in Path : Create(s, p) \/ Delete(s, p)
            BY <2>1, <2>3, <3>7, OthersKeep
        <3> QED BY <2>1, <2>3, <3>1, <3>2, <3>3, <3>4, <3>5, <3>6, <3>7
    <2> QED BY <2>1, <2>2, <2>3 DEF Next
<1> QED BY <1>1, <1>2, PTL DEF Spec

-----------------------------------------------------------------------------
(* A right that a token has comes from its capabilities, or from an entry  *)
(* others have made, with no denial to its capabilities nearer.            *)
LEMMA GrantedTwoWays ==
    ASSUME TypeOK, ConfinedFacts, NEW s \in Session, NEW p \in Path, NEW right,
           Granted(Restricting(s), p, right)
    PROVE  \/ Granted(Sids(s), p, right)
           \/ \E a \in Opened(s) :
                 /\ a.path \in Up[p] /\ right \in Rights[a.type]
                 /\ \A n \in Up[p] : a.path \in Up[n] => ~Has(n, Sids(s), {"deny"}, right)
<1>1. PICK q \in Up[p] :
          /\ Has(q, Restricting(s), {"allow", "old"}, right)
          /\ \A n \in Up[p] : q \in Up[n] => ~Has(n, Restricting(s), {"deny"}, right)
    BY DEF Granted
<1>2. PICK a \in aces : /\ a.path = q /\ a.sid \in Restricting(s)
                        /\ a.type \in {"allow", "old"} /\ right \in Rights[a.type]
    BY <1>1 DEF Has
<1>3. \A n \in Up[p] : q \in Up[n] => ~Has(n, Sids(s), {"deny"}, right)
    BY <1>1 DEF Has, Restricting
<1>4. CASE a.sid \in Sids(s)
    BY <1>2, <1>3, <1>4 DEF Granted, Has
<1>5. CASE a.sid \in Besides(s)
    <2>1. a.sid \notin Capability
        BY <1>5 DEF Besides, Others, Capability
    <2>2. a \in setting.open
        BY <2>1 DEF ConfinedFacts, Placed, OfRoot
    <2> QED BY <1>2, <1>3, <1>5, <2>2 DEF Opened
<1> QED BY <1>2, <1>4, <1>5 DEF Restricting

(* A right that a session's SIDs are granted comes from one of its roots   *)
(* above the path.                                                         *)
LEMMA GrantedFromRoot ==
    ASSUME TypeOK, ConfinedFacts, NEW s \in Session, NEW p \in Path, NEW right,
           Granted(Sids(s), p, right)
    PROVE  \E r \in roots[s] : r \in Up[p]
<1>1. PICK q \in Up[p] : Has(q, Sids(s), {"allow", "old"}, right)
    BY DEF Granted
<1>2. PICK a \in aces : a.path = q /\ a.sid \in Sids(s) /\ a.type # "deny"
    BY <1>1 DEF Has
<1>3. PICK r \in roots[s] : a.sid = SidOf(req[s].cwd, r)
    BY <1>2 DEF Sids
<1>4. r \in Path /\ req[s].cwd \in Path
    BY DEF TypeOK, Request
<1>5. a.sid[2] = r /\ a.sid \in Capability
    BY <1>3, <1>4, SidTypes
<1>6. a \notin setting.open
    BY <1>5, OpenIsOthers DEF TypeOK
<1>7. r \in Up[q]
    BY <1>2, <1>5, <1>6 DEF ConfinedFacts, Placed, OfRoot
<1> QED BY <1>7, UpTransitive

(* What lies below a root of a request is what it gives away.              *)
LEMMA BelowRootAsked ==
    ASSUME NEW q \in Request, NEW p \in Path, NEW r \in RootsOf(q), r \in Up[p]
    PROVE  Asked(q, p)
<1>1. r \in Path /\ r # Home /\ r \notin Below(Control) /\ r \notin Below(Excluded)
    BY DEF RootsOf
<1>2. CASE r \in WritableRoots(q) \ {Profile}
    BY <1>1, <1>2 DEF Asked
<1>3. CASE Profile \in WritableRoots(q) /\ Parent[r] = Profile
    <2>1. Profile \in Path /\ Profile # None
        BY <1>3, RequestPaths, TreeConstants, AclConstants
    <2>2. Up[r] = {r} \cup Up[Profile]
        BY <1>1, <1>3, <2>1, UpOfParent
    <2>3. Profile \in Up[r] /\ Up[r] \subseteq Up[p]
        BY <2>1, <2>2, UpSelf, UpTransitive
    <2>4. Profile \notin Below(Control) \cup Below(Excluded)
        BY <1>1, <2>2 DEF Below, Down
    <2>5. p # Profile
        BY <1>1, <1>3, <2>1, TreeConstants, AclConstants
    <2>6. p \notin Below(Excluded)
        <3>1. SUFFICES ASSUME NEW x \in Excluded, x \in Up[p] PROVE FALSE
            BY DEF Below, Down
        <3>2. x \in Path /\ Parent[x] = Profile
            BY TreeConstants, AclConstants
        <3>3. x = r
            BY <1>3, <2>1, <3>1, <3>2, OneChild
        <3> QED BY <1>1, <3>1, <3>2, <3>3, UpSelf DEF Below, Down
    <2> QED BY <1>3, <2>3, <2>4, <2>5, <2>6 DEF Asked
<1> QED BY <1>2, <1>3 DEF RootsOf

LEMMA FactsConfine ==
    ASSUME TypeOK, ConfinedFacts
    PROVE  Confined
<1>1. SUFFICES ASSUME NEW s \in Running, NEW p \in Path, CanChange(s, p),
                      ~\E a \in Opened(s) : a.path \in Up[p]
               PROVE  Asked(req[s], p)
    BY DEF Confined
<1>2. s \in Session /\ req[s] \in Request /\ roots[s] \subseteq RootsOf(req[s])
    BY DEF Running, TypeOK, ConfinedFacts
<1>3. \E r \in roots[s] : r \in Up[p]
    <2>1. ASSUME NEW right, Granted(Restricting(s), p, right) PROVE <1>3
        BY <1>1, <1>2, <2>1, GrantedTwoWays, GrantedFromRoot
    <2>2. CASE Parent[p] # None /\ Granted(Restricting(s), Parent[p], "child")
        <3>1. Parent[p] \in Path /\ Up[Parent[p]] \subseteq Up[p]
            BY <2>2, UpOfParent
        <3>2. Granted(Sids(s), Parent[p], "child")
            BY <1>1, <1>2, <2>2, <3>1, GrantedTwoWays
        <3>3. \E r \in roots[s] : r \in Up[Parent[p]]
            BY <1>2, <3>1, <3>2, GrantedFromRoot
        <3> QED BY <3>1, <3>3
    <2> QED BY <1>1, <2>1, <2>2 DEF CanChange, CanWrite, CanDelete, MayDelete
<1> QED BY <1>2, <1>3, BelowRootAsked

(* A command changes only what its own request gives away, or others have  *)
(* opened to a SID that its token holds besides its capabilities: whatever *)
(* sessions of other requests left on the disk or edit at the same time,   *)
(* profile, excluded and control directories included.                     *)
THEOREM ConfinedSafety == Spec => []Confined
<1>1. TypeOK /\ ConfinedFacts => Confined
    BY FactsConfine
<1> QED BY <1>1, ConfinedInvariant, PTL

-----------------------------------------------------------------------------
(* Two paths above each other are the same.                                *)
LEMMA UpAntisymmetric ==
    ASSUME NEW p \in Path, NEW q \in Up[p], p \in Up[q]
    PROVE  p = q
<1>1. SUFFICES ASSUME p # q PROVE FALSE
    OBVIOUS
<1>2. q \in Path /\ Parent[p] # None /\ Parent[p] \in Path
      /\ Up[p] = {p} \cup Up[Parent[p]]
    BY <1>1, UpSelf, UpOfParent
<1>3. q \in Up[Parent[p]]
    BY <1>1, <1>2
<1>4. p \in Up[Parent[p]]
    BY <1>2, <1>3, UpTransitive
<1> QED BY <1>2, <1>4, TreeConstants, AclConstants

(* What a session's roots are, when it begins: they exist, and all of them *)
(* are to be granted.                                                      *)
LEMMA RootsGranted ==
    ASSUME ProfileByHelper, TypeOK, NEW q \in setting.requests
    PROVE  /\ EffectiveRoots(q) \subseteq exists
           /\ EffectiveRoots(q) \subseteq (IF q.elevated THEN EffectiveRoots(q) ELSE AllowPaths(q))
<1>1. EffectiveRoots(q) \subseteq ExpandProfile(AllowPaths(q))
    BY DEF EffectiveRoots, FilterSensitive, FilterExcluded
<1>2. AllowPaths(q) \subseteq WritableRoots(q) \cap exists
    BY DEF AllowPaths
<1>3. ExpandProfile(AllowPaths(q)) \subseteq exists
    BY <1>2 DEF ExpandProfile
<1>4. ASSUME ~q.elevated PROVE EffectiveRoots(q) \subseteq AllowPaths(q)
    <2>1. Profile \notin AllowPaths(q)
        BY <1>2, <1>4 DEF ProfileByHelper, TypeOK
    <2>2. ExpandProfile(AllowPaths(q)) \subseteq AllowPaths(q)
        BY <2>1 DEF ExpandProfile
    <2> QED BY <1>1, <2>2
<1> QED BY <1>1, <1>3, <1>4

(* A step that leaves a session itself alone leaves its roots usable, if   *)
(* it only adds paths, or counts those it takes as lost, and if it only    *)
(* adds to the entries, but at paths then lost or raced.                   *)
LEMMA FrameUsable ==
    ASSUME NEW o \in Session, UsableSoon(o),
           pc'[o] = pc[o], req'[o] = req[o], roots'[o] = roots[o],
           grants'[o] = grants[o], edit'[o] = edit[o],
           lost[o] \subseteq lost'[o], raced \subseteq raced',
           roots[o] \cap exists \subseteq exists' \cup lost'[o],
           \A r \in roots[o] \ (lost'[o] \cup raced') :
               pc[o] # "run" /\ GrantOf(o, r) \in aces => GrantOf(o, r) \in aces'
    PROVE  UsableSoon(o)'
<1>1. ASSUME pc[o] # "run", NEW r \in roots[o] \ (lost'[o] \cup raced')
      PROVE  Coming(o, r)'
    <2>1. Coming(o, r)
        BY <1>1 DEF UsableSoon
    <2>2. GrantOf(o, r)' = GrantOf(o, r)
        BY DEF GrantOf
    <2>3. CASE pc[o] = "grant" /\ r \in grants[o]
        BY <2>3 DEF Coming
    <2>4. CASE pc[o] = "grant" /\ edit[o] # None /\ edit[o].ace = GrantOf(o, r)
        BY <2>2, <2>4 DEF Coming
    <2>5. CASE GrantOf(o, r) \in aces
        <3>1. GrantOf(o, r) \in aces'
            BY <1>1, <2>5
        <3> QED BY <2>2, <3>1 DEF Coming
    <2> QED BY <2>1, <2>3, <2>4, <2>5 DEF Coming
<1>2. pc[o] # "run" => roots[o] \subseteq exists' \cup lost'[o]
    BY DEF UsableSoon
<1> QED BY <1>1, <1>2 DEF UsableSoon

(* The grant of a root by its own SID is in effect only as an entry of the *)
(* root itself.                                                            *)
LEMMA GrantIsThere ==
    ASSUME TypeOK, ConfinedFacts, NEW cwd \in Path, NEW r \in Path,
           HasGrant(r, SidOf(cwd, r))
    PROVE  [path |-> r, sid |-> SidOf(cwd, r), type |-> "allow"] \in aces
<1> DEFINE sid == SidOf(cwd, r)
<1>1. sid \in Capability /\ sid[2] = r
    BY SidTypes
<1>2. PICK a \in aces : a.path \in Up[r] /\ a.sid = sid /\ a.type # "deny"
    BY DEF HasGrant
<1>3. [path |-> r, sid |-> sid, type |-> "old"] \notin aces
    BY DEF HasGrant
<1> HIDE DEF sid
<1>4. a \in Ace /\ a \notin setting.open
    BY <1>1, <1>2, OpenIsOthers DEF TypeOK
<1>5. r \in Up[a.path]
    BY <1>1, <1>2, <1>4 DEF ConfinedFacts, Placed, OfRoot
<1>6. a.path = r
    BY <1>2, <1>5, UpAntisymmetric
<1>7. a.type \in {"allow", "old"}
    BY <1>2, <1>4 DEF Ace, Rights
<1>8. a = [path |-> r, sid |-> sid, type |-> a.type]
    BY <1>2, <1>4, <1>6 DEF Ace
<1> QED BY <1>3, <1>7, <1>8 DEF sid

LEMMA InitUsable ==
    ASSUME Init
    PROVE  UsableFacts
BY DEF Init, UsableFacts, UsableSoon

LEMMA BeginUsable ==
    ASSUME ProfileByHelper, TypeOK, UsableFacts, NEW s \in Session, Begin(s)
    PROVE  UsableFacts'
<1>1. PICK q \in setting.requests :
          /\ req' = [req EXCEPT ![s] = q]
          /\ roots' = [roots EXCEPT ![s] = EffectiveRoots(q)]
          /\ grants' = [grants EXCEPT ![s] = IF q.elevated THEN EffectiveRoots(q) ELSE AllowPaths(q)]
    BY DEF Begin
<1>2. /\ pc' = [pc EXCEPT ![s] = "grant"] /\ lost' = [lost EXCEPT ![s] = {}]
      /\ UNCHANGED <<exists, aces, edit, raced>>
    BY DEF Begin, Go, disk
<1>3. UsableSoon(s)'
    <2>1. EffectiveRoots(q) \subseteq exists /\ roots'[s] = EffectiveRoots(q)
        BY <1>1, RootsGranted DEF TypeOK
    <2>2. EffectiveRoots(q) \subseteq grants'[s] /\ pc'[s] = "grant"
        BY <1>1, <1>2, RootsGranted DEF TypeOK
    <2>3. \A r \in roots'[s] : Coming(s, r)'
        BY <2>1, <2>2 DEF Coming
    <2>4. edit'[s] # None => edit'[s].ace.type # "old"
        BY <1>2 DEF UsableFacts, UsableSoon
    <2> QED BY <1>2, <2>1, <2>2, <2>3, <2>4 DEF UsableSoon
<1>4. ASSUME NEW o \in Session, o # s PROVE UsableSoon(o)'
    <2>1. /\ pc'[o] = pc[o] /\ req'[o] = req[o] /\ roots'[o] = roots[o]
          /\ grants'[o] = grants[o] /\ edit'[o] = edit[o] /\ lost'[o] = lost[o]
        BY <1>1, <1>2, <1>4 DEF TypeOK
    <2>2. UsableSoon(o)
        BY DEF UsableFacts
    <2> QED BY <1>2, <2>1, <2>2, FrameUsable
<1> QED BY <1>3, <1>4 DEF UsableFacts

(* A root is granted by its own SID: the entry is there or is fetched for. *)
LEMMA GrantUsable ==
    ASSUME TypeOK, ConfinedFacts, UsableFacts, NEW s \in Session, Grant(s)
    PROVE  UsableFacts'
<1> DEFINE Match(p) == IF req[s].elevated THEN {p} ELSE Matching(roots[s], p)
           New(p, r) == [ace |-> [path |-> p, sid |-> SidOf(req[s].cwd, r), type |-> "allow"],
                         list |-> List(p)]
<1>1. PICK p \in grants[s] :
          /\ grants' = [grants EXCEPT ![s] = @ \ {p}]
          /\ IF p \notin exists \/ Match(p) = {} THEN UNCHANGED edit
             ELSE \E r \in Match(p) :
                    LET sid == SidOf(req[s].cwd, r) IN
                    Fetch(s, p, sid, "allow", HasGrant(p, sid))
    BY DEF Grant
<1>2. /\ pc[s] = "grant" /\ edit[s] = None
      /\ UNCHANGED <<exists, aces, pc, req, roots, denied, denies, lost, raced, begun>>
    BY DEF Grant, disk, plan
<1>3. p \in Path /\ req[s].cwd \in Path /\ roots[s] \subseteq Path
    BY DEF TypeOK, Request
<1>4. \/ UNCHANGED edit
      \/ \E r \in Match(p) : edit' = [edit EXCEPT ![s] = New(p, r)]
    BY <1>1 DEF Fetch
<1>5. edit'[s] # None => edit'[s].ace.type # "old"
    BY <1>2, <1>4 DEF TypeOK
<1>6. ASSUME p \in roots[s] \ (lost[s] \cup raced)
      PROVE  \/ edit'[s] # None /\ edit'[s].ace = GrantOf(s, p)
             \/ GrantOf(s, p) \in aces
    <2>1. p \in exists
        BY <1>2, <1>6 DEF UsableFacts, UsableSoon
    <2>2. Match(p) = {p}
        <3>1. CASE req[s].elevated
            BY <3>1
        <3>2. CASE ~req[s].elevated
            <4>1. p \in Matching(roots[s], p)
                BY <1>3, <1>6, UpSelf DEF Matching
            <4>2. ASSUME NEW r \in Matching(roots[s], p) PROVE r = p
                <5>1. r \in Up[p] /\ p \in Up[r]
                    BY <1>3, <1>6, <4>2, UpSelf DEF Matching
                <5> QED BY <1>3, <5>1, UpAntisymmetric
            <4> QED BY <3>2, <4>1, <4>2
        <3> QED BY <3>1, <3>2
    <2>3. Fetch(s, p, SidOf(req[s].cwd, p), "allow", HasGrant(p, SidOf(req[s].cwd, p)))
        BY <1>1, <2>1, <2>2
    <2>4. CASE HasGrant(p, SidOf(req[s].cwd, p))
        BY <1>3, <2>4, GrantIsThere DEF GrantOf
    <2>5. CASE ~HasGrant(p, SidOf(req[s].cwd, p))
        <3>1. edit' = [edit EXCEPT ![s] = New(p, p)]
            BY <2>3, <2>5 DEF Fetch
        <3>2. edit'[s] = New(p, p)
            BY <3>1 DEF TypeOK
        <3>3. New(p, p) # None
            <4>1. SidOf(req[s].cwd, p) \in Sid
                BY <1>3, SidTypes
            <4>2. New(p, p).ace \in Ace
                BY <1>3, <4>1 DEF Ace, Rights
            <4>3. New(p, p).list \in SUBSET Ace
                BY DEF List, TypeOK
            <4>4. New(p, p) \in [ace : Ace, list : SUBSET Ace]
                BY <4>2, <4>3
            <4> QED BY <4>4, TreeConstants, AclConstants
        <3> QED BY <3>2, <3>3 DEF GrantOf
    <2> QED BY <2>4, <2>5
<1>7. UsableSoon(s)'
    <2>1. UsableSoon(s)
        BY DEF UsableFacts
    <2>2. ASSUME NEW r \in roots[s] \ (lost[s] \cup raced) PROVE Coming(s, r)'
        <3>1. GrantOf(s, r)' = GrantOf(s, r)
            BY <1>2 DEF GrantOf
        <3>2. CASE r = p
            BY <1>2, <1>6, <2>2, <3>1, <3>2 DEF Coming
        <3>3. CASE r # p
            <4>1. Coming(s, r)
                BY <1>2, <2>1, <2>2 DEF UsableSoon
            <4>2. r \in grants[s] => r \in grants'[s]
                BY <1>1, <3>3 DEF TypeOK
            <4> QED BY <1>2, <3>1, <4>1, <4>2 DEF Coming
        <3> QED BY <3>2, <3>3
    <2>3. roots[s] \subseteq exists \cup lost[s]
        BY <1>2, <2>1 DEF UsableSoon
    <2> QED BY <1>2, <1>5, <2>2, <2>3 DEF UsableSoon
<1>8. ASSUME NEW o \in Session, o # s PROVE UsableSoon(o)'
    <2>1. grants'[o] = grants[o] /\ edit'[o] = edit[o]
        BY <1>1, <1>4, <1>8 DEF TypeOK
    <2>2. UsableSoon(o)
        BY DEF UsableFacts
    <2> QED BY <1>2, <2>1, <2>2, FrameUsable
<1> QED BY <1>7, <1>8 DEF UsableFacts

(* A store puts the entry there; what it undoes of others is raced.        *)
LEMMA StoreUsable ==
    ASSUME TypeOK, ConfinedFacts, UsableFacts, NEW s \in Session, Store(s)
    PROVE  UsableFacts'
<1> DEFINE e == edit[s]
           p == e.ace.path
<1>1. /\ e # None /\ e \in [ace : Ace, list : SUBSET Ace]
      /\ e.ace.type \in {"allow", "deny"}
    BY DEF Store, TypeOK, UsableFacts, UsableSoon, Ace, Rights
<1>2. /\ aces' = (aces \ List(p)) \cup (IF p \in exists THEN NewList(s, e) ELSE {})
      /\ raced' = IF List(p) = e.list THEN raced ELSE raced \cup {p}
      /\ edit' = [edit EXCEPT ![s] = None]
      /\ UNCHANGED <<exists, pc, req, roots, grants, lost>>
    BY DEF Store, plan
<1>3. ASSUME NEW o \in Session, NEW r \in roots[o], r \notin lost[o] \cup raced',
             pc[o] # "run", GrantOf(o, r) \in aces
      PROVE  GrantOf(o, r) \in aces'
    <2>1. CASE r # p
        <3>1. GrantOf(o, r) \notin List(p)
            BY <2>1 DEF GrantOf, List
        <3> QED BY <1>2, <1>3, <3>1
    <2>2. CASE r = p
        <3>1. p \in exists
            BY <1>3, <2>2 DEF UsableFacts, UsableSoon
        <3>2. List(p) = e.list
            BY <1>2, <1>3, <2>2
        <3>3. GrantOf(o, r) \in e.list
            BY <1>3, <2>2, <3>2 DEF GrantOf, List
        <3>4. GrantOf(o, r) \in NewList(s, e)
            <4>1. CASE e.ace.type = "deny" \/ e.ace.sid # SidOf(req[o].cwd, r)
                BY <3>3, <4>1 DEF NewList, GrantOf
            <4>2. CASE e.ace.type = "allow" /\ e.ace.sid = SidOf(req[o].cwd, r)
                <5>1. e.ace = GrantOf(o, r)
                    BY <1>1, <2>2, <4>2 DEF GrantOf, Ace
                <5> QED BY <5>1 DEF NewList
            <4> QED BY <1>1, <4>1, <4>2
        <3> QED BY <1>2, <3>1, <3>4
    <2> QED BY <2>1, <2>2
<1>4. ASSUME NEW o \in Session, o # s PROVE UsableSoon(o)'
    <2>1. edit'[o] = edit[o]
        BY <1>2, <1>4 DEF TypeOK
    <2>2. UsableSoon(o)
        BY DEF UsableFacts
    <2> QED BY <1>2, <1>3, <2>1, <2>2, FrameUsable
<1>5. UsableSoon(s)'
    <2>1. UsableSoon(s) /\ edit'[s] = None
        BY <1>2 DEF UsableFacts, TypeOK
    <2>2. ASSUME pc[s] # "run", NEW r \in roots[s] \ (lost[s] \cup raced') PROVE Coming(s, r)'
        <3>1. GrantOf(s, r)' = GrantOf(s, r)
            BY <1>2 DEF GrantOf
        <3>2. Coming(s, r)
            BY <1>2, <2>1, <2>2 DEF UsableSoon
        <3>3. CASE pc[s] = "grant" /\ r \in grants[s]
            BY <1>2, <3>3 DEF Coming
        <3>4. CASE e.ace = GrantOf(s, r)
            <4>1. p = r
                BY <3>4 DEF GrantOf
            <4>2. p \in exists
                BY <2>1, <2>2, <4>1 DEF UsableSoon
            <4>3. e.ace \in aces'
                BY <1>2, <4>2 DEF NewList
            <4> QED BY <3>1, <3>4, <4>3 DEF Coming
        <3>5. CASE GrantOf(s, r) \in aces
            <4>1. GrantOf(s, r) \in aces'
                BY <1>3, <2>2, <3>5
            <4> QED BY <3>1, <4>1 DEF Coming
        <3> QED BY <3>2, <3>3, <3>4, <3>5 DEF Coming
    <2>3. pc[s] # "run" => roots[s] \subseteq exists \cup lost[s]
        BY <2>1 DEF UsableSoon
    <2>4. pc[s] = "idle" => roots[s] = {}
        BY <2>1 DEF UsableSoon
    <2> QED BY <1>2, <2>1, <2>2, <2>3, <2>4 DEF UsableSoon
<1> QED BY <1>4, <1>5 DEF UsableFacts

(* The other steps of the preparation come when all roots are granted, and *)
(* leave the entries alone.                                                *)
LEMMA PrepareUsable ==
    ASSUME TypeOK, UsableFacts, NEW s \in Session,
           GrantsDone(s) \/ Deny(s) \/ Guard(s) \/ Launch(s) \/ Stop(s)
    PROVE  UsableFacts'
<1>1. /\ UNCHANGED <<aces, raced>> /\ exists \subseteq exists'
      /\ \A o \in Session \ {s} :
            /\ pc'[o] = pc[o] /\ req'[o] = req[o] /\ roots'[o] = roots[o]
            /\ grants'[o] = grants[o] /\ edit'[o] = edit[o] /\ lost'[o] = lost[o]
    <2>1. CASE GrantsDone(s) \/ Guard(s) \/ Launch(s)
        BY <2>1 DEF GrantsDone, Guard, Launch, Go, TypeOK, disk, plan
    <2>2. CASE Stop(s)
        BY <2>2 DEF Stop, Go, TypeOK, disk
    <2>3. CASE Deny(s)
        BY <2>3 DEF Deny, Fetch, TypeOK, plan
    <2> QED BY <2>1, <2>2, <2>3
<1>2. ASSUME NEW o \in Session, o # s PROVE UsableSoon(o)'
    <2>1. UsableSoon(o)
        BY DEF UsableFacts
    <2> QED BY <1>1, <1>2, <2>1, FrameUsable
<1>3. UsableSoon(s)'
    <2>1. CASE GrantsDone(s) \/ Guard(s) \/ Launch(s)
        <3>1. /\ UNCHANGED <<exists, aces, req, roots, edit, lost, raced>>
              /\ pc'[s] # "idle" /\ pc[s] \notin {"idle", "run"}
              /\ pc[s] = "grant" => edit[s] = None /\ grants[s] = {}
            BY <2>1 DEF GrantsDone, Guard, Launch, Go, TypeOK, disk, plan
        <3>2. ASSUME NEW r \in roots[s] \ (lost[s] \cup raced) PROVE Coming(s, r)'
            <4>1. GrantOf(s, r)' = GrantOf(s, r)
                BY <3>1 DEF GrantOf
            <4>2. Coming(s, r)
                BY <3>1, <3>2 DEF UsableFacts, UsableSoon
            <4>3. GrantOf(s, r) \in aces
                BY <3>1, <4>2 DEF Coming
            <4> QED BY <3>1, <4>1, <4>3 DEF Coming
        <3> QED BY <3>1, <3>2 DEF UsableFacts, UsableSoon
    <2>2. CASE Stop(s)
        <3>1. roots'[s] = {} /\ edit'[s] = None
            BY <2>2 DEF Stop, TypeOK
        <3> QED BY <3>1 DEF UsableSoon
    <2>3. CASE Deny(s)
        <3>1. /\ UNCHANGED <<aces, pc, req, roots, lost, raced>>
              /\ exists \subseteq exists' /\ pc[s] \in {"deny", "guard"}
              /\ edit[s] = None
            BY <2>3 DEF Deny, plan
        <3>2. edit'[s] # None => edit'[s].ace.type # "old"
            <4>1. PICK x \in denies[s] : Fetch(s, x[1], SidOf(req[s].cwd, x[2]), "deny",
                                               HasDeny(x[1], SidOf(req[s].cwd, x[2])))
                BY <2>3 DEF Deny
            <4> QED BY <3>1, <4>1 DEF Fetch, TypeOK
        <3>3. ASSUME NEW r \in roots[s] \ (lost[s] \cup raced) PROVE Coming(s, r)'
            <4>1. GrantOf(s, r)' = GrantOf(s, r)
                BY <3>1 DEF GrantOf
            <4>2. Coming(s, r)
                BY <3>1, <3>3 DEF UsableFacts, UsableSoon
            <4>3. GrantOf(s, r) \in aces
                BY <3>1, <4>2 DEF Coming
            <4> QED BY <3>1, <4>1, <4>3 DEF Coming
        <3> QED BY <3>1, <3>2, <3>3 DEF UsableFacts, UsableSoon
    <2> QED BY <2>1, <2>2, <2>3
<1> QED BY <1>2, <1>3 DEF UsableFacts

(* What a command deletes is lost to the others; its own roots it has.     *)
LEMMA CommandUsable ==
    ASSUME TypeOK, UsableFacts, NEW s \in Session,
           \E p \in Path : Create(s, p) \/ Delete(s, p)
    PROVE  UsableFacts'
<1>1. UNCHANGED <<pc, req, roots, grants, edit, raced>> /\ pc[s] = "run"
    BY DEF Create, Delete, plan
<1>2. SUFFICES ASSUME NEW o \in Session PROVE UsableSoon(o)'
    BY DEF UsableFacts
<1>3. UsableSoon(o)
    BY DEF UsableFacts
<1>4. ASSUME NEW p \in Path, Create(s, p) PROVE UsableSoon(o)'
    <2>1. UNCHANGED <<aces, lost>> /\ exists \subseteq exists'
        BY <1>4 DEF Create
    <2> QED BY <1>1, <1>3, <2>1, FrameUsable
<1>5. ASSUME NEW p \in Path, Delete(s, p) PROVE UsableSoon(o)'
    <2>1. /\ exists' = exists \ {p} /\ aces' = aces \ List(p)
          /\ lost'[o] = IF pc[o] = "idle" \/ (o = s /\ MayDelete(Sids(s), p))
                       THEN lost[o] ELSE lost[o] \cup {p}
        BY <1>5 DEF Delete
    <2>2. CASE o = s
        BY <1>1, <1>3, <2>1, <2>2 DEF UsableSoon
    <2>3. CASE o # s /\ pc[o] = "idle"
        <3>1. roots[o] = {}
            BY <1>3, <2>3 DEF UsableSoon
        <3> QED BY <1>1, <1>3, <2>1, <2>3, <3>1, FrameUsable
    <2>4. CASE o # s /\ pc[o] # "idle"
        <3>1. lost'[o] = lost[o] \cup {p}
            BY <2>1, <2>4
        <3>2. ASSUME NEW r \in roots[o] \ (lost'[o] \cup raced'), GrantOf(o, r) \in aces
              PROVE  GrantOf(o, r) \in aces'
            <4>1. GrantOf(o, r) \notin List(p)
                BY <3>1, <3>2 DEF GrantOf, List
            <4> QED BY <2>1, <3>2, <4>1
        <3>3. roots[o] \cap exists \subseteq exists' \cup lost'[o]
            BY <2>1, <3>1
        <3> QED BY <1>1, <1>3, <3>1, <3>2, <3>3, FrameUsable
    <2> QED BY <2>2, <2>3, <2>4
<1> QED BY <1>4, <1>5

LEMMA NextUsable ==
    ASSUME ProfileByHelper, TypeOK, ConfinedFacts, UsableFacts,
           [Next /\ UNCHANGED setting]_vars
    PROVE  UsableFacts'
<1>1. CASE UNCHANGED vars
    <2>1. SUFFICES ASSUME NEW o \in Session PROVE UsableSoon(o)'
        BY DEF UsableFacts
    <2>2. UsableSoon(o)
        BY DEF UsableFacts
    <2> QED BY <1>1, <2>2, FrameUsable DEF vars
<1>2. ASSUME NEW s \in Session,
             \/ Begin(s) \/ Grant(s) \/ GrantsDone(s) \/ Deny(s) \/ Guard(s) \/ Launch(s)
             \/ Store(s) \/ Stop(s)
             \/ \E p \in Path : Create(s, p) \/ Delete(s, p)
      PROVE  UsableFacts'
    <2>1. CASE Begin(s) BY <2>1, BeginUsable
    <2>2. CASE Grant(s) BY <2>2, GrantUsable
    <2>3. CASE Store(s) BY <2>3, StoreUsable
    <2>4. CASE GrantsDone(s) \/ Deny(s) \/ Guard(s) \/ Launch(s) \/ Stop(s)
        BY <2>4, PrepareUsable
    <2>5. CASE \E p \in Path : Create(s, p) \/ Delete(s, p)
        BY <2>5, CommandUsable
    <2> QED BY <1>2, <2>1, <2>2, <2>3, <2>4, <2>5
<1> QED BY <1>1, <1>2 DEF Next

(* A command starts when each of its roots has its grant, so that only a   *)
(* denial in the list of the root itself is in its way.                    *)
LEMMA LaunchUsable ==
    ASSUME TypeOK, UsableFacts, NEW s \in Session, Launch(s)
    PROVE  Usable(s)'
<1>1. /\ UNCHANGED <<exists, aces, req, roots, lost, raced>>
      /\ pc[s] \notin {"grant", "idle", "run"}
    BY DEF Launch, TypeOK, disk, plan
<1>2. SUFFICES ASSUME NEW r \in (roots[s] \cap exists) \ (lost[s] \cup raced)
               PROVE  Granted(Sids(s), r, "write") \/ Has(r, Sids(s), {"deny"}, "write")
    BY <1>1 DEF Usable, Granted, Has, Sids
<1>3. GrantOf(s, r) \in aces
    BY <1>1, <1>2 DEF UsableFacts, UsableSoon, Coming
<1>4. r \in Path
    BY <1>2 DEF TypeOK
<1>5. Has(r, Sids(s), {"allow", "old"}, "write")
    <2>1. SidOf(req[s].cwd, r) \in Sids(s)
        BY <1>2 DEF Sids
    <2> QED BY <1>3, <2>1 DEF Has, GrantOf, Rights
<1>6. ASSUME ~Has(r, Sids(s), {"deny"}, "write") PROVE Granted(Sids(s), r, "write")
    <2>1. \A n \in Up[r] : r \in Up[n] => n = r
        BY <1>4, UpAntisymmetric
    <2>2. r \in Up[r]
        BY <1>4, UpSelf
    <2> QED BY <1>5, <1>6, <2>1, <2>2 DEF Granted
<1> QED BY <1>6

(* A command starts with every root writable that it has a capability for, *)
(* unless it is denied there itself, another command deleted the root or   *)
(* edits of its list overlapped: for any tree and any requests, if those   *)
(* that have the whole profile as a root go through the setup helper.      *)
THEOREM RootsSafety ==
    ASSUME ProfileByHelper
    PROVE  Spec => RootsUsable
<1>1. Init => UsableFacts
    BY InitUsable
<1>2. TypeOK /\ ConfinedFacts /\ UsableFacts /\ [Next /\ UNCHANGED setting]_vars => UsableFacts'
    BY NextUsable
<1>3. TypeOK /\ UsableFacts /\ [Next /\ UNCHANGED setting]_vars
      => [\A s \in Session : pc[s] # "run" /\ pc'[s] = "run" => Usable(s)']_vars
    <2>1. SUFFICES ASSUME TypeOK, UsableFacts, Next,
                          NEW s \in Session, pc[s] # "run", pc'[s] = "run"
                   PROVE  Usable(s)'
        OBVIOUS
    <2>2. Launch(s)
        BY <2>1 DEF Next, Begin, Grant, GrantsDone, Deny, Guard, Launch, Store, Stop, Create,
                    Delete, Go, TypeOK
    <2> QED BY <2>1, <2>2, LaunchUsable
<1> QED BY <1>1, <1>2, <1>3, ConfinedInvariant, PTL DEF Spec, RootsUsable

-----------------------------------------------------------------------------
(* Below a path on the way to another there is a child of it.              *)
LEMMA ChildToward ==
    ASSUME NEW d \in Path, NEW n \in Up[d], n # d
    PROVE  \E c \in Up[d] : Parent[c] = n
<1> DEFINE Passed == {a \in Up[d] : n \in Up[a] /\ n # a}
<1>1. SUFFICES ASSUME \A c \in Up[d] : Parent[c] # n PROVE FALSE
    OBVIOUS
<1>2. d \in Passed
    BY UpSelf
<1>3. ASSUME NEW a \in Passed PROVE Parent[a] \in Passed
    <2>1. a \in Path /\ n \in Up[a] /\ n # a /\ Parent[a] # n
        BY <1>1, UpSelf
    <2>2. Parent[a] # None /\ Parent[a] \in Path /\ Up[a] = {a} \cup Up[Parent[a]]
        BY <2>1, UpOfParent
    <2>3. Parent[a] \in Up[d]
        BY <2>2, UpClosed DEF Closed
    <2> QED BY <2>1, <2>2, <2>3
<1>4. Passed \in Closed
    <2>1. Passed \subseteq Path
        BY UpSelf
    <2> HIDE DEF Passed
    <2> QED BY <1>3, <2>1 DEF Closed
<1>5. Up[d] \subseteq Passed
    <2> HIDE DEF Passed
    <2> QED BY <1>2, <1>4, UpLeast
<1> QED BY <1>5

(* What is above an existing path exists.                                  *)
LEMMA ExistsAbove ==
    ASSUME EntriesOfRoots, exists \subseteq Path, NEW d \in exists
    PROVE  Up[d] \subseteq exists
<1>1. exists \in Closed
    BY DEF EntriesOfRoots, Closed
<1> QED BY <1>1, UpLeast

(* Facts of the instance.                                                  *)
LEMMA PlainRequest ==
    ASSUME TypeOK, Plain(setting), NEW q \in setting.requests
    PROVE  /\ q \in Request
           /\ \A r \in RootsOf(q) : Up[r] \cap Deniable(q) = {}
           /\ ~q.elevated => \A p \in WritableRoots(q) :
                  Up[p] \cap RootsOf(q) # {} => p \in RootsOf(q)
BY TreeConstants, AclConstants DEF TypeOK, Plain

(* Of a root of a session and a path it denies, the root is the one above  *)
(* if one is.                                                              *)
LEMMA DenialBelow ==
    ASSUME TypeOK, ConfinedFacts, Plain(setting), NEW s \in Session, PlanOfRequest(s),
           NEW d \in denied[s], NEW r \in roots[s]
    PROVE  d \notin Up[r]
<1>1. req[s] \in setting.requests /\ d \in Deniable(req[s]) /\ r \in RootsOf(req[s])
    BY DEF PlanOfRequest, ConfinedFacts
<1> QED BY <1>1, PlainRequest

-----------------------------------------------------------------------------
(* An entry of a capability of a session is one of the root it is for.     *)
LEMMA OwnEntry ==
    ASSUME TypeOK, KeptFacts, NEW s \in Session, NEW r \in roots[s],
           NEW a \in aces, a.sid = SidOf(req[s].cwd, r)
    PROVE  IF a.type = "deny" THEN a.path \notin Up[r] ELSE a.path = r
<1>1. a.sid \in Capability /\ a.sid[2] = r
    BY SidTypes DEF TypeOK, Request
<1>2. a \notin setting.open
    BY <1>1, OpenIsOthers DEF TypeOK
<1>3. OfItsRoot(a)
    BY DEF KeptFacts, EntriesOfRoots
<1> QED BY <1>1, <1>2, <1>3 DEF OfItsRoot

(* On the way from a root to a denied path below it there is a denial, of  *)
(* every right.                                                            *)
LEMMA DenialOnWay ==
    ASSUME TypeOK, KeptFacts, NEW s \in Session, pc[s] = "run",
           NEW d \in denied[s] \ (lost[s] \cup Below(raced)), NEW o \in roots[s] \cap Up[d],
           NEW right \in {"write", "delete", "child"}
    PROVE  \E n \in Up[d] : o \in Up[n] /\ Has(n, Sids(s), {"deny"}, right)
<1>1. PICK r \in roots[s] \cap Up[d] : Covers(r, o, d) /\ DenialDue(s, d, r)
    BY DEF KeptFacts, DenialsDue
<1>2. HasDeny(d, SidOf(req[s].cwd, r))
    <2>1. PlanOfRequest(s)
        BY DEF KeptFacts
    <2> QED BY <1>1, <2>1 DEF DenialDue, PlanOfRequest
<1>3. PICK b \in aces : b.path \in Up[d] /\ b.sid = SidOf(req[s].cwd, r) /\ b.type = "deny"
    BY <1>2 DEF HasDeny
<1>4. b.path \notin Up[r]
    BY <1>1, <1>3, OwnEntry
<1>5. o \in Up[b.path]
    BY <1>1, <1>3, <1>4 DEF Covers
<1>6. Has(b.path, Sids(s), {"deny"}, right)
    BY <1>1, <1>3 DEF Has, Sids, Rights
<1> QED BY <1>3, <1>5, <1>6

(* The facts suffice: what grants something below a denied path to a       *)
(* capability is an entry of a root above it, and the denial is nearer.    *)
LEMMA NothingGranted ==
    ASSUME TypeOK, ConfinedFacts, KeptFacts, Plain(setting), NEW s \in Session, pc[s] = "run",
           NEW d \in denied[s] \ (lost[s] \cup Below(raced)), NEW p \in Down(d),
           NEW right \in {"write", "delete"}
    PROVE  ~Granted(Sids(s), p, right)
<1>1. SUFFICES ASSUME NEW q \in Up[p], Has(q, Sids(s), {"allow", "old"}, right),
                      \A n \in Up[p] : q \in Up[n] => ~Has(n, Sids(s), {"deny"}, right)
               PROVE  FALSE
    BY DEF Granted
<1>2. p \in Path /\ d \in Up[p] /\ d \in Path /\ roots[s] \subseteq Path /\ PlanOfRequest(s)
    BY DEF Down, TypeOK, KeptFacts
<1>3. PICK a \in aces : a.path = q /\ a.sid \in Sids(s) /\ a.type # "deny"
    BY <1>1 DEF Has
<1>4. PICK o \in roots[s] : a.sid = SidOf(req[s].cwd, o)
    BY <1>3 DEF Sids
<1>5. q = o
    BY <1>3, <1>4, OwnEntry
<1>6. o \in Up[d]
    BY <1>1, <1>2, <1>5, UpChain, DenialBelow
<1>7. PICK n \in Up[d] : o \in Up[n] /\ Has(n, Sids(s), {"deny"}, right)
    BY <1>6, DenialOnWay
<1>8. n \in Up[p]
    BY <1>2, <1>7, UpTransitive
<1> QED BY <1>1, <1>5, <1>7, <1>8

LEMMA NoChildDeleted ==
    ASSUME TypeOK, ConfinedFacts, KeptFacts, Plain(setting), NEW s \in Session, pc[s] = "run",
           NEW d \in denied[s] \ (lost[s] \cup Below(raced)), NEW p \in Down(d),
           Parent[p] # None
    PROVE  ~Granted(Sids(s), Parent[p], "child")
<1>1. SUFFICES ASSUME NEW q \in Up[Parent[p]], Has(q, Sids(s), {"allow", "old"}, "child")
               PROVE  FALSE
    BY DEF Granted
<1>2. /\ p \in Path /\ d \in Up[p] /\ d \in Path /\ Parent[p] \in Path
      /\ roots[s] \subseteq Path /\ PlanOfRequest(s)
    BY UpOfParent DEF Down, TypeOK, KeptFacts
<1>3. PICK a \in aces : a.path = q /\ a.sid \in Sids(s) /\ a.type = "old"
    BY <1>1 DEF Has, Rights
<1>4. PICK o \in roots[s] : a.sid = SidOf(req[s].cwd, o)
    BY <1>3 DEF Sids
<1>5. q = o
    BY <1>3, <1>4, OwnEntry
<1>6. o \in Up[p]
    BY <1>1, <1>2, <1>5, UpOfParent
<1>7. o \in Up[d]
    BY <1>2, <1>6, UpChain, DenialBelow
<1>8. o \notin raced
    BY <1>2, <1>7 DEF Below, Down
<1>9. a \in Ace
    BY DEF TypeOK
<1>10. a = [GrantOf(s, o) EXCEPT !.type = "old"]
    BY <1>3, <1>4, <1>5, <1>9 DEF GrantOf, Ace
<1> QED BY <1>8, <1>10 DEF KeptFacts, Refreshed, OldOf

(* By its capabilities it changes and deletes nothing at or below a denied *)
(* path.                                                                   *)
LEMMA NothingChanged ==
    ASSUME TypeOK, ConfinedFacts, KeptFacts, Plain(setting), NEW s \in Session, pc[s] = "run",
           NEW d \in denied[s] \ (lost[s] \cup Below(raced)), NEW p \in Down(d)
    PROVE  ~Granted(Sids(s), p, "write") /\ ~MayDelete(Sids(s), p)
BY NothingGranted, NoChildDeleted DEF MayDelete

(* What others opened above the nearest root is denied with it.            *)
LEMMA OpenedBelowRoot ==
    ASSUME TypeOK, KeptFacts, NEW s \in Session, pc[s] = "run",
           NEW d \in denied[s] \ (lost[s] \cup Below(raced)), NEW x \in Down(d),
           NEW right \in {"write", "delete", "child"}, NEW a \in Opened(s),
           \A n \in Up[x] : a.path \in Up[n] => ~Has(n, Sids(s), {"deny"}, right)
    PROVE  \A r \in roots[s] \cap Up[d] : a.path \notin Up[r]
<1>1. SUFFICES ASSUME NEW r \in roots[s] \cap Up[d], a.path \in Up[r] PROVE FALSE
    OBVIOUS
<1>2. x \in Path /\ d \in Up[x] /\ d \in Path
    BY DEF Down, TypeOK
<1>3. PICK n \in Up[d] : r \in Up[n] /\ Has(n, Sids(s), {"deny"}, right)
    BY DenialOnWay
<1>4. n \in Up[x] /\ n \in Path
    BY <1>2, <1>3, UpTransitive
<1>5. a.path \in Up[n]
    BY <1>1, <1>3, <1>4, UpTransitive
<1> QED BY <1>3, <1>4, <1>5

(* What a token can change at or below a denied path, others have opened   *)
(* there.                                                                  *)
LEMMA OnlyOpened ==
    ASSUME TypeOK, ConfinedFacts, KeptFacts, Plain(setting), NEW s \in Session, pc[s] = "run",
           NEW d \in denied[s] \ (lost[s] \cup Below(raced)), NEW p \in Down(d),
           CanChange(s, p)
    PROVE  OpenedThere(s, d, p)
<1>1. p \in Path /\ d \in Up[p] /\ d \in Path
    BY DEF Down, TypeOK
<1>2. ASSUME NEW right \in {"write", "delete"}, Granted(Restricting(s), p, right)
      PROVE  OpenedThere(s, d, p)
    <2>1. ~Granted(Sids(s), p, right)
        BY NothingGranted
    <2>2. PICK a \in Opened(s) :
              /\ a.path \in Up[p]
              /\ \A n \in Up[p] : a.path \in Up[n] => ~Has(n, Sids(s), {"deny"}, right)
        BY <1>1, <1>2, <2>1, GrantedTwoWays
    <2>3. \A r \in roots[s] \cap Up[d] : a.path \notin Up[r]
        BY <2>2, OpenedBelowRoot
    <2> QED BY <2>2, <2>3 DEF OpenedThere
<1>3. CASE Parent[p] # None /\ Granted(Restricting(s), Parent[p], "child")
    <2>1. Parent[p] \in Path /\ Up[p] = {p} \cup Up[Parent[p]]
        BY <1>1, <1>3, UpOfParent
    <2>2. ~Granted(Sids(s), Parent[p], "child")
        BY <1>3, NoChildDeleted
    <2>3. PICK a \in Opened(s) :
              /\ a.path \in Up[Parent[p]] /\ "child" \in Rights[a.type]
              /\ \A n \in Up[Parent[p]] : a.path \in Up[n] => ~Has(n, Sids(s), {"deny"}, "child")
        BY <1>3, <2>1, <2>2, GrantedTwoWays
    <2>4. CASE p = d
        BY <1>3, <2>3, <2>4 DEF OpenedThere
    <2>5. CASE p # d
        <3>1. Parent[p] \in Down(d)
            BY <1>1, <2>1, <2>5 DEF Down
        <3>2. \A r \in roots[s] \cap Up[d] : a.path \notin Up[r]
            BY <2>3, <3>1, OpenedBelowRoot
        <3> QED BY <2>1, <2>3, <3>2 DEF OpenedThere
    <2> QED BY <2>4, <2>5
<1> QED BY <1>2, <1>3 DEF CanChange, CanWrite, CanDelete, MayDelete

LEMMA FactsKeep ==
    ASSUME TypeOK, ConfinedFacts, KeptFacts, Plain(setting)
    PROVE  ProtectedKept
BY OnlyOpened DEF ProtectedKept, Running, Kept

-----------------------------------------------------------------------------
(* A step that leaves a session itself alone keeps what it has yet to do,  *)
(* and the denials due, if it drops none of those in effect but at paths   *)
(* then lost or raced.                                                     *)
LEMMA FramePlan ==
    ASSUME NEW o \in Session, PlanOfRequest(o), setting' = setting,
           pc'[o] = pc[o], req'[o] = req[o], roots'[o] = roots[o], grants'[o] = grants[o],
           denied'[o] = denied[o], denies'[o] = denies[o],
           pc[o] = "run" => edit'[o] = edit[o]
    PROVE  PlanOfRequest(o)'
BY DEF PlanOfRequest, Deniable, WritableRoots

LEMMA FrameDue ==
    ASSUME NEW o \in Session, DenialsDue(o),
           req'[o] = req[o], roots'[o] = roots[o], denied'[o] = denied[o],
           denies[o] \subseteq denies'[o], edit[o] = None \/ edit'[o] = edit[o],
           lost[o] \subseteq lost'[o], raced \subseteq raced',
           \A d \in denied[o] \ (lost'[o] \cup Below(raced')) :
               d \in exists => /\ d \in exists'
                               /\ \A sid : HasDeny(d, sid) => HasDeny(d, sid)'
    PROVE  DenialsDue(o)'
<1>1. Below(raced) \subseteq Below(raced)'
    BY DEF Below
<1>2. SUFFICES ASSUME NEW d \in denied[o] \ (lost'[o] \cup Below(raced')),
                      NEW a \in roots[o] \cap Up[d]
               PROVE  \E r \in roots[o] \cap Up[d] : Covers(r, a, d) /\ DenialDue(o, d, r)'
    BY DEF DenialsDue, Below, Covers
<1>3. PICK r \in roots[o] \cap Up[d] : Covers(r, a, d) /\ DenialDue(o, d, r)
    BY <1>1, <1>2 DEF DenialsDue, Below
<1>4. d \in exists => d \in exists' /\ \A sid : HasDeny(d, sid) => HasDeny(d, sid)'
    BY <1>2
<1>5. DenialDue(o, d, r)'
    BY <1>3, <1>4 DEF DenialDue, SidOf
<1> QED BY <1>3, <1>5

LEMMA FrameRefreshed ==
    ASSUME NEW o \in Session, \A r \in roots[o] \ raced : Refreshed(o, r),
           pc'[o] = pc[o], req'[o] = req[o], roots'[o] = roots[o],
           grants'[o] = grants[o], edit'[o] = edit[o], raced \subseteq raced',
           \A r \in roots[o] \ raced' : OldOf(o, r) \in aces' => OldOf(o, r) \in aces
    PROVE  \A r \in roots'[o] \ raced' : Refreshed(o, r)'
<1>1. SUFFICES ASSUME NEW r \in roots[o] \ raced' PROVE Refreshed(o, r)'
    OBVIOUS
<1>2. Refreshed(o, r) /\ GrantOf(o, r)' = GrantOf(o, r)
    BY <1>1 DEF GrantOf
<1> QED BY <1>1, <1>2 DEF Refreshed, OldOf

(* An entry that is fetched to be stored is of its root.                   *)
LEMMA FetchOfRoots ==
    ASSUME TypeOK, EntriesOfRoots, NEW s \in Session, NEW p, NEW sid, NEW type,
           NEW present \in BOOLEAN, Fetch(s, p, sid, type, present),
           OfItsRoot([path |-> p, sid |-> sid, type |-> type])
    PROVE  \A o \in Session :
               edit'[o] # None => \A a \in edit'[o].list \cup {edit'[o].ace} :
                   OfItsRoot(a) /\ a.path = edit'[o].ace.path
<1> DEFINE New == [ace |-> [path |-> p, sid |-> sid, type |-> type], list |-> List(p)]
<1>1. \A a \in New.list \cup {New.ace} : OfItsRoot(a) /\ a.path = New.ace.path
    BY DEF List, EntriesOfRoots
<1>2. edit' = edit \/ edit' = [edit EXCEPT ![s] = New]
    BY DEF Fetch
<1> HIDE DEF New
<1> QED BY <1>1, <1>2 DEF TypeOK, EntriesOfRoots

(* What a session has yet to do when it begins.                            *)
LEMMA BeginKept ==
    ASSUME ProfileByHelper, TypeOK, KeptFacts, Plain(setting), setting' = setting,
           NEW s \in Session, Begin(s)
    PROVE  KeptFacts'
<1> DEFINE Rs(q) == EffectiveRoots(q)
           Ds(q) == ProtectedSubpaths(q) \cup q.deny
<1>1. PICK q \in setting.requests :
          /\ req' = [req EXCEPT ![s] = q]
          /\ roots' = [roots EXCEPT ![s] = Rs(q)]
          /\ grants' = [grants EXCEPT ![s] = IF q.elevated THEN Rs(q) ELSE AllowPaths(q)]
          /\ denied' = [denied EXCEPT ![s] = Ds(q)]
          /\ denies' = [denies EXCEPT ![s] =
                            {x \in Ds(q) \X Rs(q) : x[2] \in DenyRoots(Rs(q), x[1])}]
    BY DEF Begin
<1>2. /\ pc' = [pc EXCEPT ![s] = "grant"] /\ lost' = [lost EXCEPT ![s] = {}]
      /\ UNCHANGED <<exists, aces, edit, raced>>
    BY DEF Begin, Go, disk
<1>3. /\ req'[s] = q /\ roots'[s] = Rs(q) /\ denied'[s] = Ds(q) /\ pc'[s] = "grant"
      /\ grants'[s] = (IF q.elevated THEN Rs(q) ELSE AllowPaths(q))
      /\ denies'[s] = {x \in Ds(q) \X Rs(q) : x[2] \in DenyRoots(Rs(q), x[1])}
    BY <1>1, <1>2 DEF TypeOK
<1>4. EntriesOfRoots'
    BY <1>2 DEF KeptFacts, EntriesOfRoots, OfItsRoot
<1>5. ASSUME NEW o \in Session, o # s
      PROVE  PlanOfRequest(o)' /\ DenialsDue(o)' /\ \A r \in roots'[o] \ raced' : Refreshed(o, r)'
    <2>1. /\ pc'[o] = pc[o] /\ req'[o] = req[o] /\ roots'[o] = roots[o] /\ edit'[o] = edit[o]
          /\ grants'[o] = grants[o] /\ lost'[o] = lost[o] /\ denied'[o] = denied[o]
          /\ denies'[o] = denies[o]
        BY <1>1, <1>2, <1>5 DEF TypeOK
    <2>2. PlanOfRequest(o) /\ DenialsDue(o) /\ \A r \in roots[o] \ raced : Refreshed(o, r)
        BY DEF KeptFacts
    <2>3. PlanOfRequest(o)'
        BY <2>1, <2>2, FramePlan
    <2>4. DenialsDue(o)'
        <3>1. \A d, sid : HasDeny(d, sid) => HasDeny(d, sid)'
            BY <1>2 DEF HasDeny
        <3> QED BY <1>2, <2>1, <2>2, <3>1, FrameDue
    <2>5. \A r \in roots'[o] \ raced' : Refreshed(o, r)'
        BY <1>2, <2>1, <2>2, FrameRefreshed
    <2> QED BY <2>3, <2>4, <2>5
<1>6. q \in Request /\ Rs(q) \subseteq RootsOf(q)
    BY PlainRequest, EffectiveRootsAre
<1>7. PlanOfRequest(s)'
    <2>1. Ds(q) \subseteq Deniable(q)
        BY DEF Deniable, ProtectedSubpaths
    <2>2. ASSUME NEW p \in grants'[s]
          PROVE  p \in Rs(q) \/ (~q.elevated /\ Up[p] \cap Rs(q) = {})
        <3>1. CASE q.elevated
            BY <1>3, <2>2, <3>1
        <3>2. SUFFICES ASSUME ~q.elevated, Up[p] \cap Rs(q) # {} PROVE p \in Rs(q)
            BY <3>1
        <3>3. p \in AllowPaths(q) /\ p \in WritableRoots(q)
            BY <1>3, <2>2, <3>2 DEF AllowPaths
        <3>4. p \in RootsOf(q)
            BY <1>6, <3>2, <3>3, PlainRequest
        <3>5. p # Profile
            BY <3>2, <3>3 DEF ProfileByHelper, TypeOK
        <3>6. p \in ExpandProfile(AllowPaths(q))
            BY <3>3, <3>5 DEF ExpandProfile
        <3> QED BY <3>4, <3>6 DEF EffectiveRoots, FilterSensitive, FilterExcluded, RootsOf
    <2> HIDE DEF Rs, Ds
    <2>3. denies'[s] \subseteq Ds(q) \X Rs(q)
        BY <1>3
    <2>4. /\ q \in setting'.requests /\ denied'[s] \subseteq Deniable(req'[s])
          /\ denies'[s] \subseteq denied'[s] \X roots'[s] /\ pc'[s] # "run"
          /\ \A p \in grants'[s] : p \in roots'[s] \/ (~req'[s].elevated /\ Up[p] \cap roots'[s] = {})
        BY <1>3, <2>1, <2>2, <2>3
    <2> QED BY <1>3, <2>4 DEF PlanOfRequest, Deniable, WritableRoots
<1>8. DenialsDue(s)'
    <2>1. SUFFICES ASSUME NEW d \in Ds(q), NEW o \in Rs(q) \cap Up[d]
                   PROVE  Covers(o, o, d) /\ DenialDue(s, d, o)'
        BY <1>3 DEF DenialsDue, Covers
    <2>2. d \in Path
        BY <1>6, TreeConstants, AclConstants DEF ProtectedSubpaths, Request
    <2>3. Covers(o, o, d)
        BY <2>1, <2>2, UpChain, UpSelf DEF Covers
    <2>4. o \in DenyRoots(Rs(q), d)
        BY <2>1 DEF DenyRoots
    <2>5. <<d, o>> \in denies'[s]
        <3> HIDE DEF Rs, Ds
        <3> QED BY <1>3, <2>1, <2>4
    <2> QED BY <2>3, <2>5 DEF DenialDue
<1>9. \A r \in roots'[s] \ raced' : Refreshed(s, r)'
    <2>1. Rs(q) \subseteq grants'[s]
        BY <1>3, RootsGranted
    <2> QED BY <1>3, <2>1 DEF Refreshed, OldOf
<1> QED BY <1>4, <1>5, <1>7, <1>8, <1>9 DEF KeptFacts

(* A step of a session that leaves the disk alone leaves the others alone. *)
LEMMA OthersKept ==
    ASSUME TypeOK, KeptFacts, setting' = setting, NEW s \in Session, NEW o \in Session,
           pc'[o] = pc[o], req'[o] = req[o], roots'[o] = roots[o], grants'[o] = grants[o],
           denied'[o] = denied[o], denies'[o] = denies[o], edit'[o] = edit[o],
           lost'[o] = lost[o], exists \subseteq exists', UNCHANGED <<aces, raced>>
    PROVE  PlanOfRequest(o)' /\ DenialsDue(o)' /\ \A r \in roots'[o] \ raced' : Refreshed(o, r)'
<1>1. PlanOfRequest(o) /\ DenialsDue(o) /\ \A r \in roots[o] \ raced : Refreshed(o, r)
    BY DEF KeptFacts
<1>2. PlanOfRequest(o)'
    BY <1>1, FramePlan
<1>3. DenialsDue(o)'
    <2>1. \A d, sid : HasDeny(d, sid) => HasDeny(d, sid)'
        BY DEF HasDeny
    <2> QED BY <1>1, <2>1, FrameDue
<1>4. \A r \in roots'[o] \ raced' : Refreshed(o, r)'
    BY <1>1, FrameRefreshed
<1> QED BY <1>2, <1>3, <1>4

(* A root is granted to its own SID, and only to that.                     *)
LEMMA GrantKept ==
    ASSUME TypeOK, ConfinedFacts, KeptFacts, setting' = setting, NEW s \in Session, Grant(s)
    PROVE  KeptFacts'
<1> DEFINE Match(p) == IF req[s].elevated THEN {p} ELSE Matching(roots[s], p)
           New(p, r) == [ace |-> [path |-> p, sid |-> SidOf(req[s].cwd, r), type |-> "allow"],
                         list |-> List(p)]
<1>1. PICK p \in grants[s] :
          /\ grants' = [grants EXCEPT ![s] = @ \ {p}]
          /\ IF p \notin exists \/ Match(p) = {} THEN UNCHANGED edit
             ELSE \E r \in Match(p) :
                    LET sid == SidOf(req[s].cwd, r) IN
                    Fetch(s, p, sid, "allow", HasGrant(p, sid))
    BY DEF Grant
<1>2. /\ pc[s] = "grant" /\ edit[s] = None
      /\ UNCHANGED <<exists, aces, pc, req, roots, denied, denies, lost, raced, begun>>
    BY DEF Grant, disk, plan
<1>3. p \in Path /\ req[s].cwd \in Path /\ roots[s] \subseteq Path /\ PlanOfRequest(s)
    BY DEF TypeOK, Request, KeptFacts
<1>4. ASSUME NEW r \in Match(p) PROVE r = p
    <2>1. CASE req[s].elevated
        BY <1>4, <2>1
    <2>2. CASE ~req[s].elevated
        <3>1. r \in roots[s] \cap Up[p] /\ \A o \in roots[s] \cap Up[p] : o \in Up[r]
            BY <1>4, <2>2 DEF Matching
        <3>2. p \in roots[s]
            BY <3>1, <1>3 DEF PlanOfRequest
        <3>3. p \in Up[r]
            BY <1>3, <3>1, <3>2, UpSelf
        <3> QED BY <1>3, <3>1, <3>3, UpAntisymmetric
    <2> QED BY <2>1, <2>2
<1>5. EntriesOfRoots'
    <2>1. \A o \in Session :
              edit'[o] # None => \A a \in edit'[o].list \cup {edit'[o].ace} :
                  OfItsRoot(a) /\ a.path = edit'[o].ace.path
        <3>1. CASE UNCHANGED edit
            BY <3>1 DEF KeptFacts, EntriesOfRoots
        <3>2. CASE Fetch(s, p, SidOf(req[s].cwd, p), "allow", HasGrant(p, SidOf(req[s].cwd, p)))
            <4>1. HasGrant(p, SidOf(req[s].cwd, p)) \in BOOLEAN
                BY DEF HasGrant
            <4>2. OfItsRoot([path |-> p, sid |-> SidOf(req[s].cwd, p), type |-> "allow"])
                BY <1>3, SidTypes DEF OfItsRoot
            <4> QED BY <3>2, <4>1, <4>2, FetchOfRoots DEF KeptFacts
        <3> QED BY <1>1, <1>4, <3>1, <3>2
    <2> QED BY <1>2, <2>1 DEF KeptFacts, EntriesOfRoots, OfItsRoot
<1>6. ASSUME NEW o \in Session, o # s
      PROVE  PlanOfRequest(o)' /\ DenialsDue(o)' /\ \A r \in roots'[o] \ raced' : Refreshed(o, r)'
    <2>1. grants'[o] = grants[o] /\ edit'[o] = edit[o]
        BY <1>1, <1>6 DEF Fetch, TypeOK
    <2> QED BY <1>2, <2>1, OthersKept
<1>7. PlanOfRequest(s)'
    <2>1. grants'[s] \subseteq grants[s]
        BY <1>1 DEF TypeOK
    <2> QED BY <1>2, <1>3, <2>1 DEF PlanOfRequest, Deniable, WritableRoots
<1>8. DenialsDue(s)'
    <2>1. \A d, sid : HasDeny(d, sid) => HasDeny(d, sid)'
        BY <1>2 DEF HasDeny
    <2>2. DenialsDue(s)
        BY DEF KeptFacts
    <2> QED BY <1>2, <2>1, <2>2, FrameDue
<1>9. ASSUME NEW r \in roots'[s] \ raced' PROVE Refreshed(s, r)'
    <2>1. Refreshed(s, r) /\ GrantOf(s, r)' = GrantOf(s, r)
        BY <1>2, <1>9 DEF KeptFacts, GrantOf
    <2>2. CASE r # p
        <3>1. r \in grants[s] => r \in grants'[s]
            BY <1>1, <2>2 DEF TypeOK
        <3> QED BY <1>2, <2>1, <3>1 DEF Refreshed, OldOf
    <2>3. CASE r = p /\ p \notin exists
        <3>1. OldOf(s, r) \notin aces
            BY <2>3 DEF KeptFacts, EntriesOfRoots, OldOf, GrantOf
        <3> QED BY <1>2, <2>1, <3>1 DEF Refreshed, OldOf
    <2>4. CASE r = p /\ p \in exists
        <3>1. p \in Match(p)
            <4>1. p \in roots[s] /\ p \in Up[p]
                BY <1>2, <1>3, <1>9, <2>4, UpSelf
            <4> QED BY <4>1 DEF Matching
        <3>2. Fetch(s, p, SidOf(req[s].cwd, p), "allow", HasGrant(p, SidOf(req[s].cwd, p)))
            BY <1>1, <1>4, <2>4, <3>1
        <3>3. CASE HasGrant(p, SidOf(req[s].cwd, p))
            BY <1>2, <2>1, <2>4, <3>3 DEF HasGrant, Refreshed, OldOf, GrantOf
        <3>4. CASE ~HasGrant(p, SidOf(req[s].cwd, p))
            <4>1. edit' = [edit EXCEPT ![s] = New(p, p)]
                BY <3>2, <3>4 DEF Fetch
            <4>2. edit'[s] = New(p, p)
                BY <4>1 DEF TypeOK
            <4>3. New(p, p) # None
                <5>1. SidOf(req[s].cwd, p) \in Sid
                    BY <1>3, SidTypes
                <5>2. New(p, p).ace \in Ace
                    BY <1>3, <5>1 DEF Ace, Rights
                <5>3. New(p, p).list \in SUBSET Ace
                    BY DEF List, TypeOK
                <5>4. New(p, p) \in [ace : Ace, list : SUBSET Ace]
                    BY <5>2, <5>3
                <5> QED BY <5>4, TreeConstants, AclConstants
            <4> QED BY <1>2, <2>1, <2>4, <4>2, <4>3 DEF Refreshed, OldOf, GrantOf
        <3> QED BY <3>3, <3>4
    <2> QED BY <2>2, <2>3, <2>4
<1> QED BY <1>5, <1>6, <1>7, <1>8, <1>9 DEF KeptFacts

(* A pair that is taken up is denied at once, or its denial is fetched for.*)
LEMMA DenyKept ==
    ASSUME TypeOK, ConfinedFacts, KeptFacts, Plain(setting), setting' = setting,
           NEW s \in Session, Deny(s)
    PROVE  KeptFacts'
<1> DEFINE New(d, r) == [ace |-> [path |-> d, sid |-> SidOf(req[s].cwd, r), type |-> "deny"],
                         list |-> List(d)]
<1>1. PICK x \in denies[s] :
          /\ exists' = exists \cup Up[x[1]]
          /\ denies' = [denies EXCEPT ![s] = @ \ {x}]
          /\ Fetch(s, x[1], SidOf(req[s].cwd, x[2]), "deny", HasDeny(x[1], SidOf(req[s].cwd, x[2])))
    BY DEF Deny
<1>2. /\ pc[s] \in {"deny", "guard"} /\ edit[s] = None
      /\ UNCHANGED <<aces, pc, req, roots, denied, grants, lost, raced, begun>>
    BY DEF Deny, plan
<1>3. /\ x[1] \in Path /\ x[2] \in Path /\ req[s].cwd \in Path /\ PlanOfRequest(s)
      /\ x = <<x[1], x[2]>>
    BY DEF TypeOK, Request, KeptFacts
<1>4. x[1] \in denied[s] /\ x[2] \in roots[s]
    BY <1>3 DEF PlanOfRequest
<1>5. EntriesOfRoots'
    <2>1. \A o \in Session :
              edit'[o] # None => \A a \in edit'[o].list \cup {edit'[o].ace} :
                  OfItsRoot(a) /\ a.path = edit'[o].ace.path
        <3>1. HasDeny(x[1], SidOf(req[s].cwd, x[2])) \in BOOLEAN
            BY DEF HasDeny
        <3>2. OfItsRoot([path |-> x[1], sid |-> SidOf(req[s].cwd, x[2]), type |-> "deny"])
            BY <1>3, <1>4, SidTypes, DenialBelow DEF OfItsRoot
        <3> QED BY <1>1, <3>1, <3>2, FetchOfRoots DEF KeptFacts
    <2>2. \A p \in exists' : Parent[p] \in exists' \cup {None}
        <3>1. \A p \in Up[x[1]] : Parent[p] \in Up[x[1]] \cup {None}
            BY <1>3, UpClosed DEF Closed
        <3> QED BY <1>1, <3>1 DEF KeptFacts, EntriesOfRoots
    <2> QED BY <1>1, <1>2, <2>1, <2>2 DEF KeptFacts, EntriesOfRoots, OfItsRoot
<1>6. ASSUME NEW o \in Session, o # s
      PROVE  PlanOfRequest(o)' /\ DenialsDue(o)' /\ \A r \in roots'[o] \ raced' : Refreshed(o, r)'
    <2>1. denies'[o] = denies[o] /\ edit'[o] = edit[o] /\ exists \subseteq exists'
        BY <1>1, <1>6 DEF Fetch, TypeOK
    <2> QED BY <1>2, <2>1, OthersKept
<1>7. PlanOfRequest(s)'
    <2>1. denies'[s] \subseteq denies[s]
        BY <1>1 DEF TypeOK
    <2> QED BY <1>2, <1>3, <2>1 DEF PlanOfRequest, Deniable, WritableRoots
<1>8. DenialsDue(s)'
    <2>1. SUFFICES ASSUME NEW d \in denied[s] \ (lost[s] \cup Below(raced)),
                          NEW o \in roots[s] \cap Up[d], NEW r \in roots[s] \cap Up[d],
                          DenialDue(s, d, r)
                   PROVE  DenialDue(s, d, r)'
        BY <1>2 DEF KeptFacts, DenialsDue, Below, Covers
    <2>2. \A sid : HasDeny(d, sid) => HasDeny(d, sid)'
        BY <1>2 DEF HasDeny
    <2>3. CASE d \in exists /\ HasDeny(d, SidOf(req[s].cwd, r))
        BY <1>1, <1>2, <2>2, <2>3 DEF DenialDue, SidOf
    <2>4. CASE <<d, r>> \in denies[s] /\ <<d, r>> # x
        <3>1. <<d, r>> \in denies'[s]
            BY <1>1, <2>4 DEF TypeOK
        <3> QED BY <3>1 DEF DenialDue
    <2>5. CASE <<d, r>> = x
        <3>1. x[1] = d /\ x[2] = r
            BY <2>5
        <3>2. d \in exists'
            BY <1>1, <1>3, <3>1, UpSelf
        <3>3. CASE HasDeny(d, SidOf(req[s].cwd, r))
            BY <1>2, <2>2, <3>2, <3>3 DEF DenialDue, SidOf
        <3>4. CASE ~HasDeny(d, SidOf(req[s].cwd, r))
            <4>1. edit' = [edit EXCEPT ![s] = New(d, r)]
                BY <1>1, <3>1, <3>4 DEF Fetch
            <4>2. edit'[s] = New(d, r)
                BY <4>1 DEF TypeOK
            <4>3. New(d, r) # None
                <5>1. SidOf(req[s].cwd, r) \in Sid
                    BY <1>3, <3>1, SidTypes
                <5>2. New(d, r).ace \in Ace
                    BY <1>3, <3>1, <5>1 DEF Ace, Rights
                <5>3. New(d, r).list \in SUBSET Ace
                    BY DEF List, TypeOK
                <5>4. New(d, r) \in [ace : Ace, list : SUBSET Ace]
                    BY <5>2, <5>3
                <5> QED BY <5>4, TreeConstants, AclConstants
            <4> QED BY <1>2, <3>2, <4>2, <4>3 DEF DenialDue, SidOf
        <3> QED BY <3>3, <3>4
    <2> QED BY <1>2, <2>1, <2>3, <2>4, <2>5 DEF DenialDue
<1>9. ASSUME NEW r \in roots'[s] \ raced' PROVE Refreshed(s, r)'
    <2>1. Refreshed(s, r) /\ GrantOf(s, r)' = GrantOf(s, r)
        BY <1>2, <1>9 DEF KeptFacts, GrantOf
    <2> QED BY <1>2, <2>1 DEF Refreshed, OldOf
<1> QED BY <1>5, <1>6, <1>7, <1>8, <1>9 DEF KeptFacts

(* The last denials are of children of the command's directory, by its own *)
(* root; nothing else is left to be done then.                             *)
LEMMA GuardKept ==
    ASSUME ProfileByHelper, TypeOK, ConfinedFacts, KeptFacts, setting' = setting,
           NEW s \in Session, Guard(s)
    PROVE  KeptFacts'
<1> DEFINE cwd == req[s].cwd
           New == IF cwd \in roots[s] THEN (Codex \cap Children(cwd) \cap exists) \X {cwd} ELSE {}
<1>1. /\ pc[s] = "deny" /\ edit[s] = None /\ denies[s] = {} /\ ~req[s].elevated
      /\ denies' = [denies EXCEPT ![s] = New]
      /\ pc' = [pc EXCEPT ![s] = "guard"]
      /\ UNCHANGED <<exists, aces, req, roots, grants, edit, lost, raced, begun>>
    BY DEF Guard, Go, disk
<1>2. denies'[s] = New /\ pc'[s] = "guard"
    BY <1>1 DEF TypeOK
<1>3. denied' = [denied EXCEPT ![s] = @ \cup {x[1] : x \in New}]
    BY <1>2 DEF Guard
<1>4. denied'[s] = denied[s] \cup {x[1] : x \in New}
    BY <1>3 DEF TypeOK
<1>5. ASSUME NEW x \in New
      PROVE  /\ x[2] = cwd /\ cwd \in roots[s]
             /\ x[1] \in Codex \cap exists /\ x[1] \in Path /\ Parent[x[1]] = cwd
    BY DEF Children
<1>6. cwd \in Path /\ PlanOfRequest(s) /\ DenialsDue(s)
    BY DEF TypeOK, Request, KeptFacts
<1>7. EntriesOfRoots'
    BY <1>1 DEF KeptFacts, EntriesOfRoots, OfItsRoot
<1>8. ASSUME NEW o \in Session, o # s
      PROVE  PlanOfRequest(o)' /\ DenialsDue(o)' /\ \A r \in roots'[o] \ raced' : Refreshed(o, r)'
    <2>1. denies'[o] = denies[o] /\ denied'[o] = denied[o] /\ pc'[o] = pc[o]
        BY <1>1, <1>3, <1>8 DEF TypeOK
    <2> QED BY <1>1, <2>1, OthersKept
<1> HIDE DEF New
<1>9. PlanOfRequest(s)'
    <2>1. ASSUME NEW x \in New PROVE x[1] \in Deniable(req[s])
        <3>1. cwd \in WritableRoots(req[s]) \/ Profile \in WritableRoots(req[s])
            BY <1>5, <2>1 DEF ConfinedFacts, RootsOf
        <3>2. Profile \notin WritableRoots(req[s])
            BY <1>1, <1>6 DEF ProfileByHelper, TypeOK, PlanOfRequest
        <3>3. cwd \in WritableRoots(req[s])
            BY <3>1, <3>2
        <3> QED BY <1>5, <2>1, <3>3, TreeConstants, AclConstants DEF Deniable
    <2>2. denied'[s] \subseteq Deniable(req[s])
        BY <1>4, <1>6, <2>1 DEF PlanOfRequest
    <2>3. ASSUME NEW x \in New PROVE x \in denied'[s] \X roots[s]
        <3>1. x[1] \in denied'[s] /\ x[2] \in roots[s]
            BY <1>4, <1>5
        <3>2. x = <<x[1], x[2]>>
            BY <2>3 DEF New
        <3> QED BY <3>1, <3>2
    <2>4. denies'[s] \subseteq denied'[s] \X roots[s]
        BY <1>2, <2>3
    <2> QED BY <1>1, <1>2, <1>6, <2>2, <2>4 DEF PlanOfRequest, Deniable, WritableRoots
<1>10. DenialsDue(s)'
    <2>1. SUFFICES ASSUME NEW d \in denied'[s] \ (lost[s] \cup Below(raced)),
                          NEW o \in roots[s] \cap Up[d]
                   PROVE  \E r \in roots[s] \cap Up[d] : Covers(r, o, d) /\ DenialDue(s, d, r)'
        BY <1>1 DEF DenialsDue, Below, Covers
    <2>2. CASE d \in denied[s]
        <3>1. PICK r \in roots[s] \cap Up[d] : Covers(r, o, d) /\ DenialDue(s, d, r)
            BY <1>6, <2>1, <2>2 DEF DenialsDue
        <3>2. HasDeny(d, SidOf(cwd, r)) /\ d \in exists
            BY <1>1, <3>1 DEF DenialDue
        <3>3. DenialDue(s, d, r)'
            BY <1>1, <3>2 DEF DenialDue, HasDeny, SidOf
        <3> QED BY <3>1, <3>3
    <2>3. CASE d \notin denied[s]
        <3>1. PICK x \in New : x[1] = d
            BY <1>4, <2>1, <2>3
        <3>2. PICK r \in Path : r = cwd
            BY <1>6
        <3>3. d \in Path /\ Parent[d] = r /\ r \in roots[s] /\ x = <<d, r>>
            BY <1>5, <3>1, <3>2 DEF New
        <3>4. Up[d] = {d} \cup Up[r]
            BY <3>3, UpOfParent, TreeConstants, AclConstants
        <3>5. Covers(r, o, d) /\ r \in Up[d]
            BY <2>1, <3>4, UpSelf DEF Covers
        <3>6. DenialDue(s, d, r)'
            BY <1>2, <3>1, <3>3 DEF DenialDue
        <3> QED BY <3>3, <3>5, <3>6
    <2> QED BY <2>2, <2>3
<1>11. ASSUME NEW r \in roots'[s] \ raced' PROVE Refreshed(s, r)'
    <2>1. Refreshed(s, r) /\ GrantOf(s, r)' = GrantOf(s, r)
        BY <1>1, <1>11 DEF KeptFacts, GrantOf
    <2> QED BY <1>1, <2>1 DEF Refreshed, OldOf
<1> QED BY <1>7, <1>8, <1>9, <1>10, <1>11 DEF KeptFacts

LEMMA PrepareKept ==
    ASSUME TypeOK, KeptFacts, setting' = setting, NEW s \in Session,
           GrantsDone(s) \/ Launch(s)
    PROVE  KeptFacts'
<1>1. /\ UNCHANGED <<exists, aces, req, roots, denied, grants, denies, edit, lost, raced>>
      /\ edit[s] = None /\ pc'[s] \in {"deny", "run"}
      /\ pc[s] = "grant" => grants[s] = {}
      /\ pc'[s] = "run" => denies[s] = {}
      /\ \A o \in Session \ {s} : pc'[o] = pc[o]
    BY DEF GrantsDone, Launch, Go, TypeOK, disk, plan
<1>2. EntriesOfRoots'
    BY <1>1 DEF KeptFacts, EntriesOfRoots, OfItsRoot
<1>3. ASSUME NEW o \in Session, o # s
      PROVE  PlanOfRequest(o)' /\ DenialsDue(o)' /\ \A r \in roots'[o] \ raced' : Refreshed(o, r)'
    BY <1>1, <1>3, OthersKept
<1>4. PlanOfRequest(s)'
    <2>1. PlanOfRequest(s)
        BY DEF KeptFacts
    <2> QED BY <1>1, <2>1 DEF PlanOfRequest, Deniable, WritableRoots
<1>5. DenialsDue(s)'
    <2>1. \A d, sid : HasDeny(d, sid) => HasDeny(d, sid)'
        BY <1>1 DEF HasDeny
    <2>2. DenialsDue(s)
        BY DEF KeptFacts
    <2> QED BY <1>1, <2>1, <2>2, FrameDue
<1>6. ASSUME NEW r \in roots'[s] \ raced' PROVE Refreshed(s, r)'
    <2>1. Refreshed(s, r) /\ GrantOf(s, r)' = GrantOf(s, r)
        BY <1>1, <1>6 DEF KeptFacts, GrantOf
    <2> QED BY <1>1, <2>1 DEF Refreshed, OldOf
<1> QED BY <1>2, <1>3, <1>4, <1>5, <1>6 DEF KeptFacts

LEMMA StopKept ==
    ASSUME TypeOK, KeptFacts, setting' = setting, NEW s \in Session, Stop(s)
    PROVE  KeptFacts'
<1>1. /\ UNCHANGED <<exists, aces, raced>>
      /\ roots'[s] = {} /\ grants'[s] = {} /\ denies'[s] = {} /\ denied'[s] = {}
      /\ edit'[s] = None /\ req'[s] = CHOOSE q \in setting.requests : TRUE
      /\ \A o \in Session \ {s} :
            /\ pc'[o] = pc[o] /\ req'[o] = req[o] /\ roots'[o] = roots[o]
            /\ grants'[o] = grants[o] /\ edit'[o] = edit[o] /\ lost'[o] = lost[o]
            /\ denied'[o] = denied[o] /\ denies'[o] = denies[o]
    <2>1. req' = [req EXCEPT ![s] = CHOOSE q \in setting.requests : TRUE]
        BY DEF Stop
    <2>2. req'[s] = CHOOSE q \in setting.requests : TRUE
        BY <2>1 DEF TypeOK
    <2> QED BY <2>1, <2>2 DEF Stop, Go, TypeOK, disk
<1>2. EntriesOfRoots'
    <2>1. \A o \in Session : edit'[o] # None => edit'[o] = edit[o]
        BY <1>1
    <2> QED BY <1>1, <2>1 DEF KeptFacts, EntriesOfRoots, OfItsRoot
<1>3. ASSUME NEW o \in Session, o # s
      PROVE  PlanOfRequest(o)' /\ DenialsDue(o)' /\ \A r \in roots'[o] \ raced' : Refreshed(o, r)'
    BY <1>1, <1>3, OthersKept
<1>4. PlanOfRequest(s)'
    <2>1. req'[s] \in setting.requests
        BY <1>1, TreeConstants, AclConstants DEF TypeOK
    <2> QED BY <1>1, <2>1 DEF PlanOfRequest
<1>5. DenialsDue(s)' /\ \A r \in roots'[s] \ raced' : Refreshed(s, r)'
    BY <1>1 DEF DenialsDue
<1> QED BY <1>2, <1>3, <1>4, <1>5 DEF KeptFacts

-----------------------------------------------------------------------------
(* A store drops a denial only where it races, or of the SID it grants to: *)
(* that is a denial above or at its root, and there are none.              *)
LEMMA StoreDenials ==
    ASSUME TypeOK, ConfinedFacts, KeptFacts, NEW s \in Session, Store(s),
           NEW d \in exists, d \notin Below(raced'), NEW sid, HasDeny(d, sid)
    PROVE  HasDeny(d, sid)'
<1> DEFINE e == edit[s]
           p == e.ace.path
<1>1. /\ e # None /\ e \in [ace : Ace, list : SUBSET Ace] /\ OfItsRoot(e.ace)
    BY DEF Store, TypeOK, KeptFacts, EntriesOfRoots
<1>2. /\ aces' = (aces \ List(p)) \cup (IF p \in exists THEN NewList(s, e) ELSE {})
      /\ raced' = IF List(p) = e.list THEN raced ELSE raced \cup {p}
    BY DEF Store
<1>3. PICK b \in aces : b.path \in Up[d] /\ b.sid = sid /\ b.type = "deny"
    BY DEF HasDeny
<1>4. b \in Ace /\ OfItsRoot(b) /\ b.path \in Path /\ d \in Path
    BY DEF TypeOK, KeptFacts, EntriesOfRoots, Ace
<1>5. b \in aces'
    <2>1. CASE b.path # p
        BY <1>2, <2>1 DEF List
    <2>2. CASE b.path = p
        <3>1. p \in exists
            BY <1>3, <2>2, ExistsAbove DEF TypeOK, KeptFacts
        <3>2. List(p) = e.list
            <4>1. p \notin raced'
                BY <1>3, <1>4, <2>2 DEF Below, Down
            <4> QED BY <1>2, <4>1
        <3>3. b \in e.list
            BY <2>2, <3>2 DEF List
        <3>4. b.sid # e.ace.sid \/ e.ace.type = "deny"
            <4>1. SUFFICES ASSUME b.sid = e.ace.sid, e.ace.type # "deny" PROVE FALSE
                OBVIOUS
            <4>2. b \notin setting.open
                BY <1>3, OpenIsOthers DEF TypeOK
            <4>3. b.sid \in Capability
                BY <1>3, <4>2 DEF ConfinedFacts, Placed, OfRoot
            <4>4. e.ace \notin setting.open
                BY <4>1, <4>3, OpenIsOthers DEF TypeOK
            <4>5. p = e.ace.sid[2] /\ b.path \notin Up[b.sid[2]]
                BY <1>1, <1>3, <1>4, <4>1, <4>2, <4>4 DEF OfItsRoot
            <4> QED BY <1>4, <2>2, <4>1, <4>5, UpSelf
        <3>5. b \in NewList(s, e)
            BY <3>3, <3>4 DEF NewList
        <3> QED BY <1>2, <3>1, <3>5
    <2> QED BY <2>1, <2>2
<1> QED BY <1>3, <1>5 DEF HasDeny

(* No store brings an earlier grant back but where it races.               *)
LEMMA StoreOld ==
    ASSUME UsableFacts, EntriesOfRoots, NEW s \in Session, Store(s), NEW a \in aces',
           a.type = "old", a.path \notin raced'
    PROVE  a \in aces /\ (a.path = edit[s].ace.path => a.sid # edit[s].ace.sid \/ edit[s].ace.type = "deny")
<1> DEFINE e == edit[s]
           p == e.ace.path
<1>1. e # None /\ e.ace.type # "old"
    BY DEF Store, UsableFacts, UsableSoon
<1>2. /\ aces' = (aces \ List(p)) \cup (IF p \in exists THEN NewList(s, e) ELSE {})
      /\ raced' = IF List(p) = e.list THEN raced ELSE raced \cup {p}
    BY DEF Store
<1>3. CASE a \in aces \ List(p)
    BY <1>3 DEF List
<1>4. CASE a \in NewList(s, e) /\ a \notin aces \ List(p)
    <2>1. a # e.ace
        BY <1>1
    <2>2. a \in e.list /\ (a.sid # e.ace.sid \/ e.ace.type = "deny")
        BY <1>4, <2>1 DEF NewList
    <2>3. CASE List(p) = e.list
        BY <2>2, <2>3 DEF List
    <2>4. CASE List(p) # e.list
        <3>1. p \in raced' /\ a.path = p
            BY <1>1, <1>2, <2>2, <2>4 DEF EntriesOfRoots
        <3> QED BY <2>2, <3>1
    <2> QED BY <2>3, <2>4
<1> QED BY <1>2, <1>3, <1>4

LEMMA StoreKept ==
    ASSUME TypeOK, ConfinedFacts, UsableFacts, KeptFacts, setting' = setting, NEW s \in Session, Store(s)
    PROVE  KeptFacts'
<1> DEFINE e == edit[s]
           p == e.ace.path
<1>1. /\ e # None
      /\ \A a \in e.list \cup {e.ace} : OfItsRoot(a) /\ a.path = p
    BY DEF Store, KeptFacts, EntriesOfRoots
<1>2. /\ aces' = (aces \ List(p)) \cup (IF p \in exists THEN NewList(s, e) ELSE {})
      /\ NewList(s, e) \subseteq e.list \cup {e.ace} /\ e.ace \in NewList(s, e)
      /\ raced \subseteq raced'
      /\ edit' = [edit EXCEPT ![s] = None]
      /\ UNCHANGED <<exists, pc, req, roots, denied, grants, denies, lost, begun>>
    BY DEF Store, NewList, plan
<1>3. edit'[s] = None /\ \A o \in Session \ {s} : edit'[o] = edit[o]
    BY <1>2 DEF TypeOK
<1>4. EntriesOfRoots'
    <2>1. \A a \in aces' : a.path \in exists /\ OfItsRoot(a)
        BY <1>1, <1>2 DEF KeptFacts, EntriesOfRoots
    <2> HIDE DEF e
    <2> QED BY <1>2, <1>3, <2>1 DEF KeptFacts, EntriesOfRoots, OfItsRoot
<1>5. \A d \in exists \ Below(raced') : \A sid : HasDeny(d, sid) => HasDeny(d, sid)'
    BY StoreDenials
<1>6. ASSUME NEW o \in Session, NEW r \in roots[o] \ raced', OldOf(o, r) \in aces'
      PROVE  /\ OldOf(o, r) \in aces
             /\ e.ace # GrantOf(o, r)
    <2>1. /\ OldOf(o, r).type = "old" /\ OldOf(o, r).path = r
          /\ OldOf(o, r).sid = GrantOf(o, r).sid /\ GrantOf(o, r).path = r
          /\ GrantOf(o, r).type = "allow"
        BY DEF OldOf, GrantOf
    <2> QED BY <1>6, <2>1, StoreOld DEF KeptFacts
<1>7. ASSUME NEW o \in Session, o # s
      PROVE  PlanOfRequest(o)' /\ DenialsDue(o)' /\ \A r \in roots'[o] \ raced' : Refreshed(o, r)'
    <2>1. PlanOfRequest(o) /\ DenialsDue(o) /\ \A r \in roots[o] \ raced : Refreshed(o, r)
        BY DEF KeptFacts
    <2>2. PlanOfRequest(o)'
        BY <1>2, <1>3, <1>7, <2>1, FramePlan
    <2>3. DenialsDue(o)'
        BY <1>2, <1>3, <1>5, <1>7, <2>1, FrameDue
    <2>4. \A r \in roots'[o] \ raced' : Refreshed(o, r)'
        BY <1>2, <1>3, <1>6, <1>7, <2>1, FrameRefreshed
    <2> QED BY <2>2, <2>3, <2>4
<1>8. PlanOfRequest(s)'
    <2>1. PlanOfRequest(s)
        BY DEF KeptFacts
    <2> QED BY <1>2, <1>3, <2>1 DEF PlanOfRequest, Deniable, WritableRoots
<1>9. DenialsDue(s)'
    <2>1. Below(raced) \subseteq Below(raced)'
        BY <1>2 DEF Below
    <2>2. SUFFICES ASSUME NEW d \in denied[s] \ (lost[s] \cup Below(raced')),
                          NEW o \in roots[s] \cap Up[d], NEW r \in roots[s] \cap Up[d],
                          DenialDue(s, d, r)
                   PROVE  DenialDue(s, d, r)'
        BY <1>2, <2>1 DEF KeptFacts, DenialsDue, Below, Covers
    <2>3. CASE <<d, r>> \in denies[s]
        BY <1>2, <2>3 DEF DenialDue
    <2>4. CASE d \in exists /\ HasDeny(d, SidOf(req[s].cwd, r))
        <3>1. HasDeny(d, SidOf(req[s].cwd, r))'
            BY <1>2, <1>5, <2>2, <2>4 DEF SidOf
        <3> QED BY <1>2, <2>4, <3>1 DEF DenialDue
    <2>5. CASE /\ d \in exists
               /\ e.ace = [path |-> d, sid |-> SidOf(req[s].cwd, r), type |-> "deny"]
        <3>1. e.ace \in aces' /\ d \in Path
            BY <1>2, <2>5 DEF TypeOK
        <3>2. HasDeny(d, SidOf(req[s].cwd, r))'
            BY <1>2, <2>5, <3>1, UpSelf DEF HasDeny, SidOf
        <3> QED BY <1>2, <2>5, <3>2 DEF DenialDue
    <2> QED BY <2>2, <2>3, <2>4, <2>5 DEF DenialDue
<1>10. ASSUME NEW r \in roots'[s] \ raced' PROVE Refreshed(s, r)'
    <2>1. Refreshed(s, r) /\ GrantOf(s, r)' = GrantOf(s, r) /\ r \in roots[s] \ raced'
        BY <1>2, <1>10 DEF KeptFacts, GrantOf
    <2>2. CASE pc[s] = "grant" /\ r \in grants[s]
        BY <1>2, <2>2 DEF Refreshed, OldOf
    <2>3. CASE e.ace = GrantOf(s, r) \/ OldOf(s, r) \notin aces
        <3>1. OldOf(s, r) \notin aces'
            BY <1>6, <2>1, <2>3
        <3> QED BY <2>1, <3>1 DEF Refreshed, OldOf
    <2> QED BY <2>1, <2>2, <2>3 DEF Refreshed, OldOf
<1> QED BY <1>4, <1>7, <1>8, <1>9, <1>10 DEF KeptFacts

(* A path that is deleted has nothing below it, so that only denials of    *)
(* the path itself go, which its own session cannot delete.                *)
LEMMA DeleteKept ==
    ASSUME TypeOK, ConfinedFacts, UsableFacts, KeptFacts, Plain(setting), setting' = setting,
           NEW s \in Session, NEW p \in Path, Delete(s, p)
    PROVE  KeptFacts'
<1>1. /\ pc[s] = "run" /\ p \in exists /\ Children(p) \cap exists = {} /\ CanDelete(s, p)
      /\ exists' = exists \ {p} /\ aces' = aces \ List(p)
      /\ UNCHANGED <<pc, req, roots, denied, grants, denies, edit, raced, begun>>
    BY DEF Delete, plan
<1>2. \A o \in Session :
          lost'[o] = IF pc[o] = "idle" \/ (o = s /\ MayDelete(Sids(s), p)) THEN lost[o]
                     ELSE lost[o] \cup {p}
    BY DEF Delete
<1>3. EntriesOfRoots'
    <2>1. \A x \in exists' : Parent[x] \in exists' \cup {None}
        BY <1>1 DEF KeptFacts, EntriesOfRoots, Children, TypeOK
    <2>2. \A a \in aces' : a.path \in exists'
        BY <1>1 DEF KeptFacts, EntriesOfRoots, List
    <2> QED BY <1>1, <2>1, <2>2 DEF KeptFacts, EntriesOfRoots, OfItsRoot
<1>4. ASSUME NEW d \in exists, d # p, NEW sid, HasDeny(d, sid)
      PROVE  HasDeny(d, sid)'
    <2>1. PICK b \in aces : b.path \in Up[d] /\ b.sid = sid /\ b.type = "deny"
        BY <1>4 DEF HasDeny
    <2>2. b.path # p
        <3>1. SUFFICES ASSUME p \in Up[d] PROVE FALSE
            BY <2>1
        <3>2. PICK c \in Up[d] : Parent[c] = p
            BY <1>4, <3>1, ChildToward DEF TypeOK
        <3>3. c \in exists /\ c \in Path
            BY <3>2, ExistsAbove, UpSelf DEF TypeOK, KeptFacts
        <3> QED BY <1>1, <3>2, <3>3 DEF Children
    <2>3. b \in aces'
        BY <1>1, <2>2 DEF List
    <2> QED BY <2>1, <2>3 DEF HasDeny
<1>5. ASSUME NEW o \in Session
      PROVE  PlanOfRequest(o)' /\ DenialsDue(o)' /\ \A r \in roots'[o] \ raced' : Refreshed(o, r)'
    <2>1. PlanOfRequest(o) /\ DenialsDue(o) /\ \A r \in roots[o] \ raced : Refreshed(o, r)
        BY DEF KeptFacts
    <2>2. PlanOfRequest(o)'
        BY <1>1, <2>1, FramePlan
    <2>3. DenialsDue(o)'
        <3>1. CASE o # s /\ pc[o] = "idle"
            <4>1. roots[o] = {}
                BY <3>1 DEF UsableFacts, UsableSoon
            <4> QED BY <1>1, <4>1 DEF DenialsDue
        <3>2. CASE o = s \/ pc[o] # "idle"
            <4>1. lost[o] \subseteq lost'[o]
                BY <1>2
            <4>2. ASSUME NEW d \in denied[o] \ (lost'[o] \cup Below(raced)) PROVE d # p
                <5>1. CASE o = s /\ MayDelete(Sids(s), p)
                    <6>1. lost'[o] = lost[o]
                        BY <1>2, <5>1
                    <6>2. SUFFICES ASSUME d = p PROVE FALSE
                        OBVIOUS
                    <6>3. p \in Down(d)
                        BY <6>2, UpSelf DEF Down
                    <6> QED BY <1>1, <4>2, <5>1, <6>1, <6>3, NothingChanged
                <5>2. CASE o # s \/ ~MayDelete(Sids(s), p)
                    BY <1>1, <1>2, <3>2, <4>2, <5>2
                <5> QED BY <5>1, <5>2
            <4>3. Below(raced') = Below(raced)
                BY <1>1
            <4>4. \A d \in denied[o] \ (lost'[o] \cup Below(raced')) :
                      d \in exists => /\ d \in exists'
                                      /\ \A sid : HasDeny(d, sid) => HasDeny(d, sid)'
                BY <1>1, <1>4, <4>2, <4>3
            <4> QED BY <1>1, <2>1, <4>1, <4>4, FrameDue
        <3> QED BY <3>1, <3>2
    <2>4. \A r \in roots'[o] \ raced' : Refreshed(o, r)'
        BY <1>1, <2>1, FrameRefreshed
    <2> QED BY <2>2, <2>3, <2>4
<1> QED BY <1>3, <1>5 DEF KeptFacts

LEMMA CreateKept ==
    ASSUME TypeOK, KeptFacts, setting' = setting, NEW s \in Session, NEW p \in Path, Create(s, p)
    PROVE  KeptFacts'
<1>1. /\ Parent[p] \in exists /\ exists' = exists \cup {p}
      /\ UNCHANGED <<aces, pc, req, roots, denied, grants, denies, edit, lost, raced, begun>>
    BY DEF Create, plan
<1>2. EntriesOfRoots'
    BY <1>1 DEF KeptFacts, EntriesOfRoots, OfItsRoot
<1>3. ASSUME NEW o \in Session
      PROVE  PlanOfRequest(o)' /\ DenialsDue(o)' /\ \A r \in roots'[o] \ raced' : Refreshed(o, r)'
    BY <1>1, OthersKept
<1> QED BY <1>2, <1>3 DEF KeptFacts

LEMMA InitKept ==
    ASSUME Init, Plain(setting)
    PROVE  KeptFacts
<1>1. /\ setting \in Setting /\ setting.requests # {}
      /\ exists = setting.present /\ aces \subseteq setting.open \cup setting.old
    BY TreeConstants, AclConstants DEF Init
<1>2. EntriesOfRoots
    BY <1>1, OpenIsOthers DEF Init, Plain, EntriesOfRoots, OfItsRoot
<1>3. \A s \in Session :
          /\ req[s] \in setting.requests /\ pc[s] = "idle"
          /\ roots[s] = {} /\ grants[s] = {} /\ denies[s] = {} /\ denied[s] = {}
    BY <1>1 DEF Init
<1>4. \A s \in Session : PlanOfRequest(s)
    BY <1>3 DEF PlanOfRequest
<1>5. \A s \in Session : DenialsDue(s) /\ \A r \in roots[s] \ raced : Refreshed(s, r)
    BY <1>3 DEF DenialsDue
<1> QED BY <1>2, <1>4, <1>5 DEF KeptFacts

LEMMA NextKept ==
    ASSUME ProfileByHelper, TypeOK, ConfinedFacts, UsableFacts, KeptFacts, Plain(setting),
           [Next /\ UNCHANGED setting]_vars
    PROVE  KeptFacts' /\ Plain(setting)'
<1>1. setting' = setting
    BY DEF vars
<1>2. CASE UNCHANGED vars
    <2>1. /\ UNCHANGED <<exists, aces, pc, req, roots, denied, grants, denies, edit, lost, raced>>
        BY <1>2 DEF vars
    <2>2. EntriesOfRoots'
        BY <1>1, <2>1 DEF KeptFacts, EntriesOfRoots, OfItsRoot
    <2>3. ASSUME NEW o \in Session
          PROVE  PlanOfRequest(o)' /\ DenialsDue(o)' /\ \A r \in roots'[o] \ raced' : Refreshed(o, r)'
        BY <1>1, <2>1, OthersKept
    <2> QED BY <1>1, <2>2, <2>3 DEF KeptFacts, Plain, Deniable, RootsOf, WritableRoots
<1>3. ASSUME NEW s \in Session,
             \/ Begin(s) \/ Grant(s) \/ GrantsDone(s) \/ Deny(s) \/ Guard(s) \/ Launch(s)
             \/ Store(s) \/ Stop(s)
             \/ \E p \in Path : Create(s, p) \/ Delete(s, p)
      PROVE  KeptFacts'
    <2>1. CASE Begin(s) BY <1>1, <2>1, BeginKept
    <2>2. CASE Grant(s) BY <1>1, <2>2, GrantKept
    <2>3. CASE GrantsDone(s) \/ Launch(s) BY <1>1, <2>3, PrepareKept
    <2>4. CASE Deny(s) BY <1>1, <2>4, DenyKept
    <2>5. CASE Guard(s) BY <1>1, <2>5, GuardKept
    <2>6. CASE Store(s) BY <1>1, <2>6, StoreKept
    <2>7. CASE Stop(s) BY <1>1, <2>7, StopKept
    <2>8. CASE \E p \in Path : Create(s, p) \/ Delete(s, p)
        BY <1>1, <2>8, CreateKept, DeleteKept
    <2> QED BY <1>3, <2>1, <2>2, <2>3, <2>4, <2>5, <2>6, <2>7, <2>8
<1>4. Plain(setting)'
    BY <1>1 DEF Plain, Deniable, RootsOf, WritableRoots
<1> QED BY <1>2, <1>3, <1>4 DEF Next

(* A running command changes nothing at or below a path its session denies,*)
(* but what others opened there to a SID its token holds, as long as the   *)
(* path is not deleted by others or by such an opening, and no edits of    *)
(* entries there or above overlap: in any instance in which no root lies   *)
(* in a denied path, whatever other sessions leave behind or are doing.    *)
THEOREM ProtectedSafety ==
    ASSUME ProfileByHelper
    PROVE  Spec /\ Plain(setting) => []ProtectedKept
<1>1. Init => UsableFacts
    BY InitUsable
<1>2. TypeOK /\ ConfinedFacts /\ UsableFacts /\ [Next /\ UNCHANGED setting]_vars => UsableFacts'
    BY NextUsable
<1>3. Init /\ Plain(setting) => KeptFacts
    BY InitKept
<1>4. TypeOK /\ ConfinedFacts /\ UsableFacts /\ KeptFacts /\ Plain(setting)
      /\ [Next /\ UNCHANGED setting]_vars => KeptFacts' /\ Plain(setting)'
    BY NextKept
<1>5. TypeOK /\ ConfinedFacts /\ KeptFacts /\ Plain(setting) => ProtectedKept
    BY FactsKeep
<1> QED BY <1>1, <1>2, <1>3, <1>4, <1>5, ConfinedInvariant, PTL DEF Spec

=============================================================================
