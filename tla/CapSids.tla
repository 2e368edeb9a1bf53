-------------------------------- MODULE CapSids --------------------------------
(***************************************************************************)
(* The capability SIDs of a home (src/src/cap.rs): one file, cap_sid, maps *)
(* each write root to a random SID.  The setup helper puts an entry for    *)
(* that SID on the root, the capture puts the same SID into the token of   *)
(* the command, and the two only agree because both look it up here.       *)
(*                                                                         *)
(* Every lookup reads the file, adds what is missing and writes the whole  *)
(* file back, and nothing locks it: captures of several processes share a  *)
(* home.  fs::write truncates the file and then writes at offset 0, so     *)
(* that a reader may find it empty, and two writers may leave the end of   *)
(* the longer text behind the shorter one.  What does not parse is thrown  *)
(* away.  The readonly and the old workspace SID are always there, and are *)
(* left out; so is the old format, which has no entries for roots.         *)
(***************************************************************************)
EXTENDS Naturals, FiniteSets

CONSTANTS
    Session,        \* captures, each with its helper; of several processes
    Root,           \* write roots: the command's directory and others
    RootsOf,        \* the write roots of a capture
    MaxSid          \* bound: SIDs drawn

ASSUME CapConstants ==
    /\ IsFiniteSet(Root)
    /\ RootsOf \in [Session -> (SUBSET Root) \ {{}}]
    /\ MaxSid \in Nat

Caps == [Root -> 0..MaxSid]         \* 0: no SID recorded
NoCaps == [r \in Root |-> 0]
Entries(caps) == Cardinality({r \in Root : caps[r] # 0})

VARIABLES
    caps, length,   \* the text at the start of the file; entries up to its end, + 1
    last,           \* SIDs drawn so far
    granted,        \* per root: the SIDs that have an entry on it
    pc, role,       \* per session: its step, and who looks up
    todo, root,     \* roots to be looked up still, and the one being looked up
    mine,           \* the map it is about to write
    token,          \* per session and root: the SID in the token, or 0
    disturbed,      \* history: another session wrote since the start
    sessions        \* the captures of this home: they never change

capFile == <<caps, length>>
capVars == <<caps, length, last, granted, pc, role, todo, root, mine, token, disturbed>>

CapTypeOK ==
    /\ caps \in Caps /\ length \in 0..Cardinality(Root) + 1
    /\ last \in 0..MaxSid
    /\ granted \in [Root -> SUBSET (1..MaxSid)]
    /\ pc \in [Session -> {"idle", "read", "truncate", "write", "run"}]
    /\ role \in [Session -> {"helper", "capture"}]
    /\ todo \in [Session -> SUBSET Root] /\ root \in [Session -> Root]
    /\ mine \in [Session -> Caps] /\ token \in [Session -> Caps]
    /\ disturbed \in [Session -> BOOLEAN] /\ sessions \subseteq Session

\* No file yet, which is read like an empty one.
CapInit ==
    /\ caps = NoCaps /\ length = 0 /\ last = 0
    /\ granted = [r \in Root |-> {}]
    /\ pc = [s \in Session |-> "idle"]
    /\ role = [s \in Session |-> "helper"]
    /\ todo = [s \in Session |-> {}]
    /\ root = [s \in Session |-> CHOOSE r \in RootsOf[s] : TRUE]
    /\ mine = [s \in Session |-> NoCaps]
    /\ token = [s \in Session |-> NoCaps]
    /\ disturbed = [s \in Session |-> FALSE]
    /\ sessions \in SUBSET Session

\* The file is one complete text.
Parses == length = Entries(caps) + 1

Go(s, step) == pc' = [pc EXCEPT ![s] = step]
DisturbOthers(s) == disturbed' = [o \in Session |-> disturbed[o] \/ (o # s /\ pc[o] # "idle")]

Start(s) ==
    /\ s \in sessions /\ pc[s] = "idle"
    /\ Go(s, "read")
    /\ todo' = [todo EXCEPT ![s] = RootsOf[s]]
    /\ \E r \in RootsOf[s] : root' = [root EXCEPT ![s] = r]
    /\ UNCHANGED <<capFile, last, granted, role, mine, token, disturbed>>

(* A lookup returns: the helper puts an entry on the root, the capture     *)
(* keeps the SID for its token; then the next root, or the next role.      *)
Return(s, sid) ==
    LET r == root[s] IN
    LET left == todo[s] \ {r} IN
    /\ mine' = [mine EXCEPT ![s] = NoCaps]
    /\ IF role[s] = "helper"
         THEN granted' = [granted EXCEPT ![r] = @ \cup {sid}] /\ UNCHANGED token
         ELSE token' = [token EXCEPT ![s][r] = sid] /\ UNCHANGED granted
    /\ \/ /\ left # {} /\ Go(s, "read")
          /\ todo' = [todo EXCEPT ![s] = left]
          /\ \E n \in left : root' = [root EXCEPT ![s] = n]
          /\ UNCHANGED role
       \/ /\ left = {} /\ role[s] = "helper" /\ Go(s, "read")
          /\ todo' = [todo EXCEPT ![s] = RootsOf[s]]
          /\ \E n \in RootsOf[s] : root' = [root EXCEPT ![s] = n]
          /\ role' = [role EXCEPT ![s] = "capture"]
       \/ /\ left = {} /\ role[s] = "capture" /\ Go(s, "run")
          /\ todo' = [todo EXCEPT ![s] = {}]
          /\ UNCHANGED <<root, role>>

\* Mutant: the new map has the new root only.
InsertAlone(s, old) ==
    /\ last < MaxSid /\ last' = last + 1
    /\ mine' = [mine EXCEPT ![s] = [NoCaps EXCEPT ![root[s]] = last + 1]]
    /\ Go(s, "truncate")

(* A root without a SID gets a random one, added to what was loaded.       *)
Insert(s, old) ==
    /\ last < MaxSid /\ last' = last + 1
    /\ mine' = [mine EXCEPT ![s] = [old EXCEPT ![root[s]] = last + 1]]
    /\ Go(s, "truncate")

(* load_or_create_cap_sids: what is missing or does not parse is replaced  *)
(* by a new, empty map, which is written first.                            *)
Load(s) ==
    /\ pc[s] = "read"
    /\ \/ /\ Parses /\ caps[root[s]] # 0
          /\ Return(s, caps[root[s]])
          /\ UNCHANGED last
       \/ /\ Parses /\ caps[root[s]] = 0
          /\ Insert(s, caps)
          /\ UNCHANGED <<granted, token, role, todo, root>>
       \/ /\ ~Parses
          /\ mine' = [mine EXCEPT ![s] = NoCaps] /\ Go(s, "truncate")
          /\ UNCHANGED <<last, granted, token, role, todo, root>>
    /\ UNCHANGED <<capFile, disturbed>>

(* persist_caps                                                            *)
Truncate(s) ==
    /\ pc[s] = "truncate"
    /\ caps' = NoCaps /\ length' = 0
    /\ Go(s, "write")
    /\ DisturbOthers(s)
    /\ UNCHANGED <<last, granted, role, todo, root, mine, token>>

WriteCaps(s) ==
    /\ pc[s] = "write"
    /\ caps' = mine[s]
    /\ length' = IF length > Entries(mine[s]) + 1 THEN length ELSE Entries(mine[s]) + 1
    /\ DisturbOthers(s)
    /\ IF mine[s][root[s]] = 0
         THEN Insert(s, mine[s]) /\ UNCHANGED <<granted, token, role, todo, root>>
         ELSE Return(s, mine[s][root[s]]) /\ UNCHANGED last

\* The command ends, or a lookup fails or its process dies at any step.
Stop(s) ==
    /\ pc[s] # "idle"
    /\ Go(s, "idle")
    /\ mine' = [mine EXCEPT ![s] = NoCaps]
    /\ token' = [token EXCEPT ![s] = NoCaps]
    /\ todo' = [todo EXCEPT ![s] = {}]
    /\ role' = [role EXCEPT ![s] = "helper"]
    /\ disturbed' = [disturbed EXCEPT ![s] = FALSE]
    /\ UNCHANGED <<capFile, last, granted, root>>

SessionStep(s) == Load(s) \/ Truncate(s) \/ WriteCaps(s)
CapNext == \E s \in Session : Start(s) \/ SessionStep(s) \/ Stop(s)

----------------------------------------------------------------------------
Running == {s \in Session : pc[s] = "run"}

(* What the proofs need besides.  A SID was drawn for one root, and names  *)
(* that root wherever it is kept: in the file, in a map about to be        *)
(* written, in a token or on the root.                                     *)
Names(sid, r) ==
    \/ caps[r] = sid \/ sid \in granted[r]
    \/ \E s \in Session : mine[s][r] = sid \/ token[s][r] = sid

Drawn == \A sid \in 1..MaxSid, r \in Root : Names(sid, r) => sid <= last
OneRoot == \A sid \in 1..MaxSid, r, q \in Root : Names(sid, r) /\ Names(sid, q) => r = q

(* A session looks up roots of its own, first as the helper.               *)
Lookups(s) ==
    /\ todo[s] \subseteq RootsOf[s]
    /\ pc[s] = "idle" => role[s] = "helper"
    /\ pc[s] \in {"read", "truncate", "write"} => root[s] \in todo[s]
    /\ pc[s] = "run" => role[s] = "capture" /\ todo[s] = {}

\* What a map says of the roots a session is done with has been granted.
Granted(s, done, map) == \A r \in done : map[r] \in granted[r]

(* While nobody disturbs it, a session finds again what it has written.    *)
Steady(s) ==
    LET done == RootsOf[s] \ todo[s] IN
    IF role[s] = "helper"
      THEN /\ pc[s] = "read" /\ done # {} => Parses /\ Granted(s, done, caps)
           /\ pc[s] \in {"truncate", "write"} => Granted(s, done, mine[s])
           /\ pc[s] = "write" => length = 0
      ELSE /\ pc[s] \in {"read", "run"} /\ Granted(s, done, token[s])
           /\ pc[s] = "read" => Parses /\ Granted(s, RootsOf[s], caps)

CapFacts ==
    /\ Drawn /\ OneRoot
    /\ \A s \in Session : Lookups(s)
    /\ \A s \in Session : pc[s] # "idle" /\ ~disturbed[s] => Steady(s)

(* Whatever crashed and racing writers left in the file, a command whose   *)
(* session nobody disturbed has the SID of each of its roots in the token: *)
(* what the helper granted, win.rs looked up by itself, is what the        *)
(* capture looked up.                                                      *)
TokenGranted ==
    \A s \in Running : ~disturbed[s] => \A r \in RootsOf[s] : token[s][r] \in granted[r]

(* Even when they race, no command has a SID that opens a root it was not  *)
(* given ("stale ACLs from earlier extra roots do not expand later         *)
(* workspace sandboxes", src/src/cap.rs:29).                               *)
NoOtherRoot ==
    \A s \in Running : \A r \in Root \ RootsOf[s] :
        \A q \in RootsOf[s] : token[s][q] \notin granted[r]
=============================================================================
