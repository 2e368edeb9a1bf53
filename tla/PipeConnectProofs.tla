--------------------------- MODULE PipeConnectProofs ---------------------------
(***************************************************************************)
(* Proofs about PipeConnect, for any number of sessions, any handle table  *)
(* that has room for their pipes, and any runners and strangers.           *)
(***************************************************************************)
EXTENDS PipeConnect, FiniteSetTheorems, WellFoundedInduction, TLAPS

(* A set of numbers has a least one.                                       *)
LEMMA LeastNumber ==
    ASSUME NEW S \in SUBSET Nat, S # {}
    PROVE  \E h \in S : \A g \in S : h <= g
<1> DEFINE Less == {pair \in Nat \X Nat : pair[1] < pair[2]}
<1>1. IsWellFoundedOn(Less, Nat)
    BY NatLessThanWellFounded DEF OpToRel
<1>2. \E h \in S : \A g \in S : ~(<<g, h>> \in Less)
    <2> HIDE DEF Less
    <2> QED BY <1>1, WFMin
<1>3. \A g, h \in Nat : <<g, h>> \in Less <=> g < h
    OBVIOUS
<1> HIDE DEF Less
<1>4. \E h \in S : \A g \in S : ~(g < h)
    BY <1>2, <1>3
<1> QED BY <1>4

(* The handle table does not run out while a pipe is not created: every    *)
(* open handle stands for a pipe of its own.                               *)
LEMMA TableHasRoom ==
    ASSUME TypeOK, TableFacts, NEW s \in Sessions, NEW p \in Pipes, handle[s][p] = None
    PROVE  NextFree \in Free /\ NextFree \in Handles /\ NextFree # None /\ owner[NextFree] = None
<1> DEFINE Others == (Sessions \X Pipes) \ {<<s, p>>}
<1>1. IsFiniteSet(Sessions \X Pipes) /\ Cardinality(Sessions \X Pipes) = 2 * Cardinality(Sessions)
    <2>1. IsFiniteSet(Pipes) /\ Cardinality(Pipes) = 2
        <3>1. Pipes = {"in"} \cup {"out"}
            BY DEF Pipes
        <3>2. IsFiniteSet({"in"}) /\ Cardinality({"in"}) = 1
            BY FS_Singleton
        <3>3. IsFiniteSet({"in"} \cup {"out"}) /\ Cardinality({"in"} \cup {"out"}) = 1 + 1
            BY <3>2, FS_AddElement
        <3> QED BY <3>1, <3>3
    <2>2. /\ IsFiniteSet(Sessions \X Pipes)
          /\ Cardinality(Sessions \X Pipes) = Cardinality(Sessions) * Cardinality(Pipes)
        BY <2>1, HandlesAssumption, FS_Product
    <2>3. Cardinality(Sessions) \in Nat
        BY HandlesAssumption, FS_CardinalityType
    <2> QED BY <2>1, <2>2, <2>3
<1>2. IsFiniteSet(Others) /\ Cardinality(Others) < Cardinality(Handles)
    <2>1. IsFiniteSet(Others) /\ Cardinality(Others) = 2 * Cardinality(Sessions) - 1
        <3>1. <<s, p>> \in Sessions \X Pipes
            OBVIOUS
        <3> QED BY <1>1, <3>1, FS_RemoveElement
    <2>2. Cardinality(Sessions) \in Nat /\ Cardinality(Handles) \in Nat
        BY HandlesAssumption, FS_CardinalityType
    <2> QED BY <2>1, <2>2, HandlesAssumption
<1>3. Free # {}
    <2>1. SUFFICES ASSUME Free = {} PROVE FALSE
        OBVIOUS
    <2>2. ASSUME NEW h \in Handles PROVE owner[h] \in Others
        <3>1. owner[h] \in Sessions \X Pipes
            BY <2>1 DEF TypeOK, Free
        <3>2. owner[h] # <<s, p>>
            BY HandlesAssumption DEF TableFacts
        <3> QED BY <3>1, <3>2
    <2>3. owner \in [Handles -> Others]
        BY <2>2 DEF TypeOK
    <2>4. \E g, h \in Handles : g # h /\ owner[g] = owner[h]
        <3> HIDE DEF Others
        <3> QED BY <1>2, <2>3, HandlesAssumption, FS_PigeonHole
    <2>5. PICK g \in Handles, h \in Handles : g # h /\ owner[g] = owner[h]
        BY <2>4
    <2>6. PICK o \in Sessions, q \in Pipes : owner[g] = <<o, q>>
        BY <2>2
    <2>7. handle[o][q] = g /\ handle[o][q] = h
        <3>1. owner[g] = <<o, q>> /\ owner[h] = <<o, q>>
            BY <2>5, <2>6
        <3> QED BY <3>1, Zenon DEF TableFacts
    <2> QED BY <2>5, <2>7
<1>4. NextFree \in Free
    BY <1>3, LeastNumber, HandlesAssumption DEF NextFree, Free
<1> QED BY <1>4, HandlesAssumption DEF Free

(* Both pipes of a session find a handle.                                  *)
LEMMA RoomToCreate ==
    ASSUME TypeOK, PipeFacts, NEW s \in Sessions
    PROVE  /\ pc[s] \in {"idle", "create"} => NextFree \in Handles /\ owner[NextFree] = None
           /\ pc[s] = "idle" => handle[s]["in"] = None
           /\ pc[s] = "create" => handle[s]["out"] = None
<1>1. "in" \in Pipes /\ "out" \in Pipes
    BY DEF Pipes
<1>2. /\ pc[s] = "idle" => handle[s]["in"] = None
      /\ pc[s] = "create" => handle[s]["out"] = None
    <2>1. ParentFacts(s)
        BY DEF PipeFacts
    <2>2. pc[s] = "idle" => \A p \in Pipes : handle[s][p] = None
        BY <2>1 DEF ParentFacts
    <2>3. pc[s] = "create" => handle[s]["out"] = None
        BY <2>1 DEF ParentFacts
    <2> QED BY <1>1, <2>2, <2>3
<1>3. TableFacts
    BY DEF PipeFacts
<1> QED BY <1>1, <1>2, <1>3, TableHasRoom

----------------------------------------------------------------------------
(* Every variable keeps its type, one after another.                      *)
LEMMA PlacesTyped ==
    ASSUME TypeOK, PipeFacts, Next, UNCHANGED setting
    PROVE  /\ pc' \in [Sessions -> Places]
           /\ cur' \in [Sessions -> Pipes]
<1> DEFINE Kept == /\ pc' \in [Sessions -> Places]
           /\ cur' \in [Sessions -> Pipes]
<1>0. /\ pc \in [Sessions -> Places]
      /\ cur \in [Sessions -> Pipes] /\ "out" \in Pipes
    BY HandlesAssumption DEF TypeOK, Pipes
<1> USE <1>0 DEF Places, ThreadPlaces, parentVars, threadVars
<1>1. ASSUME NEW s \in Sessions, Parent(s) PROVE Kept
    <2>1. CASE CreateIn(s)
        BY <2>1 DEF CreateIn, Goto
    <2>2. CASE CreateOut(s)
        BY <2>2 DEF CreateOut, Goto
    <2>3. CASE Launch(s)
        BY <2>3 DEF Launch, Goto
    <2>4. CASE StartThread(s)
        BY <2>4 DEF StartThread, Goto
    <2>5. CASE TakeHandle(s)
        BY <2>5 DEF TakeHandle, Goto
    <2>6. CASE Receive(s)
        BY <2>6 DEF Receive, Outcome, Goto
    <2>7. CASE TimeOut(s)
        BY <2>7 DEF TimeOut, Goto
    <2>8. CASE FirstLook(s)
        BY <2>8 DEF FirstLook, Outcome, Goto
    <2>9. CASE Cancel(s)
        BY <2>9 DEF Cancel, GiveUp, Goto
    <2>10. CASE SecondLook(s)
        BY <2>10 DEF SecondLook, Outcome, GiveUp, Goto
    <2>11. CASE Handshake(s)
        BY <2>11 DEF Handshake, Goto
    <2>12. CASE Kill(s)
        BY <2>12 DEF Kill, Goto
    <2>13. CASE Close(s)
        BY <2>13 DEF Close, Goto
    <2> QED BY <1>1, <2>1, <2>2, <2>3, <2>4, <2>5, <2>6, <2>7, <2>8, <2>9, <2>10, <2>11, <2>12,
               <2>13 DEF Parent
<1>2. ASSUME NEW s \in Sessions, NEW p \in Pipes, Thread(s, p) PROVE Kept
    BY <1>2 DEF Thread, Publish, Call, ThreadTo, Send, Unblock, Check, EndThread
<1>3. ASSUME NEW s \in Sessions, Runner(s) PROVE Kept
    BY <1>3 DEF Runner, Opens, RunnerDies
<1>4. ASSUME NEW s \in Sessions, NEW p \in Pipes, Stranger(<<s, p>>) PROVE Kept
    BY <1>4 DEF Stranger
<1>5. CASE UNCHANGED vars
    BY <1>5 DEF vars
<1> QED BY <1>1, <1>2, <1>3, <1>4, <1>5 DEF Next

LEMMA TableTyped ==
    ASSUME TypeOK, PipeFacts, Next, UNCHANGED setting
    PROVE  /\ owner' \in [Handles -> (Sessions \X Pipes) \cup {None}]
           /\ handle' \in [Sessions -> [Pipes -> Handles \cup {None}]]
<1> DEFINE Kept == /\ owner' \in [Handles -> (Sessions \X Pipes) \cup {None}]
           /\ handle' \in [Sessions -> [Pipes -> Handles \cup {None}]]
<1>0. /\ owner \in [Handles -> (Sessions \X Pipes) \cup {None}]
      /\ handle \in [Sessions -> [Pipes -> Handles \cup {None}]]
      /\ "in" \in Pipes /\ "out" \in Pipes
      /\ \A s \in Sessions : pc[s] \in {"idle", "create"} => NextFree \in Handles
    BY RoomToCreate, HandlesAssumption DEF TypeOK, Pipes
<1> USE <1>0 DEF Places, ThreadPlaces, parentVars, threadVars
<1>1. ASSUME NEW s \in Sessions, Parent(s) PROVE Kept
    <2>1. CASE Launch(s) \/ StartThread(s) \/ TakeHandle(s) \/ Receive(s) \/ TimeOut(s) \/
               FirstLook(s) \/ Cancel(s) \/ SecondLook(s) \/ Handshake(s) \/ Kill(s)
        BY <2>1 DEF Launch, Goto, StartThread, TakeHandle, Receive, Outcome, TimeOut, FirstLook,
           Cancel, GiveUp, SecondLook, Handshake, Kill
    <2>2. CASE CreateIn(s)
        BY <2>2 DEF CreateIn, Goto
    <2>3. CASE CreateOut(s)
        BY <2>3 DEF CreateOut, Goto
    <2>4. CASE Close(s)
        BY <2>4 DEF Close, Goto
    <2> QED BY <1>1, <2>1, <2>2, <2>3, <2>4 DEF Parent
<1>2. ASSUME NEW s \in Sessions, NEW p \in Pipes, Thread(s, p) PROVE Kept
    BY <1>2 DEF Thread, Publish, Call, ThreadTo, Send, Unblock, Check, EndThread
<1>3. ASSUME NEW s \in Sessions, Runner(s) PROVE Kept
    BY <1>3 DEF Runner, Opens, RunnerDies
<1>4. ASSUME NEW s \in Sessions, NEW p \in Pipes, Stranger(<<s, p>>) PROVE Kept
    BY <1>4 DEF Stranger
<1>5. CASE UNCHANGED vars
    BY <1>5 DEF vars
<1> QED BY <1>1, <1>2, <1>3, <1>4, <1>5 DEF Next

LEMMA ClientsTyped ==
    ASSUME TypeOK, PipeFacts, Next, UNCHANGED setting
    PROVE  /\ client' \in [Sessions \X Pipes -> {None, "runner", "stranger"}]
           /\ runner' \in [Sessions -> {None, "started", "in", "out", "dead"}]
<1> DEFINE Kept == /\ client' \in [Sessions \X Pipes -> {None, "runner", "stranger"}]
           /\ runner' \in [Sessions -> {None, "started", "in", "out", "dead"}]
<1>0. /\ client \in [Sessions \X Pipes -> {None, "runner", "stranger"}]
      /\ runner \in [Sessions -> {None, "started", "in", "out", "dead"}]
      /\ "in" \in Pipes /\ "out" \in Pipes
    BY HandlesAssumption DEF TypeOK, Pipes
<1> USE <1>0 DEF Places, ThreadPlaces, parentVars, threadVars
<1>1. ASSUME NEW s \in Sessions, Parent(s) PROVE Kept
    <2>1. CASE CreateIn(s) \/ CreateOut(s) \/ StartThread(s) \/ TakeHandle(s) \/ Receive(s) \/
               TimeOut(s) \/ FirstLook(s) \/ Cancel(s) \/ SecondLook(s) \/ Handshake(s) \/
               Close(s)
        BY <2>1 DEF CreateIn, Goto, CreateOut, StartThread, TakeHandle, Receive, Outcome,
           TimeOut, FirstLook, Cancel, GiveUp, SecondLook, Handshake, Close
    <2>2. CASE Launch(s)
        BY <2>2 DEF Launch, Goto
    <2>3. CASE Kill(s)
        BY <2>3 DEF Kill, Goto
    <2> QED BY <1>1, <2>1, <2>2, <2>3 DEF Parent
<1>2. ASSUME NEW s \in Sessions, NEW p \in Pipes, Thread(s, p) PROVE Kept
    BY <1>2 DEF Thread, Publish, Call, ThreadTo, Send, Unblock, Check, EndThread
<1>3. ASSUME NEW s \in Sessions, Runner(s) PROVE Kept
    <2>1. CASE Opens(s, "in", "started", "in")
        BY <2>1 DEF Opens
    <2>2. CASE Opens(s, "out", "in", "out")
        BY <2>2 DEF Opens
    <2>3. CASE RunnerDies(s)
        BY <2>3 DEF RunnerDies
    <2> QED BY <1>3, <2>1, <2>2, <2>3 DEF Runner
<1>4. ASSUME NEW s \in Sessions, NEW p \in Pipes, Stranger(<<s, p>>) PROVE Kept
    BY <1>4 DEF Stranger
<1>5. CASE UNCHANGED vars
    BY <1>5 DEF vars
<1> QED BY <1>1, <1>2, <1>3, <1>4, <1>5 DEF Next

LEMMA ThreadsTyped ==
    ASSUME TypeOK, PipeFacts, Next, UNCHANGED setting
    PROVE  thr' \in [Sessions \X Pipes -> ThreadPlaces]
<1> DEFINE Kept == thr' \in [Sessions \X Pipes -> ThreadPlaces]
<1>0. /\ thr \in [Sessions \X Pipes -> ThreadPlaces]
      /\ \A s \in Sessions : <<s, cur[s]>> \in Sessions \X Pipes
    BY HandlesAssumption DEF TypeOK
<1> USE <1>0 DEF Places, ThreadPlaces, parentVars, threadVars
<1>1. ASSUME NEW s \in Sessions, Parent(s) PROVE Kept
    <2>1. CASE CreateIn(s) \/ CreateOut(s) \/ Launch(s) \/ TakeHandle(s) \/ Receive(s) \/
               TimeOut(s) \/ FirstLook(s) \/ SecondLook(s) \/ Handshake(s) \/ Kill(s) \/ Close(s)
        BY <2>1 DEF CreateIn, Goto, CreateOut, Launch, TakeHandle, Receive, Outcome, TimeOut,
           FirstLook, SecondLook, GiveUp, Handshake, Kill, Close
    <2>2. CASE StartThread(s)
        BY <2>2 DEF StartThread, Goto
    <2>3. CASE Cancel(s)
        BY <2>3 DEF Cancel, GiveUp, Goto
    <2> QED BY <1>1, <2>1, <2>2, <2>3 DEF Parent
<1>2. ASSUME NEW s \in Sessions, NEW p \in Pipes, Thread(s, p) PROVE Kept
    <2>1. CASE Publish(s, p)
        BY <2>1 DEF Publish
    <2>2. CASE Call(s, p)
        BY <2>2 DEF Call, ThreadTo, Send
    <2>3. CASE Unblock(s, p)
        BY <2>3 DEF Unblock, ThreadTo, Send
    <2>4. CASE Check(s, p)
        BY <2>4 DEF Check, ThreadTo, Send
    <2>5. CASE EndThread(s, p)
        BY <2>5 DEF EndThread, ThreadTo
    <2> QED BY <1>2, <2>1, <2>2, <2>3, <2>4, <2>5 DEF Thread
<1>3. ASSUME NEW s \in Sessions, Runner(s) PROVE Kept
    BY <1>3 DEF Runner, Opens, RunnerDies
<1>4. ASSUME NEW s \in Sessions, NEW p \in Pipes, Stranger(<<s, p>>) PROVE Kept
    BY <1>4 DEF Stranger
<1>5. CASE UNCHANGED vars
    BY <1>5 DEF vars
<1> QED BY <1>1, <1>2, <1>3, <1>4, <1>5 DEF Next

LEMMA ThreadKeepsArg ==
    ASSUME arg \in [Sessions \X Pipes -> Handles \cup {None}],
           thr \in [Sessions \X Pipes -> ThreadPlaces], None \notin States,
           \A q \in Sessions \X Pipes : arg[q] = None <=> thr[q] = None,
           NEW o \in Sessions \X Pipes, NEW there \in States, thr[o] # None,
           thr' = [thr EXCEPT ![o] = there], UNCHANGED arg
    PROVE  /\ arg' \in [Sessions \X Pipes -> Handles \cup {None}]
           /\ \A q \in Sessions \X Pipes : arg'[q] = None <=> thr'[q] = None
<1>1. there # None
    OBVIOUS
<1>2. ASSUME NEW q \in Sessions \X Pipes PROVE thr'[q] = IF q = o THEN there ELSE thr[q]
    OBVIOUS
<1>3. ASSUME NEW q \in Sessions \X Pipes PROVE arg'[q] = None <=> thr'[q] = None
    <2>1. CASE q = o
        BY <1>1, <1>2, <2>1
    <2>2. CASE q # o
        BY <1>2, <2>2
    <2> QED BY <2>1, <2>2
<1> QED BY <1>3

LEMMA ArgsTyped ==
    ASSUME TypeOK, PipeFacts, Next, UNCHANGED setting
    PROVE  /\ arg' \in [Sessions \X Pipes -> Handles \cup {None}]
           /\ \A q \in Sessions \X Pipes : arg'[q] = None <=> thr'[q] = None
<1> DEFINE Kept == /\ arg' \in [Sessions \X Pipes -> Handles \cup {None}]
           /\ \A q \in Sessions \X Pipes : arg'[q] = None <=> thr'[q] = None
<1>0. /\ arg \in [Sessions \X Pipes -> Handles \cup {None}]
      /\ thr \in [Sessions \X Pipes -> ThreadPlaces]
      /\ handle \in [Sessions -> [Pipes -> Handles \cup {None}]] /\ cur \in [Sessions -> Pipes]
      /\ \A q \in Sessions \X Pipes : arg[q] = None <=> thr[q] = None
      /\ \A s \in Sessions : <<s, cur[s]>> \in Sessions \X Pipes
      /\ None \notin States
    BY HandlesAssumption DEF TypeOK
<1>6. ASSUME NEW s \in Sessions, pc[s] = "connect" PROVE handle[s][cur[s]] # None
    <2>1. ParentFacts(s)
        BY DEF PipeFacts
    <2>2. \A p \in Pipes : handle[s][p] # None
        BY <1>6, <2>1 DEF ParentFacts
    <2> QED BY <1>0, <2>2
<1>7. ASSUME NEW s \in Sessions, NEW p \in Pipes PROVE <<s, p>> \in Sessions \X Pipes
    OBVIOUS
<1> USE <1>0, <1>6 DEF States, Places, ThreadPlaces, parentVars, threadVars
<1>1. ASSUME NEW s \in Sessions, Parent(s) PROVE Kept
    <2>1. CASE CreateIn(s) \/ CreateOut(s) \/ Launch(s) \/ TakeHandle(s) \/ Receive(s) \/
               TimeOut(s) \/ FirstLook(s) \/ SecondLook(s) \/ Handshake(s) \/ Kill(s) \/ Close(s)
        BY <2>1 DEF CreateIn, Goto, CreateOut, Launch, TakeHandle, Receive, Outcome, TimeOut,
           FirstLook, SecondLook, GiveUp, Handshake, Kill, Close
    <2>2. CASE StartThread(s)
        BY <2>2 DEF StartThread, Goto
    <2>3. CASE Cancel(s)
        <3>1. UNCHANGED arg
            BY <2>3 DEF Cancel
        <3>2. \A q \in Sessions \X Pipes : thr'[q] = None <=> thr[q] = None
            BY <2>3 DEF Cancel
        <3> QED BY <3>1, <3>2
    <2> QED BY <1>1, <2>1, <2>2, <2>3 DEF Parent
<1>2. ASSUME NEW s \in Sessions, NEW p \in Pipes, Thread(s, p) PROVE Kept
    <2>1. CASE Publish(s, p)
        <3>1. UNCHANGED arg
            BY <2>1 DEF Publish
        <3>2. thr[<<s, p>>] # None
            BY <2>1 DEF Publish
        <3>3. PICK there \in States : thr' = [thr EXCEPT ![<<s, p>>] = there]
            BY <2>1 DEF Publish
        <3> QED BY <1>0, <1>7, <3>1, <3>2, <3>3, ThreadKeepsArg, ZenonT(60)
    <2>2. CASE Call(s, p)
        <3>1. UNCHANGED arg
            BY <2>2 DEF Call, ThreadTo, Send
        <3>2. thr[<<s, p>>] # None
            BY <2>2 DEF Call, ThreadTo, Send
        <3>3. PICK there \in States : thr' = [thr EXCEPT ![<<s, p>>] = there]
            BY <2>2 DEF Call, ThreadTo, Send
        <3> QED BY <1>0, <1>7, <3>1, <3>2, <3>3, ThreadKeepsArg, ZenonT(60)
    <2>3. CASE Unblock(s, p)
        <3>1. UNCHANGED arg
            BY <2>3 DEF Unblock, ThreadTo, Send
        <3>2. thr[<<s, p>>] # None
            BY <2>3 DEF Unblock, ThreadTo, Send
        <3>3. PICK there \in States : thr' = [thr EXCEPT ![<<s, p>>] = there]
            BY <2>3 DEF Unblock, ThreadTo, Send
        <3> QED BY <1>0, <1>7, <3>1, <3>2, <3>3, ThreadKeepsArg, ZenonT(60)
    <2>4. CASE Check(s, p)
        <3>1. UNCHANGED arg
            BY <2>4 DEF Check, ThreadTo, Send
        <3>2. thr[<<s, p>>] # None
            BY <2>4 DEF Check, ThreadTo, Send
        <3>3. PICK there \in States : thr' = [thr EXCEPT ![<<s, p>>] = there]
            BY <2>4 DEF Check, ThreadTo, Send
        <3> QED BY <1>0, <1>7, <3>1, <3>2, <3>3, ThreadKeepsArg, ZenonT(60)
    <2>5. CASE EndThread(s, p)
        <3>1. UNCHANGED arg
            BY <2>5 DEF EndThread, ThreadTo
        <3>2. thr[<<s, p>>] # None
            BY <2>5 DEF EndThread, ThreadTo
        <3>3. PICK there \in States : thr' = [thr EXCEPT ![<<s, p>>] = there]
            BY <2>5 DEF EndThread, ThreadTo
        <3> QED BY <1>0, <1>7, <3>1, <3>2, <3>3, ThreadKeepsArg, ZenonT(60)
    <2> QED BY <1>2, <2>1, <2>2, <2>3, <2>4, <2>5 DEF Thread
<1>3. ASSUME NEW s \in Sessions, Runner(s) PROVE Kept
    BY <1>3 DEF Runner, Opens, RunnerDies
<1>4. ASSUME NEW s \in Sessions, NEW p \in Pipes, Stranger(<<s, p>>) PROVE Kept
    BY <1>4 DEF Stranger
<1>5. CASE UNCHANGED vars
    BY <1>5 DEF vars
<1> QED BY <1>1, <1>2, <1>3, <1>4, <1>5 DEF Next

LEMMA UsedTyped ==
    ASSUME TypeOK, PipeFacts, Next, UNCHANGED setting
    PROVE  used' \in [Sessions \X Pipes -> (Sessions \X Pipes) \cup {None}]
<1> DEFINE Kept == used' \in [Sessions \X Pipes -> (Sessions \X Pipes) \cup {None}]
<1>0. /\ used \in [Sessions \X Pipes -> (Sessions \X Pipes) \cup {None}]
      /\ owner \in [Handles -> (Sessions \X Pipes) \cup {None}]
      /\ arg \in [Sessions \X Pipes -> Handles \cup {None}]
      /\ \A q \in Sessions \X Pipes : thr[q] = "published" => arg[q] \in Handles
      /\ \A s \in Sessions : <<s, cur[s]>> \in Sessions \X Pipes
    BY HandlesAssumption DEF TypeOK, States
<1> USE <1>0 DEF Places, ThreadPlaces, parentVars, threadVars
<1>1. ASSUME NEW s \in Sessions, Parent(s) PROVE Kept
    <2>1. CASE CreateIn(s) \/ CreateOut(s) \/ Launch(s) \/ StartThread(s) \/ TakeHandle(s) \/
               Receive(s) \/ TimeOut(s) \/ FirstLook(s) \/ SecondLook(s) \/ Handshake(s) \/
               Kill(s) \/ Close(s)
        BY <2>1 DEF CreateIn, Goto, CreateOut, Launch, StartThread, TakeHandle, Receive, Outcome,
           TimeOut, FirstLook, SecondLook, GiveUp, Handshake, Kill, Close
    <2>2. CASE Cancel(s)
        BY <2>2 DEF Cancel, GiveUp, Goto
    <2> QED BY <1>1, <2>1, <2>2 DEF Parent
<1>2. ASSUME NEW s \in Sessions, NEW p \in Pipes, Thread(s, p) PROVE Kept
    <2>1. CASE Publish(s, p) \/ EndThread(s, p)
        BY <2>1 DEF Publish, EndThread, ThreadTo
    <2>2. CASE Call(s, p)
        BY <2>2 DEF Call, ThreadTo, Send
    <2>3. CASE Unblock(s, p)
        BY <2>3 DEF Unblock, ThreadTo, Send
    <2>4. CASE Check(s, p)
        BY <2>4 DEF Check, ThreadTo, Send
    <2> QED BY <1>2, <2>1, <2>2, <2>3, <2>4 DEF Thread
<1>3. ASSUME NEW s \in Sessions, Runner(s) PROVE Kept
    BY <1>3 DEF Runner, Opens, RunnerDies
<1>4. ASSUME NEW s \in Sessions, NEW p \in Pipes, Stranger(<<s, p>>) PROVE Kept
    BY <1>4 DEF Stranger
<1>5. CASE UNCHANGED vars
    BY <1>5 DEF vars
<1> QED BY <1>1, <1>2, <1>3, <1>4, <1>5 DEF Next

LEMMA ResultsTyped ==
    ASSUME TypeOK, PipeFacts, Next, UNCHANGED setting
    PROVE  /\ res' \in [Sessions \X Pipes -> {None, "ok", "error"}]
           /\ dup' \in [Sessions \X Pipes -> BOOLEAN]
<1> DEFINE Kept == /\ res' \in [Sessions \X Pipes -> {None, "ok", "error"}]
           /\ dup' \in [Sessions \X Pipes -> BOOLEAN]
<1>0. /\ res \in [Sessions \X Pipes -> {None, "ok", "error"}]
      /\ dup \in [Sessions \X Pipes -> BOOLEAN]
      /\ \A s \in Sessions : <<s, cur[s]>> \in Sessions \X Pipes
    BY HandlesAssumption DEF TypeOK
<1> USE <1>0 DEF Places, ThreadPlaces, parentVars, threadVars
<1>1. ASSUME NEW s \in Sessions, Parent(s) PROVE Kept
    <2>1. CASE CreateIn(s) \/ CreateOut(s) \/ Launch(s) \/ StartThread(s) \/ TakeHandle(s) \/
               TimeOut(s) \/ Handshake(s) \/ Kill(s) \/ Close(s)
        BY <2>1 DEF CreateIn, Goto, CreateOut, Launch, StartThread, TakeHandle, TimeOut,
           Handshake, Kill, Close
    <2>2. CASE Receive(s)
        BY <2>2 DEF Receive, Outcome, Goto
    <2>3. CASE FirstLook(s)
        BY <2>3 DEF FirstLook, Outcome, Goto
    <2>4. CASE Cancel(s)
        BY <2>4 DEF Cancel, GiveUp, Goto
    <2>5. CASE SecondLook(s)
        BY <2>5 DEF SecondLook, Outcome, GiveUp, Goto
    <2> QED BY <1>1, <2>1, <2>2, <2>3, <2>4, <2>5 DEF Parent
<1>2. ASSUME NEW s \in Sessions, NEW p \in Pipes, Thread(s, p) PROVE Kept
    <2>1. CASE EndThread(s, p)
        BY <2>1 DEF EndThread, ThreadTo
    <2>2. CASE Publish(s, p)
        BY <2>2 DEF Publish
    <2>3. CASE Call(s, p)
        BY <2>3 DEF Call, ThreadTo, Send
    <2>4. CASE Unblock(s, p)
        BY <2>4 DEF Unblock, ThreadTo, Send
    <2>5. CASE Check(s, p)
        BY <2>5 DEF Check, ThreadTo, Send
    <2> QED BY <1>2, <2>1, <2>2, <2>3, <2>4, <2>5 DEF Thread
<1>3. ASSUME NEW s \in Sessions, Runner(s) PROVE Kept
    BY <1>3 DEF Runner, Opens, RunnerDies
<1>4. ASSUME NEW s \in Sessions, NEW p \in Pipes, Stranger(<<s, p>>) PROVE Kept
    BY <1>4 DEF Stranger
<1>5. CASE UNCHANGED vars
    BY <1>5 DEF vars
<1> QED BY <1>1, <1>2, <1>3, <1>4, <1>5 DEF Next

LEMMA TypesKept ==
    ASSUME TypeOK, PipeFacts, Next, UNCHANGED setting
    PROVE  TypeOK'
<1>1. setting' \in Settings
    BY DEF TypeOK
<1> QED BY <1>1, PlacesTyped, TableTyped, ClientsTyped, ThreadsTyped, ArgsTyped, UsedTyped,
           ResultsTyped DEF TypeOK

----------------------------------------------------------------------------
(* A handle that is created stands for the pipe it was created for.        *)
LEMMA CreateTable ==
    ASSUME owner \in [Handles -> (Sessions \X Pipes) \cup {None}],
           handle \in [Sessions -> [Pipes -> Handles \cup {None}]], TableFacts,
           NEW s \in Sessions, NEW p \in Pipes, NEW n \in Handles, owner[n] = None,
           handle[s][p] = None,
           owner' = [owner EXCEPT ![n] = <<s, p>>], handle' = [handle EXCEPT ![s][p] = n]
    PROVE  TableFacts'
<1>1. \A h \in Handles : owner'[h] = IF h = n THEN <<s, p>> ELSE owner[h]
    OBVIOUS
<1>2. \A o \in Sessions, q \in Pipes : handle'[o][q] = IF o = s /\ q = p THEN n ELSE handle[o][q]
    OBVIOUS
<1>3. None \notin Sessions \X Pipes /\ None \notin Handles
    BY HandlesAssumption DEF Pipes
<1>4. ASSUME NEW o \in Sessions, NEW q \in Pipes, handle'[o][q] # None
      PROVE  owner'[handle'[o][q]] = <<o, q>>
    <2>1. CASE o = s /\ q = p
        BY <1>1, <1>2, <2>1
    <2>2. CASE ~(o = s /\ q = p)
        <3>1. handle'[o][q] = handle[o][q] /\ handle[o][q] \in Handles
            BY <1>2, <1>4, <2>2
        <3>2. owner[handle[o][q]] = <<o, q>> /\ <<o, q>> \in Sessions \X Pipes
            BY <1>4, <3>1 DEF TableFacts
        <3> QED BY <1>1, <1>3, <3>1, <3>2
    <2> QED BY <2>1, <2>2
<1>5. ASSUME NEW h \in Handles, NEW o \in Sessions, NEW q \in Pipes, owner'[h] = <<o, q>>
      PROVE  handle'[o][q] = h
    BY <1>1, <1>2, <1>3, <1>5 DEF TableFacts
<1> QED BY <1>4, <1>5 DEF TableFacts

(* The handle table and what the parents hold stay the same. *)
LEMMA TableKept ==
    ASSUME TypeOK, PipeFacts, Next, UNCHANGED setting
    PROVE  TableFacts'
<1>0. /\ owner \in [Handles -> (Sessions \X Pipes) \cup {None}]
      /\ handle \in [Sessions -> [Pipes -> Handles \cup {None}]]
      /\ TableFacts
      /\ "in" \in Pipes /\ "out" \in Pipes
      /\ None \notin Handles /\ None \notin Sessions \X Pipes
    BY HandlesAssumption DEF TypeOK, Pipes, PipeFacts
<1> USE <1>0 DEF TableFacts, Places, ThreadPlaces, parentVars, threadVars
<1>1. ASSUME NEW s \in Sessions, Parent(s) PROVE TableFacts'
    <2>1. CASE Launch(s) \/ StartThread(s) \/ TakeHandle(s) \/ Receive(s) \/ TimeOut(s) \/
               FirstLook(s) \/ Cancel(s) \/ SecondLook(s) \/ Handshake(s) \/ Kill(s)
        BY <2>1 DEF Launch, Goto, StartThread, TakeHandle, Receive, Outcome, TimeOut, FirstLook,
           Cancel, GiveUp, SecondLook, Handshake, Kill
    <2>2. CASE CreateIn(s)
        <3>1. pc[s] = "idle"
            BY <2>2 DEF CreateIn
        <3> HIDE DEF TableFacts
        <3>2. CASE UNCHANGED <<owner, handle>>
            BY <3>2 DEF TableFacts
        <3> QED BY <2>2, <3>1, <3>2, RoomToCreate, CreateTable DEF CreateIn
    <2>3. CASE CreateOut(s)
        <3>1. pc[s] = "create"
            BY <2>3 DEF CreateOut
        <3> HIDE DEF TableFacts
        <3> QED BY <2>3, <3>1, RoomToCreate, CreateTable DEF CreateOut
    <2>4. CASE Close(s)
        <3>1. \A h \in Handles : owner'[h] =
                  IF \E p \in Pipes : handle[s][p] = h THEN None ELSE owner[h]
            BY <2>4 DEF Close
        <3>2. \A o \in Sessions, q \in Pipes : handle'[o][q] = IF o = s THEN None ELSE handle[o][q]
            BY <2>4 DEF Close
        <3>3. ASSUME NEW o \in Sessions, NEW q \in Pipes, handle'[o][q] # None
              PROVE  owner'[handle'[o][q]] = <<o, q>>
            BY <3>1, <3>2, <3>3
        <3>4. ASSUME NEW h \in Handles, NEW o \in Sessions, NEW q \in Pipes, owner'[h] = <<o, q>>
              PROVE  handle'[o][q] = h
            <4>1. <<o, q>> \in Sessions \X Pipes
                OBVIOUS
            <4>2. owner[h] = <<o, q>> /\ ~\E p \in Pipes : handle[s][p] = h
                BY <3>1, <3>4, <4>1
            <4>3. handle[o][q] = h /\ o # s
                BY <4>2
            <4> QED BY <3>2, <4>3
        <3> QED BY <3>3, <3>4
    <2> QED BY <1>1, <2>1, <2>2, <2>3, <2>4 DEF Parent
<1>2. ASSUME NEW s \in Sessions, NEW p \in Pipes, Thread(s, p) PROVE TableFacts'
    BY <1>2 DEF Thread, Publish, Call, ThreadTo, Send, Unblock, Check, EndThread
<1>3. ASSUME NEW s \in Sessions, Runner(s) PROVE TableFacts'
    BY <1>3 DEF Runner, Opens, RunnerDies
<1>4. ASSUME NEW s \in Sessions, NEW p \in Pipes, Stranger(<<s, p>>) PROVE TableFacts'
    BY <1>4 DEF Stranger
<1>5. CASE UNCHANGED vars
    BY <1>5 DEF vars
<1> QED BY <1>1, <1>2, <1>3, <1>4, <1>5 DEF Next

----------------------------------------------------------------------------
(* What a parent has made and what its runner has done go with its step. *)
LEMMA HandlesByStep ==
    ASSUME TypeOK, PipeFacts, Next, UNCHANGED setting
    PROVE  \A o \in Sessions :
             /\ pc'[o] \in {"idle", "failed"} => \A p \in Pipes : handle'[o][p] = None
             /\ pc'[o] = "create" => handle'[o]["in"] # None /\ handle'[o]["out"] = None
             /\ pc'[o] \notin {"idle", "create", "failed"} => \A p \in Pipes : handle'[o][p] # None
<1> DEFINE Kept == \A o \in Sessions :
             /\ pc'[o] \in {"idle", "failed"} => \A p \in Pipes : handle'[o][p] = None
             /\ pc'[o] = "create" => handle'[o]["in"] # None /\ handle'[o]["out"] = None
             /\ pc'[o] \notin {"idle", "create", "failed"} => \A p \in Pipes : handle'[o][p] # None
<1>0. /\ pc \in [Sessions -> Places]
      /\ handle \in [Sessions -> [Pipes -> Handles \cup {None}]]
      /\ \A o \in Sessions :
           /\ pc[o] \in {"idle", "failed"} => \A p \in Pipes : handle[o][p] = None
           /\ pc[o] = "create" => handle[o]["in"] # None /\ handle[o]["out"] = None
           /\ pc[o] \notin {"idle", "create", "failed"} => \A p \in Pipes : handle[o][p] # None
      /\ Pipes = {"in", "out"} /\ None \notin Handles
      /\ \A s \in Sessions : pc[s] \in {"idle", "create"} => NextFree \in Handles
    BY RoomToCreate, HandlesAssumption, ZenonT(60) DEF TypeOK, PipeFacts, ParentFacts, Pipes
<1> USE <1>0 DEF Places, ThreadPlaces, parentVars, threadVars
<1>1. ASSUME NEW s \in Sessions, Parent(s) PROVE Kept
    <2>1. CASE CreateIn(s)
        BY <2>1 DEF CreateIn, Goto
    <2>2. CASE CreateOut(s)
        BY <2>2 DEF CreateOut, Goto
    <2>3. CASE Launch(s)
        BY <2>3 DEF Launch, Goto
    <2>4. CASE StartThread(s)
        BY <2>4 DEF StartThread, Goto
    <2>5. CASE TakeHandle(s)
        BY <2>5 DEF TakeHandle, Goto
    <2>6. CASE Receive(s)
        BY <2>6 DEF Receive, Outcome, Goto
    <2>7. CASE TimeOut(s)
        BY <2>7 DEF TimeOut, Goto
    <2>8. CASE FirstLook(s)
        BY <2>8 DEF FirstLook, Outcome, Goto
    <2>9. CASE Cancel(s)
        BY <2>9 DEF Cancel, GiveUp, Goto
    <2>10. CASE SecondLook(s)
        BY <2>10 DEF SecondLook, Outcome, GiveUp, Goto
    <2>11. CASE Handshake(s)
        BY <2>11 DEF Handshake, Goto
    <2>12. CASE Kill(s)
        BY <2>12 DEF Kill, Goto
    <2>13. CASE Close(s)
        BY <2>13 DEF Close, Goto
    <2> QED BY <1>1, <2>1, <2>2, <2>3, <2>4, <2>5, <2>6, <2>7, <2>8, <2>9, <2>10, <2>11, <2>12,
               <2>13 DEF Parent
<1>2. ASSUME NEW s \in Sessions, NEW p \in Pipes, Thread(s, p) PROVE Kept
    BY <1>2 DEF Thread, Publish, Call, ThreadTo, Send, Unblock, Check, EndThread
<1>3. ASSUME NEW s \in Sessions, Runner(s) PROVE Kept
    BY <1>3 DEF Runner, Opens, RunnerDies
<1>4. ASSUME NEW s \in Sessions, NEW p \in Pipes, Stranger(<<s, p>>) PROVE Kept
    BY <1>4 DEF Stranger
<1>5. CASE UNCHANGED vars
    BY <1>5 DEF vars
<1> QED BY <1>1, <1>2, <1>3, <1>4, <1>5 DEF Next

LEMMA RunnersByStep ==
    ASSUME TypeOK, PipeFacts, Next, UNCHANGED setting
    PROVE  \A o \in Sessions :
             /\ pc'[o] \in {"idle", "create", "launch"} =>
                   runner'[o] = None /\ \A p \in Pipes : thr'[<<o, p>>] = None
             /\ pc'[o] \in {"close", "failed"} => runner'[o] \in {None, "dead"}
<1> DEFINE Kept == \A o \in Sessions :
             /\ pc'[o] \in {"idle", "create", "launch"} =>
                   runner'[o] = None /\ \A p \in Pipes : thr'[<<o, p>>] = None
             /\ pc'[o] \in {"close", "failed"} => runner'[o] \in {None, "dead"}
<1>0. /\ pc \in [Sessions -> Places]
      /\ runner \in [Sessions -> {None, "started", "in", "out", "dead"}]
      /\ thr \in [Sessions \X Pipes -> ThreadPlaces]
      /\ \A s \in Sessions : <<s, cur[s]>> \in Sessions \X Pipes
      /\ \A o \in Sessions :
           /\ pc[o] \in {"idle", "create", "launch"} =>
                 runner[o] = None /\ \A p \in Pipes : thr[<<o, p>>] = None
           /\ pc[o] \in {"close", "failed"} => runner[o] \in {None, "dead"}
      /\ None \notin States
    BY HandlesAssumption, ZenonT(60) DEF TypeOK, PipeFacts, ParentFacts
<1> USE <1>0 DEF States, Places, ThreadPlaces, parentVars, threadVars
<1>1. ASSUME NEW s \in Sessions, Parent(s) PROVE Kept
    <2>1. CASE CreateIn(s)
        BY <2>1 DEF CreateIn, Goto
    <2>2. CASE CreateOut(s)
        BY <2>2 DEF CreateOut, Goto
    <2>3. CASE Launch(s)
        BY <2>3 DEF Launch, Goto
    <2>4. CASE StartThread(s)
        BY <2>4 DEF StartThread, Goto
    <2>5. CASE TakeHandle(s)
        BY <2>5 DEF TakeHandle, Goto
    <2>6. CASE Receive(s)
        BY <2>6 DEF Receive, Outcome, Goto
    <2>7. CASE TimeOut(s)
        BY <2>7 DEF TimeOut, Goto
    <2>8. CASE FirstLook(s)
        BY <2>8 DEF FirstLook, Outcome, Goto
    <2>9. CASE Cancel(s)
        BY <2>9 DEF Cancel, GiveUp, Goto
    <2>10. CASE SecondLook(s)
        BY <2>10 DEF SecondLook, Outcome, GiveUp, Goto
    <2>11. CASE Handshake(s)
        BY <2>11 DEF Handshake, Goto
    <2>12. CASE Kill(s)
        BY <2>12 DEF Kill, Goto
    <2>13. CASE Close(s)
        BY <2>13 DEF Close, Goto
    <2> QED BY <1>1, <2>1, <2>2, <2>3, <2>4, <2>5, <2>6, <2>7, <2>8, <2>9, <2>10, <2>11, <2>12,
               <2>13 DEF Parent
<1>2. ASSUME NEW s \in Sessions, NEW p \in Pipes, Thread(s, p) PROVE Kept
    <2>1. CASE Publish(s, p)
        BY <2>1 DEF Publish
    <2>2. CASE Call(s, p)
        BY <2>2 DEF Call, ThreadTo, Send
    <2>3. CASE Unblock(s, p)
        BY <2>3 DEF Unblock, ThreadTo, Send
    <2>4. CASE Check(s, p)
        BY <2>4 DEF Check, ThreadTo, Send
    <2>5. CASE EndThread(s, p)
        BY <2>5 DEF EndThread, ThreadTo
    <2> QED BY <1>2, <2>1, <2>2, <2>3, <2>4, <2>5 DEF Thread
<1>3. ASSUME NEW s \in Sessions, Runner(s) PROVE Kept
    <2>1. CASE Opens(s, "in", "started", "in")
        BY <2>1 DEF Opens
    <2>2. CASE Opens(s, "out", "in", "out")
        BY <2>2 DEF Opens
    <2>3. CASE RunnerDies(s)
        BY <2>3 DEF RunnerDies
    <2> QED BY <1>3, <2>1, <2>2, <2>3 DEF Runner
<1>4. ASSUME NEW s \in Sessions, NEW p \in Pipes, Stranger(<<s, p>>) PROVE Kept
    BY <1>4 DEF Stranger
<1>5. CASE UNCHANGED vars
    BY <1>5 DEF vars
<1> QED BY <1>1, <1>2, <1>3, <1>4, <1>5 DEF Next

(* A step of a parent is about its own session, and the pipe it is at. *)
LEMMA ParentFrame ==
    ASSUME TypeOK, NEW s \in Sessions, Parent(s)
    PROVE  /\ \A o \in Sessions \ {s} : pc'[o] = pc[o] /\ cur'[o] = cur[o]
           /\ \A q \in (Sessions \X Pipes) \ {<<s, cur[s]>>} : thr'[q] = thr[q] /\ dup'[q] = dup[q]
<1>0. /\ pc \in [Sessions -> Places]
      /\ cur \in [Sessions -> Pipes]
      /\ thr \in [Sessions \X Pipes -> ThreadPlaces]
      /\ dup \in [Sessions \X Pipes -> BOOLEAN]
    BY HandlesAssumption DEF TypeOK
<1> USE <1>0 DEF Places, ThreadPlaces, threadVars
<1>1. CASE CreateIn(s)
    BY <1>1 DEF CreateIn, Goto
<1>2. CASE CreateOut(s)
    BY <1>2 DEF CreateOut, Goto
<1>3. CASE Launch(s)
    BY <1>3 DEF Launch, Goto
<1>4. CASE StartThread(s)
    BY <1>4 DEF StartThread, Goto
<1>5. CASE TakeHandle(s)
    BY <1>5 DEF TakeHandle, Goto
<1>6. CASE Receive(s)
    BY <1>6 DEF Receive, Outcome, Goto
<1>7. CASE TimeOut(s)
    BY <1>7 DEF TimeOut, Goto
<1>8. CASE FirstLook(s)
    BY <1>8 DEF FirstLook, Outcome, Goto
<1>9. CASE Cancel(s)
    BY <1>9 DEF Cancel, GiveUp, Goto
<1>10. CASE SecondLook(s)
    BY <1>10 DEF SecondLook, Outcome, GiveUp, Goto
<1>11. CASE Handshake(s)
    BY <1>11 DEF Handshake, Goto
<1>12. CASE Kill(s)
    BY <1>12 DEF Kill, Goto
<1>13. CASE Close(s)
    BY <1>13 DEF Close, Goto
<1> QED BY <1>1, <1>2, <1>3, <1>4, <1>5, <1>6, <1>7, <1>8, <1>9, <1>10, <1>11, <1>12, <1>13 DEF
           Parent

(* The thread of that pipe goes with it. *)
LEMMA OwnThread ==
    ASSUME TypeOK, PipeFacts, NEW s \in Sessions, Parent(s)
    PROVE  /\ thr'[<<s, cur[s]>>] = "starting" => pc'[s] = "publish" /\ cur'[s] = cur[s]
           /\ dup'[<<s, cur[s]>>] => pc'[s] \in {"publish", "wait", "late", "cancel", "look"}
                                   /\ cur'[s] = cur[s]
           /\ dup'[<<s, cur[s]>>] => thr'[<<s, cur[s]>>] # "starting"
<1>0. /\ pc \in [Sessions -> Places]
      /\ cur \in [Sessions -> Pipes]
      /\ thr \in [Sessions \X Pipes -> ThreadPlaces]
      /\ dup \in [Sessions \X Pipes -> BOOLEAN]
      /\ <<s, cur[s]>> \in Sessions \X Pipes
      /\ thr[<<s, cur[s]>>] = "starting" => pc[s] = "publish"
      /\ dup[<<s, cur[s]>>] => pc[s] \in {"publish", "wait", "late", "cancel", "look"}
      /\ dup[<<s, cur[s]>>] => thr[<<s, cur[s]>>] # "starting"
    BY HandlesAssumption DEF TypeOK, PipeFacts, ThreadFacts
<1> USE <1>0 DEF Places, ThreadPlaces, threadVars
<1>1. CASE CreateIn(s)
    BY <1>1 DEF CreateIn, Goto
<1>2. CASE CreateOut(s)
    BY <1>2 DEF CreateOut, Goto
<1>3. CASE Launch(s)
    BY <1>3 DEF Launch, Goto
<1>4. CASE StartThread(s)
    BY <1>4 DEF StartThread, Goto
<1>5. CASE TakeHandle(s)
    BY <1>5 DEF TakeHandle, Goto
<1>6. CASE Receive(s)
    BY <1>6 DEF Receive, Outcome, Goto
<1>7. CASE TimeOut(s)
    BY <1>7 DEF TimeOut, Goto
<1>8. CASE FirstLook(s)
    BY <1>8 DEF FirstLook, Outcome, Goto
<1>9. CASE Cancel(s)
    BY <1>9 DEF Cancel, GiveUp, Goto
<1>10. CASE SecondLook(s)
    BY <1>10 DEF SecondLook, Outcome, GiveUp, Goto
<1>11. CASE Handshake(s)
    BY <1>11 DEF Handshake, Goto
<1>12. CASE Kill(s)
    BY <1>12 DEF Kill, Goto
<1>13. CASE Close(s)
    BY <1>13 DEF Close, Goto
<1> QED BY <1>1, <1>2, <1>3, <1>4, <1>5, <1>6, <1>7, <1>8, <1>9, <1>10, <1>11, <1>12, <1>13 DEF
           Parent

(* A step of a connect thread is about that thread, and never begins it. *)
LEMMA ThreadFrame ==
    ASSUME TypeOK, NEW s \in Sessions, NEW p \in Pipes, Thread(s, p)
    PROVE  /\ UNCHANGED <<pc, cur, owner, handle, client, runner, arg>>
           /\ \A q \in (Sessions \X Pipes) \ {<<s, p>>} : thr'[q] = thr[q] /\ dup'[q] = dup[q]
           /\ thr'[<<s, p>>] # "starting"
           /\ dup'[<<s, p>>] => dup[<<s, p>>] \/ thr[<<s, p>>] = "starting"
<1>0. /\ thr \in [Sessions \X Pipes -> ThreadPlaces]
      /\ dup \in [Sessions \X Pipes -> BOOLEAN]
      /\ <<s, p>> \in Sessions \X Pipes
    BY DEF TypeOK
<1> USE <1>0 DEF Places, ThreadPlaces, parentVars
<1>1. CASE Publish(s, p)
    BY <1>1 DEF Publish
<1>2. CASE Call(s, p)
    BY <1>2 DEF Call, ThreadTo, Send
<1>3. CASE Unblock(s, p)
    BY <1>3 DEF Unblock, ThreadTo, Send
<1>4. CASE Check(s, p)
    BY <1>4 DEF Check, ThreadTo, Send
<1>5. CASE EndThread(s, p)
    BY <1>5 DEF EndThread, ThreadTo
<1> QED BY <1>1, <1>2, <1>3, <1>4, <1>5 DEF Thread

LEMMA ThreadsByStep ==
    ASSUME TypeOK, PipeFacts, Next, UNCHANGED setting, NEW o \in Sessions, NEW q \in Pipes
    PROVE  /\ thr'[<<o, q>>] = "starting" => pc'[o] = "publish" /\ cur'[o] = q
           /\ dup'[<<o, q>>] => pc'[o] \in {"publish", "wait", "late", "cancel", "look"} /\ cur'[o] = q
           /\ dup'[<<o, q>>] => thr'[<<o, q>>] # "starting"
<1> DEFINE Kept == /\ thr'[<<o, q>>] = "starting" => pc'[o] = "publish" /\ cur'[o] = q
                   /\ dup'[<<o, q>>] => /\ pc'[o] \in {"publish", "wait", "late", "cancel", "look"}
                                        /\ cur'[o] = q
                   /\ dup'[<<o, q>>] => thr'[<<o, q>>] # "starting"
<1>0. /\ thr[<<o, q>>] = "starting" => pc[o] = "publish" /\ cur[o] = q
      /\ dup[<<o, q>>] => pc[o] \in {"publish", "wait", "late", "cancel", "look"} /\ cur[o] = q
      /\ dup[<<o, q>>] => thr[<<o, q>>] # "starting"
    BY DEF PipeFacts, ThreadFacts
<1>1. ASSUME NEW s \in Sessions, Parent(s) PROVE Kept
    <2>1. CASE o = s /\ q = cur[s]
        BY <1>1, <2>1, OwnThread
    <2>2. CASE o = s /\ q # cur[s]
        <3>1. thr[<<o, q>>] # "starting" /\ ~dup[<<o, q>>]
            BY <1>0, <2>2
        <3>2. thr'[<<o, q>>] = thr[<<o, q>>] /\ dup'[<<o, q>>] = dup[<<o, q>>]
            BY <1>1, <2>2, ParentFrame
        <3> QED BY <3>1, <3>2
    <2>3. CASE o # s
        <3>1. thr'[<<o, q>>] = thr[<<o, q>>] /\ dup'[<<o, q>>] = dup[<<o, q>>]
            BY <1>1, <2>3, ParentFrame
        <3>2. pc'[o] = pc[o] /\ cur'[o] = cur[o]
            BY <1>1, <2>3, ParentFrame
        <3> QED BY <1>0, <3>1, <3>2
    <2> QED BY <2>1, <2>2, <2>3
<1>2. ASSUME NEW s \in Sessions, NEW p \in Pipes, Thread(s, p) PROVE Kept
    <2>1. pc' = pc /\ cur' = cur
        BY <1>2, ThreadFrame
    <2>2. CASE o = s /\ q = p
        <3>1. /\ thr'[<<o, q>>] # "starting"
              /\ dup'[<<o, q>>] => dup[<<o, q>>] \/ thr[<<o, q>>] = "starting"
            BY <1>2, <2>2, ThreadFrame
        <3> QED BY <1>0, <2>1, <3>1
    <2>3. CASE ~(o = s /\ q = p)
        <3>1. thr'[<<o, q>>] = thr[<<o, q>>] /\ dup'[<<o, q>>] = dup[<<o, q>>]
            BY <1>2, <2>3, ThreadFrame
        <3> QED BY <1>0, <2>1, <3>1
    <2> QED BY <2>2, <2>3
<1>3. CASE UNCHANGED <<pc, cur, thr, dup>>
    BY <1>0, <1>3
<1>4. ASSUME NEW s \in Sessions, Runner(s) PROVE Kept
    BY <1>3, <1>4 DEF Runner, Opens, RunnerDies, parentVars, threadVars
<1>5. ASSUME NEW s \in Sessions, NEW p \in Pipes, Stranger(<<s, p>>) PROVE Kept
    BY <1>3, <1>5 DEF Stranger, parentVars, threadVars
<1>6. CASE UNCHANGED vars
    BY <1>3, <1>6 DEF vars
<1>7. Kept
    BY <1>1, <1>2, <1>4, <1>5, <1>6 DEF Next
<1> QED BY <1>7

(* A parent goes on when its own runner has opened the pipe. *)
LEMMA OutcomePeers ==
    ASSUME TypeOK, PipeFacts, NEW s \in Sessions, Outcome(s)
    PROVE  /\ cur'[s] = "out" => client[<<s, "in">>] = "runner"
           /\ pc'[s] \in {"handshake", "ready"} => cur'[s] = "out" /\ client[<<s, "out">>] = "runner"
           /\ UNCHANGED client
<1>0. /\ pc \in [Sessions -> Places]
      /\ cur \in [Sessions -> Pipes] /\ Pipes = {"in", "out"}
      /\ cur[s] = "out" => client[<<s, "in">>] = "runner"
    <2>1. ParentFacts(s)
        BY DEF PipeFacts
    <2>2. cur[s] = "out" => client[<<s, "in">>] = "runner"
        BY <2>1 DEF ParentFacts
    <2>3. Pipes = {"in", "out"}
        BY DEF Pipes
    <2> QED BY <2>2, <2>3 DEF TypeOK
<1>1. res[<<s, cur[s]>>] = "ok" => client[<<s, cur[s]>>] = "runner"
    <2>1. ThreadFacts(s, cur[s])
        BY <1>0 DEF PipeFacts
    <2> QED BY <2>1 DEF ThreadFacts
<1>2. UNCHANGED client
    BY DEF Outcome
<1>3. CASE res[<<s, cur[s]>>] # "ok"
    <2>1. pc'[s] = "kill" /\ cur'[s] = cur[s]
        BY <1>0, <1>3 DEF Outcome, Goto
    <2> QED BY <1>0, <1>2, <2>1
<1>4. CASE res[<<s, cur[s]>>] = "ok" /\ cur[s] = "in"
    <2>1. pc'[s] = "connect" /\ cur'[s] = "out"
        BY <1>0, <1>4 DEF Outcome, Goto
    <2> QED BY <1>1, <1>2, <1>4, <2>1
<1>5. CASE res[<<s, cur[s]>>] = "ok" /\ cur[s] = "out"
    <2>1. pc'[s] = "handshake" /\ cur'[s] = "out"
        BY <1>0, <1>5 DEF Outcome, Goto
    <2> QED BY <1>0, <1>1, <1>2, <1>5, <2>1
<1> QED BY <1>0, <1>3, <1>4, <1>5

LEMMA OwnPeers ==
    ASSUME TypeOK, PipeFacts, NEW s \in Sessions, Parent(s)
    PROVE  /\ cur'[s] = "out" => client[<<s, "in">>] = "runner"
           /\ pc'[s] \in {"handshake", "ready"} => cur'[s] = "out" /\ client[<<s, "out">>] = "runner"
           /\ UNCHANGED client
<1>0. /\ pc \in [Sessions -> Places]
      /\ cur \in [Sessions -> Pipes]
      /\ cur[s] = "out" => client[<<s, "in">>] = "runner"
      /\ pc[s] \in {"handshake", "ready"} => cur[s] = "out" /\ client[<<s, "out">>] = "runner"
    BY HandlesAssumption DEF TypeOK, PipeFacts, ParentFacts
<1> USE <1>0 DEF Places, ThreadPlaces, threadVars
<1>1. CASE CreateIn(s)
    BY <1>1 DEF CreateIn, Goto
<1>2. CASE CreateOut(s)
    BY <1>2 DEF CreateOut, Goto
<1>3. CASE Launch(s)
    BY <1>3 DEF Launch, Goto
<1>4. CASE StartThread(s)
    BY <1>4 DEF StartThread, Goto
<1>5. CASE TakeHandle(s)
    BY <1>5 DEF TakeHandle, Goto
<1>6. CASE Receive(s)
    BY <1>6, OutcomePeers DEF Receive
<1>7. CASE TimeOut(s)
    BY <1>7 DEF TimeOut, Goto
<1>8. CASE FirstLook(s)
    <2>1. CASE Outcome(s)
        BY <2>1, OutcomePeers
    <2>2. CASE ~Outcome(s)
        BY <1>8, <2>2 DEF FirstLook, Goto
    <2> QED BY <2>1, <2>2
<1>9. CASE Cancel(s)
    BY <1>9 DEF Cancel, GiveUp, Goto
<1>10. CASE SecondLook(s)
    <2>1. CASE Outcome(s)
        BY <2>1, OutcomePeers
    <2>2. CASE ~Outcome(s)
        BY <1>10, <2>2 DEF SecondLook, GiveUp, Goto
    <2> QED BY <2>1, <2>2
<1>11. CASE Handshake(s)
    BY <1>11 DEF Handshake, Goto
<1>12. CASE Kill(s)
    BY <1>12 DEF Kill, Goto
<1>13. CASE Close(s)
    BY <1>13 DEF Close, Goto
<1> QED BY <1>1, <1>2, <1>3, <1>4, <1>5, <1>6, <1>7, <1>8, <1>9, <1>10, <1>11, <1>12, <1>13 DEF
           Parent

(* Whoever has opened a pipe has opened it for good. *)
LEMMA ClientsStay ==
    ASSUME TypeOK, NEW s \in Sessions, Runner(s) \/ \E p \in Pipes : Stranger(<<s, p>>)
    PROVE  /\ UNCHANGED <<pc, cur>>
           /\ \A q \in Sessions \X Pipes : client[q] = "runner" => client'[q] = "runner"
<1>0. client \in [Sessions \X Pipes -> {None, "runner", "stranger"}] /\ None # "runner"
    BY HandlesAssumption DEF TypeOK, States
<1> USE <1>0 DEF Places, ThreadPlaces, parentVars
<1>1. CASE RunnerDies(s)
    BY <1>1 DEF RunnerDies
<1>2. CASE Opens(s, "in", "started", "in")
    BY <1>2 DEF Opens
<1>3. CASE Opens(s, "out", "in", "out")
    BY <1>3 DEF Opens
<1>4. ASSUME NEW p \in Pipes, Stranger(<<s, p>>)
      PROVE  /\ UNCHANGED <<pc, cur>>
             /\ \A q \in Sessions \X Pipes : client[q] = "runner" => client'[q] = "runner"
    BY <1>4 DEF Stranger
<1> QED BY <1>1, <1>2, <1>3, <1>4 DEF Runner

LEMMA PeersByStep ==
    ASSUME TypeOK, PipeFacts, Next, UNCHANGED setting, NEW o \in Sessions
    PROVE  /\ cur'[o] = "out" => client'[<<o, "in">>] = "runner"
           /\ pc'[o] \in {"handshake", "ready"} => cur'[o] = "out" /\ client'[<<o, "out">>] = "runner"
<1> DEFINE Kept == /\ cur'[o] = "out" => client'[<<o, "in">>] = "runner"
                   /\ pc'[o] \in {"handshake", "ready"} =>
                          cur'[o] = "out" /\ client'[<<o, "out">>] = "runner"
<1>0. /\ cur[o] = "out" => client[<<o, "in">>] = "runner"
      /\ pc[o] \in {"handshake", "ready"} => cur[o] = "out" /\ client[<<o, "out">>] = "runner"
    BY DEF PipeFacts, ParentFacts
<1>1. ASSUME NEW s \in Sessions, Parent(s) PROVE Kept
    <2>1. UNCHANGED client
        BY <1>1, OwnPeers
    <2>2. CASE o = s
        BY <1>1, <2>1, <2>2, OwnPeers
    <2>3. CASE o # s
        <3>1. pc'[o] = pc[o] /\ cur'[o] = cur[o]
            BY <1>1, <2>3, ParentFrame
        <3> QED BY <1>0, <2>1, <3>1
    <2> QED BY <2>2, <2>3
<1>2. CASE /\ UNCHANGED <<pc, cur>>
           /\ \A q \in Sessions \X Pipes : client[q] = "runner" => client'[q] = "runner"
    <2>1. <<o, "in">> \in Sessions \X Pipes /\ <<o, "out">> \in Sessions \X Pipes
        BY DEF Pipes
    <2> QED BY <1>0, <1>2, <2>1
<1>3. ASSUME NEW s \in Sessions, NEW p \in Pipes, Thread(s, p) PROVE Kept
    BY <1>2, <1>3, ThreadFrame
<1>4. ASSUME NEW s \in Sessions, Runner(s) PROVE Kept
    BY <1>2, <1>4, ClientsStay
<1>5. ASSUME NEW s \in Sessions, NEW p \in Pipes, Stranger(<<s, p>>) PROVE Kept
    BY <1>2, <1>5, ClientsStay
<1>6. CASE UNCHANGED vars
    BY <1>2, <1>6 DEF vars
<1>7. Kept
    BY <1>1, <1>3, <1>4, <1>5, <1>6 DEF Next
<1> QED BY <1>7

(* The number it was given stays its own until the handle is closed. *)
LEMMA ArgsByStep ==
    ASSUME TypeOK, PipeFacts, Next, UNCHANGED setting
    PROVE  \A o \in Sessions, q \in Pipes :
               arg'[<<o, q>>] # None => handle'[o][q] \in {arg'[<<o, q>>], None}
<1> DEFINE Kept == \A o \in Sessions, q \in Pipes :
               arg'[<<o, q>>] # None => handle'[o][q] \in {arg'[<<o, q>>], None}
<1>0. /\ handle \in [Sessions -> [Pipes -> Handles \cup {None}]]
      /\ arg \in [Sessions \X Pipes -> Handles \cup {None}]
      /\ \A o \in Sessions, q \in Pipes : arg[<<o, q>>] # None => handle[o][q] \in {arg[<<o, q>>], None}
      /\ \A s \in Sessions : <<s, cur[s]>> \in Sessions \X Pipes
      /\ \A o \in Sessions, q \in Pipes : pc[o] \in {"idle", "create"} => arg[<<o, q>>] = None
    <2>1. ASSUME NEW o \in Sessions, NEW q \in Pipes, pc[o] \in {"idle", "create"}
          PROVE  arg[<<o, q>>] = None
        <3>1. ParentFacts(o)
            BY DEF PipeFacts
        <3>2. thr[<<o, q>>] = None
            BY <2>1, <3>1 DEF ParentFacts
        <3> QED BY <3>2 DEF TypeOK
    <2> QED BY <2>1 DEF TypeOK, PipeFacts, ThreadFacts
<1> USE <1>0 DEF Places, ThreadPlaces, parentVars, threadVars
<1>1. ASSUME NEW s \in Sessions, Parent(s) PROVE Kept
    <2>1. CASE Launch(s) \/ TakeHandle(s) \/ Receive(s) \/ TimeOut(s) \/ FirstLook(s) \/
               Cancel(s) \/ SecondLook(s) \/ Handshake(s) \/ Kill(s)
        BY <2>1 DEF Launch, Goto, TakeHandle, Receive, Outcome, TimeOut, FirstLook, Cancel,
           GiveUp, SecondLook, Handshake, Kill
    <2>2. CASE CreateIn(s)
        BY <2>2 DEF CreateIn, Goto
    <2>3. CASE CreateOut(s)
        BY <2>3 DEF CreateOut, Goto
    <2>4. CASE StartThread(s)
        BY <2>4 DEF StartThread, Goto
    <2>5. CASE Close(s)
        BY <2>5 DEF Close, Goto
    <2> QED BY <1>1, <2>1, <2>2, <2>3, <2>4, <2>5 DEF Parent
<1>2. ASSUME NEW s \in Sessions, NEW p \in Pipes, Thread(s, p) PROVE Kept
    BY <1>2 DEF Thread, Publish, Call, ThreadTo, Send, Unblock, Check, EndThread
<1>3. ASSUME NEW s \in Sessions, Runner(s) PROVE Kept
    BY <1>3 DEF Runner, Opens, RunnerDies
<1>4. ASSUME NEW s \in Sessions, NEW p \in Pipes, Stranger(<<s, p>>) PROVE Kept
    BY <1>4 DEF Stranger
<1>5. CASE UNCHANGED vars
    BY <1>5 DEF vars
<1> QED BY <1>1, <1>2, <1>3, <1>4, <1>5 DEF Next

(* A handle that stands for a pipe of the session stands for the one the    *)
(* thread was given it for.                                                 *)
LEMMA OwnPipe ==
    ASSUME TypeOK, PipeFacts, NEW s \in Sessions, NEW p \in Pipes, NEW q \in Pipes,
           thr[<<s, p>>] = "connected", owner[arg[<<s, p>>]] = <<s, q>>
    PROVE  q = p
<1>1. arg[<<s, p>>] \in Handles /\ None \notin Handles /\ Pipes = {"in", "out"}
    BY HandlesAssumption DEF TypeOK, States, Pipes
<1>2. handle[s][q] = arg[<<s, p>>]
    BY <1>1 DEF PipeFacts, TableFacts
<1>3. handle[s][p] \in {arg[<<s, p>>], None}
    <2>1. ThreadFacts(s, p)
        BY DEF PipeFacts
    <2> QED BY <1>1, <2>1 DEF ThreadFacts
<1>4. handle[s][p] # None
    <2>1. ParentFacts(s)
        BY DEF PipeFacts
    <2>2. pc[s] \notin {"idle", "failed"}
        BY <1>1, <1>2, <2>1 DEF ParentFacts
    <2>3. pc[s] # "create"
        BY <2>1, HandlesAssumption DEF ParentFacts, States
    <2> QED BY <2>1, <2>2, <2>3 DEF ParentFacts
<1>5. owner[handle[s][p]] = <<s, p>>
    BY <1>4 DEF PipeFacts, TableFacts
<1> QED BY <1>2, <1>3, <1>4, <1>5

(* A thread reports a pipe that its own runner has opened. *)
LEMMA ResultsTrue ==
    ASSUME TypeOK, PipeFacts, Next, UNCHANGED setting
    PROVE  \A o \in Sessions, q \in Pipes : res'[<<o, q>>] = "ok" => client'[<<o, q>>] = "runner"
<1> DEFINE Kept == \A o \in Sessions, q \in Pipes : res'[<<o, q>>] = "ok" => client'[<<o, q>>] = "runner"
<1>0. /\ res \in [Sessions \X Pipes -> {None, "ok", "error"}]
      /\ client \in [Sessions \X Pipes -> {None, "runner", "stranger"}]
      /\ owner \in [Handles -> (Sessions \X Pipes) \cup {None}]
      /\ \A o \in Sessions, q \in Pipes : res[<<o, q>>] = "ok" => client[<<o, q>>] = "runner"
      /\ \A s \in Sessions : <<s, cur[s]>> \in Sessions \X Pipes
      /\ "in" \in Pipes /\ "out" \in Pipes /\ None \notin States
    BY HandlesAssumption DEF TypeOK, PipeFacts, ThreadFacts, Pipes
<1> USE <1>0 DEF States, Places, ThreadPlaces, parentVars, threadVars
<1>1. ASSUME NEW s \in Sessions, Parent(s) PROVE Kept
    <2>1. CASE CreateIn(s) \/ CreateOut(s) \/ Launch(s) \/ StartThread(s) \/ TakeHandle(s) \/
               Receive(s) \/ TimeOut(s) \/ FirstLook(s) \/ SecondLook(s) \/ Handshake(s) \/
               Kill(s) \/ Close(s)
        BY <2>1 DEF CreateIn, Goto, CreateOut, Launch, StartThread, TakeHandle, Receive, Outcome,
           TimeOut, FirstLook, SecondLook, GiveUp, Handshake, Kill, Close
    <2>2. CASE Cancel(s)
        BY <2>2, SMTT(60) DEF Cancel, GiveUp, Goto
    <2> QED BY <1>1, <2>1, <2>2 DEF Parent
<1>2. ASSUME NEW s \in Sessions, NEW p \in Pipes, Thread(s, p) PROVE Kept
    <2>1. CASE Publish(s, p) \/ EndThread(s, p)
        BY <2>1 DEF Publish, EndThread, ThreadTo
    <2>2. CASE Call(s, p)
        BY <2>2, SMTT(60) DEF Call, ThreadTo, Send
    <2>3. CASE Unblock(s, p)
        BY <2>3, SMTT(60) DEF Unblock, ThreadTo, Send
    <2>4. CASE Check(s, p)
        <3>1. CASE res' = [res EXCEPT ![<<s, p>>] = "error"]
            BY <2>4, <3>1 DEF Check, Send, ThreadTo
        <3>2. CASE /\ res' = [res EXCEPT ![<<s, p>>] = "ok"]
                   /\ owner[arg[<<s, p>>]] # None /\ owner[arg[<<s, p>>]][1] = s
                   /\ client[owner[arg[<<s, p>>]]] = "runner"
            <4>1. thr[<<s, p>>] = "connected" /\ UNCHANGED client
                BY <2>4 DEF Check, Send, ThreadTo
            <4>2. arg[<<s, p>>] \in Handles
                BY <4>1, HandlesAssumption DEF TypeOK
            <4>3. PICK o \in Sessions, q \in Pipes : owner[arg[<<s, p>>]] = <<o, q>>
                BY <3>2, <4>2, SMTT(60)
            <4>4. o = s /\ q = p
                BY <3>2, <4>1, <4>3, OwnPipe
            <4> QED BY <3>2, <4>1, <4>3, <4>4
        <3> QED BY <2>4, <3>1, <3>2 DEF Check, Send
    <2> QED BY <1>2, <2>1, <2>2, <2>3, <2>4 DEF Thread
<1>3. ASSUME NEW s \in Sessions, Runner(s) PROVE Kept
    <2>1. CASE RunnerDies(s)
        BY <2>1 DEF RunnerDies
    <2>2. CASE Opens(s, "in", "started", "in")
        BY <2>2 DEF Opens
    <2>3. CASE Opens(s, "out", "in", "out")
        BY <2>3 DEF Opens
    <2> QED BY <1>3, <2>1, <2>2, <2>3 DEF Runner
<1>4. ASSUME NEW s \in Sessions, NEW p \in Pipes, Stranger(<<s, p>>) PROVE Kept
    BY <1>4 DEF Stranger
<1>5. CASE UNCHANGED vars
    BY <1>5 DEF vars
<1> QED BY <1>1, <1>2, <1>3, <1>4, <1>5 DEF Next

(* A step that leaves the thread of a connection alone: its client and the   *)
(* end of its runner stay, and its handle is held or closed.                 *)
LEMMA FailuresStay ==
    ASSUME NEW s \in Sessions, NEW p \in Pipes, FailureFacts(s, p),
           UNCHANGED <<thr[<<s, p>>], used[<<s, p>>], res[<<s, p>>]>>,
           handle'[s][p] \in {handle[s][p], None} \/ thr[<<s, p>>] = None,
           client[<<s, p>>] # None => client'[<<s, p>>] = client[<<s, p>>],
           runner[s] = "dead" => runner'[s] = "dead",
           pc[s] = "kill" => pc'[s] = "kill" \/ runner'[s] = "dead"
    PROVE  FailureFacts(s, p)'
<1>1. None \notin {"stranger", "connected", "error", "blocked"}
    BY HandlesAssumption DEF States
<1>2. CASE thr[<<s, p>>] = None
    BY <1>1, <1>2 DEF FailureFacts
<1>3. CASE handle'[s][p] \in {handle[s][p], None}
    BY <1>1, <1>3 DEF FailureFacts
<1> QED BY <1>2, <1>3

(* What a step of a parent leaves of its own connections. *)
LEMMA OwnConnections ==
    ASSUME TypeOK, PipeFacts, NEW s \in Sessions, Parent(s), NEW p \in Pipes,
           ~StartThread(s), ~Cancel(s)
    PROVE  /\ UNCHANGED <<client, thr, used, res>>
           /\ handle'[s][p] \in {handle[s][p], None} \/ thr[<<s, p>>] = None
           /\ runner[s] = "dead" => runner'[s] = "dead"
           /\ pc[s] = "kill" => runner'[s] = "dead"
<1>0. /\ handle \in [Sessions -> [Pipes -> Handles \cup {None}]]
      /\ runner \in [Sessions -> {None, "started", "in", "out", "dead"}]
      /\ None # "dead"
      /\ pc[s] \in {"idle", "create", "launch"} => runner[s] = None /\ thr[<<s, p>>] = None
    <2>1. ParentFacts(s)
        BY DEF PipeFacts
    <2> QED BY <2>1, HandlesAssumption DEF TypeOK, ParentFacts, States
<1> USE <1>0 DEF threadVars
<1>1. CASE CreateIn(s)
    BY <1>1 DEF CreateIn
<1>2. CASE CreateOut(s)
    BY <1>2 DEF CreateOut
<1>3. CASE Launch(s)
    BY <1>3 DEF Launch
<1>4. CASE Kill(s)
    BY <1>4 DEF Kill
<1>5. CASE Close(s)
    BY <1>5 DEF Close
<1>6. CASE TakeHandle(s) \/ TimeOut(s) \/ Handshake(s)
    BY <1>6 DEF TakeHandle, TimeOut, Handshake
<1>7. CASE Receive(s) \/ FirstLook(s) \/ SecondLook(s)
    BY <1>7 DEF Receive, FirstLook, SecondLook, Outcome, GiveUp
<1> QED BY <1>1, <1>2, <1>3, <1>4, <1>5, <1>6, <1>7 DEF Parent

(* A step of a parent leaves the connections of the others alone. *)
LEMMA ParentLeaves ==
    ASSUME TypeOK, NEW s \in Sessions, Parent(s), NEW o \in Sessions, o # s, NEW q \in Pipes
    PROVE  /\ UNCHANGED <<thr[<<o, q>>], used[<<o, q>>], res[<<o, q>>], handle[o][q], runner[o], pc[o]>>
           /\ client'[<<o, q>>] = client[<<o, q>>]
<1>0. /\ thr \in [Sessions \X Pipes -> ThreadPlaces]
      /\ used \in [Sessions \X Pipes -> (Sessions \X Pipes) \cup {None}]
      /\ res \in [Sessions \X Pipes -> {None, "ok", "error"}]
      /\ handle \in [Sessions -> [Pipes -> Handles \cup {None}]]
      /\ runner \in [Sessions -> {None, "started", "in", "out", "dead"}]
      /\ pc \in [Sessions -> Places]
      /\ <<o, q>> \in Sessions \X Pipes
    BY DEF TypeOK
<1>1. UNCHANGED client
    BY DEF Parent, CreateIn, CreateOut, Launch, StartThread, TakeHandle, Receive, TimeOut, FirstLook,
           Cancel, SecondLook, Outcome, GiveUp, Handshake, Kill, Close
<1>2. pc'[o] = pc[o]
    BY <1>0 DEF Parent, Goto, CreateIn, CreateOut, Launch, StartThread, TakeHandle, Receive, TimeOut,
           FirstLook, Cancel, SecondLook, Outcome, GiveUp, Handshake, Kill, Close
<1>3. handle'[o][q] = handle[o][q]
    BY <1>0 DEF Parent, CreateIn, CreateOut, Launch, StartThread, TakeHandle, Receive, TimeOut,
           FirstLook, Cancel, SecondLook, Outcome, GiveUp, Handshake, Kill, Close
<1>4. runner'[o] = runner[o]
    BY <1>0 DEF Parent, CreateIn, CreateOut, Launch, StartThread, TakeHandle, Receive, TimeOut,
           FirstLook, Cancel, SecondLook, Outcome, GiveUp, Handshake, Kill, Close
<1>5. UNCHANGED <<thr[<<o, q>>], used[<<o, q>>], res[<<o, q>>]>>
    BY <1>0 DEF Parent, CreateIn, CreateOut, Launch, StartThread, TakeHandle, Receive, TimeOut,
           FirstLook, Cancel, SecondLook, Outcome, GiveUp, Handshake, Kill, Close, threadVars
<1> QED BY <1>1, <1>2, <1>3, <1>4, <1>5

(* A parent starts a thread and cancels it; others leave it alone. *)
LEMMA ParentFailures ==
    ASSUME TypeOK, PipeFacts, NEW s \in Sessions, Parent(s), NEW o \in Sessions, NEW q \in Pipes
    PROVE  FailureFacts(o, q)'
<1>0. FailureFacts(o, q) /\ <<o, q>> \in Sessions \X Pipes /\ None \notin States
    BY HandlesAssumption DEF PipeFacts
<1>1. CASE o # s
    <2>1. /\ UNCHANGED <<thr[<<o, q>>], used[<<o, q>>], res[<<o, q>>], handle[o][q], runner[o], pc[o]>>
          /\ client'[<<o, q>>] = client[<<o, q>>]
        BY <1>0, <1>1, ParentLeaves
    <2> QED BY <1>0, <2>1, FailuresStay
<1>2. CASE o = s /\ ~StartThread(s) /\ ~Cancel(s)
    BY <1>0, <1>2, OwnConnections, FailuresStay
<1>3. CASE o = s /\ StartThread(s)
    <2>1. UNCHANGED <<used, res, handle, client, runner>> /\ pc[s] = "connect"
        BY <1>3 DEF StartThread
    <2>2. thr'[<<s, q>>] = IF q = cur[s] THEN "starting" ELSE thr[<<s, q>>]
        BY <1>0, <1>3 DEF StartThread, TypeOK
    <2>3. "starting" \notin {None, "blocked", "connected"}
        BY <1>0 DEF States
    <2> QED BY <1>0, <1>3, <2>1, <2>2, <2>3 DEF FailureFacts
<1>4. CASE o = s /\ Cancel(s) /\ thr[<<s, cur[s]>>] # "blocked"
    <2>1. UNCHANGED <<thr, used, res, handle, client, runner>> /\ pc[s] = "cancel"
        BY <1>4 DEF Cancel, threadVars
    <2> QED BY <1>0, <1>4, <2>1, FailuresStay
<1>5. CASE o = s /\ Cancel(s) /\ thr[<<s, cur[s]>>] = "blocked"
    <2>1. UNCHANGED <<handle, client, runner>> /\ pc[s] = "cancel" /\ pc'[s] = "kill"
        BY <1>5 DEF Cancel, GiveUp, Goto, TypeOK
    <2>2. /\ thr'[<<s, q>>] = IF q = cur[s] THEN "reporting" ELSE thr[<<s, q>>]
          /\ used'[<<s, q>>] = IF q = cur[s] THEN None ELSE used[<<s, q>>]
          /\ res'[<<s, q>>] = IF q = cur[s] THEN "error" ELSE res[<<s, q>>]
        BY <1>0, <1>5 DEF Cancel, TypeOK
    <2>3. "reporting" \notin {None, "blocked", "connected"}
        BY <1>0 DEF States
    <2> QED BY <1>0, <1>5, <2>1, <2>2, <2>3 DEF FailureFacts
<1> QED BY <1>1, <1>2, <1>3, <1>4, <1>5

(* A thread fails for what has become of its own pipe, as long as its handle *)
(* has not been closed.                                                      *)
LEMMA ThreadFailures ==
    ASSUME TypeOK, PipeFacts, NEW s \in Sessions, NEW p \in Pipes, Thread(s, p)
    PROVE  FailureFacts(s, p)'
<1> DEFINE q == <<s, p>>
<1>0. /\ FailureFacts(s, p) /\ q \in Sessions \X Pipes
      /\ None \notin {"starting", "published", "blocked", "connected", "reporting", "ended", "ok", "error"}
    BY HandlesAssumption DEF PipeFacts, States
<1>1. /\ thr \in [Sessions \X Pipes -> ThreadPlaces]
      /\ used \in [Sessions \X Pipes -> (Sessions \X Pipes) \cup {None}]
      /\ res \in [Sessions \X Pipes -> {None, "ok", "error"}]
      /\ client \in [Sessions \X Pipes -> {None, "runner", "stranger"}]
    BY DEF TypeOK
<1>2. UNCHANGED <<handle, client, runner, pc>>
    BY ThreadFrame
\* The number the thread was given is the pipe of the connection.
<1>3. ASSUME handle[s][p] # None, thr[q] # None PROVE owner[arg[q]] = q /\ Open(q)
    <2>1. arg[q] # None
        BY <1>0, <1>3 DEF TypeOK
    <2>2. handle[s][p] = arg[q]
        <3>1. ThreadFacts(s, p)
            BY DEF PipeFacts
        <3> QED BY <1>3, <2>1, <3>1 DEF ThreadFacts
    <2>3. owner[handle[s][p]] = q
        BY <1>3 DEF PipeFacts, TableFacts
    <2>4. arg[q] \in Handles
        BY <1>0, <2>1 DEF TypeOK
    <2> QED BY <2>2, <2>3, <2>4 DEF Open
<1>9. q # None /\ q[1] = s
    BY HandlesAssumption DEF Pipes
<1>4. CASE Publish(s, p)
    BY <1>0, <1>1, <1>2, <1>4 DEF Publish, FailureFacts
<1>5. CASE Call(s, p)
    <2>0. thr[q] = "published"
        BY <1>5 DEF Call
    <2>1. CASE Send(s, p, "error") /\ (owner[arg[q]] = None \/
                   (client[owner[arg[q]]] # None /\ ~Alive(owner[arg[q]])))
        <3>1. thr'[q] = "reporting" /\ used'[q] = None /\ res'[q] = "error"
            BY <1>0, <1>1, <2>1 DEF Send, ThreadTo
        <3>2. handle[s][p] # None => runner[s] = "dead"
            <4> QED BY <1>0, <1>3, <1>9, <2>0, <2>1 DEF Alive
        <3> QED BY <1>0, <1>2, <3>1, <3>2 DEF FailureFacts
    <2>2. CASE client[owner[arg[q]]] # None /\ ThreadTo(s, p, "connected") /\ UNCHANGED <<used, res>>
        <3>1. thr'[q] = "connected"
            BY <1>0, <1>1, <2>2 DEF ThreadTo
        <3>2. handle[s][p] # None => client[q] # None
            BY <1>0, <1>3, <2>0, <2>2
        <3> QED BY <1>0, <1>2, <2>2, <3>1, <3>2 DEF FailureFacts
    <2>3. CASE /\ owner[arg[q]] # None /\ ThreadTo(s, p, "blocked") /\ UNCHANGED res
               /\ used' = [used EXCEPT ![q] = owner[arg[q]]]
        <3>1. thr'[q] = "blocked" /\ used'[q] = owner[arg[q]]
            BY <1>0, <1>1, <2>3 DEF ThreadTo
        <3>2. handle[s][p] # None => used'[q] = q
            BY <1>0, <1>3, <2>0, <3>1
        <3> QED BY <1>0, <1>2, <2>3, <3>1, <3>2 DEF FailureFacts
    <2> QED BY <1>5, <2>1, <2>2, <2>3 DEF Call
<1>6. CASE Unblock(s, p)
    <2>0. thr[q] = "blocked" /\ (handle[s][p] # None => used[q] = q)
        BY <1>0, <1>6 DEF Unblock, FailureFacts
    <2>1. CASE ~Open(used[q]) /\ Send(s, p, "error")
        <3>1. thr'[q] = "reporting" /\ used'[q] = None
            BY <1>0, <1>1, <2>1 DEF Send, ThreadTo
        <3>2. handle[s][p] = None
            BY <1>0, <1>3, <2>0, <2>1
        <3> QED BY <1>0, <1>2, <3>1, <3>2 DEF FailureFacts
    <2>2. CASE /\ client[used[q]] # None /\ ThreadTo(s, p, "connected") /\ UNCHANGED res
               /\ used' = [used EXCEPT ![q] = None]
        <3>1. thr'[q] = "connected" /\ used'[q] = None
            BY <1>0, <1>1, <2>2 DEF ThreadTo
        <3>2. handle[s][p] # None => client[q] # None
            BY <2>0, <2>2
        <3> QED BY <1>0, <1>2, <2>2, <3>1, <3>2 DEF FailureFacts
    <2> QED BY <1>6, <2>1, <2>2 DEF Unblock
<1>7. CASE Check(s, p)
    <2>0. thr[q] = "connected" /\ thr'[q] = "reporting" /\ used'[q] = None
        BY <1>0, <1>1, <1>7 DEF Check, Send, ThreadTo
    <2>1. res'[q] = IF owner[arg[q]] # None /\ owner[arg[q]][1] = s /\ client[owner[arg[q]]] = "runner"
                    THEN "ok" ELSE "error"
        BY <1>0, <1>1, <1>7 DEF Check, Send
    <2>2. handle[s][p] # None /\ res'[q] = "error" => client[q] = "stranger"
        <3>1. SUFFICES ASSUME handle[s][p] # None, res'[q] = "error" PROVE client[q] = "stranger"
            OBVIOUS
        <3>2. owner[arg[q]] = q /\ q # None /\ q[1] = s
            BY <1>0, <1>3, <1>9, <2>0, <3>1
        <3>3. client[q] # "runner"
            BY <2>1, <3>1, <3>2
        <3>4. client[q] # None
            BY <1>0, <2>0, <3>1 DEF FailureFacts
        <3> QED BY <1>0, <1>1, <3>3, <3>4
    <2> QED BY <1>0, <1>2, <2>0, <2>2 DEF FailureFacts
<1>8. CASE EndThread(s, p)
    <2>1. thr'[q] = "ended" /\ thr[q] = "reporting" /\ UNCHANGED <<used, res>>
        BY <1>0, <1>1, <1>8 DEF EndThread, ThreadTo
    <2> QED BY <1>0, <1>2, <2>1 DEF FailureFacts
<1> QED BY <1>4, <1>5, <1>6, <1>7, <1>8 DEF Thread

(* A connection stays as it is, or fails for a reason of its own. *)
LEMMA FailuresByStep ==
    ASSUME TypeOK, PipeFacts, Next, NEW o \in Sessions, NEW q \in Pipes
    PROVE  FailureFacts(o, q)'
<1>0. FailureFacts(o, q) /\ <<o, q>> \in Sessions \X Pipes /\ None \notin States
    BY HandlesAssumption DEF PipeFacts
<1>1. ASSUME NEW s \in Sessions, Parent(s) PROVE FailureFacts(o, q)'
    BY <1>1, ParentFailures
<1>2. ASSUME NEW s \in Sessions, NEW p \in Pipes, Thread(s, p) PROVE FailureFacts(o, q)'
    <2>1. CASE o = s /\ q = p
        BY <1>2, <2>1, ThreadFailures
    <2>2. CASE <<o, q>> # <<s, p>>
        <3>1. UNCHANGED <<handle, client, runner, pc>> /\ thr'[<<o, q>>] = thr[<<o, q>>]
            BY <1>0, <1>2, <2>2, ThreadFrame
        <3>2. used'[<<o, q>>] = used[<<o, q>>] /\ res'[<<o, q>>] = res[<<o, q>>]
            BY <1>0, <1>2, <2>2 DEF TypeOK, Thread, Publish, Call, Unblock, Check, EndThread, Send
        <3> QED BY <1>0, <3>1, <3>2, FailuresStay
    <2> QED BY <2>1, <2>2
<1>3. ASSUME NEW s \in Sessions, Runner(s) PROVE FailureFacts(o, q)'
    <2>1. UNCHANGED <<pc, handle, thr, used, res>>
        BY <1>3 DEF Runner, Opens, RunnerDies, parentVars, threadVars
    <2>2. client[<<o, q>>] # None => client'[<<o, q>>] = client[<<o, q>>]
        BY <1>0, <1>3 DEF Runner, Opens, RunnerDies, TypeOK
    <2>3. runner[o] = "dead" => runner'[o] = "dead"
        BY <1>3 DEF Runner, Opens, RunnerDies, TypeOK
    <2> QED BY <1>0, <2>1, <2>2, <2>3, FailuresStay
<1>4. ASSUME NEW s \in Sessions, NEW p \in Pipes, Stranger(<<s, p>>) PROVE FailureFacts(o, q)'
    <2>1. UNCHANGED <<pc, handle, runner, thr, used, res>>
        BY <1>4 DEF Stranger, parentVars, threadVars
    <2>2. client[<<o, q>>] # None => client'[<<o, q>>] = client[<<o, q>>]
        BY <1>0, <1>4 DEF Stranger, TypeOK
    <2> QED BY <1>0, <2>1, <2>2, FailuresStay
<1>5. CASE UNCHANGED vars
    BY <1>0, <1>5, FailuresStay DEF vars
<1> QED BY <1>1, <1>2, <1>3, <1>4, <1>5 DEF Next

LEMMA FactsKept ==
    ASSUME TypeOK, PipeFacts, Next, UNCHANGED setting
    PROVE  PipeFacts'
<1>1. \A s \in Sessions : ParentFacts(s)'
    BY HandlesByStep, RunnersByStep, PeersByStep DEF ParentFacts
<1>2. \A s \in Sessions, p \in Pipes : ThreadFacts(s, p)'
    BY ThreadsByStep, ArgsByStep, ResultsTrue, ZenonT(60) DEF ThreadFacts
<1>3. \A s \in Sessions, p \in Pipes : FailureFacts(s, p)'
    BY FailuresByStep
<1> QED BY <1>1, <1>2, <1>3, TableKept DEF PipeFacts

----------------------------------------------------------------------------
(* At first nothing is open and nothing runs. *)
LEMMA InitPipes ==
    Init => TypeOK /\ PipeFacts
<1> SUFFICES ASSUME Init PROVE TypeOK /\ PipeFacts
    OBVIOUS
<1>0. /\ "in" \in Pipes /\ "out" \in Pipes /\ None \notin Sessions \X Pipes /\ None \notin Handles
      /\ \A s \in Sessions, p \in Pipes : <<s, p>> \in Sessions \X Pipes
    BY HandlesAssumption DEF Pipes
<1>1. TypeOK
    BY <1>0 DEF Init, TypeOK, Places, ThreadPlaces
<1>2. TableFacts
    BY <1>0 DEF Init, TableFacts
<1>3. ASSUME NEW s \in Sessions PROVE ParentFacts(s)
    <2>1. pc[s] \in {"idle", "failed"} /\ cur[s] = "in" /\ runner[s] = None
        BY DEF Init
    <2>2. \A p \in Pipes : handle[s][p] = None /\ thr[<<s, p>>] = None
        BY DEF Init
    <2> QED BY <2>1, <2>2 DEF ParentFacts
<1>4. ASSUME NEW s \in Sessions, NEW p \in Pipes PROVE ThreadFacts(s, p)
    <2>1. arg[<<s, p>>] = None /\ thr[<<s, p>>] = None /\ res[<<s, p>>] = None
        BY <1>0 DEF Init
    <2>2. ~dup[<<s, p>>]
        BY <1>0 DEF Init
    <2> QED BY <2>1, <2>2, HandlesAssumption DEF ThreadFacts, States
<1>5. ASSUME NEW s \in Sessions, NEW p \in Pipes PROVE FailureFacts(s, p)
    <2>1. /\ thr[<<s, p>>] = None /\ used[<<s, p>>] = None /\ res[<<s, p>>] = None
          /\ handle[s][p] = None
        BY <1>0 DEF Init
    <2> QED BY <2>1, HandlesAssumption DEF FailureFacts, States
<1> QED BY <1>1, <1>2, <1>3, <1>4, <1>5 DEF PipeFacts

(* Parents, threads, runners and strangers, in whatever order they step,   *)
(* keep the types, and the tie between the handle table, what the parents  *)
(* hold and what the threads were given.                                   *)
THEOREM PipesInvariant == Spec => [](TypeOK /\ PipeFacts)
<1>1. Init => TypeOK /\ PipeFacts
    BY InitPipes
<1>2. TypeOK /\ PipeFacts /\ [Next /\ UNCHANGED setting]_<<vars, setting>> => (TypeOK /\ PipeFacts)'
    <2>1. CASE Next /\ UNCHANGED setting
        BY <2>1, TypesKept, FactsKept
    <2>2. CASE UNCHANGED <<vars, setting>>
        BY <2>2 DEF vars, TypeOK, PipeFacts, TableFacts, ParentFacts, ThreadFacts, FailureFacts
    <2> QED BY <2>1, <2>2
<1> QED BY <1>1, <1>2, PTL DEF Spec

(* What a launch holds it owns, whatever other launches close in the       *)
(* meantime, and when it fails no runner, pipe or thread handle of it is   *)
(* left (spawn_runner_transport).                                          *)
THEOREM PipesSafety == Spec => []PipesInv
<1>1. TypeOK /\ PipeFacts => PipesInv
    <2> SUFFICES ASSUME TypeOK, PipeFacts PROVE PipesInv
        OBVIOUS
    <2>1. NoStrayRunner
        BY DEF NoStrayRunner, PipeFacts, ParentFacts
    <2>0. \A s \in Sessions : ParentFacts(s)
        BY DEF PipeFacts
    <2>2. ASSUME NEW s \in Sessions, pc[s] \notin {"idle", "create", "failed"}, NEW p \in Pipes
          PROVE  handle[s][p] # None /\ owner[handle[s][p]] = <<s, p>>
        <3>1. ParentFacts(s)
            BY <2>0
        <3>2. handle[s][p] # None
            BY <2>2, <3>1 DEF ParentFacts
        <3> QED BY <3>2 DEF PipeFacts, TableFacts
    <2>3. ASSUME NEW s \in Sessions, pc[s] = "failed", NEW p \in Pipes
          PROVE  ~Open(<<s, p>>) /\ ~dup[<<s, p>>]
        <3>0. ParentFacts(s)
            BY <2>0
        <3>1. handle[s][p] = None
            BY <2>3, <3>0 DEF ParentFacts
        <3>2. ~Open(<<s, p>>)
            BY <3>1, HandlesAssumption DEF Open, PipeFacts, TableFacts
        <3>3. ~dup[<<s, p>>]
            BY <2>3 DEF PipeFacts, ThreadFacts
        <3> QED BY <3>2, <3>3
    <2> QED BY <2>1, <2>2, <2>3 DEF PipesInv, HandlesHeld
<1> QED BY <1>1, PipesInvariant, PTL

(* A spawn request never goes to anybody but the process that was          *)
(* launched, on either pipe: GetNamedPipeClientProcessId is asked about a  *)
(* number that may have changed hands (connect_pipe).                      *)
THEOREM PeersSafety == Spec => []PeersAreRunner
<1>1. TypeOK /\ PipeFacts => PeersAreRunner
    <2> SUFFICES ASSUME TypeOK, PipeFacts, NEW s \in Sessions, pc[s] \in {"handshake", "ready"},
                        NEW p \in Pipes
                 PROVE  client[<<s, p>>] = "runner" /\ owner[handle[s][p]] = <<s, p>>
        BY DEF PeersAreRunner
    <2>1. ParentFacts(s)
        BY DEF PipeFacts
    <2>2. client[<<s, "in">>] = "runner" /\ client[<<s, "out">>] = "runner"
        BY <2>1 DEF ParentFacts
    <2>3. handle[s][p] # None
        BY <2>1 DEF ParentFacts
    <2>4. owner[handle[s][p]] = <<s, p>>
        BY <2>3 DEF PipeFacts, TableFacts
    <2> QED BY <2>2, <2>4 DEF Pipes
<1> QED BY <1>1, PipesInvariant, PTL

(* Whatever other launches cancel, close and create, and whatever numbers  *)
(* their late threads still hold, a connection that is waited for fails    *)
(* only because somebody else opened the pipe or its own runner died       *)
(* (connect_pipe_with_timeout).                                            *)
THEOREM FailuresSafety == Spec => []FailuresOwn
<1>1. TypeOK /\ PipeFacts => FailuresOwn
    <2> SUFFICES ASSUME TypeOK, PipeFacts, NEW s \in Sessions,
                        pc[s] \in {"wait", "late", "cancel", "look"}, res[<<s, cur[s]>>] = "error"
                 PROVE  client[<<s, cur[s]>>] = "stranger" \/ runner[s] = "dead"
        BY DEF FailuresOwn
    <2>1. cur[s] \in Pipes
        BY DEF TypeOK
    <2>2. handle[s][cur[s]] # None
        <3>1. ParentFacts(s)
            BY DEF PipeFacts
        <3> QED BY <2>1, <3>1 DEF ParentFacts
    <2>3. FailureFacts(s, cur[s])
        BY <2>1 DEF PipeFacts
    <2> QED BY <2>2, <2>3 DEF FailureFacts
<1> QED BY <1>1, PipesInvariant, PTL

=============================================================================
