---------------------------- MODULE IdentityProofs ----------------------------
(***************************************************************************)
(* Proofs about how a capture gets its identity: about SetupFlight, where  *)
(* the threads of a process share setup runs, for any threads and          *)
(* payloads; and about LogonCreds, where the captures of several processes *)
(* obtain and repair credentials, for any captures, processes, settings    *)
(* and number of password generations.                                     *)
(***************************************************************************)
EXTENDS SetupFlight, LogonCreds, TLAPS

-----------------------------------------------------------------------------
(* Shared setup runs.  The proof of FlightInv has one case per action; the *)
(* actions of a run that touch neither map nor flights have a lemma of     *)
(* their own (RunFlights, RunAlone).                                       *)

LEMMA InitTypes == Init => TypeOK
BY FlightConstants DEF Init, TypeOK, Flight, Leads, Runs

(* A run only moves its own program counter within its steps, up to        *)
(* "complete", where its result is known.                                  *)
InRun(t) ==
    /\ Running(t)
    /\ \E l \in Runs \cup {"complete"} : pc' = [pc EXCEPT ![t] = l]
    /\ result' \in [Thread -> Result \cup {"none"}]
    /\ pc'[t] = "complete" => result'[t] \in Result
    /\ \A u \in Thread \ {t} : result'[u] = result[u]
    /\ UNCHANGED <<flights, outcome, made, flight>>

LEMMA RunTypes ==
    ASSUME TypeOK, NEW t \in Thread,
           \/ ClearReport(t) \/ Launch(t) \/ SpawnReader(t) \/ HelperFails(t)
           \/ HelperSucceeds(t) \/ ReadReport(t) \/ Verify(t) \/ Tidy(t)
    PROVE  /\ InRun(t)
           /\ cleared' \in [Thread -> BOOLEAN]
           /\ report' \in Code \cup {"none"}
           /\ wrote' \in [Thread -> Code \cup {"none"}]
           /\ alone' \in [Thread -> BOOLEAN]
           /\ reading' \subseteq Thread /\ late' \in Nat
<1> USE DEF TypeOK, Finish, InRun, Running, Runs, Leads, Result, map, readers
<1>1. CASE ClearReport(t) BY <1>1 DEF ClearReport
<1>0. ASSUME Finish(t, "broken"), Running(t), UNCHANGED <<map, flight, report>>
      PROVE  /\ InRun(t)
             /\ cleared' \in [Thread -> BOOLEAN]
             /\ wrote' \in [Thread -> Code \cup {"none"}]
             /\ alone' \in [Thread -> BOOLEAN]
             /\ reading' \subseteq Thread /\ late' \in Nat
  BY <1>0
<1>2. CASE Launch(t)
  <2>1. CASE pc' = [pc EXCEPT ![t] = "helper"] /\ UNCHANGED <<result, cleared, readers, wrote, alone>>
    BY <1>2, <2>1 DEF Launch
  <2>2. CASE Finish(t, "broken")
    BY ONLY <1>0, <1>2, <2>2, TypeOK DEF Launch, Running, Runs, TypeOK
  <2> QED BY <1>2, <2>1, <2>2 DEF Launch
<1>3. CASE HelperFails(t) BY <1>3 DEF HelperFails
<1>8. CASE SpawnReader(t) BY <1>8 DEF SpawnReader
<1>4. CASE HelperSucceeds(t) BY <1>4 DEF HelperSucceeds
<1>5. CASE ReadReport(t)
  <2>1. PICK r \in Result : Finish(t, r)
    BY <1>5 DEF ReadReport
  <2>2. pc[t] = "failed" /\ UNCHANGED <<map, flight, report>>
    BY <1>5 DEF ReadReport
  <2> QED BY <2>1, <2>2
<1>6. CASE Verify(t)
  <2>1. CASE pc' = [pc EXCEPT ![t] = "tidy"] /\ UNCHANGED <<result, cleared, readers, wrote, alone>>
    BY <1>6, <2>1 DEF Verify
  <2>2. CASE Finish(t, "broken")
    BY ONLY <1>0, <1>6, <2>2, TypeOK DEF Verify, Running, Runs, TypeOK
  <2> QED BY <1>6, <2>1, <2>2 DEF Verify
<1>7. CASE Tidy(t) BY <1>7 DEF Tidy
<1> QED BY <1>1, <1>2, <1>3, <1>4, <1>5, <1>6, <1>7, <1>8

LEMMA MadeGrows ==
    ASSUME TypeOK, NEW p \in Payload, Len(made) < MaxFlights, made' = Append(made, p)
    PROVE  /\ made' \in Seq(Payload)
           /\ Len(made') = Len(made) + 1
           /\ Len(made') \in Flight
           /\ \A i \in 1..Len(made) : made'[i] = made[i]
           /\ made'[Len(made')] = p
BY FlightConstants DEF TypeOK, Flight

LEMMA BeginsTypes ==
    ASSUME TypeOK, NEW t \in Thread, Begins(t)
    PROVE  alone' \in [Thread -> BOOLEAN]
<1>1. \A u \in Thread : alone[u] \in BOOLEAN
    BY DEF TypeOK
<1>2. \A u \in Thread :
        (IF u = t THEN \A v \in Thread \ {t} : ~Running(v) ELSE alone[u] /\ ~Running(u))
            \in BOOLEAN
    BY <1>1, Zenon
<1> QED BY <1>2, Zenon DEF Begins

LEMMA NextTypes ==
    ASSUME TypeOK, FlightInv, [Next]_vars
    PROVE  TypeOK'
<1> USE FlightConstants DEF TypeOK, Flight, Leads, Runs, Running, readers
<1>1. CASE UNCHANGED vars BY <1>1 DEF vars, map
<1>2. ASSUME NEW t \in Thread, NEW p \in Payload, Lead(t, p) PROVE TypeOK'
    <2>1. /\ made' \in Seq(Payload) /\ Len(made') <= MaxFlights
          /\ Len(made') \in 0..MaxFlights
        BY <1>2, MadeGrows DEF Lead
    <2>2. /\ flights' \in [Payload -> 0..MaxFlights]
          /\ flight' \in [Thread -> 0..MaxFlights]
          /\ pc' \in [Thread -> Leads \cup {"idle", "joined", "asleep"}]
        BY <1>2, <2>1 DEF Lead
    <2>3. alone' \in [Thread -> BOOLEAN]
        BY <1>2, BeginsTypes DEF Lead
    <2> QED BY <1>2, <2>1, <2>2, <2>3 DEF Lead
<1>3. ASSUME NEW t \in Thread, NEW p \in Payload, Join(t, p) PROVE TypeOK'
    BY <1>3 DEF Join, map
<1>4. ASSUME NEW t \in Thread, Bypass(t) PROVE TypeOK'
    BY <1>4, BeginsTypes DEF Bypass, map
<1>5. ASSUME NEW t \in Thread, Look(t) PROVE TypeOK'
    <2>1. /\ pc' \in [Thread -> Leads \cup {"idle", "joined", "asleep"}]
          /\ flight' \in [Thread -> 0..MaxFlights]
        <3>1. \/ pc' = [pc EXCEPT ![t] = "asleep"] /\ flight' = flight
              \/ pc' = [pc EXCEPT ![t] = "idle"] /\ flight' = [flight EXCEPT ![t] = 0]
            BY <1>5 DEF Look
        <3>2. CASE pc' = [pc EXCEPT ![t] = "asleep"] /\ flight' = flight
            BY <3>2
        <3>3. CASE pc' = [pc EXCEPT ![t] = "idle"] /\ flight' = [flight EXCEPT ![t] = 0]
            <4>1. 0 \in 0..MaxFlights
                OBVIOUS
            <4>2. flight' \in [Thread -> 0..MaxFlights]
                BY ONLY <3>3, <4>1, TypeOK DEF TypeOK
            <4>3. pc' \in [Thread -> Leads \cup {"idle", "joined", "asleep"}]
                BY ONLY <3>3, TypeOK DEF TypeOK
            <4> QED BY <4>2, <4>3
        <3> QED BY <3>1, <3>2, <3>3
    <2> QED BY <1>5, <2>1 DEF Look, map
<1>6. ASSUME NEW t \in Thread, SpuriousWakeup(t) PROVE TypeOK'
    BY <1>6 DEF SpuriousWakeup, map
<1>7. ASSUME NEW t \in Thread,
             \/ ClearReport(t) \/ Launch(t) \/ SpawnReader(t) \/ HelperFails(t)
             \/ HelperSucceeds(t) \/ ReadReport(t) \/ Verify(t) \/ Tidy(t)
      PROVE  TypeOK'
    <2>1. /\ InRun(t)
          /\ cleared' \in [Thread -> BOOLEAN]
          /\ report' \in Code \cup {"none"}
          /\ wrote' \in [Thread -> Code \cup {"none"}]
          /\ alone' \in [Thread -> BOOLEAN]
          /\ reading' \subseteq Thread /\ late' \in Nat
        BY ONLY TypeOK, <1>7, RunTypes
    <2>2. pc' \in [Thread -> Leads \cup {"idle", "joined", "asleep"}]
        BY <2>1 DEF InRun
    <2> QED BY <2>1, <2>2 DEF InRun
<1>8. ASSUME NEW t \in Thread, Complete(t) PROVE TypeOK'
    <2>1. result[t] \in Result
        BY <1>8 DEF Complete, FlightInv, ResultsStored
    <2>2. outcome' \in [Flight -> Result \cup {"pending"}]
        BY <1>8, <2>1 DEF Complete
    <2>3. pc' \in [Thread -> Leads \cup {"idle", "joined", "asleep"}]
        BY <1>8 DEF Complete
    <2> QED BY <1>8, <2>2, <2>3 DEF Complete
<1>9. ASSUME NEW t \in Thread, RemoveFlight(t) PROVE TypeOK'
    <2> DEFINE p == made[flight[t]]
    <2>1. flight[t] \in 1..Len(made)
        BY <1>9 DEF RemoveFlight, FlightInv, HasFlight
    <2>2. p \in Payload
        BY <2>1
    <2> HIDE DEF p
    <2>3. flights' = [flights EXCEPT ![p] = IF @ = flight[t] THEN 0 ELSE @]
        BY <1>9 DEF RemoveFlight, p
    <2>4. flights' \in [Payload -> 0..MaxFlights]
        BY <2>2, <2>3
    <2> QED BY <1>9, <2>4 DEF RemoveFlight
<1>10. ASSUME NEW t \in Thread, ReturnBypass(t) PROVE TypeOK'
    BY <1>10 DEF ReturnBypass, map
<1>11. CASE ReaderEnds
    <2>1. reading' \subseteq Thread /\ late' \in Nat
        BY <1>11 DEF ReaderEnds
    <2>2. report' \in Code \cup {"none"} /\ wrote' \in [Thread -> Code \cup {"none"}]
        BY <1>11 DEF ReaderEnds
    <2>3. UNCHANGED <<map, pc, flight, cleared, result, alone>>
        BY <1>11 DEF ReaderEnds
    <2> QED BY <2>1, <2>2, <2>3 DEF map
<1> QED BY <1>1, <1>2, <1>3, <1>4, <1>5, <1>6, <1>7, <1>8, <1>9, <1>10, <1>11
        DEF Next, Call, Step

----------------------------------------------------------------------------
LEMMA InitFlights == Init => FlightInv
BY DEF Init, FlightInv, HasFlight, LeadersMapped, ResultsStored, FlightsLed,
       SleepersAwaited, OneRunPerPayload, Leading, Leads, Runs

(* Mapped leaders have different payloads.                                 *)
LEMMA LeadersDiffer == LeadersMapped => OneRunPerPayload
BY DEF LeadersMapped, OneRunPerPayload

(* The conjuncts of FlightInv for the actions, one lemma per group: steps  *)
(* that leave map and flights alone, and the four that do not.             *)
LEMMA RunFlights ==
    ASSUME TypeOK, FlightInv, NEW t \in Thread, InRun(t)
    PROVE  FlightInv'
<1> USE DEF TypeOK, FlightInv, InRun, Running
<1>1. PICK l \in Runs \cup {"complete"} : pc' = [pc EXCEPT ![t] = l]
    OBVIOUS
<1>2. \A f : Pending(f)' <=> Pending(f)
    BY <1>1 DEF Pending
<1>3. \A u \in Thread : Leading(u)' <=> Leading(u)
    BY <1>1 DEF Leading, Leads
<1>4. \A u \in Thread \ {t} : pc'[u] = pc[u]
    BY <1>1
<1>5. pc'[t] = l
    BY <1>1
<1>6. HasFlight'
    BY <1>4, <1>5 DEF HasFlight, Runs
<1>7. LeadersMapped'
    BY <1>3 DEF LeadersMapped
<1>8. ResultsStored'
    BY <1>2, <1>4, <1>5 DEF ResultsStored, Runs
<1>9. FlightsLed'
    BY <1>3 DEF FlightsLed
<1>10. SleepersAwaited'
    BY <1>2, <1>4, <1>5 DEF SleepersAwaited, Runs
<1> QED BY <1>6, <1>7, <1>8, <1>9, <1>10, LeadersDiffer, PTL

LEMMA LeadFlights ==
    ASSUME TypeOK, FlightInv, NEW t \in Thread, NEW p \in Payload, Lead(t, p)
    PROVE  FlightInv'
<1> DEFINE f == Len(made')
<1>0. /\ Len(made) \in Nat /\ \A u \in Thread : flight[u] \in Nat
      /\ HasFlight /\ LeadersMapped /\ ResultsStored /\ FlightsLed /\ SleepersAwaited
    BY DEF TypeOK, FlightInv
<1>1. /\ f = Len(made) + 1 /\ Len(made') = f
      /\ f \in Nat \ {0}
      /\ \A i \in 1..Len(made) : made'[i] = made[i]
      /\ made'[f] = p
    BY <1>0, MadeGrows DEF Lead
<1>2. /\ flights' = [flights EXCEPT ![p] = f]
      /\ flight' = [flight EXCEPT ![t] = f]
      /\ pc' = [pc EXCEPT ![t] = "clear"]
      /\ pc[t] = "idle" /\ flights[p] = 0
      /\ outcome' = outcome /\ result' = result
      /\ \A u \in Thread \ {t} : pc'[u] = pc[u] /\ flight'[u] = flight[u]
      /\ pc'[t] = "clear" /\ flight'[t] = f
      /\ flights'[p] = f /\ \A q \in Payload \ {p} : flights'[q] = flights[q]
    BY DEF Lead, TypeOK
<1> HIDE DEF f
<1>3. \A u \in Thread \ {t} :
        /\ pc'[u] = pc[u] /\ flight'[u] = flight[u]
        /\ flight[u] \in Nat /\ flight[u] <= Len(made) /\ flight[u] # f
        /\ flight[u] # 0 => made'[flight[u]] = made[flight[u]]
    BY <1>0, <1>1, <1>2 DEF HasFlight
<1>4. pc'[t] = "clear" /\ flight'[t] = f /\ Leading(t)'
    BY <1>1, <1>2 DEF Leading, Leads, Runs
<1>5. \A u \in Thread \ {t} : Leading(u)' <=> Leading(u)
    BY <1>3 DEF Leading
<1>6. \A g : Pending(g) => Pending(g)'
    BY <1>2 DEF Pending, Runs
<1>7. HasFlight'
    <2>1. \A u \in Thread \ {t} : flight'[u] <= Len(made')
        BY <1>0, <1>1, <1>3
    <2> QED BY <1>0, <1>1, <1>3, <1>4, <2>1 DEF HasFlight
<1>8. LeadersMapped'
    <2>1. \A u \in Thread \ {t} : Leading(u) => made[flight[u]] # p
        BY <1>0, <1>2 DEF LeadersMapped, Leading
    <2>2. \A u \in Thread \ {t} : Leading(u) => flights'[made'[flight'[u]]] = flight'[u]
        <3> SUFFICES ASSUME NEW u \in Thread \ {t}, Leading(u)
                     PROVE  flights'[made'[flight'[u]]] = flight'[u]
            OBVIOUS
        <3>1. flight[u] \in 1..Len(made) /\ made[flight[u]] \in Payload
            BY <1>0, <1>3 DEF Leading, TypeOK
        <3>2. flights'[made[flight[u]]] = flights[made[flight[u]]]
            BY <1>2, <2>1, <3>1
        <3>3. made'[flight'[u]] = made[flight[u]] /\ flights[made[flight[u]]] = flight[u]
            BY <1>0, <1>3, <3>1 DEF LeadersMapped, Leading
        <3> QED BY <1>3, <3>2, <3>3
    <2>3. flights'[made'[flight'[t]]] = flight'[t]
        BY <1>1, <1>2, <1>4
    <2>4. \A u \in Thread \ {t} : Leading(u)' => flight'[u] # flight'[t]
        BY <1>3, <1>4
    <2>5. \A u, v \in Thread \ {t} :
            Leading(u)' /\ Leading(v)' /\ flight'[u] = flight'[v] => u = v
        BY <1>0, <1>3, <1>5 DEF LeadersMapped
    <2> QED BY <1>5, <2>2, <2>3, <2>4, <2>5 DEF LeadersMapped
<1>9. ResultsStored'
    BY <1>0, <1>2, <1>3, <1>4, <1>6 DEF ResultsStored
<1>10. FlightsLed'
    <2>1. \A q \in Payload \ {p} : flights'[q] = flights[q]
        BY <1>2
    <2>2. flights'[p] = f
        BY <1>2
    <2>3. ASSUME NEW q \in Payload, q # p, flights'[q] # 0
          PROVE  \E u \in Thread : Leading(u)' /\ flight'[u] = flights'[q] /\ made'[flight'[u]] = q
        <3>1. PICK u \in Thread : Leading(u) /\ flight[u] = flights[q] /\ made[flight[u]] = q
            BY <1>0, <2>1, <2>3 DEF FlightsLed
        <3>2. u # t
            BY <3>1, <1>2 DEF Leading, Leads, Runs
        <3>3. Leading(u)' /\ flight'[u] = flights'[q]
            BY <3>1, <3>2, <2>1, <1>3, <1>5, <2>3
        <3>4. made'[flight'[u]] = q
            BY <3>1, <3>2, <1>3, <2>1, <2>3
        <3> QED BY <3>3, <3>4
    <2> QED BY <2>2, <2>3, <1>1, <1>4 DEF FlightsLed
<1>11. SleepersAwaited'
    BY <1>0, <1>3, <1>4, <1>6 DEF SleepersAwaited
<1> QED BY <1>7, <1>8, <1>9, <1>10, <1>11, LeadersDiffer, PTL DEF FlightInv

LEMMA JoinFlights ==
    ASSUME TypeOK, FlightInv, NEW t \in Thread, NEW p \in Payload, Join(t, p)
    PROVE  FlightInv'
<1> USE DEF TypeOK, FlightInv
<1>1. /\ flight' = [flight EXCEPT ![t] = flights[p]]
      /\ pc' = [pc EXCEPT ![t] = "joined"]
      /\ pc[t] = "idle" /\ flights[p] # 0
      /\ UNCHANGED <<flights, outcome, made, result>>
    BY DEF Join, map
<1>2. \A u \in Thread \ {t} : pc'[u] = pc[u] /\ flight'[u] = flight[u]
    BY <1>1
<1>3. pc'[t] = "joined" /\ flight'[t] = flights[p]
    BY <1>1
<1>4. PICK l \in Thread : Leading(l) /\ flight[l] = flights[p]
    BY <1>1 DEF FlightsLed
<1>5. \A u \in Thread : Leading(u)' <=> u # t /\ Leading(u)
    BY <1>1, <1>2, <1>3 DEF Leading, Leads, Runs
<1>6. ~Leading(t)
    BY <1>1 DEF Leading, Leads, Runs
<1>7. \A g : Pending(g) => Pending(g)'
    BY <1>1, <1>2 DEF Pending, Runs
<1>8. outcome[flights[p]] # "pending" \/ Pending(flights[p])
    BY <1>4 DEF Leading, Leads, ResultsStored, Pending
<1>9. HasFlight'
    BY <1>1, <1>2, <1>3, <1>4 DEF HasFlight
<1>10. LeadersMapped'
    BY <1>1, <1>2, <1>5 DEF LeadersMapped
<1>11. ResultsStored'
    BY <1>1, <1>2, <1>3, <1>7, <1>8 DEF ResultsStored
<1>12. FlightsLed'
    <2>1. ASSUME NEW q \in Payload, flights[q] # 0
          PROVE  \E u \in Thread : Leading(u)' /\ flight'[u] = flights[q] /\ made[flight'[u]] = q
        <3>1. PICK u \in Thread : Leading(u) /\ flight[u] = flights[q] /\ made[flight[u]] = q
            BY <2>1 DEF FlightsLed
        <3> QED BY <3>1, <1>2, <1>5, <1>6
    <2> QED BY <1>1, <2>1 DEF FlightsLed
<1>13. SleepersAwaited'
    BY <1>2, <1>3, <1>7 DEF SleepersAwaited
<1> QED BY <1>9, <1>10, <1>11, <1>12, <1>13, LeadersDiffer, PTL

(* A thread without a flight that moves changes nothing for the others.    *)
LEMMA BypassFlights ==
    ASSUME TypeOK, FlightInv, NEW t \in Thread, Bypass(t) \/ ReturnBypass(t)
    PROVE  FlightInv'
<1> USE DEF TypeOK, FlightInv
<1>1. /\ flight[t] = 0
      /\ \E l \in {"clear", "idle"} : pc' = [pc EXCEPT ![t] = l]
      /\ \A u \in Thread \ {t} : result'[u] = result[u]
      /\ UNCHANGED <<flights, outcome, made, flight>>
    BY DEF Bypass, ReturnBypass, map, HasFlight
<1>2. \A u \in Thread \ {t} : pc'[u] = pc[u]
    BY <1>1
<1>3. pc'[t] \in {"clear", "idle"}
    BY <1>1
<1>4. \A u \in Thread : Leading(u)' <=> Leading(u)
    BY <1>1, <1>2 DEF Leading
<1>5. \A g : g # 0 /\ Pending(g) => Pending(g)'
    BY <1>1, <1>2 DEF Pending
<1>6. HasFlight'
    BY <1>1, <1>2, <1>3 DEF HasFlight
<1>7. LeadersMapped'
    BY <1>1, <1>4 DEF LeadersMapped
<1>8. ResultsStored'
    BY <1>1, <1>2, <1>3, <1>5 DEF ResultsStored, HasFlight
<1>9. FlightsLed'
    BY <1>1, <1>4 DEF FlightsLed
<1>10. SleepersAwaited'
    BY <1>1, <1>2, <1>3, <1>5 DEF SleepersAwaited, HasFlight
<1> QED BY <1>6, <1>7, <1>8, <1>9, <1>10, LeadersDiffer, PTL

(* The two steps of a thread that waits.                                   *)
LEMMA WaitFlights ==
    ASSUME TypeOK, FlightInv, NEW t \in Thread, Look(t) \/ SpuriousWakeup(t)
    PROVE  FlightInv'
<1> USE DEF TypeOK, FlightInv
<1>1. /\ pc[t] \in {"joined", "asleep"}
      /\ UNCHANGED <<flights, outcome, made, result>>
      /\ \A u \in Thread \ {t} : pc'[u] = pc[u] /\ flight'[u] = flight[u]
    BY DEF Look, SpuriousWakeup, map
<1>2. \/ pc'[t] = "idle" /\ flight'[t] = 0
      \/ pc'[t] = "asleep" /\ flight'[t] = flight[t] /\ outcome[flight[t]] = "pending"
      \/ pc'[t] = "joined" /\ flight'[t] = flight[t] /\ pc[t] = "asleep"
    BY DEF Look, SpuriousWakeup
<1>3. ~Leading(t) /\ ~Leading(t)'
    BY <1>1, <1>2 DEF Leading, Leads, Runs
<1>4. \A u \in Thread : Leading(u)' <=> Leading(u)
    BY <1>1, <1>3 DEF Leading
<1>5. \A g : Pending(g) => Pending(g)'
    BY <1>1 DEF Pending, Runs
<1>6. HasFlight'
    <2>1. flight'[t] <= Len(made)
        BY <1>2 DEF HasFlight
    <2>2. pc'[t] = "idle" => flight'[t] = 0
        BY <1>2
    <2>3. pc'[t] \in {"joined", "asleep", "remove"} => flight'[t] # 0
        BY <1>1, <1>2 DEF HasFlight
    <2> QED BY <1>1, <2>1, <2>2, <2>3 DEF HasFlight
<1>7. LeadersMapped'
    <2>1. \A u \in Thread : Leading(u) => u # t
        BY <1>3
    <2> QED BY <1>1, <1>4, <2>1 DEF LeadersMapped
<1>8. ResultsStored'
    <2>1. ASSUME pc'[t] = "joined" PROVE Pending(flight[t])'
        <3>1. pc[t] = "asleep" /\ flight'[t] = flight[t]
            BY <1>2, <2>1
        <3>2. PICK u \in Thread : pc[u] \in Runs \cup {"complete"} /\ flight[u] = flight[t]
            BY <3>1 DEF SleepersAwaited, Pending
        <3>3. u # t
            BY <3>1, <3>2 DEF Runs
        <3> QED BY <1>1, <3>1, <3>2, <3>3 DEF Pending
    <2>2. pc'[t] \notin {"complete", "remove"}
        BY <1>2
    <2> QED BY <1>1, <1>5, <2>1, <2>2 DEF ResultsStored
<1>9. FlightsLed'
    <2> SUFFICES ASSUME NEW q \in Payload, flights[q] # 0
                 PROVE  \E u \in Thread : /\ Leading(u)' /\ flight'[u] = flights[q]
                                          /\ made[flight'[u]] = q
        BY <1>1 DEF FlightsLed
    <2>1. PICK u \in Thread : Leading(u) /\ flight[u] = flights[q] /\ made[flight[u]] = q
        BY DEF FlightsLed
    <2>2. u # t
        BY <1>3, <2>1
    <2> QED BY <1>1, <1>4, <2>1, <2>2
<1>10. SleepersAwaited'
    BY <1>1, <1>2, <1>5 DEF SleepersAwaited, ResultsStored
<1> QED BY <1>6, <1>7, <1>8, <1>9, <1>10, LeadersDiffer, PTL

LEMMA CompleteFlights ==
    ASSUME TypeOK, FlightInv, NEW t \in Thread, Complete(t)
    PROVE  FlightInv'
<1> USE FlightConstants DEF TypeOK, FlightInv
<1>1. /\ pc[t] = "complete" /\ flight[t] # 0
      /\ outcome' = [outcome EXCEPT ![flight[t]] = result[t]]
      /\ UNCHANGED <<flights, made, flight, result>>
    BY DEF Complete
<1>2. /\ pc'[t] = "remove"
      /\ \A u \in Thread \ {t} :
            \/ pc[u] = "asleep" /\ flight[u] = flight[t] /\ pc'[u] = "joined"
            \/ ~(pc[u] = "asleep" /\ flight[u] = flight[t]) /\ pc'[u] = pc[u]
    BY DEF Complete
<1>3. flight[t] \in Flight /\ result[t] # "pending"
    <2>1. "pending" \notin Code
        BY FlightConstants
    <2>2. flight[t] \in Flight
        BY <1>1 DEF Flight
    <2>3. result[t] \in Code \cup {"ok", "nonzero", "broken"}
        BY ONLY <1>1, FlightInv DEF FlightInv, ResultsStored, Result
    <2> QED BY ONLY <2>1, <2>2, <2>3
<1>4. /\ outcome'[flight[t]] # "pending"
      /\ \A g : g # flight[t] => outcome'[g] = outcome[g]
    BY <1>1, <1>3
<1>5. \A u \in Thread : Leading(u)' <=> Leading(u)
    BY <1>1, <1>2 DEF Leading, Leads, Runs
<1>6. \A g : g # flight[t] /\ Pending(g) => Pending(g)'
    BY <1>1, <1>2 DEF Pending, Runs
<1>7. HasFlight'
    BY <1>1, <1>2 DEF HasFlight
<1>8. LeadersMapped'
    BY <1>1, <1>5 DEF LeadersMapped
<1>9. ResultsStored'
    BY <1>1, <1>2, <1>4, <1>6 DEF ResultsStored
<1>10. FlightsLed'
    BY <1>1, <1>5 DEF FlightsLed
<1>11. SleepersAwaited'
    BY <1>1, <1>2, <1>6 DEF SleepersAwaited
<1> QED BY <1>7, <1>8, <1>9, <1>10, <1>11, LeadersDiffer, PTL

LEMMA RemoveFlights ==
    ASSUME TypeOK, FlightInv, NEW t \in Thread, RemoveFlight(t)
    PROVE  FlightInv'
<1> DEFINE p == made[flight[t]]
<1> USE DEF TypeOK, FlightInv
<1>1. /\ pc[t] = "remove" /\ flight[t] # 0 /\ Leading(t)
      /\ pc' = [pc EXCEPT ![t] = "idle"]
      /\ flight' = [flight EXCEPT ![t] = 0]
      /\ UNCHANGED <<outcome, made>>
      /\ \A u \in Thread \ {t} : result'[u] = result[u]
    BY DEF RemoveFlight, HasFlight, Leading, Leads
<1>2. p \in Payload
    BY <1>1 DEF HasFlight
<1>3. flights[p] = flight[t]
    BY <1>1 DEF LeadersMapped
<1> HIDE DEF p
<1>4. flights' = [flights EXCEPT ![p] = 0]
    BY <1>3 DEF RemoveFlight, p
<1>5. \A u \in Thread \ {t} : pc'[u] = pc[u] /\ flight'[u] = flight[u]
    BY <1>1
<1>6. \A u \in Thread : Leading(u)' <=> u # t /\ Leading(u)
    BY <1>1, <1>5 DEF Leading, Leads, Runs
<1>7. \A u \in Thread \ {t} : Leading(u) => made[flight[u]] # p
    BY <1>1, <1>3 DEF LeadersMapped
<1>8. \A g : Pending(g) => Pending(g)'
    BY <1>1, <1>5 DEF Pending, Runs
<1>9. pc'[t] = "idle" /\ flight'[t] = 0
    BY <1>1
<1>10. HasFlight'
    BY <1>1, <1>5, <1>9 DEF HasFlight
<1>11. LeadersMapped'
    <2> SUFFICES ASSUME NEW u \in Thread \ {t}, Leading(u)
                 PROVE  flights'[made[flight[u]]] = flight[u]
        BY <1>1, <1>5, <1>6 DEF LeadersMapped
    <2>1. made[flight[u]] \in Payload
        BY DEF Leading, HasFlight
    <2> QED BY <1>4, <1>7, <2>1 DEF LeadersMapped
<1>12. ResultsStored'
    BY <1>1, <1>5, <1>8, <1>9 DEF ResultsStored
<1>13. FlightsLed'
    <2> SUFFICES ASSUME NEW q \in Payload, flights'[q] # 0
                 PROVE  \E u \in Thread : /\ Leading(u)' /\ flight'[u] = flights'[q]
                                          /\ made'[flight'[u]] = q
        BY DEF FlightsLed
    <2>1. q # p /\ flights'[q] = flights[q]
        BY <1>2, <1>4
    <2>2. PICK u \in Thread : Leading(u) /\ flight[u] = flights[q] /\ made[flight[u]] = q
        BY <2>1 DEF FlightsLed
    <2>3. u # t
        BY <2>1, <2>2 DEF p
    <2> QED BY <1>1, <1>5, <1>6, <2>1, <2>2, <2>3
<1>14. SleepersAwaited'
    BY <1>5, <1>8, <1>9 DEF SleepersAwaited
<1> QED BY <1>10, <1>11, <1>12, <1>13, <1>14, LeadersDiffer, PTL

(* What no thread does leaves the flights as they are.                     *)
LEMMA FlightsUntouched ==
    ASSUME FlightInv, UNCHANGED <<flights, outcome, made, pc, flight, result>>
    PROVE  FlightInv'
BY DEF FlightInv, HasFlight, LeadersMapped, ResultsStored, FlightsLed, SleepersAwaited,
       OneRunPerPayload, Leading, Pending

LEMMA NextFlights ==
    ASSUME TypeOK, FlightInv, [Next]_vars
    PROVE  FlightInv'
<1>1. CASE UNCHANGED vars
    BY <1>1, FlightsUntouched DEF vars, map
<1>2. ASSUME NEW t \in Thread, Call(t) PROVE FlightInv'
    BY <1>2, LeadFlights, JoinFlights, BypassFlights DEF Call
<1>3. ASSUME NEW t \in Thread, Step(t) PROVE FlightInv'
    BY <1>3, RunTypes, RunFlights, WaitFlights, CompleteFlights, RemoveFlights,
       BypassFlights DEF Step
<1>4. ASSUME NEW t \in Thread, SpuriousWakeup(t) PROVE FlightInv'
    BY <1>4, WaitFlights
<1>5. CASE ReaderEnds
    BY <1>5, FlightsUntouched DEF ReaderEnds, map
<1> QED BY <1>1, <1>2, <1>3, <1>4, <1>5 DEF Next

(* The state is always well typed and FlightInv always holds.              *)
THEOREM FlightInvariant == Spec => [](TypeOK /\ FlightInv)
<1>1. Init => TypeOK /\ FlightInv
    BY InitTypes, InitFlights
<1>2. TypeOK /\ FlightInv /\ [Next]_vars => (TypeOK /\ FlightInv)'
    BY NextTypes, NextFlights
<1> QED BY <1>1, <1>2, PTL DEF Spec

(* A payload is never run twice at the same time, no flight leaks from     *)
(* SETUP_FLIGHTS and no sleeper is forgotten, for any number of threads.   *)
THEOREM FlightSafety == Spec => [](OneRunPerPayload /\ FlightsLed /\ SleepersAwaited)
<1>1. FlightInv => OneRunPerPayload /\ FlightsLed /\ SleepersAwaited
    BY DEF FlightInv
<1> QED BY <1>1, FlightInvariant, PTL

(* A step of a run: a run that is alone is this one.                       *)
LEMMA RunAlone ==
    ASSUME TypeOK, AloneInv, NEW t \in Thread,
           \/ ClearReport(t) \/ Launch(t) \/ SpawnReader(t) \/ HelperFails(t)
           \/ HelperSucceeds(t) \/ ReadReport(t) \/ Verify(t) \/ Tidy(t)
    PROVE  AloneInv'
<1> USE DEF readers
<1>1. /\ Running(t)
      /\ \A u \in Thread \ {t} : /\ pc'[u] = pc[u] /\ alone'[u] = alone[u]
                                 /\ cleared'[u] = cleared[u] /\ wrote'[u] = wrote[u]
                                 /\ u \in reading' <=> u \in reading
    BY DEF TypeOK, ClearReport, Launch, SpawnReader, HelperFails, HelperSucceeds, ReadReport,
           Verify, Tidy, Finish, Running, Runs
<1>2. \/ /\ pc'[t] = "complete" /\ ~alone'[t] /\ wrote'[t] = "none" /\ t \notin reading'
      \/ /\ pc'[t] \in Runs /\ alone'[t] = alone[t] /\ late' = late
         /\ \/ /\ pc'[t] = "launch" /\ pc[t] = "clear" /\ UNCHANGED <<reading, wrote>>
               /\ cleared'[t] => report' = "none"
            \/ /\ pc'[t] = "helper" /\ pc[t] = "launch"
               /\ UNCHANGED <<cleared, wrote, report, reading>>
            \/ /\ pc'[t] = "refreshed" /\ pc[t] = "helper"
               /\ UNCHANGED <<cleared, wrote, report>>
            \/ /\ pc'[t] = "failed" /\ pc[t] \in {"helper", "refreshed"} /\ cleared' = cleared
               /\ report' = wrote'[t] \/ UNCHANGED <<report, wrote>>
            \/ pc'[t] \in {"verify", "tidy"}
    BY DEF TypeOK, ClearReport, Launch, SpawnReader, HelperFails, HelperSucceeds, ReadReport,
           Verify, Tidy, Finish, Running, Runs
<1>3. \A u \in Thread \ {t} : ~alone[u]
    BY <1>1 DEF AloneInv
<1>4. \A u \in Thread \ {t} : Running(u)' <=> Running(u)
    BY <1>1 DEF Running
<1>5. /\ alone'[t] => Running(t)' /\ (\A u \in Thread \ {t} : ~Running(u)') /\ late' = 0
      /\ pc'[t] \notin {"refreshed", "failed", "verify", "tidy"} =>
            wrote'[t] = "none" /\ t \notin reading'
      /\ alone'[t] /\ cleared'[t] /\ pc'[t] \in {"launch", "helper", "refreshed", "failed"} =>
            report' = wrote'[t]
    BY <1>2, <1>4 DEF AloneInv, Running, Runs
<1>6. ASSUME NEW u \in Thread \ {t}
      PROVE  /\ ~alone'[u]
             /\ pc'[u] \notin {"refreshed", "failed", "verify", "tidy"} =>
                   wrote'[u] = "none" /\ u \notin reading'
    BY <1>1, <1>3 DEF AloneInv
<1> QED BY <1>5, <1>6 DEF AloneInv

(* A run begins: it is alone only if nobody else runs.                     *)
LEMMA BeginAlone ==
    ASSUME TypeOK, AloneInv, NEW t \in Thread,
           Bypass(t) \/ \E p \in Payload : Lead(t, p)
    PROVE  AloneInv'
<1>1. /\ pc[t] = "idle" /\ pc' = [pc EXCEPT ![t] = "clear"]
      /\ Begins(t) /\ UNCHANGED <<cleared, report, wrote, reading, late>>
    BY DEF Bypass, Lead, readers
<1>2. /\ pc'[t] = "clear" /\ ~Running(t) /\ Running(t)'
      /\ \A u \in Thread \ {t} : pc'[u] = pc[u] /\ (Running(u)' <=> Running(u))
    BY <1>1 DEF TypeOK, Running, Runs
<1>3. /\ alone'[t] = (late = 0 /\ \A v \in Thread \ {t} : ~Running(v))
      /\ \A u \in Thread \ {t} : alone'[u] = (alone[u] /\ ~Running(u))
    BY <1>1 DEF Begins
<1>4. \A u \in Thread \ {t} : ~alone'[u]
    BY <1>3 DEF AloneInv
<1>5. \A u \in Thread : pc'[u] \notin {"refreshed", "failed", "verify", "tidy"} =>
        wrote'[u] = "none" /\ u \notin reading'
    BY <1>1, <1>2 DEF AloneInv
<1> QED BY <1>1, <1>2, <1>3, <1>4, <1>5 DEF AloneInv

(* A step outside of the runs changes nothing that they depend on.         *)
LEMMA OutsideAlone ==
    ASSUME TypeOK, AloneInv, NEW t \in Thread,
           \/ Look(t) \/ SpuriousWakeup(t) \/ Complete(t) \/ RemoveFlight(t)
           \/ ReturnBypass(t) \/ \E p \in Payload : Join(t, p)
    PROVE  AloneInv'
<1>1. UNCHANGED <<cleared, report, wrote, alone, reading, late>>
    BY DEF Look, SpuriousWakeup, Complete, RemoveFlight, ReturnBypass, Join, readers
<1>2. \A u \in Thread : \/ pc'[u] = pc[u]
                        \/ pc[u] \notin Runs /\ pc'[u] \notin Runs
    BY DEF TypeOK, Look, SpuriousWakeup, Complete, RemoveFlight, ReturnBypass, Join, Runs
<1>3. \A u \in Thread : Running(u)' <=> Running(u)
    BY <1>2 DEF Running
<1>4. \A u \in Thread : \A l \in Runs : pc'[u] = l <=> pc[u] = l
    BY <1>2 DEF Runs
<1> QED BY <1>1, <1>3, <1>4 DEF AloneInv, Runs

(* A read-ACL helper that ends while a run is alone is that run's.         *)
LEMMA ReaderAlone ==
    ASSUME TypeOK, AloneInv, ReaderEnds
    PROVE  AloneInv'
<1>1. UNCHANGED <<pc, cleared, alone>> /\ \A u \in Thread : Running(u)' <=> Running(u)
    BY DEF ReaderEnds, Running
<1>2. CASE late > 0 /\ UNCHANGED <<reading, wrote>>
    <2>1. \A u \in Thread : ~alone[u]
        BY <1>2 DEF AloneInv
    <2> QED BY <1>1, <1>2, <2>1 DEF AloneInv
<1>3. ASSUME NEW t \in reading, reading' = reading \ {t}, late' = late,
             \/ \E c \in Code : report' = c /\ wrote' = [wrote EXCEPT ![t] = c]
             \/ UNCHANGED <<report, wrote>>
      PROVE  AloneInv'
    <2>1. t \in Thread /\ Running(t) /\ pc[t] \in {"refreshed", "failed", "verify", "tidy"}
        BY <1>3 DEF TypeOK, AloneInv, Running, Runs
    <2>2. \A u \in Thread \ {t} : ~alone[u] /\ wrote'[u] = wrote[u]
        BY <1>3, <2>1 DEF TypeOK, AloneInv
    <2>3. report' = wrote'[t] \/ (report' = report /\ wrote'[t] = wrote[t])
        BY <1>3, <2>1 DEF TypeOK
    <2> QED BY <1>1, <1>3, <2>1, <2>2, <2>3 DEF AloneInv
<1> QED BY <1>2, <1>3 DEF ReaderEnds

LEMMA NextAlone ==
    ASSUME TypeOK, AloneInv, [Next]_vars
    PROVE  AloneInv'
<1>1. CASE UNCHANGED vars
    BY <1>1 DEF vars, readers, AloneInv, Running
<1>2. ASSUME NEW t \in Thread, Call(t) \/ Step(t) \/ SpuriousWakeup(t) PROVE AloneInv'
    BY <1>2, RunAlone, BeginAlone, OutsideAlone DEF Call, Step
<1> QED BY <1>1, <1>2, ReaderAlone DEF Next

(* A run that had the home to itself, earlier read-ACL helpers included,   *)
(* never answers with the failure of an earlier run, for any number of     *)
(* threads, payloads, flights and read-ACL helpers.                        *)
THEOREM ReportSafety == Spec => OwnReport
<1>1. Init => AloneInv
    BY DEF Init, AloneInv
<1>2. TypeOK /\ AloneInv /\ [Next]_vars => AloneInv'
    BY NextAlone
<1>3. ASSUME TypeOK, AloneInv, [Next]_vars, NEW t \in Thread,
             pc[t] = "failed", pc'[t] # "failed", alone[t], cleared[t]
      PROVE  \/ result'[t] = IF wrote[t] = "none" THEN "nonzero" ELSE wrote[t]
             \/ result'[t] = "broken" /\ t \in reading
    <2>1. late = 0 /\ \A u \in Thread \ {t} : ~Running(u)
        BY <1>3 DEF AloneInv
    <2>2. ReadReport(t)
        <3>1. PICK u \in Thread : Call(u) \/ Step(u) \/ SpuriousWakeup(u)
            BY <1>3 DEF Next, vars, ReaderEnds
        <3>2. CASE u = t
            BY <1>3, <3>1, <3>2 DEF Call, Step, Lead, Join, Bypass, Look, ClearReport,
               Launch, SpawnReader, HelperFails, HelperSucceeds, Verify, Tidy, Complete,
               RemoveFlight, ReturnBypass, SpuriousWakeup
        <3>3. CASE u # t
            BY <1>3, <3>1, <3>3 DEF TypeOK, Call, Step, Lead, Join, Bypass, Look, ClearReport,
               Launch, SpawnReader, HelperFails, HelperSucceeds, ReadReport, Verify, Tidy,
               Complete, RemoveFlight, ReturnBypass, SpuriousWakeup, Finish
        <3> QED BY <3>2, <3>3
    <2>3. reading \subseteq {t}
        BY <1>3, <2>1 DEF TypeOK, AloneInv, Running, Runs
    <2>4. ~BeingWritten(t) \/ t \in reading
        BY <2>1, <2>3 DEF BeingWritten, Running, Runs
    <2>5. \/ Finish(t, IF cleared[t] /\ report # "none" THEN report ELSE "nonzero")
          \/ Finish(t, "broken") /\ t \in reading
        BY <2>2, <2>4 DEF ReadReport
    <2>6. report = wrote[t]
        BY <1>3 DEF AloneInv
    <2> QED BY <1>3, <2>5, <2>6 DEF Finish, TypeOK
<1>4. TypeOK /\ AloneInv /\ [Next]_vars =>
        [\A t \in Thread :
            pc[t] = "failed" /\ pc'[t] # "failed" /\ alone[t] /\ cleared[t] =>
              \/ result'[t] = IF wrote[t] = "none" THEN "nonzero" ELSE wrote[t]
              \/ result'[t] = "broken" /\ t \in reading]_vars
    BY <1>3
<1> QED BY <1>1, <1>2, <1>4, FlightInvariant, PTL DEF Spec, OwnReport
-----------------------------------------------------------------------------
(* Credentials: an attempt that nobody disturbs repairs every state of     *)
(* marker, users file and accounts, and logs on under its own settings.    *)

(* A capture and its flight are what their types say.                      *)
LEMMA CaptureCallTypes ==
    ASSUME CredsTypeOK, NEW c \in Client
    PROVE  /\ call[c].process \in Process /\ call[c].want \in Settings
           /\ call[c].offline \in BOOLEAN /\ call[c].preserve \in BOOLEAN
           /\ FlightOf(c) \in SharedRun /\ FlightOf(c)[2] = desired[c]
BY DEF CredsTypeOK, CaptureCall, FlightOf, SharedRun

LEMMA DesiredTypes ==
    ASSUME CredsTypeOK, NEW c \in Client, NEW m \in Settings \cup {None}
    PROVE  /\ Desired(c, m) \in Settings
           /\ call[c].offline /\ ~call[c].preserve => Desired(c, m) = call[c].want
<1>1. [ports |-> {}, binding |-> FALSE] \in Settings
    BY DEF Settings
<1> QED BY <1>1, CaptureCallTypes DEF Desired, FromEnv, CredsTypeOK

LEMMA CredsInitTypes == CredsInit => CredsTypeOK
<1> SUFFICES ASSUME CredsInit PROVE CredsTypeOK
    OBVIOUS
<1>1. call \in [Client -> CaptureCall] /\ desired \in [Client -> Settings]
    BY CredsConstants DEF CredsInit, CaptureCall
<1>2. /\ users \in 0..MaxGen /\ password \in 0..MaxGen /\ last \in 0..MaxGen /\ enabled \in BOOLEAN
      /\ garbled = FALSE /\ unseen = [c \in Client |-> FALSE]
    BY CredsConstants DEF CredsInit
<1>3. /\ drawn \in [SharedRun -> 0..MaxGen] /\ creds \in [Client -> 0..MaxGen]
      /\ marker = None
      /\ run = [f \in SharedRun |-> "none"] /\ stage = [c \in Client |-> "idle"]
      /\ retried = [c \in Client |-> FALSE] /\ disturbed = [c \in Client |-> FALSE]
    BY CredsConstants DEF CredsInit
<1> HIDE DEF CredsInit
<1> QED BY <1>1, <1>2, <1>3 DEF CredsTypeOK, Outcome

(* Who is disturbed stays a matter of yes or no.                           *)
LEMMA DisturbTypes ==
    ASSUME NEW calm, DisturbBut(calm)
    PROVE  /\ disturbed' \in [Client -> BOOLEAN]
           /\ \A c \in Client : ~disturbed'[c] => ~disturbed[c] /\ c \in calm
<1>1. \A c \in Client : (disturbed[c] \/ c \notin calm) \in BOOLEAN
    OBVIOUS
<1> QED BY <1>1, Zenon DEF DisturbBut

LEMMA NoIdentityTypes ==
    ASSUME CredsTypeOK, NEW c \in Client, NEW before, NEW missing, NoIdentity(c, before, missing)
    PROVE  /\ stage' \in [Client -> Outcome \cup {"idle", "check", "marker", "users", "accounts",
              "setup", "waiting", "remarker", "reusers", "refresh", "logon", "remove"}]
           /\ unseen' \in [Client -> BOOLEAN]
           /\ \A d \in Client \ {c} : stage'[d] = stage[d] /\ unseen'[d] = unseen[d]
           /\ stage'[c] = IF stage[c] = before THEN "setup" ELSE "refresh"
           /\ stage[c] # before /\ ~missing => unseen'[c]
BY DEF CredsTypeOK, NoIdentity, Go

LEMMA ClientTypes ==
    ASSUME CredsTypeOK, NEW c \in Client, Start(c) \/ ClientStep(c), UNCHANGED call
    PROVE  CredsTypeOK'
<1> USE DEF CredsTypeOK, home, machine, setup, local, Outcome, Go
<1>1. CASE Start(c) BY <1>1, CredsConstants DEF Start
<1>2. CASE CheckMarker(c)
    <2>1. PICK m \in {marker, None} :
            /\ desired' = [desired EXCEPT ![c] = Desired(c, m)]
            /\ Go(c, IF m # None /\ Matches(c, m, Desired(c, m)) THEN "marker" ELSE "setup")
        BY <1>2 DEF CheckMarker
    <2>2. Desired(c, m) \in Settings
        BY <2>1, DesiredTypes
    <2> QED BY <1>2, <2>1, <2>2 DEF CheckMarker
<1>3. CASE SelectMarker(c)
    <2>1. stage' \in [Client -> Outcome \cup {"idle", "check", "marker", "users", "accounts",
              "setup", "waiting", "remarker", "reusers", "refresh", "logon", "remove"}] /\ unseen' \in [Client -> BOOLEAN]
        BY <1>3, NoIdentityTypes DEF SelectMarker
    <2> QED BY <1>3, <2>1 DEF SelectMarker
<1>4. CASE SelectUsers(c)
    <2>1. /\ stage' \in [Client -> Outcome \cup {"idle", "check", "marker", "users", "accounts",
              "setup", "waiting", "remarker", "reusers", "refresh", "logon", "remove"}] /\ unseen' \in [Client -> BOOLEAN]
          /\ creds' \in [Client -> 0..MaxGen]
        BY <1>4, NoIdentityTypes, CredsConstants DEF SelectUsers
    <2> QED BY <1>4, <2>1 DEF SelectUsers
<1>5. CASE CheckAccounts(c)
    <2>1. /\ stage' \in [Client -> Outcome \cup {"idle", "check", "marker", "users", "accounts",
              "setup", "waiting", "remarker", "reusers", "refresh", "logon", "remove"}] /\ creds' \in [Client -> 0..MaxGen]
        BY <1>5, CredsConstants DEF CheckAccounts
    <2>2. unseen' \in [Client -> BOOLEAN]
        BY <1>5 DEF CheckAccounts
    <2> QED BY <1>5, <2>1, <2>2 DEF CheckAccounts
<1>6. CASE RequestSetup(c) BY <1>6, CaptureCallTypes DEF RequestSetup
<1>7. CASE Refresh(c) BY <1>7 DEF Refresh
<1>8. CASE Logon(c) BY <1>8 DEF Logon
<1>9. CASE RemoveUsers(c)
    <2>1. disturbed' \in [Client -> BOOLEAN] /\ unseen' \in [Client -> BOOLEAN]
        BY <1>9 DEF RemoveUsers
    <2>2. /\ users' \in 0..MaxGen /\ garbled' \in BOOLEAN /\ retried' \in [Client -> BOOLEAN]
        <3>1. 0 \in 0..MaxGen
            BY CredsConstants
        <3> QED BY <1>9, <3>1 DEF RemoveUsers
    <2>4. creds' \in [Client -> 0..MaxGen]
        <3>1. 0 \in 0..MaxGen
            BY CredsConstants
        <3> QED BY <1>9, <3>1 DEF RemoveUsers
    <2>3. stage' \in [Client -> Outcome \cup {"idle", "check", "marker", "users", "accounts",
                "setup", "waiting", "remarker", "reusers", "refresh", "logon", "remove"}]
        BY <1>9 DEF RemoveUsers
    <2> QED BY <1>9, <2>1, <2>2, <2>3, <2>4 DEF RemoveUsers
<1> QED BY <1>1, <1>2, <1>3, <1>4, <1>5, <1>6, <1>7, <1>8, <1>9 DEF ClientStep

LEMMA SharedRunTypes ==
    ASSUME CredsTypeOK, NEW f \in SharedRun, RunStep(f), UNCHANGED call
    PROVE  CredsTypeOK'
<1> USE DisturbTypes, CredsConstants DEF CredsTypeOK, home, machine, local, Outcome
<1>1. CASE BeginRun(f) BY <1>1 DEF BeginRun
<1>2. CASE Rotate(f) BY <1>2 DEF Rotate
<1>3. CASE WriteUsers(f) BY <1>3 DEF WriteUsers
<1>4. CASE CommitMarker(f) BY <1>4 DEF CommitMarker, SharedRun
<1>5. CASE VerifyRun(f)
    <2>1. unseen' \in [Client -> BOOLEAN]
        <3>1. \A c \in Client :
                (unseen[c] \/ ((marker # None /\ users # 0) /\ c \in Waiting(f))) \in BOOLEAN
            OBVIOUS
        <3>2. CASE unseen' = unseen
            BY <3>2
        <3>3. CASE unseen' = [c \in Client |->
                    unseen[c] \/ ((marker # None /\ users # 0) /\ c \in Waiting(f))]
            BY <3>1, <3>3, Zenon
        <3> QED BY <1>5, <3>2, <3>3 DEF VerifyRun
    <2>2. /\ run' \in [SharedRun -> {"none", "begin", "rotate", "write", "commit", "verify"}]
          /\ drawn' \in [SharedRun -> 0..MaxGen]
          /\ stage' \in [Client -> Outcome \cup {"idle", "check", "marker", "users", "accounts",
                "setup", "waiting", "remarker", "reusers", "refresh", "logon", "remove"}]
        BY <1>5 DEF VerifyRun, Tell
    <2> QED BY <1>5, <2>1, <2>2 DEF VerifyRun
<1>6. CASE RunFails(f) BY <1>6 DEF RunFails, Tell
<1> QED BY <1>1, <1>2, <1>3, <1>4, <1>5, <1>6 DEF RunStep

LEMMA CredsNextTypes ==
    ASSUME CredsTypeOK, [CredsNext /\ UNCHANGED call]_<<credsVars, call>>
    PROVE  CredsTypeOK'
<1>1. CASE UNCHANGED <<credsVars, call>>
    BY <1>1 DEF credsVars, CredsTypeOK, home, machine, setup, local
<1>2. CASE OtherHome /\ UNCHANGED call
    <2>1. last + 1 \in 0..MaxGen
        BY <1>2, CredsConstants DEF OtherHome, CredsTypeOK
    <2> QED BY <1>2, <2>1, DisturbTypes DEF OtherHome, CredsTypeOK, home, setup, local
<1>3. CASE (Uninstall \/ Garble) /\ UNCHANGED call
    BY <1>3, DisturbTypes DEF Uninstall, Garble, CredsTypeOK, home, machine, setup, local
<1> QED BY <1>1, <1>2, <1>3, ClientTypes, SharedRunTypes DEF CredsNext

----------------------------------------------------------------------------
LEMMA CredsInitFacts == CredsInit => CredsFacts
BY DEF CredsInit, CredsFacts, ClientFacts, Calm

(* Settings match themselves.                                              *)
LEMMA MatchesSelf ==
    ASSUME NEW c \in Client, NEW s
    PROVE  Matches(c, s, s)
BY DEF Matches

(* Another capture's step: it starts no second run of a flight, and only   *)
(* removes a users file that nobody undisturbed relies on.                 *)
LEMMA BystanderStep ==
    ASSUME CredsTypeOK, CredsFacts, NEW d \in Client, Start(d) \/ ClientStep(d), UNCHANGED call,
           NEW c \in Client, c # d
    PROVE  ClientFacts(c)'
<1>1. /\ stage'[c] = stage[c] /\ desired'[c] = desired[c] /\ creds'[c] = creds[c]
      /\ retried'[c] = retried[c] /\ unseen'[c] = unseen[c]
      /\ UNCHANGED <<marker, password, enabled, drawn>>
      /\ \A f \in SharedRun : run'[f] = run[f] \/ (run[f] = "none" /\ run'[f] = "begin")
    BY DEF CredsTypeOK, Start, ClientStep, CheckMarker, SelectMarker, SelectUsers, CheckAccounts,
           RequestSetup, Refresh, Logon, RemoveUsers, Go, NoIdentity, home, machine, setup,
           local
<1>2. ~disturbed'[c] => ~disturbed[c] /\ users' = users /\ garbled' = garbled
    BY DEF CredsTypeOK, Start, ClientStep, CheckMarker, SelectMarker, SelectUsers, CheckAccounts,
           RequestSetup, Refresh, Logon, RemoveUsers, home, machine, setup, local
<1>3. FlightOf(c)' = FlightOf(c) /\ FlightOf(c) \in SharedRun
    BY <1>1, CaptureCallTypes DEF FlightOf
<1>4. ClientFacts(c)
    BY DEF CredsFacts
<1>5. Matches(c, marker, desired[c])' <=> Matches(c, marker, desired[c])
    BY <1>1 DEF Matches
<1>6. ~disturbed'[c] /\ stage[c] = "waiting" => RunSoFar(FlightOf(c))'
    BY <1>1, <1>2, <1>3, <1>4 DEF ClientFacts, Calm, RunSoFar
<1>7. ~disturbed'[c] => Calm(c)'
    BY <1>1, <1>2, <1>4, <1>5, <1>6 DEF ClientFacts, Calm, Repaired
<1> QED BY <1>1, <1>3, <1>4, <1>7 DEF ClientFacts

(* A capture's own step.                                                   *)
LEMMA OwnStep ==
    ASSUME CredsTypeOK, CredsFacts, NEW c \in Client, Start(c) \/ ClientStep(c), UNCHANGED call
    PROVE  ClientFacts(c)'
<1> USE DEF home, machine, setup, local, Go
<1>0. ClientFacts(c)
    BY DEF CredsFacts
<1>1. CASE Start(c)
    BY <1>0, <1>1 DEF Start, ClientFacts, Calm, CredsTypeOK
<1>2. CASE CheckMarker(c)
    <2>1. PICK m \in {marker, None} :
            /\ desired' = [desired EXCEPT ![c] = Desired(c, m)]
            /\ Go(c, IF m # None /\ Matches(c, m, Desired(c, m)) THEN "marker" ELSE "setup")
        BY <1>2 DEF CheckMarker
    <2>2. /\ m \in Settings \cup {None}
          /\ stage'[c] \in {"marker", "setup"} /\ desired'[c] = Desired(c, m)
        BY <2>1 DEF CredsTypeOK
    <2>3. stage'[c] = "marker" => marker # None /\ Matches(c, marker, desired[c])'
        BY <1>2, <2>1, <2>2 DEF CheckMarker, CredsTypeOK, Matches
    <2> QED BY <1>0, <1>2, <2>2, <2>3, DesiredTypes DEF CheckMarker, ClientFacts, Calm
<1>3. CASE SelectMarker(c)
    <2>1. /\ UNCHANGED <<home, machine, setup, local, disturbed>>
          /\ Matches(c, marker, desired[c])' <=> Matches(c, marker, desired[c])
        BY <1>3 DEF SelectMarker, Matches
    <2>2. \/ /\ stage[c] = "marker" /\ stage'[c] \in {"users", "setup"}
          \/ /\ stage[c] = "remarker" /\ stage'[c] = "reusers"
          \/ /\ stage[c] = "remarker" /\ stage'[c] = "refresh"
             /\ marker = None \/ unseen'[c]
        BY <1>3, NoIdentityTypes DEF SelectMarker, CredsTypeOK
    <2> QED BY <1>0, <2>1, <2>2 DEF ClientFacts, Calm, CredsTypeOK, Repaired
<1>4. CASE SelectUsers(c)
    <2>1. /\ UNCHANGED <<home, machine, setup, desired, retried, disturbed>>
          /\ Matches(c, marker, desired[c])' <=> Matches(c, marker, desired[c])
        BY <1>4 DEF SelectUsers, Matches
    <2>2. \/ /\ stage[c] = "users" /\ stage'[c] = "accounts" /\ creds'[c] = users /\ users # 0
          \/ /\ stage[c] = "users" /\ stage'[c] = "setup" /\ creds'[c] = 0
          \/ /\ stage[c] \in {"users", "reusers"} /\ stage'[c] = "undecoded"
             /\ users # 0 /\ garbled
          \/ /\ stage[c] = "reusers" /\ stage'[c] = "refresh" /\ creds'[c] = users /\ users # 0
          \/ /\ stage[c] = "reusers" /\ stage'[c] = "refresh" /\ creds'[c] = 0
             /\ users = 0 \/ unseen'[c]
        BY <1>4, NoIdentityTypes DEF SelectUsers, CredsTypeOK
    <2> QED BY <1>0, <2>1, <2>2 DEF ClientFacts, Calm, CredsTypeOK, Repaired
<1>5. CASE CheckAccounts(c)
    <2>1. /\ UNCHANGED <<home, machine, setup, desired, retried, disturbed>>
          /\ Matches(c, marker, desired[c])' <=> Matches(c, marker, desired[c])
        BY <1>5 DEF CheckAccounts, Matches
    <2>2. \/ /\ stage'[c] = "refresh" /\ creds'[c] = creds[c]
             /\ enabled \/ unseen'[c]
          \/ stage'[c] = "setup" /\ creds'[c] = 0
        BY <1>5 DEF CheckAccounts, CredsTypeOK
    <2> QED BY <1>0, <1>5, <2>1, <2>2 DEF CheckAccounts, ClientFacts, Calm, CredsTypeOK
<1>6. CASE RequestSetup(c)
    <2>1. /\ stage[c] = "setup" /\ stage'[c] = "waiting"
          /\ FlightOf(c)' = FlightOf(c) /\ FlightOf(c) \in SharedRun
          /\ UNCHANGED <<desired, retried, creds>>
        BY <1>6, CaptureCallTypes DEF RequestSetup, CredsTypeOK, FlightOf
    <2>2. run'[FlightOf(c)] # "none"
        BY <1>6, <2>1 DEF RequestSetup, CredsTypeOK
    <2>3. ~disturbed'[c] => run'[FlightOf(c)] = "begin"
        BY <1>6, <2>1 DEF RequestSetup, CredsTypeOK
    <2> QED BY <1>0, <2>1, <2>2, <2>3 DEF ClientFacts, Calm, RunSoFar
<1>7. CASE Refresh(c)
    BY <1>0, <1>7 DEF Refresh, ClientFacts, Calm, CredsTypeOK, Matches
<1>8. CASE Logon(c)
    BY <1>0, <1>8 DEF Logon, ClientFacts, Calm, CredsTypeOK
<1>9. CASE RemoveUsers(c)
    BY <1>0, <1>9 DEF RemoveUsers, ClientFacts, Calm, CredsTypeOK
<1> QED BY <1>1, <1>2, <1>3, <1>4, <1>5, <1>6, <1>7, <1>8, <1>9 DEF ClientStep

(* A run that goes on: only those who wait for it stay undisturbed, and    *)
(* for them it has done one more thing.                                    *)
LEMMA RunGoesOn ==
    ASSUME CredsTypeOK, CredsFacts, NEW f \in SharedRun, UNCHANGED call,
           BeginRun(f) \/ Rotate(f) \/ WriteUsers(f) \/ CommitMarker(f)
    PROVE  CredsFacts'
<1>1. /\ UNCHANGED <<stage, desired, creds, retried, unseen>> /\ DisturbBut(Waiting(f))
      /\ run'[f] # "none" /\ \A g \in SharedRun \ {f} : run'[g] = run[g]
    BY DEF BeginRun, Rotate, WriteUsers, CommitMarker, local, CredsTypeOK
<1>2. RunSoFar(f) => RunSoFar(f)'
    <2>1. CASE BeginRun(f)
        BY <2>1 DEF BeginRun, RunSoFar, CredsTypeOK
    <2>2. CASE Rotate(f)
        BY <2>2 DEF Rotate, RunSoFar, CredsTypeOK
    <2>3. CASE WriteUsers(f)
        BY <2>3 DEF WriteUsers, RunSoFar, CredsTypeOK
    <2>4. CASE CommitMarker(f)
        BY <2>4 DEF CommitMarker, RunSoFar, CredsTypeOK, machine
    <2> QED BY <2>1, <2>2, <2>3, <2>4
<1>3. ASSUME NEW c \in Client PROVE ClientFacts(c)'
    <2>1. ClientFacts(c)
        BY DEF CredsFacts
    <2>2. FlightOf(c)' = FlightOf(c) /\ FlightOf(c) \in SharedRun
        BY <1>1, CaptureCallTypes DEF FlightOf
    <2>3. ~disturbed'[c] => ~disturbed[c] /\ stage[c] = "waiting" /\ FlightOf(c) = f
        BY <1>1, DisturbTypes DEF Waiting
    <2>4. ~disturbed'[c] => Calm(c)'
        BY <1>1, <1>2, <2>1, <2>2, <2>3 DEF ClientFacts, Calm
    <2> QED BY <1>1, <2>1, <2>2, <2>4 DEF ClientFacts
<1> QED BY <1>3 DEF CredsFacts

(* A run that ends: all who waited go on with its result.                  *)
LEMMA RunEnds ==
    ASSUME CredsTypeOK, CredsFacts, NEW f \in SharedRun, UNCHANGED call, VerifyRun(f) \/ RunFails(f)
    PROVE  CredsFacts'
<1>1. PICK step \in {"remarker", "notready", "helper"} : Tell(f, step)
    BY DEF VerifyRun, RunFails
<1>2. /\ UNCHANGED <<marker, users, garbled, password, enabled, desired, creds, retried, disturbed>>
      /\ \A g \in SharedRun \ {f} : run'[g] = run[g] /\ drawn'[g] = drawn[g]
      /\ \A c \in Client : stage'[c] = IF c \in Waiting(f) THEN step ELSE stage[c]
      /\ \A c \in Client \ Waiting(f) : unseen'[c] = unseen[c]
    BY <1>1 DEF VerifyRun, RunFails, Tell, home, machine, local, CredsTypeOK
<1>3. ASSUME NEW c \in Client, c \notin Waiting(f) PROVE ClientFacts(c)'
    <2>1. ClientFacts(c) /\ stage'[c] = stage[c]
        BY <1>2, <1>3 DEF CredsFacts
    <2>2. FlightOf(c)' = FlightOf(c) /\ FlightOf(c) \in SharedRun
        BY <1>2, CaptureCallTypes DEF FlightOf
    <2>3. stage[c] = "waiting" => /\ run'[FlightOf(c)] = run[FlightOf(c)]
                                  /\ RunSoFar(FlightOf(c)) => RunSoFar(FlightOf(c))'
        BY <1>2, <1>3, <2>2 DEF Waiting, RunSoFar
    <2>4. Calm(c) => Calm(c)'
        BY <1>2, <1>3, <2>1, <2>2, <2>3 DEF Calm, Repaired, Matches
    <2> QED BY <1>2, <2>1, <2>2, <2>3, <2>4 DEF ClientFacts
<1>4. ASSUME NEW c \in Client, c \in Waiting(f) PROVE ClientFacts(c)'
    <2>1. ClientFacts(c) /\ stage'[c] = step /\ stage[c] = "waiting" /\ FlightOf(c) = f
        BY <1>2, <1>4 DEF CredsFacts, Waiting
    <2>2. f[2] = desired[c] /\ desired[c] # None
        BY <2>1, CaptureCallTypes, CredsConstants DEF CredsTypeOK
    <2>3. CASE RunFails(f)
        <3>1. stage'[c] = "helper"
            BY <2>1, <2>3 DEF RunFails, Tell, CredsTypeOK
        <3> QED BY <1>2, <2>1, <3>1 DEF ClientFacts, Calm
    <2>4. CASE VerifyRun(f)
        <3>1. ~disturbed[c] => Repaired /\ marker = desired[c]
            BY <2>1, <2>2, <2>4 DEF VerifyRun, ClientFacts, Calm, RunSoFar, Repaired
        <3>2. ~disturbed[c] => stage'[c] = "remarker" \/ (stage'[c] = "notready" /\ unseen'[c])
            BY <2>1, <2>2, <2>4, <3>1, <1>4 DEF VerifyRun, Tell, Repaired, CredsTypeOK
        <3>3. ~disturbed[c] => Matches(c, marker, desired[c])'
            BY <1>2, <3>1 DEF Matches
        <3>4. stage'[c] # "waiting"
            BY <1>1, <2>1
        <3> QED BY <1>2, <2>1, <2>2, <3>1, <3>2, <3>3, <3>4 DEF ClientFacts, Calm, Repaired
    <2> QED BY <2>3, <2>4
<1> QED BY <1>3, <1>4 DEF CredsFacts

LEMMA CredsNextFacts ==
    ASSUME CredsTypeOK, CredsFacts, [CredsNext /\ UNCHANGED call]_<<credsVars, call>>
    PROVE  CredsFacts'
<1>1. CASE UNCHANGED <<credsVars, call>>
    BY <1>1 DEF credsVars, home, machine, setup, local, CredsFacts, ClientFacts, Calm, RunSoFar,
                Repaired, Matches, FlightOf
<1>2. CASE (OtherHome \/ Uninstall \/ Garble) /\ UNCHANGED call
    <2>1. /\ UNCHANGED <<run, stage, desired, creds>> /\ DisturbBut({})
        BY <1>2 DEF OtherHome, Uninstall, Garble, setup, local
    <2>2. \A c \in Client : disturbed'[c] = TRUE
        BY <2>1, DisturbTypes
    <2> QED BY <1>2, <2>1, <2>2 DEF CredsFacts, ClientFacts, FlightOf
<1>3. ASSUME NEW d \in Client, Start(d) \/ ClientStep(d), UNCHANGED call PROVE CredsFacts'
    <2>1. ASSUME NEW c \in Client, c # d PROVE ClientFacts(c)'
        BY <1>3, <2>1, BystanderStep
    <2>2. ClientFacts(d)'
        BY <1>3, OwnStep
    <2> QED BY <2>1, <2>2 DEF CredsFacts
<1> QED BY <1>1, <1>2, <1>3, RunGoesOn, RunEnds DEF CredsNext, RunStep

(* The inductive facts of the captures hold in every state.                *)
THEOREM CredsInvariant == CredsSpec => [](CredsTypeOK /\ CredsFacts)
<1>1. CredsInit => CredsTypeOK /\ CredsFacts
    BY CredsInitTypes, CredsInitFacts
<1>2. CredsTypeOK /\ CredsFacts /\ [CredsNext /\ UNCHANGED call]_<<credsVars, call>> =>
        (CredsTypeOK /\ CredsFacts)'
    BY CredsNextTypes, CredsNextFacts
<1> QED BY <1>1, <1>2, PTL DEF CredsSpec

(* Whatever marker, users file and accounts look like, an attempt that     *)
(* nobody disturbs is never refused a second time, finds the setup         *)
(* incomplete or the group gone only after a failed look of its own, and   *)
(* fails on an unreadable password only before it has set anything up.     *)
THEOREM CredsSafety == CredsSpec => []CredsInv
<1>1. CredsTypeOK /\ CredsFacts => CredsInv
    BY DEF CredsInv, Recovers, CredsFacts, ClientFacts, Calm
<1> QED BY <1>1, CredsInvariant, PTL

(* An undisturbed capture logs on to the offline account only under a      *)
(* firewall that is open for exactly what its environment wants.           *)
THEOREM SettingsSafety == CredsSpec => []OwnSettings
<1>1. CredsTypeOK /\ CredsFacts => OwnSettings
    BY DEF OwnSettings, CredsFacts, ClientFacts, Calm, Matches, Reachable
<1> QED BY <1>1, CredsInvariant, PTL
=============================================================================
