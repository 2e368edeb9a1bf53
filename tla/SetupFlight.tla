----------------------------- MODULE SetupFlight -----------------------------
(***************************************************************************)
(* Setup requests of one process for one codex home (src/src/setup.rs):    *)
(* threads that ask for the same payload share one run of the setup helper *)
(* (run_setup_singleflight), threads that ask for different payloads run   *)
(* helpers side by side, and every helper tells why it failed through the  *)
(* one setup_error.json of the home.  A request with retained directory    *)
(* handles shares nothing.                                                 *)
(*                                                                         *)
(* The helper itself is SetupProvision; here it succeeds, fails with a     *)
(* report, or fails without one.  A helper that refreshes may start a      *)
(* second helper for the read ACLs, which nobody waits for: it outlives    *)
(* the run, and when it fails it writes the same report.                   *)
(***************************************************************************)
EXTENDS Naturals, Sequences, FiniteSets

CONSTANTS
    Thread,
    Payload,        \* the encoded payloads, keys of SETUP_FLIGHTS
    Carrier,        \* threads that may come with retained handles
    Code,           \* failure codes a helper reports
    MaxFlights,     \* bound: flights made
    MaxReaders      \* bound: read-ACL helpers at work at once

ASSUME FlightConstants ==
    /\ Carrier \subseteq Thread
    /\ MaxFlights \in Nat /\ MaxReaders \in Nat
    /\ \A c \in {"none", "pending", "ok"} : c \notin Code

VARIABLES
    flights,        \* SETUP_FLIGHTS: payload -> its flight, or 0
    outcome,        \* flight -> "pending", or what its leader completed it with
    made,           \* the payloads of the flights made so far
    pc, flight,     \* per thread: where it is, its flight or 0
    cleared,        \* per run: the report was removed before the launch
    result,         \* per thread: what its run returned ("none": no run is over)
    report,         \* setup_error.json: "none" or a code
    reading,        \* the runs whose read-ACL helper is at work
    late,           \* how many read-ACL helpers are at work whose run is over
    wrote, alone    \* history: what this run's helpers wrote last; nobody else wrote meanwhile

map == <<flights, outcome, made>>
readers == <<reading, late>>
vars == <<map, pc, flight, cleared, result, report, readers, wrote, alone>>

Flight == 1..MaxFlights
\* What the orchestrator itself says of a helper: it is done, it exited
\* nonzero and left no report, it could not be launched or left the setup
\* incomplete.
Result == Code \cup {"ok", "nonzero", "broken"}

\* The steps of a run, and of the leader after it.
Runs == {"clear", "launch", "helper", "refreshed", "failed", "verify", "tidy"}
Leads == Runs \cup {"complete", "remove"}

Running(t) == pc[t] \in Runs
Leading(t) == pc[t] \in Leads /\ flight[t] # 0

\* A flight that is still going to be completed.
Pending(f) == \E u \in Thread : pc[u] \in Runs \cup {"complete"} /\ flight[u] = f

TypeOK ==
    /\ flights \in [Payload -> 0..MaxFlights]
    /\ outcome \in [Flight -> Result \cup {"pending"}]
    /\ made \in Seq(Payload) /\ Len(made) <= MaxFlights
    /\ pc \in [Thread -> Leads \cup {"idle", "joined", "asleep"}]
    /\ flight \in [Thread -> 0..MaxFlights]
    /\ cleared \in [Thread -> BOOLEAN]
    /\ result \in [Thread -> Result \cup {"none"}]
    /\ report \in Code \cup {"none"}
    /\ reading \subseteq Thread /\ late \in Nat
    /\ wrote \in [Thread -> Code \cup {"none"}]
    /\ alone \in [Thread -> BOOLEAN]

Init ==
    /\ flights = [p \in Payload |-> 0]
    /\ outcome = [f \in Flight |-> "pending"]
    /\ made = <<>>
    /\ pc = [t \in Thread |-> "idle"]
    /\ flight = [t \in Thread |-> 0]
    /\ cleared = [t \in Thread |-> FALSE]
    /\ result = [t \in Thread |-> "none"]
    /\ report = "none"
    /\ reading = {} /\ late = 0
    /\ wrote = [t \in Thread |-> "none"]
    /\ alone = [t \in Thread |-> FALSE]

----------------------------------------------------------------------------
(* run_setup_singleflight                                                  *)

\* A run begins: it is alone if nobody else runs and no earlier read-ACL
\* helper is still at work; whoever is running now no longer is.
Begins(t) ==
    alone' = [u \in Thread |->
                 IF u = t THEN late = 0 /\ \A v \in Thread \ {t} : ~Running(v)
                 ELSE alone[u] /\ ~Running(u)]

Lead(t, p) ==
    /\ pc[t] = "idle"
    /\ flights[p] = 0
    /\ Len(made) < MaxFlights
    /\ made' = Append(made, p)
    /\ flights' = [flights EXCEPT ![p] = Len(made')]
    /\ flight' = [flight EXCEPT ![t] = Len(made')]
    /\ pc' = [pc EXCEPT ![t] = "clear"]
    /\ Begins(t)
    /\ UNCHANGED <<outcome, cleared, result, report, readers, wrote>>

Join(t, p) ==
    /\ pc[t] = "idle"
    /\ flights[p] # 0
    /\ flight' = [flight EXCEPT ![t] = flights[p]]
    /\ pc' = [pc EXCEPT ![t] = "joined"]
    /\ UNCHANGED <<map, cleared, result, report, readers, wrote, alone>>

(* run_setup_exe with retained handles: "must not join a bare setup flight". *)
Bypass(t) ==
    /\ pc[t] = "idle"
    /\ pc' = [pc EXCEPT ![t] = "clear"]
    /\ Begins(t)
    /\ UNCHANGED <<map, flight, cleared, result, report, readers, wrote>>

(* SetupFlight::wait: the result is looked at under its lock, before every *)
(* sleep and after every wake-up.                                          *)
Look(t) ==
    /\ pc[t] = "joined"
    /\ IF outcome[flight[t]] = "pending"
       THEN pc' = [pc EXCEPT ![t] = "asleep"] /\ flight' = flight
       ELSE /\ pc' = [pc EXCEPT ![t] = "idle"]    \* returns outcome[flight[t]]
            /\ flight' = [flight EXCEPT ![t] = 0]
    /\ UNCHANGED <<map, cleared, result, report, readers, wrote, alone>>

SpuriousWakeup(t) ==
    /\ pc[t] = "asleep"
    /\ pc' = [pc EXCEPT ![t] = "joined"]
    /\ UNCHANGED <<map, flight, cleared, result, report, readers, wrote, alone>>

----------------------------------------------------------------------------
(* run_setup_exe_payload and run_setup_refresh_payload                     *)

\* A run is over with a result.
Finish(t, r) ==
    /\ pc' = [pc EXCEPT ![t] = "complete"]
    /\ result' = [result EXCEPT ![t] = r]
    /\ cleared' = [cleared EXCEPT ![t] = FALSE]
    /\ wrote' = [wrote EXCEPT ![t] = "none"]
    /\ alone' = [alone EXCEPT ![t] = FALSE]
    /\ reading' = reading \ {t}
    /\ late' = IF t \in reading THEN late + 1 ELSE late

\* Mutant: the report of an earlier run is not removed.
KeepReport(t) ==
    /\ pc[t] = "clear"
    /\ pc' = [pc EXCEPT ![t] = "launch"]
    /\ cleared' = [cleared EXCEPT ![t] = TRUE]
    /\ UNCHANGED <<map, flight, result, report, readers, wrote, alone>>

ClearReport(t) ==
    /\ pc[t] = "clear"
    /\ pc' = [pc EXCEPT ![t] = "launch"]
    /\ \/ report' = "none" /\ cleared' = [cleared EXCEPT ![t] = TRUE]
       \/ report' = report /\ cleared' = [cleared EXCEPT ![t] = FALSE]
    /\ UNCHANGED <<map, flight, result, readers, wrote, alone>>

Launch(t) ==
    /\ pc[t] = "launch"
    /\ \/ /\ pc' = [pc EXCEPT ![t] = "helper"]
          /\ UNCHANGED <<result, cleared, readers, wrote, alone>>
       \/ Finish(t, "broken")
    /\ UNCHANGED <<map, flight, report>>

(* The helper starts a read-ACL helper, unless one is at work already, and *)
(* does not wait for it.                                                   *)
SpawnReader(t) ==
    /\ pc[t] = "helper"
    /\ Cardinality(reading) + late < MaxReaders
    /\ pc' = [pc EXCEPT ![t] = "refreshed"]
    /\ reading' = reading \cup {t}
    /\ UNCHANGED <<map, flight, cleared, result, report, late, wrote, alone>>

(* A read-ACL helper ends; its failure is reported like any other.         *)
ReaderEnds ==
    /\ \/ \E t \in reading :
            /\ reading' = reading \ {t}
            /\ \/ \E c \in Code : report' = c /\ wrote' = [wrote EXCEPT ![t] = c]
               \/ UNCHANGED <<report, wrote>>
            /\ late' = late
       \/ /\ late > 0
          /\ late' = late - 1
          /\ report' \in Code \cup {report}
          /\ UNCHANGED <<reading, wrote>>
    /\ UNCHANGED <<map, pc, flight, cleared, result, alone>>

(* The helper process: an error before its log is open, or one whose       *)
(* report cannot be written, leaves the file alone.                        *)
HelperFails(t) ==
    /\ pc[t] \in {"helper", "refreshed"}
    /\ pc' = [pc EXCEPT ![t] = "failed"]
    /\ \/ \E c \in Code : report' = c /\ wrote' = [wrote EXCEPT ![t] = c]
       \/ UNCHANGED <<report, wrote>>
    /\ UNCHANGED <<map, flight, cleared, result, readers, alone>>

HelperSucceeds(t) ==
    /\ pc[t] \in {"helper", "refreshed"}
    /\ pc' = [pc EXCEPT ![t] = "verify"]
    /\ UNCHANGED <<map, flight, cleared, result, report, readers, wrote, alone>>

\* Another helper than t's own, which has ended, may be writing the report.
BeingWritten(t) ==
    \/ \E u \in Thread \ {t} : pc[u] \in {"helper", "refreshed"}
    \/ reading # {} \/ late > 0

(* report_helper_failure; a report that another helper is just writing     *)
(* cannot be parsed, which is an error of its own.                         *)
ReadReport(t) ==
    /\ pc[t] = "failed"
    /\ \/ Finish(t, IF cleared[t] /\ report # "none" THEN report ELSE "nonzero")
       \/ /\ cleared[t] /\ BeingWritten(t)
          /\ Finish(t, "broken")
    /\ UNCHANGED <<map, flight, report>>

(* verify_setup_completed; a refresh has nothing to verify.                *)
Verify(t) ==
    /\ pc[t] = "verify"
    /\ \/ /\ pc' = [pc EXCEPT ![t] = "tidy"]
          /\ UNCHANGED <<result, cleared, readers, wrote, alone>>
       \/ Finish(t, "broken")
    /\ UNCHANGED <<map, flight, report>>

Tidy(t) ==
    /\ pc[t] = "tidy"
    /\ report' \in {"none", report}
    /\ Finish(t, "ok")
    /\ UNCHANGED <<map, flight>>

\* Mutant: notify_one instead of notify_all.
CompleteOne(t) ==
    /\ pc[t] = "complete" /\ flight[t] # 0
    /\ outcome' = [outcome EXCEPT ![flight[t]] = result[t]]
    /\ LET sleepers == {u \in Thread : pc[u] = "asleep" /\ flight[u] = flight[t]} IN
       IF sleepers = {} THEN pc' = [pc EXCEPT ![t] = "remove"]
       ELSE \E u \in sleepers : pc' = [pc EXCEPT ![t] = "remove", ![u] = "joined"]
    /\ UNCHANGED <<flights, made, flight, cleared, result, report, readers, wrote, alone>>

(* SetupFlight::complete: the result is set and all sleepers are woken.    *)
Complete(t) ==
    /\ pc[t] = "complete" /\ flight[t] # 0
    /\ outcome' = [outcome EXCEPT ![flight[t]] = result[t]]
    /\ pc' = [u \in Thread |->
                 IF u = t THEN "remove"
                 ELSE IF pc[u] = "asleep" /\ flight[u] = flight[t] THEN "joined"
                 ELSE pc[u]]
    /\ UNCHANGED <<flights, made, flight, cleared, result, report, readers, wrote, alone>>

\* Mutant: a failed run returns before its flight is removed.
LeaveFailedFlight(t) ==
    /\ pc[t] = "remove"
    /\ LET p == made[flight[t]] IN
       flights' = [flights EXCEPT ![p] = IF result[t] = "ok" THEN 0 ELSE @]
    /\ pc' = [pc EXCEPT ![t] = "idle"]
    /\ flight' = [flight EXCEPT ![t] = 0]
    /\ result' = [result EXCEPT ![t] = "none"]
    /\ UNCHANGED <<outcome, made, cleared, report, readers, wrote, alone>>

(* The leader takes its own flight, no other, from the map.                *)
RemoveFlight(t) ==
    /\ pc[t] = "remove"
    /\ LET p == made[flight[t]] IN
       flights' = [flights EXCEPT ![p] = IF @ = flight[t] THEN 0 ELSE @]
    /\ pc' = [pc EXCEPT ![t] = "idle"]
    /\ flight' = [flight EXCEPT ![t] = 0]
    /\ result' = [result EXCEPT ![t] = "none"]
    /\ UNCHANGED <<outcome, made, cleared, report, readers, wrote, alone>>

ReturnBypass(t) ==
    /\ pc[t] = "complete" /\ flight[t] = 0
    /\ pc' = [pc EXCEPT ![t] = "idle"]
    /\ result' = [result EXCEPT ![t] = "none"]
    /\ UNCHANGED <<map, flight, cleared, report, readers, wrote, alone>>

Call(t) == (t \in Carrier /\ Bypass(t)) \/ \E p \in Payload : Lead(t, p) \/ Join(t, p)
Step(t) ==
    \/ Look(t) \/ ClearReport(t) \/ Launch(t) \/ SpawnReader(t) \/ HelperFails(t)
    \/ HelperSucceeds(t) \/ ReadReport(t) \/ Verify(t) \/ Tidy(t) \/ Complete(t) \/ RemoveFlight(t)
    \/ ReturnBypass(t)

Next ==
    \/ \E t \in Thread : Call(t) \/ Step(t) \/ SpuriousWakeup(t)
    \/ ReaderEnds

Spec == Init /\ [][Next]_vars

(* Threads run and every helper ends (SetupProvision!RunEnds); nobody has  *)
(* to call, no wake-up comes for nothing, and no read-ACL helper has to    *)
(* end.                                                                    *)
FairSpec == Spec /\ \A t \in Thread : WF_vars(Step(t))

----------------------------------------------------------------------------
(* Two threads never run the same payload, unless one of them carries      *)
(* retained handles (the double check of SETUP_FLIGHTS under its lock).    *)
OneRunPerPayload ==
    \A t, u \in Thread :
        Leading(t) /\ Leading(u) /\ made[flight[t]] = made[flight[u]] => t = u

(* SETUP_FLIGHTS holds exactly the flights whose leader is still there: no *)
(* flight leaks, so no caller joins one that nobody will complete.         *)
FlightsLed ==
    \A p \in Payload : flights[p] # 0 =>
        \E t \in Thread : Leading(t) /\ flight[t] = flights[p] /\ made[flight[t]] = p

(* A sleeper's flight is still to be completed: no wake-up is lost.        *)
SleepersAwaited == \A t \in Thread : pc[t] = "asleep" => Pending(flight[t])

(* What the three rest on, inductive: a thread has a flight where it needs *)
(* one, leaders have different flights, each still the mapped one of its   *)
(* payload, and who waits has a result to read or a leader to wait for.    *)
HasFlight ==
    \A t \in Thread :
        /\ pc[t] = "idle" => flight[t] = 0
        /\ pc[t] \in {"joined", "asleep", "remove"} => flight[t] # 0
        /\ flight[t] <= Len(made)
LeadersMapped ==
    \A t \in Thread : Leading(t) =>
        /\ flights[made[flight[t]]] = flight[t]
        /\ \A u \in Thread : Leading(u) /\ flight[u] = flight[t] => u = t
ResultsStored ==
    \A t \in Thread :
        /\ pc[t] = "complete" => result[t] \in Result
        /\ pc[t] = "remove" => outcome[flight[t]] # "pending"
        /\ pc[t] = "joined" => outcome[flight[t]] # "pending" \/ Pending(flight[t])
FlightInv ==
    /\ HasFlight /\ LeadersMapped /\ ResultsStored
    /\ FlightsLed /\ SleepersAwaited /\ OneRunPerPayload

(* A run that overlapped no other run of the home, and found no read-ACL   *)
(* helper of an earlier one at work, tells its caller what its own helper  *)
(* or the read-ACL helper it started reported last, and never what an      *)
(* earlier run left behind (report_helper_failure reads a file that all    *)
(* runs and their read-ACL helpers share); the report is unreadable at     *)
(* most while that read-ACL helper writes it.                              *)
OwnReport ==
    [][\A t \in Thread :
          pc[t] = "failed" /\ pc'[t] # "failed" /\ alone[t] /\ cleared[t] =>
              \/ result'[t] = IF wrote[t] = "none" THEN "nonzero" ELSE wrote[t]
              \/ result'[t] = "broken" /\ t \in reading]_vars

(* What OwnReport rests on, inductive: a run that is alone is the only one *)
(* of the home, the read-ACL helper at work is its own, and from its       *)
(* cleared report on the file holds what these two wrote.                  *)
AloneInv ==
    \A t \in Thread :
        /\ alone[t] => /\ Running(t) /\ \A u \in Thread \ {t} : ~Running(u)
                       /\ late = 0
        /\ pc[t] \notin {"refreshed", "failed", "verify", "tidy"} =>
              wrote[t] = "none" /\ t \notin reading
        /\ alone[t] /\ cleared[t] /\ pc[t] \in {"launch", "helper", "refreshed", "failed"} =>
              report = wrote[t]

(* Every caller gets an answer, leader or not (notify_all after the result *)
(* is stored, and the loop around the wait).                               *)
CallsReturn == \A t \in Thread : pc[t] # "idle" ~> pc[t] = "idle"
=============================================================================
