----------------------------- MODULE SetupProofs -----------------------------
(***************************************************************************)
(* Proofs about setup, for any helpers, homes, ports and requests          *)
(* (SetupProvision), and about the invocations and refreshes that use what *)
(* it has set up, for any requests, files and ssh configurations           *)
(* (ElevatedLine).                                                         *)
(***************************************************************************)
EXTENDS SetupProvision, ElevatedLine, SequenceTheorems, FiniteSetTheorems, NaturalsInduction,
        WellFoundedInduction, TLAPS

(* Uninstall leaves the helpers and their files alone.                     *)
LEMMA CleanupKeepsHelpers ==
    ASSUME Cleanup PROVE UNCHANGED <<pc, payload, repairing, secret, files, generation>>
BY DEF Cleanup, CleanupStart, CleanupDisable, CleanupDelete, CleanupRule,
       CleanupWfp, CleanupStop, helpers, files

LEMMA InitTypes == Init => TypeOK
<1>. SUFFICES ASSUME Init PROVE TypeOK
  OBVIOUS
<1>1. (CHOOSE first \in Payload : TRUE) \in Payload
  BY ProvisionConstants
<1>. QED
  BY <1>1, ProvisionConstants DEF Init, TypeOK, Account, Firewall, User, Live

LEMMA HelperTypes ==
    ASSUME TypeOK, NEW p \in Helper, HelperStep(p)
    PROVE  TypeOK'
<1>. USE DEF TypeOK, Goto, files, network, bounds, Live
<1>1. CASE RemoveMarker(p)
  BY <1>1 DEF RemoveMarker, BeforeLock
<1>2. CASE CreateMarker(p)
  BY <1>2 DEF CreateMarker, BeforeLock
<1>3. CASE AcquireLock(p)
  BY <1>3 DEF AcquireLock, UnderLock
<1>4. CASE CheckAccounts(p)
  BY <1>4 DEF CheckAccounts, UnderLock
<1>5. CASE EnsureOffline(p)
  BY <1>5 DEF EnsureOffline, Ensured, Account, User, UnderLock
<1>6. CASE EnsureOnline(p)
  BY <1>6 DEF EnsureOnline, Ensured, Account, User, UnderLock
<1>7. CASE TruncateUsers(p)
  BY <1>7 DEF TruncateUsers, UnderLock
<1>8. CASE WriteUsers(p)
  BY <1>8 DEF WriteUsers, UnderLock
<1>9. CASE RemoveLegacyRule(p)
  BY <1>9 DEF RemoveLegacyRule, FirewallStep, Firewall, UnderLock
<1>10. CASE RemoveUdpRule(p)
  BY <1>10 DEF RemoveUdpRule, FirewallStep, Firewall, UnderLock
<1>11. CASE RemoveTcpRule(p)
  BY <1>11 DEF RemoveTcpRule, FirewallStep, Firewall, UnderLock
<1>12. OfflineSid \in Nat
  BY DEF OfflineSid, Account, User
<1>13. CASE BlockUdp(p)
  BY <1>12, <1>13 DEF BlockUdp, FirewallStep, Firewall, UnderLock
<1>14. CASE BlockAllTcp(p)
  BY <1>12, <1>14 DEF BlockAllTcp, FirewallStep, Firewall, UnderLock
<1>15. CASE DropLegacyAllow(p)
  BY <1>15 DEF DropLegacyAllow, FirewallStep, Firewall, UnderLock
<1>16. CASE NarrowTcp(p)
  <2>1. Requested(p).ports \in SUBSET Port
    BY ProvisionConstants DEF Requested, Settings
  <2>2. firewall' \in Firewall
    BY <1>16, <2>1 DEF NarrowTcp, Firewall
  <2> QED BY <1>16, <2>2 DEF NarrowTcp, FirewallStep, UnderLock
<1>17. CASE BlockOutbound(p)
  BY <1>12, <1>17 DEF BlockOutbound, FirewallStep, Firewall, UnderLock
<1>18. CASE InstallWfp(p)
  BY <1>12, <1>18 DEF InstallWfp, UnderLock
<1>19. CASE EnableOffline(p)
  BY <1>19 DEF EnableOffline, Enable, Account, User, UnderLock
<1>20. CASE EnableOnline(p)
  BY <1>20 DEF EnableOnline, Enable, Account, User, UnderLock
<1>21. CASE ReleaseLock(p)
  BY <1>21 DEF ReleaseLock, AfterLock
<1>22. CASE LockDirs(p)
  BY <1>22 DEF LockDirs, AfterLock
<1>23. CASE CommitMarker(p)
  <2>1. Requested(p) \in Settings
    BY ProvisionConstants DEF Requested
  <2>. QED
    BY <1>23, <2>1 DEF CommitMarker
<1>. QED
  BY <1>1, <1>2, <1>3, <1>4, <1>5, <1>6, <1>7, <1>8, <1>9, <1>10, <1>11, <1>13,
     <1>14, <1>15, <1>16, <1>17, <1>18, <1>19, <1>20, <1>21, <1>22, <1>23 DEF HelperStep

LEMMA NextTypes ==
    ASSUME TypeOK, [Next]_vars PROVE TypeOK'
<1>. USE DEF TypeOK, files, network, bounds, helpers
<1>1. ASSUME NEW p \in Helper, Launch(p) PROVE TypeOK'
  BY <1>1 DEF Launch, Goto, Live, BeforeLock
<1>2. ASSUME NEW p \in Helper, Abort(p) PROVE TypeOK'
  BY <1>2 DEF Abort
<1>3. CASE CleanupStart
  BY <1>3 DEF CleanupStart
<1>4. ASSUME NEW u \in User, CleanupDisable(u) PROVE TypeOK'
  BY <1>4 DEF CleanupDisable, Account
<1>5. ASSUME NEW u \in User, CleanupDelete(u) PROVE TypeOK'
  BY <1>5 DEF CleanupDelete, Account
<1>6. CASE CleanupRule
  <2>1. CASE firewall' = [firewall EXCEPT !.udp = 0]
    BY <1>6, <2>1 DEF CleanupRule, Firewall
  <2>2. CASE firewall' = [firewall EXCEPT !.tcp = 0, !.open = {}]
    BY <1>6, <2>2 DEF CleanupRule, Firewall
  <2>3. CASE firewall' = [firewall EXCEPT !.outbound = 0]
    BY <1>6, <2>3 DEF CleanupRule, Firewall
  <2>. QED
    BY <1>6, <2>1, <2>2, <2>3 DEF CleanupRule
<1>7. CASE CleanupWfp
  BY <1>7 DEF CleanupWfp
<1>8. CASE CleanupStop
  BY <1>8 DEF CleanupStop
<1>9. CASE UNCHANGED vars
  BY <1>9 DEF vars
<1>. QED
  BY <1>1, <1>2, <1>3, <1>4, <1>5, <1>6, <1>7, <1>8, <1>9,
     HelperTypes DEF Next, Cleanup
(* Every variable keeps its type.                                          *)
THEOREM ProvisionTypes == Spec => []TypeOK
BY InitTypes, NextTypes, PTL DEF Spec

----------------------------------------------------------------------------
(* What a step of helper p leaves alone: the other helpers, its request,   *)
(* and, outside the lock, everything the lock protects.                    *)
LEMMA StepFrame ==
    ASSUME TypeOK, NEW p \in Helper, HelperStep(p)
    PROVE  /\ payload' = payload
           /\ pc[p] # "idle"
           /\ \A q \in Helper \ {p} : pc'[q] = pc[q] /\ secret'[q] = secret[q]
           /\ pc[p] \notin UnderLock => UNCHANGED <<users, account, network, secret, generation>>
           /\ pc[p] \in UnderLock => UNCHANGED marker
<1>. USE DEF TypeOK, Goto, files, network, bounds, UnderLock
<1>1. CASE RemoveMarker(p)
  BY <1>1 DEF RemoveMarker
<1>2. CASE CreateMarker(p)
  BY <1>2 DEF CreateMarker
<1>3. CASE AcquireLock(p)
  BY <1>3 DEF AcquireLock
<1>4. CASE CheckAccounts(p)
  BY <1>4 DEF CheckAccounts
<1>5. CASE EnsureOffline(p)
  BY <1>5 DEF EnsureOffline
<1>6. CASE EnsureOnline(p)
  BY <1>6 DEF EnsureOnline
<1>7. CASE TruncateUsers(p)
  BY <1>7 DEF TruncateUsers
<1>8. CASE WriteUsers(p)
  BY <1>8 DEF WriteUsers
<1>9. CASE RemoveLegacyRule(p)
  BY <1>9 DEF RemoveLegacyRule, FirewallStep
<1>10. CASE RemoveUdpRule(p)
  BY <1>10 DEF RemoveUdpRule, FirewallStep
<1>11. CASE RemoveTcpRule(p)
  BY <1>11 DEF RemoveTcpRule, FirewallStep
<1>12. CASE BlockUdp(p)
  BY <1>12 DEF BlockUdp, FirewallStep
<1>13. CASE BlockAllTcp(p)
  BY <1>13 DEF BlockAllTcp, FirewallStep
<1>14. CASE DropLegacyAllow(p)
  BY <1>14 DEF DropLegacyAllow, FirewallStep
<1>15. CASE NarrowTcp(p)
  BY <1>15 DEF NarrowTcp, FirewallStep
<1>16. CASE BlockOutbound(p)
  BY <1>16 DEF BlockOutbound, FirewallStep
<1>17. CASE InstallWfp(p)
  BY <1>17 DEF InstallWfp
<1>18. CASE EnableOffline(p)
  BY <1>18 DEF EnableOffline, Enable
<1>19. CASE EnableOnline(p)
  BY <1>19 DEF EnableOnline, Enable
<1>20. CASE ReleaseLock(p)
  BY <1>20 DEF ReleaseLock
<1>21. CASE LockDirs(p)
  BY <1>21 DEF LockDirs
<1>22. CASE CommitMarker(p)
  BY <1>22 DEF CommitMarker
<1>. QED
  BY <1>1, <1>2, <1>3, <1>4, <1>5, <1>6, <1>7, <1>8, <1>9, <1>10, <1>11, <1>12, <1>13, <1>14, <1>15, <1>16, <1>17, <1>18, <1>19, <1>20, <1>21, <1>22 DEF HelperStep

LEMMA LockMoves ==
    ASSUME TypeOK, NEW p \in Helper, HelperStep(p)
    PROVE  \/ pc[p] \notin UnderLock /\ pc'[p] \in UnderLock /\ mutex = Free /\ mutex' = p
           \/ pc[p] \in UnderLock /\ pc'[p] \notin UnderLock /\ mutex' = Free
           \/ (pc[p] \in UnderLock <=> pc'[p] \in UnderLock) /\ mutex' = mutex
<1>. USE DEF TypeOK, Goto, files, network, bounds, UnderLock
<1>1. CASE RemoveMarker(p)
  BY <1>1 DEF RemoveMarker
<1>2. CASE CreateMarker(p)
  BY <1>2 DEF CreateMarker
<1>3. CASE AcquireLock(p)
  BY <1>3 DEF AcquireLock
<1>4. CASE CheckAccounts(p)
  BY <1>4 DEF CheckAccounts
<1>5. CASE EnsureOffline(p)
  BY <1>5 DEF EnsureOffline
<1>6. CASE EnsureOnline(p)
  BY <1>6 DEF EnsureOnline
<1>7. CASE TruncateUsers(p)
  BY <1>7 DEF TruncateUsers
<1>8. CASE WriteUsers(p)
  BY <1>8 DEF WriteUsers
<1>9. CASE RemoveLegacyRule(p)
  BY <1>9 DEF RemoveLegacyRule, FirewallStep
<1>10. CASE RemoveUdpRule(p)
  BY <1>10 DEF RemoveUdpRule, FirewallStep
<1>11. CASE RemoveTcpRule(p)
  BY <1>11 DEF RemoveTcpRule, FirewallStep
<1>12. CASE BlockUdp(p)
  BY <1>12 DEF BlockUdp, FirewallStep
<1>13. CASE BlockAllTcp(p)
  BY <1>13 DEF BlockAllTcp, FirewallStep
<1>14. CASE DropLegacyAllow(p)
  BY <1>14 DEF DropLegacyAllow, FirewallStep
<1>15. CASE NarrowTcp(p)
  BY <1>15 DEF NarrowTcp, FirewallStep
<1>16. CASE BlockOutbound(p)
  BY <1>16 DEF BlockOutbound, FirewallStep
<1>17. CASE InstallWfp(p)
  BY <1>17 DEF InstallWfp
<1>18. CASE EnableOffline(p)
  BY <1>18 DEF EnableOffline, Enable
<1>19. CASE EnableOnline(p)
  BY <1>19 DEF EnableOnline, Enable
<1>20. CASE ReleaseLock(p)
  BY <1>20 DEF ReleaseLock
<1>21. CASE LockDirs(p)
  BY <1>21 DEF LockDirs
<1>22. CASE CommitMarker(p)
  BY <1>22 DEF CommitMarker
<1>. QED
  BY <1>1, <1>2, <1>3, <1>4, <1>5, <1>6, <1>7, <1>8, <1>9, <1>10, <1>11, <1>12, <1>13, <1>14, <1>15, <1>16, <1>17, <1>18, <1>19, <1>20, <1>21, <1>22 DEF HelperStep

LEMMA LockStep ==
    ASSUME TypeOK, LockInv, [Next]_vars PROVE LockInv'
<1>1. ASSUME NEW p \in Helper, HelperStep(p) PROVE LockInv'
  BY <1>1, LockMoves, StepFrame, ProvisionConstants DEF LockInv, TypeOK
<1>2. ASSUME NEW p \in Helper, Launch(p) PROVE LockInv'
  BY <1>2 DEF Launch, Goto, LockInv, TypeOK, UnderLock
<1>3. ASSUME NEW p \in Helper, Abort(p) PROVE LockInv'
  BY <1>3, ProvisionConstants DEF Abort, LockInv, TypeOK, UnderLock
<1>4. CASE Cleanup
  <2>1. pc' = pc
    BY <1>4, CleanupKeepsHelpers
  <2>2. mutex' = mutex \/ (mutex \notin Helper /\ mutex' \notin Helper)
    BY <1>4, ProvisionConstants DEF Cleanup, CleanupStart, CleanupDisable, CleanupDelete,
       CleanupRule, CleanupWfp, CleanupStop
  <2>. QED
    BY <2>1, <2>2 DEF LockInv
<1>5. CASE UNCHANGED vars
  BY <1>5 DEF vars, LockInv
<1>. QED
  BY <1>1, <1>2, <1>3, <1>4, <1>5 DEF Next

(* A run that dies leaves the markers as they are, or truncated.           *)
LEMMA AbortMarkers ==
    ASSUME TypeOK, NEW p \in Helper, Abort(p)
    PROVE  \A h \in Home : marker'[h] = marker[h] \/ marker'[h] = EmptyMarker
<1>1. HomeOf(p) \in Home
  BY ProvisionConstants DEF HomeOf, TypeOK
<1>2. CASE marker' = marker
  BY <1>2
<1>3. CASE marker' = [marker EXCEPT ![HomeOf(p)] = EmptyMarker]
  BY <1>1, <1>3 DEF TypeOK
<1>. QED
  BY <1>2, <1>3 DEF Abort

(* Only the run itself pins or unpins the marker of its home, and nothing  *)
(* removes a pinned marker.                                                *)
LEMMA PinMoves ==
    ASSUME TypeOK, NEW p \in Helper, HelperStep(p)
    PROVE  \/ /\ UNCHANGED <<pinned, marker>>
              /\ pc'[p] \in Prepared => pc[p] \in Prepared
           \/ /\ pinned' = pinned /\ pinned[HomeOf(p)] = Nobody
              /\ marker' = [marker EXCEPT ![HomeOf(p)] = NoMarker]
              /\ pc'[p] \notin Prepared
           \/ /\ marker[HomeOf(p)] = NoMarker
              /\ marker' = [marker EXCEPT ![HomeOf(p)] = EmptyMarker]
              /\ pinned' = IF Retains(p) THEN [pinned EXCEPT ![HomeOf(p)] = p] ELSE pinned
           \/ /\ marker' = [marker EXCEPT ![HomeOf(p)] = Requested(p)]
              /\ pinned[HomeOf(p)] = IF Retains(p) THEN p ELSE Nobody
              /\ pinned' = [pinned EXCEPT ![HomeOf(p)] = Nobody]
              /\ pc'[p] \notin Prepared
<1>. USE DEF TypeOK, Goto, files, network, bounds, UnderLock, BeforeLock, AfterLock, Live, Prepared
<1>1. CASE RemoveMarker(p)
  BY <1>1 DEF RemoveMarker
<1>2. CASE CreateMarker(p)
  BY <1>2 DEF CreateMarker
<1>3. CASE AcquireLock(p)
  BY <1>3 DEF AcquireLock
<1>4. CASE CheckAccounts(p)
  BY <1>4 DEF CheckAccounts
<1>5. CASE EnsureOffline(p)
  BY <1>5 DEF EnsureOffline
<1>6. CASE EnsureOnline(p)
  BY <1>6 DEF EnsureOnline
<1>7. CASE TruncateUsers(p)
  BY <1>7 DEF TruncateUsers
<1>8. CASE WriteUsers(p)
  BY <1>8 DEF WriteUsers
<1>9. CASE RemoveLegacyRule(p)
  BY <1>9 DEF RemoveLegacyRule, FirewallStep
<1>10. CASE RemoveUdpRule(p)
  BY <1>10 DEF RemoveUdpRule, FirewallStep
<1>11. CASE RemoveTcpRule(p)
  BY <1>11 DEF RemoveTcpRule, FirewallStep
<1>12. CASE BlockUdp(p)
  BY <1>12 DEF BlockUdp, FirewallStep
<1>13. CASE BlockAllTcp(p)
  BY <1>13 DEF BlockAllTcp, FirewallStep
<1>14. CASE DropLegacyAllow(p)
  BY <1>14 DEF DropLegacyAllow, FirewallStep
<1>15. CASE NarrowTcp(p)
  BY <1>15 DEF NarrowTcp, FirewallStep
<1>16. CASE BlockOutbound(p)
  BY <1>16 DEF BlockOutbound, FirewallStep
<1>17. CASE InstallWfp(p)
  BY <1>17 DEF InstallWfp
<1>18. CASE EnableOffline(p)
  BY <1>18 DEF EnableOffline, Enable
<1>19. CASE EnableOnline(p)
  BY <1>19 DEF EnableOnline, Enable
<1>20. CASE ReleaseLock(p)
  BY <1>20 DEF ReleaseLock
<1>21. CASE LockDirs(p)
  BY <1>21 DEF LockDirs
<1>22. CASE CommitMarker(p)
  BY <1>22 DEF CommitMarker
<1>. QED
  BY <1>1, <1>2, <1>3, <1>4, <1>5, <1>6, <1>7, <1>8, <1>9, <1>10, <1>11, <1>12, <1>13, <1>14, <1>15, <1>16, <1>17, <1>18, <1>19, <1>20, <1>21, <1>22 DEF HelperStep

LEMMA HomeStep ==
    ASSUME TypeOK, HomeInv, [Next]_vars PROVE HomeInv'
<1>. DEFINE Serial == \A p, q \in Helper :
                p # q /\ pc[p] # "idle" /\ pc[q] # "idle" /\ HomeOf(p) \in SerialHomes
                    => HomeOf(p) # HomeOf(q)
            Pinned(p) == Retains(p) /\ pc[p] \in Prepared =>
                pinned[HomeOf(p)] = p /\ marker[HomeOf(p)] # NoMarker
<1>1. Serial /\ \A p \in Helper : Pinned(p)
  BY DEF HomeInv
<1>2. ASSUME NEW p \in Helper, HelperStep(p) PROVE HomeInv'
  <2>1. payload' = payload /\ pc[p] # "idle" /\ \A q \in Helper \ {p} : pc'[q] = pc[q]
    BY <1>2, StepFrame
  <2>2. Serial'
    BY <1>1, <2>1 DEF HomeOf, TypeOK
  <2>3. ASSUME NEW q \in Helper, (Retains(q) /\ pc[q] \in Prepared)'
        PROVE  pinned'[HomeOf(q)] = q /\ marker'[HomeOf(q)] # NoMarker
    <3>1. Retains(q) /\ HomeOf(q) \in Home /\ HomeOf(p) \in Home
      BY <2>1, <2>3, ProvisionConstants DEF Retains, HomeOf, TypeOK
    <3>2. q # p => pinned[HomeOf(q)] = q /\ marker[HomeOf(q)] # NoMarker
      BY <1>1, <2>1, <2>3, <3>1
    <3>3. CASE UNCHANGED <<pinned, marker>> /\ (pc'[p] \in Prepared => pc[p] \in Prepared)
      BY <1>1, <2>3, <3>1, <3>2, <3>3
    <3>4. CASE /\ pinned' = pinned /\ pinned[HomeOf(p)] = Nobody
               /\ marker' = [marker EXCEPT ![HomeOf(p)] = NoMarker]
               /\ pc'[p] \notin Prepared
      BY <2>3, <3>1, <3>2, <3>4, ProvisionConstants DEF TypeOK
    <3>5. CASE /\ marker[HomeOf(p)] = NoMarker
               /\ marker' = [marker EXCEPT ![HomeOf(p)] = EmptyMarker]
               /\ pinned' = IF Retains(p) THEN [pinned EXCEPT ![HomeOf(p)] = p] ELSE pinned
      BY <3>1, <3>2, <3>5, ProvisionConstants DEF TypeOK
    <3>6. CASE /\ marker' = [marker EXCEPT ![HomeOf(p)] = Requested(p)]
               /\ pinned[HomeOf(p)] = IF Retains(p) THEN p ELSE Nobody
               /\ pinned' = [pinned EXCEPT ![HomeOf(p)] = Nobody]
               /\ pc'[p] \notin Prepared
      <4>1. HomeOf(q) # HomeOf(p)
        BY <2>3, <3>2, <3>6, ProvisionConstants
      <4>. QED
        BY <2>3, <3>1, <3>2, <3>6, <4>1 DEF TypeOK
    <3>. QED
      BY <1>2, <3>3, <3>4, <3>5, <3>6, PinMoves
  <2>4. \A q \in Helper : HomeOf(q)' = HomeOf(q)
    BY <2>1 DEF HomeOf
  <2>. QED
    BY <2>2, <2>3, <2>4 DEF HomeInv
<1>3. ASSUME NEW p \in Helper, Launch(p) PROVE HomeInv'
  <2>1. Serial'
    BY <1>1, <1>3 DEF Launch, Goto, HomeOf, TypeOK
  <2>2. \A q \in Helper : Pinned(q)'
    BY <1>1, <1>3 DEF Launch, Goto, HomeOf, Retains, TypeOK, files, Prepared
  <2>. QED
    BY <2>1, <2>2 DEF HomeInv
<1>4. ASSUME NEW p \in Helper, Abort(p) PROVE HomeInv'
  <2>1. /\ payload' = payload /\ pc'[p] = "idle"
        /\ \A q \in Helper \ {p} : pc'[q] = pc[q]
        /\ \A h \in Home : pinned[h] # p => pinned'[h] = pinned[h]
    BY <1>4 DEF Abort, TypeOK
  <2>2. Serial'
    BY <1>1, <2>1 DEF HomeOf
  <2>3. \A q \in Helper : HomeOf(q) \in Home
    BY ProvisionConstants DEF HomeOf, TypeOK
  <2>4. \A q \in Helper : Pinned(q)'
    BY <1>1, <1>4, <2>1, <2>3, AbortMarkers, ProvisionConstants DEF HomeOf, Retains, Prepared, Live,
       BeforeLock, UnderLock, AfterLock
  <2>. QED
    BY <2>2, <2>4 DEF HomeInv
<1>5. CASE Cleanup
  BY <1>1, <1>5, CleanupKeepsHelpers DEF HomeInv, HomeOf, Retains, files
<1>6. CASE UNCHANGED vars
  BY <1>1, <1>6 DEF vars, HomeInv, HomeOf, Retains
<1>. QED
  BY <1>2, <1>3, <1>4, <1>5, <1>6 DEF Next

(* What a step of helper p does to the markers: they stay, or that of its  *)
(* home becomes unfinished, or the run ends and records its settings.      *)
LEMMA MarkerMoves ==
    ASSUME TypeOK, NEW p \in Helper, HelperStep(p)
    PROVE  \/ /\ marker' = marker
              /\ pc'[p] \in Prepared => pc[p] \in Prepared
           \/ \E m \in {NoMarker, EmptyMarker} : marker' = [marker EXCEPT ![HomeOf(p)] = m]
           \/ /\ pc[p] = "dirs_locked" /\ pc'[p] = "idle"
              /\ marker' = [marker EXCEPT ![HomeOf(p)] = Requested(p)]
<1>. USE DEF TypeOK, Goto, files, network, bounds, UnderLock, BeforeLock, AfterLock, Live, Prepared
<1>1. CASE RemoveMarker(p)
  BY <1>1 DEF RemoveMarker
<1>2. CASE CreateMarker(p)
  BY <1>2 DEF CreateMarker
<1>3. CASE AcquireLock(p)
  BY <1>3 DEF AcquireLock
<1>4. CASE CheckAccounts(p)
  BY <1>4 DEF CheckAccounts
<1>5. CASE EnsureOffline(p)
  BY <1>5 DEF EnsureOffline
<1>6. CASE EnsureOnline(p)
  BY <1>6 DEF EnsureOnline
<1>7. CASE TruncateUsers(p)
  BY <1>7 DEF TruncateUsers
<1>8. CASE WriteUsers(p)
  BY <1>8 DEF WriteUsers
<1>9. CASE RemoveLegacyRule(p)
  BY <1>9 DEF RemoveLegacyRule, FirewallStep
<1>10. CASE RemoveUdpRule(p)
  BY <1>10 DEF RemoveUdpRule, FirewallStep
<1>11. CASE RemoveTcpRule(p)
  BY <1>11 DEF RemoveTcpRule, FirewallStep
<1>12. CASE BlockUdp(p)
  BY <1>12 DEF BlockUdp, FirewallStep
<1>13. CASE BlockAllTcp(p)
  BY <1>13 DEF BlockAllTcp, FirewallStep
<1>14. CASE DropLegacyAllow(p)
  BY <1>14 DEF DropLegacyAllow, FirewallStep
<1>15. CASE NarrowTcp(p)
  BY <1>15 DEF NarrowTcp, FirewallStep
<1>16. CASE BlockOutbound(p)
  BY <1>16 DEF BlockOutbound, FirewallStep
<1>17. CASE InstallWfp(p)
  BY <1>17 DEF InstallWfp
<1>18. CASE EnableOffline(p)
  BY <1>18 DEF EnableOffline, Enable
<1>19. CASE EnableOnline(p)
  BY <1>19 DEF EnableOnline, Enable
<1>20. CASE ReleaseLock(p)
  BY <1>20 DEF ReleaseLock
<1>21. CASE LockDirs(p)
  BY <1>21 DEF LockDirs
<1>22. CASE CommitMarker(p)
  BY <1>22 DEF CommitMarker
<1>. QED
  BY <1>1, <1>2, <1>3, <1>4, <1>5, <1>6, <1>7, <1>8, <1>9, <1>10, <1>11, <1>12, <1>13, <1>14, <1>15, <1>16, <1>17, <1>18, <1>19, <1>20, <1>21, <1>22 DEF HelperStep

(* Two prepared runs never work for one home.                              *)
LEMMA OnePreparedRun ==
    ASSUME TypeOK, OneRunPerHome, HomeInv, NEW p \in Helper, NEW q \in Helper \ {p},
           pc[p] \in Prepared, pc[q] \in Prepared
    PROVE  HomeOf(p) # HomeOf(q)
<1>1. pc[p] # "idle" /\ pc[q] # "idle" /\ payload[p] \in Payload /\ payload[q] \in Payload
  BY DEF TypeOK, Prepared, Live, BeforeLock, UnderLock, AfterLock
<1>2. CASE HomeOf(p) \in SerialHomes
  BY <1>1, <1>2 DEF HomeInv
<1>3. CASE HomeOf(p) \notin SerialHomes /\ HomeOf(p) = HomeOf(q)
  <2>1. Retains(p) /\ Retains(q)
    BY <1>1, <1>3 DEF OneRunPerHome, Retains, HomeOf
  <2>. QED
    BY <1>3, <2>1 DEF HomeInv
<1>. QED
  BY <1>2, <1>3

LEMMA UnfinishedStep ==
    ASSUME TypeOK, OneRunPerHome, HomeInv, UnfinishedNotReady, [Next]_vars
    PROVE  UnfinishedNotReady'
<1>. USE DEF UnfinishedNotReady, Complete
<1>1. ASSUME NEW p \in Helper, HelperStep(p) PROVE UnfinishedNotReady'
  <2>. SUFFICES ASSUME NEW q \in Helper, pc'[q] \in Prepared
                PROVE  marker'[HomeOf(q)] \notin Settings
    BY <1>1, StepFrame DEF HomeOf
  <2>1. HomeOf(q) \in Home /\ HomeOf(p) \in Home
    BY ProvisionConstants DEF HomeOf, TypeOK
  <2>2. q # p => pc[q] = pc'[q]
    BY <1>1, StepFrame
  <2>3. CASE marker' = marker /\ (pc'[p] \in Prepared => pc[p] \in Prepared)
    BY <2>2, <2>3
  <2>4. ASSUME NEW m \in {NoMarker, EmptyMarker},
               marker' = [marker EXCEPT ![HomeOf(p)] = m]
        PROVE  marker'[HomeOf(q)] \notin Settings
    <3>1. CASE HomeOf(q) = HomeOf(p)
      BY <2>1, <2>4, <3>1, ProvisionConstants DEF TypeOK
    <3>2. CASE HomeOf(q) # HomeOf(p)
      BY <2>1, <2>2, <2>4, <3>2 DEF TypeOK
    <3>. QED
      BY <3>1, <3>2
  <2>5. CASE /\ pc[p] = "dirs_locked" /\ pc'[p] = "idle"
             /\ marker' = [marker EXCEPT ![HomeOf(p)] = Requested(p)]
    <3>1. q # p /\ pc[p] \in Prepared
      BY <2>5 DEF Prepared, Live, BeforeLock, UnderLock, AfterLock
    <3>2. HomeOf(q) # HomeOf(p)
      BY <2>2, <3>1, OnePreparedRun
    <3>. QED
      BY <2>1, <2>2, <2>5, <3>1, <3>2 DEF TypeOK
  <2>. QED
    BY <1>1, <2>3, <2>4, <2>5, MarkerMoves
<1>2. ASSUME NEW p \in Helper, Launch(p) PROVE UnfinishedNotReady'
  BY <1>2 DEF Launch, Goto, HomeOf, TypeOK, files, Prepared
<1>3. ASSUME NEW p \in Helper, Abort(p) PROVE UnfinishedNotReady'
  <2>1. HomeOf(p) \in Home /\ payload' = payload
    BY <1>3, ProvisionConstants DEF Abort, HomeOf, TypeOK
  <2>2. \A h \in Home : marker'[h] = marker[h] \/ marker'[h] = EmptyMarker
    BY <1>3, AbortMarkers
  <2>3. \A q \in Helper : pc'[q] \in Prepared => pc'[q] = pc[q]
    BY <1>3 DEF Abort, TypeOK, Prepared, Live, BeforeLock, UnderLock, AfterLock
  <2>4. \A q \in Helper : HomeOf(q)' = HomeOf(q) /\ HomeOf(q) \in Home
    BY <2>1, ProvisionConstants DEF HomeOf, TypeOK
  <2>. QED
    BY <2>2, <2>3, <2>4, ProvisionConstants
<1>4. CASE Cleanup
  BY <1>4, CleanupKeepsHelpers DEF HomeOf, files
<1>5. CASE UNCHANGED vars
  BY <1>5 DEF vars, HomeOf
<1>. QED
  BY <1>1, <1>2, <1>3, <1>4, <1>5 DEF Next

(* What a step of helper p does to secrets and users files.                *)
LEMMA SecretMoves ==
    ASSUME TypeOK, NEW p \in Helper, HelperStep(p)
    PROVE  \/ /\ pc[p] = "checked" /\ generation' = generation + 1
              /\ secret'[p] = generation' /\ users' = users
           \/ /\ generation' = generation /\ secret'[p] = secret[p]
              /\ pc'[p] \in AfterOffline \cup AfterLock =>
                    pc[p] \in AfterOffline \cup AfterLock
              /\ \/ users' = users
                 \/ users' = [users EXCEPT ![HomeOf(p)] = 0]
                 \/ /\ pc[p] \in AfterOffline
                    /\ users' = [users EXCEPT ![HomeOf(p)] = secret[p]]
<1>. USE DEF TypeOK, Goto, files, network, bounds, AfterOffline, AfterLock
<1>1. CASE RemoveMarker(p)
  BY <1>1 DEF RemoveMarker
<1>2. CASE CreateMarker(p)
  BY <1>2 DEF CreateMarker
<1>3. CASE AcquireLock(p)
  BY <1>3 DEF AcquireLock
<1>4. CASE CheckAccounts(p)
  BY <1>4 DEF CheckAccounts
<1>5. CASE EnsureOffline(p)
  BY <1>5 DEF EnsureOffline
<1>6. CASE EnsureOnline(p)
  BY <1>6 DEF EnsureOnline
<1>7. CASE TruncateUsers(p)
  BY <1>7 DEF TruncateUsers
<1>8. CASE WriteUsers(p)
  BY <1>8 DEF WriteUsers
<1>9. CASE RemoveLegacyRule(p)
  BY <1>9 DEF RemoveLegacyRule, FirewallStep
<1>10. CASE RemoveUdpRule(p)
  BY <1>10 DEF RemoveUdpRule, FirewallStep
<1>11. CASE RemoveTcpRule(p)
  BY <1>11 DEF RemoveTcpRule, FirewallStep
<1>12. CASE BlockUdp(p)
  BY <1>12 DEF BlockUdp, FirewallStep
<1>13. CASE BlockAllTcp(p)
  BY <1>13 DEF BlockAllTcp, FirewallStep
<1>14. CASE DropLegacyAllow(p)
  BY <1>14 DEF DropLegacyAllow, FirewallStep
<1>15. CASE NarrowTcp(p)
  BY <1>15 DEF NarrowTcp, FirewallStep
<1>16. CASE BlockOutbound(p)
  BY <1>16 DEF BlockOutbound, FirewallStep
<1>17. CASE InstallWfp(p)
  BY <1>17 DEF InstallWfp
<1>18. CASE EnableOffline(p)
  BY <1>18 DEF EnableOffline, Enable
<1>19. CASE EnableOnline(p)
  BY <1>19 DEF EnableOnline, Enable
<1>20. CASE ReleaseLock(p)
  BY <1>20 DEF ReleaseLock
<1>21. CASE LockDirs(p)
  BY <1>21 DEF LockDirs
<1>22. CASE CommitMarker(p)
  BY <1>22 DEF CommitMarker
<1>. QED
  BY <1>1, <1>2, <1>3, <1>4, <1>5, <1>6, <1>7, <1>8, <1>9, <1>10, <1>11, <1>12, <1>13, <1>14, <1>15, <1>16, <1>17, <1>18, <1>19, <1>20, <1>21, <1>22 DEF HelperStep

LEMMA SecretStep ==
    ASSUME TypeOK, OneRunPerHome, HomeInv, SecretInv, [Next]_vars PROVE SecretInv'
<1>. DEFINE Drawn(p) == pc[p] \in AfterOffline \cup AfterLock
<1>1. ASSUME NEW p \in Helper, HelperStep(p) PROVE SecretInv'
  <2>0. /\ payload' = payload /\ pc[p] # "idle"
        /\ \A q \in Helper \ {p} : pc'[q] = pc[q] /\ secret'[q] = secret[q]
        /\ \A q \in Helper : HomeOf(q) \in Home
        /\ \A q \in Helper : secret[q] \in Nat
        /\ \A h \in Home : users[h] \in Nat
        /\ generation \in Nat
    BY <1>1, StepFrame, ProvisionConstants DEF TypeOK, HomeOf
  <2>1. pc[p] \in Prepared => \A q \in Helper \ {p} : Drawn(q) => HomeOf(q) # HomeOf(p)
    BY OnePreparedRun DEF Prepared, Live, UnderLock, AfterOffline, AfterLock
  <2>2. \A q \in Helper : HomeOf(q)' = HomeOf(q)
    BY <2>0 DEF HomeOf
  <2>3. CASE pc[p] = "checked" /\ generation' = generation + 1
             /\ secret'[p] = generation' /\ users' = users
    BY <2>0, <2>1, <2>2, <2>3 DEF SecretInv, Prepared, Live, UnderLock
  <2>4. CASE /\ generation' = generation /\ secret'[p] = secret[p]
             /\ Drawn(p)' => Drawn(p)
             /\ users' = users
    BY <2>0, <2>2, <2>4 DEF SecretInv
  <2>5. CASE /\ generation' = generation /\ secret'[p] = secret[p]
             /\ Drawn(p)' => Drawn(p)
             /\ users' = [users EXCEPT ![HomeOf(p)] = 0]
    BY <2>0, <2>2, <2>5 DEF SecretInv, TypeOK
  <2>6. CASE /\ generation' = generation /\ secret'[p] = secret[p]
             /\ Drawn(p)' => Drawn(p)
             /\ pc[p] \in AfterOffline
             /\ users' = [users EXCEPT ![HomeOf(p)] = secret[p]]
    <3>1. pc[p] \in Prepared
      BY <2>6 DEF Prepared, Live, UnderLock, AfterOffline
    <3>. QED
      BY <2>0, <2>1, <2>2, <2>6, <3>1 DEF SecretInv, TypeOK
  <2>. QED
    BY <1>1, <2>3, <2>4, <2>5, <2>6, SecretMoves
<1>2. ASSUME NEW p \in Helper, Launch(p) PROVE SecretInv'
  BY <1>2 DEF Launch, Goto, HomeOf, TypeOK, files, SecretInv, AfterOffline, AfterLock
<1>3. ASSUME NEW p \in Helper, Abort(p) PROVE SecretInv'
  BY <1>3 DEF Abort, HomeOf, TypeOK, SecretInv, AfterOffline, AfterLock
<1>4. CASE Cleanup
  BY <1>4, CleanupKeepsHelpers DEF HomeOf, files, SecretInv
<1>5. CASE UNCHANGED vars
  BY <1>5 DEF vars, HomeOf, SecretInv
<1>. QED
  BY <1>1, <1>2, <1>3, <1>4, <1>5 DEF Next

(* A run owns the offline account's password from the moment it draws one  *)
(* until it gives up the lock.                                             *)
LEMMA AccountMoves ==
    ASSUME TypeOK, NEW p \in Helper, HelperStep(p), pc[p] \in UnderLock
    PROVE  \/ pc[p] = "locked" /\ UNCHANGED <<users, account, network>>
           \/ /\ pc[p] = "checked" /\ users' = users
              /\ account'["offline"].pw = generation + 1
           \/ /\ pc[p] \in AfterOffline
              /\ account'["offline"].pw = account["offline"].pw
<1>. USE DEF TypeOK, Goto, files, network, bounds, UnderLock, AfterOffline, User, Account
<1>1. CASE RemoveMarker(p)
  BY <1>1 DEF RemoveMarker
<1>2. CASE CreateMarker(p)
  BY <1>2 DEF CreateMarker
<1>3. CASE AcquireLock(p)
  BY <1>3 DEF AcquireLock
<1>4. CASE CheckAccounts(p)
  BY <1>4 DEF CheckAccounts
<1>5. CASE EnsureOffline(p)
  BY <1>5 DEF EnsureOffline, Ensured
<1>6. CASE EnsureOnline(p)
  BY <1>6 DEF EnsureOnline, Ensured
<1>7. CASE TruncateUsers(p)
  BY <1>7 DEF TruncateUsers
<1>8. CASE WriteUsers(p)
  BY <1>8 DEF WriteUsers
<1>9. CASE RemoveLegacyRule(p)
  BY <1>9 DEF RemoveLegacyRule, FirewallStep
<1>10. CASE RemoveUdpRule(p)
  BY <1>10 DEF RemoveUdpRule, FirewallStep
<1>11. CASE RemoveTcpRule(p)
  BY <1>11 DEF RemoveTcpRule, FirewallStep
<1>12. CASE BlockUdp(p)
  BY <1>12 DEF BlockUdp, FirewallStep
<1>13. CASE BlockAllTcp(p)
  BY <1>13 DEF BlockAllTcp, FirewallStep
<1>14. CASE DropLegacyAllow(p)
  BY <1>14 DEF DropLegacyAllow, FirewallStep
<1>15. CASE NarrowTcp(p)
  BY <1>15 DEF NarrowTcp, FirewallStep
<1>16. CASE BlockOutbound(p)
  BY <1>16 DEF BlockOutbound, FirewallStep
<1>17. CASE InstallWfp(p)
  BY <1>17 DEF InstallWfp
<1>18. CASE EnableOffline(p)
  BY <1>18 DEF EnableOffline, Enable
<1>19. CASE EnableOnline(p)
  BY <1>19 DEF EnableOnline, Enable
<1>20. CASE ReleaseLock(p)
  BY <1>20 DEF ReleaseLock
<1>21. CASE LockDirs(p)
  BY <1>21 DEF LockDirs
<1>22. CASE CommitMarker(p)
  BY <1>22 DEF CommitMarker
<1>. QED
  BY <1>1, <1>2, <1>3, <1>4, <1>5, <1>6, <1>7, <1>8, <1>9, <1>10, <1>11, <1>12, <1>13, <1>14, <1>15, <1>16, <1>17, <1>18, <1>19, <1>20, <1>21, <1>22 DEF HelperStep

(* A run's own step establishes or keeps what holds at its next step.      *)
LEMMA HolderOwnStep ==
    ASSUME TypeOK, NEW p \in Helper, HolderFacts(p), HelperStep(p)
    PROVE  HolderFacts(p)'
<1>0. HomeOf(p) \in Home
  BY ProvisionConstants DEF HomeOf, TypeOK
<1>. USE DEF TypeOK, Goto, files, network, bounds, User, AfterOffline, AfterNetwork, AfterUsers, AfterLock, HolderFacts, LoopbackFacts, LoopbackEnforced, Enforced, OfflineSid, Exists, Requested, HomeOf
<1>1. CASE RemoveMarker(p)
  BY <1>1 DEF RemoveMarker
<1>2. CASE CreateMarker(p)
  BY <1>2 DEF CreateMarker
<1>3. CASE AcquireLock(p)
  BY <1>3 DEF AcquireLock
<1>4. CASE CheckAccounts(p)
  BY <1>4 DEF CheckAccounts
<1>5. CASE EnsureOffline(p)
  BY <1>5 DEF EnsureOffline, Ensured, Account
<1>6. CASE EnsureOnline(p)
  BY <1>6 DEF EnsureOnline, Ensured, Account
<1>7. CASE TruncateUsers(p)
  BY <1>7 DEF TruncateUsers
<1>8. CASE WriteUsers(p)
  BY <1>8, <1>0 DEF WriteUsers
<1>9. CASE RemoveLegacyRule(p)
  BY <1>9 DEF RemoveLegacyRule, FirewallStep, Firewall
<1>10. CASE RemoveUdpRule(p)
  BY <1>10 DEF RemoveUdpRule, FirewallStep, Firewall
<1>11. CASE RemoveTcpRule(p)
  BY <1>11 DEF RemoveTcpRule, FirewallStep, Firewall
<1>12. CASE BlockUdp(p)
  BY <1>12 DEF BlockUdp, FirewallStep, Firewall
<1>13. CASE BlockAllTcp(p)
  BY <1>13 DEF BlockAllTcp, FirewallStep, Firewall
<1>14. CASE DropLegacyAllow(p)
  BY <1>14 DEF DropLegacyAllow, FirewallStep, Firewall
<1>15. CASE NarrowTcp(p)
  BY <1>15 DEF NarrowTcp, FirewallStep, Firewall
<1>16. CASE BlockOutbound(p)
  BY <1>16 DEF BlockOutbound, FirewallStep, Firewall
<1>17. CASE InstallWfp(p)
  BY <1>17 DEF InstallWfp
<1>18. CASE EnableOffline(p)
  BY <1>18 DEF EnableOffline, Enable, Account
<1>19. CASE EnableOnline(p)
  BY <1>19 DEF EnableOnline, Enable, Account
<1>20. CASE ReleaseLock(p)
  BY <1>20 DEF ReleaseLock
<1>21. CASE LockDirs(p)
  BY <1>21 DEF LockDirs
<1>22. CASE CommitMarker(p)
  BY <1>22 DEF CommitMarker
<1>. QED
  BY <1>1, <1>2, <1>3, <1>4, <1>5, <1>6, <1>7, <1>8, <1>9, <1>10, <1>11,
     <1>12, <1>13, <1>14, <1>15, <1>16, <1>17, <1>18, <1>19, <1>20, <1>21, <1>22, ZenonT(60) DEF HelperStep

(* A step of another run q leaves what holds for p alone: either q is      *)
(* outside the lock and changes nothing shared, or p is, and the offline   *)
(* account no longer has p's password.                                     *)
LEMMA HolderOtherStep ==
    ASSUME TypeOK, OneRunPerHome, LockInv, HomeInv, SecretInv, HolderInv,
           NEW q \in Helper, HelperStep(q), NEW p \in Helper \ {q}
    PROVE  HolderFacts(p)'
<1>1. pc'[p] = pc[p] /\ secret'[p] = secret[p] /\ payload' = payload /\ pc[q] # "idle"
  BY StepFrame
<1>2. HolderFacts(p)
  BY DEF HolderInv
<1>3. CASE pc[q] \notin UnderLock
  <2>1. UNCHANGED <<users, account, firewall, wfp>>
    BY <1>3, StepFrame DEF network
  <2>. QED
    BY <1>1, <1>2, <2>1 DEF HolderFacts, LoopbackFacts, LoopbackEnforced, Enforced,
       OfflineSid, Exists, Requested, HomeOf
<1>4. CASE pc[q] \in UnderLock
  <2>1. pc[p] \notin UnderLock
    BY <1>4 DEF LockInv
  <2>2. pc[p] \notin AfterOffline /\ pc[p] \notin AfterNetwork /\ pc[p] # "loopback_done"
    BY <2>1 DEF UnderLock, AfterOffline, AfterNetwork
  <2>3. CASE pc[p] \notin AfterLock
    BY <1>1, <2>2, <2>3 DEF HolderFacts, AfterUsers
  <2>4. CASE pc[p] \in AfterLock
    <3>1. users'[HomeOf(p)] = users[HomeOf(p)]
      <4>1. HomeOf(p) # HomeOf(q)
        BY <1>4, <2>4, OnePreparedRun DEF Prepared, Live, UnderLock, AfterLock
      <4>2. HomeOf(p) \in Home
        BY ProvisionConstants DEF HomeOf, TypeOK
      <4>. QED
        BY <4>1, <4>2, SecretMoves DEF TypeOK
    <3>2. users[HomeOf(p)] = secret[p] /\ HomeOf(p)' = HomeOf(p)
      BY <1>1, <1>2, <2>4 DEF HolderFacts, AfterUsers, HomeOf
    <3>3. secret[p] \in Nat /\ secret[p] <= generation /\ generation \in Nat
      BY <2>4 DEF SecretInv, TypeOK
    <3>4. CASE pc[q] = "locked" /\ UNCHANGED <<users, account, network>>
      BY <1>1, <1>2, <3>4 DEF HolderFacts, LoopbackFacts, LoopbackEnforced, Enforced,
         OfflineSid, Exists, Requested, HomeOf, network
    <3>5. CASE account'["offline"].pw = generation + 1
      BY <1>1, <2>2, <3>1, <3>2, <3>3, <3>5 DEF HolderFacts
    <3>6. CASE pc[q] \in AfterOffline /\ account'["offline"].pw = account["offline"].pw
      <4>1. account["offline"].pw = secret[q]
        BY <3>6 DEF HolderInv, HolderFacts
      <4>2. secret[q] # secret[p]
        BY <2>4, <3>6 DEF SecretInv
      <4>. QED
        BY <1>1, <2>2, <3>1, <3>2, <3>6, <4>1, <4>2 DEF HolderFacts
    <3>. QED
      BY <1>4, <3>4, <3>5, <3>6, AccountMoves
  <2>. QED
    BY <2>3, <2>4
<1>. QED
  BY <1>3, <1>4

(* What an uninstall may do while the offline account can be used: nothing *)
(* but disable it, and that only when no run holds the lock.               *)
LEMMA CleanupEffect ==
    ASSUME TypeOK, Cleanup
    PROVE  \/ UNCHANGED <<account, firewall, wfp>>
           \/ /\ mutex \notin Helper
              /\ UNCHANGED <<firewall, wfp>>
              /\ account'["offline"] = account["offline"]
           \/ mutex \notin Helper /\ (Exists("offline") => account["offline"].disabled)'
<1>0. Cleaner \notin Helper
  BY ProvisionConstants
<1>1. CASE CleanupStart \/ CleanupStop
  BY <1>1 DEF CleanupStart, CleanupStop, network
<1>2. ASSUME NEW u \in User, CleanupDisable(u)
      PROVE  mutex \notin Helper /\ UNCHANGED <<firewall, wfp>>
             /\ (account'["offline"] = account["offline"] \/ account'["offline"].disabled)
  BY <1>0, <1>2 DEF CleanupDisable, network, TypeOK, Account, User
<1>3. CASE CleanupRule \/ CleanupWfp
  BY <1>0, <1>3 DEF CleanupRule, CleanupWfp, AllDisabled, IsDisabled, Exists, User
<1>4. ASSUME NEW u \in User, CleanupDelete(u)
      PROVE  mutex \notin Helper /\ UNCHANGED <<firewall, wfp>>
             /\ (account'["offline"] = account["offline"] \/ ~Exists("offline")')
  BY <1>0, <1>4 DEF CleanupDelete, network, TypeOK, Account, User, Exists
<1>. QED
  BY <1>1, <1>2, <1>3, <1>4 DEF Cleanup

LEMMA HolderStep ==
    ASSUME TypeOK, OneRunPerHome, LockInv, HomeInv, SecretInv, HolderInv, [Next]_vars
    PROVE  HolderInv'
<1>1. ASSUME NEW q \in Helper, HelperStep(q) PROVE HolderInv'
  BY <1>1, HolderOwnStep, HolderOtherStep DEF HolderInv
<1>. USE DEF HolderInv, HolderFacts, LoopbackFacts, LoopbackEnforced, Enforced,
             OfflineSid, Exists, Requested, HomeOf
<1>2. ASSUME NEW q \in Helper, Launch(q) PROVE HolderInv'
  BY <1>2 DEF Launch, Goto, TypeOK, files, network, AfterOffline, AfterNetwork,
     AfterUsers, AfterLock
<1>3. ASSUME NEW q \in Helper, Abort(q) PROVE HolderInv'
  BY <1>3 DEF Abort, TypeOK, network, AfterOffline, AfterNetwork, AfterUsers, AfterLock
<1>4. CASE Cleanup
  <2>1. UNCHANGED <<pc, payload, secret, users>>
    BY <1>4, CleanupKeepsHelpers DEF files
  <2>2. CASE UNCHANGED <<account, firewall, wfp>>
    BY <2>1, <2>2
  <2>3. CASE mutex \notin Helper
    <3>1. \A p \in Helper : pc[p] \notin UnderLock
      BY <2>3 DEF LockInv
    <3>2. \A p \in Helper : /\ pc[p] \notin AfterOffline /\ pc[p] \notin AfterNetwork
                            /\ pc[p] # "loopback_done"
      BY <3>1 DEF UnderLock, AfterOffline, AfterNetwork
    <3>. QED
      BY <1>4, <2>1, <2>3, <3>2, CleanupEffect
  <2>. QED
    BY <1>4, <2>2, <2>3, CleanupEffect
<1>5. CASE UNCHANGED vars
  BY <1>5 DEF vars
<1>. QED
  BY <1>1, <1>2, <1>3, <1>4, <1>5 DEF Next


(* While a run is past its offline password, no home is usable but by the  *)
(* account that run is going to protect; nothing it changes can therefore  *)
(* be seen by a home that records other settings.                          *)
LEMMA EnforcedStep ==
    ASSUME TypeOK, EnforcementInv, [Next]_vars PROVE UsableMeansEnforced'
<1>. USE DEF EnforcementInv
<1>1. ASSUME NEW q \in Helper, HelperStep(q), NEW h \in Home, Usable(h)'
      PROVE  Enforced(marker[h])'
  <2>1. CASE pc[q] \notin UnderLock
    <3>1. UNCHANGED <<users, account, firewall, wfp>>
      BY <1>1, <2>1, StepFrame DEF network
    <3>2. CASE marker'[h] = marker[h]
      BY <1>1, <3>1, <3>2 DEF UsableMeansEnforced, Usable, Complete, Exists, Enforced,
         LoopbackEnforced, OfflineSid
    <3>3. CASE marker'[h] # marker[h]
      <4>1. marker'[h] \in Settings
        BY <1>1 DEF Usable, Complete
      <4>2. pc[q] = "dirs_locked" /\ h = HomeOf(q) /\ marker'[h] = Requested(q)
        BY <1>1, <3>3, <4>1, MarkerMoves, ProvisionConstants DEF TypeOK
      <4>3. users[h] = secret[q]
        BY <4>2 DEF HolderInv, HolderFacts, AfterUsers, AfterLock
      <4>4. Exists("offline") /\ ~account["offline"].disabled /\ account["offline"].pw = secret[q]
        BY <1>1, <3>1, <4>3 DEF Usable, Exists
      <4>5. Enforced(Requested(q))
        BY <4>2, <4>4 DEF HolderInv, HolderFacts, AfterLock
      <4>. QED
        BY <3>1, <4>2, <4>5 DEF Enforced, LoopbackEnforced, OfflineSid
    <3>. QED
      BY <3>2, <3>3
  <2>2. CASE pc[q] \in UnderLock
    <3>1. marker' = marker
      BY <1>1, <2>2, StepFrame
    <3>2. h # HomeOf(q) \/ pc[q] \notin Prepared
      BY <1>1, <3>1 DEF UnfinishedNotReady, Usable, Complete
    <3>3. h # HomeOf(q)
      BY <2>2, <3>2 DEF Prepared, Live, UnderLock
    <3>4. users'[h] = users[h] /\ users[h] \in Nat /\ users[h] <= generation /\ generation \in Nat
      BY <1>1, <3>3, SecretMoves DEF SecretInv, TypeOK
    <3>5. users'[h] = account'["offline"].pw
      BY <1>1 DEF Usable
    <3>6. CASE pc[q] = "locked" /\ UNCHANGED <<users, account, network>>
      BY <1>1, <3>1, <3>6 DEF UsableMeansEnforced, Usable, Complete, Exists, Enforced,
         LoopbackEnforced, OfflineSid, network
    <3>7. CASE account'["offline"].pw = generation + 1
      BY <3>4, <3>5, <3>7
    <3>8. CASE pc[q] \in AfterOffline /\ account'["offline"].pw = account["offline"].pw
      <4>1. account["offline"].pw = secret[q]
        BY <3>8 DEF HolderInv, HolderFacts
      <4>2. users[h] # secret[q]
        BY <3>3, <3>8 DEF SecretInv
      <4>. QED
        BY <3>4, <3>5, <3>8, <4>1, <4>2
    <3>. QED
      BY <1>1, <2>2, <3>6, <3>7, <3>8, AccountMoves
  <2>. QED
    BY <2>1, <2>2
<1>. USE DEF UsableMeansEnforced, Usable, Complete, Exists, Enforced, LoopbackEnforced,
             OfflineSid
<1>2. ASSUME NEW q \in Helper, Launch(q) PROVE UsableMeansEnforced'
  BY <1>2 DEF Launch, files, network
<1>3. ASSUME NEW q \in Helper, Abort(q) PROVE UsableMeansEnforced'
  <2>1. UNCHANGED <<users, account, firewall>>
    BY <1>3 DEF Abort, network
  <2>2. \A h \in Home : marker'[h] = marker[h] \/ marker'[h] \notin Settings
    <3>1. CASE marker' = marker
      BY <3>1
    <3>2. CASE marker' = [marker EXCEPT ![HomeOf(q)] = EmptyMarker]
      BY <3>2, ProvisionConstants DEF TypeOK
    <3>. QED
      BY <1>3, <3>1, <3>2 DEF Abort
  <2>. QED
    BY <2>1, <2>2
<1>4. CASE Cleanup
  <2>1. UNCHANGED <<marker, users>>
    BY <1>4, CleanupKeepsHelpers DEF files
  <2>. QED
    BY <1>4, <2>1, CleanupEffect
<1>5. CASE UNCHANGED vars
  BY <1>5 DEF vars
<1>6. ASSUME NEW q \in Helper, HelperStep(q) PROVE UsableMeansEnforced'
  BY <1>1, <1>6 DEF UsableMeansEnforced
<1>. QED
  BY <1>2, <1>3, <1>4, <1>5, <1>6 DEF Next

LEMMA InitEnforced == Init => EnforcementInv
<1>. SUFFICES ASSUME Init PROVE EnforcementInv
  OBVIOUS
<1>. USE DEF Init
<1>1. LockInv /\ HomeInv /\ UnfinishedNotReady
  BY ProvisionConstants DEF LockInv, HomeInv, UnfinishedNotReady, Prepared, UnderLock, Live,
     BeforeLock, AfterLock
<1>2. SecretInv /\ HolderInv
  BY DEF SecretInv, HolderInv, HolderFacts, LoopbackFacts, AfterOffline, AfterLock,
     AfterUsers, AfterNetwork
<1>3. UsableMeansEnforced
  BY ProvisionConstants DEF UsableMeansEnforced, Usable, Complete
<1>. QED
  BY <1>1, <1>2, <1>3 DEF EnforcementInv

(* The invariant is inductive as long as a home has one run at a time, or  *)
(* every run is service provisioning and pins its marker.                  *)
THEOREM EnforcementInvariant ==
    ASSUME OneRunPerHome PROVE Spec => []EnforcementInv
<1>1. Init => TypeOK /\ EnforcementInv
  BY InitTypes, InitEnforced
<1>2. TypeOK /\ EnforcementInv /\ [Next]_vars => (TypeOK /\ EnforcementInv)'
  <2>. SUFFICES ASSUME TypeOK, EnforcementInv, [Next]_vars
                PROVE  (TypeOK /\ EnforcementInv)'
    OBVIOUS
  <2>1. TypeOK'
    BY NextTypes
  <2>2. LockInv' /\ HomeInv' /\ UnfinishedNotReady' /\ SecretInv' /\ HolderInv'
    BY LockStep, HomeStep, UnfinishedStep, SecretStep, HolderStep DEF EnforcementInv
  <2>. QED
    BY <2>1, <2>2, EnforcedStep DEF EnforcementInv
<1>. QED
  BY <1>1, <1>2, PTL DEF Spec

(* Whoever can log on as the offline user with what a home records runs    *)
(* under the firewall settings that home's marker records.                 *)
THEOREM EnforcementSafety ==
    ASSUME OneRunPerHome PROVE Spec => []UsableMeansEnforced
<1>1. EnforcementInv => UsableMeansEnforced
  BY DEF EnforcementInv
<1>. QED
  BY <1>1, EnforcementInvariant, PTL

(* A home is never complete between the creation and the commit of its     *)
(* marker.                                                                 *)
THEOREM UnfinishedSafety ==
    ASSUME OneRunPerHome PROVE Spec => []UnfinishedNotReady
<1>1. EnforcementInv => UnfinishedNotReady
  BY DEF EnforcementInv
<1>. QED
  BY <1>1, EnforcementInvariant, PTL
----------------------------------------------------------------------------
(* The steps that do not draw, set or record a password.                   *)
LEMMA PasswordMoves ==
    ASSUME TypeOK, NEW p \in Helper, HelperStep(p)
    PROVE  \/ EnsureOffline(p) \/ EnsureOnline(p) \/ TruncateUsers(p) \/ WriteUsers(p)
           \/ /\ UNCHANGED <<users, generation, secret>>
              /\ \A u \in User : account'[u].pw = account[u].pw /\ account'[u].sid = account[u].sid
              /\ pc'[p] \in AfterOffline => pc[p] \in AfterOffline /\ pc[p] # "offline_set"
              /\ pc'[p] # "offline_set"
<1>. USE DEF TypeOK, Goto, files, network, bounds, AfterOffline, User, Account
<1>1. CASE RemoveMarker(p)
  BY <1>1 DEF RemoveMarker
<1>2. CASE CreateMarker(p)
  BY <1>2 DEF CreateMarker
<1>3. CASE AcquireLock(p)
  BY <1>3 DEF AcquireLock
<1>4. CASE CheckAccounts(p)
  BY <1>4 DEF CheckAccounts
<1>5. CASE RemoveLegacyRule(p)
  BY <1>5 DEF RemoveLegacyRule, FirewallStep
<1>6. CASE RemoveUdpRule(p)
  BY <1>6 DEF RemoveUdpRule, FirewallStep
<1>7. CASE RemoveTcpRule(p)
  BY <1>7 DEF RemoveTcpRule, FirewallStep
<1>8. CASE BlockUdp(p)
  BY <1>8 DEF BlockUdp, FirewallStep
<1>9. CASE BlockAllTcp(p)
  BY <1>9 DEF BlockAllTcp, FirewallStep
<1>10. CASE DropLegacyAllow(p)
  BY <1>10 DEF DropLegacyAllow, FirewallStep
<1>11. CASE NarrowTcp(p)
  BY <1>11 DEF NarrowTcp, FirewallStep
<1>12. CASE BlockOutbound(p)
  BY <1>12 DEF BlockOutbound, FirewallStep
<1>13. CASE InstallWfp(p)
  BY <1>13 DEF InstallWfp
<1>14. CASE EnableOffline(p)
  BY <1>14 DEF EnableOffline, Enable
<1>15. CASE EnableOnline(p)
  BY <1>15 DEF EnableOnline, Enable
<1>16. CASE ReleaseLock(p)
  BY <1>16 DEF ReleaseLock
<1>17. CASE LockDirs(p)
  BY <1>17 DEF LockDirs
<1>18. CASE CommitMarker(p)
  BY <1>18 DEF CommitMarker
<1>. QED
  BY <1>1, <1>2, <1>3, <1>4, <1>5, <1>6, <1>7, <1>8, <1>9, <1>10,
     <1>11, <1>12, <1>13, <1>14, <1>15, <1>16, <1>17, <1>18 DEF HelperStep

LEMMA TogetherHelper ==
    ASSUME TypeOK, TogetherInv, NEW p \in Helper, HelperStep(p), LockInv'
    PROVE  TogetherInv'
<1>. DEFINE Recorded(h) ==
                Exists("offline") /\ Exists("online") /\ users[h] # 0
                /\ users[h] = account["offline"].pw => account["online"].pw = users[h]
<1>0. /\ HomeOf(p) \in Home
      /\ generation \in Nat /\ secret[p] \in Nat
      /\ \A h \in Home : users[h] \in Nat /\ users[h] <= generation /\ Recorded(h)
      /\ TogetherFacts(p)
      /\ "offline" \in User /\ "online" \in User
  BY ProvisionConstants DEF HomeOf, TypeOK, TogetherInv, User
<1>1. ASSUME NEW q \in Helper \ {p} PROVE TogetherFacts(q)'
  <2>1. pc'[q] = pc[q] /\ secret'[q] = secret[q] /\ TogetherFacts(q)
    BY <1>1, StepFrame DEF TogetherInv
  <2>2. CASE pc[p] \in UnderLock
    <3>1. pc[q] \notin UnderLock
      BY <2>2 DEF TogetherInv, LockInv
    <3>2. pc[q] \notin AfterOffline /\ pc[q] # "offline_set"
      BY <3>1 DEF UnderLock, AfterOffline
    <3>. QED
      BY <2>1, <3>2 DEF TogetherFacts
  <2>3. CASE pc[p] \notin UnderLock
    BY <2>1, <2>3, StepFrame DEF TogetherFacts
  <2>. QED
    BY <2>2, <2>3
<1>2. CASE EnsureOffline(p)
  <2>1. /\ generation' = generation + 1 /\ secret'[p] = generation + 1
        /\ users' = users /\ pc'[p] = "offline_set"
        /\ account'["offline"].pw = generation + 1
    BY <1>0, <1>2 DEF EnsureOffline, Ensured, Goto, files, TypeOK, Account
  <2>2. TogetherFacts(p)'
    BY <1>0, <2>1 DEF TogetherFacts, AfterOffline
  <2>3. \A h \in Home : users'[h] <= generation' /\ Recorded(h)'
    BY <1>0, <2>1
  <2>. QED
    BY <1>1, <2>2, <2>3 DEF TogetherInv
<1>3. CASE EnsureOnline(p)
  <2>1. /\ pc[p] = "offline_set" /\ pc'[p] = "online_set"
        /\ UNCHANGED <<users, generation, secret>>
        /\ account'["offline"] = account["offline"]
        /\ account'["online"].pw = secret[p]
    BY <1>0, <1>3 DEF EnsureOnline, Ensured, Goto, files, TypeOK, Account
  <2>2. TogetherFacts(p)'
    BY <1>0, <2>1 DEF TogetherFacts, AfterOffline
  <2>3. \A h \in Home : users'[h] <= generation' /\ Recorded(h)'
    BY <1>0, <2>1 DEF TogetherFacts, AfterOffline
  <2>. QED
    BY <1>1, <2>2, <2>3 DEF TogetherInv
<1>4. CASE TruncateUsers(p)
  <2>1. /\ pc[p] = "online_set" /\ pc'[p] = "users_open"
        /\ users' = [users EXCEPT ![HomeOf(p)] = 0]
        /\ UNCHANGED <<account, generation, secret>>
    BY <1>4 DEF TruncateUsers, Goto, TypeOK
  <2>2. TogetherFacts(p)'
    BY <1>0, <2>1 DEF TogetherFacts, AfterOffline
  <2>3. \A h \in Home : users'[h] <= generation' /\ Recorded(h)'
    BY <1>0, <2>1 DEF TypeOK, Exists
  <2>. QED
    BY <1>1, <2>2, <2>3 DEF TogetherInv
<1>5. CASE WriteUsers(p)
  <2>1. /\ pc[p] \in {"online_set", "users_open"} /\ pc'[p] = "users_written"
        /\ users' = [users EXCEPT ![HomeOf(p)] = secret[p]]
        /\ UNCHANGED <<account, generation, secret>>
    BY <1>5 DEF WriteUsers, Goto, TypeOK
  <2>2. TogetherFacts(p)'
    BY <1>0, <2>1 DEF TogetherFacts, AfterOffline
  <2>3. secret[p] <= generation /\ account["online"].pw = secret[p]
    BY <1>0, <2>1 DEF TogetherFacts, AfterOffline
  <2>4. \A h \in Home : users'[h] <= generation' /\ Recorded(h)'
    BY <1>0, <2>1, <2>3 DEF TypeOK, Exists
  <2>. QED
    BY <1>1, <2>2, <2>4 DEF TogetherInv
<1>6. CASE /\ UNCHANGED <<users, generation, secret>>
           /\ \A u \in User : account'[u].pw = account[u].pw /\ account'[u].sid = account[u].sid
           /\ pc'[p] \in AfterOffline => pc[p] \in AfterOffline /\ pc[p] # "offline_set"
           /\ pc'[p] # "offline_set"
  <2>1. TogetherFacts(p)'
    BY <1>0, <1>6 DEF TogetherFacts
  <2>2. \A h \in Home : users'[h] <= generation' /\ Recorded(h)'
    BY <1>0, <1>6 DEF Exists
  <2>. QED
    BY <1>1, <2>1, <2>2 DEF TogetherInv
<1>. QED
  BY <1>2, <1>3, <1>4, <1>5, <1>6, PasswordMoves

LEMMA TogetherStep ==
    ASSUME TypeOK, TogetherInv, [Next]_vars PROVE TogetherInv'
<1>0. LockInv'
  BY LockStep DEF TogetherInv
<1>1. ASSUME NEW p \in Helper, HelperStep(p) PROVE TogetherInv'
  BY <1>0, <1>1, TogetherHelper
<1>. USE <1>0 DEF TogetherInv, TogetherFacts, Exists
<1>2. ASSUME NEW p \in Helper, Launch(p) PROVE TogetherInv'
  BY <1>2 DEF Launch, Goto, TypeOK, files, AfterOffline
<1>3. ASSUME NEW p \in Helper, Abort(p) PROVE TogetherInv'
  BY <1>3 DEF Abort, TypeOK, AfterOffline
<1>4. CASE Cleanup
  <2>1. UNCHANGED <<pc, secret, users, generation>>
    BY <1>4, CleanupKeepsHelpers DEF files
  <2>2. CASE CleanupStart \/ CleanupRule \/ CleanupWfp \/ CleanupStop
    BY <2>1, <2>2 DEF CleanupStart, CleanupRule, CleanupWfp, CleanupStop
  <2>3. CASE \E u \in User : CleanupDisable(u) \/ CleanupDelete(u)
    <3>1. \A p \in Helper : pc[p] \notin UnderLock
      BY <2>3, ProvisionConstants DEF CleanupDisable, CleanupDelete, LockInv
    <3>2. \A p \in Helper : pc[p] \notin AfterOffline /\ pc[p] # "offline_set"
      BY <3>1 DEF UnderLock, AfterOffline
    <3>3. \A v \in User : account'[v].sid # 0 => account'[v].sid = account[v].sid
                                               /\ account'[v].pw = account[v].pw
      BY <2>3 DEF CleanupDisable, CleanupDelete, TypeOK, Account
    <3>. QED
      BY <2>1, <3>2, <3>3 DEF User
  <2>. QED
    BY <1>4, <2>2, <2>3 DEF Cleanup
<1>5. CASE UNCHANGED vars
  BY <1>5 DEF vars
<1>. QED
  BY <1>1, <1>2, <1>3, <1>4, <1>5 DEF Next

(* When a home's recorded password opens the offline account, it opens the *)
(* online one too, whatever runs overlap, fail or die                      *)
(* (provision_sandbox_users).                                              *)
THEOREM PasswordSafety == Spec => []PasswordsTogether
<1>1. Init => TypeOK /\ TogetherInv
  <2>. SUFFICES ASSUME Init PROVE TypeOK /\ TogetherInv
    OBVIOUS
  <2>1. LockInv
    BY InitEnforced DEF EnforcementInv
  <2>2. TogetherInv
    BY <2>1 DEF Init, TogetherInv, TogetherFacts, AfterOffline
  <2>. QED
    BY <2>2, InitTypes
<1>2. TypeOK /\ TogetherInv /\ [Next]_vars => (TypeOK /\ TogetherInv)'
  BY NextTypes, TogetherStep
<1>3. TogetherInv => PasswordsTogether
  BY DEF TogetherInv, PasswordsTogether, Usable, Complete
<1>. QED
  BY <1>1, <1>2, <1>3, PTL DEF Spec
----------------------------------------------------------------------------
(* What a repair knows under the lock.                                     *)
LEMMA RepairOwnStep ==
    ASSUME TypeOK, NEW p \in Helper, RepairFacts(p), HelperStep(p)
    PROVE  RepairFacts(p)'
<1>. USE DEF TypeOK, Goto, files, network, bounds, User, AfterOffline, AfterNetwork,
             RepairFacts, LoopbackFacts, LoopbackEnforced, Enforced, OfflineSid,
             Exists, IsDisabled, Requested
<1>1. CASE RemoveMarker(p)
  BY <1>1 DEF RemoveMarker
<1>2. CASE CreateMarker(p)
  BY <1>2 DEF CreateMarker
<1>3. CASE AcquireLock(p)
  BY <1>3 DEF AcquireLock
<1>4. CASE CheckAccounts(p)
  BY <1>4 DEF CheckAccounts
<1>5. CASE EnsureOffline(p)
  BY <1>5 DEF EnsureOffline, Ensured, Account
<1>6. CASE EnsureOnline(p)
  BY <1>6 DEF EnsureOnline, Ensured, Account
<1>7. CASE TruncateUsers(p)
  BY <1>7 DEF TruncateUsers
<1>8. CASE WriteUsers(p)
  BY <1>8 DEF WriteUsers
<1>9. CASE RemoveLegacyRule(p)
  BY <1>9 DEF RemoveLegacyRule, FirewallStep, Firewall
<1>10. CASE RemoveUdpRule(p)
  BY <1>10 DEF RemoveUdpRule, FirewallStep, Firewall
<1>11. CASE RemoveTcpRule(p)
  BY <1>11 DEF RemoveTcpRule, FirewallStep, Firewall
<1>12. CASE BlockUdp(p)
  BY <1>12 DEF BlockUdp, FirewallStep, Firewall
<1>13. CASE BlockAllTcp(p)
  BY <1>13 DEF BlockAllTcp, FirewallStep, Firewall
<1>14. CASE DropLegacyAllow(p)
  BY <1>14 DEF DropLegacyAllow, FirewallStep, Firewall
<1>15. CASE NarrowTcp(p)
  BY <1>15 DEF NarrowTcp, FirewallStep, Firewall
<1>16. CASE BlockOutbound(p)
  BY <1>16 DEF BlockOutbound, FirewallStep, Firewall
<1>17. CASE InstallWfp(p)
  BY <1>17 DEF InstallWfp
<1>18. CASE EnableOffline(p)
  BY <1>18 DEF EnableOffline, Enable, Account
<1>19. CASE EnableOnline(p)
  BY <1>19 DEF EnableOnline, Enable, Account
<1>20. CASE ReleaseLock(p)
  BY <1>20 DEF ReleaseLock
<1>21. CASE LockDirs(p)
  BY <1>21 DEF LockDirs
<1>22. CASE CommitMarker(p)
  BY <1>22 DEF CommitMarker
<1>. QED
  BY <1>1, <1>2, <1>3, <1>4, <1>5, <1>6, <1>7, <1>8, <1>9, <1>10,
     <1>11, <1>12, <1>13, <1>14, <1>15, <1>16, <1>17, <1>18,
     <1>19, <1>20, <1>21, <1>22 DEF HelperStep

(* No run changes what another one found.                                  *)
LEMMA OthersRepairing ==
    ASSUME TypeOK, NEW p \in Helper, HelperStep(p)
    PROVE  \A q \in Helper \ {p} : repairing'[q] = repairing[q]
BY DEF TypeOK, HelperStep, RemoveMarker, CreateMarker, AcquireLock, CheckAccounts,
   EnsureOffline, EnsureOnline, TruncateUsers, WriteUsers, RemoveLegacyRule,
   RemoveUdpRule, RemoveTcpRule, BlockUdp, BlockAllTcp, DropLegacyAllow, NarrowTcp,
   BlockOutbound, FirewallStep, InstallWfp, EnableOffline, EnableOnline, Enable,
   ReleaseLock, LockDirs, CommitMarker

(* Accounts are enabled, or created enabled, by the owner of the lock who  *)
(* knows that it may.                                                      *)
LEMMA AccountsOpened ==
    ASSUME TypeOK, NEW p \in Helper, HelperStep(p), NEW u \in User, ~account'[u].disabled
    PROVE  /\ IsDisabled(u) /\ account'[u].sid = account[u].sid =>
                repairing[p] /\ pc[p] \in {"wfp_done", "offline_enabled"}
           /\ ~Exists(u) /\ account'[u].sid # 0 =>
                ~repairing[p] /\ pc[p] \in {"checked", "offline_set"}
<1>. USE DEF TypeOK, Goto, files, network, bounds, User, Exists, IsDisabled
<1>1. CASE RemoveMarker(p)
  BY <1>1 DEF RemoveMarker
<1>2. CASE CreateMarker(p)
  BY <1>2 DEF CreateMarker
<1>3. CASE AcquireLock(p)
  BY <1>3 DEF AcquireLock
<1>4. CASE CheckAccounts(p)
  BY <1>4 DEF CheckAccounts
<1>5. CASE EnsureOffline(p)
  BY <1>5 DEF EnsureOffline, Ensured, Account
<1>6. CASE EnsureOnline(p)
  BY <1>6 DEF EnsureOnline, Ensured, Account
<1>7. CASE TruncateUsers(p)
  BY <1>7 DEF TruncateUsers
<1>8. CASE WriteUsers(p)
  BY <1>8 DEF WriteUsers
<1>9. CASE RemoveLegacyRule(p)
  BY <1>9 DEF RemoveLegacyRule, FirewallStep, Firewall
<1>10. CASE RemoveUdpRule(p)
  BY <1>10 DEF RemoveUdpRule, FirewallStep, Firewall
<1>11. CASE RemoveTcpRule(p)
  BY <1>11 DEF RemoveTcpRule, FirewallStep, Firewall
<1>12. CASE BlockUdp(p)
  BY <1>12 DEF BlockUdp, FirewallStep, Firewall
<1>13. CASE BlockAllTcp(p)
  BY <1>13 DEF BlockAllTcp, FirewallStep, Firewall
<1>14. CASE DropLegacyAllow(p)
  BY <1>14 DEF DropLegacyAllow, FirewallStep, Firewall
<1>15. CASE NarrowTcp(p)
  BY <1>15 DEF NarrowTcp, FirewallStep, Firewall
<1>16. CASE BlockOutbound(p)
  BY <1>16 DEF BlockOutbound, FirewallStep, Firewall
<1>17. CASE InstallWfp(p)
  BY <1>17 DEF InstallWfp
<1>18. CASE EnableOffline(p)
  BY <1>18 DEF EnableOffline, Enable, Account
<1>19. CASE EnableOnline(p)
  BY <1>19 DEF EnableOnline, Enable, Account
<1>20. CASE ReleaseLock(p)
  BY <1>20 DEF ReleaseLock
<1>21. CASE LockDirs(p)
  BY <1>21 DEF LockDirs
<1>22. CASE CommitMarker(p)
  BY <1>22 DEF CommitMarker
<1>. QED
  BY <1>1, <1>2, <1>3, <1>4, <1>5, <1>6, <1>7, <1>8, <1>9, <1>10,
     <1>11, <1>12, <1>13, <1>14, <1>15, <1>16, <1>17, <1>18,
     <1>19, <1>20, <1>21, <1>22 DEF HelperStep

LEMMA RepairStep ==
    ASSUME TypeOK, RepairInv, [Next]_vars PROVE RepairInv'
<1>0. LockInv'
  BY LockStep DEF RepairInv
<1>. SUFFICES \A q \in Helper : RepairFacts(q)'
  BY <1>0 DEF RepairInv
<1>1. ASSUME NEW p \in Helper, HelperStep(p) PROVE \A q \in Helper : RepairFacts(q)'
  <2>1. RepairFacts(p)'
    BY <1>1, RepairOwnStep DEF RepairInv
  <2>2. ASSUME NEW q \in Helper \ {p} PROVE RepairFacts(q)'
    <3>1. pc'[q] = pc[q] /\ payload' = payload /\ RepairFacts(q)
      BY <1>1, <2>2, StepFrame DEF RepairInv
    <3>2. CASE pc[q] \notin UnderLock
      BY <3>1, <3>2 DEF RepairFacts, AfterOffline, AfterNetwork, UnderLock
    <3>3. CASE pc[q] \in UnderLock
      <4>1. pc[p] \notin UnderLock
        BY <3>3 DEF RepairInv, LockInv
      <4>2. UNCHANGED <<account, firewall, wfp>>
        BY <1>1, <4>1, StepFrame DEF network
      <4>3. repairing'[q] = repairing[q]
        BY <1>1, OthersRepairing
      <4>. QED
        BY <3>1, <4>2, <4>3 DEF RepairFacts, LoopbackFacts, LoopbackEnforced, Enforced,
           OfflineSid, Exists, IsDisabled, Requested
    <3>. QED
      BY <3>2, <3>3
  <2>. QED
    BY <2>1, <2>2
<1>. USE DEF RepairInv, RepairFacts, LoopbackFacts, LoopbackEnforced, Enforced,
             OfflineSid, Exists, IsDisabled, Requested
<1>2. ASSUME NEW p \in Helper, Launch(p) PROVE \A q \in Helper : RepairFacts(q)'
  BY <1>2 DEF Launch, Goto, TypeOK, files, network, AfterOffline, AfterNetwork
<1>3. ASSUME NEW p \in Helper, Abort(p) PROVE \A q \in Helper : RepairFacts(q)'
  BY <1>3 DEF Abort, TypeOK, network, AfterOffline, AfterNetwork
<1>4. CASE Cleanup
  <2>1. UNCHANGED <<pc, payload, repairing>>
    BY <1>4, CleanupKeepsHelpers
  <2>2. CASE UNCHANGED <<account, firewall, wfp>>
    BY <2>1, <2>2
  <2>3. CASE mutex \notin Helper
    <3>1. \A q \in Helper : pc[q] \notin UnderLock
      BY <2>3 DEF LockInv
    <3>. QED
      BY <2>1, <3>1 DEF UnderLock, AfterOffline, AfterNetwork
  <2>. QED
    BY <1>4, <2>2, <2>3, CleanupEffect
<1>5. CASE UNCHANGED vars
  BY <1>5 DEF vars
<1>. QED
  BY <1>1, <1>2, <1>3, <1>4, <1>5 DEF Next

(* A step enables an account, or creates one that is enabled, only when    *)
(* all protections are back and no other account waits for its repair.     *)
LEMMA OpenedWhenRepaired ==
    ASSUME TypeOK, RepairInv, [Next]_vars, NEW u \in User, ~account'[u].disabled
    PROVE  /\ IsDisabled(u) /\ account'[u].sid = account[u].sid =>
                \E p \in Helper : mutex = p /\ Enforced(Requested(p)) /\ wfp = OfflineSid
           /\ ~Exists(u) /\ account'[u].sid # 0 => \A v \in User : ~IsDisabled(v)
<1>1. ASSUME NEW p \in Helper, HelperStep(p)
      PROVE  /\ IsDisabled(u) /\ account'[u].sid = account[u].sid =>
                  mutex = p /\ Enforced(Requested(p)) /\ wfp = OfflineSid
             /\ ~Exists(u) /\ account'[u].sid # 0 => \A v \in User : ~IsDisabled(v)
  <2>1. RepairFacts(p) /\ (pc[p] \in UnderLock => mutex = p)
    BY DEF RepairInv, LockInv
  <2>. QED
    BY <1>1, <2>1, AccountsOpened DEF RepairFacts, AfterNetwork, UnderLock
<1>2. CASE account' = account
  BY <1>2 DEF IsDisabled, Exists
<1>3. ASSUME NEW w \in User, CleanupDisable(w) \/ CleanupDelete(w)
      PROVE  /\ ~IsDisabled(u) \/ account'[u].sid # account[u].sid
             /\ Exists(u) \/ account'[u].sid = 0
  BY <1>3 DEF CleanupDisable, CleanupDelete, IsDisabled, Exists, TypeOK, Account
<1>4. Cleanup => account' = account \/ \E w \in User : CleanupDisable(w) \/ CleanupDelete(w)
  BY DEF Cleanup, CleanupStart, CleanupRule, CleanupWfp, CleanupStop
<1>5. \A p \in Helper : Launch(p) \/ Abort(p) => account' = account
  BY DEF Launch, Abort
<1>6. UNCHANGED vars => account' = account
  BY DEF vars
<1>. QED
  BY <1>1, <1>2, <1>3, <1>4, <1>5, <1>6 DEF Next

(* After an interrupted uninstall nobody can log on before the repair is   *)
(* through, neither with an old account nor with one created for it        *)
(* (provision_sandbox, ensure_local_user), whatever runs overlap.          *)
THEOREM RepairSafety == Spec => RepairedBeforeLogon
<1>1. Init => TypeOK /\ RepairInv
  <2>. SUFFICES ASSUME Init PROVE TypeOK /\ RepairInv
    OBVIOUS
  <2>1. LockInv
    BY InitEnforced DEF EnforcementInv
  <2>2. RepairInv
    BY <2>1 DEF Init, RepairInv, RepairFacts, AfterOffline, AfterNetwork
  <2>. QED
    BY <2>2, InitTypes
<1>2. TypeOK /\ RepairInv /\ [Next]_vars => (TypeOK /\ RepairInv)'
  BY NextTypes, RepairStep
<1>3. TypeOK /\ RepairInv /\ [Next]_vars =>
        /\ [\A u \in User :
               IsDisabled(u) /\ account'[u].sid = account[u].sid /\ ~account'[u].disabled
               => \E p \in Helper : mutex = p /\ Enforced(Requested(p)) /\ wfp = OfflineSid]_vars
        /\ [\A u \in User : ~Exists(u) /\ account'[u].sid # 0 /\ ~account'[u].disabled
               => \A v \in User : ~IsDisabled(v)]_vars
  BY OpenedWhenRepaired
<1>. QED
  BY <1>1, <1>2, <1>3, PTL DEF Spec, RepairedBeforeLogon, ProtectedBeforeEnabled,
     ReplacementStaysDisabled

-----------------------------------------------------------------------------
-----------------------------------------------------------------------------
(* The configuration files and setup.                                      *)

Files == Texts \cup {None, Bad}

FilesInv ==
    /\ usage \in DOMAIN Usages
    /\ base \in Files /\ layer \in Files /\ text \in Texts \cup {None}
    /\ setup \in {"idle", "provisioned", "changed", "done", "failed"}
    /\ edits \in 0..Usages[usage].edits /\ setups \in 0..Usages[usage].setups
    /\ setup # "idle" => setups > 0
    /\ (text # None) <=> (setup = "changed")
    /\ setup = "changed" => text.value = "elevated"
    /\ ~Usages[usage].editsInSetup =>
         /\ setup = "changed" =>
              base # Bad /\ text.rest = IF base = None THEN {} ELSE base.rest
         /\ setup = "done" => base \in Texts /\ base.value = "elevated"

LEMMA EmptyIsText == Empty \in Texts
BY DEF Empty, Texts

LEMMA AssignedIsText ==
    ASSUME NEW file \in Texts
    PROVE  /\ Assign(file) \in Texts /\ Assign(file) # None
           /\ Assign(file).value = "elevated" /\ Assign(file).rest = file.rest
<1> DEFINE values == {None, "elevated"} \cup {f.value : f \in FileTexts}
           where == IF file.where = "nowhere" THEN "inline" ELSE file.where
           rests == {{}} \cup {f.rest : f \in FileTexts}
<1>2. "elevated" \in values
  OBVIOUS
<1>3. where \in {"nowhere", "table", "inline"}
  BY DEF Texts
<1>4. Texts = [where : {"nowhere", "table", "inline"}, value : values, rest : rests]
  BY DEF Texts
<1>5. Assign(file) = [file EXCEPT !.where = where, !.value = "elevated"]
  BY DEF Assign
<1> HIDE DEF values, where, rests
<1>1. /\ Assign(file) \in Texts /\ Assign(file).value = "elevated" /\ Assign(file).rest = file.rest
  BY <1>2, <1>3, <1>4, <1>5
<1> QED BY <1>1, TextsAssumption

LEMMA FilesGiven ==
    ASSUME NEW u \in DOMAIN Usages, NEW file \in Usages[u].files \cup Usages[u].layers
    PROVE  file \in Files
<1> DEFINE some == {Usages[v].files \cup Usages[v].layers : v \in DOMAIN Usages}
<1>1. file \in UNION some
  OBVIOUS
<1>2. FileTexts = (UNION some) \ {None, Bad}
  BY Zenon DEF FileTexts
<1> HIDE DEF some
<1>3. file \in {None, Bad} \/ file \in FileTexts
  BY <1>1, <1>2
<1> QED BY <1>3, TextsAssumption DEF Files

LEMMA FilesInit == ElevatedInit => FilesInv
<1> SUFFICES ASSUME ElevatedInit PROVE FilesInv
  OBVIOUS
<1>1. base \in Files /\ layer \in Files /\ usage \in DOMAIN Usages
  BY FilesGiven DEF ElevatedInit, LineInit
<1> QED BY <1>1, LineAssumption DEF ElevatedInit, LineInit, FilesInv

(* No step of an invocation or of a refresh writes them.                   *)
LEMMA FilesOfRun ==
    ASSUME FilesInv, UNCHANGED <<usage, base, layer, edits, setups, setting>>
    PROVE  FilesInv'
BY DEF FilesInv, Files, setting

LEMMA InvocationLeavesFiles ==
    ASSUME Invocation \/ \E r \in Usages[usage].requests : Start(r)
    PROVE  UNCHANGED <<base, layer, edits, setups, setting>>
BY DEF Invocation, Start, Profile, External, Managed, RefuseState, TakeEntry, EndEntries, ReadBase,
       ReadLayer, Options, Dispatch, Exit, GoTo, Refuse

LEMMA FilesStep == FilesInv /\ [ElevatedNext /\ UNCHANGED chosen]_<<elevatedVars, chosen>> => FilesInv'
<1> SUFFICES ASSUME FilesInv, [ElevatedNext /\ UNCHANGED chosen]_<<elevatedVars, chosen>> PROVE FilesInv'
  OBVIOUS
<1>0. usage' = usage /\ Usages[usage].edits \in Nat /\ Usages[usage].setups \in Nat
  BY LineAssumption DEF chosen, FilesInv
<1>1. CASE SetupBegins
  BY <1>0, <1>1 DEF SetupBegins, FilesInv, Files
<1>2. CASE SetupReads
  <2>1. CASE base = Bad
    BY <1>0, <1>2, <2>1 DEF SetupReads, Outside, FilesInv, Files
  <2>2. CASE base # Bad
    <3> DEFINE old == IF base = None THEN Empty ELSE base
    <3>1. old \in Texts  BY <2>2, EmptyIsText DEF FilesInv, Files
    <3>2. /\ text' = Assign(old) /\ setup' = "changed" /\ base' = base
          /\ UNCHANGED <<layer, edits, setups>> /\ setup = "provisioned"
      BY <1>2, <2>2 DEF SetupReads, Outside
    <3>3. old.rest = IF base = None THEN {} ELSE base.rest
      BY DEF Empty
    <3> HIDE DEF old
    <3> QED BY <1>0, <2>2, <3>1, <3>2, <3>3, AssignedIsText DEF FilesInv, Files
  <2> QED BY <2>1, <2>2
<1>3. CASE SetupPersists
  BY <1>0, <1>3 DEF SetupPersists, Outside, FilesInv, Files
<1>4. CASE SetupEnds
  BY <1>0, <1>4 DEF SetupEnds, Outside, FilesInv, Files
<1>5. CASE Edit
  <2>1. base' \in Files
    BY <1>0, <1>5, FilesGiven DEF Edit, FilesInv
  <2> QED BY <1>0, <1>5, <2>1 DEF Edit, setting, FilesInv
<1>6. CASE UNCHANGED <<base, layer, edits, setups, setting>>
  BY <1>0, <1>6, FilesOfRun
<1> QED BY <1>1, <1>2, <1>3, <1>4, <1>5, <1>6, InvocationLeavesFiles
        DEF ElevatedNext, LineNext, LaunchRefresh, elevatedVars, lineVars

LEMMA FilesHold == ElevatedSpec => []FilesInv
BY FilesInit, FilesStep, PTL DEF ElevatedSpec

(* Setup changes its setting and nothing else, and never leaves half a     *)
(* file.                                                                   *)
THEOREM ConfigKeptHolds == ElevatedSpec => ConfigKept
<1>1. FilesInv /\ [ElevatedNext /\ UNCHANGED chosen]_<<elevatedVars, chosen>> =>
        [(setup # setup' /\ base # Bad) => base' # Bad]_lineVars
  <2> SUFFICES ASSUME FilesInv, [ElevatedNext /\ UNCHANGED chosen]_<<elevatedVars, chosen>>,
                      setup # setup', base # Bad
               PROVE  base' # Bad
    OBVIOUS
  <2>1. base' = base \/ SetupPersists
    BY InvocationLeavesFiles
       DEF ElevatedNext, LineNext, LaunchRefresh, elevatedVars, lineVars, SetupBegins, SetupReads,
           SetupEnds, Edit, setting
  <2> QED BY <2>1, TextsAssumption DEF SetupPersists, FilesInv
<1>2. FilesInv /\ [ElevatedNext /\ UNCHANGED chosen]_<<elevatedVars, chosen>> =>
        [(~Usages[usage].editsInSetup /\ setup # setup' /\ base # base' /\ base # None) =>
           Holds(base) /\ base'.rest = base.rest]_lineVars
  <2> SUFFICES ASSUME FilesInv, [ElevatedNext /\ UNCHANGED chosen]_<<elevatedVars, chosen>>,
                      ~Usages[usage].editsInSetup, setup # setup', base # base', base # None
               PROVE  Holds(base) /\ base'.rest = base.rest
    OBVIOUS
  <2>1. SetupPersists
    BY InvocationLeavesFiles
       DEF ElevatedNext, LineNext, LaunchRefresh, elevatedVars, lineVars, SetupBegins, SetupReads,
           SetupEnds, Edit, setting
  <2> QED BY <2>1 DEF SetupPersists, FilesInv, Holds
<1>3. ElevatedSpec => ConfigWhole
  BY <1>1, FilesHold, PTL DEF ElevatedSpec, ConfigWhole
<1>4. ElevatedSpec => RestKept
  BY <1>2, FilesHold, PTL DEF ElevatedSpec, RestKept
<1> QED BY <1>3, <1>4 DEF ConfigKept

(* Where the setting stands in a table the reader finds it.                *)
LEMMA TableSelectsHolds == ElevatedSpec => []TableSelects
<1>1. FilesInv => TableSelects
  BY DEF FilesInv, TableSelects, SandboxValue
<1> QED BY <1>1, FilesHold, PTL

-----------------------------------------------------------------------------
(* The permissions of an invocation.                                       *)

PermsFields == {"reads", "full", "platform", "writes", "temp", "denyRead", "denyWrite", "block"}

IsPerms(s) ==
    /\ DOMAIN s = PermsFields
    /\ s.full \in BOOLEAN /\ s.platform \in BOOLEAN /\ s.temp \in BOOLEAN /\ s.block \in BOOLEAN

Denies(e) == Located(e) /\ e.access \in {"deny", "none"}
ReadPlaces(es) == {Place(e) : e \in {x \in es : Located(x) /\ x.access = "read"}}
WritePlaces(es) == {Place(e) : e \in {x \in es : Located(x) /\ x.access = "write"}}

(* What is known of permissions gathered from some entries, with what was  *)
(* readable before.                                                        *)
GatheredFrom(s, es, readable) ==
    /\ IsPerms(s)
    /\ \A e \in es :
         /\ Accepted(e)
         /\ Denies(e) => Place(e) \in s.denyRead \cap s.denyWrite
    /\ WritePlaces(es) = s.writes
    /\ s.reads = readable \cup ReadPlaces(es)
    /\ s.temp => \E e \in es : e.access = "write"
    /\ s.full => \E e \in es : e.kind = "root" /\ e.access = "read"

Here(e, accesses) == {Place(x) : x \in {y \in {e} : Located(y) /\ y.access \in accesses}}

LEMMA ApplyAdds ==
    ASSUME NEW s, IsPerms(s), NEW e
    PROVE  LET t == Apply(s, e) IN
           /\ IsPerms(t)
           /\ t.reads = s.reads \cup Here(e, {"read"}) /\ t.writes = s.writes \cup Here(e, {"write"})
           /\ t.denyRead = s.denyRead \cup Here(e, {"deny", "none"})
           /\ t.denyWrite = s.denyWrite \cup Here(e, {"deny", "none"})
           /\ t.full = (s.full \/ e.kind = "root") /\ t.temp = (s.temp \/ e.kind = "tmp")
<1>1. Apply(s, e) =
        [s EXCEPT !.reads = @ \cup Here(e, {"read"}), !.writes = @ \cup Here(e, {"write"}),
                  !.denyRead = @ \cup Here(e, {"deny", "none"}),
                  !.denyWrite = @ \cup Here(e, {"deny", "none"}),
                  !.full = @ \/ e.kind = "root", !.platform = @ \/ e.kind = "minimal",
                  !.temp = @ \/ e.kind = "tmp"]
  BY Zenon DEF Apply, Here
<1> QED BY <1>1 DEF IsPerms, PermsFields

LEMMA HereIs ==
    ASSUME NEW e, NEW accesses
    PROVE  Here(e, accesses) = IF Located(e) /\ e.access \in accesses THEN {Place(e)} ELSE {}
BY DEF Here

LEMMA GatheredOne ==
    ASSUME NEW s, NEW es, NEW readable, GatheredFrom(s, es, readable), NEW e, Accepted(e)
    PROVE  GatheredFrom(Apply(s, e), es \cup {e}, readable)
<1> DEFINE t == Apply(s, e)
<1>0. /\ Here(e, {"read"}) = IF Located(e) /\ e.access = "read" THEN {Place(e)} ELSE {}
      /\ Here(e, {"write"}) = IF Located(e) /\ e.access = "write" THEN {Place(e)} ELSE {}
      /\ Here(e, {"deny", "none"}) = IF Denies(e) THEN {Place(e)} ELSE {}
  BY HereIs DEF Denies
<1>9. IsPerms(s)
  BY DEF GatheredFrom
<1>a. /\ IsPerms(t)
      /\ t.reads = s.reads \cup Here(e, {"read"}) /\ t.writes = s.writes \cup Here(e, {"write"})
      /\ t.denyRead = s.denyRead \cup Here(e, {"deny", "none"})
      /\ t.denyWrite = s.denyWrite \cup Here(e, {"deny", "none"})
      /\ t.full = (s.full \/ e.kind = "root") /\ t.temp = (s.temp \/ e.kind = "tmp")
  BY Zenon, <1>9, ApplyAdds
<1> HIDE DEF t
<1>3. ASSUME NEW x \in es \cup {e}
      PROVE  /\ Accepted(x)
             /\ Denies(x) => Place(x) \in t.denyRead \cap t.denyWrite
  BY <1>0, <1>a DEF GatheredFrom
<1>4. WritePlaces(es \cup {e}) = t.writes
  BY <1>0, <1>a DEF GatheredFrom, WritePlaces
<1>5. t.reads = readable \cup ReadPlaces(es \cup {e})
  BY <1>0, <1>a DEF GatheredFrom, ReadPlaces
<1>6. t.temp => \E x \in es \cup {e} : x.access = "write"
  BY <1>a DEF GatheredFrom, Accepted, Located
<1>7. t.full => \E x \in es \cup {e} : x.kind = "root" /\ x.access = "read"
  BY <1>a DEF GatheredFrom, Accepted, Located
<1>8. GatheredFrom(t, es \cup {e}, readable)
  BY <1>a, <1>3, <1>4, <1>5, <1>6, <1>7 DEF GatheredFrom
<1> QED BY <1>8 DEF t

Steps == {"idle", "profile", "state", "entries", "base", "layer", "options", "dispatch",
          "launched", "refused"}

(* Permissions that an invocation r has been resolved to.                  *)
ManagedState(r) == r.kind = "state" /\ r.type = "managed"

ResolvedOK(s, r) ==
    /\ IsPerms(s)
    /\ ManagedState(r) =>
         /\ \A e \in Range(r.entries) :
              Accepted(e) /\ (Denies(e) => Place(e) \in s.denyRead \cap s.denyWrite)
         /\ WritePlaces(Range(r.entries)) \subseteq s.writes
         /\ s.writes \subseteq WritePlaces(Range(r.entries)) \cup r.addDirs
         /\ (s.writes # {} \/ s.temp) => \E e \in Range(r.entries) : e.access = "write"
         /\ s.full \/ s.reads = r.readable \cup ReadPlaces(Range(r.entries))
         /\ s.full => \E e \in Range(r.entries) : e.kind = "root" /\ e.access = "read"
         /\ ~s.block => r.network = "enabled" /\ ~r.disable
    /\ ~ManagedState(r) => s.block
    /\ (r.kind = "state" /\ ~ManagedState(r)) => s.writes = {} /\ ~s.temp
    /\ r.kind = "profile" => (s.writes # {} => r.profile # ":read-only")

(* The entries before the n-th.                                            *)
Before(r, n) == {r.entries[i] : i \in 1..(n - 1)}

RunInv ==
    /\ usage \in DOMAIN Usages /\ step \in Steps
    /\ step = "idle" => request = NoRequest /\ at = 1
    /\ step # "idle" => request \in Usages[usage].requests
    /\ step = "profile" => request.kind = "profile"
    /\ step = "state" => request.kind = "state"
    /\ step \in {"profile", "state"} => at = 1
    /\ step = "entries" =>
         /\ ManagedState(request) /\ at \in 1..(Len(request.entries) + 1)
         /\ GatheredFrom(perms, Before(request, at), request.readable)
    /\ step \in {"base", "layer", "options", "dispatch", "launched"} => ResolvedOK(perms, request)
    /\ backend \in Levels \cup {None}
    /\ (backend # None) <=> (step = "launched")
    /\ (step = "launched" /\ backend # "elevated") =>
         perms.full /\ perms.denyRead = {} /\ perms.denyWrite = {}

LEMMA BuiltinResolved ==
    ASSUME NEW r, r.kind = "profile"
    PROVE  ResolvedOK(FromProfile(r), r)
BY DEF ResolvedOK, FromProfile, ReadOnly, Nothing, IsPerms, PermsFields, ManagedState

LEMMA ExternalResolved ==
    ASSUME NEW r, r.kind = "state", r.type = "external"
    PROVE  ResolvedOK(ReadOnly, r)
<1>1. IsPerms(ReadOnly) /\ ReadOnly.block /\ ReadOnly.writes = {} /\ ~ReadOnly.temp
  BY DEF ReadOnly, Nothing, IsPerms, PermsFields
<1>2. ~ManagedState(r) /\ r.kind # "profile"
  BY DEF ManagedState
<1> QED BY <1>1, <1>2 DEF ResolvedOK

LEMMA NothingGathered ==
    ASSUME NEW r
    PROVE  GatheredFrom([Nothing EXCEPT !.reads = r.readable], Before(r, 1), r.readable)
<1> DEFINE s == [Nothing EXCEPT !.reads = r.readable]
<1>1. Before(r, 1) = {}
  BY DEF Before
<1>2. WritePlaces({}) = {} /\ ReadPlaces({}) = {}
  BY DEF WritePlaces, ReadPlaces
<1>3. IsPerms(s) /\ s.reads = r.readable /\ s.writes = {} /\ ~s.temp /\ ~s.full
  BY DEF Nothing, IsPerms, PermsFields
<1> HIDE DEF s
<1>4. s.reads = r.readable \cup {}
  BY <1>3
<1>5. GatheredFrom(s, {}, r.readable)
  BY <1>2, <1>3, <1>4 DEF GatheredFrom
<1> QED BY <1>1, <1>5 DEF s

LEMMA BeforeNext ==
    ASSUME NEW r, NEW n \in Nat \ {0}
    PROVE  Before(r, n + 1) = Before(r, n) \cup {r.entries[n]}
BY DEF Before

LEMMA BeforeAll ==
    ASSUME NEW r, r.entries \in Seq(Range(r.entries))
    PROVE  Before(r, Len(r.entries) + 1) = Range(r.entries)
<1>1. Range(r.entries) = {r.entries[i] : i \in DOMAIN r.entries}
  BY DEF Range
<1>2. DOMAIN r.entries = 1..Len(r.entries) /\ Len(r.entries) \in Nat
  OBVIOUS
<1>3. (Len(r.entries) + 1) - 1 = Len(r.entries)
  BY <1>2
<1> QED BY <1>1, <1>2, <1>3 DEF Before

LEMMA StateResolved ==
    ASSUME NEW r, NEW s, ManagedState(r), r.disable \in BOOLEAN,
           r.network \in {"enabled", "restricted"},
           GatheredFrom(s, Range(r.entries), r.readable)
    PROVE  ResolvedOK(Built(WithAddDirs(s, r)), r)
<1> DEFINE es == Range(r.entries)
           writes == IF s.writes # {} \/ s.temp THEN s.writes \cup r.addDirs ELSE s.writes
           block == r.disable \/ r.network = "restricted"
           b == Built(WithAddDirs(s, r))
<1>1. writes # {} => s.writes # {} \/ s.temp
  OBVIOUS
<1>2. /\ IsPerms(b)
      /\ b.reads = (IF s.full THEN {} ELSE s.reads) /\ b.full = s.full /\ b.writes = writes
      /\ b.temp = s.temp /\ b.denyRead = s.denyRead /\ b.denyWrite = s.denyWrite /\ b.block = block
  BY DEF Built, WithAddDirs, GatheredFrom, IsPerms, PermsFields
<1>3. s.writes # {} => \E e \in es : e.access = "write"
  BY DEF GatheredFrom, WritePlaces
<1> HIDE DEF b
<1>5. \A e \in es : Accepted(e) /\ (Denies(e) => Place(e) \in b.denyRead \cap b.denyWrite)
  BY <1>2 DEF GatheredFrom
<1>6. /\ WritePlaces(es) \subseteq b.writes /\ b.writes \subseteq WritePlaces(es) \cup r.addDirs
      /\ (b.writes # {} \/ b.temp) => \E e \in es : e.access = "write"
  <2>1. WritePlaces(es) = s.writes /\ (s.temp => \E e \in es : e.access = "write")
    BY DEF GatheredFrom
  <2> HIDE DEF es
  <2> QED BY <1>1, <1>2, <1>3, <2>1
<1>7. /\ b.full \/ b.reads = r.readable \cup ReadPlaces(es)
      /\ b.full => \E e \in es : e.kind = "root" /\ e.access = "read"
  BY <1>2 DEF GatheredFrom
<1>8. ~b.block => r.network = "enabled" /\ ~r.disable
  BY <1>2
<1>9. r.kind # "profile"
  BY DEF ManagedState
<1>10. ResolvedOK(b, r)
  BY <1>2, <1>5, <1>6, <1>7, <1>8, <1>9 DEF ResolvedOK
<1> QED BY <1>10 DEF b

LEMMA RunInit == ElevatedInit => RunInv
BY DEF ElevatedInit, LineInit, RunInv, Steps

(* An invocation's step from one place to the next, refused or not.        *)
LEMMA Refused ==
    ASSUME RunInv, UNCHANGED usage, Refuse, step # "idle", step # "launched"
    PROVE  RunInv'
BY DEF RunInv, Refuse, GoTo, Steps

LEMMA RunStep == RunInv /\ [ElevatedNext /\ UNCHANGED chosen]_<<elevatedVars, chosen>> => RunInv'
<1> SUFFICES ASSUME RunInv, [ElevatedNext /\ UNCHANGED chosen]_<<elevatedVars, chosen>> PROVE RunInv'
  OBVIOUS
<1>0. usage' = usage
  BY DEF chosen
<1>1. ASSUME NEW r \in Usages[usage].requests, Start(r)
      PROVE  RunInv'
  <2>1. usage \in DOMAIN Usages /\ r.kind \in {"profile", "state"}
    BY InvocationsAssumption DEF RunInv
  <2> QED BY <1>0, <1>1, <2>1 DEF Start, RunInv, Steps
<1>2. CASE Profile
  <2>1. CASE request.profile \in {None, ":workspace", ":read-only"}
    <3>1. ResolvedOK(perms', request')
      BY <1>2, <2>1, BuiltinResolved DEF Profile, GoTo, RunInv
    <3> QED BY <1>0, <1>2, <2>1, <3>1 DEF Profile, GoTo, RunInv, Steps
  <2> QED BY <1>0, <1>2, <2>1, Refused DEF Profile
<1>3. CASE External
  <2>1. CASE request.network \in {"enabled", "restricted"}
    <3>1. ResolvedOK(perms', request')
      BY <1>3, <2>1, ExternalResolved DEF External, GoTo, RunInv
    <3> QED BY <1>0, <1>3, <2>1, <3>1 DEF External, GoTo, RunInv, Steps
  <2> QED BY <1>0, <1>3, <2>1, Refused DEF External
<1>4. CASE Managed
  <2>1. /\ step' = "entries" /\ UNCHANGED <<request, at, backend>> /\ at = 1 /\ backend = None
        /\ request \in Usages[usage].requests
        /\ perms' = [Nothing EXCEPT !.reads = request.readable] /\ ManagedState(request)
    BY <1>4 DEF Managed, GoTo, RunInv, ManagedState
  <2>2. GatheredFrom(perms', Before(request', at'), request'.readable)
    BY <2>1, NothingGathered
  <2>3. Len(request.entries) \in Nat
    BY <2>1, InvocationsAssumption DEF RunInv
  <2> QED BY <1>0, <2>1, <2>2, <2>3 DEF RunInv, Steps
<1>5. CASE RefuseState
  BY <1>0, <1>5, Refused DEF RefuseState
<1>6. CASE TakeEntry
  <2> DEFINE e == request.entries[at]
  <2>1. CASE Accepted(e)
    <3>1. /\ step' = "entries" /\ UNCHANGED <<request, backend>> /\ at' = at + 1
          /\ perms' = Apply(perms, e) /\ step = "entries" /\ at <= Len(request.entries)
      BY <1>6, <2>1 DEF TakeEntry, GoTo
    <3>2. GatheredFrom(perms, Before(request, at), request.readable) /\ at \in 1..(Len(request.entries) + 1)
      BY <3>1 DEF RunInv
    <3>3. Before(request, at + 1) = Before(request, at) \cup {e}
      BY <3>2, BeforeNext
    <3>4. GatheredFrom(perms', Before(request, at) \cup {e}, request.readable)
      BY <2>1, <3>1, <3>2, GatheredOne
    <3>5. request \in Usages[usage].requests /\ Len(request.entries) \in Nat
      BY <3>1, InvocationsAssumption DEF RunInv
    <3>6. at + 1 \in 1..(Len(request.entries) + 1)
      BY <3>1, <3>2, <3>5
    <3>7. GatheredFrom(perms', Before(request', at'), request'.readable)
      BY <3>1, <3>3, <3>4
    <3> QED BY <1>0, <3>1, <3>6, <3>7 DEF RunInv, Steps
  <2> QED BY <1>0, <1>6, <2>1, Refused DEF TakeEntry
<1>7. CASE EndEntries
  <2>1. CASE request.network \in {"enabled", "restricted"}
    <3>1. /\ step' = "base" /\ UNCHANGED <<request, backend>> /\ step = "entries"
          /\ perms' = Built(WithAddDirs(perms, request)) /\ at > Len(request.entries)
      BY <1>7, <2>1 DEF EndEntries, GoTo
    <3>2. /\ GatheredFrom(perms, Before(request, at), request.readable) /\ ManagedState(request)
          /\ at \in 1..(Len(request.entries) + 1)
          /\ request \in Usages[usage].requests /\ usage \in DOMAIN Usages
      BY <3>1 DEF RunInv
    <3>3. /\ request.entries \in Seq(Range(request.entries)) /\ request.disable \in BOOLEAN
          /\ Len(request.entries) \in Nat
      BY <3>2, InvocationsAssumption DEF RunInv
    <3>4. at = Len(request.entries) + 1
      BY <3>1, <3>2, <3>3
    <3>5. GatheredFrom(perms, Range(request.entries), request.readable)
      BY <3>2, <3>3, <3>4, BeforeAll
    <3>6. ResolvedOK(perms', request)
      BY <2>1, <3>1, <3>2, <3>3, <3>5, StateResolved
    <3> QED BY <1>0, <3>1, <3>2, <3>6 DEF RunInv, Steps
  <2> QED BY <1>0, <1>7, <2>1, Refused DEF EndEntries
<1>8. CASE ReadBase
  BY <1>0, <1>8, Refused DEF ReadBase, GoTo, RunInv, Steps
<1>9. CASE ReadLayer
  BY <1>0, <1>9, Refused DEF ReadLayer, GoTo, RunInv, Steps
<1>10. CASE Options
  BY <1>0, <1>10, Refused DEF Options, GoTo, RunInv, Steps
<1>11. CASE Dispatch
  <2>1. None \notin Levels
    BY TextsAssumption
  <2> QED BY <1>0, <1>11, <2>1, Refused DEF Dispatch, RunInv, Steps
<1>12. CASE Exit
  BY <1>0, <1>12 DEF Exit, RunInv, Steps
<1>13. CASE UNCHANGED run
  BY <1>0, <1>13 DEF run, RunInv, Steps
<1> QED BY <1>1, <1>2, <1>3, <1>4, <1>5, <1>6, <1>7, <1>8, <1>9, <1>10, <1>11, <1>12, <1>13
        DEF ElevatedNext, LineNext, Invocation, LaunchRefresh, SetupBegins, SetupReads, SetupPersists,
            SetupEnds, Outside, Edit, elevatedVars, lineVars

LEMMA RunHolds == ElevatedSpec => []RunInv
BY RunInit, RunStep, PTL DEF ElevatedSpec

(* What a launched invocation runs under, from what was gathered for it.   *)
LEMMA EntriesOfRun == RunInv => EntriesKept /\ WritesAsked /\ WeakBackendsRefuse /\ NetworkAsked
<1> SUFFICES ASSUME RunInv, Launched
             PROVE  EntriesKept /\ WritesAsked /\ WeakBackendsRefuse /\ NetworkAsked
  BY DEF EntriesKept, WritesAsked, WeakBackendsRefuse, NetworkAsked
<1>1. ResolvedOK(perms, request) /\ ManagedState(request) = ByState
  BY DEF RunInv, Launched, ManagedState, ByState
<1>2. EntriesKept
  <2> SUFFICES ASSUME ByState, NEW e \in Asked
               PROVE  /\ e.kind \in {"path", "cwd", "sub", "root", "minimal", "tmp", "unknown"}
                      /\ (Located(e) /\ e.access \in {"deny", "none"})
                             => Place(e) \in perms.denyRead \cap perms.denyWrite
                      /\ (Located(e) /\ e.access = "write") => Place(e) \in perms.writes
                      /\ (Located(e) /\ e.access = "read") => perms.full \/ Place(e) \in perms.reads
    BY DEF EntriesKept
  <2>1. /\ Accepted(e) /\ (Denies(e) => Place(e) \in perms.denyRead \cap perms.denyWrite)
        /\ WritePlaces(Asked) \subseteq perms.writes
        /\ perms.full \/ perms.reads = request.readable \cup ReadPlaces(Asked)
    BY <1>1 DEF ResolvedOK, Asked
  <2>2. (Located(e) /\ e.access = "write") => Place(e) \in WritePlaces(Asked)
    BY DEF WritePlaces
  <2>3. (Located(e) /\ e.access = "read") => Place(e) \in ReadPlaces(Asked)
    BY DEF ReadPlaces
  <2> QED BY <2>1, <2>2, <2>3 DEF Denies, Accepted, Located
<1>3. WritesAsked
  <2> DEFINE granted == {e \in Asked : e.access = "write"}
             places  == {Place(e) : e \in {x \in granted : Located(x)}}
  <2>1. places = WritePlaces(Asked)
    BY DEF WritePlaces
  <2>2. ByState => /\ perms.writes \subseteq WritePlaces(Asked) \cup request.addDirs
                   /\ granted = {} => perms.writes = {} /\ ~perms.temp
    BY <1>1 DEF ResolvedOK, Asked
  <2>3. /\ (request.kind = "state" /\ ~ByState) => perms.writes = {} /\ ~perms.temp
        /\ request.kind = "profile" => (perms.writes # {} => request.profile # ":read-only")
    BY <1>1 DEF ResolvedOK
  <2>4. request.kind \in {"profile", "state"} /\ (ByState => request.kind = "state")
    BY InvocationsAssumption DEF RunInv, Launched, ByState
  <2>5. CASE ByState
    BY <2>1, <2>2, <2>5 DEF WritesAsked
  <2>6. CASE ~ByState
    BY <2>3, <2>4, <2>6 DEF WritesAsked
  <2> QED BY <2>5, <2>6
<1>4. WeakBackendsRefuse
  BY <1>1 DEF RunInv, Launched, ResolvedOK, WeakBackendsRefuse, Asked, Denies
<1>5. NetworkAsked
  BY <1>1 DEF ResolvedOK, NetworkAsked, ByState
<1> QED BY <1>2, <1>3, <1>4, <1>5

(* The value read so far is the one that the files and the options say,    *)
(* while nobody has written a file.                                        *)
OfFiles == IF request.layered /\ SandboxValue(layer) # None THEN SandboxValue(layer) ELSE SandboxValue(base)
OfAll == IF request.overrides # <<>> THEN Last(request.overrides) ELSE OfFiles

ChoiceInv ==
    (edits = 0 /\ setups = 0) =>
        /\ step = "layer" => request.layered /\ value = SandboxValue(base)
        /\ step = "options" => value = OfFiles
        /\ step \in {"dispatch", "launched"} => value = OfAll
        /\ step = "launched" => backend = Level

LEMMA ChoiceInit == ElevatedInit => ChoiceInv
BY DEF ElevatedInit, LineInit, ChoiceInv

LEMMA ChoiceStep ==
    FilesInv /\ RunInv /\ ChoiceInv /\ [ElevatedNext /\ UNCHANGED chosen]_<<elevatedVars, chosen>> => ChoiceInv'
<1> SUFFICES ASSUME FilesInv, RunInv, ChoiceInv,
                    [ElevatedNext /\ UNCHANGED chosen]_<<elevatedVars, chosen>>,
                    edits' = 0, setups' = 0
             PROVE  /\ step' = "layer" => request'.layered /\ value' = SandboxValue(base')
                    /\ step' = "options" => value' = OfFiles'
                    /\ step' \in {"dispatch", "launched"} => value' = OfAll'
                    /\ step' = "launched" => backend' = Level'
  BY DEF ChoiceInv
<1>0. edits \in Nat /\ setups \in Nat /\ (setup # "idle" => setups > 0)
  BY LineAssumption DEF FilesInv
<1>1. CASE UNCHANGED <<base, layer, edits, setups, run>>
  BY <1>1 DEF ChoiceInv, OfFiles, OfAll, Level, run
<1>2. CASE UNCHANGED <<base, layer, edits, setups>> /\ (Invocation \/ \E r \in Usages[usage].requests : Start(r))
  <2>1. CASE step' \in {"profile", "state", "entries", "base", "refused", "idle"}
    BY <2>1
  <2>2. CASE ReadBase
    BY <1>2, <2>2 DEF ChoiceInv, ReadBase, GoTo, Refuse, OfFiles
  <2>3. CASE ReadLayer
    BY <1>2, <2>3 DEF ChoiceInv, ReadLayer, GoTo, Refuse, OfFiles
  <2>4. CASE Options
    BY <1>2, <2>4 DEF ChoiceInv, Options, GoTo, Refuse, OfFiles, OfAll
  <2>5. CASE Dispatch
    BY <1>2, <2>5 DEF ChoiceInv, Dispatch, GoTo, Refuse, OfFiles, OfAll, Level
  <2>6. ASSUME NEW r \in Usages[usage].requests, Start(r) PROVE step' \in {"profile", "state", "refused"}
    BY <2>6, InvocationsAssumption DEF Start, RunInv
  <2> QED BY <1>2, <2>1, <2>2, <2>3, <2>4, <2>5, <2>6
          DEF Invocation, Profile, External, Managed, RefuseState, TakeEntry, EndEntries, Exit, GoTo, Refuse
<1>3. CASE SetupPersists \/ SetupEnds \/ SetupReads \/ SetupBegins
  BY <1>0, <1>3 DEF SetupPersists, SetupEnds, SetupReads, SetupBegins, Outside, FilesInv
<1>4. CASE Edit
  BY <1>0, <1>4 DEF Edit
<1> QED BY <1>1, <1>2, <1>3, <1>4, InvocationLeavesFiles
        DEF ElevatedNext, LineNext, LaunchRefresh, elevatedVars, lineVars

LEMMA ChoiceHolds == ElevatedSpec => []ChoiceInv
BY ChoiceInit, ChoiceStep, FilesHold, RunHolds, PTL DEF ElevatedSpec

(* The configuration decides the backend, and setup decides it through the *)
(* configuration.                                                          *)
THEOREM BackendIsConfigured == ElevatedSpec => []BackendAsConfigured
<1>1. RunInv /\ ChoiceInv => BackendChosen
  <2> SUFFICES ASSUME RunInv, ChoiceInv, Launched, edits = 0, setups = 0
               PROVE  backend = CASE request.overrides # <<>> -> Last(request.overrides)
                                  [] request.overrides = <<>> /\ request.layered
                                       /\ SandboxValue(layer) # None -> SandboxValue(layer)
                                  [] OTHER -> IF SandboxValue(base) = None THEN "gemini" ELSE SandboxValue(base)
    BY DEF BackendChosen
  <2>1. backend = IF OfAll = None THEN "gemini" ELSE OfAll
    BY DEF ChoiceInv, Launched, Level
  <2>2. request.overrides # <<>> => Last(request.overrides) # None
    <3> SUFFICES ASSUME request.overrides # <<>> PROVE Last(request.overrides) # None
      OBVIOUS
    <3>1. /\ request.overrides \in Seq(Range(request.overrides))
          /\ None \notin Range(request.overrides)
      BY InvocationsAssumption DEF RunInv, Launched
    <3>2. Last(request.overrides) \in Range(request.overrides)
      BY <3>1 DEF Last
    <3> QED BY <3>1, <3>2
  <2> QED BY <2>1, <2>2 DEF OfAll, OfFiles
<1> QED BY <1>1, RunHolds, ChoiceHolds, TableSelectsHolds, PTL DEF BackendAsConfigured

-----------------------------------------------------------------------------
(* The roots of a refresh.                                                 *)

Candidates(q) == IF q.override THEN Overridden(q) ELSE Gather(q)

RootsInv ==
    /\ chosen \in Instances
    /\ RootsTypeOK /\ DeniedNotGranted
    /\ asked # NoRefresh => read \subseteq ExpandProfile(asked, Candidates(asked)) \ {UserProfile}
    /\ (asked # NoRefresh /\ Habits[habit].refreshes = {}) =>
         step = "launched" /\ \E listed \in BOOLEAN : asked = RefreshRequest(perms, listed)

LEMMA ExpandedExisting ==
    ASSUME NEW q, NEW roots, roots \subseteq Existing
    PROVE  ExpandProfile(q, roots) \subseteq Existing
BY ProfileAssumption DEF ExpandProfile, ProfileReadRoots

(* What a refresh grants, whatever it depends on.                          *)
LEMMA RefreshGrants ==
    ASSUME NEW q
    PROVE  /\ Candidates(q) \subseteq Existing
           /\ ReadRootsOf(q) \subseteq ExpandProfile(q, Candidates(q)) \ {UserProfile}
           /\ ReadRootsOf(q) \subseteq Existing
           /\ WriteRoots(q) \subseteq Existing
           /\ \A p \in ReadRootsOf(q), d \in q.denied : ~Within(p, d)
           /\ \A p \in WriteRoots(q) : p # CodexHome /\ \A z \in Sensitive : ~Within(p, z)
<1>1. /\ Candidates(q) \subseteq Existing
      /\ CanonicalExisting(q.writable) \subseteq Existing
  BY DEF Candidates, Overridden, Gather, CanonicalExisting
<1>2. \A roots : Filtered(q, roots) \subseteq ExpandProfile(q, roots) \ {UserProfile}
  BY DEF Filtered
<1>3. ReadRootsOf(q) \subseteq Filtered(q, Candidates(q)) /\ \A p \in ReadRootsOf(q), d \in q.denied : ~Within(p, d)
  BY DEF ReadRootsOf, Candidates
<1>4. /\ WriteRoots(q) \subseteq Filtered(q, CanonicalExisting(q.writable))
      /\ \A p \in WriteRoots(q) : p # CodexHome /\ \A z \in Sensitive : ~Within(p, z)
  BY DEF WriteRoots
<1>5. ReadRootsOf(q) \subseteq ExpandProfile(q, Candidates(q)) \ {UserProfile}
  BY <1>2, <1>3
<1>6. WriteRoots(q) \subseteq ExpandProfile(q, CanonicalExisting(q.writable))
  BY <1>2, <1>4
<1> QED BY <1>1, <1>3, <1>4, <1>5, <1>6, ExpandedExisting

LEMMA RootsInitial == ElevatedInit => RootsInv
<1> SUFFICES ASSUME ElevatedInit PROVE RootsInv
  OBVIOUS
<1>1. /\ chosen \in Instances /\ habit \in DOMAIN Habits
      /\ includes \in [SshFiles -> Habits[habit].lists]
      /\ names = [f \in SshFiles |-> {}]
      /\ asked = NoRefresh /\ read = {} /\ write = {}
  BY DEF ElevatedInit, RootsInit
<1>2. names \in [SshFiles -> Habits[habit].named \cup {{}}]
  BY <1>1
<1> QED BY <1>1, <1>2 DEF RootsInv, RootsTypeOK, DeniedNotGranted

LEMMA AfterRefresh ==
    ASSUME RootsInv, UNCHANGED chosen, NEW q, Refresh(q)
    PROVE  /\ RootsTypeOK' /\ DeniedNotGranted'
           /\ asked' # NoRefresh => read' \subseteq ExpandProfile(asked', Candidates(asked')) \ {UserProfile}
BY RefreshGrants DEF RootsInv, RootsTypeOK, DeniedNotGranted, Refresh, chosen

LEMMA LaunchedStays ==
    ASSUME RunInv, LineNext, step = "launched", ~Ends
    PROVE  step' = "launched" /\ perms' = perms
BY DEF LineNext, Invocation, Start, Profile, External, Managed, RefuseState, TakeEntry, EndEntries, ReadBase,
       ReadLayer, Options, Dispatch, Exit, SetupBegins, SetupReads, SetupPersists, SetupEnds, Outside,
       Edit, run, Ends

LEMMA RootsStep ==
    RunInv /\ RootsInv /\ [ElevatedNext /\ UNCHANGED chosen]_<<elevatedVars, chosen>> => RootsInv'
<1> SUFFICES ASSUME RunInv, RootsInv, [ElevatedNext /\ UNCHANGED chosen]_<<elevatedVars, chosen>>
             PROVE  RootsInv'
  OBVIOUS
<1>0. chosen' = chosen /\ habit' = habit /\ usage' = usage /\ chosen' \in Instances
  BY DEF chosen, RootsInv
<1>1. CASE LaunchRefresh
  <2>1. PICK listed \in BOOLEAN : /\ Refresh(RefreshRequest(perms, listed))
                                  /\ step = "launched" /\ UNCHANGED <<step, perms>>
    BY <1>1 DEF LaunchRefresh, lineVars, run
  <2>2. asked' = RefreshRequest(perms', listed) /\ step' = "launched"
    BY <2>1 DEF Refresh, RefreshRequest, SessionRequest, Gather, ProfileReadRoots, Readable
  <2>3. /\ RootsTypeOK' /\ DeniedNotGranted'
        /\ asked' # NoRefresh => read' \subseteq ExpandProfile(asked', Candidates(asked')) \ {UserProfile}
    BY <1>0, <2>1, AfterRefresh
  <2> QED BY <1>0, <2>2, <2>3 DEF RootsInv
<1>2. ASSUME NEW q \in Habits[habit].refreshes, Refresh(q)
      PROVE  RootsInv'
  <2>1. Habits[habit'].refreshes # {}
    BY <1>0, <1>2
  <2>2. /\ RootsTypeOK' /\ DeniedNotGranted'
        /\ asked' # NoRefresh => read' \subseteq ExpandProfile(asked', Candidates(asked')) \ {UserProfile}
    BY <1>0, <1>2, AfterRefresh
  <2> QED BY <1>0, <2>1, <2>2 DEF RootsInv
<1>3. ASSUME NEW f \in SshFiles, NEW list \in Habits[habit].lists, NEW paths \in Habits[habit].named,
             EditSsh(f, list, paths)
      PROVE  RootsInv'
  <2>1. /\ includes' \in [SshFiles -> Habits[habit].lists]
        /\ names' \in [SshFiles -> Habits[habit].named \cup {{}}]
    BY <1>3 DEF EditSsh, RootsInv, RootsTypeOK
  <2>2. asked' = NoRefresh /\ read' = {} /\ write' = {}
    BY <1>3 DEF EditSsh, Forget
  <2> QED BY <1>0, <2>1, <2>2 DEF RootsInv, RootsTypeOK, DeniedNotGranted
<1>4. CASE Forget /\ UNCHANGED <<includes, names>>
  BY <1>0, <1>4 DEF Forget, RootsInv, RootsTypeOK, DeniedNotGranted
<1>5. CASE UNCHANGED rootsVars /\ (step = "launched" => step' = "launched" /\ perms' = perms)
  <2>1. UNCHANGED <<includes, names, asked, read, write>>
    BY <1>5 DEF rootsVars, grants
  <2>2. /\ RootsTypeOK' /\ DeniedNotGranted'
        /\ asked' # NoRefresh => read' \subseteq ExpandProfile(asked', Candidates(asked')) \ {UserProfile}
    BY <1>0, <2>1 DEF RootsInv, RootsTypeOK, DeniedNotGranted
  <2>3. (asked' # NoRefresh /\ Habits[habit'].refreshes = {}) =>
          step' = "launched" /\ \E listed \in BOOLEAN : asked' = RefreshRequest(perms', listed)
    BY <1>0, <1>5, <2>1 DEF RootsInv
  <2> QED BY <1>0, <2>2, <2>3 DEF RootsInv
<1>6. CASE LineNext /\ ~Ends /\ UNCHANGED rootsVars
  BY <1>5, <1>6, LaunchedStays
<1>7. CASE UNCHANGED <<elevatedVars, chosen>>
  BY <1>5, <1>7 DEF elevatedVars, lineVars, run
<1> QED BY <1>1, <1>2, <1>3, <1>4, <1>6, <1>7 DEF ElevatedNext, RootsNext

LEMMA RootsHold == ElevatedSpec => []RootsInv
BY RootsInitial, RootsStep, RunHolds, PTL DEF ElevatedSpec

(* Nothing denied is granted, and nothing a control directory holds.       *)
THEOREM GrantsTypedHolds == ElevatedSpec => [](RootsTypeOK /\ DeniedNotGranted)
<1>1. RootsInv => RootsTypeOK /\ DeniedNotGranted
  BY DEF RootsInv
<1> QED BY <1>1, RootsHold, PTL

(* A root granted to an invocation that does not read the whole disk.      *)
LEMMA GrantedAsked ==
    ASSUME NEW s, NEW listed, ~s.full,
           NEW p \in ExpandProfile(RefreshRequest(s, listed), Candidates(RefreshRequest(s, listed))),
           p # UserProfile
    PROVE  p \in Platform \cup {HelperRoot} \/ \E d \in s.reads : p \in Expanded(d)
<1> DEFINE q == RefreshRequest(s, listed)
           roots == Candidates(q)
<1>1. roots \subseteq {HelperRoot} \cup Platform \cup s.reads
  BY DEF Candidates, RefreshRequest, SessionRequest, Overridden, Gather, CanonicalExisting
<1> HIDE DEF roots
<1>2. CASE UserProfile \in roots /\ p \in ProfileReadRoots(q)
  <2>1. UserProfile \in s.reads
    BY <1>1, <1>2, ProfileAssumption
  <2>2. p \in Expanded(UserProfile)
    BY <1>2 DEF Expanded, ProfileReadRoots
  <2> QED BY <2>1, <2>2
<1>3. CASE p \in roots
  BY <1>1, <1>3 DEF Expanded
<1> QED BY <1>2, <1>3 DEF ExpandProfile, roots

LEMMA GrantsOfRun == RunInv /\ RootsInv => GrantsOfEntries
<1> SUFFICES ASSUME RunInv, RootsInv, Launched, ByState, asked # NoRefresh, NEW p \in read
             PROVE  /\ \/ perms.full \/ p \in Platform \cup {HelperRoot}
                       \/ \E e \in Asked : Located(e) /\ e.access = "read" /\ p \in Expanded(Place(e))
                       \/ \E d \in request.readable : p \in Expanded(d)
                    /\ \A e \in Asked :
                          (Located(e) /\ e.access \in {"deny", "none"}) => ~Within(p, Place(e))
  BY DEF GrantsOfEntries
<1>1. ResolvedOK(perms, request) /\ ManagedState(request)
  BY DEF RunInv, Launched, ManagedState, ByState
<1>2. Habits[habit].refreshes = {}
  BY InstancesAssumption DEF RootsInv, RunInv, Launched, chosen
<1>3. PICK listed \in BOOLEAN :
        /\ asked = RefreshRequest(perms, listed)
        /\ p \in ExpandProfile(RefreshRequest(perms, listed), Candidates(RefreshRequest(perms, listed)))
        /\ p # UserProfile
  BY <1>2 DEF RootsInv
<1>4. perms.full \/ p \in Platform \cup {HelperRoot} \/ \E d \in perms.reads : p \in Expanded(d)
  BY <1>3, GrantedAsked
<1>5. perms.full \/ perms.reads = request.readable \cup ReadPlaces(Asked)
  BY <1>1 DEF ResolvedOK, Asked
<1>6. \A d \in ReadPlaces(Asked) : \E e \in Asked : Located(e) /\ e.access = "read" /\ d = Place(e)
  BY DEF ReadPlaces
<1>7. asked.denied = perms.denyRead
  BY <1>3 DEF RefreshRequest, SessionRequest
<1>8. \A e \in Asked : Denies(e) => Place(e) \in perms.denyRead
  BY <1>1 DEF ResolvedOK, Asked
<1>9. \A d \in perms.denyRead : ~Within(p, d)
  BY <1>7 DEF RootsInv, DeniedNotGranted
<1>10. \A e \in Asked : (Located(e) /\ e.access \in {"deny", "none"}) => ~Within(p, Place(e))
  BY <1>8, <1>9 DEF Denies
<1>11. \/ perms.full \/ p \in Platform \cup {HelperRoot}
       \/ \E e \in Asked : Located(e) /\ e.access = "read" /\ p \in Expanded(Place(e))
       \/ \E d \in request.readable : p \in Expanded(d)
  BY <1>4, <1>5, <1>6
<1> QED BY <1>10, <1>11

(* An invocation runs under every entry of its state and under no more     *)
(* than it asked for, on a backend that can enforce it, down to the roots  *)
(* the setup refresh grants for it.                                        *)
THEOREM EntriesEnforcedHolds == ElevatedSpec => []EntriesEnforced
<1>1. RunInv /\ FilesInv => LineTypeOK
  BY DEF RunInv, FilesInv, LineTypeOK, Steps
<1> QED BY <1>1, EntriesOfRun, GrantsOfRun, RunHolds, FilesHold, RootsHold, PTL DEF EntriesEnforced

----------------------------------------------------------------------------
(* The walk through the ssh configuration (visit_config).                  *)
LEMMA LeastNumber ==
    ASSUME NEW S \in SUBSET Nat, S # {}
    PROVE  \E h \in S : \A g \in S : h <= g
<1> DEFINE Less == {pair \in Nat \X Nat : pair[1] < pair[2]}
<1>1. IsWellFoundedOn(Less, Nat)
  BY NatLessThanWellFounded DEF OpToRel
<1>2. \E h \in S : \A g \in S : ~(<<g, h>> \in Less)
  <2> HIDE DEF Less
  <2> QED BY <1>1, WFMin
<1>3. \A g, h \in Nat : <<g, h>> \in Less <=> g < h
  OBVIOUS
<1> HIDE DEF Less
<1>4. \E h \in S : \A g \in S : ~(g < h)
  BY <1>2, <1>3
<1> QED BY <1>4

(* Induction, for a set of numbers.                                        *)
LEMMA AllNumbers ==
    ASSUME NEW S \in SUBSET Nat, 0 \in S, \A n \in S : n + 1 \in S
    PROVE  S = Nat
<1>1. SUFFICES ASSUME Nat \ S # {} PROVE FALSE
  OBVIOUS
<1>2. PICK h \in Nat \ S : \A g \in Nat \ S : h <= g
  BY <1>1, LeastNumber
<1>3. h - 1 \in Nat /\ h - 1 \in S
  BY <1>2
<1> QED BY <1>2, <1>3

(* The files a walk has met after each file that f includes.               *)
Meets(deeper, f, seen, n, met) ==
    met = [i \in 0..n |-> IF i = 0 THEN seen \cup {f} ELSE deeper[includes[f][i]][met[i - 1]]]

LEMMA MeetsExist ==
    ASSUME NEW deeper, NEW f, NEW seen, NEW n \in Nat
    PROVE  \E met : Meets(deeper, f, seen, n, met)
<1> DEFINE S == {k \in Nat : \E met : Meets(deeper, f, seen, k, met)}
<1>1. 0 \in S
  <2>1. Meets(deeper, f, seen, 0, [i \in 0..0 |-> seen \cup {f}])
    BY DEF Meets
  <2> QED BY <2>1
<1>2. ASSUME NEW k \in S PROVE k + 1 \in S
  <2>1. PICK met : Meets(deeper, f, seen, k, met)
    BY <1>2
  <2> DEFINE more == [i \in 0..(k + 1) |-> IF i = k + 1 THEN deeper[includes[f][i]][met[i - 1]] ELSE met[i]]
  <2>2. k \in Nat
    BY <1>2
  <2>3. \A i \in 0..k : met[i] = IF i = 0 THEN seen \cup {f} ELSE deeper[includes[f][i]][met[i - 1]]
    BY <2>1, <2>2 DEF Meets
  <2>4. \A i \in 0..k : more[i] = met[i]
    BY <2>2
  <2>5. more[k + 1] = deeper[includes[f][k + 1]][met[k]]
    BY <2>2
  <2>6. ASSUME NEW i \in 0..(k + 1)
        PROVE  more[i] = IF i = 0 THEN seen \cup {f} ELSE deeper[includes[f][i]][more[i - 1]]
    <3>1. CASE i = k + 1
      <4>1. i - 1 = k /\ more[i - 1] = met[k] /\ i # 0
        BY <2>2, <2>4, <3>1
      <4> QED BY <2>5, <3>1, <4>1
    <3>2. CASE i \in 0..k /\ i # 0
      <4>1. i - 1 \in 0..k
        BY <2>2, <3>2
      <4> QED BY <2>3, <2>4, <3>2, <4>1
    <3>3. CASE i = 0
      BY <2>2, <2>3, <2>4, <3>3
    <3>4. i = k + 1 \/ (i \in 0..k /\ i # 0) \/ i = 0
      BY <2>2
    <3> HIDE DEF more
    <3> QED BY <3>1, <3>2, <3>3, <3>4
  <2> DEFINE Value(i) == IF i = 0 THEN seen \cup {f} ELSE deeper[includes[f][i]][more[i - 1]]
  <2>7. more = [i \in 0..(k + 1) |-> more[i]]
    OBVIOUS
  <2>8. more = [i \in 0..(k + 1) |-> Value(i)]
    <3> HIDE DEF more
    <3> QED BY <2>6, <2>7
  <2>9. Meets(deeper, f, seen, k + 1, more)
    BY <2>8 DEF Meets
  <2> HIDE DEF more
  <2> QED BY <2>2, <2>9
<1>3. S = Nat
  <2> HIDE DEF S
  <2>1. S \in SUBSET Nat
    BY DEF S
  <2> QED BY <1>1, <1>2, <2>1, AllNumbers
<1> QED BY <1>3

LEMMA MeetIs ==
    ASSUME NEW deeper, NEW f, NEW seen, f \notin seen, Len(includes[f]) \in Nat
    PROVE  \E met : /\ Meets(deeper, f, seen, Len(includes[f]), met)
                    /\ Meet(deeper, f, seen) = met[Len(includes[f])]
<1> DEFINE n == Len(includes[f])
           chosenMet == CHOOSE met : Meets(deeper, f, seen, n, met)
<1>1. Meets(deeper, f, seen, n, chosenMet)
  BY MeetsExist
<1>2. Meet(deeper, f, seen) = chosenMet[n]
  BY DEF Meet, Meets
<1> QED BY <1>1, <1>2

(* The walk from a file is the one that its definition asks for.           *)
Shallow == [f \in SshFiles |-> [seen \in SUBSET SshFiles |-> seen]]
Deeper(w) == [f \in SshFiles |-> [seen \in SUBSET SshFiles |-> Meet(w, f, seen)]]
Walks(n, w) ==
    w = [d \in (MaxDepth - n)..MaxDepth |-> IF d = MaxDepth THEN Shallow ELSE Deeper(w[d + 1])]

LEMMA WalksExist ==
    ASSUME NEW n \in 0..MaxDepth
    PROVE  \E w : Walks(n, w)
<1> DEFINE S == {k \in Nat : k <= MaxDepth => \E w : Walks(k, w)}
<1>0. MaxDepth \in Nat
  BY FilesAssumption
<1>1. 0 \in S
  <2>1. Walks(0, [d \in MaxDepth..MaxDepth |-> Shallow])
    BY <1>0 DEF Walks
  <2> QED BY <2>1
<1>2. ASSUME NEW k \in S PROVE k + 1 \in S
  <2>0. k \in Nat
    BY <1>2
  <2>1. SUFFICES ASSUME k + 1 <= MaxDepth PROVE \E w : Walks(k + 1, w)
    BY <2>0
  <2>2. PICK w : Walks(k, w)
    BY <1>0, <1>2, <2>0, <2>1
  <2> DEFINE m == MaxDepth - (k + 1)
             more == [d \in m..MaxDepth |-> IF d = m THEN Deeper(w[d + 1]) ELSE w[d]]
             Value(d) == IF d = MaxDepth THEN Shallow ELSE Deeper(more[d + 1])
  <2>3. m \in Nat /\ m < MaxDepth /\ MaxDepth - k = m + 1
    BY <1>0, <2>0, <2>1
  <2>4. \A d \in (m + 1)..MaxDepth : w[d] = IF d = MaxDepth THEN Shallow ELSE Deeper(w[d + 1])
    BY <2>2, <2>3 DEF Walks
  <2> HIDE DEF m
  <2>5. more[m] = Deeper(w[m + 1]) /\ \A d \in (m + 1)..MaxDepth : more[d] = w[d]
    BY <1>0, <2>3
  <2>6. more = [d \in m..MaxDepth |-> more[d]]
    OBVIOUS
  <2> HIDE DEF more
  <2>7. ASSUME NEW d \in m..MaxDepth PROVE more[d] = Value(d)
    <3>1. CASE d = m
      <4>1. d # MaxDepth /\ more[d + 1] = w[d + 1]
        BY <1>0, <2>3, <2>5, <3>1
      <4> QED BY <2>5, <3>1, <4>1
    <3>2. CASE d # m /\ d # MaxDepth
      <4>1. d \in (m + 1)..MaxDepth /\ d + 1 \in (m + 1)..MaxDepth
        BY <1>0, <2>3, <3>2
      <4> QED BY <2>4, <2>5, <3>2, <4>1
    <3>3. CASE d = MaxDepth
      <4>1. d \in (m + 1)..MaxDepth
        BY <1>0, <2>3, <3>3
      <4> QED BY <2>4, <2>5, <3>3, <4>1
    <3> QED BY <3>1, <3>2, <3>3
  <2>8. more = [d \in m..MaxDepth |-> Value(d)]
    <3> HIDE DEF Value
    <3> QED BY <2>6, <2>7
  <2>9. Walks(k + 1, more)
    BY <2>8 DEF Walks, m
  <2> QED BY <2>9
<1>3. S = Nat
  <2> HIDE DEF S
  <2>1. S \in SUBSET Nat
    BY DEF S
  <2> QED BY <1>1, <1>2, <2>1, AllNumbers
<1> QED BY <1>0, <1>3

LEMMA VisitIs ==
    ASSUME NEW depth \in 0..MaxDepth
    PROVE  VisitFile[depth] = IF depth = MaxDepth THEN Shallow ELSE Deeper(VisitFile[depth + 1])
<1> DEFINE Defined(w) ==
      w = [d \in 0..MaxDepth |-> [f \in SshFiles |-> [seen \in SUBSET SshFiles |->
             IF d = MaxDepth THEN seen ELSE Meet(w[d + 1], f, seen)]]]
<1>1. MaxDepth \in Nat
  BY FilesAssumption
<1>2. PICK w : Walks(MaxDepth, w)
  BY <1>1, WalksExist
<1>3. \A v : [d \in 0..MaxDepth |-> [f \in SshFiles |-> [seen \in SUBSET SshFiles |->
                IF d = MaxDepth THEN seen ELSE Meet(v[d + 1], f, seen)]]]
             = [d \in 0..MaxDepth |-> IF d = MaxDepth THEN Shallow ELSE Deeper(v[d + 1])]
  BY DEF Shallow, Deeper
<1>4. Defined(w)
  <2>1. MaxDepth - MaxDepth = 0
    BY <1>1
  <2>2. w = [d \in 0..MaxDepth |-> IF d = MaxDepth THEN Shallow ELSE Deeper(w[d + 1])]
    BY <1>2, <2>1 DEF Walks
  <2> QED BY <1>3, <2>2
<1>5. VisitFile = CHOOSE v : Defined(v)
  BY DEF VisitFile
<1>6. Defined(VisitFile)
  <2> HIDE DEF Defined
  <2> QED BY <1>4, <1>5
<1>7. VisitFile = [d \in 0..MaxDepth |-> IF d = MaxDepth THEN Shallow ELSE Deeper(VisitFile[d + 1])]
  BY <1>3, <1>6
<1> QED BY <1>7

(* What a walk that has met seen and comes to f meets: f, and of the files *)
(* it meets new all they include, but nothing that a closed set with f     *)
(* would not hold.                                                         *)
ClosedFiles == {fs \in SUBSET SshFiles : \A g \in fs : ToSet(includes[g]) \subseteq fs}
MeetsAll(all, f, seen) ==
    /\ all \in SUBSET SshFiles /\ seen \subseteq all /\ f \in all
    /\ \A g \in all \ seen : ToSet(includes[g]) \subseteq all
    /\ \A fs \in ClosedFiles : f \in fs => all \subseteq seen \cup fs

\* A walk that is given enough files met already is deep enough.
WalksWell(w, depth) ==
    \A f \in SshFiles, seen \in SUBSET SshFiles :
        Cardinality(seen) >= depth => MeetsAll(w[f][seen], f, seen)

LEMMA IncludedFiles ==
    ASSUME RootsTypeOK, NEW f \in SshFiles
    PROVE  /\ includes[f] \in Seq(SshFiles) /\ Len(includes[f]) \in Nat
           /\ ToSet(includes[f]) \subseteq SshFiles
           /\ ToSet(includes[f]) = {includes[f][i] : i \in 1..Len(includes[f])}
           /\ \A i \in 1..Len(includes[f]) : includes[f][i] \in SshFiles
<1>1. includes[f] \in Seq(SshFiles)
  BY FilesAssumption DEF RootsTypeOK
<1> QED BY <1>1 DEF ToSet

(* A file that is met new is left behind with all it includes.             *)
LEMMA MeetWell ==
    ASSUME RootsTypeOK, IsFiniteSet(SshFiles), NEW depth \in Nat, NEW w, WalksWell(w, depth + 1),
           NEW f \in SshFiles, NEW seen \in SUBSET SshFiles, Cardinality(seen) >= depth
    PROVE  MeetsAll(Meet(w, f, seen), f, seen)
<1>1. CASE f \in seen
  BY <1>1 DEF Meet, MeetsAll
<1>2. CASE f \notin seen
  <2> DEFINE n == Len(includes[f])
             start == seen \cup {f}
  <2>1. n \in Nat /\ ToSet(includes[f]) = {includes[f][i] : i \in 1..n} /\ \A i \in 1..n : includes[f][i] \in SshFiles
    BY IncludedFiles
  <2>2. PICK met : Meets(w, f, seen, n, met) /\ Meet(w, f, seen) = met[n]
    BY <1>2, <2>1, MeetIs
  <2>3. met[0] = start /\ \A i \in 1..n : met[i] = w[includes[f][i]][met[i - 1]]
    <3>1. met = [i \in 0..n |-> IF i = 0 THEN start ELSE w[includes[f][i]][met[i - 1]]]
      BY <2>2 DEF Meets
    <3>2. \A i \in 0..n : met[i] = IF i = 0 THEN start ELSE w[includes[f][i]][met[i - 1]]
      BY <3>1
    <3>3. 0 \in 0..n /\ \A i \in 1..n : i \in 0..n /\ i # 0
      BY <2>1
    <3> QED BY <3>2, <3>3
  <2>4. Cardinality(start) >= depth + 1 /\ start \in SUBSET SshFiles
    <3>1. IsFiniteSet(seen)
      BY FS_Subset
    <3>2. Cardinality(start) = Cardinality(seen) + 1 /\ Cardinality(seen) \in Nat
      BY <1>2, <3>1, FS_AddElement, FS_CardinalityType
    <3>3. start \in SUBSET SshFiles
      OBVIOUS
    <3> QED BY <3>2, <3>3
  <2> DEFINE Well(i) ==
               /\ met[i] \in SUBSET SshFiles /\ start \subseteq met[i]
               /\ \A j \in 1..i : includes[f][j] \in met[i]
               /\ \A g \in met[i] \ start : ToSet(includes[g]) \subseteq met[i]
               /\ \A fs \in ClosedFiles : f \in fs => met[i] \subseteq start \cup fs
             S == {i \in Nat : i <= n => Well(i)}
  <2>5. 0 \in S
    BY <2>3, <2>4
  <2>6. ASSUME NEW k \in S PROVE k + 1 \in S
    <3>0. k \in Nat
      BY <2>6
    <3>1. SUFFICES ASSUME k + 1 <= n PROVE Well(k + 1)
      BY <3>0
    <3>2. Well(k)
      BY <2>1, <2>6, <3>0, <3>1
    <3> DEFINE g == includes[f][k + 1]
    <3>3. g \in SshFiles /\ met[k + 1] = w[g][met[k]]
      BY <2>1, <2>3, <3>0, <3>1
    <3>4. Cardinality(met[k]) >= depth + 1
      <4>1. IsFiniteSet(met[k]) /\ Cardinality(start) <= Cardinality(met[k])
        BY <3>2, FS_Subset
      <4>2. Cardinality(met[k]) \in Nat /\ Cardinality(start) \in Nat
        BY <3>2, <4>1, FS_Subset, FS_CardinalityType
      <4> QED BY <2>4, <4>1, <4>2
    <3>5. MeetsAll(met[k + 1], g, met[k])
      BY <3>2, <3>3, <3>4 DEF WalksWell
    <3> HIDE DEF start, g
    <3>6. met[k + 1] \in SUBSET SshFiles /\ met[k] \subseteq met[k + 1] /\ g \in met[k + 1]
      BY <3>5 DEF MeetsAll
    <3>7. \A j \in 1..(k + 1) : includes[f][j] \in met[k + 1]
      <4>1. ASSUME NEW j \in 1..(k + 1) PROVE j = k + 1 \/ j \in 1..k
        BY <3>0
      <4> QED BY <3>2, <3>6, <4>1 DEF g
    <3>8. \A x \in met[k + 1] \ start : ToSet(includes[x]) \subseteq met[k + 1]
      BY <3>2, <3>5, <3>6 DEF MeetsAll
    <3>9. ASSUME NEW fs \in ClosedFiles, f \in fs PROVE met[k + 1] \subseteq start \cup fs
      <4>1. g \in fs
        <5>1. g \in ToSet(includes[f])
          BY <2>1, <3>0, <3>1 DEF g
        <5> QED BY <3>9, <5>1 DEF ClosedFiles
      <4> QED BY <3>2, <3>5, <3>9, <4>1 DEF MeetsAll
    <3> QED BY <3>2, <3>6, <3>7, <3>8, <3>9
  <2>7. S = Nat
    <3> HIDE DEF S
    <3>1. S \in SUBSET Nat
      BY DEF S
    <3> QED BY <2>5, <2>6, <3>1, AllNumbers
  <2>8. Well(n)
    BY <2>1, <2>7
  <2>9. ToSet(includes[f]) \subseteq met[n]
    BY <2>1, <2>8
  <2> QED BY <2>2, <2>8, <2>9 DEF MeetsAll, ClosedFiles
<1> QED BY <1>1, <1>2

LEMMA VisitWell ==
    ASSUME RootsTypeOK, IsFiniteSet(SshFiles), Cardinality(SshFiles) <= MaxDepth
    PROVE  WalksWell(VisitFile[0], 0)
<1>0. MaxDepth \in Nat
  BY FilesAssumption
<1> DEFINE S == {k \in Nat : k <= MaxDepth => WalksWell(VisitFile[MaxDepth - k], MaxDepth - k)}
<1>1. 0 \in S
  <2>1. SUFFICES WalksWell(VisitFile[MaxDepth], MaxDepth)
    BY <1>0
  <2>2. SUFFICES ASSUME NEW f \in SshFiles, NEW seen \in SUBSET SshFiles, Cardinality(seen) >= MaxDepth
                 PROVE  MeetsAll(VisitFile[MaxDepth][f][seen], f, seen)
    BY DEF WalksWell
  <2>3. VisitFile[MaxDepth][f][seen] = seen
    <3>1. VisitFile[MaxDepth] = Shallow
      BY <1>0, VisitIs
    <3> QED BY <3>1 DEF Shallow
  <2>4. seen = SshFiles
    <3>1. Cardinality(SshFiles) \in Nat /\ Cardinality(seen) \in Nat /\ Cardinality(seen) <= Cardinality(SshFiles)
          /\ (Cardinality(seen) = Cardinality(SshFiles) => seen = SshFiles)
      BY FS_Subset, FS_CardinalityType
    <3> QED BY <1>0, <2>2, <3>1
  <2> QED BY <2>3, <2>4 DEF MeetsAll
<1>2. ASSUME NEW k \in S PROVE k + 1 \in S
  <2>0. k \in Nat
    BY <1>2
  <2>1. SUFFICES ASSUME k + 1 <= MaxDepth
                 PROVE  WalksWell(VisitFile[MaxDepth - (k + 1)], MaxDepth - (k + 1))
    BY <2>0
  <2> DEFINE depth == MaxDepth - (k + 1)
  <2>2. depth \in 0..MaxDepth /\ depth # MaxDepth /\ depth \in Nat /\ MaxDepth - k = depth + 1
    BY <1>0, <2>0, <2>1
  <2>3. WalksWell(VisitFile[depth + 1], depth + 1)
    BY <1>0, <1>2, <2>0, <2>1, <2>2
  <2>4. VisitFile[depth] = Deeper(VisitFile[depth + 1])
    BY <2>2, VisitIs
  <2> HIDE DEF depth
  <2>5. ASSUME NEW f \in SshFiles, NEW seen \in SUBSET SshFiles, Cardinality(seen) >= depth
        PROVE  MeetsAll(VisitFile[depth][f][seen], f, seen)
    <3>1. VisitFile[depth][f][seen] = Meet(VisitFile[depth + 1], f, seen)
      BY <2>4 DEF Deeper
    <3> QED BY <2>2, <2>3, <2>5, <3>1, MeetWell
  <2> QED BY <2>5 DEF WalksWell, depth
<1>3. S = Nat
  <2> HIDE DEF S
  <2>1. S \in SUBSET Nat
    BY DEF S
  <2> QED BY <1>1, <1>2, <2>1, AllNumbers
<1>4. MaxDepth - MaxDepth = 0
  BY <1>0
<1> QED BY <1>0, <1>3, <1>4

(* The walk finds what every file in use names, if no chain of includes is *)
(* too long for it.                                                        *)
LEMMA WalkFinds ==
    ASSUME RootsTypeOK, IsFiniteSet(SshFiles), Cardinality(SshFiles) <= MaxDepth
    PROVE  DependenciesFound
<1> DEFINE all == VisitFile[0][Main][{}]
<1>1. Main \in SshFiles /\ MaxDepth \in Nat
  BY FilesAssumption
<1>2. MeetsAll(all, Main, {})
  BY <1>1, VisitWell, FS_EmptySet DEF WalksWell
<1> HIDE DEF all
<1>3. all \in SUBSET SshFiles /\ Closed(all)
  BY <1>2 DEF MeetsAll, Closed
<1>4. Used \subseteq all
  BY <1>3 DEF Used
<1>5. Used \in ClosedFiles /\ Main \in Used
  <2>1. Main \in Used
    BY <1>1 DEF Used, Closed
  <2>2. ASSUME NEW g \in Used, NEW x \in ToSet(includes[g]) PROVE x \in Used
    <3>1. g \in SshFiles /\ x \in SshFiles
      BY <2>2, IncludedFiles DEF Used
    <3> QED BY <2>2, <3>1 DEF Used, Closed
  <2> QED BY <2>1, <2>2 DEF ClosedFiles, Used
<1>6. all = Used
  BY <1>2, <1>4, <1>5 DEF MeetsAll
<1>7. ASSUME NEW g \in Used, g # Main PROVE \E f \in Used : g \in ToSet(includes[f])
  <2>1. SUFFICES ASSUME \A f \in Used : g \notin ToSet(includes[f]) PROVE FALSE
    OBVIOUS
  <2>2. Closed(Used \ {g}) /\ Used \ {g} \in SUBSET SshFiles
    BY <1>5, <1>7, <2>1 DEF Closed, ClosedFiles, Used
  <2> QED BY <1>7, <2>2 DEF Used
<1>8. ASSUME NEW d
      PROVE  d \in DependencyPaths <=> \E f \in Used : d = PathOf[f] \/ d \in names[f]
  <2>1. d \in DependencyPaths <=>
          d = PathOf[Main] \/ \E f \in Used : d \in {PathOf[g] : g \in ToSet(includes[f])} \cup names[f]
    BY <1>6, Zenon DEF DependencyPaths, all
  <2> QED BY <1>5, <1>7, <2>1 DEF ClosedFiles
<1>9. ASSUME NEW d
      PROVE  d \in {PathOf[f] : f \in Used} \cup (UNION {names[f] : f \in Used})
             <=> \E f \in Used : d = PathOf[f] \/ d \in names[f]
  BY Zenon
<1> QED BY <1>8, <1>9 DEF DependenciesFound

----------------------------------------------------------------------------
(* What the filters keep back is what the configuration's reader says they *)
(* should, where the walk finds the files in use.                          *)
LEMMA DependencyKeptBack ==
    ASSUME DependenciesFound, NEW p, Child(p) # "none"
    PROVE  (IsExclusion(p) \/ IsDependency(p)) = KeptBack(Child(p))
<1>1. \A d : d \in DependencyPaths <=> \E f \in Used : d = PathOf[f] \/ d \in names[f]
  BY DEF DependenciesFound
<1> QED BY <1>1 DEF IsExclusion, IsDependency, KeptBack

LEMMA AppendedTo ==
    ASSUME NEW S, NEW dir \in Seq(S), NEW c \in S
    PROVE  /\ Append(dir, c) # dir /\ Within(Append(dir, c), dir)
           /\ Append(dir, c)[Len(dir) + 1] = c
<1> DEFINE p == Append(dir, c)
<1>1. /\ p \in Seq(S) /\ Len(p) = Len(dir) + 1 /\ Len(dir) \in Nat /\ p[Len(dir) + 1] = c
      /\ \A i \in 1..Len(dir) : p[i] = dir[i]
  BY AppendProperties
<1> HIDE DEF p
<1>2. p # dir /\ Len(dir) <= Len(p)
  BY <1>1
<1>3. SubSeq(p, 1, Len(dir)) = SubSeq(dir, 1, Len(dir))
  BY <1>1
<1>4. Within(p, dir)
  BY <1>1, <1>2, <1>3 DEF Within, IsPrefix
<1> QED BY <1>1, <1>2, <1>4 DEF p

LEMMA ProfileChild ==
    ASSUME NEW c \in Children
    PROVE  Child(Append(UserProfile, c)) = c /\ Append(UserProfile, c) # UserProfile
<1> DEFINE NameSet == STRING
<1>1. UserProfile \in Seq(NameSet) /\ c \in NameSet
  BY ProfileAssumption
<1> HIDE DEF NameSet
<1>2. /\ Append(UserProfile, c) # UserProfile /\ Within(Append(UserProfile, c), UserProfile)
      /\ Append(UserProfile, c)[Len(UserProfile) + 1] = c
  BY <1>1, AppendedTo
<1> QED BY <1>2 DEF Child

(* A root that is asked for, is there and is not kept back passes the      *)
(* filters.                                                                *)
LEMMA FreePasses ==
    ASSUME DependenciesFound, NEW roots, NEW r, NEW p \in Expanded(r) \cap Existing,
           Child(p) = "none" \/ ~KeptBack(Child(p)),
           r \in roots \/ (r = UserProfile /\ p \in roots),
           NEW q, q.listed \/ r # UserProfile
    PROVE  p \in Filtered(q, roots)
<1>1. ~IsExclusion(p) /\ ~IsDependency(p)
  BY DependencyKeptBack, ProfileAssumption DEF IsExclusion, IsDependency
<1>2. CASE r = UserProfile
  <2>1. PICK c \in Children : p = Append(UserProfile, c)
    BY <1>2 DEF Expanded
  <2>2. Child(p) = c /\ p # UserProfile
    BY <2>1, ProfileChild
  <2>3. c \notin Excluded
    BY <1>1, <2>2 DEF IsExclusion
  <2>4. p \in ProfileReadRoots(q)
    BY <1>2, <2>1, <2>3 DEF ProfileReadRoots
  <2>5. p \in ExpandProfile(q, roots)
    BY <1>2, <2>2, <2>4 DEF ExpandProfile
  <2> QED BY <1>1, <2>2, <2>5 DEF Filtered
<1>3. CASE r # UserProfile
  <2>1. p = r /\ p \in roots
    BY <1>3 DEF Expanded
  <2> QED BY <1>1, <1>3, <2>1 DEF Filtered, ExpandProfile
<1> QED BY <1>2, <1>3

KeptInv == SecretsKeptBack /\ NothingLost

(* What a request wants to read, whether or not it is there.               *)
WantedReads(q) ==
    LET whole == q.fullRead /\ ~q.override
    IN (q.readable \ (IF whole THEN {d \in Drives : Within(q.cwd, d)} ELSE {}))
       \cup (IF whole THEN {q.cwd, UserProfile} ELSE {})

LEMMA RefreshExact ==
    ASSUME DependenciesFound, NEW q
    PROVE  /\ \A p \in ReadRootsOf(q) \cup WriteRoots(q) :
                p # UserProfile /\ (Child(p) # "none" => ~KeptBack(Child(p)))
           /\ \A r, p :
                (/\ r \in WantedReads(q) /\ (q.listed \/ r # UserProfile)
                 /\ p \in Expanded(r) \cap Existing
                 /\ Child(p) = "none" \/ ~KeptBack(Child(p)))
                => p \in ReadRootsOf(q) \cup WriteRoots(q) \/ \E d \in q.denied : Within(p, d)
           /\ \A r, p :
                (/\ r \in q.writable /\ (q.listed \/ r # UserProfile) /\ p \in Expanded(r) \cap Existing
                 /\ Child(p) = "none" \/ ~KeptBack(Child(p)))
                => p \in WriteRoots(q) \/ p = CodexHome \/ \E z \in Sensitive : Within(p, z)
<1>1. /\ ReadRootsOf(q) \subseteq Filtered(q, Candidates(q))
      /\ \A p \in Filtered(q, Candidates(q)) :
           p \in ReadRootsOf(q) \cup WriteRoots(q) \/ \E d \in q.denied : Within(p, d)
  BY DEF ReadRootsOf, Candidates
<1>2. /\ WriteRoots(q) \subseteq Filtered(q, CanonicalExisting(q.writable))
      /\ \A p \in Filtered(q, CanonicalExisting(q.writable)) :
           p \in WriteRoots(q) \/ p = CodexHome \/ \E z \in Sensitive : Within(p, z)
  BY DEF WriteRoots
<1>3. ASSUME NEW roots, NEW p \in Filtered(q, roots)
      PROVE  p # UserProfile /\ (Child(p) # "none" => ~KeptBack(Child(p)))
  <2>1. p # UserProfile /\ ~IsExclusion(p) /\ ~IsDependency(p)
    BY DEF Filtered
  <2> QED BY <2>1, DependencyKeptBack
<1>4. ASSUME NEW r \in WantedReads(q), q.listed \/ r # UserProfile,
             NEW p \in Expanded(r) \cap Existing, Child(p) = "none" \/ ~KeptBack(Child(p))
      PROVE  p \in Filtered(q, Candidates(q))
  <2>1. r # UserProfile => p = r
    BY DEF Expanded
  <2>2. CASE r \in q.readable /\ (q.override \/ r \in Readable(q))
    <3>1. r \in Candidates(q)
      BY <2>1, <2>2, ProfileAssumption DEF Candidates, Overridden, Gather, CanonicalExisting
    <3> QED BY <1>4, <3>1, FreePasses
  <2>3. CASE q.fullRead /\ ~q.override /\ r = UserProfile
    <3>1. PICK c \in Children : p = Append(UserProfile, c)
      BY <2>3 DEF Expanded
    <3>2. Child(p) = c /\ c # "none"
      BY <3>1, ProfileChild, ProfileAssumption
    <3>3. c \notin Excluded
      BY <1>4, <3>2 DEF KeptBack
    <3>4. p \in Candidates(q)
      BY <1>4, <2>3, <3>1, <3>3 DEF Candidates, Gather, CanonicalExisting, ProfileReadRoots
    <3> QED BY <1>4, <2>3, <3>4, FreePasses
  <2>4. CASE q.fullRead /\ ~q.override /\ r = q.cwd /\ r # UserProfile
    <3>1. r \in Candidates(q)
      BY <2>1, <2>4 DEF Candidates, Gather, CanonicalExisting
    <3> QED BY <1>4, <3>1, FreePasses
  <2>5. CASE r \in q.readable /\ ~q.fullRead
    <3>1. r \in Candidates(q)
      BY <2>1, <2>5, ProfileAssumption DEF Candidates, Overridden, Gather, CanonicalExisting
    <3> QED BY <1>4, <3>1, FreePasses
  <2> QED BY <1>4, <2>2, <2>3, <2>4, <2>5 DEF WantedReads, Readable
<1>5. ASSUME NEW r \in q.writable, q.listed \/ r # UserProfile, NEW p \in Expanded(r) \cap Existing,
             Child(p) = "none" \/ ~KeptBack(Child(p))
      PROVE  p \in Filtered(q, CanonicalExisting(q.writable))
  <2>1. r \in CanonicalExisting(q.writable)
    BY ProfileAssumption DEF CanonicalExisting, Expanded
  <2> QED BY <1>5, <2>1, FreePasses
<1>6. \A p \in ReadRootsOf(q) \cup WriteRoots(q) :
        p # UserProfile /\ (Child(p) # "none" => ~KeptBack(Child(p)))
  BY <1>1, <1>2, <1>3
<1> QED BY <1>1, <1>2, <1>4, <1>5, <1>6

LEMMA KeptBackKept ==
    ASSUME UNCHANGED <<includes, names>>, NEW c
    PROVE  KeptBack(c)' = KeptBack(c)
BY DEF KeptBack, Used, Closed

LEMMA KeptInit == ElevatedInit => KeptInv
BY DEF ElevatedInit, RootsInit, KeptInv, SecretsKeptBack, NothingLost

LEMMA KeptAfterRefresh ==
    ASSUME DependenciesFound, NEW q, Refresh(q)
    PROVE  KeptInv'
<1>1. /\ asked' = q /\ read' = ReadRootsOf(q) /\ write' = WriteRoots(q)
      /\ UNCHANGED <<includes, names>>
  BY DEF Refresh
<1>2. \A c : KeptBack(c)' = KeptBack(c)
  BY <1>1, KeptBackKept
<1>3. SecretsKeptBack'
  BY <1>1, <1>2, RefreshExact DEF SecretsKeptBack
<1>4. NothingLost'
  <2> DEFINE reads == WantedReads(q)
             unlisted == IF q.listed THEN {} ELSE {UserProfile}
             Unkept(roots) == {p \in (UNION {Expanded(r) : r \in roots \ unlisted}) \cap Existing :
                                Child(p) = "none" \/ ~KeptBack(Child(p))}
  <2>0. ASSUME NEW roots, NEW p \in Unkept(roots)
        PROVE  /\ p \in Existing /\ (Child(p) = "none" \/ ~KeptBack(Child(p)))
               /\ \E r \in roots : p \in Expanded(r) /\ (q.listed \/ r # UserProfile)
    <3>1. /\ p \in UNION {Expanded(r) : r \in roots \ unlisted} /\ p \in Existing
          /\ Child(p) = "none" \/ ~KeptBack(Child(p))
      BY <2>0
    <3> HIDE DEF unlisted
    <3>2. \E r \in roots \ unlisted : p \in Expanded(r)
      BY <3>1, Zenon
    <3> QED BY <3>1, <3>2 DEF unlisted
  <2>1. \A p \in Unkept(reads) : p \in read' \cup write' \/ \E d \in q.denied : Within(p, d)
    <3> SUFFICES ASSUME NEW p \in Unkept(reads)
                 PROVE  p \in read' \cup write' \/ \E d \in q.denied : Within(p, d)
      OBVIOUS
    <3>1. PICK r \in reads : (q.listed \/ r # UserProfile) /\ p \in Expanded(r) \cap Existing /\ (Child(p) = "none" \/ ~KeptBack(Child(p)))
      BY <2>0
    <3> QED BY <1>1, <3>1, RefreshExact
  <2>2. \A p \in Unkept(q.writable) : p \in write' \/ p = CodexHome \/ \E z \in Sensitive : Within(p, z)
    <3> SUFFICES ASSUME NEW p \in Unkept(q.writable)
                 PROVE  p \in write' \/ p = CodexHome \/ \E z \in Sensitive : Within(p, z)
      OBVIOUS
    <3>1. PICK r \in q.writable : (q.listed \/ r # UserProfile) /\ p \in Expanded(r) \cap Existing /\ (Child(p) = "none" \/ ~KeptBack(Child(p)))
      BY <2>0
    <3> QED BY <1>1, <3>1, RefreshExact
  <2>3. \A roots : {p \in (UNION {Expanded(r) : r \in roots \ unlisted}) \cap Existing :
                        Child(p) = "none" \/ ~KeptBack(Child(p))'} = Unkept(roots)
    BY <1>2
  <2> HIDE DEF Unkept
  <2> QED BY <1>1, <2>1, <2>2, <2>3 DEF NothingLost, WantedReads
<1> QED BY <1>3, <1>4 DEF KeptInv

LEMMA KeptStep ==
    DependenciesFound /\ KeptInv /\ [ElevatedNext /\ UNCHANGED chosen]_<<elevatedVars, chosen>> => KeptInv'
<1> SUFFICES ASSUME DependenciesFound, KeptInv,
                    [ElevatedNext /\ UNCHANGED chosen]_<<elevatedVars, chosen>>
             PROVE  KeptInv'
  OBVIOUS
<1>1. ASSUME NEW q, Refresh(q) PROVE KeptInv'
  BY <1>1, KeptAfterRefresh
<1>2. CASE Forget
  BY <1>2 DEF Forget, KeptInv, SecretsKeptBack, NothingLost
<1>3. CASE UNCHANGED rootsVars
  <2>1. UNCHANGED <<includes, names, asked, read, write>>
    BY <1>3 DEF rootsVars, grants
  <2>2. \A c : KeptBack(c)' = KeptBack(c)
    BY <2>1, KeptBackKept
  <2> QED BY <2>1, <2>2 DEF KeptInv, SecretsKeptBack, NothingLost
<1> QED BY <1>1, <1>2, <1>3 DEF ElevatedNext, RootsNext, LaunchRefresh, EditSsh, elevatedVars

(* A refresh grants exactly what it is asked for and nothing keeps back:   *)
(* whatever the files of the ssh configuration include and name, if they   *)
(* are no more than an include may be deep.                                *)
THEOREM GrantsExactHolds ==
    ASSUME IsFiniteSet(SshFiles), Cardinality(SshFiles) <= MaxDepth
    PROVE  ElevatedSpec => []GrantsExact
<1>1. RootsInv => DependenciesFound
  BY WalkFinds DEF RootsInv
<1>2. RootsInv /\ KeptInv /\ DependenciesFound => GrantsExact
  BY DEF RootsInv, KeptInv, GrantsExact
<1> QED BY <1>1, <1>2, KeptInit, KeptStep, RootsHold, PTL DEF ElevatedSpec
=============================================================================
