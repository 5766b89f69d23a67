------------------------ MODULE VhostUserVsockProofs ------------------------
(***************************************************************************)
(* Proofs about VhostUserVsock for any CIDs, any number of waiting closes  *)
(* and either behaviour of vhost_user_async_close.                         *)
(***************************************************************************)
EXTENDS VhostUserVsock, TLAPS

(* Outside its life the device is bare. *)
BareUnlessRealized ==
  /\ device \in {"new", "gone"} => ~armed /\ ~connected
  /\ device = "new" => closes = 0

(* A connected device either has a close waiting for it, or will see one.     *)
DropWillBeSeen ==
  device = "realized" /\ connected /\ closes = 0 => armed /\ link /\ vsockcfg = backend

IInv ==
  /\ TypeOK
  /\ ResourcesFollowConnection
  /\ BareUnlessRealized
  /\ DropWillBeSeen

(* A waiting close is counted within the bound. *)
LEMMA CountInBound ==
  /\ 0 \in 0 .. MaxCloses
  /\ \A n \in 0 .. MaxCloses : /\ n < MaxCloses => n + 1 \in 0 .. MaxCloses /\ n + 1 # 0
                               /\ n > 0 => n - 1 \in 0 .. MaxCloses
BY MaxClosesAssumption

LEMMA InitInv == Init => IInv
<1> SUFFICES ASSUME Init PROVE IInv
  OBVIOUS
<1>1. TypeOK
  BY CountInBound DEF Init, TypeOK
<1> QED
  BY <1>1 DEF Init, IInv, ResourcesFollowConnection, BareUnlessRealized, DropWillBeSeen

(* Every step keeps every variable in its type. *)
LEMMA TypeInv == TypeOK /\ [Next]_vars => TypeOK'
<1> SUFFICES ASSUME TypeOK, [Next]_vars PROVE TypeOK'
  OBVIOUS
<1> USE DEF TypeOK, Connects, ConnectFails, RestartFails, Opens
<1>1. CASE RealizeSucceeds \/ RealizeFails \/ vuv_device_unrealize
  BY <1>1 DEF RealizeSucceeds, RealizeFails, vuv_device_unrealize
<1>2. CASE OpenedUnnoticed \/ OpenedConnects \/ OpenedCrashes \/ BackendRelaunched
  BY <1>2 DEF OpenedUnnoticed, OpenedConnects, OpenedCrashes, BackendRelaunched
<1>3. ASSUME CloseLater PROVE closes' \in 0 .. MaxCloses /\ armed' \in BOOLEAN
  BY <1>3, CountInBound DEF CloseLater
<1>4. CASE OpenedFails \/ Closed
  BY <1>3, <1>4 DEF OpenedFails, Closed
<1>5. CASE vuv_disconnect
  <2>1. closes' \in 0 .. MaxCloses
    BY <1>5, CountInBound DEF vuv_disconnect
  <2> QED BY <1>5, <2>1 DEF vuv_disconnect
<1>6. CASE DriverStarts \/ DriverStops
  BY <1>6 DEF DriverStarts, DriverStops
<1>7. CASE UNCHANGED vars
  BY <1>7 DEF vars
<1> QED BY <1>1, <1>2, <1>4, <1>5, <1>6, <1>7 DEF Next

(* Every step preserves the invariant. *)
LEMMA StepInv == IInv /\ [Next]_vars => IInv'
<1> SUFFICES ASSUME IInv, [Next]_vars PROVE IInv'
  OBVIOUS
<1>0. TypeOK'
  BY TypeInv DEF IInv
<1> USE <1>0 DEF IInv, TypeOK, ResourcesFollowConnection, BareUnlessRealized, DropWillBeSeen,
             Connects, ConnectFails, RestartFails, Opens
<1>1. CASE RealizeSucceeds
  BY <1>1 DEF RealizeSucceeds
<1>2. CASE RealizeFails
  BY <1>2 DEF RealizeFails
<1>3. CASE OpenedUnnoticed
  BY <1>3 DEF OpenedUnnoticed
<1>4. CASE OpenedConnects
  BY <1>4 DEF OpenedConnects
<1>5. CASE OpenedFails
  BY <1>5 DEF OpenedFails, CloseLater
<1>6. CASE OpenedCrashes
  BY <1>6 DEF OpenedCrashes
<1>7. CASE BackendRelaunched
  BY <1>7 DEF BackendRelaunched
<1>8. CASE Closed
  BY <1>8 DEF Closed, CloseLater
<1>9. CASE vuv_disconnect
  BY <1>9 DEF vuv_disconnect
<1>10. CASE vuv_device_unrealize
  BY <1>10 DEF vuv_device_unrealize
<1>11. CASE DriverStarts
  BY <1>11 DEF DriverStarts
<1>12. CASE DriverStops
  BY <1>12 DEF DriverStops
<1>13. CASE UNCHANGED vars
  BY <1>13 DEF vars
<1> QED
  BY <1>1, <1>2, <1>3, <1>4, <1>5, <1>6, <1>7, <1>8, <1>9, <1>10, <1>11, <1>12, <1>13 DEF Next

(* IInv holds in every reachable state. *)
THEOREM Invariance == Spec => []IInv
BY InitInv, StepInv, PTL DEF Spec

(* The device's variables keep their types: no close beyond those deferred.   *)
THEOREM TypeCorrect == Spec => []TypeOK
<1>1. IInv => TypeOK
  BY DEF IInv
<1> QED BY <1>1, Invariance, PTL

(* However closes, reconnects and faults interleave, the device holds vhost   *)
(* resources exactly while it is connected.                                   *)
THEOREM NoLeakNoDoubleInit == Spec => []ResourcesFollowConnection
<1>1. IInv => ResourcesFollowConnection
  BY DEF IInv
<1> QED BY <1>1, Invariance, PTL

(* Once the deferred closes have run, the guest sees the CID of the backend   *)
(* the device is connected to.                                                *)
THEOREM ConfigFresh == Spec => []ConfigOfThisBackend
<1>1. IInv => ConfigOfThisBackend
  BY DEF IInv, DropWillBeSeen, ConfigOfThisBackend
<1> QED BY <1>1, Invariance, PTL

(* No deferred close tears down a device that has been removed.               *)
THEOREM RemovalIsFinal == Spec => QuietOnceGone
<1>1. ASSUME IInv, [Next]_vars, device = "gone"
      PROVE  UNCHANGED <<armed, connected, inited, started>>
  <2>1. ~armed /\ ~connected
    BY <1>1 DEF IInv, BareUnlessRealized
  <2> QED
    BY <1>1, <2>1 DEF Next, vars, RealizeSucceeds, RealizeFails, OpenedUnnoticed,
        OpenedConnects, OpenedFails, OpenedCrashes, BackendRelaunched, Closed,
        vuv_disconnect, vuv_device_unrealize, DriverStarts, DriverStops
<1>2. IInv /\ [Next]_vars =>
        [device = "gone" => UNCHANGED <<armed, connected, inited, started>>]_vars
  BY <1>1
<1> QED BY <1>2, Invariance, PTL DEF Spec, QuietOnceGone
=============================================================================
