------------------------ MODULE AfterGuestInitProofs ------------------------
(* Proofs about AfterGuestInit, for any two threads. *)
EXTENDS AfterGuestInit, TLAPS

(* The flag counts the calls, but for the moment between setting it and the   *)
(* call; a refusal is seen only in an exited process.                         *)
CountInv ==
  /\ pc = "marked" => called /\ calls = 0 /\ cb
  /\ pc \in {"inCallback", "inPython"} => called /\ calls = 1 /\ cb
  /\ pc # "marked" => calls = IF called THEN 1 ELSE 0
  /\ pc = "afterHook" /\ cb => called
  /\ refused => pc = "exited"

(* Until the machine is ready startup keeps the BQL it brought, and one it did *)
(* not bring it holds at most during the call.                                *)
LockInv ==
  /\ hadBql /\ pc \notin {"ready", "exited"} => bql = Startup
  /\ ~hadBql /\ pc \in {"start", "built", "marked", "afterHook"} => bql # Startup
  /\ pc \in {"inCallback", "inPython"} => bql = Startup

IInv == TypeOK /\ CountInv /\ LockInv

(* The inductive invariant holds of every behaviour.                          *)
THEOREM Invariance == Spec => []IInv
<1>1. Init => IInv
  <2> SUFFICES ASSUME Init PROVE IInv
    OBVIOUS
  <2>1. TypeOK
    <3>1. hadBql \in BOOLEAN
      BY Zenon DEF Init
    <3> QED
      BY <3>1 DEF Init, TypeOK, Lock
  <2>2. CountInv
    BY DEF Init, CountInv
  <2>3. LockInv
    <3>1. hadBql <=> bql = Startup
      BY Zenon DEF Init
    <3> QED
      BY <3>1 DEF Init, LockInv
  <2> QED
    BY <2>1, <2>2, <2>3 DEF IInv
<1>2. IInv /\ [Next]_vars => IInv'
  <2> SUFFICES ASSUME IInv, [Next]_vars PROVE IInv'
    OBVIOUS
  <2> USE ThreadAssumption DEF IInv, TypeOK, CountInv, LockInv, Lock, InHook
  <2>1. ASSUME NEW up \in BOOLEAN, set_kvm_penguin_after_guest_init_callback(up)
        PROVE  IInv'
    BY <2>1 DEF set_kvm_penguin_after_guest_init_callback
  <2>2. CASE BuildMachine
    BY <2>2 DEF BuildMachine
  <2>3. CASE SkipHook
    BY <2>3 DEF SkipHook
  <2>4. CASE EnterHook
    BY <2>4 DEF EnterHook
  <2>5. CASE CallHook
    BY <2>5 DEF CallHook
  <2>6. CASE CallbackEntersPython
    BY <2>6 DEF CallbackEntersPython
  <2>7. ASSUME NEW ok \in BOOLEAN, CallbackReturns(ok) PROVE IInv'
    BY <2>7 DEF CallbackReturns
  <2>8. CASE CreationDone
    BY <2>8 DEF CreationDone
  <2>9. CASE CreationFails
    BY <2>9 DEF CreationFails
  <2>10. CASE WorkerEntersPython
    BY <2>10 DEF WorkerEntersPython, Alive
  <2>11. CASE WorkerCallsQemu
    <3>1. UNCHANGED <<pc, cb, called, bql, python, hadBql, calls, refused>>
      BY <2>11, Zenon DEF WorkerCallsQemu
    <3>2. waiting' \in BOOLEAN
      BY <2>11, Zenon DEF WorkerCallsQemu
    <3> QED
      BY <3>1, <3>2
  <2>15. CASE WorkerEntersQemu
    BY <2>15 DEF WorkerEntersQemu, Alive
  <2>12. CASE WorkerLeavesPython
    BY <2>12 DEF WorkerLeavesPython, Alive
  <2>13. CASE WorkerLeavesQemu
    BY <2>13 DEF WorkerLeavesQemu, Alive
  <2>14. CASE UNCHANGED vars
    BY <2>14 DEF vars
  <2> QED
    BY <2>1, <2>2, <2>3, <2>4, <2>5, <2>6, <2>7, <2>8, <2>9, <2>10, <2>11, <2>12,
       <2>13, <2>14, <2>15 DEF Next
<1> QED
  BY <1>1, <1>2, PTL DEF Spec

(* The variables of the hook stay in their types.                             *)
THEOREM TypeCorrect == Spec => []TypeOK
<1>1. IInv => TypeOK
  BY DEF IInv
<1> QED
  BY <1>1, Invariance, PTL

(* The callback runs under the BQL, and startup goes on with the BQL exactly  *)
(* as it came.                                                                *)
THEOREM LockAsFound == Spec => []BqlScoped
<1>1. IInv => BqlScoped
  BY DEF IInv, TypeOK, LockInv, BqlScoped
<1> QED
  BY <1>1, Invariance, PTL

(* The callback is called once, and neither passed over nor ignored.          *)
THEOREM CalledOnce == Spec => []HookRunsOnce
<1>1. IInv => HookRunsOnce
  BY DEF IInv, TypeOK, CountInv, HookRunsOnce
<1> QED
  BY <1>1, Invariance, PTL
=============================================================================
