--------------------------- MODULE AfterGuestInit ---------------------------
(***************************************************************************)
(* The after-guest-init hook that patch 0001 adds to system/vl.c: once the *)
(* board and the CLI devices exist, and before the machine counts as       *)
(* created, startup calls the embedder's callback with the big QEMU lock   *)
(* (BQL) held.  The callback enters Python and takes Penguin's own lock    *)
(* there.  Meanwhile a thread of Penguin's works under either lock: it may *)
(* take Penguin's inside the BQL, the order of the hook, and, if Nested,   *)
(* ask for the BQL while it holds Penguin's.                               *)
(*                                                                         *)
(* Penguin, its lock and the BQL itself are external.                      *)
(***************************************************************************)
EXTENDS Naturals

CONSTANTS
  Startup,        \* the thread in qmp_x_exit_preconfig
  Worker,         \* a thread of Penguin's
  None,           \* holds a free lock
  Nested          \* the worker calls into QEMU from under Penguin's lock too

ASSUME ThreadAssumption == Startup # Worker /\ None \notin {Startup, Worker}
ASSUME NestedAssumption == Nested \in BOOLEAN

VARIABLES
  pc,             \* how far startup is
  cb,             \* kvm_penguin_after_guest_init_cb is not NULL
  called,         \* kvm_penguin_after_guest_init_called
  bql,            \* the thread that holds the BQL
  python,         \* the thread that holds Penguin's lock
  waiting,        \* the worker is blocked in bql_lock
  hadBql,         \* startup came with the BQL held
  calls,          \* ghost: how often the callback was called
  refused         \* ghost: a call returned nonzero

vars == <<pc, cb, called, bql, python, waiting, hadBql, calls, refused>>

Lock == {None, Startup, Worker}
InHook == {"marked", "inCallback", "inPython"}

TypeOK ==
  /\ pc \in {"start", "built", "afterHook", "ready", "exited"} \cup InHook
  /\ cb \in BOOLEAN
  /\ called \in BOOLEAN
  /\ bql \in Lock
  /\ python \in Lock
  /\ waiting \in BOOLEAN
  /\ hadBql \in BOOLEAN
  /\ calls \in Nat
  /\ refused \in BOOLEAN

Init ==
  /\ pc = "start"
  /\ cb = FALSE
  /\ called = FALSE
  /\ bql \in {None, Startup}
  /\ python = None
  /\ waiting = FALSE
  /\ hadBql = (bql = Startup)
  /\ calls = 0
  /\ refused = FALSE

-----------------------------------------------------------------------------
(* Penguin installs the callback before startup gets here, or too late.       *)
set_kvm_penguin_after_guest_init_callback(up) ==
  /\ pc \in {"start", "ready"}
  /\ cb' = up
  /\ UNCHANGED <<pc, called, bql, python, waiting, hadBql, calls, refused>>

BuildMachine ==
  /\ pc = "start"
  /\ pc' = "built"
  /\ UNCHANGED <<cb, called, bql, python, waiting, hadBql, calls, refused>>

SkipHook ==
  /\ pc = "built"
  /\ ~cb \/ called
  /\ pc' = "afterHook"
  /\ UNCHANGED <<cb, called, bql, python, waiting, hadBql, calls, refused>>

(* Mutant: the flag is set nowhere. *)
EnterHook_Unmarked ==
  /\ pc = "built"
  /\ cb /\ ~called
  /\ pc' = "marked"
  /\ UNCHANGED <<cb, called, bql, python, waiting, hadBql, calls, refused>>

EnterHook ==
  /\ pc = "built"
  /\ cb /\ ~called
  /\ called' = TRUE
  /\ pc' = "marked"
  /\ UNCHANGED <<cb, bql, python, waiting, hadBql, calls, refused>>

(* Mutant: the lock is taken whether held or not. *)
CallHook_LocksAgain ==
  /\ pc = "marked"
  /\ bql = None
  /\ bql' = Startup
  /\ calls' = calls + 1
  /\ pc' = "inCallback"
  /\ UNCHANGED <<cb, called, python, waiting, hadBql, refused>>

(* BQL_LOCK_GUARD(), which waits, unless bql_locked() already. *)
CallHook ==
  /\ pc = "marked"
  /\ bql \in {None, Startup}
  /\ bql' = Startup
  /\ calls' = calls + 1
  /\ pc' = "inCallback"
  /\ UNCHANGED <<cb, called, python, waiting, hadBql, refused>>

CallbackEntersPython ==
  /\ pc = "inCallback"
  /\ python = None
  /\ python' = Startup
  /\ pc' = "inPython"
  /\ UNCHANGED <<cb, called, bql, waiting, hadBql, calls, refused>>

(* Mutant: the lock is released whether startup held it or not. *)
CallbackReturns_Unlocks(ok) ==
  /\ pc = "inPython"
  /\ python' = None
  /\ bql' = None
  /\ pc' = IF ok THEN "afterHook" ELSE "exited"
  /\ refused' = ~ok
  /\ UNCHANGED <<cb, called, waiting, hadBql, calls>>

(* Mutant: a refusal leaves startup in a state of its own. *)
CallbackReturns_Reports(ok) ==
  /\ pc = "inPython"
  /\ python' = None
  /\ bql' = IF hadBql THEN Startup ELSE None
  /\ pc' = IF ok THEN "afterHook" ELSE "failed"
  /\ refused' = ~ok
  /\ UNCHANGED <<cb, called, waiting, hadBql, calls>>

(* The guard's scope ends with the call; a nonzero result then exits. *)
CallbackReturns(ok) ==
  /\ pc = "inPython"
  /\ python' = None
  /\ bql' = IF hadBql THEN Startup ELSE None
  /\ pc' = IF ok THEN "afterHook" ELSE "exited"
  /\ refused' = ~ok
  /\ UNCHANGED <<cb, called, waiting, hadBql, calls>>

(* qemu_machine_creation_done, after which the main loop releases the BQL as  *)
(* it polls; when it fails the monitor may call qmp_x_exit_preconfig again.   *)
CreationDone ==
  /\ pc = "afterHook"
  /\ pc' = "ready"
  /\ bql' = IF hadBql THEN None ELSE bql
  /\ UNCHANGED <<cb, called, python, waiting, hadBql, calls, refused>>

CreationFails ==
  /\ pc = "afterHook"
  /\ pc' = "start"
  /\ UNCHANGED <<cb, called, bql, python, waiting, hadBql, calls, refused>>

-----------------------------------------------------------------------------
(* Penguin's other thread. *)
Alive == pc # "exited"

WorkerEntersPython ==
  /\ Alive /\ ~waiting
  /\ python = None
  /\ python' = Worker
  /\ UNCHANGED <<pc, cb, called, bql, waiting, hadBql, calls, refused>>

(* A call into QEMU waits for the BQL.                                        *)
WorkerCallsQemu ==
  /\ Alive /\ ~waiting
  /\ bql # Worker
  /\ python = Worker => Nested
  /\ waiting' = TRUE
  /\ UNCHANGED <<pc, cb, called, bql, python, hadBql, calls, refused>>

WorkerEntersQemu ==
  /\ Alive /\ waiting
  /\ bql = None
  /\ bql' = Worker
  /\ waiting' = FALSE
  /\ UNCHANGED <<pc, cb, called, python, hadBql, calls, refused>>

WorkerLeavesPython ==
  /\ Alive /\ ~waiting
  /\ python = Worker
  /\ python' = None
  /\ UNCHANGED <<pc, cb, called, bql, waiting, hadBql, calls, refused>>

WorkerLeavesQemu ==
  /\ Alive
  /\ bql = Worker
  /\ bql' = None
  /\ UNCHANGED <<pc, cb, called, python, waiting, hadBql, calls, refused>>

Next ==
  \/ \E up \in BOOLEAN : set_kvm_penguin_after_guest_init_callback(up)
  \/ BuildMachine \/ SkipHook \/ EnterHook
  \/ CallHook \/ CallbackEntersPython \/ \E ok \in BOOLEAN : CallbackReturns(ok)
  \/ CreationDone \/ CreationFails
  \/ WorkerEntersPython \/ WorkerCallsQemu \/ WorkerEntersQemu
  \/ WorkerLeavesPython \/ WorkerLeavesQemu

Spec == Init /\ [][Next]_vars

(* Penguin's thread gives back what it takes as soon as it is not blocked     *)
(* itself, and a thread that waits for a lock others keep taking and          *)
(* releasing gets it in the end.                                              *)
FairSpec ==
  /\ Spec
  /\ SF_vars(WorkerLeavesPython) /\ SF_vars(WorkerLeavesQemu) /\ SF_vars(WorkerEntersQemu)
  /\ SF_vars(CallHook) /\ SF_vars(CallbackEntersPython)
  /\ WF_vars(\E ok \in BOOLEAN : CallbackReturns(ok))

-----------------------------------------------------------------------------
(* Properties. *)

(* The callback runs with the BQL held, whether startup brought it or not,    *)
(* and startup goes on with the BQL exactly as it came.                       *)
BqlScoped ==
  /\ pc \in {"inCallback", "inPython"} => bql = Startup
  /\ pc \in {"start", "built", "afterHook"} => (bql = Startup <=> hadBql)

(* However often machine creation fails and is tried again, the callback is   *)
(* called once, and an installed callback is neither passed over nor ignored  *)
(* when it refuses.                                                           *)
HookRunsOnce ==
  /\ calls <= 1
  /\ pc = "afterHook" /\ cb => calls = 1 /\ ~refused

(* "qemu_init() may already be running with BQL held, so avoid taking it      *)
(* recursively" (patch 0001): startup never waits for itself in the hook.     *)
HookReturns == pc = "marked" ~> pc \in {"afterHook", "exited"}

(* "The callback is invoked outside the BQL: taking it here deadlocks against *)
(* Penguin's own locking on the Python side" (patch 0001): startup, in the    *)
(* callback, and Penguin's thread never wait for the lock the other holds.    *)
NoLockOrderDeadlock ==
  ~(pc = "inCallback" /\ bql = Startup /\ python = Worker /\ waiting)
=============================================================================
