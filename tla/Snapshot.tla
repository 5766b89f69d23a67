------------------------------ MODULE Snapshot ------------------------------
(***************************************************************************)
(* Snapshots in src/src/system/penguin.c: penguin_schedule_snapshot queues *)
(* a one-shot bottom half on the main loop, which runs                     *)
(* penguin_save_snapshot or penguin_load_snapshot.  Both call into QEMU    *)
(* (save_snapshot, load_snapshot, vm_stop, vm_resume: external), which     *)
(* polls the event loop while it drains and writes block devices.  Such a  *)
(* poll may run the bottom half of another request, so one operation can   *)
(* start inside another: the calls in progress form a stack, and each      *)
(* remembers the run state it found.                                       *)
(***************************************************************************)
EXTENDS Naturals, Sequences

CONSTANTS
  Request,        \* calls of penguin_schedule_snapshot, each made at most once
  Name,           \* snapshot names
  None,           \* no snapshot stored under a name
  Ticks           \* bound on the guest's progress

ASSUME TicksAssumption == Ticks \in Nat
ASSUME NoneAssumption == None \notin Nat

VARIABLES
  request,        \* [Request -> its progress, name and direction]
  stack,          \* penguin_save_snapshot and penguin_load_snapshot in progress
  runstate,       \* QEMU's run state
  ignoreBlockers, \* snapshot_ignore_migration_blockers
  vm,             \* the state of the machine; Broken after a load failed half way
  image           \* [Name -> the machine state stored, or None]

vars == <<request, stack, runstate, ignoreBlockers, vm, image>>

Broken == Ticks + 1
Machine == 0 .. Broken
RunState == {"running", "paused", "saveVm", "restoreVm"}
Progress == {"new", "scheduled", "active", "ok", "failed"}
Frame == [id : Request, load : BOOLEAN, saved : RunState, restored : BOOLEAN,
          captured : Machine, disturbed : BOOLEAN]

TypeOK ==
  /\ request \in [Request -> [progress : Progress, name : Name, load : BOOLEAN]]
  /\ stack \in Seq(Frame)
  /\ runstate \in RunState
  /\ ignoreBlockers \in BOOLEAN
  /\ vm \in Machine
  /\ image \in [Name -> Machine \cup {None}]

Init ==
  /\ request \in [Request -> [progress : {"new"}, name : Name, load : BOOLEAN]]
  /\ stack = <<>>
  /\ runstate \in {"running", "paused"}
  /\ ignoreBlockers = FALSE
  /\ vm = 0
  /\ image = [n \in Name |-> None]

Idle == stack = <<>>
Top == stack[Len(stack)]
Pop == SubSeq(stack, 1, Len(stack) - 1)
Move(r, p) == request' = [request EXCEPT ![r].progress = p]
Disturb(frames) == [i \in DOMAIN frames |-> [frames[i] EXCEPT !.disturbed = TRUE]]

(* vm_stop: a machine that does not run keeps the state it is in. *)
Stopped(s) == IF runstate = "running" THEN s ELSE runstate

-----------------------------------------------------------------------------
(* The guest, and the monitor's stop and cont, which the main loop serves   *)
(* between snapshots.                                                       *)
GuestRuns ==
  /\ runstate = "running"
  /\ vm < Ticks
  /\ vm' = vm + 1
  /\ UNCHANGED <<request, stack, runstate, ignoreBlockers, image>>

StopOrCont ==
  /\ Idle
  /\ runstate' = IF runstate = "running" THEN "paused" ELSE "running"
  /\ UNCHANGED <<request, stack, ignoreBlockers, vm, image>>

(* From any thread: the bottom half is queued, in no particular order. *)
penguin_schedule_snapshot(r) ==
  /\ request[r].progress = "new"
  /\ Move(r, "scheduled")
  /\ UNCHANGED <<stack, runstate, ignoreBlockers, vm, image>>

-----------------------------------------------------------------------------
(* penguin_snapshot_bh: from the main loop, or from a poll of the operation  *)
(* on top of the stack.                                                      *)
Dispatchable(r) == request[r].progress = "scheduled"

(* captured and disturbed are ghosts: the machine when the operation began, and *)
(* whether a load inside it has touched the machine since.                      *)
Enter(r) ==
  stack' = Append(stack, [id |-> r, load |-> request[r].load, saved |-> runstate,
                          restored |-> FALSE, captured |-> vm, disturbed |-> FALSE])

(* Mutant: the early return skips the reset of the flag. *)
SaveRefused_FlagStays(r) ==
  /\ Dispatchable(r)
  /\ ~request[r].load
  /\ Move(r, "failed")
  /\ ignoreBlockers' = TRUE
  /\ image' \in {image, [image EXCEPT ![request[r].name] = None]}
  /\ UNCHANGED <<stack, runstate, vm>>

(* A save that a device or the disks refuse returns before the machine is    *)
(* stopped, with the old snapshot of that name possibly deleted already; the *)
(* migration blockers are not among what can refuse it.                      *)
SaveRefused(r) ==
  /\ Dispatchable(r)
  /\ ~request[r].load
  /\ Move(r, "failed")
  /\ ignoreBlockers' = FALSE
  /\ image' \in {image, [image EXCEPT ![request[r].name] = None]}
  /\ UNCHANGED <<stack, runstate, vm>>

(* Mutant: a live save, without vm_stop. *)
SaveBegins_Live(r) ==
  /\ Dispatchable(r)
  /\ ~request[r].load
  /\ Move(r, "active")
  /\ Enter(r)
  /\ ignoreBlockers' = TRUE
  /\ image' = [image EXCEPT ![request[r].name] = None]
  /\ UNCHANGED <<runstate, vm>>

(* overwrite = true: the old snapshot of that name goes first. *)
SaveBegins(r) ==
  /\ Dispatchable(r)
  /\ ~request[r].load
  /\ Move(r, "active")
  /\ Enter(r)
  /\ ignoreBlockers' = TRUE
  /\ image' = [image EXCEPT ![request[r].name] = None]
  /\ runstate' = Stopped("saveVm")
  /\ UNCHANGED vm

(* save_snapshot restores the run state it found, whether it worked or not. *)
SaveEnds(ok) ==
  /\ ~Idle
  /\ ~Top.load
  /\ Move(Top.id, IF ok THEN "ok" ELSE "failed")
  /\ image' = IF ok THEN [image EXCEPT ![request[Top.id].name] = vm] ELSE image
  /\ runstate' = Top.saved
  /\ stack' = Pop
  /\ ignoreBlockers' = FALSE
  /\ UNCHANGED vm

(* Mutant: no vm_stop before load_snapshot. *)
LoadBegins_Live(r) ==
  /\ Dispatchable(r)
  /\ request[r].load
  /\ Move(r, "active")
  /\ Enter(r)
  /\ UNCHANGED <<runstate, ignoreBlockers, vm, image>>

(* Mutant: the machine is stopped in a state of another operation. *)
LoadBegins_WrongState(r) ==
  /\ Dispatchable(r)
  /\ request[r].load
  /\ Move(r, "active")
  /\ Enter(r)
  /\ runstate' = Stopped("inMigrate")
  /\ UNCHANGED <<ignoreBlockers, vm, image>>

LoadBegins(r) ==
  /\ Dispatchable(r)
  /\ request[r].load
  /\ Move(r, "active")
  /\ Enter(r)
  /\ runstate' = Stopped("restoreVm")
  /\ UNCHANGED <<ignoreBlockers, vm, image>>

LoadRestores ==
  /\ ~Idle
  /\ Top.load
  /\ ~Top.restored
  /\ image[request[Top.id].name] # None
  /\ vm' = image[request[Top.id].name]
  /\ stack' = Append(Disturb(Pop), [Top EXCEPT !.restored = TRUE])
  /\ UNCHANGED <<request, runstate, ignoreBlockers, image>>

(* Mutant: a failed load queues itself again. *)
LoadFails_Retried ==
  /\ ~Idle
  /\ Top.load
  /\ ~Top.restored
  /\ Move(Top.id, "scheduled")
  /\ stack' = Pop
  /\ UNCHANGED <<runstate, ignoreBlockers, vm, image>>

(* A load that fails returns with the machine stopped: before it touched the *)
(* machine, or half way through its devices.                                 *)
LoadFails ==
  /\ ~Idle
  /\ Top.load
  /\ ~Top.restored
  /\ vm' \in {vm} \cup (IF image[request[Top.id].name] # None THEN {Broken} ELSE {})
  /\ Move(Top.id, "failed")
  /\ stack' = Disturb(Pop)
  /\ UNCHANGED <<runstate, ignoreBlockers, image>>

(* Mutant: the guest is always started after a load. *)
LoadEnds_AlwaysStarts ==
  /\ ~Idle
  /\ Top.load
  /\ Top.restored
  /\ runstate' = "running"
  /\ Move(Top.id, "ok")
  /\ stack' = Pop
  /\ UNCHANGED <<ignoreBlockers, vm, image>>

(* Mutant: the run state is not put back after a load. *)
LoadEnds_NoResume ==
  /\ ~Idle
  /\ Top.load
  /\ Top.restored
  /\ Move(Top.id, "ok")
  /\ stack' = Pop
  /\ UNCHANGED <<runstate, ignoreBlockers, vm, image>>

(* load_snapshot_resume(saved_state) *)
LoadEnds ==
  /\ ~Idle
  /\ Top.load
  /\ Top.restored
  /\ runstate' = Top.saved
  /\ Move(Top.id, "ok")
  /\ stack' = Pop
  /\ UNCHANGED <<ignoreBlockers, vm, image>>

penguin_snapshot_bh ==
  \/ \E r \in Request : SaveRefused(r) \/ SaveBegins(r) \/ LoadBegins(r)
  \/ \E ok \in BOOLEAN : SaveEnds(ok)
  \/ LoadRestores \/ LoadFails \/ LoadEnds

Next ==
  \/ GuestRuns
  \/ StopOrCont
  \/ \E r \in Request : penguin_schedule_snapshot(r)
  \/ penguin_snapshot_bh

Spec == Init /\ [][Next]_vars

(* The main loop keeps running queued bottom halves and the operation in hand. *)
FairSpec == Spec /\ WF_vars(penguin_snapshot_bh)

-----------------------------------------------------------------------------
(* Properties. *)

(* The vCPUs never run while a snapshot is being saved or loaded, however     *)
(* operations nest and whichever of them fail: an inner operation never       *)
(* resumes the machine under an outer one.                                    *)
StoppedDuringSnapshot == ~Idle => runstate # "running"

(* Skipping the migration blockers never outlives Penguin's own saves: a save *)
(* by anybody else, from the main loop, still honours them.                   *)
BlockersHonouredOutside ==
  ignoreBlockers => \E i \in 1 .. Len(stack) : ~stack[i].load

(* Between snapshots the machine is never left in the state of a save, and in *)
(* that of a load only after some load has failed.                            *)
NoLeftoverState ==
  Idle => /\ runstate # "saveVm"
          /\ runstate = "restoreVm" =>
               \E r \in Request : request[r].load /\ request[r].progress = "failed"

(* A bottom half starts the machine only if it was running when the outermost *)
(* operation began: after a failed load no later snapshot, not even a load    *)
(* that works, gets the guest going again.                                    *)
ResumesOnlyWhatRan ==
  [][runstate # "running" /\ runstate' = "running" /\ penguin_snapshot_bh
       => Len(stack) = 1 /\ Top.saved = "running"]_vars

(* Every request runs to its end, exactly once: it is never dropped, and an   *)
(* ended request never runs again.                                            *)
EveryRequestEnds ==
  \A r \in Request : request[r].progress = "scheduled" ~>
                     [](request[r].progress \in {"ok", "failed"})

(* What a save stores is the machine as it was when the save began, unless a  *)
(* load nested in it changed the machine under it.                            *)
SavesOneState ==
  [][\A ok \in BOOLEAN : SaveEnds(ok) /\ ~Top.disturbed => vm = Top.captured]_vars
=============================================================================
