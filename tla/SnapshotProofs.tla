--------------------------- MODULE SnapshotProofs ---------------------------
(***************************************************************************)
(* Proofs about Snapshot for any number of requests and any depth of       *)
(* nesting.                                                                *)
(***************************************************************************)
EXTENDS Snapshot, TLAPS

(* While an operation is in progress the run state is the one the outermost   *)
(* operation put the machine in, and every inner one has saved just that.     *)
RunstateFrozen ==
  ~Idle =>
    /\ stack[1].saved # "saveVm"
    /\ runstate = IF stack[1].saved = "running"
                  THEN IF stack[1].load THEN "restoreVm" ELSE "saveVm"
                  ELSE stack[1].saved
    /\ \A i \in 2 .. Len(stack) : stack[i].saved = runstate

(* Each frame belongs to an active request of its own.                        *)
FramesActive ==
  /\ \A i \in 1 .. Len(stack) : /\ request[stack[i].id].progress = "active"
                                /\ request[stack[i].id].load = stack[i].load
  /\ \A i, j \in 1 .. Len(stack) : stack[i].id = stack[j].id => i = j

LoadHasFailed == \E r \in Request : request[r].load /\ request[r].progress = "failed"

(* The machine is in (or will go back to) the state of a load only after a    *)
(* load has failed.                                                           *)
LeftoverExplained ==
  /\ Idle => runstate # "saveVm" /\ (runstate = "restoreVm" => LoadHasFailed)
  /\ ~Idle => (stack[1].saved = "restoreVm" => LoadHasFailed)

(* The machine changes under an operation only by the loads nested in it.     *)
Undisturbed ==
  \A i \in 1 .. Len(stack) : stack[i].disturbed \/ stack[i].restored \/ vm = stack[i].captured

OnlyLoadsRestore == \A i \in 1 .. Len(stack) : stack[i].restored => stack[i].load

IInv ==
  /\ TypeOK
  /\ RunstateFrozen
  /\ FramesActive
  /\ LeftoverExplained
  /\ Undisturbed
  /\ OnlyLoadsRestore
  /\ BlockersHonouredOutside

-----------------------------------------------------------------------------
(* What the three ways of changing the stack do to it. *)

LEMMA FrameTypes ==
  ASSUME TypeOK, NEW i \in 1 .. Len(stack)
  PROVE  /\ stack[i] \in Frame
         /\ stack[i].id \in Request
         /\ Len(stack) \in Nat
<1>1. stack \in Seq(Frame)
  BY DEF TypeOK
<1>2. stack[i] \in Frame /\ Len(stack) \in Nat
  BY <1>1
<1> QED BY <1>2 DEF Frame

LEMMA EnterStack ==
  ASSUME TypeOK, NEW r \in Request, Enter(r)
  PROVE  /\ stack' \in Seq(Frame)
         /\ Len(stack) \in Nat
         /\ Len(stack') = Len(stack) + 1
         /\ \A i \in 1 .. Len(stack) : stack'[i] = stack[i]
         /\ LET f == stack'[Len(stack) + 1]
            IN  /\ f.id = r /\ f.load = request[r].load /\ f.saved = runstate
                /\ f.restored = FALSE /\ f.captured = vm
<1> DEFINE f == [id |-> r, load |-> request[r].load, saved |-> runstate,
                 restored |-> FALSE, captured |-> vm, disturbed |-> FALSE]
<1>1. stack \in Seq(Frame) /\ f \in Frame
  BY DEF TypeOK, Frame
<1>2. stack' = Append(stack, f)
  BY DEF Enter
<1> HIDE DEF f
<1>3. /\ stack' \in Seq(Frame) /\ Len(stack) \in Nat /\ Len(stack') = Len(stack) + 1
      /\ \A i \in 1 .. Len(stack) : stack'[i] = stack[i]
      /\ stack'[Len(stack) + 1] = f
  BY <1>1, <1>2
<1> QED BY <1>3 DEF f

LEMMA PopStack ==
  ASSUME TypeOK, ~Idle
  PROVE  /\ Pop \in Seq(Frame)
         /\ Len(Pop) = Len(stack) - 1
         /\ \A i \in 1 .. Len(stack) - 1 : Pop[i] = stack[i]
         /\ Len(stack) \in Nat \ {0}
         /\ Top \in Frame
<1>1. stack \in Seq(Frame) /\ stack # <<>>
  BY DEF TypeOK, Idle
<1>2. /\ Len(stack) \in Nat \ {0} /\ Top \in Frame
      /\ DOMAIN stack = 1 .. Len(stack)
      /\ \A i \in 1 .. Len(stack) : stack[i] \in Frame
  BY <1>1 DEF Top
<1>3. Pop \in Seq(Frame)
  BY <1>1, <1>2 DEF Pop
<1>4. Len(Pop) = Len(stack) - 1
  BY <1>1, <1>2 DEF Pop
<1>5. \A i \in 1 .. Len(stack) - 1 : Pop[i] = stack[i]
  BY <1>1, <1>2 DEF Pop
<1> QED BY <1>2, <1>3, <1>4, <1>5

LEMMA DisturbStack ==
  ASSUME NEW s \in Seq(Frame)
  PROVE  /\ Disturb(s) \in Seq(Frame)
         /\ Len(Disturb(s)) = Len(s)
         /\ \A i \in 1 .. Len(s) :
              /\ Disturb(s)[i].disturbed
              /\ Disturb(s)[i].id = s[i].id
              /\ Disturb(s)[i].load = s[i].load
              /\ Disturb(s)[i].saved = s[i].saved
              /\ Disturb(s)[i].restored = s[i].restored
              /\ Disturb(s)[i].captured = s[i].captured
<1>1. DOMAIN s = 1 .. Len(s) /\ Len(s) \in Nat /\ \A i \in 1 .. Len(s) : s[i] \in Frame
  OBVIOUS
<1>2. ASSUME NEW f \in Frame
      PROVE  LET g == [f EXCEPT !.disturbed = TRUE]
             IN  /\ g \in Frame
                 /\ g.disturbed /\ g.id = f.id /\ g.load = f.load /\ g.saved = f.saved
                 /\ g.restored = f.restored /\ g.captured = f.captured
  BY DEF Frame
<1>3. Disturb(s) = [i \in 1 .. Len(s) |-> [s[i] EXCEPT !.disturbed = TRUE]]
  BY <1>1 DEF Disturb
<1>4. \A i \in 1 .. Len(s) : Disturb(s)[i] = [s[i] EXCEPT !.disturbed = TRUE]
  BY <1>3
<1>5. Disturb(s) \in Seq(Frame)
  BY <1>1, <1>2, <1>3
<1>6. Len(Disturb(s)) = Len(s)
  BY <1>1, <1>3, <1>5
<1> QED BY <1>1, <1>2, <1>4, <1>5, <1>6

-----------------------------------------------------------------------------
(* The invariant is inductive. *)

LEMMA InitInv == Init => IInv
<1> SUFFICES ASSUME Init PROVE IInv
  OBVIOUS
<1>1. TypeOK
  <2>1. request \in [Request -> [progress : Progress, name : Name, load : BOOLEAN]]
    BY DEF Init, Progress
  <2>2. stack \in Seq(Frame)
    BY DEF Init
  <2>3. vm \in Machine /\ image \in [Name -> Machine \cup {None}]
    BY TicksAssumption DEF Init, Machine, Broken
  <2> QED BY <2>1, <2>2, <2>3 DEF Init, TypeOK, RunState
<1>2. Len(stack) = 0
  BY DEF Init
<1> QED
  BY <1>1, <1>2 DEF Init, IInv, Idle, RunstateFrozen, FramesActive, LeftoverExplained,
                    Undisturbed, OnlyLoadsRestore, BlockersHonouredOutside

(* Moving one request leaves the others where they were. *)
LEMMA MoveRequest ==
  ASSUME TypeOK, NEW r \in Request, NEW p \in Progress, Move(r, p)
  PROVE  /\ request' \in [Request -> [progress : Progress, name : Name, load : BOOLEAN]]
         /\ request'[r].progress = p
         /\ \A q \in Request : request'[q].load = request[q].load
         /\ \A q \in Request \ {r} : request'[q] = request[q]
BY DEF TypeOK, Move

(* A failure stays on record while only unfailed requests move. *)
LEMMA FailureStays ==
  ASSUME TypeOK, NEW r \in Request, NEW p \in Progress, Move(r, p), LoadHasFailed,
         request[r].progress # "failed"
  PROVE  LoadHasFailed'
BY MoveRequest DEF LoadHasFailed

(* Steps that leave the stack alone. *)
LEMMA OutsideInv ==
  ASSUME IInv, \/ GuestRuns \/ StopOrCont \/ UNCHANGED vars
               \/ \E r \in Request : penguin_schedule_snapshot(r) \/ SaveRefused(r)
  PROVE  IInv'
<1> USE DEF IInv, Idle
<1>1. CASE GuestRuns
  <2>1. runstate = "running" /\ stack = <<>> /\ Len(stack) = 0
    BY <1>1 DEF GuestRuns, RunstateFrozen, TypeOK, Frame
  <2>2. TypeOK'
    BY <1>1, TicksAssumption DEF GuestRuns, TypeOK, Machine, Broken
  <2> QED
    BY <1>1, <2>1, <2>2 DEF GuestRuns, RunstateFrozen, FramesActive, LeftoverExplained,
        LoadHasFailed, Undisturbed, OnlyLoadsRestore, BlockersHonouredOutside
<1>2. CASE StopOrCont
  <2>1. stack = <<>> /\ Len(stack) = 0
    BY <1>2 DEF StopOrCont
  <2>2. TypeOK' /\ runstate' \in {"paused", "running"}
    BY <1>2 DEF StopOrCont, TypeOK, RunState
  <2> QED
    BY <1>2, <2>1, <2>2 DEF StopOrCont, RunstateFrozen, FramesActive, LeftoverExplained,
        LoadHasFailed, Undisturbed, OnlyLoadsRestore, BlockersHonouredOutside
<1>3. CASE UNCHANGED vars
  BY <1>3 DEF vars, TypeOK, RunstateFrozen, FramesActive, LeftoverExplained, LoadHasFailed,
              Undisturbed, OnlyLoadsRestore, BlockersHonouredOutside
<1>4. ASSUME NEW r \in Request, penguin_schedule_snapshot(r) \/ SaveRefused(r)
      PROVE  IInv'
  <2>1. PICK p \in {"scheduled", "failed"} : Move(r, p)
    BY <1>4 DEF penguin_schedule_snapshot, SaveRefused
  <2>2. request[r].progress \in {"new", "scheduled"} /\ p \in Progress
    BY <1>4 DEF penguin_schedule_snapshot, SaveRefused, Dispatchable, Progress
  <2>3. /\ UNCHANGED <<stack, runstate, vm>>
        /\ ignoreBlockers' \in {ignoreBlockers, FALSE}
        /\ image' \in [Name -> Machine \cup {None}]
    BY <1>4 DEF penguin_schedule_snapshot, SaveRefused, TypeOK
  <2>4. TypeOK'
    BY <2>1, <2>2, <2>3, MoveRequest DEF TypeOK
  <2>5. FramesActive'
    <3>1. \A i \in 1 .. Len(stack) : stack[i].id \in Request
      BY FrameTypes
    <3> QED BY <2>1, <2>2, <2>3, <3>1, MoveRequest DEF FramesActive
  <2>6. LeftoverExplained'
    BY <2>1, <2>2, <2>3, FailureStays DEF LeftoverExplained
  <2>7. RunstateFrozen' /\ Undisturbed' /\ OnlyLoadsRestore'
    BY <2>3 DEF RunstateFrozen, Undisturbed, OnlyLoadsRestore
  <2>8. BlockersHonouredOutside'
    BY <2>3 DEF BlockersHonouredOutside
  <2> QED BY <2>4, <2>5, <2>6, <2>7, <2>8
<1> QED BY <1>1, <1>2, <1>3, <1>4

(* The run state found by an inner operation is never that of a running machine. *)
LEMMA Halted == IInv => StoppedDuringSnapshot
BY DEF IInv, RunstateFrozen, StoppedDuringSnapshot, TypeOK, RunState

(* An operation begins: it freezes the run state, or finds it frozen. *)
LEMMA BeginInv ==
  ASSUME IInv, NEW r \in Request, SaveBegins(r) \/ LoadBegins(r)
  PROVE  IInv'
<1> USE DEF IInv
<1> DEFINE n == Len(stack)
<1>1. /\ Move(r, "active") /\ Enter(r) /\ request[r].progress = "scheduled" /\ vm' = vm
      /\ runstate' = Stopped(IF request[r].load THEN "restoreVm" ELSE "saveVm")
      /\ "active" \in Progress
  BY DEF SaveBegins, LoadBegins, Dispatchable, Progress
<1>2. /\ n \in Nat /\ stack' \in Seq(Frame) /\ Len(stack') = n + 1
      /\ \A i \in 1 .. n : stack'[i] = stack[i]
  BY <1>1, EnterStack
<1>3. /\ stack'[n + 1].id = r /\ stack'[n + 1].load = request[r].load
      /\ stack'[n + 1].saved = runstate /\ stack'[n + 1].restored = FALSE
      /\ stack'[n + 1].captured = vm
  BY <1>1, EnterStack
<1>4. Idle <=> n = 0
  BY DEF Idle, TypeOK
<1>5. TypeOK'
  <2>1. runstate' \in RunState
    BY <1>1 DEF Stopped, TypeOK, RunState
  <2>2. ignoreBlockers' \in BOOLEAN /\ image' \in [Name -> Machine \cup {None}]
    BY DEF SaveBegins, LoadBegins, TypeOK
  <2> QED BY <1>1, <1>2, <2>1, <2>2, MoveRequest DEF TypeOK
<1>6. RunstateFrozen'
  <2>1. ~Idle'
    BY <1>2 DEF Idle
  <2>2. CASE Idle
    BY <1>1, <1>2, <1>3, <1>4, <2>2 DEF RunstateFrozen, LeftoverExplained, Stopped
  <2>3. CASE ~Idle
    <3>1. runstate # "running" /\ runstate' = runstate /\ n >= 1
      BY <1>1, <1>2, <1>4, <2>3, Halted DEF StoppedDuringSnapshot, Stopped
    <3> QED BY <1>2, <1>3, <2>3, <3>1 DEF RunstateFrozen
  <2> QED BY <2>2, <2>3
<1>7. FramesActive'
  <2>1. \A i \in 1 .. n : stack[i].id \in Request \ {r}
    BY <1>1, FrameTypes DEF FramesActive
  <2>2. /\ request'[r].progress = "active" /\ request'[r].load = request[r].load
        /\ \A q \in Request \ {r} : request'[q] = request[q]
    BY <1>1, MoveRequest
  <2>3. \A i \in 1 .. n : /\ request'[stack'[i].id].progress = "active"
                          /\ request'[stack'[i].id].load = stack'[i].load
    BY <1>2, <2>1, <2>2 DEF FramesActive
  <2>4. /\ request'[stack'[n + 1].id].progress = "active"
        /\ request'[stack'[n + 1].id].load = stack'[n + 1].load
    BY <1>3, <2>2
  <2>5. \A i, j \in 1 .. n + 1 : stack'[i].id = stack'[j].id => i = j
    BY <1>2, <1>3, <2>1 DEF FramesActive
  <2> QED BY <1>2, <2>3, <2>4, <2>5 DEF FramesActive
<1>8. LeftoverExplained'
  <2>1. LoadHasFailed => LoadHasFailed'
    BY <1>1, FailureStays
  <2>2. ~Idle'
    BY <1>2 DEF Idle
  <2>3. stack'[1].saved = "restoreVm" => LoadHasFailed
    BY <1>2, <1>3, <1>4 DEF LeftoverExplained
  <2> QED BY <2>1, <2>2, <2>3 DEF LeftoverExplained
<1>9. Undisturbed' /\ OnlyLoadsRestore'
  BY <1>1, <1>2, <1>3 DEF Undisturbed, OnlyLoadsRestore
<1>10. BlockersHonouredOutside'
  <2>1. CASE SaveBegins(r)
    BY <1>2, <1>3, <2>1 DEF SaveBegins, BlockersHonouredOutside
  <2>2. CASE LoadBegins(r)
    BY <1>2, <2>2 DEF LoadBegins, BlockersHonouredOutside
  <2> QED BY <2>1, <2>2
<1> QED BY <1>5, <1>6, <1>7, <1>8, <1>9, <1>10

(* An operation ends: the machine goes back to the state the outermost one    *)
(* found, or stays in the frozen one under an outer operation.                *)
LEMMA EndInv ==
  ASSUME IInv, (\E ok \in BOOLEAN : SaveEnds(ok)) \/ LoadFails \/ LoadEnds
  PROVE  IInv'
<1> USE DEF IInv
<1> DEFINE n == Len(stack)
<1>1. ~Idle
  BY DEF SaveEnds, LoadFails, LoadEnds
<1>2. PICK p \in {"ok", "failed"} : Move(Top.id, p)
  BY DEF SaveEnds, LoadFails, LoadEnds
<1>3. /\ n \in Nat \ {0} /\ Top = stack[n] /\ Top.id \in Request /\ p \in Progress
      /\ request[Top.id].progress = "active" /\ request[Top.id].load = Top.load
  BY <1>1, <1>2, PopStack, FrameTypes DEF FramesActive, Top, Progress
<1>4. /\ stack' \in Seq(Frame) /\ Len(stack') = n - 1
      /\ \A i \in 1 .. n - 1 :
           /\ stack'[i].id = stack[i].id /\ stack'[i].load = stack[i].load
           /\ stack'[i].saved = stack[i].saved /\ stack'[i].restored = stack[i].restored
           /\ stack'[i].captured = stack[i].captured
           /\ LoadFails => stack'[i].disturbed
           /\ ~LoadFails => stack'[i] = stack[i]
  BY <1>1, PopStack, DisturbStack DEF SaveEnds, LoadFails, LoadEnds
<1>5. TypeOK'
  <2>1. runstate' \in RunState
    BY <1>3, FrameTypes DEF SaveEnds, LoadFails, LoadEnds, TypeOK, Frame
  <2>2. Broken \in Machine
    BY TicksAssumption DEF Machine, Broken
  <2>3. ignoreBlockers' \in BOOLEAN /\ vm' \in Machine
    BY <2>2 DEF SaveEnds, LoadFails, LoadEnds, TypeOK
  <2>4. image' \in [Name -> Machine \cup {None}]
    BY DEF SaveEnds, LoadFails, LoadEnds, TypeOK
  <2> QED BY <1>2, <1>3, <1>4, <2>1, <2>3, <2>4, MoveRequest DEF TypeOK
<1>6. Idle' <=> n = 1
  BY <1>3, <1>4 DEF Idle
<1>7. RunstateFrozen'
  <2>1. ASSUME n > 1 PROVE runstate' = runstate
    BY <1>1, <1>3, <2>1 DEF SaveEnds, LoadFails, LoadEnds, RunstateFrozen
  <2> QED BY <1>1, <1>3, <1>4, <1>6, <2>1 DEF RunstateFrozen
<1>8. FramesActive'
  <2>1. \A i \in 1 .. n - 1 : stack[i].id \in Request \ {Top.id}
    BY <1>3, FrameTypes DEF FramesActive
  <2>2. \A q \in Request \ {Top.id} : request'[q] = request[q]
    BY <1>2, <1>3, MoveRequest
  <2>3. \A i \in 1 .. n - 1 : /\ request'[stack'[i].id].progress = "active"
                              /\ request'[stack'[i].id].load = stack'[i].load
    BY <1>3, <1>4, <2>1, <2>2 DEF FramesActive
  <2>4. \A i, j \in 1 .. n - 1 : stack'[i].id = stack'[j].id => i = j
    BY <1>3, <1>4 DEF FramesActive
  <2> QED BY <1>4, <2>3, <2>4 DEF FramesActive
<1>9. LeftoverExplained'
  <2>1. LoadHasFailed => LoadHasFailed'
    BY <1>2, <1>3, FailureStays
  <2>2. CASE n > 1
    BY <1>1, <1>3, <1>4, <1>6, <2>1, <2>2 DEF LeftoverExplained
  <2>3. CASE n = 1 /\ ~LoadFails
    <3>1. runstate' = stack[1].saved
      BY <1>3, <2>3 DEF SaveEnds, LoadEnds
    <3> QED BY <1>1, <1>6, <2>1, <2>3, <3>1 DEF LeftoverExplained, RunstateFrozen
  <2>4. CASE n = 1 /\ LoadFails
    <3>1. LoadHasFailed'
      <4>1. Move(Top.id, "failed") /\ request[Top.id].load /\ "failed" \in Progress
        BY <1>3, <2>4 DEF LoadFails, Progress
      <4>2. request'[Top.id].load /\ request'[Top.id].progress = "failed"
        BY <1>3, <4>1, MoveRequest
      <4> QED BY <1>3, <4>2 DEF LoadHasFailed
    <3>2. runstate' # "saveVm"
      BY <1>1, <1>3, <2>4 DEF LoadFails, RunstateFrozen
    <3> QED BY <1>6, <2>4, <3>1, <3>2 DEF LeftoverExplained
  <2>5. n = 1 \/ n > 1
    BY <1>3
  <2> QED BY <2>2, <2>3, <2>4, <2>5
<1>10. Undisturbed' /\ OnlyLoadsRestore'
  BY <1>3, <1>4 DEF SaveEnds, LoadEnds, LoadFails, Undisturbed, OnlyLoadsRestore
<1>11. BlockersHonouredOutside'
  <2>1. CASE \E ok \in BOOLEAN : SaveEnds(ok)
    BY <2>1 DEF SaveEnds, BlockersHonouredOutside
  <2>2. CASE LoadFails \/ LoadEnds
    <3>1. ignoreBlockers' = ignoreBlockers /\ stack[n].load
      BY <1>3, <2>2 DEF LoadFails, LoadEnds
    <3>2. ASSUME ignoreBlockers
          PROVE  \E i \in 1 .. n - 1 : ~stack[i].load
      BY <1>3, <3>1, <3>2 DEF BlockersHonouredOutside
    <3> QED BY <1>4, <3>1, <3>2 DEF BlockersHonouredOutside
  <2> QED BY <2>1, <2>2
<1> QED BY <1>5, <1>7, <1>8, <1>9, <1>10, <1>11

(* A load brings back the stored machine under every operation around it. *)
LEMMA RestoreInv ==
  ASSUME IInv, LoadRestores
  PROVE  IInv'
<1> USE DEF IInv
<1> DEFINE n == Len(stack)
           f == [Top EXCEPT !.restored = TRUE]
<1>1. ~Idle /\ Top.load /\ UNCHANGED <<request, runstate, ignoreBlockers, image>>
  BY DEF LoadRestores
<1>2. /\ n \in Nat \ {0} /\ Top = stack[n] /\ Top \in Frame
      /\ Disturb(Pop) \in Seq(Frame) /\ Len(Disturb(Pop)) = n - 1
  BY <1>1, PopStack, DisturbStack DEF Top
<1>3. /\ f \in Frame /\ f.id = Top.id /\ f.load = Top.load /\ f.saved = Top.saved
      /\ f.restored = TRUE
  BY <1>2 DEF Frame
<1>4. stack' = Append(Disturb(Pop), f)
  BY DEF LoadRestores
<1> HIDE DEF f
<1>5. /\ stack' \in Seq(Frame) /\ Len(stack') = n /\ stack'[n] = f
      /\ \A i \in 1 .. n - 1 : stack'[i] = Disturb(Pop)[i]
  BY <1>2, <1>3, <1>4
<1>6. /\ \A i \in 1 .. n - 1 :
           /\ stack'[i].id = stack[i].id /\ stack'[i].load = stack[i].load
           /\ stack'[i].saved = stack[i].saved /\ stack'[i].restored = stack[i].restored
           /\ stack'[i].disturbed
  BY <1>1, <1>5, PopStack, DisturbStack
<1>7. \A i \in 1 .. n : /\ stack'[i].id = stack[i].id /\ stack'[i].load = stack[i].load
                        /\ stack'[i].saved = stack[i].saved
  BY <1>2, <1>3, <1>5, <1>6
<1>8. TypeOK'
  <2>1. Top.id \in Request
    BY <1>2 DEF Frame
  <2>2. vm' \in Machine
    BY <2>1, NoneAssumption DEF LoadRestores, TypeOK
  <2> QED BY <1>1, <1>5, <2>2 DEF TypeOK
<1>9. RunstateFrozen' /\ LeftoverExplained'
  <2>1. ~Idle'
    BY <1>2, <1>5 DEF Idle
  <2> QED BY <1>1, <1>2, <1>5, <1>7, <2>1 DEF RunstateFrozen, LeftoverExplained, LoadHasFailed
<1>10. FramesActive' /\ BlockersHonouredOutside'
  BY <1>1, <1>5, <1>7 DEF FramesActive, BlockersHonouredOutside
<1>11. OnlyLoadsRestore' /\ Undisturbed'
  <2>1. stack'[n].restored /\ stack'[n].load
    BY <1>1, <1>3, <1>5
  <2>2. n \in Nat
    BY <1>2
  <2>3. \A i \in 1 .. n : i \in 1 .. n - 1 \/ i = n
    BY <2>2
  <2>4. OnlyLoadsRestore'
    BY <1>5, <1>6, <2>1, <2>3 DEF OnlyLoadsRestore
  <2>5. Undisturbed'
    BY <1>5, <1>6, <2>1, <2>3 DEF Undisturbed
  <2> QED BY <2>4, <2>5
<1> QED BY <1>8, <1>9, <1>10, <1>11

LEMMA StepInv == IInv /\ [Next]_vars => IInv'
BY OutsideInv, BeginInv, EndInv, RestoreInv DEF Next, penguin_snapshot_bh

(* IInv holds in every reachable state. *)
THEOREM Invariance == Spec => []IInv
BY InitInv, StepInv, PTL DEF Spec

(* Every variable, and every frame of the stack, keeps its type. *)
THEOREM TypeCorrect == Spec => []TypeOK
<1>1. IInv => TypeOK
  BY DEF IInv
<1> QED BY <1>1, Invariance, PTL

(* The vCPUs are stopped for as long as any snapshot operation is in progress. *)
THEOREM VmStaysStopped == Spec => []StoppedDuringSnapshot
BY Halted, Invariance, PTL

(* The migration blockers are ignored only while one of Penguin's own saves   *)
(* is in progress.                                                            *)
THEOREM BlockersScoped == Spec => []BlockersHonouredOutside
<1>1. IInv => BlockersHonouredOutside
  BY DEF IInv
<1> QED BY <1>1, Invariance, PTL

(* Between operations the run state is never a leftover of a save, and one of *)
(* a load only after a load has failed.                                       *)
THEOREM RunstatePutBack == Spec => []NoLeftoverState
<1>1. IInv => NoLeftoverState
  BY DEF IInv, LeftoverExplained, LoadHasFailed, NoLeftoverState
<1> QED BY <1>1, Invariance, PTL

(* Snapshots start the machine only if it was running before the outermost    *)
(* of them began.                                                             *)
THEOREM NeverStartsAStoppedVm == Spec => ResumesOnlyWhatRan
<1>1. ASSUME IInv, runstate # "running", runstate' = "running", penguin_snapshot_bh
      PROVE  Len(stack) = 1 /\ Top.saved = "running"
  <2>1. (\E ok \in BOOLEAN : SaveEnds(ok)) \/ LoadEnds
    BY <1>1 DEF penguin_snapshot_bh, SaveRefused, SaveBegins, LoadBegins, LoadRestores,
                LoadFails, Stopped
  <2>2. ~Idle /\ Top.saved = "running"
    BY <1>1, <2>1 DEF SaveEnds, LoadEnds
  <2>3. Len(stack) \in Nat \ {0} /\ Top = stack[Len(stack)]
    BY <1>1, <2>2, PopStack DEF IInv, Top
  <2>4. \A i \in 2 .. Len(stack) : stack[i].saved # "running"
    BY <1>1, <2>2 DEF IInv, RunstateFrozen
  <2>5. Len(stack) \in Nat /\ Len(stack) # 0
    BY <2>3
  <2>6. Len(stack) = 1
    <3>1. CASE Len(stack) >= 2
      BY <2>2, <2>3, <2>4, <2>5, <3>1
    <3>2. \A n \in Nat : n # 0 /\ n # 1 => n >= 2
      OBVIOUS
    <3> QED BY <2>5, <3>1, <3>2
  <2> QED BY <2>2, <2>6
<1>2. IInv /\ [Next]_vars =>
        [runstate # "running" /\ runstate' = "running" /\ penguin_snapshot_bh
           => Len(stack) = 1 /\ Top.saved = "running"]_vars
  BY <1>1
<1> QED BY <1>2, Invariance, PTL DEF Spec, ResumesOnlyWhatRan

(* What a save stores is the machine it found, unless a nested load changed it. *)
THEOREM SavesWhatItFound == Spec => SavesOneState
<1>1. IInv => \A ok \in BOOLEAN : SaveEnds(ok) /\ ~Top.disturbed => vm = Top.captured
  <2> SUFFICES ASSUME IInv, NEW ok \in BOOLEAN, SaveEnds(ok), ~Top.disturbed
               PROVE  vm = Top.captured
    OBVIOUS
  <2>1. ~Idle /\ ~Top.load
    BY DEF SaveEnds
  <2>2. Top = stack[Len(stack)] /\ Len(stack) \in 1 .. Len(stack)
    BY <2>1, PopStack DEF IInv, Top
  <2> QED BY <2>1, <2>2 DEF IInv, Undisturbed, OnlyLoadsRestore
<1>2. IInv /\ [Next]_vars =>
        [\A ok \in BOOLEAN : SaveEnds(ok) /\ ~Top.disturbed => vm = Top.captured]_vars
  BY <1>1
<1> QED BY <1>2, Invariance, PTL DEF Spec, SavesOneState
=============================================================================
