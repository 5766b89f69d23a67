------------------------ MODULE GuestHypercallProofs ------------------------
(***************************************************************************)
(* Proofs about GuestHypercall for any number of vCPUs, numbers and        *)
(* callbacks, with changes of all of them at any time.                     *)
(***************************************************************************)
EXTENDS GuestHypercall, TLAPS

(* A pointer that was tested is still there when it is read again, or it was *)
(* cleared in between.                                                       *)
Tested(v) ==
  /\ pc[v] \in GuestTested => guestCb # NULL \/ "cleared" \in seen[v]
  /\ pc[v] = "loadOpaque" => called[v].cb # NULL \/ "cleared" \in seen[v]
  /\ pc[v] = "callKvm" => kvmCb \/ "cleared" \in seen[v]
  /\ pc[v] \in Crashed => "cleared" \in seen[v]
  /\ pc[v] = "inGuest" => called[v].cb # NULL

(* Installs that do not overlap leave a pair that matches; a dispatch that    *)
(* met no install has loaded one half of it.                                  *)
Quiet == Installers = {} /\ ~clashed

PairInv ==
  ~clashed => /\ Installers = {} => guestOpaque = guestCb
              /\ \A t \in Installers : installing[t] = guestCb /\ Installers = {t}

Loaded(v) ==
  /\ pc[v] \in HalfLoaded /\ "overlap" \notin seen[v] => Quiet
  /\ pc[v] = "loadOpaque" /\ "overlap" \notin seen[v] => called[v].cb = guestCb
  /\ pc[v] = "loadCallback" /\ "overlap" \notin seen[v] => called[v].opaque = guestOpaque
  /\ pc[v] = "inGuest" /\ "overlap" \notin seen[v] => called[v].opaque = called[v].cb

(* The ghosts know every answer the table could have given so far.            *)
Met(v) ==
  pc[v] \in Before => /\ nr[v] \in registered => "in" \in seen[v]
                      /\ nr[v] \notin registered \/ guestCb = NULL => "out" \in seen[v]

Routed(v) ==
  /\ pc[v] \in {"callGuest", "loadCallback", "loadOpaque", "inGuest"} =>
       {"in", "raced"} \cap seen[v] # {}
  /\ pc[v] \in {"testKvm", "callKvm", "inKvm"} => {"out", "raced"} \cap seen[v] # {}

(* While nothing has changed, the place in the dispatch follows from the      *)
(* table and the callback as they are.                                        *)
Contention(v) ==
  /\ pc[v] \notin Undecided => "contended" \notin seen[v]
  /\ pc[v] \in Undecided /\ "contended" \notin seen[v] =>
       /\ mutation = NoMutation
       /\ pc[v] = "lookup" => guestCb # NULL
       /\ pc[v] = "testKvm" => guestCb = NULL \/ nr[v] \notin registered

VcpuInv(v) == Tested(v) /\ Loaded(v) /\ Met(v) /\ Routed(v) /\ Contention(v)

IInv == TypeOK /\ PairInv /\ \A v \in VCPU : VcpuInv(v)

-----------------------------------------------------------------------------
(* The initial state satisfies the invariant. *)
LEMMA InitInv == Init => IInv
<1> SUFFICES ASSUME Init PROVE IInv
  OBVIOUS
<1> USE DEF Init, Steps, Outside, Before, Undecided, GuestTested, HalfLoaded, InCallback, Crashed
<1>1. /\ mutation \in [by : Thread \cup {NULL}, to : SUBSET Nr]
      /\ called \in [VCPU -> [cb : Pointer, opaque : Pointer]]
      /\ installing \in [Thread -> Pointer \cup {Idle}]
  BY DEF NoMutation, NoPair, Pointer
<1>2. seen \in [VCPU -> SUBSET Event]
  OBVIOUS
<1>3. TypeOK
  BY <1>1, <1>2 DEF TypeOK, Pointer
<1>4. PairInv
  BY DEF PairInv, Installers
<1>5. ASSUME NEW v \in VCPU PROVE VcpuInv(v)
  BY DEF VcpuInv, Tested, Loaded, Met, Routed, Contention
<1> QED
  BY <1>3, <1>4, <1>5 DEF IInv

(* Every step keeps every variable in its type. *)
LEMMA TypeInv == TypeOK /\ [Next]_vars => TypeOK'
<1> SUFFICES ASSUME TypeOK, [Next]_vars PROVE TypeOK'
  OBVIOUS
<1> USE DEF TypeOK, config, Steps, Outside, Undecided, Before, GuestTested, HalfLoaded,
            InCallback, Crashed, Pointer, Event
<1>1. ASSUME NEW v \in VCPU, Dispatch(v) PROVE TypeOK'
  <2>1. ASSUME NEW from, NEW ok \in BOOLEAN, Return(v, from, ok) PROVE TypeOK'
    BY <2>1 DEF Return, Goto, NoPair
  <2>2. ASSUME NEW n \in Nr, Enter(v, n) PROVE TypeOK'
    BY <2>2 DEF Enter, Answers
  <2>3. CASE TestGuest(v)
    BY <2>3 DEF TestGuest, Goto
  <2>4. CASE Lookup(v)
    BY <2>4 DEF Lookup, NoteLookup, Goto, penguin_guest_hypercall_registered
  <2>5. CASE LoadCallback(v)
    BY <2>5 DEF LoadCallback, NoteOverlap, Goto
  <2>6. CASE LoadOpaque(v)
    <3>1. called' \in [VCPU -> [cb : Pointer, opaque : Pointer]]
      BY <2>6 DEF LoadOpaque
    <3>2. seen' \in [VCPU -> SUBSET Event]
      BY <2>6 DEF LoadOpaque, NoteOverlap
    <3>3. pc' \in [VCPU -> Steps]
      BY <2>6 DEF LoadOpaque, Goto
    <3> QED
      BY <2>6, <3>1, <3>2, <3>3 DEF LoadOpaque
  <2>7. CASE TestKvm(v)
    <3>1. CASE Return(v, "testKvm", FALSE)
      BY <2>1, <3>1
    <3>2. CASE /\ Goto(v, "testKvm", "callKvm")
               /\ seen' = [seen EXCEPT ![v] = @ \ {"contended"}]
               /\ UNCHANGED <<config, registered, mutation, nr, called>>
      BY <3>2 DEF Goto
    <3> QED
      BY <2>7, <3>1, <3>2 DEF TestKvm
  <2>8. CASE CallKvm(v)
    <3>1. pc' \in [VCPU -> Steps]
      BY <2>8 DEF CallKvm, Goto
    <3> QED
      BY <2>8, <3>1 DEF CallKvm
  <2> QED
    BY <1>1, <2>1, <2>2, <2>3, <2>4, <2>5, <2>6, <2>7, <2>8
       DEF Dispatch, GuestReturns, KvmReturns
<1>2. ASSUME NEW t \in Thread, Embed(t) PROVE TypeOK'
  <2>1. ASSUME NEW table \in SUBSET Nr, Mutate(t, table) PROVE TypeOK'
    BY <2>1 DEF Mutate, Noted
  <2>2. ASSUME NEW cb \in Pointer, SetGuestCallback(t, cb) PROVE TypeOK'
    <3>1. seen' \in [VCPU -> SUBSET Event]
      BY <2>2 DEF SetGuestCallback, Noted, Answers
    <3> QED
      BY <2>2, <3>1 DEF SetGuestCallback
  <2>3. CASE SetGuestOpaque(t)
    BY <2>3 DEF SetGuestOpaque
  <2>4. ASSUME NEW up \in BOOLEAN, set_kvm_penguin_hypercall_callback(t, up) PROVE TypeOK'
    BY <2>4 DEF set_kvm_penguin_hypercall_callback, Noted
  <2> QED
    BY <1>2, <2>1, <2>2, <2>3, <2>4
       DEF Embed, penguin_register_guest_hypercall, penguin_unregister_guest_hypercall,
           penguin_clear_guest_hypercalls
<1>3. CASE MutationReturns
  BY <1>3 DEF MutationReturns, NoMutation, Answers
<1>4. CASE UNCHANGED vars
  BY <1>4 DEF vars
<1> QED
  BY <1>1, <1>2, <1>3, <1>4 DEF Next

(* A dispatch changes only what belongs to its vCPU.                         *)
Untouched(w) == /\ pc'[w] = pc[w] /\ nr'[w] = nr[w]
                /\ called'[w] = called[w] /\ seen'[w] = seen[w]

LEMMA DispatchIsLocal ==
  ASSUME TypeOK, NEW v \in VCPU, Dispatch(v)
  PROVE  /\ UNCHANGED <<config, registered, mutation>>
         /\ \A w \in VCPU \ {v} : Untouched(w)
<1> USE DEF TypeOK, Goto, Untouched
<1> DEFINE Local == /\ UNCHANGED <<config, registered, mutation>>
                    /\ \A w \in VCPU \ {v} : Untouched(w)
<1>1. ASSUME NEW from, NEW ok \in BOOLEAN, Return(v, from, ok) PROVE Local
  BY <1>1 DEF Return
<1>2. ASSUME NEW n \in Nr, Enter(v, n) PROVE Local
  BY <1>2 DEF Enter
<1>3. CASE TestGuest(v)
  BY <1>3 DEF TestGuest
<1>4. CASE Lookup(v)
  BY <1>4 DEF Lookup, NoteLookup
<1>5. CASE LoadCallback(v) \/ LoadOpaque(v)
  BY <1>5 DEF LoadCallback, LoadOpaque, NoteOverlap
<1>6. CASE TestKvm(v)
  BY <1>1, <1>6 DEF TestKvm
<1>7. CASE CallKvm(v)
  BY <1>7 DEF CallKvm
<1> QED
  BY <1>1, <1>2, <1>3, <1>4, <1>5, <1>6, <1>7 DEF Dispatch, GuestReturns, KvmReturns

(* A step of a dispatch preserves the invariant.                              *)
LEMMA DispatchInv ==
  ASSUME IInv, TypeOK', NEW v \in VCPU, Dispatch(v)
  PROVE  IInv'
<1>1. /\ UNCHANGED <<config, registered, mutation>>
      /\ \A w \in VCPU \ {v} : Untouched(w)
  BY DispatchIsLocal DEF IInv
<1>2. PairInv'
  BY <1>1 DEF IInv, PairInv, Installers, config
<1>3. ASSUME NEW w \in VCPU, w # v PROVE VcpuInv(w)'
  BY <1>1, <1>3 DEF IInv, VcpuInv, Tested, Loaded, Met, Routed, Contention, Quiet, Installers,
                    config, Untouched
<1>4. VcpuInv(v)'
  <2> USE DEF IInv, TypeOK, config, VcpuInv, Goto
  <2>1. ASSUME NEW from, NEW ok \in BOOLEAN, Return(v, from, ok) PROVE VcpuInv(v)'
    BY <2>1 DEF Return, Tested, Loaded, Met, Routed, Contention, Outside, Undecided, Before,
                GuestTested, HalfLoaded, Crashed
  <2>2. ASSUME NEW n \in Nr, Enter(v, n) PROVE VcpuInv(v)'
    BY <2>2 DEF Enter, Answers, Tested, Loaded, Met, Routed, Contention, Outside, Undecided,
                Before, GuestTested, HalfLoaded, Crashed
  <2>3. CASE TestGuest(v)
    BY <2>3 DEF TestGuest, Tested, Loaded, Met, Routed, Contention, Undecided,
                Before, GuestTested, HalfLoaded, Crashed
  <2>4. CASE Lookup(v)
    <3>1. PICK found \in BOOLEAN :
            /\ mutation = NoMutation => (found <=> nr[v] \in registered)
            /\ pc'[v] = IF found THEN "callGuest" ELSE "testKvm"
            /\ seen'[v] = (seen[v] \ {IF found THEN "contended" ELSE "cleared"})
                  \cup (IF mutation # NoMutation THEN {"raced"} ELSE {})
      BY <2>4 DEF Lookup, NoteLookup, penguin_guest_hypercall_registered
    <3>2. /\ pc[v] = "lookup" /\ VcpuInv(v)
          /\ UNCHANGED <<guestCb, registered, mutation, nr>>
      BY <2>4 DEF Lookup
    <3>3. Tested(v)' /\ Loaded(v)' /\ Met(v)'
      BY <3>1, <3>2 DEF Tested, Loaded, Met, GuestTested, HalfLoaded, Before, Crashed
    <3>4. Routed(v)'
      BY <3>1, <3>2 DEF Routed, Met, Before
    <3>5. Contention(v)'
      BY <3>1, <3>2 DEF Contention, Undecided, Before
    <3> QED
      BY <3>3, <3>4, <3>5
  <2>5. CASE LoadCallback(v)
    BY <1>2, <2>5 DEF LoadCallback, NoteOverlap, Tested, Loaded, Met, Routed, Contention, Undecided,
                Before, GuestTested, HalfLoaded, Crashed, Quiet, Installers, PairInv
  <2>6. CASE LoadOpaque(v)
    BY <1>2, <2>6 DEF LoadOpaque, NoteOverlap, Tested, Loaded, Met, Routed, Contention, Undecided,
                Before, GuestTested, HalfLoaded, Crashed, Quiet, Installers, PairInv
  <2>7. CASE TestKvm(v)
    <3>1. CASE Return(v, "testKvm", FALSE)
      BY <2>1, <3>1
    <3>2. CASE kvmCb /\ Goto(v, "testKvm", "callKvm")
      <4>1. /\ pc[v] = "testKvm" /\ pc'[v] = "callKvm" /\ kvmCb'
            /\ seen'[v] = seen[v] \ {"contended"}
        BY <1>1, <2>7, <3>2 DEF TestKvm, Return
      <4>2. Tested(v)' /\ Loaded(v)' /\ Met(v)' /\ Contention(v)'
        BY <4>1 DEF Tested, Loaded, Met, Contention, Undecided, Before, GuestTested,
                    HalfLoaded, Crashed
      <4>3. Routed(v)'
        BY <4>1 DEF Routed
      <4> QED
        BY <4>2, <4>3
    <3> QED
      BY <2>7, <3>1, <3>2 DEF TestKvm
  <2>8. CASE CallKvm(v)
    <3>1. PICK up \in {TRUE, kvmCb} : Goto(v, "callKvm", IF up THEN "inKvm" ELSE "nullKvm")
      BY <2>8, Zenon DEF CallKvm
    <3>2. ~up => ~kvmCb
      BY Zenon
    <3>3. /\ pc[v] = "callKvm" /\ seen' = seen
          /\ UNCHANGED <<guestCb, kvmCb>>
      BY <2>8, <3>1 DEF CallKvm
    <3>4. pc'[v] = "inKvm" \/ (pc'[v] = "nullKvm" /\ ~kvmCb)
      BY <3>1, <3>2
    <3> QED
      BY <3>3, <3>4 DEF Tested, Loaded, Met, Routed, Contention, Undecided, Before, GuestTested,
                  HalfLoaded, Crashed
  <2> QED
    BY <2>1, <2>2, <2>3, <2>4, <2>5, <2>6, <2>7, <2>8 DEF Dispatch, GuestReturns, KvmReturns
<1> QED
  BY <1>2, <1>3, <1>4 DEF IInv

(* What the embedder does to the table and the callbacks, from its own thread *)
(* or from inside a callback, preserves the invariant of every vCPU.          *)
LEMMA EmbedInv ==
  ASSUME IInv, TypeOK', NEW t \in Thread, Embed(t)
  PROVE  IInv'
<1> USE DEF IInv, TypeOK, config
<1>1. ASSUME NEW table \in SUBSET Nr, Mutate(t, table) PROVE IInv'
  <2>1. PairInv'
    BY <1>1 DEF Mutate, PairInv, Installers
  <2>2. ASSUME NEW v \in VCPU PROVE VcpuInv(v)'
    BY <1>1, <2>2 DEF Mutate, Noted, VcpuInv, Tested, Loaded, Met, Routed, Contention,
                      Quiet, Installers
  <2> QED
    BY <2>1, <2>2
<1>2. ASSUME NEW cb \in Pointer, SetGuestCallback(t, cb) PROVE IInv'
  <2>1. PairInv'
    BY <1>2, NullAssumption DEF SetGuestCallback, InEmbedderCode, PairInv, Installers, Pointer
  <2>2. ASSUME NEW v \in VCPU PROVE VcpuInv(v)'
    <3>1. /\ seen'[v] = seen[v] \cup Noted("contended", Undecided)[v]
               \cup Noted("overlap", HalfLoaded)[v]
               \cup (IF cb = NULL THEN Noted("cleared", GuestTested)[v] ELSE {})
               \cup (IF pc[v] \in Before THEN Answers(nr[v], registered, cb) ELSE {})
          /\ guestCb' = cb
          /\ UNCHANGED <<guestOpaque, kvmCb, registered, mutation, pc, nr, called>>
      BY <1>2 DEF SetGuestCallback
    <3>2. VcpuInv(v)
      OBVIOUS
    <3>3. Tested(v)'
      BY <3>1, <3>2 DEF VcpuInv, Tested, Noted, GuestTested
    <3>4. Loaded(v)'
      BY <3>1, <3>2 DEF VcpuInv, Loaded, Noted, HalfLoaded
    <3>5. Met(v)'
      BY <3>1, <3>2 DEF VcpuInv, Met, Answers
    <3>6. Routed(v)'
      BY <3>1, <3>2 DEF VcpuInv, Routed
    <3>7. Contention(v)'
      BY <3>1, <3>2 DEF VcpuInv, Contention, Noted, Answers, Undecided, Before
    <3> QED
      BY <3>3, <3>4, <3>5, <3>6, <3>7 DEF VcpuInv
  <2> QED
    BY <2>1, <2>2
<1>3. CASE SetGuestOpaque(t)
  <2>1. PairInv'
    BY <1>3 DEF SetGuestOpaque, PairInv, Installers
  <2>2. ASSUME NEW v \in VCPU PROVE VcpuInv(v)'
    <3>1. t \in Installers
      BY <1>3 DEF SetGuestOpaque, Installers
    <3> QED
      BY <1>3, <3>1 DEF SetGuestOpaque, VcpuInv, Tested, Loaded, Met, Routed, Contention,
                        Quiet, HalfLoaded
  <2> QED
    BY <2>1, <2>2
<1>4. ASSUME NEW up \in BOOLEAN, set_kvm_penguin_hypercall_callback(t, up) PROVE IInv'
  <2>1. PairInv'
    BY <1>4 DEF set_kvm_penguin_hypercall_callback, PairInv, Installers
  <2>2. ASSUME NEW v \in VCPU PROVE VcpuInv(v)'
    BY <1>4, <2>2 DEF set_kvm_penguin_hypercall_callback, Noted, VcpuInv, Tested, Loaded, Met,
                      Routed, Contention, Quiet, Installers, Undecided, Before
  <2> QED
    BY <2>1, <2>2
<1> QED
  BY <1>1, <1>2, <1>3, <1>4
     DEF Embed, penguin_register_guest_hypercall, penguin_unregister_guest_hypercall,
         penguin_clear_guest_hypercalls

(* So does the end of a change of the table.                                  *)
LEMMA MutationReturnsInv ==
  ASSUME IInv, TypeOK', MutationReturns
  PROVE  IInv'
<1> USE DEF IInv, TypeOK, config
<1>1. PairInv'
  BY DEF MutationReturns, PairInv, Installers
<1>2. ASSUME NEW v \in VCPU PROVE VcpuInv(v)'
  BY <1>2 DEF MutationReturns, Answers, VcpuInv, Tested, Loaded, Met, Routed, Contention,
              Quiet, Installers, Undecided, Before
<1> QED
  BY <1>1, <1>2

(* The invariant is inductive. *)
LEMMA StepInv == IInv /\ [Next]_vars => IInv'
<1> SUFFICES ASSUME IInv, [Next]_vars PROVE IInv'
  OBVIOUS
<1>1. TypeOK'
  BY TypeInv DEF IInv
<1>2. CASE UNCHANGED vars
  <2>1. PairInv'
    BY <1>2 DEF IInv, PairInv, Installers, vars, config
  <2>2. ASSUME NEW v \in VCPU PROVE VcpuInv(v)'
    BY <1>2 DEF IInv, VcpuInv, Tested, Loaded, Met, Routed, Contention, Quiet, Installers,
                vars, config
  <2> QED
    BY <1>1, <2>1, <2>2 DEF IInv
<1> QED
  BY <1>1, <1>2, DispatchInv, EmbedInv, MutationReturnsInv DEF Next

(* IInv holds in every reachable state. *)
THEOREM Invariance == Spec => []IInv
BY InitInv, StepInv, PTL DEF Spec

(* Every variable of the dispatch keeps its type. *)
THEOREM TypeCorrect == Spec => []TypeOK
<1>1. IInv => TypeOK
  BY DEF IInv
<1> QED BY <1>1, Invariance, PTL

(* penguin_handle_guest_hypercall calls through NULL only if the callback was *)
(* cleared between its test and its call, whatever the setters and the table  *)
(* do otherwise, on any thread.                                               *)
THEOREM CallsNullOnlyIfCleared == Spec => []NoNullCall
<1>1. IInv => NoNullCall
  BY DEF IInv, VcpuInv, Tested, NoNullCall
<1> QED
  BY <1>1, Invariance, PTL

(* A guest callback is called with the opaque it was set with, unless an      *)
(* install met the two loads or the installs met each other.                  *)
THEOREM PairsMatch == Spec => []PairIntact
<1>1. IInv => PairIntact
  BY DEF IInv, VcpuInv, Loaded, PairIntact
<1> QED
  BY <1>1, Invariance, PTL

(* A dispatch goes where the table sent it at some moment, whatever is        *)
(* registered and installed while it runs.                                    *)
THEOREM RoutesMatch == Spec => []RoutedByTable
<1>1. IInv => RoutedByTable
  BY DEF IInv, VcpuInv, Routed, RoutedByTable
<1> QED
  BY <1>1, Invariance, PTL

-----------------------------------------------------------------------------
(* Refinement: every step of the detailed dispatch is a step of the atomic    *)
(* service or leaves its state alone.                                         *)

LEMMA InitRefines == Init => Service!Init
<1> SUFFICES ASSUME Init PROVE Service!Init
  OBVIOUS
<1>1. [v \in VCPU |-> RouteOf(v)] = [v \in VCPU |-> "unhandled"]
  BY DEF Init, RouteOf, Outside, Undecided, Before
<1>2. {v \in VCPU : "contended" \in seen[v]} = {}
  BY DEF Init
<1> QED
  BY <1>1, <1>2 DEF Init, Service!Init

(* The steps of a vCPU: the lookup that finds the number, or the test of      *)
(* KVM's callback, is the decision.                                           *)
LEMMA DispatchRefines ==
  ASSUME IInv, NEW v \in VCPU, Dispatch(v)
  PROVE  [Service!Next]_(Service!vars)
<1> DEFINE R == [w \in VCPU |-> RouteOf(w)]
           C == {w \in VCPU : "contended" \in seen[w]}
<1>0. /\ UNCHANGED <<config, registered, mutation>>
      /\ \A w \in VCPU \ {v} : Untouched(w)
  BY DispatchIsLocal DEF IInv
<1>a. /\ R' = [R EXCEPT ![v] = RouteOf(v)']
      /\ C' = (C \ {v}) \cup (IF "contended" \in seen'[v] THEN {v} ELSE {})
  <2>1. \A w \in VCPU \ {v} : RouteOf(w)' = RouteOf(w)
    BY <1>0 DEF RouteOf, Untouched
  <2>2. R' = [R EXCEPT ![v] = RouteOf(v)']
    BY <2>1
  <2> QED
    BY <1>0, <2>2 DEF Untouched
<1>b. /\ UNCHANGED <<registered, mutation # NoMutation, guestCb # NULL, kvmCb>>
  BY <1>0 DEF config
<1>c. ASSUME nr' = nr, RouteOf(v)' = RouteOf(v),
             "contended" \in seen'[v] <=> "contended" \in seen[v]
      PROVE  UNCHANGED Service!vars
  BY <1>a, <1>b, <1>c DEF Service!vars
<1>d. ASSUME nr' = nr, NEW r \in Service!Routes, RouteOf(v) = "pending", RouteOf(v)' = r,
             r = Service!Chosen(nr[v]) \/ "contended" \in seen[v],
             "contended" \notin seen'[v]
      PROVE  Service!Next
  <2>1. Service!Decide(v, r)
    BY <1>a, <1>b, <1>d DEF Service!Decide
  <2> QED
    BY <2>1 DEF Service!Next
<1>e. ASSUME NEW from \in InCallback, NEW ok \in BOOLEAN, Return(v, from, ok)
      PROVE  Service!Next
  <2>1. /\ nr' = nr /\ RouteOf(v) \in {"guest", "kvm"}
        /\ RouteOf(v)' = IF ok THEN "handled" ELSE "unhandled"
        /\ "contended" \notin seen[v] /\ "contended" \notin seen'[v]
    BY <1>e DEF IInv, TypeOK, VcpuInv, Contention, Return, Goto, RouteOf, InCallback,
                Outside, Undecided, Before
  <2>2. Service!Answer(v, ok)
    BY <1>a, <1>b, <2>1 DEF Service!Answer
  <2> QED
    BY <2>2 DEF Service!Next
<1> USE DEF IInv, TypeOK, Goto
<1>1. ASSUME NEW n \in Nr, Enter(v, n) PROVE Service!Next
  <2>1. RouteOf(v) \in {"handled", "unhandled"} /\ RouteOf(v)' = "pending"
    BY <1>1 DEF Enter, RouteOf, Outside, Undecided, Before
  <2>2. /\ "contended" \in seen'[v] <=> mutation # NoMutation
        /\ "contended" \notin seen[v]
    BY <1>1 DEF Enter, Answers, VcpuInv, Contention, Outside, Undecided, Before
  <2>3. Service!Issue(v, n)
    BY <1>1, <1>a, <1>b, <2>1, <2>2 DEF Enter, Service!Issue
  <2> QED
    BY <2>3 DEF Service!Next
<1>2. CASE TestGuest(v)
  <2>1. pc[v] = "testGuest" /\ pc'[v] \in {"lookup", "testKvm"}
    BY <1>2 DEF TestGuest
  <2>2. RouteOf(v) = "pending" /\ RouteOf(v)' = "pending"
    BY <2>1 DEF RouteOf, Outside, Undecided, Before
  <2> QED
    BY <1>2, <1>c, <2>2 DEF TestGuest
<1>3. CASE Lookup(v)
  <2>1. PICK found \in BOOLEAN :
          /\ mutation = NoMutation => (found <=> nr[v] \in registered)
          /\ pc'[v] = IF found THEN "callGuest" ELSE "testKvm"
          /\ seen'[v] = (seen[v] \ {IF found THEN "contended" ELSE "cleared"})
                \cup (IF mutation # NoMutation THEN {"raced"} ELSE {})
    BY <1>3 DEF Lookup, NoteLookup, penguin_guest_hypercall_registered
  <2>a. nr' = nr /\ pc[v] = "lookup"
    BY <1>3 DEF Lookup
  <2>2. nr' = nr /\ pc[v] = "lookup" /\ RouteOf(v) = "pending"
    BY <2>a DEF RouteOf, Outside, Undecided, Before
  <2>3. CASE found
    <3>1. RouteOf(v)' = "guest" /\ "contended" \notin seen'[v]
      BY <2>1, <2>3 DEF RouteOf, Outside, Undecided, Before
    <3>2. "contended" \notin seen[v] => guestCb # NULL /\ nr[v] \in registered
      BY <2>1, <2>2, <2>3 DEF VcpuInv, Contention, Undecided, Before
    <3>3. "contended" \notin seen[v] => Service!Chosen(nr[v]) = "guest"
      BY <3>2 DEF Service!Chosen
    <3> QED
      BY <1>d, <2>2, <3>1, <3>3 DEF Service!Routes
  <2>4. CASE ~found
    <3>1. RouteOf(v)' = "pending"
      BY <2>1, <2>4 DEF RouteOf, Outside, Undecided, Before
    <3>2. "contended" \in seen'[v] <=> "contended" \in seen[v]
      BY <2>1, <2>4
    <3> QED
      BY <1>c, <2>2, <3>1, <3>2
  <2> QED
    BY <2>3, <2>4
<1>4. CASE LoadCallback(v) \/ LoadOpaque(v)
  <2>1. /\ nr' = nr /\ pc[v] \in {"callGuest"} \cup HalfLoaded
        /\ pc'[v] \in HalfLoaded \cup {"inGuest", "nullGuest"}
    BY <1>4 DEF LoadCallback, LoadOpaque, HalfLoaded
  <2>2. "contended" \in seen'[v] <=> "contended" \in seen[v]
    <3>1. NoteOverlap(v)
      BY <1>4 DEF LoadCallback, LoadOpaque
    <3> QED
      BY <3>1 DEF NoteOverlap
  <2>3. RouteOf(v) = "guest" /\ RouteOf(v)' = "guest"
    BY <2>1 DEF RouteOf, HalfLoaded, Outside, Undecided, Before
  <2> QED
    BY <1>c, <2>1, <2>2, <2>3
<1>5. ASSUME NEW ok \in BOOLEAN, GuestReturns(v, ok) \/ KvmReturns(v, ok) PROVE Service!Next
  BY <1>e, <1>5 DEF GuestReturns, KvmReturns, InCallback
<1>6. CASE TestKvm(v)
  <2>1. /\ pc[v] = "testKvm" /\ nr' = nr /\ RouteOf(v) = "pending"
        /\ "contended" \notin seen'[v]
    BY <1>6 DEF TestKvm, Return, RouteOf, Outside, Undecided, Before
  <2>2. "contended" \notin seen[v] => guestCb = NULL \/ nr[v] \notin registered
    BY <2>1 DEF VcpuInv, Contention, Undecided, Before
  <2>3. CASE kvmCb
    <3>1. pc'[v] = "callKvm"
      BY <1>6, <2>3 DEF TestKvm
    <3>2. RouteOf(v)' = "kvm"
      BY <3>1 DEF RouteOf, Outside, Undecided, Before
    <3>3. "contended" \notin seen[v] => Service!Chosen(nr[v]) = "kvm"
      BY <2>2, <2>3 DEF Service!Chosen
    <3> QED
      BY <1>d, <2>1, <3>2, <3>3 DEF Service!Routes
  <2>4. CASE ~kvmCb
    <3>1. pc'[v] = "unhandled"
      BY <1>6, <2>4 DEF TestKvm, Return
    <3>2. RouteOf(v)' = "unhandled"
      BY <3>1 DEF RouteOf, Outside, Undecided, Before
    <3>3. "contended" \notin seen[v] => Service!Chosen(nr[v]) = "unhandled"
      BY <2>2, <2>4 DEF Service!Chosen
    <3> QED
      BY <1>d, <2>1, <3>2, <3>3 DEF Service!Routes
  <2> QED
    BY <2>3, <2>4
<1>7. CASE CallKvm(v)
  <2>1. pc[v] = "callKvm" /\ pc'[v] \in {"inKvm", "nullKvm"} /\ nr' = nr /\ seen' = seen
    BY <1>7 DEF CallKvm
  <2> QED
    BY <1>c, <2>1 DEF RouteOf, Outside, Undecided, Before
<1> QED
  BY <1>1, <1>2, <1>3, <1>4, <1>5, <1>6, <1>7 DEF Dispatch

(* Everything else reconfigures the service or is invisible to it.            *)
LEMMA OtherRefines ==
  ASSUME IInv, TypeOK', (\E t \in Thread : Embed(t)) \/ MutationReturns \/ UNCHANGED vars
  PROVE  [Service!Next]_(Service!vars)
<1> DEFINE R == [w \in VCPU |-> RouteOf(w)]
           C == {w \in VCPU : "contended" \in seen[w]}
<1> USE DEF IInv, TypeOK, config
<1>1. ASSUME pc' = pc PROVE R' = R
  BY <1>1 DEF RouteOf
<1>2. ASSUME \A v \in VCPU : "contended" \in seen'[v] <=>
                               ("contended" \in seen[v] \/ pc[v] \in Undecided)
      PROVE  C' = C \cup {v \in VCPU : R[v] = "pending"}
  <2>1. \A v \in VCPU : pc[v] \in Undecided <=> R[v] = "pending"
    BY DEF RouteOf, Outside, Undecided, Before
  <2> QED
    BY <1>2, <2>1
<1>3. ASSUME NEW t \in Thread, NEW table \in SUBSET Nr, Mutate(t, table) PROVE Service!Next
  <2>1. C' = C \cup {v \in VCPU : R[v] = "pending"}
    BY <1>2, <1>3 DEF Mutate, Noted
  <2>2. mutation = NoMutation /\ mutation' # NoMutation
    BY <1>3, EmbedderAssumption DEF Mutate, MayMutate, NoMutation, Thread
  <2>3. Service!ChangeBegins
    BY <1>1, <1>3, <2>1, <2>2 DEF Mutate, Service!ChangeBegins, Service!ContendPending
  <2> QED
    BY <2>3 DEF Service!Next
<1>4. CASE MutationReturns
  <2>1. C' = C
    BY <1>4 DEF MutationReturns, Answers
  <2>2. Service!ChangeEnds
    BY <1>1, <1>4, <2>1 DEF MutationReturns, Service!ChangeEnds
  <2> QED
    BY <2>2 DEF Service!Next
<1>5. ASSUME NEW t \in Thread, NEW cb \in Pointer, SetGuestCallback(t, cb) PROVE Service!Next
  <2>1. ASSUME NEW v \in VCPU
        PROVE  "contended" \in seen'[v] <=> ("contended" \in seen[v] \/ pc[v] \in Undecided)
    <3>1. seen'[v] = seen[v] \cup Noted("contended", Undecided)[v]
               \cup Noted("overlap", HalfLoaded)[v]
               \cup (IF cb = NULL THEN Noted("cleared", GuestTested)[v] ELSE {})
               \cup (IF pc[v] \in Before THEN Answers(nr[v], registered, cb) ELSE {})
      BY <1>5 DEF SetGuestCallback
    <3> QED
      BY <3>1 DEF Noted, Answers
  <2>3. C' = C \cup {v \in VCPU : R[v] = "pending"}
    BY <1>2, <2>1
  <2>4. Service!SwitchCallback
    BY <1>1, <1>5, <2>3 DEF SetGuestCallback, Service!SwitchCallback, Service!ContendPending
  <2> QED
    BY <2>4 DEF Service!Next
<1>6. ASSUME NEW t \in Thread, SetGuestOpaque(t) PROVE UNCHANGED Service!vars
  BY <1>1, <1>6 DEF SetGuestOpaque, Service!vars
<1>7. ASSUME NEW t \in Thread, NEW up \in BOOLEAN, set_kvm_penguin_hypercall_callback(t, up)
      PROVE  Service!Next
  <2>3. C' = C \cup {v \in VCPU : R[v] = "pending"}
    BY <1>2, <1>7 DEF set_kvm_penguin_hypercall_callback, Noted
  <2>4. Service!SwitchCallback
    BY <1>1, <1>7, <2>3 DEF set_kvm_penguin_hypercall_callback, Service!SwitchCallback,
                            Service!ContendPending
  <2> QED
    BY <2>4 DEF Service!Next
<1>8. CASE UNCHANGED vars
  BY <1>1, <1>8 DEF vars, Service!vars
<1>9. ASSUME NEW t \in Thread, Embed(t) PROVE [Service!Next]_(Service!vars)
  BY <1>3, <1>5, <1>6, <1>7, <1>9
     DEF Embed, penguin_register_guest_hypercall, penguin_unregister_guest_hypercall,
         penguin_clear_guest_hypercalls
<1> QED BY <1>4, <1>8, <1>9

(* A hypercall that is waiting for its route while nothing changes is routed  *)
(* by the unlocked sequence of reads in penguin_handle_guest_hypercall as if  *)
(* at one instant; only the others may go anywhere.                           *)
THEOREM Implements == Spec => ServiceSpec
<1>1. IInv /\ TypeOK' /\ [Next]_vars => [Service!Next]_(Service!vars)
  BY DispatchRefines, OtherRefines DEF Next
<1>2. IInv /\ [Next]_vars => TypeOK'
  BY TypeInv DEF IInv
<1> QED
  BY <1>1, <1>2, InitRefines, Invariance, PTL DEF Spec, ServiceSpec, Service!Spec
=============================================================================
