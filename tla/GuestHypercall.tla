--------------------------- MODULE GuestHypercall ---------------------------
(***************************************************************************)
(* The hypercall surface of src/src/system/penguin.c: the table of         *)
(* registered numbers, the two callbacks, and the dispatch every           *)
(* architecture enters from a vCPU thread.  No lock is taken on this path, *)
(* so a dispatch is a sequence of separate reads, and each is a step here. *)
(*                                                                         *)
(* The embedder (Penguin) is external: it calls the C functions whenever   *)
(* it likes, from its own thread or from inside a callback on the vCPU     *)
(* thread that runs it.  One habit of its is assumed, in MayMutate: its    *)
(* threads do not change the GHashTable at the same time as each other,    *)
(* which would corrupt it.  The properties say what a dispatch does while  *)
(* nothing is changed around it, and what each kind of change may do.      *)
(***************************************************************************)

CONSTANTS
  VCPU,           \* vCPU threads
  Nr,             \* hypercall numbers (uint64_t, compared for equality only)
  Callback,       \* guest callbacks; each is installed with an opaque of its own
  NULL,           \* no pointer, no thread
  Idle,           \* a thread that is not in the guest callback's setter
  Embedder        \* the embedder's own thread

ASSUME NullAssumption == NULL \notin Callback /\ Idle \notin Callback \cup {NULL}
ASSUME EmbedderAssumption == Embedder \notin VCPU /\ NULL \notin VCPU \cup {Embedder}

VARIABLES
  guestCb,        \* penguin_guest_hypercall_cb
  guestOpaque,    \* penguin_guest_hypercall_opaque, named by its callback
  kvmCb,          \* kvm_penguin_hypercall_cb is not NULL
  installing,     \* the callback whose opaque a thread is still to store
  registered,     \* keys of penguin_guest_hypercall_numbers
  mutation,       \* the change of the table in progress: its thread and result
  pc,             \* where each vCPU is in penguin_handle_guest_hypercall
  nr,             \* its argument nr
  called,         \* the pair it has loaded for the call of the guest callback
  clashed,        \* ghost: the last installs of a guest callback overlapped
  seen            \* ghost: what has happened to each vCPU's dispatch

config == <<guestCb, guestOpaque, kvmCb, installing, clashed>>
vars == <<config, registered, mutation, pc, nr, called, seen>>

Thread == VCPU \cup {Embedder}
Pointer == Callback \cup {NULL}
Outside == {"handled", "unhandled"}                  \* in guest code
Before == {"testGuest", "lookup"}                    \* the table is still to be asked
Undecided == Before \cup {"testKvm"}                 \* not routed yet
GuestTested == {"lookup", "callGuest", "loadCallback"} \* the pointer is to be read again
HalfLoaded == {"loadCallback", "loadOpaque"}         \* one of the pair is loaded
InCallback == {"inGuest", "inKvm"}                   \* in embedder code
Crashed == {"nullGuest", "nullKvm"}                  \* called through NULL
Steps == Outside \cup Undecided \cup GuestTested \cup HalfLoaded
           \cup InCallback \cup Crashed \cup {"callKvm"}
NoMutation == [by |-> NULL, to |-> {}]
NoPair == [cb |-> NULL, opaque |-> NULL]

(* What a dispatch may have met: its number registered, its number absent or  *)
(* no guest callback, a table that changed under the lookup, a callback       *)
(* cleared after its test, an install around its two loads, and, while it is  *)
(* undecided, any change at all.                                              *)
Event == {"in", "out", "raced", "cleared", "overlap", "contended"}

TypeOK ==
  /\ guestCb \in Pointer
  /\ guestOpaque \in Pointer
  /\ kvmCb \in BOOLEAN
  /\ installing \in [Thread -> Pointer \cup {Idle}]
  /\ registered \in SUBSET Nr
  /\ mutation \in [by : Thread \cup {NULL}, to : SUBSET Nr]
  /\ pc \in [VCPU -> Steps]
  /\ nr \in [VCPU -> Nr]
  /\ called \in [VCPU -> [cb : Pointer, opaque : Pointer]]
  /\ clashed \in BOOLEAN
  /\ seen \in [VCPU -> SUBSET Event]

Init ==
  /\ guestCb = NULL
  /\ guestOpaque = NULL
  /\ kvmCb = FALSE
  /\ installing = [t \in Thread |-> Idle]
  /\ registered = {}
  /\ mutation = NoMutation
  /\ pc = [v \in VCPU |-> "unhandled"]
  /\ nr \in [VCPU -> Nr]
  /\ called = [v \in VCPU |-> NoPair]
  /\ clashed = FALSE
  /\ seen = [v \in VCPU |-> {}]

-----------------------------------------------------------------------------
(* Embedder code runs in its own thread and inside the callbacks; here it is  *)
(* not in one of the functions of penguin.c already.                          *)
InEmbedderCode(t) ==
  /\ t = Embedder \/ (t \in VCPU /\ pc[t] \in InCallback)
  /\ installing[t] = Idle
  /\ mutation.by # t

(* What a dispatch meets when it asks, or could ask, for n at this instant.   *)
Answers(n, table, cb) ==
  {IF n \in table THEN "in" ELSE "out"} \cup (IF cb = NULL THEN {"out"} ELSE {})

(* The event is noted for the vCPUs that are at one of the steps.             *)
Noted(e, steps) == [v \in VCPU |-> IF pc[v] \in steps THEN {e} ELSE {}]

-----------------------------------------------------------------------------
(* The table.  A change is seen by other threads over an interval: a lookup *)
(* inside it is a data race on the GHashTable and may answer either way.    *)

MayMutate(t) == InEmbedderCode(t) /\ mutation = NoMutation

Mutate(t, table) ==
  /\ MayMutate(t)
  /\ mutation' = [by |-> t, to |-> table]
  /\ seen' = [v \in VCPU |-> seen[v] \cup Noted("contended", Undecided)[v]]
  /\ UNCHANGED <<config, registered, pc, nr, called>>

penguin_register_guest_hypercall(t, n) ==
  n \notin registered /\ Mutate(t, registered \cup {n})
penguin_unregister_guest_hypercall(t, n) ==
  n \in registered /\ Mutate(t, registered \ {n})
penguin_clear_guest_hypercalls(t) ==
  registered # {} /\ Mutate(t, {})

(* The call returns: from here on every lookup sees the new table. *)
MutationReturns ==
  /\ mutation # NoMutation
  /\ registered' = mutation.to
  /\ mutation' = NoMutation
  /\ seen' = [v \in VCPU |-> IF pc[v] \in Before
                             THEN seen[v] \cup Answers(nr[v], mutation.to, guestCb)
                             ELSE seen[v]]
  /\ UNCHANGED <<config, pc, nr, called>>

(* penguin_guest_hypercall_registered, as a thread may see it *)
penguin_guest_hypercall_registered(n) ==
  IF mutation = NoMutation THEN {n \in registered} ELSE BOOLEAN

-----------------------------------------------------------------------------
(* Installing the callbacks, with vCPUs anywhere in their dispatch. *)

Installers == {t \in Thread : installing[t] # Idle}

(* set_penguin_guest_hypercall_callback: the callback is stored first ... *)
SetGuestCallback(t, cb) ==
  /\ InEmbedderCode(t)
  /\ guestCb' = cb
  /\ installing' = [installing EXCEPT ![t] = cb]
  /\ clashed' = (Installers # {})
  /\ seen' = [v \in VCPU |->
       seen[v] \cup Noted("contended", Undecided)[v] \cup Noted("overlap", HalfLoaded)[v]
         \cup (IF cb = NULL THEN Noted("cleared", GuestTested)[v] ELSE {})
         \cup (IF pc[v] \in Before THEN Answers(nr[v], registered, cb) ELSE {})]
  /\ UNCHANGED <<guestOpaque, kvmCb, registered, mutation, pc, nr, called>>

(* Mutant: the opaque of the previous callback stays. *)
SetGuestOpaque_Kept(t) ==
  /\ installing[t] # Idle
  /\ installing' = [installing EXCEPT ![t] = Idle]
  /\ UNCHANGED <<guestCb, guestOpaque, kvmCb, clashed, registered, mutation, pc, nr,
                 called, seen>>

(* ... and its opaque second. *)
SetGuestOpaque(t) ==
  /\ installing[t] # Idle
  /\ guestOpaque' = installing[t]
  /\ installing' = [installing EXCEPT ![t] = Idle]
  /\ UNCHANGED <<guestCb, kvmCb, clashed, registered, mutation, pc, nr, called, seen>>

set_kvm_penguin_hypercall_callback(t, up) ==
  /\ InEmbedderCode(t)
  /\ kvmCb' = up
  /\ seen' = [v \in VCPU |->
       seen[v] \cup Noted("contended", Undecided)[v]
         \cup (IF ~up THEN Noted("cleared", {"callKvm"})[v] ELSE {})]
  /\ UNCHANGED <<guestCb, guestOpaque, installing, clashed, registered, mutation,
                 pc, nr, called>>

-----------------------------------------------------------------------------
(* penguin_handle_guest_hypercall *)

Goto(v, from, to) == pc[v] = from /\ pc' = [pc EXCEPT ![v] = to]

(* Back in guest code; what the ghosts say of a dispatch ends with it.        *)
Return(v, from, ok) ==
  /\ Goto(v, from, IF ok THEN "handled" ELSE "unhandled")
  /\ called' = [called EXCEPT ![v] = NoPair]
  /\ seen' = [seen EXCEPT ![v] = {}]
  /\ UNCHANGED <<config, registered, mutation, nr>>

(* Mutant: the number is never read from the guest. *)
Enter_NumberLost(v, n) ==
  /\ pc[v] \in Outside
  /\ pc' = [pc EXCEPT ![v] = "testGuest"]
  /\ nr' = [nr EXCEPT ![v] = NULL]
  /\ seen' = [seen EXCEPT ![v] = {"out"}]
  /\ UNCHANGED <<config, registered, mutation, called>>

Enter(v, n) ==
  /\ pc[v] \in Outside
  /\ pc' = [pc EXCEPT ![v] = "testGuest"]
  /\ nr' = [nr EXCEPT ![v] = n]
  /\ seen' = [seen EXCEPT ![v] = Answers(n, registered, guestCb)
                \cup (IF mutation # NoMutation THEN {"contended"} ELSE {})]
  /\ UNCHANGED <<config, registered, mutation, called>>

TestGuest(v) ==
  /\ Goto(v, "testGuest", IF guestCb # NULL THEN "lookup" ELSE "testKvm")
  /\ UNCHANGED <<config, registered, mutation, nr, called, seen>>

(* Whether the lookup ran while the table changed.  Once it has found the     *)
(* number the dispatch is routed; if not, the guest callback no longer counts. *)
NoteLookup(v, found) ==
  seen' = [seen EXCEPT ![v] = (@ \ {IF found THEN "contended" ELSE "cleared"})
             \cup (IF mutation # NoMutation THEN {"raced"} ELSE {})]

(* Mutant: every number goes to an installed guest callback. *)
Lookup_AlwaysFound(v) ==
  /\ Goto(v, "lookup", "callGuest")
  /\ NoteLookup(v, TRUE)
  /\ UNCHANGED <<config, registered, mutation, nr, called>>

Lookup(v) ==
  /\ \E found \in penguin_guest_hypercall_registered(nr[v]) :
       /\ Goto(v, "lookup", IF found THEN "callGuest" ELSE "testKvm")
       /\ NoteLookup(v, found)
  /\ UNCHANGED <<config, registered, mutation, nr, called>>

(* The pointer is read again for the call, and the opaque with it, in either  *)
(* order: C leaves it open.                                                   *)
NoteOverlap(v) ==
  seen' = [seen EXCEPT ![v] =
    @ \cup (IF Installers # {} \/ clashed THEN {"overlap"} ELSE {})]

LoadCallback(v) ==
  /\ \/ Goto(v, "callGuest", "loadOpaque")
     \/ Goto(v, "loadCallback", IF guestCb # NULL THEN "inGuest" ELSE "nullGuest")
  /\ called' = [called EXCEPT ![v].cb = guestCb]
  /\ NoteOverlap(v)
  /\ UNCHANGED <<config, registered, mutation, nr>>

LoadOpaque(v) ==
  /\ \/ Goto(v, "callGuest", "loadCallback")
     \/ Goto(v, "loadOpaque", IF called[v].cb # NULL THEN "inGuest" ELSE "nullGuest")
  /\ called' = [called EXCEPT ![v].opaque = guestOpaque]
  /\ NoteOverlap(v)
  /\ UNCHANGED <<config, registered, mutation, nr>>

(* Mutant: a refusal is offered to KVM's callback. *)
GuestReturns_FallsThrough(v, ok) ==
  /\ InEmbedderCode(v)
  /\ IF ok THEN Return(v, "inGuest", TRUE)
     ELSE /\ Goto(v, "inGuest", "testKvm")
          /\ UNCHANGED <<config, registered, mutation, nr, called, seen>>

(* The callback's return value is final: a refusal is not offered to KVM's. *)
GuestReturns(v, ok) == InEmbedderCode(v) /\ Return(v, "inGuest", ok)

(* Mutant: the pointer is called untested. *)
TestKvm_Untested(v) ==
  /\ Goto(v, "testKvm", "callKvm")
  /\ seen' = [seen EXCEPT ![v] = @ \ {"contended"}]
  /\ UNCHANGED <<config, registered, mutation, nr, called>>

TestKvm(v) ==
  \/ /\ kvmCb
     /\ Goto(v, "testKvm", "callKvm")
     /\ seen' = [seen EXCEPT ![v] = @ \ {"contended"}]
     /\ UNCHANGED <<config, registered, mutation, nr, called>>
  \/ ~kvmCb /\ Return(v, "testKvm", FALSE)

(* A build may call the pointer it tested or read it again. *)
CallKvm(v) ==
  /\ \E up \in {TRUE, kvmCb} : Goto(v, "callKvm", IF up THEN "inKvm" ELSE "nullKvm")
  /\ UNCHANGED <<config, registered, mutation, nr, called, seen>>

KvmReturns(v, ok) == InEmbedderCode(v) /\ Return(v, "inKvm", ok)

Dispatch(v) ==
  \/ \E n \in Nr : Enter(v, n)
  \/ TestGuest(v)
  \/ Lookup(v)
  \/ LoadCallback(v)
  \/ LoadOpaque(v)
  \/ \E ok \in BOOLEAN : GuestReturns(v, ok)
  \/ TestKvm(v)
  \/ CallKvm(v)
  \/ \E ok \in BOOLEAN : KvmReturns(v, ok)

Embed(t) ==
  \/ \E n \in Nr : penguin_register_guest_hypercall(t, n)
  \/ \E n \in Nr : penguin_unregister_guest_hypercall(t, n)
  \/ penguin_clear_guest_hypercalls(t)
  \/ \E cb \in Pointer : SetGuestCallback(t, cb)
  \/ SetGuestOpaque(t)
  \/ \E up \in BOOLEAN : set_kvm_penguin_hypercall_callback(t, up)

(* A call through NULL ends the process. *)
Alive == \A v \in VCPU : pc[v] \notin Crashed

Next ==
  /\ Alive
  /\ \/ \E v \in VCPU : Dispatch(v)
     \/ \E t \in Thread : Embed(t)
     \/ MutationReturns

Spec == Init /\ [][Next]_vars

-----------------------------------------------------------------------------
(* Properties. *)

(* The pointers are tested once and read again for the call.  A dispatch      *)
(* calls through NULL only if that very callback was cleared between the two: *)
(* replacing it, and whatever happens to the table, never makes it crash.     *)
NoNullCall ==
  \A v \in VCPU : /\ pc[v] \in Crashed => "cleared" \in seen[v]
                  /\ pc[v] = "inGuest" => called[v].cb # NULL

(* The guest callback receives the opaque it was installed with, although the *)
(* pair is stored, and loaded, one word at a time in no fixed order, unless   *)
(* an install was under way at one of the two loads or began between them, or *)
(* the last installs overlapped each other.                                   *)
PairIntact ==
  \A v \in VCPU : pc[v] = "inGuest" /\ "overlap" \notin seen[v]
                    => called[v].opaque = called[v].cb

(* Where a dispatch goes is right for some moment of it: the guest callback   *)
(* is called only for a number that was registered at some moment since the   *)
(* vCPU entered, so not for one unregistered, or cleared from the table,      *)
(* before it did; and it is passed over only if at some moment the number was *)
(* absent or no guest callback installed.  Only a lookup that ran while the   *)
(* table was being changed escapes.                                           *)
RoutedByTable ==
  \A v \in VCPU :
    /\ pc[v] \in {"callGuest", "loadCallback", "loadOpaque", "inGuest"} =>
         {"in", "raced"} \cap seen[v] # {}
    /\ pc[v] \in {"testKvm", "callKvm", "inKvm"} => {"out", "raced"} \cap seen[v] # {}

-----------------------------------------------------------------------------
(* The dispatch implements the atomic service: the route is fixed by the      *)
(* lookup that finds the number, or else by the test of KVM's callback.       *)
RouteOf(v) ==
  CASE pc[v] \in Undecided -> "pending"
    [] pc[v] \in {"callKvm", "inKvm", "nullKvm"} -> "kvm"
    [] pc[v] \in Outside -> pc[v]
    [] OTHER -> "guest"

Service == INSTANCE HypercallService WITH
             changing <- mutation # NoMutation,
             guestUp <- guestCb # NULL,
             kvmUp <- kvmCb,
             request <- nr,
             route <- [v \in VCPU |-> RouteOf(v)],
             contended <- {v \in VCPU : "contended" \in seen[v]}

(* A hypercall is routed as if at one instant between its issue and its       *)
(* answer, unless the table or a callback changed before it had its route.    *)
ServiceSpec == Service!Spec
=============================================================================
