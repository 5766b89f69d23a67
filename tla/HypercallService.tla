-------------------------- MODULE HypercallService --------------------------
(***************************************************************************)
(* What the hypercall surface of penguin.c promises to the two sides that  *)
(* meet in it.  A virtual CPU issues a hypercall; at ONE instant between   *)
(* the issue and the answer it is routed, by the numbers registered and    *)
(* the callbacks installed at that instant, to the guest callback, to the  *)
(* KVM callback, or to nobody; whoever was chosen gives the answer.  Only  *)
(* a hypercall that was waiting for its route while the registrations or   *)
(* the callbacks changed may go elsewhere.                                 *)
(***************************************************************************)
CONSTANTS VCPU,       \* the virtual CPUs
          Nr          \* hypercall numbers

VARIABLES registered, \* numbers routed to the guest callback
          changing,   \* the registrations are being changed
          guestUp,    \* a guest callback is installed
          kvmUp,      \* a KVM callback is installed
          request,    \* [VCPU -> number of the hypercall last issued]
          route,      \* [VCPU -> progress of the hypercall]
          contended   \* those for which something changed while they waited for a route

vars == <<registered, changing, guestUp, kvmUp, request, route, contended>>

Routes == {"guest", "kvm", "unhandled"}

TypeOK ==
  /\ registered \subseteq Nr
  /\ changing \in BOOLEAN
  /\ guestUp \in BOOLEAN
  /\ kvmUp \in BOOLEAN
  /\ request \in [VCPU -> Nr]
  /\ route \in [VCPU -> Routes \cup {"handled", "pending"}]
  /\ contended \subseteq VCPU

Init ==
  /\ registered = {}
  /\ changing = FALSE
  /\ guestUp = FALSE
  /\ kvmUp = FALSE
  /\ request \in [VCPU -> Nr]
  /\ route = [v \in VCPU |-> "unhandled"]
  /\ contended = {}

(* Nobody's answer is a refusal. *)
Chosen(n) ==
  IF guestUp /\ n \in registered THEN "guest"
  ELSE IF kvmUp THEN "kvm" ELSE "unhandled"

ContendPending ==
  contended' = contended \cup {v \in VCPU : route[v] = "pending"}

(* The embedder changes the registrations, which takes a while ... *)
ChangeBegins ==
  /\ ~changing
  /\ changing' = TRUE
  /\ ContendPending
  /\ UNCHANGED <<registered, guestUp, kvmUp, request, route>>

ChangeEnds ==
  /\ changing
  /\ changing' = FALSE
  /\ registered' \in SUBSET Nr
  /\ UNCHANGED <<guestUp, kvmUp, request, route, contended>>

(* ... or a callback. *)
SwitchCallback ==
  /\ guestUp' \in BOOLEAN
  /\ kvmUp' \in BOOLEAN
  /\ ContendPending
  /\ UNCHANGED <<registered, changing, request, route>>

Issue(v, n) ==
  /\ route[v] \in {"handled", "unhandled"}
  /\ request' = [request EXCEPT ![v] = n]
  /\ route' = [route EXCEPT ![v] = "pending"]
  /\ contended' = IF changing THEN contended \cup {v} ELSE contended
  /\ UNCHANGED <<registered, changing, guestUp, kvmUp>>

Decide(v, r) ==
  /\ route[v] = "pending"
  /\ r = Chosen(request[v]) \/ v \in contended
  /\ route' = [route EXCEPT ![v] = r]
  /\ contended' = contended \ {v}
  /\ UNCHANGED <<registered, changing, guestUp, kvmUp, request>>

(* A callback accepts or declines. *)
Answer(v, taken) ==
  /\ route[v] \in {"guest", "kvm"}
  /\ route' = [route EXCEPT ![v] = IF taken THEN "handled" ELSE "unhandled"]
  /\ UNCHANGED <<registered, changing, guestUp, kvmUp, request, contended>>

Next ==
  \/ ChangeBegins \/ ChangeEnds \/ SwitchCallback
  \/ \E v \in VCPU : \/ \E n \in Nr : Issue(v, n)
                     \/ \E r \in Routes : Decide(v, r)
                     \/ \E taken \in BOOLEAN : Answer(v, taken)

Spec == Init /\ [][Next]_vars
=============================================================================
