-------------------------- MODULE MCGuestHypercall --------------------------
(* Small instances of GuestHypercall for TLC. *)
EXTENDS GuestHypercall, TLC

(* All the properties are safety properties. *)
DispatchSymmetry ==
  Permutations(VCPU) \cup Permutations(Nr) \cup Permutations(Callback)
=============================================================================
