---------------------------- MODULE EnvGenerator ----------------------------
(* generate, of scripts/penguin-env-cffi-gen.py, for one library: extract    *)
(* the types, repair their layout, render the cdef of the compiled module.   *)
EXTENDS EnvTypes

CONSTANT Limits   \* MAX_REPAIR_PASSES
ASSUME LimitsAssumption == Limits \subseteq Nat \ {0}

VARIABLES
  defs, limit, pads, tail, opaque, passes, at, next, end, align,
  aligns, last, status,                                          \* LayoutRepair
  apiStack, answer, apiDefs, dieRefs, emittedNames, apiStatus    \* ApiTypes

repairVars == <<defs, limit, pads, tail, opaque, passes, at, next, end, align, aligns, last, status>>
apiVars == <<apiStack, answer, apiDefs, dieRefs, emittedNames, apiStatus>>
vars == <<dwarf, abiVars, repairVars, apiVars>>

(* Their inputs are this module's: the parts only take their steps here.     *)
Repair == INSTANCE LayoutRepair WITH Inputs <- {}
Api == INSTANCE ApiTypes WITH Graphs <- {}, defs <- apiDefs

Init ==
  /\ dwarf \in Graphs
  /\ Fresh /\ Api!Fresh
  /\ limit \in Limits
  /\ defs = <<>> /\ pads = <<>> /\ tail = <<>> /\ opaque = <<>> /\ aligns = <<>>
  /\ passes = 0 /\ at = 0 /\ next = 0 /\ end = 0 /\ align = 1
  /\ last = [struct |-> 0, member |-> 0]
  /\ status = "idle"

(* Sizes cffi gives the C types of BASE_TYPES and void *.                    *)
ScalarSize(t) ==
  CASE Dies[t].tag = "pointer" -> 8
    [] Dies[t].tag = "enum" /\ Dies[t].size \in {NoSize, 0} -> 4
    [] OTHER -> Dies[t].size

(* Members are kept by the place of their child: a list in that order.       *)
InSourceOrder(places) ==
  CHOOSE p \in [1..Cardinality(places) -> places] :
    \A i, j \in DOMAIN p : i < j => p[i] < p[j]

(* self.structs in the order of self.order, as LayoutRepair sees it.         *)
Extracted ==
  LET index(tag) == CHOOSE i \in DOMAIN order : order[i] = tag
      member(m) ==
        LET leaf == Leaf(Dies, m.type)
            scalar == IF m.tag = NoName THEN ScalarSize(leaf) ELSE 1
        IN [size |-> scalar, align |-> scalar,
            struct |-> IF m.tag = NoName THEN 0 ELSE index(m.tag),
            count |-> Count(Dies, m.type), offset |-> m.offset]
      members(s) ==
        LET places == InSourceOrder(DOMAIN s.members)
        IN [k \in DOMAIN places |-> member(s.members[places[k]])]
  IN [i \in DOMAIN order |->
        [kind |-> structs[order[i]].kind, size |-> structs[order[i]].size,
         members |-> members(structs[order[i]])]]

VerifyAndRepair ==
  /\ abiStatus = "emitted" /\ status = "idle"
  /\ defs' = Extracted
  /\ pads' = [i \in DOMAIN Extracted |-> [k \in DOMAIN Extracted[i].members |-> 0]]
  /\ tail' = [i \in DOMAIN Extracted |-> 0]
  /\ opaque' = [i \in DOMAIN Extracted |-> FALSE]
  /\ aligns' = [i \in DOMAIN Extracted |-> 1]
  /\ passes' = 1 /\ at' = 1 /\ next' = 1
  /\ status' = "verifying"
  /\ UNCHANGED <<dwarf, abiVars, apiVars, limit, end, align, last>>

Generated == apiStatus = "rendered"
SystemExit ==
  \/ abiStatus \in {"SystemExit", "ValueError"}
  \/ status = "did not converge" \/ apiStatus = "SystemExit"
Finished == (Generated \/ SystemExit) /\ UNCHANGED vars

Next ==
  \/ Extract /\ UNCHANGED <<repairVars, apiVars>>
  \/ VerifyAndRepair
  \/ status = "verifying" /\ Repair!Next /\ UNCHANGED <<dwarf, abiVars, apiVars>>
  \/ status = "exact" /\ Api!Next(EnvDie(dwarf)) /\ UNCHANGED <<abiVars, repairVars>>
  \/ Finished

Spec == Init /\ [][Next]_vars
(* One sequential program; nothing it calls blocks.                          *)
FairSpec == Spec /\ WF_vars(Next)
-----------------------------------------------------------------------------
(* What EnvTypes promises is stated there; this is the cdef's part of it.    *)
CdefAccepted == Api!CdefAccepted
WritesWhatItCan == Api!WritesWhatItCan

(* The extractor hands over what the repair is proved for, and the repaired  *)
(* header has every member it declares where the library has it.             *)
HeaderIsExact ==
  /\ status # "idle" => Repair!Acceptable(defs)
  /\ Repair!HeaderIsExact

(* generate returns or exits, whatever the library holds.                    *)
GeneratorEnds == <>(Generated \/ SystemExit)
=============================================================================
