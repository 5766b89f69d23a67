------------------------------ MODULE EnvTypes ------------------------------
(* EnvTypeExtractor.emit_struct: the definitions of the ABI header.  The     *)
(* recursion of the script is an explicit stack; a frame is a call of        *)
(* emit_struct and the child it looks at.  When the call for a child's type  *)
(* returns, the caller looks at the child again and finds in die_tags what   *)
(* the call returned.                                                        *)
EXTENDS Dwarf

VARIABLES
  dwarf,      \* the library
  stack,      \* calls of emit_struct
  structs,    \* tag -> kind, DWARF size, members: position of the child -> Member
  order,      \* tags, dependencies first
  dieTags,    \* offset of an entry -> its tag
  anonCount,
  abiStatus

abiVars == <<stack, structs, order, dieTags, anonCount, abiStatus>>

Dies == dwarf.dies
Tags == DOMAIN structs

Fresh ==
  /\ stack = <<>> /\ order = <<>> /\ anonCount = 0
  /\ structs = [t \in {} |-> NoDie]
  /\ dieTags = [d \in {} |-> NoName]
  /\ abiStatus = "loaded"

-----------------------------------------------------------------------------
Resolvable(d) == ~Dies[d].decl /\ Dies[d].size \notin {NoSize, 0}

Numbered(base, n) == IF n = 1 THEN base ELSE Append(base, n)

(* Mutant: two types of one name share a tag.                                *)
IsFree_Shared(base, n) == n = 1

(* The first of base, base_2, base_3, ... that names no definition yet.      *)
IsFree(base, n) ==
  /\ Numbered(base, n) \notin Tags
  /\ \A m \in 1..(n - 1) : Numbered(base, m) \in Tags

(* The first half of emit_struct, for an entry it has not seen before.       *)
Enter(d, rest) ==
  /\ anonCount' = anonCount + (IF Dies[d].name = NoName THEN 1 ELSE 0)
  /\ LET base == IF Dies[d].name = NoName THEN <<"anon", anonCount'>> ELSE Dies[d].name
     IN \E n \in 1..(Len(order) + Len(stack) + 1) :
          /\ IsFree(base, n)
          /\ dieTags' = Put(dieTags, d, Numbered(base, n))
          /\ structs' = Put(structs, Numbered(base, n),
                            [kind |-> Dies[d].tag, size |-> Dies[d].size,
                             members |-> [k \in {} |-> NoDie]])
  /\ stack' = Append(rest, [die |-> d, child |-> 1])
  /\ UNCHANGED <<dwarf, order>>

(* generate, up to the first call: SystemExit without a usable root.         *)
RootFound == EnvDie(dwarf) # NoDie /\ CpuStateFound(dwarf) /\ Resolvable(EnvDie(dwarf))

EmitRoot ==
  /\ abiStatus = "loaded"
  /\ RootFound
  /\ Enter(EnvDie(dwarf), <<>>)
  /\ abiStatus' = "emitting"

NoRoot ==
  /\ abiStatus = "loaded"
  /\ ~RootFound
  /\ abiStatus' = "SystemExit"
  /\ UNCHANGED <<dwarf, stack, structs, order, dieTags, anonCount>>

-----------------------------------------------------------------------------
(* The call on top of the stack and the child it looks at.                   *)
Top == stack[Len(stack)]
Callers == SubSeq(stack, 1, Len(stack) - 1)
TopTag == dieTags[Top.die]
Children == Dies[Top.die].members
Child == Children[Top.child]
Type == Leaf(Dies, Child.type)

AtChild == abiStatus = "emitting" /\ stack # <<>> /\ Top.child \in DOMAIN Children
AtEnd == abiStatus = "emitting" /\ stack # <<>> /\ Top.child \notin DOMAIN Children

NextChild == stack' = Append(Callers, [Top EXCEPT !.child = @ + 1])

(* Only a named member that is no bitfield has its type resolved.            *)
Considered == Child.name # NoName /\ ~Child.bits
Emitted(t) == Compound(Dies, t) /\ t \in DOMAIN dieTags
Pending(t) == Compound(Dies, t) /\ t \notin DOMAIN dieTags /\ Resolvable(t)

(* The member is dropped; the layout repair will pad over it.  The struct of *)
(* an unsized array has been emitted by then.                                *)
DropMember ==
  /\ AtChild
  /\ \/ ~Considered
     \/ ~Scalar(Dies, Type) /\ ~Emitted(Type) /\ ~Pending(Type)
     \/ Unsized(Dies, Child.type) /\ ~Pending(Type)
  /\ NextChild
  /\ UNCHANGED <<dwarf, structs, order, dieTags, anonCount, abiStatus>>

(* member_ctype calls emit_struct.                                           *)
EmitMemberType ==
  /\ AtChild /\ Considered /\ Pending(Type)
  /\ Enter(Type, stack)
  /\ UNCHANGED abiStatus

Kept == Considered /\ ~Unsized(Dies, Child.type) /\ (Scalar(Dies, Type) \/ Emitted(Type))

(* Mutant: bitfields are kept at the offset of their storage unit.           *)
KeepMember_Bitfields ==
  /\ AtChild /\ Child.name # NoName /\ ~Unsized(Dies, Child.type)
  /\ Scalar(Dies, Type) \/ Emitted(Type)
  /\ Decodable(Child.loc)
  /\ structs' = [structs EXCEPT ![TopTag].members =
                   Put(@, Top.child, [type |-> Child.type, offset |-> MemberOffset(Child.loc),
                                      tag |-> IF Compound(Dies, Type) THEN dieTags[Type] ELSE NoName])]
  /\ NextChild
  /\ UNCHANGED <<dwarf, order, dieTags, anonCount, abiStatus>>

KeepMember ==
  /\ AtChild /\ Kept
  /\ Decodable(Child.loc)
  /\ structs' = [structs EXCEPT ![TopTag].members =
                   Put(@, Top.child, [type |-> Child.type, offset |-> MemberOffset(Child.loc),
                                      tag |-> IF Compound(Dies, Type) THEN dieTags[Type] ELSE NoName])]
  /\ NextChild
  /\ UNCHANGED <<dwarf, order, dieTags, anonCount, abiStatus>>

(* Nothing catches the ValueError of _member_offset.                         *)
UnknownLocation ==
  /\ AtChild /\ Kept
  /\ ~Decodable(Child.loc)
  /\ abiStatus' = "ValueError"
  /\ UNCHANGED <<dwarf, stack, structs, order, dieTags, anonCount>>

AtZero(members) ==
  [k \in {j \in DOMAIN members : members[j].offset = 0} |-> members[k]]

(* Mutant: a definition takes its place when it is begun.                    *)
LeaveStruct_FirstSeen ==
  /\ AtEnd
  /\ structs' = IF structs[TopTag].kind = "union"
                THEN [structs EXCEPT ![TopTag].members = AtZero(@)] ELSE structs
  /\ order' = <<TopTag>> \o order
  /\ stack' = Callers
  /\ abiStatus' = IF Callers = <<>> THEN "emitted" ELSE abiStatus
  /\ UNCHANGED <<dwarf, dieTags, anonCount>>

(* The second half of emit_struct.  (The array that pins the size of a union *)
(* is part of LayoutRepair!Size.)                                            *)
LeaveStruct ==
  /\ AtEnd
  /\ structs' = IF structs[TopTag].kind = "union"
                THEN [structs EXCEPT ![TopTag].members = AtZero(@)] ELSE structs
  /\ order' = Append(order, TopTag)
  /\ stack' = Callers
  /\ abiStatus' = IF Callers = <<>> THEN "emitted" ELSE abiStatus
  /\ UNCHANGED <<dwarf, dieTags, anonCount>>

Extract ==
  \/ EmitRoot \/ NoRoot
  \/ DropMember \/ EmitMemberType \/ KeepMember \/ UnknownLocation \/ LeaveStruct

-----------------------------------------------------------------------------
TypeOK ==
  /\ stack \in Seq([die : DOMAIN Dies, child : Nat \ {0}])
  /\ DOMAIN dieTags \subseteq DOMAIN Dies
  /\ \A d \in DOMAIN dieTags : dieTags[d] \in Tags
  /\ \A t \in Tags : structs[t].kind \in {"struct", "union"} /\ structs[t].size > 0
  /\ order \in Seq(Tags)
  /\ anonCount \in Nat
  /\ abiStatus \in {"loaded", "emitting", "emitted", "SystemExit", "ValueError"}

(* C reads the header from the top: what a definition holds by value has     *)
(* been defined above it, whichever member asked for it first.               *)
DefinedBeforeUse ==
  \A i \in DOMAIN order : \A k \in DOMAIN structs[order[i]].members :
    LET tag == structs[order[i]].members[k].tag
    IN tag = NoName \/ \E j \in 1..(i - 1) : order[j] = tag

(* Distinct types have distinct tags, also when types share a name or a name *)
(* of the source looks like one the script makes, and none is defined twice. *)
OneTagPerType ==
  /\ \A d, e \in DOMAIN dieTags : dieTags[d] = dieTags[e] => d = e
  /\ \A i, j \in DOMAIN order : order[i] = order[j] => i = j

(* What emit_struct ought to keep, said of the debug information alone: the  *)
(* named members, but bitfields and flexible arrays, whose type bottoms out  *)
(* in a scalar cffi knows or in a complete type with a size.  `place` is     *)
(* where the member really is; the script only sees its encoding, `loc`.     *)
Representable(m) ==
  /\ m.name # NoName /\ ~m.bits /\ ~Unsized(Dies, m.type)
  /\ LET t == Leaf(Dies, m.type)
     IN Scalar(Dies, t) \/ (Compound(Dies, t) /\ Resolvable(t))
KeepsWhatItCan ==
  abiStatus = "emitted" =>
    \A d \in DOMAIN dieTags :
      LET kept == structs[dieTags[d]].members
          children == Dies[d].members
      IN /\ DOMAIN kept = {k \in DOMAIN children :
                            /\ Representable(children[k])
                            /\ Dies[d].tag = "union" => children[k].place = 0}
         /\ \A k \in DOMAIN kept : kept[k].offset = children[k].place
=============================================================================
