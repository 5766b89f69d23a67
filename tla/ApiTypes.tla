------------------------------ MODULE ApiTypes ------------------------------
(* ApiCdefEmitter: the cdef of the compiled module.  A named type becomes a  *)
(* definition of its own that ends in `...;`, so the C compiler lays it out  *)
(* and members that cannot be written are left out.  What an anonymous type  *)
(* holds is written in place; cffi allows no `...` there, so everything in   *)
(* it must be written or none of it is.  A frame of the stack is a call of   *)
(* _members_body; `answer` is what _inline_body has returned.                *)
EXTENDS Dwarf, FiniteSets

VARIABLES
  dwarf,
  apiStack,   \* frames: the type, partial or not, the child, the lines so far
  answer,     \* for the child on top: none yet, failed, or a body
  defs,       \* definitions in order: type, lines
  dieRefs,    \* offset of an entry -> what it is referred to by: kind, name
  emittedNames,
  apiStatus

vars == <<dwarf, apiStack, answer, defs, dieRefs, emittedNames, apiStatus>>

Dies == dwarf.dies

Unanswered == [form |-> "none"]
Failed == [form |-> "failed"]
Body(lines) == [form |-> "body", lines |-> lines]

(* Mutant: every type is referred to as a struct.                            *)
Reference_AlwaysStruct(d) == [kind |-> "struct", name |-> Dies[d].name]

(* "struct NAME" or "union NAME": the kind is that of the entry itself.      *)
Reference(d) == [kind |-> Dies[d].tag, name |-> Dies[d].name]
NoRef == [kind |-> "none", name |-> NoName]

Fresh ==
  /\ apiStack = <<>> /\ answer = Unanswered
  /\ defs = <<>> /\ emittedNames = {}
  /\ dieRefs = [d \in {} |-> NoRef]
  /\ apiStatus = "idle"

Frame(d, partial) == [die |-> d, partial |-> partial, child |-> 1, lines |-> <<>>]

(* emit, for a type whose name is new: the name is taken before the members  *)
(* are looked at, the definition is written after them.                      *)
Define(d, callers) ==
  /\ dieRefs' = Put(dieRefs, d, Reference(d))
  /\ emittedNames' = emittedNames \cup {Dies[d].name}
  /\ apiStack' = Append(callers, Frame(d, TRUE))
  /\ UNCHANGED <<dwarf, answer, defs>>

(* render                                                                    *)
Render(root) ==
  /\ apiStatus = "idle"
  /\ ~Dies[root].decl /\ Dies[root].name # NoName
  /\ Define(root, <<>>)
  /\ apiStatus' = "rendering"

RootUnnamed(root) ==
  /\ apiStatus = "idle"
  /\ Dies[root].decl \/ Dies[root].name = NoName
  /\ apiStatus' = "SystemExit"
  /\ UNCHANGED <<dwarf, apiStack, answer, defs, dieRefs, emittedNames>>

-----------------------------------------------------------------------------
Top == apiStack[Len(apiStack)]
Callers == SubSeq(apiStack, 1, Len(apiStack) - 1)
Child == Dies[Top.die].members[Top.child]
Type == Leaf(Dies, Child.type)

Rendering == apiStatus = "rendering" /\ apiStack # <<>>
AtChild == Rendering /\ Top.child \in DOMAIN Dies[Top.die].members
AtEnd == Rendering /\ Top.child \notin DOMAIN Dies[Top.die].members

(* The branches of _member_type for a struct or union.                       *)
ByName == Compound(Dies, Type) /\ Dies[Type].name # NoName /\ Top.partial
InPlace == Compound(Dies, Type) /\ ~ByName
Pending ==
  \/ ByName /\ Type \notin DOMAIN dieRefs /\ ~Dies[Type].decl
  \/ InPlace /\ answer = Unanswered /\ ~Dies[Type].decl

(* _member_type returns a type.                                              *)
Rendered ==
  /\ ~Unsized(Dies, Child.type)
  /\ \/ Scalar(Dies, Type)
     \/ ByName /\ Type \in DOMAIN dieRefs
     \/ InPlace /\ answer.form = "body"

Unrendered == ~Pending /\ ~Rendered

EmitMemberType ==
  /\ AtChild /\ ByName /\ Pending
  /\ Dies[Type].name \notin emittedNames
  /\ Define(Type, apiStack)
  /\ UNCHANGED apiStatus

(* Another entry with a name that is taken: the first one stands for it, and *)
(* is referred to by the kind of the other.                                  *)
ReuseName ==
  /\ AtChild /\ ByName /\ Pending
  /\ Dies[Type].name \in emittedNames
  /\ dieRefs' = Put(dieRefs, Type, Reference(Type))
  /\ UNCHANGED <<dwarf, apiStack, answer, defs, emittedNames, apiStatus>>

WriteInPlace ==
  /\ AtChild /\ InPlace /\ Pending
  /\ apiStack' = Append(apiStack, Frame(Type, FALSE))
  /\ UNCHANGED <<dwarf, answer, defs, dieRefs, emittedNames, apiStatus>>

NextChild(lines) ==
  /\ apiStack' = Append(Callers, [Top EXCEPT !.child = @ + 1, !.lines = lines])
  /\ answer' = Unanswered
  /\ UNCHANGED <<dwarf, defs, dieRefs, emittedNames, apiStatus>>

(* In a definition with `...;`: what cannot be written, bitfields, and       *)
(* unnamed members not written in place.                                     *)
OmitMember ==
  /\ AtChild /\ Top.partial
  /\ \/ Unrendered
     \/ Rendered /\ Child.bits
     \/ Rendered /\ Child.name = NoName /\ ~InPlace
  /\ NextChild(Top.lines)

Give(a) ==
  /\ apiStack' = Callers
  /\ answer' = a
  /\ UNCHANGED <<dwarf, defs, dieRefs, emittedNames, apiStatus>>

(* In place, one member that cannot be written costs the whole type.         *)
GiveUpInPlace ==
  /\ AtChild /\ ~Top.partial
  /\ \/ Unrendered
     \/ Rendered /\ Child.bits /\ (Child.name = NoName \/ IsArray(Dies, Child.type))
     \/ Rendered /\ ~Child.bits /\ Child.name = NoName /\ ~InPlace
  /\ Give(Failed)

Line ==
  [child |-> Top.child, bits |-> Child.bits,
   ref |-> IF ByName THEN dieRefs[Type] ELSE NoRef,
   body |-> IF InPlace THEN answer.lines ELSE <<>>]

(* Mutant: bitfields are declared in every struct.                           *)
WriteMember_AllBitfields ==
  /\ AtChild /\ Rendered
  /\ Child.name # NoName \/ (InPlace /\ ~Child.bits)
  /\ ~(Child.bits /\ IsArray(Dies, Child.type))
  /\ NextChild(Append(Top.lines, Line))

WriteMember ==
  /\ AtChild /\ Rendered
  /\ Child.bits => ~Top.partial /\ ~IsArray(Dies, Child.type)
  /\ Child.name # NoName \/ (InPlace /\ ~Child.bits)
  /\ NextChild(Append(Top.lines, Line))

LeaveDefinition ==
  /\ AtEnd /\ Top.partial
  /\ defs' = Append(defs, [die |-> Top.die, lines |-> Top.lines])
  /\ apiStack' = Callers
  /\ apiStatus' = IF Callers = <<>> THEN "rendered" ELSE apiStatus
  /\ UNCHANGED <<dwarf, answer, dieRefs, emittedNames>>

(* An empty body is refused: cffi gives an empty struct a size of one.       *)
LeaveInPlace ==
  /\ AtEnd /\ ~Top.partial
  /\ Give(IF Top.lines = <<>> THEN Failed ELSE Body(Top.lines))

Next(root) ==
  \/ Render(root) \/ RootUnnamed(root)
  \/ EmitMemberType \/ ReuseName \/ WriteInPlace
  \/ OmitMember \/ GiveUpInPlace \/ WriteMember \/ LeaveDefinition \/ LeaveInPlace
-----------------------------------------------------------------------------
(* The lines of a body, those in place at any depth included.                *)
Inside(lines) ==
  LET depth == Cardinality(DOMAIN Dies)
      in[n \in 0..depth] ==
        IF n = 0 THEN {lines[i] : i \in DOMAIN lines}
        ELSE LET known == in[n - 1]
             IN known \cup UNION {{l.body[j] : j \in DOMAIN l.body} : l \in known}
  IN in[depth]

(* emit relies on it that entries of one name are the same type.  Two of     *)
(* them may differ in what is inside; C allows no two kinds of one name.     *)
OneKindPerName ==
  \A d, e \in DOMAIN Dies :
    Compound(Dies, d) /\ Compound(Dies, e) /\ Dies[d].name = Dies[e].name /\ Dies[d].name # NoName
      => Dies[d].tag = Dies[e].tag
Defined(i, ref) ==
  \E j \in 1..i :
    /\ Dies[defs[j].die].name = ref.name
    /\ OneKindPerName => Dies[defs[j].die].tag = ref.kind

(* The C compiler sees one definition of each name, and before any member of *)
(* that type, which names its kind; and there is nothing in the cdef that    *)
(* cffi refuses: a bitfield in a struct that ends in `...;`, or such a       *)
(* struct inside one written in place.                                       *)
CdefAccepted ==
  \A i \in DOMAIN defs :
    /\ \A j \in DOMAIN defs : Dies[defs[i].die].name = Dies[defs[j].die].name => i = j
    /\ \A l \in Inside(defs[i].lines) :
         l.ref = NoRef \/ Defined(i - 1, l.ref)
    /\ \A k \in DOMAIN defs[i].lines :
         /\ ~defs[i].lines[k].bits
         /\ \A l \in Inside(defs[i].lines[k].body) : l.ref = NoRef

(* What ought to be written, said of the debug information alone.            *)
CompleteInPlace[d \in DOMAIN Dies] ==
  /\ ~Dies[d].decl /\ Len(Dies[d].members) > 0
  /\ \A k \in DOMAIN Dies[d].members :
       LET m == Dies[d].members[k]
           t == Leaf(Dies, m.type)
       IN /\ ~Unsized(Dies, m.type)
          /\ Scalar(Dies, t) \/ (Compound(Dies, t) /\ CompleteInPlace[t])
          /\ m.bits => m.name # NoName /\ ~IsArray(Dies, m.type)
          /\ m.name = NoName => Compound(Dies, t)
Writable(m) ==
  LET t == Leaf(Dies, m.type)
  IN /\ ~m.bits /\ ~Unsized(Dies, m.type)
     /\ \/ Scalar(Dies, t) /\ m.name # NoName
        \/ /\ Compound(Dies, t)
           /\ IF Dies[t].name = NoName THEN CompleteInPlace[t]
              ELSE ~Dies[t].decl /\ m.name # NoName
WritesWhatItCan ==
  apiStatus = "rendered" =>
    \A i \in DOMAIN defs :
      LET children == Dies[defs[i].die].members
      IN {defs[i].lines[k].child : k \in DOMAIN defs[i].lines}
           = {k \in DOMAIN children : Writable(children[k])}
=============================================================================
