------------------------------- MODULE Dwarf --------------------------------
(* The debug information penguin-env-cffi-gen.py reads, and its helpers for  *)
(* walking it.  A debugging entry (DIE) is known by its offset; an attribute *)
(* that is absent has the value NoDie, NoName or NoSize.  An identifier is a *)
(* tuple so that the tags the script makes by appending a number to one can  *)
(* meet a name of the source: <<"foo", 2>> is foo_2, <<"anon", 1>> is anon1. *)
EXTENDS Integers, Sequences, FiniteSets

CONSTANT Graphs   \* libraries: dies, offset -> entry; cus, compilation units

NoDie == 0
NoName == <<>>
NoSize == -1

(* Mutant: the second continuation byte is shifted like the first.           *)
Uleb_OneShift(bytes) ==
  LET value[i \in 1..Len(bytes)] ==
        (bytes[i] % 128) + (IF bytes[i] < 128 \/ i = Len(bytes) THEN 0 ELSE value[i + 1])
  IN IF bytes = <<>> THEN 0 ELSE value[1]

(* DW_OP_plus_uconst's operand: seven bits a byte, lowest first, up to the   *)
(* first byte without the top bit.                                           *)
Uleb(bytes) ==
  LET value[i \in 1..Len(bytes)] ==
        (bytes[i] % 128) +
        (IF bytes[i] < 128 \/ i = Len(bytes) THEN 0 ELSE 128 * value[i + 1])
  IN IF bytes = <<>> THEN 0 ELSE value[1]

(* DW_AT_data_member_location: absent, a number, or an expression.           *)
Decodable(loc) == loc.form = "expression" => loc.op = 35
MemberOffset(loc) ==
  IF loc.form = "absent" THEN 0
  ELSE IF loc.form = "number" THEN loc.value ELSE Uleb(loc.bytes)

(* The types that have a C name in BASE_TYPES, by encoding and size.         *)
BaseTypes ==
  ({"boolean", "signed char", "unsigned char"} \X {1})
    \cup ({"signed", "unsigned"} \X {1, 2, 4, 8})
    \cup ({"float"} \X {4, 8}) \cup ({"UTF"} \X {1, 2, 4})

Qualifiers == {"const", "volatile", "restrict", "atomic"}

ResolveTypedefs(D, t) ==
  LET target[u \in DOMAIN D \cup {NoDie}] ==
        IF u # NoDie /\ D[u].tag \in Qualifiers \cup {"typedef"} THEN target[D[u].of] ELSE u
  IN target[t]

IsArray(D, t) ==
  LET r == ResolveTypedefs(D, t) IN r # NoDie /\ D[r].tag = "array"

(* What the arrays of a member's type are made of in the end.                *)
Leaf(D, t) ==
  LET leaf[u \in DOMAIN D \cup {NoDie}] ==
        IF IsArray(D, u) THEN leaf[D[ResolveTypedefs(D, u)].of] ELSE ResolveTypedefs(D, u)
  IN leaf[t]

(* One entry per dimension: an element count, an upper bound, or neither.    *)
ArrayDims(die) ==
  IF die.dims = <<>> THEN <<0>>
  ELSE [i \in DOMAIN die.dims |->
          CASE die.dims[i].form = "count" -> die.dims[i].n
            [] die.dims[i].form = "upper" -> die.dims[i].n + 1
            [] OTHER -> 0]

(* The array suffix of a member: the dimensions of the arrays on the way.    *)
Dims(D, t) ==
  LET dims[u \in DOMAIN D \cup {NoDie}] ==
        IF IsArray(D, u)
        THEN LET a == D[ResolveTypedefs(D, u)] IN ArrayDims(a) \o dims[a.of]
        ELSE <<>>
  IN dims[t]

(* One of them is not positive (a flexible array member).                    *)
Unsized(D, t) == \E i \in DOMAIN Dims(D, t) : Dims(D, t)[i] <= 0

(* How many elements they make.                                              *)
Count(D, t) ==
  LET dims == Dims(D, t)
      product[i \in 0..Len(dims)] == IF i = 0 THEN 1 ELSE dims[i] * product[i - 1]
  IN product[Len(dims)]

Compound(D, t) == t # NoDie /\ D[t].tag \in {"struct", "union"}

(* C has no type that contains itself: what a member holds by value is       *)
(* complete before the member.  Offsets of entries are numbered that way.    *)
WellFounded(D) ==
  \A d \in DOMAIN D : \A k \in DOMAIN D[d].members :
    LET t == Leaf(D, D[d].members[k].type)
    IN Compound(D, t) => t \in DOMAIN D /\ t < d

(* The cases of member_ctype that need no definition of their own.           *)
Scalar(D, t) ==
  /\ t # NoDie
  /\ \/ D[t].tag = "pointer"
     \/ D[t].tag = "base" /\ <<D[t].enc, D[t].size>> \in BaseTypes
     \/ /\ D[t].tag = "enum"
        /\ LET size == IF D[t].size \in {NoSize, 0} THEN 4 ELSE D[t].size
           IN <<"unsigned", size>> \in BaseTypes

Put(f, x, v) == [y \in DOMAIN f \cup {x} |-> IF y = x THEN v ELSE f[y]]
-----------------------------------------------------------------------------
(* find_root_dies: target units first, and in each the first typedef and the *)
(* first structure that will do.                                             *)
TopDies(info) ==
  LET units == SelectSeq(info.cus, LAMBDA cu : cu.target)
                 \o SelectSeq(info.cus, LAMBDA cu : ~cu.target)
      from[i \in 1..(Len(units) + 1)] ==
        IF i > Len(units) THEN <<>> ELSE units[i].dies \o from[i + 1]
  IN from[1]

EnvDie(info) ==
  LET D == info.dies
      found == SelectSeq(TopDies(info), LAMBDA t :
                 /\ D[t].tag = "typedef" /\ D[t].name = <<"CPUArchState">>
                 /\ D[t].of # NoDie /\ D[D[t].of].size # NoSize)
  IN IF found = <<>> THEN NoDie ELSE D[found[1]].of

CpuStateFound(info) ==
  \E i \in DOMAIN TopDies(info) :
    LET die == info.dies[TopDies(info)[i]]
    IN die.tag = "struct" /\ die.name = <<"CPUState">> /\ die.size # NoSize

(* What a compiler writes for a member at `place` (DWARF, 5.7.6 and 7.6):    *)
(* nothing at the start, the number, or an expression.  ULEB128 writes what  *)
(* is left of the number seven bits a byte; the top bit says more follow.    *)
Encodes(bytes, n) ==
  LET rest[i \in 1..Len(bytes)] == IF i = 1 THEN n ELSE rest[i - 1] \div 128
  IN /\ bytes \in Seq(0..255) \ {<<>>}
     /\ \A i \in 1..Len(bytes) :
          /\ bytes[i] % 128 = rest[i] % 128
          /\ bytes[i] < 128 <=> i = Len(bytes)
     /\ rest[Len(bytes)] < 128
LocatedAt(loc, place) ==
  \/ loc.form = "absent" /\ place = 0
  \/ loc.form = "number" /\ loc.value = place
  \/ loc.form = "expression" /\ (loc.op = 35 => Encodes(loc.bytes, place))

(* A bitfield may have a bit offset and no location.                         *)
LaidOut(D) ==
  \A d \in DOMAIN D :
    /\ D[d].size \in Nat \cup {NoSize}
    /\ Len(D[d].members) \in Nat /\ DOMAIN D[d].members = 1..Len(D[d].members)
    /\ \A k \in DOMAIN D[d].members :
         LET m == D[d].members[k]
         IN m.place \in Nat /\ (~m.bits => LocatedAt(m.loc, m.place))

(* In a C file a tag names one type, so the tags held by value never lead    *)
(* back to where they began: of any set of tags, one is of no type that      *)
(* holds another.  The emitter counts on it across the files of a library,   *)
(* whose types with one tag it takes for the same.                           *)
NamedOnce(D) ==
  LET Tagged == {d \in DOMAIN D : Compound(D, d) /\ D[d].name # NoName}
  IN \A some \in (SUBSET {D[d].name : d \in Tagged}) \ {{}} :
       \E name \in some : \A d \in Tagged : D[d].name = name =>
         \A k \in DOMAIN D[d].members :
           LET t == Leaf(D, D[d].members[k].type)
           IN Compound(D, t) => D[t].name \notin some

(* Names are tuples; types are entries, or void.  C has no array of itself.  *)
Typed(D) ==
  /\ \A d \in DOMAIN D :
       /\ Len(D[d].name) \in Nat /\ D[d].name = [i \in 1..Len(D[d].name) |-> D[d].name[i]]
       /\ \A k \in DOMAIN D[d].members : D[d].members[k].type \in DOMAIN D \cup {NoDie}
  /\ \A t \in DOMAIN D \cup {NoDie} : IsArray(D, t) =>
       LET a == D[ResolveTypedefs(D, t)]
       IN ArrayDims(a) \in Seq(Int) /\ a.of \in DOMAIN D \cup {NoDie} /\ a.of < t

ASSUME GraphsAssumption ==
  \A g \in Graphs :
    /\ DOMAIN g.dies \subseteq Nat \ {NoDie} /\ IsFiniteSet(DOMAIN g.dies)
    /\ WellFounded(g.dies) /\ LaidOut(g.dies) /\ NamedOnce(g.dies) /\ Typed(g.dies)
    /\ EnvDie(g) \in DOMAIN g.dies \cup {NoDie}
    /\ EnvDie(g) # NoDie => Compound(g.dies, EnvDie(g))
=============================================================================
