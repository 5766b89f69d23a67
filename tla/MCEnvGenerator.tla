--------------------------- MODULE MCEnvGenerator ---------------------------
(* Libraries for TLC.  The CPU state (entry 30) is made of two types, 20 and *)
(* 21, that may be structs or unions, named or not, share a name, or have a  *)
(* name that looks like a tag of the script; their members are scalars,      *)
(* bitfields, arrays, flexible arrays, types cffi has no name for, and each  *)
(* other.  MCGraphs lays them out as a C compiler would, packed or not.      *)
EXTENDS EnvGenerator, FiniteSetsExt, TLC

None == [form |-> "none"]
Entry == [tag |-> "base", of |-> NoDie, enc |-> "unsigned", size |-> NoSize, align |-> 1,
          name |-> NoName, decl |-> FALSE, dims |-> <<>>, members |-> <<>>]

U1 == 1
U4 == 2
Wide == 3
Pointer == 4
Enum == 5
Qualified == 7
Bytes2 == 8
Flexible == 9
Bytes130 == 10
Declared == 11
ZeroSize == 12
One == 20
Two == 21
Ones == 22
FlexibleOnes == 23
Root == 30

Base(size) == [Entry EXCEPT !.size = size, !.align = size]
Array(t, al, dims) == [Entry EXCEPT !.tag = "array", !.of = t, !.align = al, !.dims = dims]
Leaves ==
     (U1 :> Base(1)) @@ (U4 :> Base(4)) @@ (Wide :> Base(16))
  @@ (Pointer :> [Entry EXCEPT !.tag = "pointer", !.of = Root, !.size = 8, !.align = 8])
  @@ (Enum :> [Entry EXCEPT !.tag = "enum", !.align = 4])
  @@ (6 :> [Entry EXCEPT !.tag = "typedef", !.of = U4])
  @@ (Qualified :> [Entry EXCEPT !.tag = "const", !.of = 6, !.align = 4])
  @@ (Bytes2 :> Array(U1, 1, <<[form |-> "upper", n |-> 1]>>))
  @@ (Flexible :> Array(U4, 4, <<None>>))
  @@ (Bytes130 :> Array(Bytes2, 1, <<[form |-> "count", n |-> 65]>>))
  @@ (Declared :> [Entry EXCEPT !.tag = "struct", !.name = <<"decl">>, !.decl = TRUE])
  @@ (ZeroSize :> [Entry EXCEPT !.tag = "struct", !.size = 0])
  @@ (13 :> [Entry EXCEPT !.tag = "struct", !.name = <<"CPUState">>, !.size = 8])

(* sizeof and alignof of the real type.                                      *)
Real(D, t) ==
  LET leaf == Leaf(D, t)
  IN CASE D[leaf].tag = "enum" -> 4
       [] OTHER -> D[leaf].size
SizeOf(D, t) == IF Unsized(D, t) THEN 0 ELSE Count(D, t) * Real(D, t)

ULEB128(n) == IF n < 128 THEN <<n>> ELSE <<128 + (n % 128), n \div 128>>
Location(form, kind, place) ==
  CASE kind = "union" -> [form |-> "absent"]
    [] form = "number" -> [form |-> "number", value |-> place]
    [] form = "expression" -> [form |-> "expression", op |-> 35, bytes |-> ULEB128(place)]
    [] form = "unknown" -> [form |-> "expression", op |-> 16, bytes |-> ULEB128(place)]

(* A struct or union with these members, laid out by C.  DWARF gives a       *)
(* bitfield no member location.                                              *)
Named(t) == [name |-> <<"m">>, bits |-> FALSE, type |-> t]
Unnamed(t) == [Named(t) EXCEPT !.name = NoName]
Bits(t) == [Named(t) EXCEPT !.bits = TRUE]
Laid(D, kind, name, form, packed, ms) ==
  LET al(k) == IF packed THEN 1 ELSE D[Leaf(D, ms[k].type)].align
      rise(n, a) == IF n % a = 0 THEN n ELSE n + (a - (n % a))
      place[k \in 1..(Len(ms) + 1)] ==
        IF k = 1 \/ kind = "union" THEN 0
        ELSE LET before == place[k - 1] + SizeOf(D, ms[k - 1].type)
             IN IF k > Len(ms) THEN before ELSE rise(before, al(k))
      most == Max({1} \cup {al(k) : k \in DOMAIN ms})
      used == IF kind = "union" THEN Max({0} \cup {SizeOf(D, ms[k].type) : k \in DOMAIN ms})
              ELSE place[Len(ms) + 1]
  IN [Entry EXCEPT !.tag = kind, !.name = name, !.size = rise(used, most), !.align = most,
        !.members =
          [k \in DOMAIN ms |->
             [name |-> ms[k].name, bits |-> ms[k].bits, type |-> ms[k].type, place |-> place[k],
              loc |-> IF ms[k].bits THEN [form |-> "absent"]
                      ELSE Location(form, kind, place[k])]]]
-----------------------------------------------------------------------------
MembersOfOne ==
  {<<Named(U4)>>, <<Named(U1), Named(Qualified)>>, <<Bits(U4), Named(U1)>>,
   <<Named(U4), Named(Flexible)>>, <<Named(Wide)>>, <<Bits(U4)>>}
MembersOfTwo ==
  {<<Named(One)>>, <<Named(U1), Named(One)>>, <<Unnamed(One), Named(Enum)>>,
   <<Named(ZeroSize), Named(Ones)>>, <<Bits(U4), Named(Bytes2)>>, <<Bits(Bytes2), Named(Pointer)>>}
MembersOfRoot ==
  {<<Named(One), Named(Two)>>, <<Named(Bytes130), Named(Two), Named(FlexibleOnes)>>,
   <<Unnamed(Two), Named(Ones), Named(Declared)>>}
Holds(ms, t) == \E k \in DOMAIN ms : ms[k].type \in t

Foo == <<"foo">>
CPUArchState == <<"CPUArchState">>
Names == {[one |-> NoName, two |-> NoName, root |-> CPUArchState],
          [one |-> NoName, two |-> <<"anon", 1>>, root |-> CPUArchState],
          [one |-> Foo, two |-> <<"bar">>, root |-> NoName],
          [one |-> Foo, two |-> <<"bar">>, root |-> CPUArchState],
          [one |-> Foo, two |-> Foo, root |-> <<"foo", 2>>]}
Shapes ==
  {s \in [kind : {"struct", "union"}, ones : MembersOfOne, twos : MembersOfTwo,
          roots : MembersOfRoot, names : Names,
          form : {"number", "expression"}, packed : BOOLEAN] :
     (* No type contains one of its own name.                                *)
     s.names.one = Foo /\ s.names.two = Foo => ~Holds(s.twos, {One, Ones})}

(* Libraries the script gives up on come from this shape: no CPUState, a CPU *)
(* state without a size, a member location it does not know.                 *)
Plain == [kind |-> "struct", ones |-> <<Named(U4)>>, twos |-> <<Named(U1), Named(One)>>,
          roots |-> <<Named(One), Named(Two)>>, packed |-> FALSE, form |-> "number",
          names |-> [one |-> Foo, two |-> <<"bar">>, root |-> CPUArchState]]
Unknown == [Plain EXCEPT !.form = "unknown"]

(* A library is built from the inside out.                                   *)
WithOne ==
  {[s |-> s, one |-> Laid(Leaves, s.kind, s.names.one, s.form, s.packed, s.ones)] :
     s \in Shapes \cup {Plain, Unknown}}
WithArrays ==
  {[s |-> w.s,
    dies |-> Leaves @@ (One :> w.one)
               @@ (Ones :> Array(One, w.one.align, <<[form |-> "count", n |-> 2]>>))
               @@ (FlexibleOnes :> Array(One, w.one.align, <<>>))] : w \in WithOne}
WithTwo ==
  {[s |-> w.s, dies |-> w.dies @@ (Two :> Laid(w.dies, "struct", w.s.names.two, w.s.form, w.s.packed, w.s.twos))] :
     w \in WithArrays}
WithRoot ==
  {[s |-> w.s, dies |-> w.dies @@ (Root :> Laid(w.dies, "struct", w.s.names.root, w.s.form, w.s.packed, w.s.roots))
                          @@ (31 :> [Entry EXCEPT !.tag = "typedef", !.name = CPUArchState, !.of = Root])] :
     w \in WithTwo}

Units == <<[target |-> FALSE, dies |-> <<U4, 13>>], [target |-> TRUE, dies |-> <<U1, 31>>]>>
Libraries == {[dies |-> w.dies, cus |-> Units] : w \in WithRoot}
Unusable ==
  UNION {{[dies |-> w.dies, cus |-> Tail(Units)],
          [dies |-> [w.dies EXCEPT ![Root].size = NoSize], cus |-> Units],
          [dies |-> [w.dies EXCEPT ![Root].size = 0], cus |-> Units]} :
            w \in {v \in WithRoot : v.s = Plain}}

MCGraphs == Libraries \cup Unusable
=============================================================================
