--------------------------- MODULE MCLayoutRepair ---------------------------
(* Layouts for TLC: every struct of at most two members whose DWARF layout   *)
(* is possible in C (packed, over-aligned, with gaps left by members that    *)
(* were dropped), alone or inside a second struct or union.                  *)
EXTENDS LayoutRepair, FiniteSets

CONSTANTS MaxInner, MaxOuter   \* bounds on the DWARF sizes

Scalars == {[size |-> s, align |-> s, struct |-> 0, count |-> 1] : s \in {1, 2}}
Laid(t, o) == [size |-> t.size, align |-> t.align, struct |-> t.struct,
                 count |-> t.count, offset |-> o]

(* Member lists without overlap inside `size` bytes; `W(t)` is the width.    *)
Lists(Types, W(_), size) ==
  {<<>>}
  \cup {<<Laid(t, o)>> : <<t, o>> \in {p \in Types \X (0..size) : p[2] + W(p[1]) <= size}}
  \cup {<<Laid(p[1], p[2]), Laid(p[3], p[4])>> :
          p \in {q \in Types \X (0..size) \X Types \X (0..size) :
                  q[2] + W(q[1]) <= q[4] /\ q[4] + W(q[3]) <= size}}
AtZero(l) == \A k \in DOMAIN l : l[k].offset = 0
Unions(Types, W(_), size) ==
  {<<>>} \cup {<<Laid(t, 0)>> : t \in {u \in Types : W(u) <= size}}
  \cup {<<Laid(t, 0), Laid(u, 0)>> : <<t, u>> \in {p \in Types \X Types : W(p[1]) <= size /\ W(p[2]) <= size}}

Of(Types, W(_), size) ==
  [kind : {"struct"}, size : {size}, members : Lists(Types, W, size)]
    \cup [kind : {"union"}, size : {size}, members : Unions(Types, W, size)]

ScalarWidth(t) == t.size
Flat(max) == UNION {Of(Scalars, ScalarWidth, size) : size \in 1..max}
Nested == {[size |-> 1, align |-> 1, struct |-> 1, count |-> c] : c \in {1, 2}}
Outer(inner) ==
  LET W(t) == IF t.struct = 1 THEN t.count * inner.size ELSE t.size
  IN UNION {Of(Scalars \cup Nested, W, size) : size \in inner.size..MaxOuter}
MCInputs ==
  {<<d>> : d \in Flat(MaxOuter)} \cup UNION {{<<i, o>> : o \in Outer(i)} : i \in Flat(MaxInner)}
=============================================================================
