------------------------- MODULE EnvGeneratorProofs -------------------------
(* What generate does, for every library.  The header: every type is defined *)
(* before it is held by value, has a tag of its own, and the members that    *)
(* cffi can express.  The cdef: it is accepted, and has what can be written. *)
EXTENDS EnvGenerator, FiniteSetTheorems, SequenceTheorems, WellFoundedInduction, TLAPS

(* Induction on the natural numbers, for a property given as a set.          *)
LEMMA NatSetInduction ==
  ASSUME NEW S, 0 \in S, \A n \in Nat : n \in S => n + 1 \in S
  PROVE  Nat \subseteq S
<1> DEFINE R == {p \in Nat \X Nat : p[1] < p[2]}
<1>1. R = OpToRel(<, Nat)
  BY DEF OpToRel
<1>2. IsWellFoundedOn(R, Nat)
  BY <1>1, NatLessThanWellFounded
<1> SUFFICES ASSUME Nat \ S # {} PROVE FALSE
  OBVIOUS
<1>3. PICK m \in Nat \ S : \A k \in Nat \ S : <<k, m>> \notin R
  BY <1>2, WFMin
<1>4. \A k \in Nat \ S : ~(k < m)
  BY <1>3
<1>5. m - 1 \in Nat /\ m - 1 \in S
  BY <1>4
<1> QED
  BY <1>5

(* What is left of a number before each byte: defined for any length.       *)
LEMMA RestOfNumber ==
  ASSUME NEW n \in Nat, NEW len \in Nat \ {0}
  PROVE  LET rest[i \in 1..len] == IF i = 1 THEN n ELSE rest[i - 1] \div 128
         IN /\ rest[1] = n
            /\ \A i \in 1..len : rest[i] \in Nat
            /\ \A i \in 2..len : rest[i] = rest[i - 1] \div 128
<1> DEFINE Step(f, i) == IF i = 1 THEN n ELSE f[i - 1] \div 128
           IsRest(f, N) == f = [i \in 1..N |-> Step(f, i)]
           S == {N \in Nat : \E f : IsRest(f, N + 1) /\ \A i \in 1..(N + 1) : f[i] \in Nat}
<1>1. 0 \in S
  <2> DEFINE g == [i \in 1..1 |-> n]
  <2>1. IsRest(g, 0 + 1) /\ \A i \in 1..1 : g[i] \in Nat
    OBVIOUS
  <2> QED
    BY <2>1
<1>2. ASSUME NEW N \in Nat, N \in S PROVE N + 1 \in S
  <2>1. PICK f : IsRest(f, N + 1) /\ \A i \in 1..(N + 1) : f[i] \in Nat
    BY <1>2
  <2> DEFINE newest == f[N + 1] \div 128
             g == [i \in 1..(N + 1 + 1) |-> IF i = N + 2 THEN newest ELSE f[i]]
  <2>2. ASSUME NEW i \in 1..(N + 2)
        PROVE  g[i] = Step(g, i) /\ g[i] \in Nat
    <3>1. CASE i = N + 2
      <4>1. g[i] = newest /\ g[i - 1] = f[N + 1] /\ i # 1 /\ N + 1 \in 1..(N + 1)
        BY <3>1
      <4>2. f[N + 1] \in Nat
        BY <2>1, <4>1
      <4> QED
        BY <4>1, <4>2, <3>1
    <3>2. CASE i \in 2..(N + 1)
      <4>1. g[i] = f[i] /\ g[i - 1] = f[i - 1] /\ i # 1 /\ i \in 1..(N + 1)
        BY <3>2
      <4> QED
        BY <4>1, <2>1
    <3>3. CASE i = 1
      BY <3>3, <2>1
    <3> QED
      BY <3>1, <3>2, <3>3
  <2>3. IsRest(g, N + 1 + 1) /\ \A i \in 1..(N + 1 + 1) : g[i] \in Nat
    <3>1. N + 1 + 1 = N + 2
      OBVIOUS
    <3>2. g = [i \in 1..(N + 1 + 1) |-> g[i]]
      OBVIOUS
    <3> HIDE DEF g, Step
    <3>3. g = [i \in 1..(N + 1 + 1) |-> Step(g, i)]
      BY <2>2, <3>1, <3>2
    <3> QED
      BY <2>2, <3>1, <3>3
  <2>4. \E h : IsRest(h, N + 1 + 1) /\ \A i \in 1..(N + 1 + 1) : h[i] \in Nat
    <3> HIDE DEF IsRest, g
    <3> QED
      BY <2>3
  <2> QED
    <3> HIDE DEF IsRest
    <3> QED
      BY <2>4
<1>3. \E f : IsRest(f, len) /\ \A i \in 1..len : f[i] \in Nat
  <2> HIDE DEF IsRest
  <2>1. len - 1 \in S
    <3> HIDE DEF S
    <3>1. Nat \subseteq S
      BY <1>1, <1>2, NatSetInduction
    <3> QED
      BY <3>1
  <2>2. (len - 1) + 1 = len
    OBVIOUS
  <2> QED
    BY <2>1, <2>2
<1> DEFINE rest == CHOOSE f : IsRest(f, len)
<1>4. IsRest(rest, len)
  <2> HIDE DEF IsRest
  <2> QED
    BY <1>3
<1>5. ASSUME NEW f, IsRest(f, len) PROVE \A i \in 1..len : f[i] = Step(f, i)
  <2> HIDE DEF Step
  <2> QED
    BY <1>5
<1>6. \A i \in 1..len : rest[i] = Step(rest, i)
  <2> HIDE DEF IsRest, Step, rest
  <2> QED
    BY <1>4, <1>5
<1> HIDE DEF rest
<1>7. \A i \in 1..len : rest[i] \in Nat
  <2> DEFINE T == {k \in Nat : k + 1 \in 1..len => rest[k + 1] \in Nat}
  <2>1. 0 \in T
    BY <1>6
  <2>2. ASSUME NEW k \in Nat, k \in T PROVE k + 1 \in T
    <3> SUFFICES ASSUME k + 2 \in 1..len PROVE rest[k + 2] \in Nat
      OBVIOUS
    <3>1. k + 1 \in 1..len /\ (k + 2) - 1 = k + 1 /\ k + 2 # 1
      OBVIOUS
    <3>2. rest[k + 1] \in Nat
      BY <2>2, <3>1
    <3>3. rest[k + 2] = rest[k + 1] \div 128
      BY <1>6, <3>1
    <3> QED
      BY <3>2, <3>3
  <2>3. Nat \subseteq T
    <3> HIDE DEF T
    <3> QED
      BY <2>1, <2>2, NatSetInduction
  <2> TAKE i \in 1..len
  <2>4. i - 1 \in T /\ (i - 1) + 1 = i
    BY <2>3
  <2> QED
    BY <2>4
<1>8. rest[1] = n /\ \A i \in 2..len : rest[i] = rest[i - 1] \div 128
  BY <1>6
<1> QED
  BY <1>7, <1>8 DEF rest

(* Decoding gives back what was encoded, for any number.                     *)
THEOREM UlebDecodes ==
  ASSUME NEW n \in Nat, NEW bytes, Encodes(bytes, n)
  PROVE  Uleb(bytes) = n
<1> DEFINE len == Len(bytes)
           rest == CHOOSE rest : rest = [i \in 1..len |-> IF i = 1 THEN n ELSE rest[i - 1] \div 128]
           Step(f, i) == (bytes[i] % 128) +
                         (IF bytes[i] < 128 \/ i = len THEN 0 ELSE 128 * f[i + 1])
           IsValue(f) == f = [i \in 1..len |-> Step(f, i)]
           value == CHOOSE f : IsValue(f)
           g == [i \in 1..len |-> rest[i]]
<1>1. /\ bytes \in Seq(0..255) /\ bytes # <<>>
      /\ \A i \in 1..len : /\ bytes[i] % 128 = rest[i] % 128
                           /\ bytes[i] < 128 <=> i = len
      /\ rest[len] < 128
  BY DEF Encodes
<1>2. len \in Nat \ {0} /\ \A i \in 1..len : bytes[i] \in 0..255
  <2> HIDE DEF rest, g, value, Step
  <2>1. bytes \in Seq(0..255) /\ bytes # <<>>
    BY <1>1
  <2>2. len \in Nat \ {0}
    BY <2>1, EmptySeq, Zenon
  <2>3. \A i \in 1..len : bytes[i] \in 0..255
    BY <2>1, ElementOfSeq, Zenon
  <2> QED
    BY <2>2, <2>3
<1>3. /\ rest[1] = n /\ \A i \in 1..len : rest[i] \in Nat
      /\ \A i \in 2..len : rest[i] = rest[i - 1] \div 128
  <2> HIDE DEF len
  <2>1. len \in Nat \ {0}
    BY <1>2
  <2> QED
    BY <2>1, RestOfNumber, Zenon
<1> HIDE DEF rest, len
<1>4. \A i \in 1..len : rest[i] = (rest[i] % 128) + (IF i = len THEN 0 ELSE 128 * rest[i + 1])
  <2> TAKE i \in 1..len
  <2>1. CASE i = len
    <3>1. \A x \in Nat : x < 128 => x = (x % 128) + 0
      OBVIOUS
    <3>2. rest[i] < 128 /\ rest[i] \in Nat
      BY <1>1, <1>3, <2>1
    <3> QED
      BY <2>1, <3>1, <3>2
  <2>2. CASE i # len
    <3>1. i + 1 \in 2..len /\ (i + 1) - 1 = i
      BY <1>2, <2>2
    <3>2. rest[i + 1] = rest[i] \div 128 /\ rest[i] \in Nat
      BY <1>3, <3>1
    <3>3. \A x \in Nat : x = (x % 128) + 128 * (x \div 128)
      OBVIOUS
    <3> QED
      BY <2>2, <3>2, <3>3
  <2> QED
    BY <2>1, <2>2
<1>5. IsValue(g)
  <2>1. ASSUME NEW i \in 1..len PROVE rest[i] = Step(g, i)
    <3>1. CASE i = len
      BY <1>1, <1>4, <3>1
    <3>2. CASE i # len
      <4>1. i + 1 \in 1..len
        BY <1>2, <3>2
      <4>2. g[i + 1] = rest[i + 1]
        BY <4>1
      <4> QED
        BY <1>1, <1>4, <3>2, <4>2
    <3> QED
      BY <3>1, <3>2
  <2> HIDE DEF Step
  <2> QED
    BY <2>1
<1>6. \E f : IsValue(f)
  <2> HIDE DEF IsValue, g
  <2> QED
    BY <1>5
<1>7. IsValue(value)
  <2> HIDE DEF IsValue
  <2> QED
    BY <1>6
<1>8. ASSUME NEW f, IsValue(f) PROVE \A i \in 1..len : f[i] = Step(f, i)
  <2> HIDE DEF Step
  <2> QED
    BY <1>8
<1>9. \A i \in 1..len : value[i] = Step(value, i)
  <2> HIDE DEF IsValue, Step, value
  <2> QED
    BY <1>7, <1>8
<1> HIDE DEF value
<1>10. value[1] = rest[1]
  <2> DEFINE S == {k \in Nat : k < len => value[len - k] = rest[len - k]}
  <2>1. 0 \in S
    <3>1. len \in 1..len /\ len - 0 = len
      BY <1>2
    <3> QED
      BY <3>1, <1>1, <1>4, <1>9
  <2>2. ASSUME NEW k \in Nat, k \in S PROVE k + 1 \in S
    <3> SUFFICES ASSUME k + 1 < len PROVE value[len - (k + 1)] = rest[len - (k + 1)]
      OBVIOUS
    <3> DEFINE i == len - (k + 1)
    <3>1. i \in 1..len /\ i # len /\ i + 1 = len - k
      BY <1>2
    <3>2. value[i + 1] = rest[i + 1]
      BY <2>2, <3>1, <1>2
    <3> HIDE DEF i
    <3>3. value[i] = (rest[i] % 128) + 128 * rest[i + 1]
      BY <1>1, <1>9, <3>1, <3>2
    <3>4. value[i] = rest[i]
      BY <1>4, <3>1, <3>3
    <3> QED
      BY <3>4 DEF i
  <2>3. len - 1 \in S
    <3> HIDE DEF S
    <3> QED
      BY <1>2, <2>1, <2>2, NatSetInduction
  <2>4. len - (len - 1) = 1 /\ len - 1 < len
    BY <1>2
  <2> QED
    BY <2>3, <2>4
<1>11. Uleb(bytes) = value[1]
  BY <1>1, Zenon DEF Uleb, value, len
<1> QED
  BY <1>3, <1>10, <1>11

Frames == [die : DOMAIN Dies, child : Nat]
Definition(kind, size, members) == [kind |-> kind, size |-> size, members |-> members]
InOrder(tag) == \E j \in DOMAIN order : order[j] = tag

Shape ==
  /\ dwarf \in Graphs
  /\ stack \in Seq(Frames)
  /\ order \in Seq(Tags)
  /\ \A d \in DOMAIN dieTags : dieTags[d] \in Tags
  /\ \A t \in Tags :
       structs[t] = Definition(structs[t].kind, structs[t].size, structs[t].members)

(* A call is only made for a type that its caller holds by value.            *)
Descending ==
  \A i, j \in DOMAIN stack : i < j => stack[j].die < stack[i].die

(* A tag is given when a call begins and takes its place when it returns.    *)
OnStack ==
  \A i \in DOMAIN stack :
    stack[i].die \in DOMAIN dieTags /\ ~InOrder(dieTags[stack[i].die])
Settled ==
  \A d \in DOMAIN dieTags :
    InOrder(dieTags[d]) \/ \E i \in DOMAIN stack : stack[i].die = d

(* Members refer to types whose definition is complete, also the members of  *)
(* definitions that are not.                                                 *)
Refers ==
  \A t \in Tags : \A k \in DOMAIN structs[t].members :
    structs[t].members[k].tag = NoName \/ InOrder(structs[t].members[k].tag)

Unread == abiStatus = "loaded" => stack = <<>> /\ DOMAIN dieTags = {}

AbiInv ==
  /\ Shape /\ Unread /\ Descending /\ OnStack /\ Settled /\ Refers
  /\ OneTagPerType /\ DefinedBeforeUse

(* What a call that has looked at the children before c has kept of entry d, *)
(* and what stays of it when the call returns.                               *)
KeptBefore(d, c) ==
  {k \in DOMAIN Dies[d].members : k < c /\ Representable(Dies[d].members[k])}
KeptAtLast(d) ==
  {k \in DOMAIN Dies[d].members :
     /\ Representable(Dies[d].members[k])
     /\ Dies[d].tag = "union" => Dies[d].members[k].place = 0}

Described(d) ==
  LET def == structs[dieTags[d]]
  IN /\ d \in DOMAIN Dies /\ Compound(Dies, d) /\ Resolvable(d)
     /\ def.kind = Dies[d].tag /\ def.size = Dies[d].size
     /\ \A k \in DOMAIN def.members : def.members[k].offset = Dies[d].members[k].place

KeepInv ==
  /\ anonCount \in Nat
  /\ abiStatus \in {"loaded", "emitting", "emitted", "SystemExit", "ValueError"}
  /\ \A t \in Tags : \E d \in DOMAIN dieTags : dieTags[d] = t
  /\ \A d \in DOMAIN dieTags : Described(d)
  /\ \A i \in DOMAIN stack :
       /\ stack[i].child \in 1..(Len(Dies[stack[i].die].members) + 1)
       /\ DOMAIN structs[dieTags[stack[i].die]].members = KeptBefore(stack[i].die, stack[i].child)
  /\ \A d \in DOMAIN dieTags :
       (\A i \in DOMAIN stack : stack[i].die # d)
         => DOMAIN structs[dieTags[d]].members = KeptAtLast(d)
  /\ abiStatus = "emitted" => stack = <<>>

(* The calls below the one on top of the stack.                              *)
LEMMA CallersAreBelow ==
  ASSUME stack \in Seq(Frames), stack # <<>>
  PROVE  /\ Callers \in Seq(Frames) /\ Len(Callers) = Len(stack) - 1
         /\ \A i \in 1..(Len(stack) - 1) : Callers[i] = stack[i]
<1> DEFINE n == Len(stack) - 1
<1>1. n \in Nat /\ \A i \in 1..n : stack[i] \in Frames
  OBVIOUS
<1> HIDE DEF n
<1>2. /\ SubSeq(stack, 1, n) \in Seq(Frames)
      /\ Len(SubSeq(stack, 1, n)) = IF 1 <= n THEN n - 1 + 1 ELSE 0
      /\ \A i \in 1..(n - 1 + 1) : SubSeq(stack, 1, n)[i] = stack[1 + i - 1]
  BY <1>1, SubSeqProperties
<1>3. \A i \in 1..n : SubSeq(stack, 1, n)[i] = stack[i]
  BY <1>1, <1>2
<1>4. Len(SubSeq(stack, 1, n)) = n
  BY <1>1, <1>2
<1>5. Callers = SubSeq(stack, 1, n)
  BY DEF Callers, n
<1> QED
  BY <1>2, <1>3, <1>4, <1>5 DEF n

(* What AbiInv says about entries and tags only depends on who is on the stack. *)
LEMMA NextChildKeepsCalls ==
  ASSUME stack \in Seq(Frames), stack # <<>>, NextChild
  PROVE  /\ stack' \in Seq(Frames)
         /\ DOMAIN stack' = DOMAIN stack
         /\ \A i \in DOMAIN stack : stack'[i].die = stack[i].die
<1>1. Len(stack) \in Nat \ {0} /\ Top \in Frames
  BY DEF Top
<1>2. Callers \in Seq(Frames) /\ Len(Callers) = Len(stack) - 1
      /\ \A i \in 1..(Len(stack) - 1) : Callers[i] = stack[i]
  BY CallersAreBelow
<1>3. [Top EXCEPT !.child = @ + 1] \in Frames /\ [Top EXCEPT !.child = @ + 1].die = Top.die
  BY <1>1 DEF Frames
<1>4. stack' = Append(Callers, [Top EXCEPT !.child = @ + 1])
  BY DEF NextChild
<1>5. stack' \in Seq(Frames) /\ Len(stack') = Len(stack)
  BY <1>1, <1>2, <1>3, <1>4
<1>6. \A i \in 1..Len(stack) : stack'[i].die = stack[i].die
  BY <1>1, <1>2, <1>3, <1>4 DEF Top
<1> QED
  BY <1>1, <1>5, <1>6

(* The call of emit_struct for an entry that has no tag.                     *)
LEMMA EnterKeepsInv ==
  ASSUME AbiInv, NEW d \in DOMAIN Dies, d \notin DOMAIN dieTags, Enter(d, stack),
         \A i \in DOMAIN stack : d < stack[i].die, abiStatus' # "loaded"
  PROVE  AbiInv'
<1> DEFINE frame == [die |-> d, child |-> 1]
<1>1. PICK tag : /\ tag \notin Tags
                 /\ dieTags' = Put(dieTags, d, tag)
                 /\ structs' = Put(structs, tag, [kind |-> Dies[d].tag, size |-> Dies[d].size,
                                                 members |-> [k \in {} |-> NoDie]])
  BY DEF Enter, IsFree
<1>2. stack' = Append(stack, frame) /\ UNCHANGED <<dwarf, order>> /\ Dies' = Dies
  BY DEF Enter, Dies
<1>3. /\ DOMAIN dieTags' = DOMAIN dieTags \cup {d} /\ dieTags'[d] = tag
      /\ \A e \in DOMAIN dieTags : dieTags'[e] = dieTags[e]
  BY <1>1 DEF Put
<1>4. /\ Tags' = Tags \cup {tag} /\ structs'[tag].members = [k \in {} |-> NoDie]
      /\ \A t \in Tags : structs'[t] = structs[t]
  BY <1>1 DEF Put, Tags
<1>5. /\ stack' \in Seq(Frames) /\ Len(stack') = Len(stack) + 1 /\ Len(stack) \in Nat
      /\ \A i \in 1..Len(stack) : stack'[i] = stack[i]
      /\ stack'[Len(stack) + 1].die = d
  BY <1>2 DEF AbiInv, Shape, Frames
<1>6. order \in Seq(Tags) /\ \A j \in DOMAIN order : order[j] \in Tags
  BY DEF AbiInv, Shape
<1>7. Shape'
  <2>1. \A t \in Tags' :
           structs'[t] = Definition(structs'[t].kind, structs'[t].size, structs'[t].members)
    <3>1. structs'[tag] = Definition(structs'[tag].kind, structs'[tag].size, structs'[tag].members)
      BY <1>1 DEF Put, Definition
    <3> QED
      BY <3>1, <1>4 DEF AbiInv, Shape
  <2> QED
    BY <2>1, <1>2, <1>3, <1>4, <1>5, <1>6 DEF AbiInv, Shape, Frames
<1>8. Descending'
  BY <1>5 DEF AbiInv, Descending
<1>9. OnStack'
  <2>1. ~InOrder(tag)
    BY <1>1, <1>6 DEF InOrder
  <2>2. \A i \in 1..Len(stack) : stack[i].die \in DOMAIN dieTags /\ ~InOrder(dieTags[stack[i].die])
    BY <1>5 DEF AbiInv, OnStack
  <2>3. \A i \in 1..(Len(stack) + 1) :
           stack'[i].die \in DOMAIN dieTags' /\ ~InOrder(dieTags'[stack'[i].die])
    BY <2>1, <2>2, <1>3, <1>5
  <2> QED
    BY <2>3, <1>2, <1>5 DEF OnStack, InOrder
<1>10. Settled'
  <2>1. \A e \in DOMAIN dieTags : InOrder(dieTags[e]) \/ \E i \in 1..Len(stack) : stack[i].die = e
    BY <1>5 DEF AbiInv, Settled
  <2>2. \E i \in DOMAIN stack' : stack'[i].die = d
    BY <1>5
  <2>3. \A e \in DOMAIN dieTags : (\E i \in 1..Len(stack) : stack[i].die = e)
                                  => \E i \in DOMAIN stack' : stack'[i].die = e
    BY <1>5
  <2> QED
    BY <2>1, <2>2, <2>3, <1>2, <1>3 DEF Settled, InOrder
<1>11. Refers'
  <2>1. \A t \in Tags : \A k \in DOMAIN structs'[t].members :
           structs'[t].members[k].tag = NoName \/ InOrder(structs'[t].members[k].tag)
    BY <1>4 DEF AbiInv, Refers
  <2> QED
    BY <2>1, <1>2, <1>4 DEF Refers, InOrder
<1>12. OneTagPerType'
  BY <1>1, <1>2, <1>3 DEF AbiInv, Shape, OneTagPerType
<1>13. DefinedBeforeUse'
  <2>1. \A i \in DOMAIN order : structs'[order[i]] = structs[order[i]]
    BY <1>4, <1>6
  <2> QED
    BY <2>1, <1>2 DEF AbiInv, DefinedBeforeUse
<1> QED
  BY <1>7, <1>8, <1>9, <1>10, <1>11, <1>12, <1>13 DEF AbiInv, Unread

(* A step to the next child that leaves entries, tags and the order alone.   *)
LEMMA NextChildKeepsInv ==
  ASSUME AbiInv, stack # <<>>, NextChild, UNCHANGED <<dwarf, order, dieTags, abiStatus>>,
         Tags' = Tags, Refers', DefinedBeforeUse', abiStatus # "loaded",
         \A t \in Tags : structs'[t] = Definition(structs'[t].kind, structs'[t].size,
                                                  structs'[t].members)
  PROVE  AbiInv'
<1>1. /\ stack' \in Seq(Frames) /\ DOMAIN stack' = DOMAIN stack
      /\ \A i \in DOMAIN stack : stack'[i].die = stack[i].die
  BY NextChildKeepsCalls DEF AbiInv, Shape
<1>2. Shape'
  BY <1>1 DEF AbiInv, Shape, Frames, Dies
<1>3. Descending'
  BY <1>1 DEF AbiInv, Descending
<1>4. OnStack'
  BY <1>1 DEF AbiInv, OnStack, InOrder
<1>5. Settled'
  BY <1>1 DEF AbiInv, Settled, InOrder
<1>6. OneTagPerType'
  BY DEF AbiInv, OneTagPerType
<1> QED
  BY <1>2, <1>3, <1>4, <1>5, <1>6 DEF AbiInv, Unread

(* Whose members are changed: the type on top of the stack, not yet in place.*)
LEMMA TopFacts ==
  ASSUME AbiInv, stack # <<>>
  PROVE  /\ Len(stack) \in DOMAIN stack /\ Top \in Frames
         /\ Top.die \in DOMAIN Dies /\ Top.die \in DOMAIN dieTags
         /\ TopTag \in Tags /\ ~InOrder(TopTag)
         /\ \A i \in DOMAIN stack : Top.die <= stack[i].die
<1>1. Len(stack) \in DOMAIN stack /\ Top \in Frames /\ \A i \in DOMAIN stack : stack[i] \in Frames
  BY DEF AbiInv, Shape, Top
<1>2. Top.die \in DOMAIN Dies /\ Top.die \in DOMAIN dieTags /\ TopTag \in Tags /\ ~InOrder(TopTag)
  BY <1>1 DEF AbiInv, Shape, OnStack, Top, TopTag, Frames
<1>3. \A i \in DOMAIN stack : stack[i].die \in Nat
  BY <1>1, GraphsAssumption DEF AbiInv, Shape, Frames, Dies
<1>4. \A i \in DOMAIN stack : Top.die <= stack[i].die
  <2> TAKE i \in DOMAIN stack
  <2>1. i = Len(stack) \/ i < Len(stack)
    BY DEF AbiInv, Shape
  <2> QED
    BY <2>1, <1>1, <1>3 DEF AbiInv, Descending, Top
<1> QED
  BY <1>1, <1>2, <1>4

LEMMA TypeIsBelow ==
  ASSUME AbiInv, AtChild, Compound(Dies, Type)
  PROVE  Type \in DOMAIN Dies /\ \A i \in DOMAIN stack : Type < stack[i].die
<1>1. Top.die \in DOMAIN Dies /\ Top.child \in DOMAIN Dies[Top.die].members
      /\ \A i \in DOMAIN stack : Top.die <= stack[i].die /\ stack[i].die \in DOMAIN Dies
  <2>1. stack # <<>> /\ Top.child \in DOMAIN Dies[Top.die].members
    BY DEF AtChild, Children
  <2>2. \A i \in DOMAIN stack : stack[i] \in Frames
    BY DEF AbiInv, Shape
  <2> QED
    BY <2>1, <2>2, TopFacts DEF Frames
<1>2. WellFounded(Dies) /\ DOMAIN Dies \subseteq Nat
  BY GraphsAssumption DEF AbiInv, Shape, Dies
<1>3. Type = Leaf(Dies, Dies[Top.die].members[Top.child].type)
  BY DEF Type, Child, Children
<1>4. Type \in DOMAIN Dies /\ Type < Top.die
  BY <1>1, <1>2, <1>3 DEF WellFounded
<1> QED
  BY <1>1, <1>2, <1>4

(* Both ways emit_struct changes a definition replace its members.          *)
LEMMA NewMembers ==
  ASSUME AbiInv, NEW t \in Tags, NEW m, structs' = [structs EXCEPT ![t].members = m]
  PROVE  /\ Tags' = Tags /\ \A u \in Tags \ {t} : structs'[u] = structs[u]
         /\ structs'[t] = Definition(structs[t].kind, structs[t].size, m)
         /\ structs'[t].members = m
<1> DEFINE before == Definition(structs[t].kind, structs[t].size, structs[t].members)
<1>1. structs[t] = before
  BY DEF AbiInv, Shape
<1>2. [before EXCEPT !.members = m] = Definition(structs[t].kind, structs[t].size, m)
  BY DEF Definition
<1> HIDE DEF before
<1>3. structs' = [structs EXCEPT ![t] = [structs[t] EXCEPT !.members = m]]
  OBVIOUS
<1>4. structs' = [structs EXCEPT ![t] = Definition(structs[t].kind, structs[t].size, m)]
  BY <1>1, <1>2, <1>3
<1>5. structs'[t] = Definition(structs[t].kind, structs[t].size, m)
  BY <1>4 DEF Tags
<1>6. structs'[t].members = m
  BY <1>5 DEF Definition
<1> QED
  BY <1>4, <1>5, <1>6 DEF Tags

(* They leave what Shape says of the definitions.                            *)
LEMMA NewMembersKeepDefinitions ==
  ASSUME AbiInv, NEW t \in Tags, NEW m, structs' = [structs EXCEPT ![t].members = m]
  PROVE  \A u \in Tags' :
           structs'[u] = Definition(structs'[u].kind, structs'[u].size, structs'[u].members)
<1>1. \A a, b, c : LET r == Definition(a, b, c) IN r = Definition(r.kind, r.size, r.members)
  BY DEF Definition
<1>2. /\ Tags' = Tags /\ structs'[t] = Definition(structs[t].kind, structs[t].size, m)
      /\ \A u \in Tags \ {t} : structs'[u] = structs[u]
  BY NewMembers
<1>3. structs'[t] = Definition(structs'[t].kind, structs'[t].size, structs'[t].members)
  BY <1>1, <1>2
<1>4. \A u \in Tags : structs[u] = Definition(structs[u].kind, structs[u].size, structs[u].members)
  BY DEF AbiInv, Shape
<1> QED
  BY <1>2, <1>3, <1>4
-----------------------------------------------------------------------------
LEMMA InitEstablishesInv == ASSUME Init PROVE AbiInv
<1> USE DEF Init, Fresh
<1>1. stack \in Seq(Frames) /\ order \in Seq(Tags)
  OBVIOUS
<1>2. DOMAIN dieTags = {} /\ Tags = {} /\ DOMAIN stack = {} /\ DOMAIN order = {}
  BY DEF Tags
<1> QED
  BY <1>1, <1>2 DEF AbiInv, Shape, Unread, Descending, OnStack, Settled, Refers,
                    OneTagPerType, DefinedBeforeUse

LEMMA EmitRootKeepsInv == ASSUME AbiInv, EmitRoot PROVE AbiInv'
<1>1. stack = <<>> /\ DOMAIN dieTags = {} /\ dwarf \in Graphs
  BY DEF EmitRoot, AbiInv, Unread, Shape
<1>2. EnvDie(dwarf) \in DOMAIN Dies
  BY <1>1, GraphsAssumption DEF EmitRoot, RootFound, Dies
<1>3. Enter(EnvDie(dwarf), stack)
  BY <1>1 DEF EmitRoot
<1> QED
  BY <1>1, <1>2, <1>3, EnterKeepsInv DEF EmitRoot

LEMMA EmitMemberTypeKeepsInv == ASSUME AbiInv, EmitMemberType PROVE AbiInv'
<1>1. Compound(Dies, Type) /\ Type \notin DOMAIN dieTags /\ AtChild
  BY DEF EmitMemberType, Pending
<1>2. Type \in DOMAIN Dies /\ \A i \in DOMAIN stack : Type < stack[i].die
  BY <1>1, TypeIsBelow
<1> QED
  BY <1>1, <1>2, EnterKeepsInv DEF EmitMemberType, AtChild

LEMMA DropMemberKeepsInv == ASSUME AbiInv, DropMember PROVE AbiInv'
<1>1. Tags' = Tags /\ Refers' /\ DefinedBeforeUse'
  BY DEF DropMember, Tags, AbiInv, Refers, InOrder, DefinedBeforeUse
<1>2. \A t \in Tags : structs'[t] = Definition(structs'[t].kind, structs'[t].size,
                                               structs'[t].members)
  BY DEF DropMember, AbiInv, Shape
<1> QED
  BY <1>1, <1>2, NextChildKeepsInv DEF DropMember, AtChild

LEMMA KeepMemberKeepsInv == ASSUME AbiInv, KeepMember PROVE AbiInv'
<1> DEFINE tag == IF Compound(Dies, Type) THEN dieTags[Type] ELSE NoName
           member == [type |-> Child.type, offset |-> MemberOffset(Child.loc), tag |-> tag]
<1>1. AtChild /\ stack # <<>> /\ abiStatus # "loaded"
  BY DEF KeepMember, AtChild
<1>2. TopTag \in Tags /\ ~InOrder(TopTag)
  BY <1>1, TopFacts
<1>3. tag = NoName \/ InOrder(tag)
  <2>1. CASE Compound(Dies, Type)
    <3>1. Type \in DOMAIN dieTags
      BY <2>1 DEF KeepMember, Kept, Scalar, Compound, Emitted
    <3>2. stack \in Seq(Frames) /\ \A i \in DOMAIN stack : Type < stack[i].die
      BY <1>1, <2>1, TypeIsBelow DEF AbiInv, Shape
    <3>3. Type \in Nat
      BY <1>1, <2>1, TypeIsBelow, GraphsAssumption DEF AbiInv, Shape, Dies
    <3>4. \A i \in DOMAIN stack : stack[i].die # Type
      BY <3>2, <3>3
    <3> QED
      BY <2>1, <3>1, <3>4 DEF AbiInv, Settled
  <2>2. CASE ~Compound(Dies, Type)
    BY <2>2
  <2> QED
    BY <2>1, <2>2
<1> HIDE DEF tag
<1>4. structs' = [structs EXCEPT ![TopTag].members = Put(@, Top.child, member)]
  BY DEF KeepMember, tag
<1>5. /\ Tags' = Tags
      /\ \A t \in Tags \ {TopTag} : structs'[t] = structs[t]
      /\ structs'[TopTag].members = Put(structs[TopTag].members, Top.child, member)
  BY <1>2, <1>4, NewMembers
<1>6. UNCHANGED <<dwarf, order, dieTags, abiStatus>> /\ NextChild
  BY DEF KeepMember
<1>7. Refers'
  <2>1. \A k \in DOMAIN structs'[TopTag].members :
           structs'[TopTag].members[k].tag = NoName \/ InOrder(structs'[TopTag].members[k].tag)
    BY <1>2, <1>3, <1>5 DEF Put, AbiInv, Refers
  <2>2. \A t \in Tags : \A k \in DOMAIN structs'[t].members :
           structs'[t].members[k].tag = NoName \/ InOrder(structs'[t].members[k].tag)
    BY <2>1, <1>5 DEF AbiInv, Refers
  <2> QED
    BY <2>2, <1>5, <1>6 DEF Refers, InOrder
<1>8. DefinedBeforeUse'
  <2>1. \A i \in DOMAIN order : structs'[order[i]] = structs[order[i]]
    BY <1>2, <1>5 DEF InOrder, AbiInv, Shape
  <2> QED
    BY <2>1, <1>6 DEF AbiInv, DefinedBeforeUse
<1>9. \A t \in Tags : structs'[t] = Definition(structs'[t].kind, structs'[t].size,
                                               structs'[t].members)
  BY <1>2, <1>4, <1>5, NewMembersKeepDefinitions
<1> QED
  BY <1>1, <1>5, <1>6, <1>7, <1>8, <1>9, NextChildKeepsInv

LEMMA LeaveStructKeepsInv == ASSUME AbiInv, LeaveStruct PROVE AbiInv'
<1>1. stack # <<>> /\ stack \in Seq(Frames) /\ order \in Seq(Tags) /\ abiStatus' # "loaded"
  BY DEF LeaveStruct, AtEnd, AbiInv, Shape
<1>2. /\ Len(stack) \in DOMAIN stack /\ TopTag \in Tags /\ ~InOrder(TopTag)
      /\ Top.die \in DOMAIN dieTags
  BY <1>1, TopFacts
<1>3. /\ stack' \in Seq(Frames) /\ Len(stack') = Len(stack) - 1
      /\ \A i \in 1..(Len(stack) - 1) : stack'[i] = stack[i]
  BY <1>1, CallersAreBelow DEF LeaveStruct
<1>4. UNCHANGED <<dwarf, dieTags>> /\ order' = Append(order, TopTag) /\ Dies' = Dies
  BY DEF LeaveStruct, Dies
<1>5. /\ order' \in Seq(Tags) /\ Len(order') = Len(order) + 1 /\ Len(order) \in Nat
      /\ \A i \in 1..Len(order) : order'[i] = order[i]
      /\ order'[Len(order) + 1] = TopTag
  BY <1>1, <1>2, <1>4
<1>6. /\ Tags' = Tags
      /\ \A t \in Tags : \A k \in DOMAIN structs'[t].members :
           k \in DOMAIN structs[t].members /\ structs'[t].members[k] = structs[t].members[k]
  <2>1. CASE structs[TopTag].kind = "union"
    <3>1. structs' = [structs EXCEPT ![TopTag].members = AtZero(@)]
      BY <2>1 DEF LeaveStruct
    <3>2. /\ Tags' = Tags /\ structs'[TopTag].members = AtZero(structs[TopTag].members)
          /\ \A t \in Tags \ {TopTag} : structs'[t] = structs[t]
      BY <1>2, <3>1, NewMembers
    <3> QED
      BY <3>2 DEF AtZero
  <2>2. CASE structs[TopTag].kind # "union"
    BY <2>2 DEF LeaveStruct, Tags
  <2> QED
    BY <2>1, <2>2
<1>7. \A tag : InOrder(tag)' <=> InOrder(tag) \/ tag = TopTag
  BY <1>1, <1>5 DEF InOrder
<1>8. Shape'
  <2>1. \A t \in Tags' :
           structs'[t] = Definition(structs'[t].kind, structs'[t].size, structs'[t].members)
    <3>1. CASE structs' = structs
      BY <3>1, <1>6 DEF AbiInv, Shape
    <3>2. CASE structs' = [structs EXCEPT ![TopTag].members = AtZero(@)]
      <4>1. structs' = [structs EXCEPT ![TopTag].members = AtZero(structs[TopTag].members)]
        BY <3>2
      <4> QED
        BY <4>1, <1>2, NewMembersKeepDefinitions
    <3> QED
      BY <3>1, <3>2 DEF LeaveStruct
  <2>2. dwarf' \in Graphs /\ stack' \in Seq(Frames') /\ order' \in Seq(Tags')
        /\ \A d \in DOMAIN dieTags' : dieTags'[d] \in Tags'
    BY <1>3, <1>4, <1>5, <1>6 DEF AbiInv, Shape, Frames
  <2> QED
    BY <2>1, <2>2 DEF Shape
<1>9. Descending'
  <2> SUFFICES ASSUME NEW i \in DOMAIN stack', NEW j \in DOMAIN stack', i < j
               PROVE  stack'[j].die < stack'[i].die
    BY DEF Descending
  <2>1. i \in 1..(Len(stack) - 1) /\ j \in 1..(Len(stack) - 1)
    BY <1>3
  <2>2. i \in DOMAIN stack /\ j \in DOMAIN stack
    BY <2>1, <1>1
  <2>3. stack'[i] = stack[i] /\ stack'[j] = stack[j]
    BY <2>1, <1>3
  <2>4. stack[j].die < stack[i].die
    BY <2>2 DEF AbiInv, Descending
  <2> QED
    BY <2>3, <2>4
<1>10. OnStack'
  <2>1. \A i \in 1..(Len(stack) - 1) : Top.die < stack[i].die
    BY <1>1, <1>2 DEF AbiInv, Descending, Top
  <2>2. Top.die \in Nat
    BY <1>2, TopFacts, GraphsAssumption, <1>1 DEF AbiInv, Shape, Dies
  <2>3. \A i \in 1..(Len(stack) - 1) :
          stack[i].die \in DOMAIN dieTags /\ ~InOrder(dieTags[stack[i].die]) /\ stack[i].die # Top.die
    BY <1>1, <2>1, <2>2 DEF AbiInv, OnStack
  <2>4. \A i \in 1..(Len(stack) - 1) : dieTags[stack[i].die] # TopTag
    BY <2>3, <1>2 DEF AbiInv, OneTagPerType, TopTag
  <2> QED
    BY <2>3, <2>4, <1>1, <1>3, <1>4, <1>7 DEF OnStack
<1>11. Settled'
  <2> SUFFICES ASSUME NEW d \in DOMAIN dieTags
               PROVE  InOrder(dieTags[d])' \/ \E i \in DOMAIN stack' : stack'[i].die = d
    BY <1>4 DEF Settled
  <2>1. CASE InOrder(dieTags[d])
    BY <2>1, <1>4, <1>7
  <2>2. CASE \E i \in DOMAIN stack : stack[i].die = d
    <3>1. PICK i \in 1..Len(stack) : stack[i].die = d
      BY <2>2, <1>1
    <3>2. CASE i = Len(stack)
      BY <3>1, <3>2, <1>4, <1>7 DEF Top, TopTag
    <3>3. CASE i # Len(stack)
      BY <3>1, <3>3, <1>1, <1>3
    <3> QED
      BY <3>2, <3>3
  <2> QED
    BY <2>1, <2>2 DEF AbiInv, Settled
<1>12. Refers'
  BY <1>6, <1>7 DEF AbiInv, Refers
<1>13. OneTagPerType'
  <2>1. \A i \in 1..Len(order) : order[i] # TopTag
    BY <1>1, <1>2 DEF InOrder
  <2>2. \A i, j \in 1..(Len(order) + 1) : order'[i] = order'[j] => i = j
    BY <2>1, <1>1, <1>5 DEF AbiInv, OneTagPerType
  <2> QED
    BY <2>2, <1>4, <1>5 DEF AbiInv, OneTagPerType
<1>14. DefinedBeforeUse'
  <2> SUFFICES ASSUME NEW i \in 1..(Len(order) + 1), NEW k \in DOMAIN structs'[order'[i]].members,
                      structs'[order'[i]].members[k].tag # NoName
               PROVE  \E j \in 1..(i - 1) : order'[j] = structs'[order'[i]].members[k].tag
    BY <1>5 DEF DefinedBeforeUse
  <2>1. CASE i = Len(order) + 1
    <3>1. k \in DOMAIN structs[TopTag].members
          /\ structs'[TopTag].members[k] = structs[TopTag].members[k]
      BY <2>1, <1>2, <1>5, <1>6
    <3>2. InOrder(structs[TopTag].members[k].tag)
      BY <2>1, <3>1, <1>2, <1>5 DEF AbiInv, Refers
    <3> QED
      BY <2>1, <3>1, <3>2, <1>5, <1>1 DEF InOrder
  <2>2. CASE i # Len(order) + 1
    <3>1. i \in DOMAIN order /\ order'[i] = order[i] /\ order[i] \in Tags
      BY <2>2, <1>1, <1>5
    <3>2. k \in DOMAIN structs[order[i]].members
          /\ structs'[order[i]].members[k] = structs[order[i]].members[k]
      BY <3>1, <1>6
    <3>3. PICK j \in 1..(i - 1) : order[j] = structs[order[i]].members[k].tag
      BY <3>1, <3>2 DEF AbiInv, DefinedBeforeUse
    <3> QED
      BY <3>1, <3>2, <3>3, <1>5
  <2> QED
    BY <2>1, <2>2
<1> QED
  BY <1>1, <1>8, <1>9, <1>10, <1>11, <1>12, <1>13, <1>14 DEF AbiInv, Unread

LEMMA StopKeepsInv == ASSUME AbiInv, NoRoot \/ UnknownLocation \/ UNCHANGED <<dwarf, abiVars>> PROVE AbiInv'
<1>1. UNCHANGED <<dwarf, stack, structs, order, dieTags>>
      /\ (abiStatus' = "loaded" => abiStatus = "loaded")
  BY DEF NoRoot, UnknownLocation, abiVars
<1>2. UNCHANGED <<Dies, Tags, Frames>> /\ \A tag : InOrder(tag)' <=> InOrder(tag)
  BY <1>1 DEF Dies, Tags, Frames, InOrder
<1>3. Shape' /\ Unread' /\ Descending' /\ OnStack' /\ Settled' /\ Refers'
  BY <1>1, <1>2 DEF AbiInv, Shape, Unread, Descending, OnStack, Settled, Refers
<1>4. OneTagPerType' /\ DefinedBeforeUse'
  BY <1>1 DEF AbiInv, OneTagPerType, DefinedBeforeUse
<1> QED
  BY <1>3, <1>4 DEF AbiInv

(* The emitter of the cdef only reads the debug information.                 *)
LEMMA ApiReads == ASSUME NEW root, Api!Next(root) PROVE dwarf' = dwarf
<1>1. CASE Api!Render(root) \/ Api!EmitMemberType
  BY <1>1 DEF Api!Render, Api!EmitMemberType, Api!Define
<1>2. CASE Api!RootUnnamed(root) \/ Api!ReuseName \/ Api!WriteInPlace
  BY <1>2 DEF Api!RootUnnamed, Api!ReuseName, Api!WriteInPlace
<1>3. CASE Api!OmitMember \/ Api!WriteMember
  BY <1>3 DEF Api!OmitMember, Api!WriteMember, Api!NextChild
<1>4. CASE Api!GiveUpInPlace \/ Api!LeaveInPlace
  BY <1>4 DEF Api!GiveUpInPlace, Api!LeaveInPlace, Api!Give
<1>5. CASE Api!LeaveDefinition
  BY <1>5 DEF Api!LeaveDefinition
<1> QED
  BY <1>1, <1>2, <1>3, <1>4, <1>5 DEF Api!Next

(* Calls are nested by value, tags in use are on the stack or in place, and  *)
(* what a member refers to is in place, whatever emit_struct does.           *)
THEOREM Invariance == Spec => []AbiInv
<1>1. Init => AbiInv
  BY InitEstablishesInv
<1>2. ASSUME AbiInv, Extract PROVE AbiInv'
  BY <1>2, EmitRootKeepsInv, EmitMemberTypeKeepsInv, DropMemberKeepsInv, KeepMemberKeepsInv,
     LeaveStructKeepsInv, StopKeepsInv DEF Extract
<1>3. ASSUME [Next]_vars, ~Extract PROVE UNCHANGED <<dwarf, abiVars>>
  BY <1>3, ApiReads DEF Next, VerifyAndRepair, Finished, vars
<1>4. AbiInv /\ [Next]_vars => AbiInv'
  BY <1>2, <1>3, StopKeepsInv
<1> QED
  BY <1>1, <1>4, PTL DEF Spec

-----------------------------------------------------------------------------
(* What was kept.                                                            *)
LEMMA LibraryFacts ==
  ASSUME AbiInv
  PROVE  DOMAIN Dies \subseteq Nat /\ LaidOut(Dies)
  BY GraphsAssumption DEF AbiInv, Shape, Dies

LEMMA OffsetIsPlace ==
  ASSUME AbiInv, NEW d \in DOMAIN Dies, NEW k \in DOMAIN Dies[d].members,
         ~Dies[d].members[k].bits, Decodable(Dies[d].members[k].loc)
  PROVE  MemberOffset(Dies[d].members[k].loc) = Dies[d].members[k].place
<1> DEFINE m == Dies[d].members[k]
<1>1. m.place \in Nat /\ LocatedAt(m.loc, m.place)
  BY LibraryFacts DEF LaidOut
<1> HIDE DEF m
<1>2. CASE m.loc.form = "absent" \/ m.loc.form = "number"
  BY <1>1, <1>2 DEF LocatedAt, MemberOffset, m
<1>3. CASE m.loc.form = "expression"
  <2>1. Encodes(m.loc.bytes, m.place)
    BY <1>1, <1>3 DEF LocatedAt, Decodable, m
  <2> QED
    BY <1>1, <1>3, <2>1, UlebDecodes DEF MemberOffset, m
<1> QED
  BY <1>1, <1>2, <1>3 DEF LocatedAt

LEMMA SameLibrary ==
  ASSUME dwarf' = dwarf
  PROVE  /\ Dies' = Dies
         /\ \A m : Representable(m)' <=> Representable(m)
         /\ \A d : Resolvable(d)' <=> Resolvable(d)
         /\ \A d, c : KeptBefore(d, c)' = KeptBefore(d, c)
         /\ \A d : KeptAtLast(d)' = KeptAtLast(d)
<1>1. Dies' = Dies
  BY DEF Dies
<1>2. \A d : Resolvable(d)' <=> Resolvable(d)
  BY <1>1 DEF Resolvable
<1>3. \A m : Representable(m)' <=> Representable(m)
  BY <1>1, Zenon DEF Representable, Resolvable
<1>4. \A d, c : KeptBefore(d, c)' = KeptBefore(d, c)
  BY <1>1, <1>3 DEF KeptBefore
<1>5. \A d : KeptAtLast(d)' = KeptAtLast(d)
  BY <1>1, <1>3 DEF KeptAtLast
<1> QED
  BY <1>1, <1>2, <1>3, <1>4, <1>5

(* A definition nobody touches stays described.                              *)
LEMMA StaysDescribed ==
  ASSUME dwarf' = dwarf, NEW d \in DOMAIN dieTags, Described(d),
         dieTags'[d] = dieTags[d], structs'[dieTags[d]] = structs[dieTags[d]]
  PROVE  Described(d)'
<1>1. Dies' = Dies /\ (Resolvable(d)' <=> Resolvable(d))
  BY SameLibrary
<1> QED
  BY <1>1 DEF Described

(* KeepInv after a step, said of the library before it.                      *)
LEMMA KeepInvAfter ==
  ASSUME dwarf' = dwarf, anonCount' \in Nat,
         abiStatus' \in {"loaded", "emitting", "emitted", "SystemExit", "ValueError"},
         \A t \in Tags' : \E d \in DOMAIN dieTags' : dieTags'[d] = t,
         \A d \in DOMAIN dieTags' : Described(d)',
         \A i \in DOMAIN stack' :
           /\ stack'[i].child \in 1..(Len(Dies[stack'[i].die].members) + 1)
           /\ DOMAIN structs'[dieTags'[stack'[i].die]].members
                = KeptBefore(stack'[i].die, stack'[i].child),
         \A d \in DOMAIN dieTags' :
           (\A i \in DOMAIN stack' : stack'[i].die # d)
             => DOMAIN structs'[dieTags'[d]].members = KeptAtLast(d),
         abiStatus' = "emitted" => stack' = <<>>
  PROVE  KeepInv'
<1>1. Dies' = Dies
  BY SameLibrary
<1>2. \A i \in DOMAIN stack' :
        DOMAIN structs'[dieTags'[stack'[i].die]].members = KeptBefore(stack[i].die, stack[i].child)'
  BY <1>1, Zenon DEF KeptBefore, Representable, Resolvable
<1>3. \A d \in DOMAIN dieTags' :
        (\A i \in DOMAIN stack' : stack'[i].die # d)
          => DOMAIN structs'[dieTags'[d]].members = KeptAtLast(d)'
  BY <1>1, Zenon DEF KeptAtLast, Representable, Resolvable
<1>4. \A i \in DOMAIN stack' : stack'[i].child \in 1..(Len(Dies'[stack'[i].die].members) + 1)
  BY <1>1
<1> QED
  BY <1>2, <1>3, <1>4, Zenon DEF KeepInv

LEMMA EnterKeepsKept ==
  ASSUME AbiInv, KeepInv, NEW d \in DOMAIN Dies, d \notin DOMAIN dieTags, Enter(d, stack),
         Compound(Dies, d), Resolvable(d), abiStatus' = "emitting"
  PROVE  KeepInv'
<1> DEFINE frame == [die |-> d, child |-> 1]
           def == [kind |-> Dies[d].tag, size |-> Dies[d].size, members |-> [k \in {} |-> NoDie]]
<1>1. PICK tag : /\ tag \notin Tags
                 /\ dieTags' = Put(dieTags, d, tag)
                 /\ structs' = Put(structs, tag, def)
  BY DEF Enter, IsFree
<1>2. stack' = Append(stack, frame) /\ UNCHANGED <<dwarf, order>>
  BY DEF Enter
<1>3. /\ DOMAIN dieTags' = DOMAIN dieTags \cup {d} /\ dieTags'[d] = tag
      /\ \A e \in DOMAIN dieTags : dieTags'[e] = dieTags[e] /\ dieTags[e] \in Tags
  BY <1>1 DEF Put, AbiInv, Shape
<1>4. /\ Tags' = Tags \cup {tag} /\ structs'[tag] = def
      /\ \A t \in Tags : structs'[t] = structs[t]
  BY <1>1 DEF Put, Tags
<1>5. /\ Len(stack') = Len(stack) + 1 /\ Len(stack) \in Nat
      /\ DOMAIN stack' = 1..(Len(stack) + 1) /\ DOMAIN stack = 1..Len(stack)
      /\ \A i \in DOMAIN stack : stack'[i] = stack[i]
      /\ stack'[Len(stack) + 1] = frame
  BY <1>2 DEF AbiInv, Shape, Frames
<1>6. \A i \in DOMAIN stack : stack[i].die \in DOMAIN dieTags /\ stack[i].die # d
  BY DEF AbiInv, OnStack
<1>7. /\ Dies' = Dies /\ (Resolvable(d)' <=> Resolvable(d))
      /\ \A e, c : KeptBefore(e, c)' = KeptBefore(e, c)
      /\ \A e : KeptAtLast(e)' = KeptAtLast(e)
  BY <1>2, SameLibrary
<1>8. anonCount' \in Nat
  BY DEF Enter, KeepInv
<1>9. \A t \in Tags' : \E e \in DOMAIN dieTags' : dieTags'[e] = t
  BY <1>3, <1>4 DEF KeepInv
<1> HIDE DEF def
<1>10. \A e \in DOMAIN dieTags' : Described(e)'
  <2>1. Described(d)'
    <3>1. def.kind = Dies[d].tag /\ def.size = Dies[d].size /\ DOMAIN def.members = {}
      BY DEF def
    <3> QED
      BY <1>3, <1>4, <1>7, <3>1 DEF Described
  <2>2. \A e \in DOMAIN dieTags : Described(e)'
    BY <1>2, <1>3, <1>4, StaysDescribed DEF KeepInv
  <2> QED
    BY <1>3, <2>1, <2>2
<1>11. ASSUME NEW i \in DOMAIN stack'
       PROVE  /\ stack'[i].child \in 1..(Len(Dies[stack'[i].die].members) + 1)
              /\ DOMAIN structs'[dieTags'[stack'[i].die]].members
                   = KeptBefore(stack'[i].die, stack'[i].child)
  <2>1. CASE i \in DOMAIN stack
    <3>1. stack'[i] = stack[i] /\ dieTags'[stack[i].die] = dieTags[stack[i].die]
          /\ structs'[dieTags[stack[i].die]] = structs[dieTags[stack[i].die]]
      BY <1>3, <1>4, <1>5, <1>6, <2>1
    <3>2. /\ stack[i].child \in 1..(Len(Dies[stack[i].die].members) + 1)
          /\ DOMAIN structs[dieTags[stack[i].die]].members
               = KeptBefore(stack[i].die, stack[i].child)
      BY <2>1 DEF KeepInv
    <3> QED
      BY <3>1, <3>2
  <2>2. CASE i = Len(stack) + 1
    <3>1. stack'[i].die = d /\ stack'[i].child = 1
      BY <1>5, <2>2
    <3>2. Len(Dies[d].members) \in Nat /\ DOMAIN Dies[d].members = 1..Len(Dies[d].members)
      BY LibraryFacts DEF LaidOut
    <3>3. KeptBefore(d, 1) = {}
      BY <3>2 DEF KeptBefore
    <3>4. DOMAIN structs'[dieTags'[d]].members = {}
      BY <1>3, <1>4 DEF def
    <3> QED
      BY <3>1, <3>2, <3>3, <3>4
  <2> QED
    BY <1>5, <2>1, <2>2
<1>12. ASSUME NEW e \in DOMAIN dieTags', \A i \in DOMAIN stack' : stack'[i].die # e
       PROVE  DOMAIN structs'[dieTags'[e]].members = KeptAtLast(e)
  <2>1. e \in DOMAIN dieTags
    BY <1>3, <1>5, <1>12
  <2>2. \A i \in DOMAIN stack : stack[i].die # e
    BY <1>5, <1>12
  <2> QED
    BY <1>3, <1>4, <2>1, <2>2 DEF KeepInv
<1> QED
  BY <1>2, <1>8, <1>9, <1>10, <1>11, <1>12, KeepInvAfter

LEMMA SeqOfElements ==
  ASSUME NEW S, NEW T, NEW seq \in Seq(S), \A i \in 1..Len(seq) : seq[i] \in T
  PROVE  seq \in Seq(T)
<1>1. Len(seq) \in Nat /\ seq \in [1..Len(seq) -> S]
  BY LenProperties
<1>2. seq \in [1..Len(seq) -> T]
  BY <1>1
<1> QED
  BY <1>1, <1>2, SeqDef

LEMMA PlacesOfAppend ==
  ASSUME NEW S, NEW seq \in Seq(S), NEW elt \in S
  PROVE  /\ DOMAIN Append(seq, elt) = 1..(Len(seq) + 1)
         /\ \A i \in 1..Len(seq) : Append(seq, elt)[i] = seq[i]
         /\ Append(seq, elt)[Len(seq) + 1] = elt
<1>1. /\ Append(seq, elt) \in Seq(S) /\ Len(Append(seq, elt)) = Len(seq) + 1
      /\ \A i \in 1..Len(seq) : Append(seq, elt)[i] = seq[i]
      /\ Append(seq, elt)[Len(seq) + 1] = elt
  BY AppendProperties
<1>2. DOMAIN Append(seq, elt) = 1..Len(Append(seq, elt))
  BY <1>1, LenProperties
<1> QED
  BY <1>1, <1>2

(* Going on to the next child, when what was kept of the current entry is     *)
(* what should be.                                                           *)
LEMMA NextChildKeepsKept ==
  ASSUME AbiInv, KeepInv, AtChild, NextChild, UNCHANGED <<dwarf, dieTags, anonCount, abiStatus>>,
         Tags' = Tags, \A d : d = Top.die => Described(d)',
         \A t \in Tags \ {TopTag} : structs'[t] = structs[t],
         DOMAIN structs'[TopTag].members = KeptBefore(Top.die, Top.child + 1)
  PROVE  KeepInv'
<1>1. /\ stack # <<>> /\ stack \in Seq(Frames) /\ Top.child \in DOMAIN Dies[Top.die].members
      /\ abiStatus = "emitting"
  BY DEF AtChild, Children, AbiInv, Shape
<1>2. /\ Len(stack) \in DOMAIN stack /\ DOMAIN stack = 1..Len(stack) /\ Len(stack) \in Nat
      /\ Top.die \in DOMAIN Dies /\ Top.die \in DOMAIN dieTags /\ TopTag \in Tags
      /\ Top = stack[Len(stack)] /\ Top \in Frames
  BY <1>1, TopFacts DEF Top
<1>3. /\ stack' = Append(Callers, [Top EXCEPT !.child = @ + 1])
      /\ Callers \in Seq(Frames) /\ Len(Callers) = Len(stack) - 1
      /\ \A i \in 1..(Len(stack) - 1) : Callers[i] = stack[i]
  BY <1>1, CallersAreBelow DEF NextChild
<1>4. [Top EXCEPT !.child = @ + 1] \in Frames
      /\ [Top EXCEPT !.child = @ + 1].die = Top.die
      /\ [Top EXCEPT !.child = @ + 1].child = Top.child + 1
  BY <1>2 DEF Frames
<1>5. /\ DOMAIN stack' = DOMAIN stack
      /\ \A i \in 1..(Len(stack) - 1) : stack'[i] = stack[i]
      /\ stack'[Len(stack)].die = Top.die /\ stack'[Len(stack)].child = Top.child + 1
  <2> DEFINE e == [Top EXCEPT !.child = @ + 1]
  <2>1. e \in Frames /\ e.die = Top.die /\ e.child = Top.child + 1 /\ stack' = Append(Callers, e)
    BY <1>3, <1>4
  <2> HIDE DEF e
  <2>2. Len(Callers) + 1 = Len(stack)
    BY <1>2, <1>3
  <2>3. /\ DOMAIN stack' = 1..(Len(Callers) + 1)
        /\ \A i \in 1..Len(Callers) : stack'[i] = Callers[i]
        /\ stack'[Len(Callers) + 1] = e
    BY <1>3, <2>1, PlacesOfAppend
  <2>4. DOMAIN stack' = DOMAIN stack /\ stack'[Len(stack)] = e
    BY <1>2, <2>2, <2>3
  <2>5. \A i \in 1..(Len(stack) - 1) : stack'[i] = stack[i]
    BY <1>3, <2>3
  <2> QED
    BY <2>1, <2>4, <2>5
<1>7. \A e \in DOMAIN dieTags : e # Top.die => dieTags[e] \in Tags \ {TopTag}
  BY <1>2 DEF AbiInv, Shape, OneTagPerType, TopTag
<1>8. \A e \in DOMAIN dieTags : Described(e)'
  <2>1. \A e \in DOMAIN dieTags : e # Top.die => Described(e)'
    BY <1>7, StaysDescribed DEF KeepInv
  <2> QED
    BY <2>1
<1>9. ASSUME NEW i \in DOMAIN stack
      PROVE  /\ stack'[i].child \in 1..(Len(Dies[stack'[i].die].members) + 1)
             /\ DOMAIN structs'[dieTags[stack'[i].die]].members
                   = KeptBefore(stack'[i].die, stack'[i].child)
  <2>1. CASE i = Len(stack)
    <3>1. Len(Dies[Top.die].members) \in Nat
          /\ DOMAIN Dies[Top.die].members = 1..Len(Dies[Top.die].members)
      BY <1>2, LibraryFacts DEF LaidOut
    <3>2. Top.child + 1 \in 1..(Len(Dies[Top.die].members) + 1)
      BY <1>1, <3>1
    <3> QED
      BY <1>5, <2>1, <3>2 DEF TopTag
  <2>2. CASE i \in 1..(Len(stack) - 1)
    <3>1. stack[i].die \in DOMAIN dieTags
      BY DEF AbiInv, OnStack
    <3>2. stack[i].die # Top.die
      <4>1. Top.die < stack[i].die
        BY <1>2, <2>2 DEF AbiInv, Descending
      <4>2. Top.die \in Nat
        BY <1>2, LibraryFacts
      <4> QED
        BY <4>1, <4>2
    <3> QED
      BY <1>5, <1>7, <2>2, <3>1, <3>2 DEF KeepInv
  <2> QED
    BY <1>2, <2>1, <2>2
<1>10. ASSUME NEW e \in DOMAIN dieTags, \A i \in DOMAIN stack : stack'[i].die # e
       PROVE  DOMAIN structs'[dieTags[e]].members = KeptAtLast(e)
  <2>1. \A i \in DOMAIN stack : stack[i].die # e
    BY <1>2, <1>5, <1>10
  <2>2. e # Top.die
    BY <1>2, <2>1
  <2> QED
    BY <1>7, <2>1, <2>2 DEF KeepInv
<1>11. anonCount' \in Nat /\ \A t \in Tags' : \E d \in DOMAIN dieTags' : dieTags'[d] = t
  BY DEF KeepInv
<1> QED
  BY <1>1, <1>5, <1>8, <1>9, <1>10, <1>11, KeepInvAfter

(* What the next child adds to what is kept.                                 *)
LEMMA KeptNext ==
  ASSUME AbiInv, AtChild
  PROVE  /\ ~Representable(Child) => KeptBefore(Top.die, Top.child + 1) = KeptBefore(Top.die, Top.child)
         /\ Representable(Child) =>
              KeptBefore(Top.die, Top.child + 1) = KeptBefore(Top.die, Top.child) \cup {Top.child}
<1>1. /\ Top.die \in DOMAIN Dies /\ Child = Dies[Top.die].members[Top.child]
      /\ Top.child \in DOMAIN Dies[Top.die].members
      /\ DOMAIN Dies[Top.die].members = 1..Len(Dies[Top.die].members)
      /\ Len(Dies[Top.die].members) \in Nat
  BY TopFacts, LibraryFacts DEF LaidOut, AtChild, Child, Children
<1>2. Top.child \in Nat
      /\ \A k \in DOMAIN Dies[Top.die].members : k < Top.child + 1 <=> k < Top.child \/ k = Top.child
  BY <1>1
<1> QED
  BY <1>1, <1>2 DEF KeptBefore

LEMMA DropMemberKeepsKept == ASSUME AbiInv, KeepInv, DropMember PROVE KeepInv'
<1>1. AtChild /\ NextChild /\ UNCHANGED <<dwarf, structs, dieTags, anonCount, abiStatus>>
  BY DEF DropMember
<1>2. ~Representable(Child)
  BY DEF DropMember, Considered, Emitted, Pending, Representable, Type
<1>3. stack # <<>>
  BY <1>1 DEF AtChild
<1>4. /\ Len(stack) \in DOMAIN stack /\ Top = stack[Len(stack)] /\ TopTag = dieTags[Top.die]
      /\ Top.die \in DOMAIN dieTags
  BY <1>3, TopFacts DEF Top, TopTag
<1>5. DOMAIN structs'[TopTag].members = KeptBefore(Top.die, Top.child + 1)
  BY <1>1, <1>2, <1>4, KeptNext DEF KeepInv
<1>6. \A d : d = Top.die => Described(d)'
  BY <1>1, <1>4, StaysDescribed DEF KeepInv
<1>7. Tags' = Tags /\ \A t \in Tags \ {TopTag} : structs'[t] = structs[t]
  BY <1>1 DEF Tags
<1> QED
  BY <1>1, <1>5, <1>6, <1>7, NextChildKeepsKept

LEMMA KeepMemberKeepsKept == ASSUME AbiInv, KeepInv, KeepMember PROVE KeepInv'
<1> DEFINE member == [type |-> Child.type, offset |-> MemberOffset(Child.loc),
                      tag |-> IF Compound(Dies, Type) THEN dieTags[Type] ELSE NoName]
           before == structs[TopTag].members
           after == Put(before, Top.child, member)
<1>1. AtChild /\ NextChild /\ UNCHANGED <<dwarf, dieTags, anonCount, abiStatus>>
      /\ Kept /\ Decodable(Child.loc)
  BY DEF KeepMember
<1>2. Representable(Child)
  <2>1. ASSUME Emitted(Type) PROVE Compound(Dies, Type) /\ Resolvable(Type)
    BY <2>1 DEF Emitted, KeepInv, Described
  <2> QED
    BY <1>1, <2>1 DEF Kept, Considered, Representable, Type
<1>3. stack # <<>>
  BY <1>1 DEF AtChild
<1>4. /\ Len(stack) \in DOMAIN stack /\ Top = stack[Len(stack)] /\ TopTag = dieTags[Top.die]
      /\ Top.die \in DOMAIN dieTags /\ Top.die \in DOMAIN Dies /\ TopTag \in Tags
  BY <1>3, TopFacts DEF Top, TopTag
<1>5. Child = Dies[Top.die].members[Top.child] /\ Top.child \in DOMAIN Dies[Top.die].members
  BY <1>1 DEF AtChild, Child, Children
<1>6. MemberOffset(Child.loc) = Dies[Top.die].members[Top.child].place
  BY <1>1, <1>4, <1>5, OffsetIsPlace DEF Kept, Considered
<1>7. member.offset = MemberOffset(Child.loc)
  OBVIOUS
<1> HIDE DEF member
<1>8. DOMAIN after = DOMAIN before \cup {Top.child} /\ after[Top.child] = member
      /\ \A k \in DOMAIN before : k # Top.child => after[k] = before[k]
  BY DEF Put
<1>9. structs' = [structs EXCEPT ![TopTag].members = after]
  BY DEF KeepMember, member
<1> HIDE DEF after
<1>10. /\ Tags' = Tags /\ \A t \in Tags \ {TopTag} : structs'[t] = structs[t]
       /\ structs'[TopTag] = Definition(structs[TopTag].kind, structs[TopTag].size, after)
  BY <1>4, <1>9, NewMembers
<1>11. /\ structs'[TopTag].members = after
       /\ structs'[TopTag].kind = structs[TopTag].kind /\ structs'[TopTag].size = structs[TopTag].size
  BY <1>10 DEF Definition
<1>12. DOMAIN before = KeptBefore(Top.die, Top.child)
  BY <1>4 DEF KeepInv
<1>13. DOMAIN structs'[TopTag].members = KeptBefore(Top.die, Top.child + 1)
  BY <1>1, <1>2, <1>8, <1>11, <1>12, KeptNext
<1>14. Described(Top.die)
  BY <1>4 DEF KeepInv
<1>15. \A k \in DOMAIN after : after[k].offset = Dies[Top.die].members[k].place
  <2>1. \A k \in DOMAIN before : before[k].offset = Dies[Top.die].members[k].place
    BY <1>4, <1>14 DEF Described
  <2> QED
    BY <1>6, <1>7, <1>8, <2>1
<1>16. \A d : d = Top.die => Described(d)'
  <2>1. Dies' = Dies /\ (\A d : Resolvable(d)' <=> Resolvable(d))
    BY <1>1, SameLibrary
  <2> QED
    BY <1>1, <1>4, <1>11, <1>14, <1>15, <2>1 DEF Described
<1> QED
  BY <1>1, <1>10, <1>13, <1>16, NextChildKeepsKept

LEMMA EmitRootKeepsKept == ASSUME AbiInv, KeepInv, EmitRoot PROVE KeepInv'
<1>1. stack = <<>> /\ DOMAIN dieTags = {}
  BY DEF EmitRoot, AbiInv, Unread
<1>2. EnvDie(dwarf) \in DOMAIN Dies /\ Compound(Dies, EnvDie(dwarf)) /\ Resolvable(EnvDie(dwarf))
  BY GraphsAssumption DEF EmitRoot, RootFound, AbiInv, Shape, Dies
<1>3. Enter(EnvDie(dwarf), stack) /\ abiStatus' = "emitting"
  BY <1>1 DEF EmitRoot
<1> QED
  BY <1>1, <1>2, <1>3, EnterKeepsKept

LEMMA EmitMemberTypeKeepsKept == ASSUME AbiInv, KeepInv, EmitMemberType PROVE KeepInv'
<1>1. Compound(Dies, Type) /\ Type \notin DOMAIN dieTags /\ AtChild /\ Resolvable(Type)
      /\ Enter(Type, stack) /\ abiStatus' = "emitting"
  BY DEF EmitMemberType, Pending, AtChild
<1>2. Type \in DOMAIN Dies
  BY <1>1, TypeIsBelow
<1> QED
  BY <1>1, <1>2, EnterKeepsKept

LEMMA LeaveStructKeepsKept == ASSUME AbiInv, KeepInv, LeaveStruct PROVE KeepInv'
<1> DEFINE before == structs[TopTag].members
<1>1. /\ stack # <<>> /\ stack \in Seq(Frames) /\ Top.child \notin DOMAIN Dies[Top.die].members
      /\ abiStatus = "emitting"
  BY DEF LeaveStruct, AtEnd, Children, AbiInv, Shape
<1>2. /\ Len(stack) \in DOMAIN stack /\ DOMAIN stack = 1..Len(stack) /\ Len(stack) \in Nat
      /\ Top.die \in DOMAIN Dies /\ Top.die \in DOMAIN dieTags /\ TopTag \in Tags
      /\ Top = stack[Len(stack)] /\ Top \in Frames /\ TopTag = dieTags[Top.die]
  BY <1>1, TopFacts DEF Top, TopTag
<1>3. /\ stack' = Callers /\ stack' \in Seq(Frames) /\ Len(stack') = Len(stack) - 1
      /\ DOMAIN stack' = 1..(Len(stack) - 1)
      /\ \A i \in 1..(Len(stack) - 1) : stack'[i] = stack[i]
  BY <1>1, CallersAreBelow DEF LeaveStruct
<1>4. UNCHANGED <<dwarf, dieTags, anonCount>>
      /\ abiStatus' \in {"emitting", "emitted"} /\ (abiStatus' = "emitted" => stack' = <<>>)
  BY <1>1, <1>3 DEF LeaveStruct
<1>5. DOMAIN before = {k \in DOMAIN Dies[Top.die].members : Representable(Dies[Top.die].members[k])}
  <2>1. DOMAIN Dies[Top.die].members = 1..Len(Dies[Top.die].members)
        /\ Len(Dies[Top.die].members) \in Nat
    BY <1>2, LibraryFacts DEF LaidOut
  <2>2. Top.child \in 1..(Len(Dies[Top.die].members) + 1)
        /\ DOMAIN before = KeptBefore(Top.die, Top.child)
    BY <1>2 DEF KeepInv
  <2>3. \A k \in DOMAIN Dies[Top.die].members : k < Top.child
    BY <1>1, <2>1, <2>2
  <2> QED
    BY <2>2, <2>3 DEF KeptBefore
<1>6. /\ Described(Top.die) /\ structs[TopTag].kind = Dies[Top.die].tag
      /\ structs[TopTag].size = Dies[Top.die].size
      /\ \A k \in DOMAIN before : before[k].offset = Dies[Top.die].members[k].place
  BY <1>2 DEF KeepInv, Described
<1>7. /\ Tags' = Tags /\ \A t \in Tags \ {TopTag} : structs'[t] = structs[t]
      /\ structs'[TopTag].kind = structs[TopTag].kind /\ structs'[TopTag].size = structs[TopTag].size
      /\ DOMAIN structs'[TopTag].members = KeptAtLast(Top.die)
      /\ \A k \in KeptAtLast(Top.die) : structs'[TopTag].members[k] = before[k] /\ k \in DOMAIN before
  <2>1. CASE structs[TopTag].kind = "union"
    <3> DEFINE after == AtZero(before)
    <3>1. structs' = [structs EXCEPT ![TopTag].members = after]
      BY <2>1 DEF LeaveStruct
    <3>2. DOMAIN after = {k \in DOMAIN before : before[k].offset = 0}
          /\ \A k \in DOMAIN after : after[k] = before[k]
      BY DEF AtZero
    <3>3. DOMAIN after = KeptAtLast(Top.die)
      BY <1>5, <1>6, <2>1, <3>2 DEF KeptAtLast
    <3> HIDE DEF after
    <3>4. /\ Tags' = Tags /\ \A t \in Tags \ {TopTag} : structs'[t] = structs[t]
          /\ structs'[TopTag] = Definition(structs[TopTag].kind, structs[TopTag].size, after)
      BY <1>2, <3>1, NewMembers
    <3>5. /\ structs'[TopTag].members = after
          /\ structs'[TopTag].kind = structs[TopTag].kind /\ structs'[TopTag].size = structs[TopTag].size
      BY <3>4 DEF Definition
    <3> QED
      BY <3>2, <3>3, <3>4, <3>5
  <2>2. CASE structs[TopTag].kind # "union"
    <3>1. structs' = structs
      BY <2>2 DEF LeaveStruct
    <3>2. DOMAIN before = KeptAtLast(Top.die)
      BY <1>5, <1>6, <2>2 DEF KeptAtLast
    <3> QED
      BY <3>1, <3>2 DEF Tags
  <2> QED
    BY <2>1, <2>2
<1>8. \A e \in DOMAIN dieTags : e # Top.die => dieTags[e] \in Tags \ {TopTag}
  BY <1>2 DEF AbiInv, Shape, OneTagPerType, TopTag
<1>9. ASSUME NEW e \in DOMAIN dieTags PROVE Described(e)'
  <2>1. CASE e # Top.die
    BY <1>4, <1>7, <1>8, <2>1, StaysDescribed DEF KeepInv
  <2>2. CASE e = Top.die
    <3>1. Dies' = Dies /\ (Resolvable(e)' <=> Resolvable(e))
      BY <1>4, SameLibrary
    <3>2. Described(e)
      BY <1>6, <2>2
    <3>3. /\ structs'[dieTags[e]].kind = Dies[e].tag /\ structs'[dieTags[e]].size = Dies[e].size
          /\ \A k \in DOMAIN structs'[dieTags[e]].members :
                structs'[dieTags[e]].members[k].offset = Dies[e].members[k].place
      BY <1>2, <1>6, <1>7, <2>2
    <3> QED
      BY <1>4, <3>1, <3>2, <3>3 DEF Described
  <2> QED
    BY <2>1, <2>2
<1>10. \A i \in 1..(Len(stack) - 1) : stack[i].die # Top.die /\ stack[i].die \in DOMAIN dieTags
  <2> TAKE i \in 1..(Len(stack) - 1)
  <2>1. i \in DOMAIN stack /\ i < Len(stack)
    BY <1>2
  <2>2. Top.die < stack[i].die /\ stack[i].die \in DOMAIN dieTags
    BY <1>2, <2>1 DEF AbiInv, Descending, OnStack
  <2>3. Top.die \in Nat
    BY <1>2, LibraryFacts
  <2> QED
    BY <2>2, <2>3
<1>11. ASSUME NEW i \in DOMAIN stack'
       PROVE  /\ stack'[i].child \in 1..(Len(Dies[stack'[i].die].members) + 1)
              /\ DOMAIN structs'[dieTags[stack'[i].die]].members
                   = KeptBefore(stack'[i].die, stack'[i].child)
  <2>1. i \in DOMAIN stack /\ stack'[i] = stack[i]
    BY <1>2, <1>3
  <2>2. structs'[dieTags[stack[i].die]] = structs[dieTags[stack[i].die]]
    BY <1>3, <1>7, <1>8, <1>10
  <2>3. /\ stack[i].child \in 1..(Len(Dies[stack[i].die].members) + 1)
        /\ DOMAIN structs[dieTags[stack[i].die]].members = KeptBefore(stack[i].die, stack[i].child)
    BY <2>1 DEF KeepInv
  <2> QED
    BY <2>1, <2>2, <2>3
<1>12. ASSUME NEW e \in DOMAIN dieTags, \A i \in DOMAIN stack' : stack'[i].die # e
       PROVE  DOMAIN structs'[dieTags[e]].members = KeptAtLast(e)
  <2>1. CASE e = Top.die
    BY <1>2, <1>7, <2>1
  <2>2. CASE e # Top.die
    <3>1. \A i \in DOMAIN stack : stack[i].die # e
      BY <1>2, <1>3, <1>12, <2>2
    <3> QED
      BY <1>7, <1>8, <2>2, <3>1 DEF KeepInv
  <2> QED
    BY <2>1, <2>2
<1>13. anonCount' \in Nat /\ \A t \in Tags' : \E d \in DOMAIN dieTags' : dieTags'[d] = t
  BY <1>4, <1>7 DEF KeepInv
<1> QED
  BY <1>4, <1>9, <1>11, <1>12, <1>13, KeepInvAfter

LEMMA StopKeepsKept ==
  ASSUME AbiInv, KeepInv, NoRoot \/ UnknownLocation \/ UNCHANGED <<dwarf, abiVars>>
  PROVE  KeepInv'
<1>1. UNCHANGED <<dwarf, stack, structs, order, dieTags, anonCount>>
      /\ abiStatus' \in {"loaded", "emitting", "emitted", "SystemExit", "ValueError"}
      /\ (abiStatus' = "emitted" => stack = <<>>)
  BY DEF NoRoot, UnknownLocation, abiVars, KeepInv
<1>2. \A d \in DOMAIN dieTags : Described(d)'
  BY <1>1, StaysDescribed DEF KeepInv
<1>3. Tags' = Tags
  BY <1>1 DEF Tags
<1> QED
  BY <1>1, <1>2, <1>3, KeepInvAfter DEF KeepInv

(* Whatever emit_struct does, a call has kept of its entry what it should of *)
(* the children it has looked at.                                            *)
THEOREM Keeping == Spec => [](AbiInv /\ KeepInv)
<1>1. Init => KeepInv
  BY DEF Init, Fresh, KeepInv, Tags
<1>2. ASSUME AbiInv, KeepInv, Extract PROVE KeepInv'
  BY <1>2, EmitRootKeepsKept, EmitMemberTypeKeepsKept, DropMemberKeepsKept, KeepMemberKeepsKept,
     LeaveStructKeepsKept, StopKeepsKept DEF Extract
<1>3. ASSUME [Next]_vars, ~Extract PROVE UNCHANGED <<dwarf, abiVars>>
  BY <1>3, ApiReads DEF Next, VerifyAndRepair, Finished, vars
<1>4. AbiInv /\ KeepInv /\ [Next]_vars => KeepInv'
  BY <1>2, <1>3, StopKeepsKept
<1> QED
  BY <1>1, <1>4, Invariance, PTL DEF Spec

(* For every library, the definition of each type emit_struct reached holds  *)
(* exactly the members that cffi can express, each where the library has it. *)
THEOREM KeepsMembers == Spec => []KeepsWhatItCan
<1>1. ASSUME AbiInv, KeepInv, abiStatus = "emitted", NEW d \in DOMAIN dieTags
      PROVE  LET kept == structs[dieTags[d]].members
                 children == Dies[d].members
             IN /\ DOMAIN kept = {k \in DOMAIN children :
                                   /\ Representable(children[k])
                                   /\ Dies[d].tag = "union" => children[k].place = 0}
                /\ \A k \in DOMAIN kept : kept[k].offset = children[k].place
  <2>1. stack = <<>>
    BY <1>1 DEF KeepInv
  <2>2. DOMAIN structs[dieTags[d]].members = KeptAtLast(d)
    BY <2>1, <1>1 DEF KeepInv
  <2>3. Described(d)
    BY <1>1 DEF KeepInv
  <2> QED
    BY <2>2, <2>3 DEF KeptAtLast, Described
<1>2. AbiInv /\ KeepInv => KeepsWhatItCan
  BY <1>1 DEF KeepsWhatItCan
<1> QED
  BY <1>2, Keeping, PTL

(* For every library, the extractor only names entries it has, and every     *)
(* definition it opens is of a struct or union that has a size.              *)
THEOREM TypeCorrect == Spec => []TypeOK
<1>1. ASSUME AbiInv, KeepInv PROVE TypeOK
  <2>1. DOMAIN dieTags \subseteq DOMAIN Dies /\ \A d \in DOMAIN dieTags : dieTags[d] \in Tags
    BY <1>1 DEF KeepInv, Described, AbiInv, Shape
  <2>2. stack \in Seq([die : DOMAIN Dies, child : Nat \ {0}])
    <3>1. stack \in Seq(Frames) /\ \A i \in 1..Len(stack) : stack[i] \in Frames
      BY <1>1 DEF AbiInv, Shape
    <3>2. ASSUME NEW i \in 1..Len(stack)
          PROVE  stack[i] \in [die : DOMAIN Dies, child : Nat \ {0}]
      <4>1. stack[i] \in Frames /\ stack[i].die \in DOMAIN Dies /\ i \in DOMAIN stack
        BY <3>1 DEF Frames
      <4>2. Len(Dies[stack[i].die].members) \in Nat
        BY <1>1, <4>1, LibraryFacts DEF LaidOut
      <4>3. stack[i].child \in 1..(Len(Dies[stack[i].die].members) + 1)
        BY <1>1, <4>1 DEF KeepInv
      <4>4. stack[i].child \in Nat \ {0}
        BY <4>2, <4>3
      <4> QED
        BY <4>1, <4>4 DEF Frames
    <3> QED
      BY <3>1, <3>2, SeqOfElements
  <2>3. ASSUME NEW t \in Tags PROVE structs[t].kind \in {"struct", "union"} /\ structs[t].size > 0
    <3>1. PICK d \in DOMAIN dieTags : dieTags[d] = t
      BY <1>1 DEF KeepInv
    <3>2. /\ d \in DOMAIN Dies /\ Compound(Dies, d) /\ Dies[d].size \notin {NoSize, 0}
          /\ structs[t].kind = Dies[d].tag /\ structs[t].size = Dies[d].size
      BY <1>1, <3>1 DEF KeepInv, Described, Resolvable
    <3>3. Dies[d].size \in Nat \cup {NoSize}
      BY <1>1, <3>2, LibraryFacts DEF LaidOut
    <3> QED
      BY <3>2, <3>3 DEF Compound, NoSize
  <2> QED
    BY <1>1, <2>1, <2>2, <2>3 DEF TypeOK, AbiInv, Shape, KeepInv
<1> QED
  BY <1>1, Keeping, PTL

(* For every library, the header of the environment defines what a struct    *)
(* holds by value above it: C accepts the order render_all prints.           *)
THEOREM HeaderOrder == Spec => []DefinedBeforeUse
<1>1. AbiInv => DefinedBeforeUse
  BY DEF AbiInv
<1> QED
  BY <1>1, Invariance, PTL

(* For every library, no two types of the environment meet under one tag,    *)
(* whatever they are called in the source, and none is defined twice.        *)
THEOREM TagsAreUnique == Spec => []OneTagPerType
<1>1. AbiInv => OneTagPerType
  BY DEF AbiInv
<1> QED
  BY <1>1, Invariance, PTL

-----------------------------------------------------------------------------
(* The cdef.  What holds of the calls of _members_body and of the definitions *)
(* is said of values, so that a step is reasoned about without primes.       *)
IsSeq(s) == \E S : s \in Seq(S)
Extends(longer, s, e) ==
  /\ IsSeq(longer) /\ Len(s) \in Nat /\ Len(longer) = Len(s) + 1
  /\ \A i \in 1..Len(s) : longer[i] = s[i]
  /\ longer[Len(s) + 1] = e

Holds(D, d, t) == \E k \in DOMAIN D[d].members : t = Leaf(D, D[d].members[k].type)

(* A call of _members_body.                                                  *)
Call(f) == [die |-> f.die, partial |-> f.partial, child |-> f.child, lines |-> f.lines]
Callable(D, f) ==
  /\ f = Call(f)
  /\ f.die \in DOMAIN D /\ Compound(D, f.die) /\ ~D[f.die].decl
  /\ f.child \in 1..(Len(D[f.die].members) + 1)
  /\ f.partial \in BOOLEAN /\ (f.partial => D[f.die].name # NoName)

(* It is made for the type of the child its caller looks at.                 *)
Calls(D, f, g) ==
  /\ f.child \in DOMAIN D[f.die].members
  /\ g.die = Leaf(D, D[f.die].members[f.child].type)
  /\ g.partial <=> f.partial /\ D[g.die].name # NoName

Nested(D, calls) ==
  /\ IsSeq(calls)
  /\ \A i \in 1..Len(calls) : Callable(D, calls[i])
  /\ \A i \in 1..(Len(calls) - 1) : Calls(D, calls[i], calls[i + 1])
  /\ \A i, j \in 1..Len(calls) : i < j /\ calls[j].partial => calls[i].partial

(* What an entry is referred to by, and the condition on kinds.              *)
Referred(D, d) == [kind |-> D[d].tag, name |-> D[d].name]
OneKind(D) ==
  \A d, e \in DOMAIN D :
    Compound(D, d) /\ Compound(D, e) /\ D[d].name = D[e].name /\ D[d].name # NoName
      => D[d].tag = D[e].tag

(* The names that are taken are those of the definitions written and begun.  *)
Taken(D, calls, written, refs, names) ==
  /\ \A i \in 1..Len(written) :
       /\ D[written[i].die].name \in names
       /\ written[i].die \in DOMAIN D /\ Compound(D, written[i].die)
  /\ \A i \in 1..Len(calls) : calls[i].partial => D[calls[i].die].name \in names
  /\ \A n \in names :
       \/ \E i \in 1..Len(written) : D[written[i].die].name = n
       \/ \E i \in 1..Len(calls) : calls[i].partial /\ D[calls[i].die].name = n
  /\ \A t \in DOMAIN refs : refs[t] = Referred(D, t) /\ D[t].name \in names
Once(D, calls, written) ==
  /\ \A i, j \in 1..Len(written) : D[written[i].die].name = D[written[j].die].name => i = j
  /\ \A i, j \in 1..Len(calls) :
       calls[i].partial /\ calls[j].partial /\ D[calls[i].die].name = D[calls[j].die].name => i = j
  /\ \A i \in 1..Len(written), j \in 1..Len(calls) :
       calls[j].partial => D[written[i].die].name # D[calls[j].die].name

(* Lines written in place refer to no definition, at any depth.              *)
Plain(lines) ==
  \E S : lines \in Seq(S) /\ \A l \in S : l.ref = Api!NoRef /\ l.body \in Seq(S)
(* Those of a definition refer to the ones above it.                         *)
Matches(D, d, ref) == D[d].name = ref.name /\ (OneKind(D) => D[d].tag = ref.kind)
Above(D, written, i, ref) == \E j \in 1..(i - 1) : Matches(D, written[j].die, ref)
Open(D, written, i, lines) ==
  /\ IsSeq(lines)
  /\ \A k \in 1..Len(lines) :
       /\ ~lines[k].bits /\ Plain(lines[k].body)
       /\ lines[k].ref = Api!NoRef \/ Above(D, written, i, lines[k].ref)
Lines(D, calls, written, reply) ==
  /\ \A i \in 1..Len(written) : Open(D, written, i, written[i].lines)
  /\ \A i \in 1..Len(calls) :
       /\ calls[i].partial => Open(D, written, Len(written) + 1, calls[i].lines)
       /\ ~calls[i].partial => Plain(calls[i].lines)
  /\ reply.form = "body" => Plain(reply.lines)

Writing(D, calls, written, reply, refs, names) ==
  /\ IsSeq(written)
  /\ Nested(D, calls) /\ Taken(D, calls, written, refs, names)
  /\ Once(D, calls, written) /\ Lines(D, calls, written, reply)

ApiInv ==
  /\ apiStatus = "idle" => apiStack = <<>> /\ apiDefs = <<>> /\ emittedNames = {}
  /\ Writing(Dies, apiStack, apiDefs, answer, dieRefs, emittedNames)
RootInv ==
  abiStatus \in {"emitting", "emitted"} \/ status # "idle" => EnvDie(dwarf) # NoDie

-----------------------------------------------------------------------------
LEMMA IsSeqFacts ==
  ASSUME NEW s, IsSeq(s)
  PROVE  Len(s) \in Nat /\ DOMAIN s = 1..Len(s) /\ (s # <<>> => Len(s) > 0)
<1>1. PICK S : s \in Seq(S)
  BY DEF IsSeq
<1> QED
  BY <1>1, LenProperties, EmptySeq

LEMMA EmptyIsSeq == IsSeq(<<>>) /\ Len(<<>>) = 0
<1>1. <<>> \in Seq({})
  BY EmptySeq
<1> QED
  BY <1>1, EmptySeq DEF IsSeq

LEMMA AppendExtends ==
  ASSUME NEW s, NEW e, IsSeq(s)
  PROVE  Extends(Append(s, e), s, e)
<1>1. PICK S : s \in Seq(S)
  BY DEF IsSeq
<1>2. s \in Seq(S \cup {e}) /\ e \in S \cup {e}
  BY <1>1, SeqMonotonic
<1>3. /\ Append(s, e) \in Seq(S \cup {e}) /\ Len(Append(s, e)) = Len(s) + 1
      /\ \A i \in 1..Len(s) : Append(s, e)[i] = s[i]
      /\ Append(s, e)[Len(s) + 1] = e
  BY <1>2, AppendProperties
<1>4. Len(s) \in Nat
  BY <1>1, LenProperties
<1> QED
  BY <1>3, <1>4 DEF Extends, IsSeq

LEMMA FrontIsBelow ==
  ASSUME NEW s, IsSeq(s), s # <<>>
  PROVE  IsSeq(SubSeq(s, 1, Len(s) - 1)) /\ Extends(s, SubSeq(s, 1, Len(s) - 1), s[Len(s)])
<1> DEFINE n == Len(s) - 1
<1>1. PICK S : s \in Seq(S)
  BY DEF IsSeq
<1>2. Len(s) \in Nat /\ n \in Nat /\ n + 1 = Len(s)
  BY IsSeqFacts
<1>3. \A i \in 1..n : s[i] \in S
  BY <1>1, <1>2, ElementOfSeq
<1> HIDE DEF n
<1>4. /\ SubSeq(s, 1, n) \in Seq(S) /\ Len(SubSeq(s, 1, n)) = n
      /\ \A i \in 1..n : SubSeq(s, 1, n)[i] = s[i]
  <2>1. IF 1 <= n THEN Len(SubSeq(s, 1, n)) = n - 1 + 1 ELSE Len(SubSeq(s, 1, n)) = 0
    BY <1>1, <1>2, <1>3, SubSeqProperties
  <2> QED
    BY <1>1, <1>2, <1>3, <2>1, SubSeqProperties
<1>5. Extends(s, SubSeq(s, 1, n), s[Len(s)])
  BY <1>2, <1>4 DEF Extends
<1> QED
  BY <1>4, <1>5 DEF IsSeq, n

LEMMA PlainEmpty == Plain(<<>>)
<1>1. <<>> \in Seq({})
  BY EmptySeq
<1> QED
  BY <1>1 DEF Plain

LEMMA PlainAppend ==
  ASSUME NEW lines, NEW l, Plain(lines), l.ref = Api!NoRef, Plain(l.body)
  PROVE  Plain(Append(lines, l))
<1>1. PICK S : lines \in Seq(S) /\ \A m \in S : m.ref = Api!NoRef /\ m.body \in Seq(S)
  BY DEF Plain
<1>2. PICK T : l.body \in Seq(T) /\ \A m \in T : m.ref = Api!NoRef /\ m.body \in Seq(T)
  BY DEF Plain
<1> DEFINE U == S \cup T \cup {l}
<1>3. Seq(S) \subseteq Seq(U) /\ Seq(T) \subseteq Seq(U)
  BY SeqMonotonic
<1>4. lines \in Seq(U) /\ l \in U /\ \A m \in U : m.ref = Api!NoRef /\ m.body \in Seq(U)
  BY <1>1, <1>2, <1>3
<1>5. Append(lines, l) \in Seq(U)
  BY <1>4, AppendProperties
<1> HIDE DEF U
<1> QED
  BY <1>4, <1>5 DEF Plain

(* A name of a type on the way to a member is not that of the member's type. *)
LEMMA NamesOnTheWay ==
  ASSUME NEW D, NamedOnce(D), NEW calls, Nested(D, calls), calls # <<>>, calls[Len(calls)].partial,
         NEW t \in DOMAIN D, Holds(D, calls[Len(calls)].die, t), Compound(D, t), D[t].name # NoName
  PROVE  \A i \in 1..Len(calls) : D[calls[i].die].name # D[t].name
<1> DEFINE Tagged == {d \in DOMAIN D : Compound(D, d) /\ D[d].name # NoName}
<1> SUFFICES ASSUME NEW i \in 1..Len(calls), D[calls[i].die].name = D[t].name PROVE FALSE
  OBVIOUS
<1> DEFINE some == {D[calls[j].die].name : j \in i..Len(calls)}
<1>1. Len(calls) \in Nat /\ Len(calls) > 0
  BY IsSeqFacts DEF Nested
<1>2. \A j \in 1..Len(calls) : Callable(D, calls[j]) /\ calls[j].partial
  BY <1>1 DEF Nested
<1>3. \A j \in 1..Len(calls) : calls[j].die \in Tagged
  BY <1>2 DEF Callable
<1>0. /\ \A j \in i..Len(calls) : D[calls[j].die].name \in some
      /\ \A name \in some : \E j \in i..Len(calls) : name = D[calls[j].die].name
  BY Zenon
<1>4. \A j \in i..Len(calls) : j \in 1..Len(calls) /\ calls[j].die \in Tagged
  BY <1>1, <1>3
<1> DEFINE tags == {D[d].name : d \in Tagged}
<1>5. PICK name \in some : \A d \in Tagged : D[d].name = name =>
        \A m \in DOMAIN D[d].members :
          LET u == Leaf(D, D[d].members[m].type)
          IN Compound(D, u) => D[u].name \notin some
  <2>1. \A d \in Tagged : D[d].name \in tags
    OBVIOUS
  <2> HIDE DEF tags, Tagged
  <2>2. some \subseteq tags
    BY <1>4, <2>1
  <2>3. D[calls[i].die].name \in some
    <3>1. i \in i..Len(calls)
      BY <1>1
    <3> QED
      BY <1>0, <3>1
  <2> HIDE DEF some
  <2>4. some \in (SUBSET tags) \ {{}}
    BY <2>2, <2>3
  <2> QED
    BY <2>4, Zenon DEF NamedOnce, tags, Tagged
<1>6. PICK j \in i..Len(calls) : name = D[calls[j].die].name
  BY <1>0
<1>7. \A m \in DOMAIN D[calls[j].die].members :
        LET u == Leaf(D, D[calls[j].die].members[m].type)
        IN Compound(D, u) => D[u].name \notin some
  BY <1>4, <1>5, <1>6, Zenon
<1>8. CASE j = Len(calls)
  <2>1. D[t].name \in some
    <3>1. i \in i..Len(calls)
      BY <1>1
    <3> QED
      BY <1>0, <3>1
  <2> QED
    BY <1>7, <1>8, <2>1 DEF Holds
<1>9. CASE j # Len(calls)
  <2>1. j \in 1..(Len(calls) - 1) /\ j + 1 \in i..Len(calls) /\ j + 1 \in 1..Len(calls)
    BY <1>1, <1>9
  <2>2. Calls(D, calls[j], calls[j + 1]) /\ Compound(D, calls[j + 1].die)
    BY <1>2, <2>1 DEF Nested, Callable
  <2>3. D[calls[j + 1].die].name \in some
    BY <1>0, <2>1
  <2> QED
    BY <1>7, <2>2, <2>3 DEF Calls
<1> QED
  BY <1>8, <1>9

LEMMA ExtendsPlaces ==
  ASSUME NEW longer, NEW s, NEW e, Extends(longer, s, e)
  PROVE  /\ Len(longer) = Len(s) + 1 /\ Len(s) \in Nat
         /\ \A i \in 1..Len(longer) : (i \in 1..Len(s) /\ longer[i] = s[i]) \/ (i = Len(s) + 1 /\ longer[i] = e)
         /\ \A i \in 1..Len(s) : i \in 1..Len(longer) /\ longer[i] = s[i] /\ i # Len(s) + 1
         /\ Len(s) + 1 \in 1..Len(longer) /\ longer[Len(s) + 1] = e
<1>1. /\ Len(s) \in Nat /\ Len(longer) = Len(s) + 1
      /\ \A i \in 1..Len(s) : longer[i] = s[i]
      /\ longer[Len(s) + 1] = e
  BY DEF Extends
<1>2. \A i \in 1..Len(longer) : i \in 1..Len(s) \/ i = Len(s) + 1
  BY <1>1
<1> QED
  BY <1>1, <1>2

LEMMA NestedCall ==
  ASSUME NEW D, NEW calls, Nested(D, calls), NEW f, Callable(D, f), NEW longer, Extends(longer, calls, f),
         calls # <<>> => Calls(D, calls[Len(calls)], f)
  PROVE  Nested(D, longer)
<1>1. IsSeq(calls) /\ IsSeq(longer) /\ (Len(calls) > 0 => calls # <<>>)
  BY EmptyIsSeq DEF Nested, Extends
<1>2. Len(longer) = Len(calls) + 1 /\ Len(calls) \in Nat
  BY ExtendsPlaces
<1>3. ASSUME NEW i \in 1..Len(longer) PROVE Callable(D, longer[i])
  BY ExtendsPlaces DEF Nested
<1>4. ASSUME NEW i \in 1..(Len(longer) - 1) PROVE Calls(D, longer[i], longer[i + 1])
  <2>1. CASE i = Len(calls)
    BY <1>1, <1>2, <2>1, ExtendsPlaces
  <2>2. CASE i # Len(calls)
    <3>1. i \in 1..(Len(calls) - 1) /\ i \in 1..Len(calls) /\ i + 1 \in 1..Len(calls)
      BY <1>2, <2>2
    <3> QED
      BY <3>1, ExtendsPlaces DEF Nested
  <2> QED
    BY <2>1, <2>2
<1>5. ASSUME NEW i \in 1..Len(longer), NEW j \in 1..Len(longer), i < j, longer[j].partial
      PROVE  longer[i].partial
  <2>1. i \in 1..Len(calls) /\ longer[i] = calls[i]
    BY <1>2, <1>5, ExtendsPlaces
  <2>2. CASE j \in 1..Len(calls)
    BY <1>5, <2>1, <2>2, ExtendsPlaces DEF Nested
  <2>3. CASE j = Len(calls) + 1
    <3>1. f.partial /\ calls[Len(calls)].partial
      <4>1. longer[j] = f
        BY <2>3, ExtendsPlaces
      <4> QED
        BY <1>1, <1>2, <1>5, <2>1, <4>1 DEF Calls
    <3>2. i = Len(calls) \/ i < Len(calls)
      BY <1>2, <2>1
    <3> QED
      BY <1>2, <2>1, <3>1, <3>2 DEF Nested
  <2> QED
    BY <1>2, <2>2, <2>3
<1> QED
  BY <1>1, <1>3, <1>4, <1>5 DEF Nested

LEMMA NestedReturn ==
  ASSUME NEW D, NEW calls, NEW f, NEW longer, Nested(D, longer), Extends(longer, calls, f), IsSeq(calls)
  PROVE  /\ Nested(D, calls) /\ Callable(D, f)
         /\ calls # <<>> => Calls(D, calls[Len(calls)], f)
<1>1. Len(longer) = Len(calls) + 1 /\ Len(calls) \in Nat
  BY ExtendsPlaces
<1>2. Callable(D, f)
  BY ExtendsPlaces DEF Nested
<1>3. ASSUME NEW i \in 1..Len(calls) PROVE Callable(D, calls[i])
  BY ExtendsPlaces DEF Nested
<1>4. ASSUME NEW i \in 1..(Len(calls) - 1) PROVE Calls(D, calls[i], calls[i + 1])
  <2>1. i \in 1..(Len(longer) - 1) /\ i \in 1..Len(calls) /\ i + 1 \in 1..Len(calls)
    BY <1>1
  <2> QED
    BY <2>1, ExtendsPlaces DEF Nested
<1>5. \A i, j \in 1..Len(calls) : i < j /\ calls[j].partial => calls[i].partial
  BY ExtendsPlaces DEF Nested
<1>6. ASSUME calls # <<>> PROVE Calls(D, calls[Len(calls)], f)
  <2>1. Len(calls) > 0
    BY <1>6, IsSeqFacts
  <2>2. Len(calls) \in 1..(Len(longer) - 1) /\ Len(calls) \in 1..Len(calls)
    BY <1>1, <2>1
  <2>3. longer[Len(calls)] = calls[Len(calls)] /\ longer[Len(calls) + 1] = f
    BY <2>2, ExtendsPlaces
  <2> QED
    BY <2>2, <2>3 DEF Nested
<1> QED
  BY <1>2, <1>3, <1>4, <1>5, <1>6 DEF Nested

(* A definition begins: its name is taken.                                   *)
LEMMA BeginWriting ==
  ASSUME NEW D, NEW calls, NEW written, NEW reply, NEW refs, NEW names,
         Writing(D, calls, written, reply, refs, names),
         NEW f, Callable(D, f), NEW longer, Extends(longer, calls, f), f.lines = <<>>,
         calls # <<>> => Calls(D, calls[Len(calls)], f),
         f.partial, D[f.die].name \notin names
  PROVE  Writing(D, longer, written, reply, Put(refs, f.die, Referred(D, f.die)), names \cup {D[f.die].name})
<1> DEFINE name == D[f.die].name
           after == Put(refs, f.die, Referred(D, f.die))
<1>1. Nested(D, longer)
  BY NestedCall DEF Writing
<1>2. \A t \in DOMAIN after : t = f.die \/ (t \in DOMAIN refs /\ after[t] = refs[t])
  BY DEF Put
<1>3. after[f.die] = Referred(D, f.die)
  BY DEF Put
<1> HIDE DEF after, name
<1>4. Taken(D, longer, written, after, names \cup {name})
  <2>1. \A i \in 1..Len(longer) : longer[i].partial => D[longer[i].die].name \in names \cup {name}
    BY ExtendsPlaces DEF Writing, Taken, name
  <2>2. \A n \in names \cup {name} :
          \/ \E i \in 1..Len(written) : D[written[i].die].name = n
          \/ \E i \in 1..Len(longer) : longer[i].partial /\ D[longer[i].die].name = n
    <3>1. ASSUME NEW n \in names
          PROVE  \/ \E i \in 1..Len(written) : D[written[i].die].name = n
                 \/ \E i \in 1..Len(longer) : longer[i].partial /\ D[longer[i].die].name = n
      <4>1. CASE \E i \in 1..Len(calls) : calls[i].partial /\ D[calls[i].die].name = n
        BY <4>1, ExtendsPlaces
      <4> QED
        BY <4>1 DEF Writing, Taken
    <3>2. longer[Len(calls) + 1].partial /\ D[longer[Len(calls) + 1].die].name = name
          /\ Len(calls) + 1 \in 1..Len(longer)
      BY ExtendsPlaces DEF name
    <3> QED
      BY <3>1, <3>2
  <2>3. \A t \in DOMAIN after : after[t] = Referred(D, t) /\ D[t].name \in names \cup {name}
    BY <1>2, <1>3 DEF Writing, Taken, name
  <2> QED
    BY <2>1, <2>2, <2>3 DEF Writing, Taken
<1>5. Once(D, longer, written)
  <2>1. \A i \in 1..Len(calls) : calls[i].partial => D[calls[i].die].name # name
    BY DEF Writing, Taken, name
  <2>2. \A i \in 1..Len(written) : D[written[i].die].name # name
    BY DEF Writing, Taken, name
  <2>3. \A i, j \in 1..Len(longer) :
          longer[i].partial /\ longer[j].partial /\ D[longer[i].die].name = D[longer[j].die].name => i = j
    BY <2>1, ExtendsPlaces DEF Writing, Once, name
  <2>4. \A i \in 1..Len(written), j \in 1..Len(longer) :
          longer[j].partial => D[written[i].die].name # D[longer[j].die].name
    BY <2>2, ExtendsPlaces DEF Writing, Once, name
  <2> QED
    BY <2>3, <2>4 DEF Writing, Once
<1>6. Lines(D, longer, written, reply)
  <2>1. Open(D, written, Len(written) + 1, <<>>)
    BY EmptyIsSeq DEF Open
  <2>2. \A i \in 1..Len(longer) :
          /\ longer[i].partial => Open(D, written, Len(written) + 1, longer[i].lines)
          /\ ~longer[i].partial => Plain(longer[i].lines)
    BY <2>1, ExtendsPlaces DEF Writing, Lines
  <2> QED
    BY <2>2 DEF Writing, Lines
<1> QED
  BY <1>1, <1>4, <1>5, <1>6 DEF Writing, after, name

LEMMA BeginInPlace ==
  ASSUME NEW D, NEW calls, NEW written, NEW reply, NEW refs, NEW names,
         Writing(D, calls, written, reply, refs, names),
         NEW f, Callable(D, f), NEW longer, Extends(longer, calls, f), f.lines = <<>>,
         calls # <<>> => Calls(D, calls[Len(calls)], f), ~f.partial
  PROVE  Writing(D, longer, written, reply, refs, names)
<1>1. Nested(D, longer)
  BY NestedCall DEF Writing
<1>2. Taken(D, longer, written, refs, names)
  <2>1. \A i \in 1..Len(longer) : longer[i].partial => D[longer[i].die].name \in names
    BY ExtendsPlaces DEF Writing, Taken
  <2>2. ASSUME NEW n \in names
        PROVE  \/ \E i \in 1..Len(written) : D[written[i].die].name = n
               \/ \E i \in 1..Len(longer) : longer[i].partial /\ D[longer[i].die].name = n
    <3>1. CASE \E i \in 1..Len(calls) : calls[i].partial /\ D[calls[i].die].name = n
      BY <3>1, ExtendsPlaces
    <3> QED
      BY <3>1 DEF Writing, Taken
  <2> QED
    BY <2>1, <2>2 DEF Writing, Taken
<1>3. Once(D, longer, written)
  <2>1. \A i, j \in 1..Len(longer) :
          longer[i].partial /\ longer[j].partial /\ D[longer[i].die].name = D[longer[j].die].name => i = j
    BY ExtendsPlaces DEF Writing, Once
  <2>2. \A i \in 1..Len(written), j \in 1..Len(longer) :
          longer[j].partial => D[written[i].die].name # D[longer[j].die].name
    BY ExtendsPlaces DEF Writing, Once
  <2> QED
    BY <2>1, <2>2 DEF Writing, Once
<1>4. Lines(D, longer, written, reply)
  <2>1. \A i \in 1..Len(longer) :
          /\ longer[i].partial => Open(D, written, Len(written) + 1, longer[i].lines)
          /\ ~longer[i].partial => Plain(longer[i].lines)
    BY PlainEmpty, ExtendsPlaces DEF Writing, Lines
  <2> QED
    BY <2>1 DEF Writing, Lines
<1> QED
  BY <1>1, <1>2, <1>3, <1>4 DEF Writing

(* A call written in place returns.                                          *)
LEMMA ReturnInPlace ==
  ASSUME NEW D, NEW calls, NEW written, NEW reply, NEW refs, NEW names, NEW f, NEW longer,
         Writing(D, longer, written, reply, refs, names),
         Extends(longer, calls, f), IsSeq(calls), ~f.partial,
         NEW a, a.form = "body" => Plain(a.lines)
  PROVE  Writing(D, calls, written, a, refs, names)
<1>1. Nested(D, calls)
  BY NestedReturn DEF Writing
<1>2. Taken(D, calls, written, refs, names)
  <2>1. \A i \in 1..Len(calls) : calls[i].partial => D[calls[i].die].name \in names
    BY ExtendsPlaces DEF Writing, Taken
  <2>2. ASSUME NEW n \in names
        PROVE  \/ \E i \in 1..Len(written) : D[written[i].die].name = n
               \/ \E i \in 1..Len(calls) : calls[i].partial /\ D[calls[i].die].name = n
    <3>1. CASE \E i \in 1..Len(longer) : longer[i].partial /\ D[longer[i].die].name = n
      BY <3>1, ExtendsPlaces
    <3> QED
      BY <3>1 DEF Writing, Taken
  <2> QED
    BY <2>1, <2>2 DEF Writing, Taken
<1>3. Once(D, calls, written)
  <2>1. \A i, j \in 1..Len(calls) :
          calls[i].partial /\ calls[j].partial /\ D[calls[i].die].name = D[calls[j].die].name => i = j
    BY ExtendsPlaces DEF Writing, Once
  <2>2. \A i \in 1..Len(written), j \in 1..Len(calls) :
          calls[j].partial => D[written[i].die].name # D[calls[j].die].name
    BY ExtendsPlaces DEF Writing, Once
  <2> QED
    BY <2>1, <2>2 DEF Writing, Once
<1>4. Lines(D, calls, written, a)
  BY ExtendsPlaces DEF Writing, Lines
<1> QED
  BY <1>1, <1>2, <1>3, <1>4 DEF Writing

(* A call goes on to its next child.                                         *)
LEMMA LookAtNext ==
  ASSUME NEW D, LaidOut(D), NEW calls, NEW written, NEW reply, NEW refs, NEW names, NEW f, NEW longer,
         Writing(D, longer, written, reply, refs, names),
         Extends(longer, calls, f), IsSeq(calls), f.child \in DOMAIN D[f.die].members,
         NEW g, g = Call(g), g.die = f.die, g.partial = f.partial, g.child = f.child + 1,
         g.partial => Open(D, written, Len(written) + 1, g.lines),
         ~g.partial => Plain(g.lines),
         NEW newer, Extends(newer, calls, g), NEW a, a.form # "body"
  PROVE  Writing(D, newer, written, a, refs, names)
<1>1. Nested(D, newer)
  <2>1. /\ Nested(D, calls) /\ Callable(D, f)
        /\ calls # <<>> => Calls(D, calls[Len(calls)], f)
    BY NestedReturn DEF Writing
  <2>2. Callable(D, g)
    <3>1. Len(D[f.die].members) \in Nat /\ DOMAIN D[f.die].members = 1..Len(D[f.die].members)
      BY <2>1 DEF LaidOut, Callable
    <3>2. f.child + 1 \in 1..(Len(D[f.die].members) + 1)
      BY <3>1
    <3> QED
      BY <2>1, <3>2 DEF Callable
  <2>3. calls # <<>> => Calls(D, calls[Len(calls)], g)
    BY <2>1 DEF Calls
  <2> QED
    BY <2>1, <2>2, <2>3, NestedCall
<1>2. /\ Len(newer) = Len(longer)
      /\ \A i \in 1..Len(longer) : newer[i].die = longer[i].die /\ newer[i].partial = longer[i].partial
  BY ExtendsPlaces
<1>3. Taken(D, newer, written, refs, names)
  <2>1. \A i \in 1..Len(newer) : newer[i].partial => D[newer[i].die].name \in names
    BY <1>2 DEF Writing, Taken
  <2>2. ASSUME NEW n \in names
        PROVE  \/ \E i \in 1..Len(written) : D[written[i].die].name = n
               \/ \E i \in 1..Len(newer) : newer[i].partial /\ D[newer[i].die].name = n
    BY <1>2 DEF Writing, Taken
  <2> QED
    BY <2>1, <2>2 DEF Writing, Taken
<1>4. Once(D, newer, written)
  <2>1. \A i, j \in 1..Len(newer) :
          newer[i].partial /\ newer[j].partial /\ D[newer[i].die].name = D[newer[j].die].name => i = j
    BY <1>2 DEF Writing, Once
  <2>2. \A i \in 1..Len(written), j \in 1..Len(newer) :
          newer[j].partial => D[written[i].die].name # D[newer[j].die].name
    BY <1>2 DEF Writing, Once
  <2> QED
    BY <2>1, <2>2 DEF Writing, Once
<1>5. Lines(D, newer, written, a)
  <2>1. \A i \in 1..Len(newer) :
          /\ newer[i].partial => Open(D, written, Len(written) + 1, newer[i].lines)
          /\ ~newer[i].partial => Plain(newer[i].lines)
    BY ExtendsPlaces DEF Writing, Lines
  <2> QED
    BY <2>1 DEF Writing, Lines
<1> QED
  BY <1>1, <1>3, <1>4, <1>5 DEF Writing

LEMMA StaysOpen ==
  ASSUME NEW D, NEW written, NEW more, NEW def, Extends(more, written, def),
         NEW i \in 1..(Len(written) + 1), NEW j, j = i \/ j = Len(more) + 1,
         NEW lines, Open(D, written, i, lines)
  PROVE  Open(D, more, j, lines)
<1>1. ASSUME NEW ref, Above(D, written, i, ref) PROVE Above(D, more, j, ref)
  <2>1. PICK k \in 1..(i - 1) : Matches(D, written[k].die, ref)
    BY <1>1 DEF Above
  <2>2. k \in 1..Len(written) /\ k \in 1..(j - 1) /\ more[k] = written[k]
    BY ExtendsPlaces
  <2> QED
    BY <2>1, <2>2 DEF Above
<1> QED
  BY <1>1 DEF Open

(* A definition is complete.                                                 *)
LEMMA EndWriting ==
  ASSUME NEW D, NEW calls, NEW written, NEW reply, NEW refs, NEW names, NEW f, NEW longer,
         Writing(D, longer, written, reply, refs, names),
         Extends(longer, calls, f), IsSeq(calls), f.partial,
         NEW def, def.die = f.die, def.lines = f.lines, NEW more, Extends(more, written, def)
  PROVE  Writing(D, calls, more, reply, refs, names)
<1> DEFINE name == D[f.die].name
<1>1. Nested(D, calls) /\ IsSeq(more)
  BY NestedReturn DEF Writing, Extends
<1>2. \A i \in 1..Len(calls) : calls[i] = longer[i] /\ i \in 1..Len(longer)
  BY ExtendsPlaces
<1>3. \A i \in 1..Len(more) :
        (i \in 1..Len(written) /\ more[i] = written[i]) \/ (i = Len(written) + 1 /\ D[more[i].die].name = name)
  BY ExtendsPlaces
<1>4. /\ Len(calls) + 1 \in 1..Len(longer) /\ longer[Len(calls) + 1] = f
      /\ \A i \in 1..Len(calls) : i # Len(calls) + 1
  BY ExtendsPlaces
<1>5. /\ Len(written) + 1 \in 1..Len(more) /\ D[more[Len(written) + 1].die].name = name
      /\ \A i \in 1..Len(written) : i \in 1..Len(more) /\ more[i] = written[i]
  BY ExtendsPlaces
<1>6. name \in names
  BY <1>4 DEF Writing, Taken
<1> HIDE DEF name
<1>7. Taken(D, calls, more, refs, names)
  <2>1. ASSUME NEW i \in 1..Len(more)
        PROVE  /\ D[more[i].die].name \in names
               /\ more[i].die \in DOMAIN D /\ Compound(D, more[i].die)
    <3>1. CASE i \in 1..Len(written) /\ more[i] = written[i]
      BY <3>1 DEF Writing, Taken
    <3>2. CASE i = Len(written) + 1
      <4>1. more[i].die = f.die /\ Callable(D, f)
        BY <1>4, <3>2, ExtendsPlaces DEF Writing, Nested
      <4> QED
        BY <1>6, <4>1 DEF Callable, name
    <3> QED
      BY <1>3, <3>1, <3>2
  <2>2. \A i \in 1..Len(calls) : calls[i].partial => D[calls[i].die].name \in names
    BY <1>2 DEF Writing, Taken
  <2>3. ASSUME NEW n \in names
        PROVE  \/ \E i \in 1..Len(more) : D[more[i].die].name = n
               \/ \E i \in 1..Len(calls) : calls[i].partial /\ D[calls[i].die].name = n
    <3>1. CASE \E i \in 1..Len(written) : D[written[i].die].name = n
      BY <1>5, <3>1
    <3>2. CASE \E i \in 1..Len(longer) : longer[i].partial /\ D[longer[i].die].name = n
      <4>1. PICK i \in 1..Len(longer) : longer[i].partial /\ D[longer[i].die].name = n
        BY <3>2
      <4>2. (i \in 1..Len(calls) /\ calls[i] = longer[i]) \/ longer[i] = f
        BY ExtendsPlaces
      <4> QED
        BY <1>5, <4>1, <4>2 DEF name
    <3> QED
      BY <3>1, <3>2 DEF Writing, Taken
  <2> QED
    BY <2>1, <2>2, <2>3 DEF Writing, Taken
<1>8. Once(D, calls, more)
  <2>1. \A i \in 1..Len(written) : D[written[i].die].name # name
    BY <1>4 DEF Writing, Once, name
  <2>2. \A i \in 1..Len(calls) : calls[i].partial => D[calls[i].die].name # name
    BY <1>2, <1>4 DEF Writing, Once, name
  <2>3. \A i, j \in 1..Len(more) : D[more[i].die].name = D[more[j].die].name => i = j
    BY <1>3, <2>1 DEF Writing, Once
  <2>4. \A i, j \in 1..Len(calls) :
          calls[i].partial /\ calls[j].partial /\ D[calls[i].die].name = D[calls[j].die].name => i = j
    BY <1>2 DEF Writing, Once
  <2>5. \A i \in 1..Len(more), j \in 1..Len(calls) :
          calls[j].partial => D[more[i].die].name # D[calls[j].die].name
    BY <1>2, <1>3, <2>2 DEF Writing, Once
  <2> QED
    BY <2>3, <2>4, <2>5 DEF Once
<1>9. Lines(D, calls, more, reply)
  <2>1. Len(written) \in Nat
    BY ExtendsPlaces
  <2>2. ASSUME NEW i \in 1..Len(more) PROVE Open(D, more, i, more[i].lines)
    <3>1. CASE i \in 1..Len(written) /\ more[i] = written[i]
      <4>1. Open(D, written, i, written[i].lines) /\ i \in 1..(Len(written) + 1)
        BY <2>1, <3>1 DEF Writing, Lines
      <4> QED
        BY <3>1, <4>1, StaysOpen
    <3>2. CASE i = Len(written) + 1
      <4>1. Open(D, written, i, f.lines) /\ more[i] = def /\ i \in 1..(Len(written) + 1)
        BY <1>4, <2>1, <3>2, ExtendsPlaces DEF Writing, Lines
      <4> QED
        BY <4>1, StaysOpen
    <3> QED
      BY <1>3, <3>1, <3>2
  <2>3. ASSUME NEW i \in 1..Len(calls), calls[i].partial
        PROVE  Open(D, more, Len(more) + 1, calls[i].lines)
    <3>1. Open(D, written, Len(written) + 1, calls[i].lines)
      BY <1>2, <2>3 DEF Writing, Lines
    <3>2. Len(written) + 1 \in 1..(Len(written) + 1)
      BY <2>1
    <3> QED
      BY <3>1, <3>2, StaysOpen
  <2>4. \A i \in 1..Len(calls) : ~calls[i].partial => Plain(calls[i].lines)
    BY <1>2 DEF Writing, Lines
  <2> QED
    BY <2>2, <2>3, <2>4 DEF Writing, Lines
<1> QED
  BY <1>1, <1>7, <1>8, <1>9 DEF Writing

LEMMA ReuseTakenName ==
  ASSUME NEW D, NEW calls, NEW written, NEW reply, NEW refs, NEW names,
         Writing(D, calls, written, reply, refs, names), NEW t, D[t].name \in names
  PROVE  Writing(D, calls, written, reply, Put(refs, t, Referred(D, t)), names)
<1> DEFINE after == Put(refs, t, Referred(D, t))
<1>1. after[t] = Referred(D, t)
      /\ \A u \in DOMAIN after : u = t \/ (u \in DOMAIN refs /\ after[u] = refs[u])
  BY DEF Put
<1> HIDE DEF after
<1>2. \A u \in DOMAIN after : after[u] = Referred(D, u) /\ D[u].name \in names
  BY <1>1 DEF Writing, Taken
<1>3. Taken(D, calls, written, after, names)
  BY <1>2 DEF Writing, Taken
<1> QED
  BY <1>3 DEF Writing, after

(* A reference to a name that is taken is to a definition above.             *)
LEMMA ReferenceIsAbove ==
  ASSUME NEW D, NamedOnce(D), NEW calls, NEW written, NEW reply, NEW refs, NEW names,
         Writing(D, calls, written, reply, refs, names), calls # <<>>, calls[Len(calls)].partial,
         NEW t \in DOMAIN D, Holds(D, calls[Len(calls)].die, t), Compound(D, t), D[t].name # NoName,
         t \in DOMAIN refs
  PROVE  Above(D, written, Len(written) + 1, refs[t])
<1>1. refs[t] = Referred(D, t) /\ D[t].name \in names
  BY DEF Writing, Taken
<1>2. \A i \in 1..Len(calls) : D[calls[i].die].name # D[t].name
  BY NamesOnTheWay DEF Writing
<1>3. PICK i \in 1..Len(written) : D[written[i].die].name = D[t].name
  BY <1>1, <1>2 DEF Writing, Taken
<1>4. Len(written) \in Nat
  BY IsSeqFacts DEF Writing
<1>5. written[i].die \in DOMAIN D /\ Compound(D, written[i].die)
  BY <1>3 DEF Writing, Taken
<1>6. refs[t].name = D[t].name /\ refs[t].kind = D[t].tag
  BY <1>1 DEF Referred
<1>7. OneKind(D) => D[written[i].die].tag = D[t].tag
  BY <1>3, <1>5 DEF OneKind
<1>8. Matches(D, written[i].die, refs[t])
  BY <1>3, <1>6, <1>7 DEF Matches
<1> QED
  BY <1>4, <1>8 DEF Above

LEMMA OpenAppend ==
  ASSUME NEW D, NEW written, NEW i, NEW lines, Open(D, written, i, lines),
         NEW l, ~l.bits, Plain(l.body), l.ref = Api!NoRef \/ Above(D, written, i, l.ref)
  PROVE  Open(D, written, i, Append(lines, l))
<1>1. Extends(Append(lines, l), lines, l)
  BY AppendExtends DEF Open
<1>2. IsSeq(Append(lines, l))
  BY <1>1 DEF Extends
<1> QED
  BY <1>1, <1>2, ExtendsPlaces DEF Open

-----------------------------------------------------------------------------
(* The emitter's copy of the helpers is the extractor's.                     *)
LEMMA ApiHelpers ==
  /\ \A D, t : Api!Compound(D, t) <=> Compound(D, t)
  /\ \A D, t : Api!Leaf(D, t) = Leaf(D, t)
  /\ \A D, t : Api!Scalar(D, t) <=> Scalar(D, t)
  /\ \A D, t : Api!Unsized(D, t) <=> Unsized(D, t)
  /\ \A D, t : Api!IsArray(D, t) <=> IsArray(D, t)
  /\ \A f, x, v : Api!Put(f, x, v) = Put(f, x, v)
  /\ Api!NoName = NoName /\ Api!NoDie = NoDie /\ Api!Dies = Dies
  /\ \A d : Api!Reference(d) = Referred(Dies, d)
<1>1. /\ Api!NoName = NoName /\ Api!NoDie = NoDie /\ Api!NoSize = NoSize /\ Api!Dies = Dies
      /\ Api!BaseTypes = BaseTypes
  BY Zenon DEF Api!NoName, NoName, Api!NoDie, NoDie, Api!NoSize, NoSize, Api!Dies, Dies, Api!BaseTypes, BaseTypes
<1>2. \A D, t : Api!ResolveTypedefs(D, t) = ResolveTypedefs(D, t)
  BY Zenon DEF Api!ResolveTypedefs, ResolveTypedefs, Api!Qualifiers, Qualifiers, Api!NoDie, NoDie
<1>3. \A D, t : Api!IsArray(D, t) <=> IsArray(D, t)
  BY Zenon DEF Api!IsArray, IsArray, Api!ResolveTypedefs, ResolveTypedefs, Api!Qualifiers, Qualifiers,
     Api!NoDie, NoDie
<1>4. \A D, t : Api!Leaf(D, t) = Leaf(D, t)
  BY Zenon DEF Api!Leaf, Leaf, Api!IsArray, IsArray, Api!ResolveTypedefs, ResolveTypedefs,
     Api!Qualifiers, Qualifiers, Api!NoDie, NoDie
<1>5. \A D, t : Api!Unsized(D, t) <=> Unsized(D, t)
  BY Zenon DEF Api!Unsized, Unsized, Api!Dims, Dims, Api!ArrayDims, ArrayDims, Api!IsArray, IsArray,
     Api!ResolveTypedefs, ResolveTypedefs, Api!Qualifiers, Qualifiers, Api!NoDie, NoDie
<1>6. \A D, t : Api!Compound(D, t) <=> Compound(D, t)
  BY <1>1 DEF Api!Compound, Compound
<1>7. \A D, t : Api!Scalar(D, t) <=> Scalar(D, t)
  BY <1>1, Zenon DEF Api!Scalar, Scalar
<1>8. \A f, x, v : Api!Put(f, x, v) = Put(f, x, v)
  BY Zenon DEF Api!Put, Put
<1>9. \A d : Api!Reference(d) = Referred(Dies, d)
  BY <1>1, Zenon DEF Api!Reference, Referred
<1> QED
  BY <1>1, <1>3, <1>4, <1>5, <1>6, <1>7, <1>8, <1>9

LEMMA ApiTop ==
  ASSUME ApiInv, apiStack # <<>>
  PROVE  /\ Extends(apiStack, Api!Callers, Api!Top) /\ IsSeq(Api!Callers)
         /\ Api!Top = apiStack[Len(apiStack)] /\ Callable(Dies, Api!Top)
         /\ Api!Top.partial => Open(Dies, apiDefs, Len(apiDefs) + 1, Api!Top.lines)
         /\ ~Api!Top.partial => Plain(Api!Top.lines)
<1>1. Api!Top = apiStack[Len(apiStack)] /\ Api!Callers = SubSeq(apiStack, 1, Len(apiStack) - 1)
  BY DEF Api!Top, Api!Callers
<1>2. IsSeq(apiStack)
  BY DEF ApiInv, Writing, Nested
<1>3. IsSeq(Api!Callers) /\ Extends(apiStack, Api!Callers, Api!Top)
  BY <1>1, <1>2, FrontIsBelow
<1>4. Len(apiStack) \in 1..Len(apiStack)
  BY <1>2, IsSeqFacts
<1>5. Callable(Dies, apiStack[Len(apiStack)])
  BY <1>4 DEF ApiInv, Writing, Nested
<1>6. /\ Api!Top.partial => Open(Dies, apiDefs, Len(apiDefs) + 1, Api!Top.lines)
      /\ ~Api!Top.partial => Plain(Api!Top.lines)
  BY <1>1, <1>4 DEF ApiInv, Writing, Lines
<1> QED
  BY <1>1, <1>3, <1>5, <1>6

LEMMA ApiChild ==
  ASSUME AbiInv, ApiInv, Api!AtChild
  PROVE  /\ apiStack # <<>> /\ apiStatus = "rendering"
         /\ Api!Top.die \in DOMAIN Dies /\ Api!Top.child \in DOMAIN Dies[Api!Top.die].members
         /\ Api!Child = Dies[Api!Top.die].members[Api!Top.child]
         /\ Api!Type = Leaf(Dies, Api!Child.type)
         /\ Compound(Dies, Api!Type) =>
              Api!Type \in DOMAIN Dies /\ Api!Type < Api!Top.die /\ Holds(Dies, Api!Top.die, Api!Type)
<1>1. apiStack # <<>> /\ apiStatus = "rendering" /\ Api!Top.child \in DOMAIN Dies[Api!Top.die].members
  BY ApiHelpers DEF Api!AtChild, Api!Rendering
<1>2. Api!Top.die \in DOMAIN Dies
  BY <1>1, ApiTop DEF Callable
<1>3. Api!Child = Dies[Api!Top.die].members[Api!Top.child] /\ Api!Type = Leaf(Dies, Api!Child.type)
  BY ApiHelpers DEF Api!Child, Api!Type
<1>4. WellFounded(Dies)
  BY GraphsAssumption DEF AbiInv, Shape, Dies
<1> QED
  BY <1>1, <1>2, <1>3, <1>4 DEF WellFounded, Holds

LEMMA NewFrame ==
  ASSUME AbiInv, NEW d \in DOMAIN Dies, Compound(Dies, d), ~Dies[d].decl, NEW partial \in BOOLEAN,
         partial => Dies[d].name # NoName
  PROVE  /\ Callable(Dies, Api!Frame(d, partial)) /\ Api!Frame(d, partial).die = d
         /\ Api!Frame(d, partial).lines = <<>> /\ Api!Frame(d, partial).partial = partial
<1> DEFINE f == [die |-> d, partial |-> partial, child |-> 1, lines |-> <<>>]
<1>1. Len(Dies[d].members) \in Nat
  BY LibraryFacts DEF LaidOut
<1>2. f = Call(f) /\ f.die = d /\ f.partial = partial /\ f.child = 1 /\ f.lines = <<>>
  BY DEF Call
<1> HIDE DEF f
<1>3. Callable(Dies, f)
  BY <1>1, <1>2 DEF Callable
<1>4. f = Api!Frame(d, partial)
  BY DEF f, Api!Frame
<1> QED
  BY <1>2, <1>3, <1>4

LEMMA RenderKeepsApi ==
  ASSUME AbiInv, ApiInv, NEW root, root = EnvDie(dwarf), root # NoDie, Api!Render(root)
  PROVE  ApiInv'
<1> DEFINE f == Api!Frame(root, TRUE)
<1>1. /\ ~Dies[root].decl /\ Dies[root].name # NoName /\ apiStack = <<>> /\ emittedNames = {}
      /\ apiStatus' = "rendering"
  BY ApiHelpers DEF Api!Render, ApiInv
<1>2. /\ dieRefs' = Put(dieRefs, root, Referred(Dies, root)) /\ emittedNames' = emittedNames \cup {Dies[root].name}
      /\ apiStack' = Append(apiStack, f) /\ UNCHANGED <<dwarf, answer, apiDefs>>
  BY <1>1, ApiHelpers DEF Api!Render, Api!Define
<1>3. root \in DOMAIN Dies /\ Compound(Dies, root)
  BY GraphsAssumption DEF AbiInv, Shape, Dies
<1>4. Callable(Dies, f) /\ f.lines = <<>> /\ f.partial /\ f.die = root
  BY <1>1, <1>3, NewFrame
<1>5. Extends(apiStack', apiStack, f)
  BY <1>2, AppendExtends DEF ApiInv, Writing, Nested
<1> HIDE DEF f
<1>6. Writing(Dies, apiStack, apiDefs, answer, dieRefs, emittedNames) /\ Dies' = Dies
  BY <1>2 DEF ApiInv, Dies
<1>7. Dies[f.die].name \notin emittedNames
  BY <1>1
<1>8. Writing(Dies, apiStack', apiDefs, answer, Put(dieRefs, f.die, Referred(Dies, f.die)),
              emittedNames \cup {Dies[f.die].name})
  BY <1>1, <1>4, <1>5, <1>6, <1>7, BeginWriting
<1> QED
  BY <1>1, <1>2, <1>4, <1>6, <1>8 DEF ApiInv

LEMMA EmitMemberTypeKeepsApi == ASSUME AbiInv, ApiInv, Api!EmitMemberType PROVE ApiInv'
<1> DEFINE f == Api!Frame(Api!Type, TRUE)
           t == Api!Type
<1>1. /\ Api!AtChild /\ Compound(Dies, t) /\ Dies[t].name # NoName /\ Api!Top.partial
      /\ ~Dies[t].decl /\ Dies[t].name \notin emittedNames /\ apiStatus' = apiStatus
  BY ApiHelpers DEF Api!EmitMemberType, Api!ByName, Api!Pending, Api!InPlace
<1>2. /\ dieRefs' = Put(dieRefs, t, Referred(Dies, t)) /\ emittedNames' = emittedNames \cup {Dies[t].name}
      /\ apiStack' = Append(apiStack, f) /\ UNCHANGED <<dwarf, answer, apiDefs>>
  BY ApiHelpers DEF Api!EmitMemberType, Api!Define
<1>3. /\ t \in DOMAIN Dies /\ apiStack # <<>> /\ apiStatus = "rendering"
      /\ Api!Top.child \in DOMAIN Dies[Api!Top.die].members
      /\ t = Leaf(Dies, Dies[Api!Top.die].members[Api!Top.child].type)
  BY <1>1, ApiChild
<1>4. Callable(Dies, f) /\ f.lines = <<>> /\ f.partial = TRUE /\ f.die = t
  BY <1>1, <1>3, NewFrame
<1>5. Extends(apiStack', apiStack, f)
  BY <1>2, AppendExtends DEF ApiInv, Writing, Nested
<1>6. Api!Top = apiStack[Len(apiStack)]
  BY <1>3, ApiTop
<1> HIDE DEF f, t
<1>7. Calls(Dies, apiStack[Len(apiStack)], f)
  BY <1>1, <1>3, <1>4, <1>6 DEF Calls
<1>8. Writing(Dies, apiStack, apiDefs, answer, dieRefs, emittedNames) /\ Dies' = Dies
  BY <1>2 DEF ApiInv, Dies
<1>9. Writing(Dies, apiStack', apiDefs, answer, Put(dieRefs, f.die, Referred(Dies, f.die)),
              emittedNames \cup {Dies[f.die].name})
  BY <1>1, <1>4, <1>5, <1>7, <1>8, BeginWriting
<1> QED
  BY <1>1, <1>2, <1>3, <1>4, <1>8, <1>9 DEF ApiInv

LEMMA ReuseNameKeepsApi == ASSUME AbiInv, ApiInv, Api!ReuseName PROVE ApiInv'
<1>1. /\ Api!AtChild /\ Dies[Api!Type].name \in emittedNames
      /\ dieRefs' = Put(dieRefs, Api!Type, Referred(Dies, Api!Type))
      /\ UNCHANGED <<dwarf, apiStack, answer, apiDefs, emittedNames, apiStatus>>
  BY ApiHelpers DEF Api!ReuseName
<1>2. apiStatus = "rendering" /\ Dies' = Dies
  BY <1>1, ApiChild DEF Dies
<1>3. Writing(Dies, apiStack, apiDefs, answer, Put(dieRefs, Api!Type, Referred(Dies, Api!Type)), emittedNames)
  BY <1>1, ReuseTakenName DEF ApiInv
<1> QED
  BY <1>1, <1>2, <1>3 DEF ApiInv

LEMMA WriteInPlaceKeepsApi == ASSUME AbiInv, ApiInv, Api!WriteInPlace PROVE ApiInv'
<1> DEFINE f == Api!Frame(Api!Type, FALSE)
           t == Api!Type
<1>1. /\ Api!AtChild /\ Compound(Dies, t) /\ ~(Dies[t].name # NoName /\ Api!Top.partial)
      /\ ~Dies[t].decl /\ apiStack' = Append(apiStack, f)
      /\ UNCHANGED <<dwarf, answer, apiDefs, dieRefs, emittedNames, apiStatus>>
  BY ApiHelpers DEF Api!WriteInPlace, Api!ByName, Api!Pending, Api!InPlace
<1>2. /\ t \in DOMAIN Dies /\ apiStack # <<>> /\ apiStatus = "rendering"
      /\ Api!Top.child \in DOMAIN Dies[Api!Top.die].members
      /\ t = Leaf(Dies, Dies[Api!Top.die].members[Api!Top.child].type)
  BY <1>1, ApiChild
<1>3. Callable(Dies, f) /\ f.lines = <<>> /\ f.partial = FALSE /\ f.die = t
  BY <1>1, <1>2, NewFrame
<1>4. Extends(apiStack', apiStack, f)
  BY <1>1, AppendExtends DEF ApiInv, Writing, Nested
<1>5. Api!Top = apiStack[Len(apiStack)]
  BY <1>2, ApiTop
<1> HIDE DEF f, t
<1>6. Calls(Dies, apiStack[Len(apiStack)], f)
  BY <1>1, <1>2, <1>3, <1>5 DEF Calls
<1>7. Writing(Dies, apiStack, apiDefs, answer, dieRefs, emittedNames) /\ Dies' = Dies
  BY <1>1 DEF ApiInv, Dies
<1>8. Writing(Dies, apiStack', apiDefs, answer, dieRefs, emittedNames)
  BY <1>3, <1>4, <1>6, <1>7, BeginInPlace
<1> QED
  BY <1>1, <1>2, <1>7, <1>8 DEF ApiInv

LEMMA MovedOn ==
  ASSUME NEW f, f = Call(f), NEW lines
  PROVE  [f EXCEPT !.child = @ + 1, !.lines = lines]
           = [die |-> f.die, partial |-> f.partial, child |-> f.child + 1, lines |-> lines]
<1> DEFINE g == [f EXCEPT !.child = @ + 1]
           h == [die |-> f.die, partial |-> f.partial, child |-> f.child + 1, lines |-> f.lines]
<1>1. g = h
  BY DEF Call
<1>2. [h EXCEPT !.lines = lines]
        = [die |-> f.die, partial |-> f.partial, child |-> f.child + 1, lines |-> lines]
  OBVIOUS
<1>3. [f EXCEPT !.child = @ + 1, !.lines = lines] = [g EXCEPT !.lines = lines]
  OBVIOUS
<1> QED
  BY <1>1, <1>2, <1>3

(* Going on to the next child, with lines that may stay.                     *)
LEMMA NextChildKeepsApi ==
  ASSUME AbiInv, ApiInv, Api!AtChild, NEW lines, Api!NextChild(lines),
         Api!Top.partial => Open(Dies, apiDefs, Len(apiDefs) + 1, lines),
         ~Api!Top.partial => Plain(lines)
  PROVE  ApiInv'
<1> DEFINE g == [Api!Top EXCEPT !.child = @ + 1, !.lines = lines]
           top == Call(Api!Top)
<1>1. /\ apiStack # <<>> /\ apiStatus = "rendering"
      /\ Api!Top.child \in DOMAIN Dies[Api!Top.die].members
  BY ApiChild
<1>2. Extends(apiStack, Api!Callers, Api!Top) /\ IsSeq(Api!Callers) /\ Api!Top = top
  BY <1>1, ApiTop DEF Callable
<1>3. /\ apiStack' = Append(Api!Callers, g) /\ answer'.form = "none"
      /\ UNCHANGED <<dwarf, apiDefs, dieRefs, emittedNames, apiStatus>>
  BY DEF Api!NextChild, Api!Unanswered
<1>4. /\ g.die = Api!Top.die /\ g.partial = Api!Top.partial /\ g.child = Api!Top.child + 1
      /\ g.lines = lines /\ g = Call(g)
  <2>1. Api!Top = Call(Api!Top)
    BY <1>2
  <2>2. g = [die |-> Api!Top.die, partial |-> Api!Top.partial, child |-> Api!Top.child + 1, lines |-> lines]
    BY <2>1, MovedOn
  <2> HIDE DEF g
  <2>3. /\ g.die = Api!Top.die /\ g.partial = Api!Top.partial /\ g.child = Api!Top.child + 1
        /\ g.lines = lines
    BY <2>2
  <2> QED
    BY <2>2, <2>3 DEF Call
<1> HIDE DEF g, top
<1>5. Extends(apiStack', Api!Callers, g)
  BY <1>2, <1>3, AppendExtends
<1>6. Writing(Dies, apiStack, apiDefs, answer, dieRefs, emittedNames) /\ Dies' = Dies /\ LaidOut(Dies)
  BY <1>3, LibraryFacts DEF ApiInv, Dies
<1>7. Writing(Dies, apiStack', apiDefs, answer', dieRefs, emittedNames)
  BY <1>1, <1>2, <1>3, <1>4, <1>5, <1>6, LookAtNext
<1> QED
  BY <1>1, <1>3, <1>6, <1>7 DEF ApiInv

LEMMA OmitMemberKeepsApi == ASSUME AbiInv, ApiInv, Api!OmitMember PROVE ApiInv'
<1>1. Api!AtChild /\ Api!Top.partial /\ Api!NextChild(Api!Top.lines)
  BY DEF Api!OmitMember
<1>2. Open(Dies, apiDefs, Len(apiDefs) + 1, Api!Top.lines)
  BY <1>1, ApiChild, ApiTop
<1> QED
  BY <1>1, <1>2, NextChildKeepsApi

LEMMA WriteMemberKeepsApi == ASSUME AbiInv, ApiInv, Api!WriteMember PROVE ApiInv'
<1> DEFINE l == Api!Line
           t == Api!Type
<1>1. /\ Api!AtChild /\ Api!Rendered /\ (Api!Child.bits => ~Api!Top.partial)
      /\ Api!NextChild(Append(Api!Top.lines, l))
  BY DEF Api!WriteMember
<1>2. /\ l.bits = Api!Child.bits
      /\ l.ref = IF Api!ByName THEN dieRefs[t] ELSE Api!NoRef
      /\ l.body = IF Api!InPlace THEN answer.lines ELSE <<>>
  BY ApiHelpers DEF Api!Line
<1>3. Api!ByName <=> Compound(Dies, t) /\ Dies[t].name # NoName /\ Api!Top.partial
  BY ApiHelpers DEF Api!ByName
<1>4. Api!InPlace => answer.form = "body"
  BY <1>1, ApiHelpers DEF Api!Rendered, Api!InPlace, Scalar, Compound
<1>5. Api!ByName => t \in DOMAIN dieRefs
  BY <1>1, <1>3, ApiHelpers DEF Api!Rendered, Api!InPlace, Scalar, Compound
<1> HIDE DEF l, t
<1>6. Plain(l.body)
  BY <1>2, <1>4, PlainEmpty DEF ApiInv, Writing, Lines
<1>7. CASE Api!Top.partial
  <2>1. l.ref = Api!NoRef \/ Above(Dies, apiDefs, Len(apiDefs) + 1, l.ref)
    <3>1. CASE Api!ByName
      <4>1. /\ apiStack # <<>> /\ t \in DOMAIN Dies /\ Holds(Dies, Api!Top.die, t)
            /\ Compound(Dies, t) /\ Dies[t].name # NoName
        BY <1>1, <1>3, <3>1, ApiChild DEF t
      <4>2. Api!Top = apiStack[Len(apiStack)]
        BY <4>1, ApiTop
      <4>3. NamedOnce(Dies)
        BY GraphsAssumption DEF AbiInv, Shape, Dies
      <4>4. Writing(Dies, apiStack, apiDefs, answer, dieRefs, emittedNames)
        BY DEF ApiInv
      <4>5. Above(Dies, apiDefs, Len(apiDefs) + 1, dieRefs[t])
        BY <1>5, <1>7, <3>1, <4>1, <4>2, <4>3, <4>4, ReferenceIsAbove
      <4> QED
        BY <1>2, <3>1, <4>5
    <3>2. CASE ~Api!ByName
      BY <1>2, <3>2
    <3> QED
      BY <3>1, <3>2
  <2>2. Open(Dies, apiDefs, Len(apiDefs) + 1, Api!Top.lines)
    BY <1>1, <1>7, ApiChild, ApiTop
  <2>3. Open(Dies, apiDefs, Len(apiDefs) + 1, Append(Api!Top.lines, l))
    BY <1>1, <1>2, <1>6, <1>7, <2>1, <2>2, OpenAppend
  <2> QED
    BY <1>1, <1>7, <2>3, NextChildKeepsApi
<1>8. CASE ~Api!Top.partial
  <2>1. Plain(Api!Top.lines)
    BY <1>1, <1>8, ApiChild, ApiTop
  <2>2. l.ref = Api!NoRef
    BY <1>2, <1>3, <1>8
  <2>3. Plain(Append(Api!Top.lines, l))
    BY <1>6, <2>1, <2>2, PlainAppend
  <2> QED
    BY <1>1, <1>8, <2>3, NextChildKeepsApi
<1> QED
  BY <1>7, <1>8

LEMMA GiveKeepsApi ==
  ASSUME AbiInv, ApiInv, apiStack # <<>>, apiStatus = "rendering", ~Api!Top.partial,
         NEW a, a.form = "body" => Plain(a.lines), Api!Give(a)
  PROVE  ApiInv'
<1>1. /\ apiStack' = Api!Callers /\ answer' = a
      /\ UNCHANGED <<dwarf, apiDefs, dieRefs, emittedNames, apiStatus>>
  BY DEF Api!Give
<1>2. Extends(apiStack, Api!Callers, Api!Top) /\ IsSeq(Api!Callers)
  BY ApiTop
<1>3. Writing(Dies, apiStack, apiDefs, answer, dieRefs, emittedNames) /\ Dies' = Dies
  BY <1>1 DEF ApiInv, Dies
<1>4. Writing(Dies, Api!Callers, apiDefs, a, dieRefs, emittedNames)
  BY <1>2, <1>3, ReturnInPlace
<1> QED
  BY <1>1, <1>3, <1>4 DEF ApiInv

LEMMA GiveUpInPlaceKeepsApi == ASSUME AbiInv, ApiInv, Api!GiveUpInPlace PROVE ApiInv'
<1>1. Api!AtChild /\ ~Api!Top.partial /\ Api!Give(Api!Failed) /\ Api!Failed.form # "body"
  BY DEF Api!GiveUpInPlace, Api!Failed
<1>2. apiStack # <<>> /\ apiStatus = "rendering"
  BY <1>1 DEF Api!AtChild, Api!Rendering
<1> QED
  BY <1>1, <1>2, GiveKeepsApi

LEMMA LeaveInPlaceKeepsApi == ASSUME AbiInv, ApiInv, Api!LeaveInPlace PROVE ApiInv'
<1> DEFINE a == IF Api!Top.lines = <<>> THEN Api!Failed ELSE Api!Body(Api!Top.lines)
<1>1. Api!AtEnd /\ ~Api!Top.partial /\ Api!Give(a)
  BY DEF Api!LeaveInPlace
<1>2. apiStack # <<>> /\ apiStatus = "rendering"
  BY <1>1 DEF Api!AtEnd, Api!Rendering
<1>3. a.form = "body" => a.lines = Api!Top.lines
  BY DEF Api!Failed, Api!Body
<1>4. Plain(Api!Top.lines)
  BY <1>1, <1>2, ApiTop
<1> HIDE DEF a
<1> QED
  BY <1>1, <1>2, <1>3, <1>4, GiveKeepsApi

LEMMA LeaveDefinitionKeepsApi == ASSUME AbiInv, ApiInv, Api!LeaveDefinition PROVE ApiInv'
<1> DEFINE def == [die |-> Api!Top.die, lines |-> Api!Top.lines]
<1>1. /\ apiStack # <<>> /\ apiStatus = "rendering" /\ Api!Top.partial
      /\ apiDefs' = Append(apiDefs, def) /\ apiStack' = Api!Callers
      /\ apiStatus' # "idle" /\ UNCHANGED <<dwarf, answer, dieRefs, emittedNames>>
  BY DEF Api!LeaveDefinition, Api!AtEnd, Api!Rendering
<1>2. Extends(apiStack, Api!Callers, Api!Top) /\ IsSeq(Api!Callers)
  BY <1>1, ApiTop
<1>3. Writing(Dies, apiStack, apiDefs, answer, dieRefs, emittedNames) /\ Dies' = Dies
  BY <1>1 DEF ApiInv, Dies
<1>4. Extends(apiDefs', apiDefs, def)
  BY <1>1, <1>3, AppendExtends DEF Writing
<1>5. def.die = Api!Top.die /\ def.lines = Api!Top.lines
  OBVIOUS
<1> HIDE DEF def
<1>6. Writing(Dies, Api!Callers, apiDefs', answer, dieRefs, emittedNames)
  BY <1>1, <1>2, <1>3, <1>4, <1>5, EndWriting
<1> QED
  BY <1>1, <1>3, <1>6 DEF ApiInv

LEMMA ApiWaits ==
  ASSUME ApiInv, dwarf' = dwarf,
         UNCHANGED apiVars \/ \E root : Api!RootUnnamed(root)
  PROVE  ApiInv'
<1>1. UNCHANGED <<apiStack, answer, apiDefs, dieRefs, emittedNames>> /\ Dies' = Dies
      /\ (apiStatus' = "idle" => apiStatus = "idle")
  BY DEF apiVars, Api!RootUnnamed, Dies
<1> QED
  BY <1>1 DEF ApiInv

LEMMA ExtractReads == ASSUME Extract PROVE dwarf' = dwarf
<1>1. CASE EmitRoot \/ EmitMemberType
  BY <1>1 DEF EmitRoot, EmitMemberType, Enter
<1>2. CASE NoRoot \/ DropMember \/ KeepMember
  BY <1>2 DEF NoRoot, DropMember, KeepMember
<1>3. CASE UnknownLocation \/ LeaveStruct
  BY <1>3 DEF UnknownLocation, LeaveStruct
<1> QED
  BY <1>1, <1>2, <1>3 DEF Extract

(* What the emitter has written is accepted, and it has a root to begin at.  *)
THEOREM ApiInvariance == Spec => [](ApiInv /\ RootInv)
<1>1. Init => ApiInv
  <2>1. ASSUME Init
        PROVE  apiStack = <<>> /\ apiDefs = <<>> /\ emittedNames = {} /\ DOMAIN dieRefs = {}
               /\ answer.form = "none"
    BY <2>1 DEF Init, Api!Fresh, Api!Unanswered
  <2>2. ASSUME Init PROVE Writing(Dies, apiStack, apiDefs, answer, dieRefs, emittedNames)
    BY <2>1, <2>2, EmptyIsSeq DEF Writing, Nested, Taken, Once, Lines
  <2> QED
    BY <2>1, <2>2 DEF ApiInv
<1>2. Init => RootInv
  BY DEF Init, Fresh, RootInv
<1>3. ASSUME AbiInv, ApiInv, RootInv, status = "exact", Api!Next(EnvDie(dwarf)) PROVE ApiInv'
  <2>1. EnvDie(dwarf) # NoDie
    BY <1>3 DEF RootInv
  <2>2. CASE Api!RootUnnamed(EnvDie(dwarf))
    BY <1>3, <2>2, ApiReads, ApiWaits
  <2> QED
    BY <1>3, <2>1, <2>2, RenderKeepsApi, EmitMemberTypeKeepsApi, ReuseNameKeepsApi, WriteInPlaceKeepsApi,
       OmitMemberKeepsApi, GiveUpInPlaceKeepsApi, WriteMemberKeepsApi, LeaveDefinitionKeepsApi,
       LeaveInPlaceKeepsApi DEF Api!Next
<1>4. ASSUME [Next]_vars, ~(status = "exact" /\ Api!Next(EnvDie(dwarf)))
      PROVE  UNCHANGED apiVars /\ dwarf' = dwarf
  BY <1>4, ExtractReads DEF Next, VerifyAndRepair, Finished, vars
<1>5. AbiInv /\ ApiInv /\ RootInv /\ [Next]_vars => ApiInv'
  BY <1>3, <1>4, ApiWaits
<1>6. RootInv /\ [Next]_vars => RootInv'
  <2> SUFFICES ASSUME RootInv, [Next]_vars PROVE RootInv'
    OBVIOUS
  <2>1. CASE Extract /\ UNCHANGED <<repairVars, apiVars>>
    <3>1. dwarf' = dwarf /\ status' = status
      BY <2>1, ExtractReads DEF repairVars
    <3>2. abiStatus' \in {"emitting", "emitted"} => EnvDie(dwarf) # NoDie
      BY <2>1 DEF RootInv, Extract, EmitRoot, NoRoot, RootFound, DropMember, EmitMemberType, KeepMember,
         UnknownLocation, LeaveStruct, AtChild, AtEnd
    <3> QED
      BY <3>1, <3>2 DEF RootInv
  <2>2. CASE VerifyAndRepair
    BY <2>2 DEF VerifyAndRepair, RootInv, abiVars
  <2>3. CASE status = "verifying" /\ Repair!Next /\ UNCHANGED <<dwarf, abiVars, apiVars>>
    BY <2>3 DEF RootInv, abiVars
  <2>4. CASE status = "exact" /\ Api!Next(EnvDie(dwarf)) /\ UNCHANGED <<abiVars, repairVars>>
    BY <2>4, ApiReads DEF RootInv, abiVars, repairVars
  <2>5. CASE UNCHANGED vars
    BY <2>5 DEF RootInv, vars, abiVars, repairVars
  <2> QED
    BY <2>1, <2>2, <2>3, <2>4, <2>5 DEF Next, Finished
<1> QED
  BY <1>1, <1>2, <1>5, <1>6, Invariance, PTL DEF Spec

(* The lines at any depth are found by as many steps outwards as there are   *)
(* types; a set of lines that holds the bodies of its lines holds them all.  *)
LEMMA InsideStays ==
  ASSUME IsFiniteSet(DOMAIN Dies), NEW lines, NEW S, lines \in Seq(S), \A l \in S : l.body \in Seq(S)
  PROVE  Api!Inside(lines) \subseteq S
<1> DEFINE depth == Cardinality(DOMAIN Dies)
           Step(f, n) == IF n = 0 THEN {lines[i] : i \in DOMAIN lines}
                         ELSE LET known == f[n - 1]
                              IN known \cup UNION {{l.body[j] : j \in DOMAIN l.body} : l \in known}
           IsIn(f, N) == f = [n \in 0..N |-> Step(f, n)]
           T == {N \in Nat : \E f : IsIn(f, N) /\ \A n \in 0..N : f[n] \subseteq S}
           in == CHOOSE f : IsIn(f, depth)
<1>1. depth \in Nat
  BY FS_CardinalityType
<1>2. {lines[i] : i \in DOMAIN lines} \subseteq S /\ \A l \in S : {l.body[j] : j \in DOMAIN l.body} \subseteq S
  OBVIOUS
<1>3. ASSUME NEW f, NEW n \in Nat \ {0}, f[n - 1] \subseteq S PROVE Step(f, n) \subseteq S
  BY <1>2, <1>3
<1>4. 0 \in T
  <2> DEFINE g == [n \in 0..0 |-> {lines[i] : i \in DOMAIN lines}]
  <2>1. IsIn(g, 0) /\ \A n \in 0..0 : g[n] \subseteq S
    BY <1>2
  <2> QED
    BY <2>1
<1>5. ASSUME NEW N \in Nat, N \in T PROVE N + 1 \in T
  <2>1. PICK f : IsIn(f, N) /\ \A n \in 0..N : f[n] \subseteq S
    BY <1>5
  <2> DEFINE newest == Step(f, N + 1)
             g == [n \in 0..(N + 1) |-> IF n = N + 1 THEN newest ELSE f[n]]
  <2>2. newest \subseteq S
    <3> HIDE DEF Step
    <3> QED
      BY <1>3, <2>1
  <2>3. ASSUME NEW n \in 0..(N + 1) PROVE g[n] = Step(g, n) /\ g[n] \subseteq S
    <3>1. CASE n = N + 1
      <4>1. g[n] = newest /\ g[n - 1] = f[n - 1] /\ n # 0
        BY <3>1
      <4>2. Step(g, n) = Step(f, n)
        BY <4>1
      <4> HIDE DEF Step, g
      <4> QED
        BY <2>2, <3>1, <4>1, <4>2
    <3>2. CASE n \in 1..N
      <4>1. g[n] = f[n] /\ g[n - 1] = f[n - 1] /\ n # 0 /\ n \in 0..N
        BY <3>2
      <4>2. Step(g, n) = Step(f, n)
        BY <4>1
      <4>3. f[n] = Step(f, n)
        <5> HIDE DEF Step
        <5> QED
          BY <2>1, <4>1
      <4> HIDE DEF Step, g
      <4> QED
        BY <2>1, <4>1, <4>2, <4>3
    <3>3. CASE n = 0
      <4>1. g[n] = f[n] /\ n \in 0..N /\ Step(g, n) = Step(f, n)
        BY <3>3
      <4>2. f[n] = Step(f, n)
        <5> HIDE DEF Step
        <5> QED
          BY <2>1, <4>1
      <4> HIDE DEF Step, g
      <4> QED
        BY <2>1, <4>1, <4>2
    <3> QED
      BY <3>1, <3>2, <3>3
  <2>4. g = [n \in 0..(N + 1) |-> g[n]]
    OBVIOUS
  <2> HIDE DEF g, Step
  <2>5. IsIn(g, N + 1) /\ \A n \in 0..(N + 1) : g[n] \subseteq S
    BY <2>3, <2>4
  <2> HIDE DEF IsIn
  <2> QED
    BY <2>5
<1>6. depth \in T
  <2> HIDE DEF T, depth
  <2> QED
    BY <1>1, <1>4, <1>5, NatSetInduction
<1>7. PICK f : IsIn(f, depth) /\ \A n \in 0..depth : f[n] \subseteq S
  BY <1>6
<1>8. IsIn(in, depth)
  <2> HIDE DEF IsIn, depth
  <2> QED
    BY <1>7
<1>9. ASSUME NEW n \in 0..depth PROVE in[n] = Step(in, n)
  <2> HIDE DEF Step, in, depth
  <2> QED
    BY <1>8
<1> DEFINE U == {n \in Nat : n <= depth => in[n] \subseteq S}
<1>10. 0 \in U
  <2>1. Step(in, 0) \subseteq S /\ 0 \in 0..depth
    BY <1>1, <1>2
  <2> HIDE DEF Step, in, depth
  <2> QED
    BY <1>9, <2>1
<1>11. ASSUME NEW n \in Nat, n \in U PROVE n + 1 \in U
  <2> HIDE DEF Step, in, depth
  <2> SUFFICES ASSUME n + 1 <= depth PROVE in[n + 1] \subseteq S
    OBVIOUS
  <2>1. in[n] \subseteq S /\ n + 1 \in 0..depth /\ n + 1 \in Nat \ {0} /\ (n + 1) - 1 = n
    BY <1>1, <1>11
  <2> QED
    BY <1>3, <1>9, <2>1
<1>12. in[depth] \subseteq S
  <2> HIDE DEF U, in, depth
  <2>1. depth \in U
    BY <1>1, <1>10, <1>11, NatSetInduction
  <2> QED
    BY <1>1, <2>1 DEF U
<1>13. Api!Inside(lines) = in[depth]
  BY Zenon DEF Api!Inside, Api!Dies, Dies, Api!Cardinality, Cardinality
<1> QED
  BY <1>12, <1>13

(* For every library, the cdef has one definition of a name, before any      *)
(* member of that type (and of the kind the member names it by, if the       *)
(* library has one kind for a name), and no bitfield or reference where cffi *)
(* refuses them.                                                             *)
THEOREM CdefIsAccepted == Spec => []CdefAccepted
<1>1. ASSUME AbiInv, ApiInv PROVE CdefAccepted
  <2>1. IsFiniteSet(DOMAIN Dies)
    BY <1>1, GraphsAssumption DEF AbiInv, Shape, Dies
  <2>2. IsSeq(apiDefs) /\ DOMAIN apiDefs = 1..Len(apiDefs) /\ Len(apiDefs) \in Nat
    BY <1>1, IsSeqFacts DEF ApiInv, Writing
  <2>3. ASSUME NEW body, Plain(body) PROVE \A l \in Api!Inside(body) : l.ref = Api!NoRef
    <3>1. PICK S : body \in Seq(S) /\ \A l \in S : l.ref = Api!NoRef /\ l.body \in Seq(S)
      BY <2>3 DEF Plain
    <3>2. Api!Inside(body) \subseteq S
      BY <2>1, <3>1, InsideStays
    <3> QED
      BY <3>1, <3>2
  <2>4. ASSUME NEW i \in DOMAIN apiDefs, NEW lines, Open(Dies, apiDefs, i, lines)
        PROVE  \A l \in Api!Inside(lines) : l.ref = Api!NoRef \/ Above(Dies, apiDefs, i, l.ref)
    <3> DEFINE Below(k) == CHOOSE S : lines[k].body \in Seq(S) /\ \A l \in S : l.ref = Api!NoRef /\ l.body \in Seq(S)
               U == {lines[k] : k \in 1..Len(lines)} \cup UNION {Below(k) : k \in 1..Len(lines)}
    <3>1. IsSeq(lines) /\ DOMAIN lines = 1..Len(lines) /\ Len(lines) \in Nat
      BY <2>4, IsSeqFacts DEF Open
    <3>2. \A k \in 1..Len(lines) : Plain(lines[k].body)
      BY <2>4 DEF Open
    <3>3. ASSUME NEW k \in 1..Len(lines)
          PROVE  lines[k].body \in Seq(Below(k)) /\ \A l \in Below(k) : l.ref = Api!NoRef /\ l.body \in Seq(Below(k))
      BY <3>2, <3>3, Zenon DEF Plain
    <3> HIDE DEF Below
    <3>4. \A k \in 1..Len(lines) : Below(k) \subseteq U /\ lines[k] \in U
      OBVIOUS
    <3>5. \A l \in U : \/ \E k \in 1..Len(lines) : l = lines[k]
                       \/ \E k \in 1..Len(lines) : l \in Below(k)
      OBVIOUS
    <3> HIDE DEF U
    <3>6. ASSUME NEW l \in U PROVE l.body \in Seq(U)
      <4>1. CASE \E k \in 1..Len(lines) : l = lines[k]
        <5>1. PICK k \in 1..Len(lines) : l = lines[k]
          BY <4>1
        <5> QED
          BY <3>3, <3>4, <5>1, SeqMonotonic
      <4>2. CASE \E k \in 1..Len(lines) : l \in Below(k)
        <5>1. PICK k \in 1..Len(lines) : l \in Below(k)
          BY <4>2
        <5> QED
          BY <3>3, <3>4, <5>1, SeqMonotonic
      <4> QED
        BY <3>5, <4>1, <4>2
    <3>7. lines \in Seq(U)
      <4>1. PICK S : lines \in Seq(S)
        BY <3>1 DEF IsSeq
      <4> QED
        BY <3>4, <4>1, SeqOfElements
    <3>8. Api!Inside(lines) \subseteq U
      BY <2>1, <3>6, <3>7, InsideStays
    <3>9. ASSUME NEW l \in U PROVE l.ref = Api!NoRef \/ Above(Dies, apiDefs, i, l.ref)
      BY <2>4, <3>3, <3>5 DEF Open
    <3> QED
      BY <3>8, <3>9
  <2>5. \A i \in DOMAIN apiDefs : Open(Dies, apiDefs, i, apiDefs[i].lines)
    BY <1>1, <2>2 DEF ApiInv, Writing, Lines
  <2>6. \A i, j \in DOMAIN apiDefs : Dies[apiDefs[i].die].name = Dies[apiDefs[j].die].name => i = j
    BY <1>1, <2>2 DEF ApiInv, Writing, Once
  <2>9. ASSUME NEW i \in DOMAIN apiDefs, NEW ref, Above(Dies, apiDefs, i, ref)
        PROVE  Api!Defined(i - 1, ref)
    <3>1. Api!OneKindPerName => OneKind(Dies)
      BY ApiHelpers DEF Api!OneKindPerName, OneKind
    <3>2. PICK j \in 1..(i - 1) : Matches(Dies, apiDefs[j].die, ref)
      BY <2>9 DEF Above
    <3> QED
      BY <3>1, <3>2, ApiHelpers DEF Matches, Api!Defined
  <2>7. ASSUME NEW i \in DOMAIN apiDefs
        PROVE  \A l \in Api!Inside(apiDefs[i].lines) :
                 l.ref = Api!NoRef \/ Api!Defined(i - 1, l.ref)
    BY <2>4, <2>5, <2>9
  <2>8. ASSUME NEW i \in DOMAIN apiDefs, NEW k \in DOMAIN apiDefs[i].lines
        PROVE  /\ ~apiDefs[i].lines[k].bits
               /\ \A l \in Api!Inside(apiDefs[i].lines[k].body) : l.ref = Api!NoRef
    <3>1. IsSeq(apiDefs[i].lines) /\ k \in 1..Len(apiDefs[i].lines)
      BY <2>5, IsSeqFacts DEF Open
    <3>2. ~apiDefs[i].lines[k].bits /\ Plain(apiDefs[i].lines[k].body)
      BY <2>5, <3>1 DEF Open
    <3> QED
      BY <2>3, <3>2
  <2> QED
    BY <2>6, <2>7, <2>8, ApiHelpers DEF CdefAccepted, Api!CdefAccepted
<1> QED
  BY <1>1, Invariance, ApiInvariance, PTL

-----------------------------------------------------------------------------
(* What the cdef has.                                                        *)
(* What can be written, with C for CompleteInPlace.                          *)
InPlaceMember(D, C, m) ==
  LET t == Leaf(D, m.type)
  IN /\ ~Unsized(D, m.type)
     /\ Scalar(D, t) \/ (Compound(D, t) /\ C[t])
     /\ m.bits => m.name # NoName /\ ~IsArray(D, m.type)
     /\ m.name = NoName => Compound(D, t)
InPlaceType(D, C, d) ==
  /\ ~D[d].decl /\ Len(D[d].members) > 0
  /\ \A k \in DOMAIN D[d].members : InPlaceMember(D, C, D[d].members[k])
Complete(D) == CHOOSE C : C = [d \in DOMAIN D |-> InPlaceType(D, C, d)]
DefinitionMember(D, C, m) ==
  LET t == Leaf(D, m.type)
  IN /\ ~m.bits /\ ~Unsized(D, m.type)
     /\ \/ Scalar(D, t) /\ m.name # NoName
        \/ /\ Compound(D, t)
           /\ (D[t].name = NoName => C[t]) /\ (D[t].name # NoName => ~D[t].decl /\ m.name # NoName)

(* What is written, of the definitions and of the calls so far.              *)
ChildrenIn(lines) == {lines[k].child : k \in DOMAIN lines}
Written(D, C, f) ==
  /\ f.partial =>
       ChildrenIn(f.lines) =
         {k \in DOMAIN D[f.die].members : k < f.child /\ DefinitionMember(D, C, D[f.die].members[k])}
  /\ ~f.partial =>
       /\ \A k \in DOMAIN D[f.die].members : k < f.child => InPlaceMember(D, C, D[f.die].members[k])
       /\ f.lines = <<>> <=> f.child = 1
HasWhatItCan(D, C, def) ==
  ChildrenIn(def.lines) =
    {k \in DOMAIN D[def.die].members : DefinitionMember(D, C, D[def.die].members[k])}
Answers(D, C, f, reply) ==
  LET t == Leaf(D, D[f.die].members[f.child].type)
  IN /\ f.child \in DOMAIN D[f.die].members /\ Compound(D, t)
     /\ ~(f.partial /\ D[t].name # NoName)
     /\ reply.form = "body" <=> C[t]
Told(D, C, calls, written, reply, refs) ==
  /\ \A i \in 1..Len(written) : HasWhatItCan(D, C, written[i])
  /\ \A i \in 1..Len(calls) : Written(D, C, calls[i]) /\ (i = 1 => calls[i].partial)
  /\ reply.form \in {"none", "failed", "body"}
  /\ reply.form = "none" => reply = [form |-> "none"]
  /\ reply.form # "none" => calls # <<>> /\ Answers(D, C, calls[Len(calls)], reply)
  /\ \A t \in DOMAIN refs : ~D[t].decl

TellInv == Told(Dies, Complete(Dies), apiStack, apiDefs, answer, dieRefs)

-----------------------------------------------------------------------------
LEMMA FiniteBound ==
  ASSUME NEW S, S \subseteq Nat, IsFiniteSet(S)
  PROVE  \E N \in Nat : \A s \in S : s < N
<1>1. PICK seq \in Seq(S) : \A s \in S : \E n \in 1..Len(seq) : seq[n] = s
  BY DEF IsFiniteSet
<1>0. Len(seq) \in Nat /\ \A i \in 1..Len(seq) : seq[i] \in Nat
  BY LenProperties, ElementOfSeq
<1> DEFINE T == {n \in Nat : \E N \in Nat : \A i \in 1..n : i <= Len(seq) => seq[i] < N}
<1>2. 0 \in T
  OBVIOUS
<1>3. ASSUME NEW n \in Nat, n \in T PROVE n + 1 \in T
  <2>1. PICK N \in Nat : \A i \in 1..n : i <= Len(seq) => seq[i] < N
    BY <1>3
  <2>2. CASE n + 1 <= Len(seq)
    <3>1. seq[n + 1] \in Nat
      <4>1. n + 1 \in 1..Len(seq)
        BY <1>0, <2>2
      <4> QED
        BY <1>0, <4>1
    <3>2. PICK M \in Nat : M >= N /\ M > seq[n + 1]
      <4>1. CASE N > seq[n + 1]
        BY <4>1
      <4>2. CASE ~(N > seq[n + 1])
        <5>1. seq[n + 1] + 1 \in Nat /\ seq[n + 1] + 1 >= N /\ seq[n + 1] + 1 > seq[n + 1]
          BY <3>1, <4>2
        <5> QED
          BY <5>1
      <4> QED
        BY <4>1, <4>2
    <3>3. \A i \in 1..(n + 1) : i <= Len(seq) => seq[i] < M
      <4> SUFFICES ASSUME NEW i \in 1..(n + 1), i <= Len(seq) PROVE seq[i] < M
        OBVIOUS
      <4>1. seq[i] \in Nat
        <5>1. i \in 1..Len(seq)
          BY <1>0
        <5> QED
          BY <1>0, <5>1
      <4> QED
        BY <2>1, <3>2, <4>1
    <3> QED
      BY <3>3
  <2>3. CASE ~(n + 1 <= Len(seq))
    <3>1. \A i \in 1..(n + 1) : i <= Len(seq) => seq[i] < N
      BY <2>1, <2>3
    <3> QED
      BY <3>1
  <2> QED
    BY <2>2, <2>3
<1>4. Len(seq) \in T
  <2> HIDE DEF T
  <2> QED
    BY <1>2, <1>3, NatSetInduction
<1>5. PICK N \in Nat : \A i \in 1..Len(seq) : seq[i] < N
  BY <1>4
<1> QED
  BY <1>1, <1>5

(* Whether a type can be written in place depends on the types it holds.     *)
LEMMA InPlaceDepends ==
  ASSUME NEW D, WellFounded(D), NEW f, NEW g, NEW d \in DOMAIN D,
         \A t \in DOMAIN D : t < d => f[t] = g[t]
  PROVE  InPlaceType(D, f, d) = InPlaceType(D, g, d)
<1>1. \A k \in DOMAIN D[d].members :
        LET t == Leaf(D, D[d].members[k].type)
        IN Compound(D, t) => f[t] = g[t]
  BY DEF WellFounded
<1>2. \A k \in DOMAIN D[d].members :
        InPlaceMember(D, f, D[d].members[k]) <=> InPlaceMember(D, g, D[d].members[k])
  BY <1>1 DEF InPlaceMember
<1> QED
  BY <1>2 DEF InPlaceType

LEMMA InPlaceDefined ==
  ASSUME NEW D, WellFounded(D), DOMAIN D \subseteq Nat, IsFiniteSet(DOMAIN D)
  PROVE  \E f : f = [d \in DOMAIN D |-> InPlaceType(D, f, d)]
<1> DEFINE Is(f, N) == f = [d \in DOMAIN D |-> IF d < N THEN InPlaceType(D, f, d) ELSE FALSE]
           T == {N \in Nat : \E f : Is(f, N)}
<1>1. 0 \in T
  <2> DEFINE f == [d \in DOMAIN D |-> FALSE]
  <2>1. \A d \in DOMAIN D : ~(d < 0)
    OBVIOUS
  <2>2. f = [d \in DOMAIN D |-> IF d < 0 THEN InPlaceType(D, f, d) ELSE FALSE]
    BY <2>1
  <2> HIDE DEF f
  <2> QED
    BY <2>2
<1>2. ASSUME NEW N \in Nat, N \in T PROVE N + 1 \in T
  <2>1. PICK f : Is(f, N)
    BY <1>2
  <2> DEFINE g == [d \in DOMAIN D |-> IF d < N + 1 THEN InPlaceType(D, f, d) ELSE FALSE]
  <2>2. \A d \in DOMAIN D : d < N => f[d] = g[d]
    <3>1. \A d \in DOMAIN D : d < N => f[d] = InPlaceType(D, f, d)
      BY <2>1
    <3>2. \A d \in DOMAIN D : d < N => g[d] = InPlaceType(D, f, d)
      <4>1. \A d \in DOMAIN D : d < N => d < N + 1
        OBVIOUS
      <4> HIDE DEF Is
      <4> QED
        BY <4>1, Zenon
    <3> QED
      BY <3>1, <3>2
  <2> HIDE DEF g, Is
  <2>3. ASSUME NEW d \in DOMAIN D, d < N + 1 PROVE InPlaceType(D, f, d) = InPlaceType(D, g, d)
    <3>1. \A t \in DOMAIN D : t < d => f[t] = g[t]
      BY <2>2, <2>3
    <3> QED
      BY <3>1, InPlaceDepends
  <2>4. g = [d \in DOMAIN D |-> IF d < N + 1 THEN InPlaceType(D, g, d) ELSE FALSE]
    BY <2>3, Zenon DEF g
  <2>5. Is(g, N + 1)
    BY <2>4 DEF Is
  <2> QED
    BY <2>5
<1>3. PICK N \in Nat : \A d \in DOMAIN D : d < N
  BY FiniteBound
<1>4. N \in T
  <2> HIDE DEF T
  <2> QED
    BY <1>1, <1>2, NatSetInduction
<1>5. PICK f : Is(f, N)
  BY <1>4
<1>6. f = [d \in DOMAIN D |-> InPlaceType(D, f, d)]
  BY <1>3, <1>5, Zenon
<1> QED
  BY <1>6

LEMMA Completed ==
  ASSUME NEW D, WellFounded(D), DOMAIN D \subseteq Nat, IsFiniteSet(DOMAIN D)
  PROVE  \A d \in DOMAIN D : Complete(D)[d] = InPlaceType(D, Complete(D), d)
<1>1. Complete(D) = [d \in DOMAIN D |-> InPlaceType(D, Complete(D), d)]
  BY InPlaceDefined, Zenon DEF Complete
<1> HIDE DEF Complete
<1> QED
  BY <1>1, Zenon

LEMMA CompleteForApi == Api!CompleteInPlace = Complete(Dies)
BY Zenon DEF Api!CompleteInPlace, Complete, InPlaceType, InPlaceMember, Api!Dies, Dies, Api!Compound, Compound,
   Api!Leaf, Leaf, Api!IsArray, IsArray, Api!ResolveTypedefs, ResolveTypedefs, Api!Qualifiers, Qualifiers,
   Api!NoDie, NoDie, Api!NoName, NoName, Api!Unsized, Unsized, Api!Dims, Dims, Api!ArrayDims, ArrayDims, Api!Scalar, Scalar,
   Api!NoSize, NoSize, Api!BaseTypes, BaseTypes

(* What the steps do to the calls, said of values.                           *)
LEMMA ToldOfACall ==
  ASSUME NEW D, NEW C, NEW calls, IsSeq(calls), NEW written, NEW reply, NEW refs,
         Told(D, C, calls, written, reply, refs), reply.form = "none",
         NEW f, Written(D, C, f), calls = <<>> => f.partial, NEW longer, Extends(longer, calls, f),
         NEW after, \A t \in DOMAIN after : ~D[t].decl
  PROVE  Told(D, C, longer, written, reply, after)
<1>1. calls = <<>> \/ Len(calls) > 0
  BY IsSeqFacts
<1>2. \A i \in 1..Len(longer) : Written(D, C, longer[i]) /\ (i = 1 => longer[i].partial)
  <2>1. calls = <<>> \/ Len(calls) + 1 # 1
    BY <1>1, IsSeqFacts
  <2> QED
    BY <2>1, ExtendsPlaces DEF Told
<1> QED
  BY <1>2 DEF Told

LEMMA ToldOfAnAnswer ==
  ASSUME NEW D, NEW C, NEW calls, IsSeq(calls), NEW written, NEW reply, NEW refs, NEW longer, NEW f,
         Nested(D, longer), Told(D, C, longer, written, reply, refs), Extends(longer, calls, f), ~f.partial,
         NEW a, a.form \in {"failed", "body"}, a.form = "body" <=> C[f.die]
  PROVE  Told(D, C, calls, written, a, refs)
<1>1. Callable(D, f) /\ (calls # <<>> => Calls(D, calls[Len(calls)], f))
  BY NestedReturn
<1>2. calls # <<>>
  <2>1. ASSUME calls = <<>> PROVE FALSE
    <3>1. Len(calls) = 0
      BY <2>1, EmptyIsSeq
    <3>2. 1 \in 1..Len(longer) /\ longer[1] = f
      BY <3>1, ExtendsPlaces
    <3> QED
      BY <3>2 DEF Told
  <2> QED
    BY <2>1
<1>3. Answers(D, C, calls[Len(calls)], a)
  BY <1>1, <1>2 DEF Answers, Calls, Callable
<1>4. \A i \in 1..Len(calls) : Written(D, C, calls[i]) /\ (i = 1 => calls[i].partial)
  BY ExtendsPlaces DEF Told
<1> QED
  BY <1>2, <1>3, <1>4 DEF Told

LEMMA ToldOfTheNext ==
  ASSUME NEW D, NEW C, NEW calls, NEW written, NEW reply, NEW refs, NEW longer, NEW f,
         Told(D, C, longer, written, reply, refs), Extends(longer, calls, f),
         NEW g, g.partial = f.partial, Written(D, C, g), NEW newer, Extends(newer, calls, g)
  PROVE  Told(D, C, newer, written, [form |-> "none"], refs)
<1>1. \A i \in 1..Len(newer) : Written(D, C, newer[i]) /\ (i = 1 => newer[i].partial)
  BY ExtendsPlaces DEF Told
<1> QED
  BY <1>1 DEF Told

LEMMA ToldOfADefinition ==
  ASSUME NEW D, NEW C, NEW calls, NEW written, NEW reply, NEW refs, NEW longer, NEW f,
         Told(D, C, longer, written, reply, refs), Extends(longer, calls, f), reply.form = "none",
         NEW def, HasWhatItCan(D, C, def), NEW more, Extends(more, written, def)
  PROVE  Told(D, C, calls, more, reply, refs)
<1>1. \A i \in 1..Len(calls) : Written(D, C, calls[i]) /\ (i = 1 => calls[i].partial)
  BY ExtendsPlaces DEF Told
<1>2. \A i \in 1..Len(more) : HasWhatItCan(D, C, more[i])
  BY ExtendsPlaces DEF Told
<1> QED
  BY <1>1, <1>2 DEF Told

(* Lines get a line for the child they have come to.                         *)
LEMMA OneMoreLine ==
  ASSUME NEW lines, IsSeq(lines), NEW l
  PROVE  ChildrenIn(Append(lines, l)) = ChildrenIn(lines) \cup {l.child} /\ Append(lines, l) # <<>>
<1> DEFINE longer == Append(lines, l)
<1>1. Extends(longer, lines, l)
  BY AppendExtends
<1> HIDE DEF longer
<1>2. IsSeq(longer) /\ Len(longer) = Len(lines) + 1 /\ Len(lines) \in Nat
  BY <1>1 DEF Extends
<1>3. DOMAIN longer = 1..Len(longer) /\ DOMAIN lines = 1..Len(lines)
  BY <1>2, IsSeqFacts
<1>4. ChildrenIn(longer) = ChildrenIn(lines) \cup {l.child}
  <2>1. ASSUME NEW c \in ChildrenIn(longer) PROVE c \in ChildrenIn(lines) \cup {l.child}
    <3>1. PICK i \in 1..Len(longer) : c = longer[i].child
      BY <1>3 DEF ChildrenIn
    <3> QED
      BY <1>1, <1>3, <3>1, ExtendsPlaces DEF ChildrenIn
  <2>2. ASSUME NEW c \in ChildrenIn(lines) PROVE c \in ChildrenIn(longer)
    <3>1. PICK i \in 1..Len(lines) : c = lines[i].child
      BY <1>3 DEF ChildrenIn
    <3> QED
      BY <1>1, <1>3, <3>1, ExtendsPlaces DEF ChildrenIn
  <2>3. l.child \in ChildrenIn(longer)
    BY <1>1, <1>3, ExtendsPlaces DEF ChildrenIn
  <2> QED
    BY <2>1, <2>2, <2>3
<1>5. longer # <<>>
  BY <1>2, EmptyIsSeq
<1> QED
  BY <1>4, <1>5 DEF longer

LEMMA WrittenSoFar ==
  ASSUME NEW D, LaidOut(D), NEW C, NEW f, Callable(D, f), Written(D, C, f),
         f.child \in DOMAIN D[f.die].members, IsSeq(f.lines),
         NEW g, g.die = f.die, g.partial = f.partial, g.child = f.child + 1,
         LET m == D[f.die].members[f.child]
             wrote == \E l : l.child = f.child /\ g.lines = Append(f.lines, l)
         IN \/ wrote /\ (f.partial => DefinitionMember(D, C, m)) /\ (~f.partial => InPlaceMember(D, C, m))
            \/ g.lines = f.lines /\ f.partial /\ ~DefinitionMember(D, C, m)
  PROVE  Written(D, C, g)
<1> DEFINE members == D[f.die].members
<1>1. DOMAIN members = 1..Len(members) /\ Len(members) \in Nat /\ f.child \in 1..Len(members)
  BY DEF LaidOut, Callable
<1>2. \A k \in DOMAIN members : k < f.child + 1 <=> k < f.child \/ k = f.child
  BY <1>1
<1>3. CASE g.lines = f.lines /\ f.partial /\ ~DefinitionMember(D, C, members[f.child])
  <2>1. ChildrenIn(g.lines) = {k \in DOMAIN members : k < f.child + 1 /\ DefinitionMember(D, C, members[k])}
    BY <1>2, <1>3 DEF Written
  <2> QED
    BY <1>3, <2>1 DEF Written
<1>4. ASSUME NEW l, l.child = f.child, g.lines = Append(f.lines, l), f.partial,
             DefinitionMember(D, C, members[f.child])
      PROVE  Written(D, C, g)
  <2>1. ChildrenIn(g.lines) = ChildrenIn(f.lines) \cup {f.child}
    BY <1>4, OneMoreLine
  <2>2. ChildrenIn(f.lines) = {k \in DOMAIN members : k < f.child /\ DefinitionMember(D, C, members[k])}
    BY <1>4 DEF Written
  <2>3. ChildrenIn(g.lines) = {k \in DOMAIN members : k < f.child + 1 /\ DefinitionMember(D, C, members[k])}
    BY <1>2, <1>4, <2>1, <2>2
  <2> QED
    BY <1>4, <2>3 DEF Written
<1>5. ASSUME NEW l, g.lines = Append(f.lines, l), ~f.partial, InPlaceMember(D, C, members[f.child])
      PROVE  Written(D, C, g)
  <2>1. g.lines # <<>> /\ g.child # 1
    BY <1>1, <1>5, OneMoreLine
  <2>2. \A k \in DOMAIN members : k < f.child + 1 => InPlaceMember(D, C, members[k])
    BY <1>2, <1>5 DEF Written
  <2> QED
    BY <1>5, <2>1, <2>2 DEF Written
<1> QED
  BY <1>3, <1>4, <1>5

(* What is decided of a member is what can be written of it.                 *)
LEMMA Decided ==
  ASSUME AbiInv, ApiInv, TellInv, Api!AtChild, ~Api!Pending
  PROVE  LET m == Dies[Api!Top.die].members[Api!Top.child]
         IN /\ Api!Top.partial =>
                 (DefinitionMember(Dies, Complete(Dies), m)
                    <=> Api!Rendered /\ ~m.bits /\ (m.name # NoName \/ Api!InPlace))
            /\ ~Api!Top.partial =>
                 (InPlaceMember(Dies, Complete(Dies), m)
                    <=> /\ Api!Rendered
                        /\ m.bits => m.name # NoName /\ ~IsArray(Dies, m.type)
                        /\ m.name = NoName => Api!InPlace)
<1> DEFINE t == Api!Type
           C == Complete(Dies)
           m == Dies[Api!Top.die].members[Api!Top.child]
<1>1. /\ apiStack # <<>> /\ Api!Child = m /\ t = Leaf(Dies, m.type)
      /\ Compound(Dies, t) => t \in DOMAIN Dies
  BY ApiChild
<1>2. Api!Top = apiStack[Len(apiStack)]
  BY <1>1, ApiTop
<1>3. /\ answer.form \in {"none", "failed", "body"} /\ (answer.form = "none" => answer = [form |-> "none"])
      /\ answer.form # "none" => Answers(Dies, C, Api!Top, answer)
      /\ \A u \in DOMAIN dieRefs : ~Dies[u].decl
  BY <1>2 DEF TellInv, Told
<1>4. \A d \in DOMAIN Dies : C[d] = InPlaceType(Dies, C, d)
  BY Completed, GraphsAssumption DEF AbiInv, Shape, Dies
<1> HIDE DEF C, t, m
<1>5. Compound(Dies, t) /\ Dies[t].decl => ~C[t]
  BY <1>1, <1>4 DEF InPlaceType
<1>6. /\ Api!ByName <=> Compound(Dies, t) /\ Dies[t].name # NoName /\ Api!Top.partial
      /\ Api!InPlace <=> Compound(Dies, t) /\ ~(Dies[t].name # NoName /\ Api!Top.partial)
  BY ApiHelpers DEF Api!ByName, Api!InPlace, t
<1>7. Compound(Dies, t) => ~Scalar(Dies, t)
  BY DEF Compound, Scalar
<1>8. Api!InPlace => (answer.form = "body" <=> C[t])
  <2>1. CASE answer.form = "none"
    BY <1>3, <1>5, <1>6, <2>1, ApiHelpers DEF Api!Pending, Api!Unanswered, t
  <2>2. CASE answer.form # "none"
    <3>1. Leaf(Dies, Dies[Api!Top.die].members[Api!Top.child].type) = t
      BY <1>1 DEF m
    <3> QED
      BY <1>3, <2>2, <3>1 DEF Answers
  <2> QED
    BY <2>1, <2>2
<1>9. Api!ByName => (t \in DOMAIN dieRefs <=> ~Dies[t].decl)
  BY <1>3, <1>6, ApiHelpers DEF Api!Pending, t
<1>10. Api!Rendered <=>
         /\ ~Unsized(Dies, m.type)
         /\ \/ Scalar(Dies, t)
            \/ Api!ByName /\ t \in DOMAIN dieRefs
            \/ Api!InPlace /\ answer.form = "body"
  BY <1>1, ApiHelpers DEF Api!Rendered, t
<1>11. Api!Top.partial =>
         (DefinitionMember(Dies, C, m) <=> Api!Rendered /\ ~m.bits /\ (m.name # NoName \/ Api!InPlace))
  <2>1. DefinitionMember(Dies, C, m) <=>
          /\ ~m.bits /\ ~Unsized(Dies, m.type)
          /\ \/ Scalar(Dies, t) /\ m.name # NoName
             \/ /\ Compound(Dies, t)
                /\ Dies[t].name = NoName => C[t]
                /\ Dies[t].name # NoName => ~Dies[t].decl /\ m.name # NoName
    BY <1>1, Zenon DEF DefinitionMember
  <2> QED
    BY <1>6, <1>7, <1>8, <1>9, <1>10, <2>1
<1>12. ~Api!Top.partial =>
         (InPlaceMember(Dies, C, m)
            <=> /\ Api!Rendered
                /\ m.bits => m.name # NoName /\ ~IsArray(Dies, m.type)
                /\ m.name = NoName => Api!InPlace)
  <2>1. InPlaceMember(Dies, C, m) <=>
          /\ ~Unsized(Dies, m.type)
          /\ Scalar(Dies, t) \/ (Compound(Dies, t) /\ C[t])
          /\ m.bits => m.name # NoName /\ ~IsArray(Dies, m.type)
          /\ m.name = NoName => Compound(Dies, t)
    BY <1>1, Zenon DEF InPlaceMember
  <2> QED
    BY <1>6, <1>7, <1>8, <1>10, <2>1
<1> QED
  BY <1>11, <1>12 DEF C, m

LEMMA NewFrameTold ==
  ASSUME AbiInv, NEW d \in DOMAIN Dies, NEW partial \in BOOLEAN
  PROVE  Written(Dies, Complete(Dies), Api!Frame(d, partial)) /\ Api!Frame(d, partial).partial = partial
<1> DEFINE f == Api!Frame(d, partial)
<1>1. f.die = d /\ f.partial = partial /\ f.child = 1 /\ f.lines = <<>>
  BY DEF Api!Frame
<1>2. DOMAIN Dies[d].members = 1..Len(Dies[d].members)
  BY LibraryFacts DEF LaidOut
<1>3. \A k \in DOMAIN Dies[d].members : ~(k < 1)
  BY <1>2
<1>4. ChildrenIn(<<>>) = {}
  BY EmptySeq DEF ChildrenIn
<1> HIDE DEF f
<1> QED
  BY <1>1, <1>3, <1>4 DEF Written, f

LEMMA RenderTells ==
  ASSUME AbiInv, ApiInv, TellInv, NEW root, root = EnvDie(dwarf), root # NoDie, Api!Render(root)
  PROVE  TellInv'
<1> DEFINE f == Api!Frame(root, TRUE)
<1>1. ~Dies[root].decl /\ apiStack = <<>> /\ apiStatus = "idle"
  BY ApiHelpers DEF Api!Render, ApiInv
<1>2. /\ dieRefs' = Put(dieRefs, root, Referred(Dies, root)) /\ apiStack' = Append(apiStack, f)
      /\ UNCHANGED <<dwarf, answer, apiDefs>>
  BY <1>1, ApiHelpers DEF Api!Render, Api!Define
<1>3. root \in DOMAIN Dies
  BY GraphsAssumption DEF AbiInv, Shape, Dies
<1>4. Written(Dies, Complete(Dies), f) /\ f.partial = TRUE
  BY <1>3, NewFrameTold
<1>5. Extends(apiStack', apiStack, f) /\ IsSeq(apiStack)
  BY <1>2, AppendExtends DEF ApiInv, Writing, Nested
<1> HIDE DEF f
<1>6. Told(Dies, Complete(Dies), apiStack, apiDefs, answer, dieRefs) /\ Dies' = Dies
  BY <1>2 DEF TellInv, Dies
<1>7. answer.form = "none" /\ \A t \in DOMAIN dieRefs' : ~Dies[t].decl
  BY <1>1, <1>2, <1>6 DEF Told, Put
<1>8. Told(Dies, Complete(Dies), apiStack', apiDefs, answer, dieRefs')
  BY <1>4, <1>5, <1>6, <1>7, ToldOfACall
<1> QED
  BY <1>2, <1>6, <1>8 DEF TellInv

(* While the calls wait for a type, there is no answer.                      *)
LEMMA NoAnswerYet ==
  ASSUME AbiInv, ApiInv, TellInv, Api!AtChild, Api!ByName \/ answer = Api!Unanswered
  PROVE  answer.form = "none"
<1>1. CASE answer = Api!Unanswered
  BY <1>1 DEF Api!Unanswered
<1>2. CASE Api!ByName
  <2>1. /\ apiStack # <<>> /\ Api!Type = Leaf(Dies, Dies[Api!Top.die].members[Api!Top.child].type)
        /\ Api!Top = apiStack[Len(apiStack)]
    BY ApiChild, ApiTop
  <2>2. Dies[Api!Type].name # NoName /\ Api!Top.partial
    BY <1>2, ApiHelpers DEF Api!ByName
  <2> QED
    BY <2>1, <2>2 DEF TellInv, Told, Answers
<1> QED
  BY <1>1, <1>2

LEMMA CallTells ==
  ASSUME AbiInv, ApiInv, TellInv, Api!AtChild, Api!EmitMemberType \/ Api!WriteInPlace
  PROVE  TellInv'
<1> DEFINE t == Api!Type
<1>1. apiStack # <<>> /\ (Compound(Dies, t) => t \in DOMAIN Dies)
  BY ApiChild
<1>2. /\ Compound(Dies, t) /\ ~Dies[t].decl
      /\ Api!ByName \/ answer = Api!Unanswered
  BY ApiHelpers DEF Api!EmitMemberType, Api!WriteInPlace, Api!ByName, Api!Pending, Api!InPlace
<1>3. PICK partial \in BOOLEAN : apiStack' = Append(apiStack, Api!Frame(t, partial))
  BY DEF Api!EmitMemberType, Api!WriteInPlace, Api!Define
<1>4. /\ UNCHANGED <<dwarf, answer, apiDefs>>
      /\ dieRefs' = dieRefs \/ dieRefs' = Put(dieRefs, t, Referred(Dies, t))
  BY ApiHelpers DEF Api!EmitMemberType, Api!WriteInPlace, Api!Define
<1> DEFINE f == Api!Frame(t, partial)
<1>5. Written(Dies, Complete(Dies), f)
  BY <1>1, <1>2, NewFrameTold
<1>6. Extends(apiStack', apiStack, f) /\ IsSeq(apiStack)
  BY <1>3, AppendExtends DEF ApiInv, Writing, Nested
<1>7. Told(Dies, Complete(Dies), apiStack, apiDefs, answer, dieRefs) /\ Dies' = Dies
  BY <1>4 DEF TellInv, Dies
<1>8. \A u \in DOMAIN dieRefs' : ~Dies[u].decl
  BY <1>2, <1>4, <1>7 DEF Told, Put
<1>9. answer.form = "none"
  BY <1>2, NoAnswerYet
<1> HIDE DEF f, t
<1>10. Told(Dies, Complete(Dies), apiStack', apiDefs, answer, dieRefs')
  BY <1>1, <1>5, <1>6, <1>7, <1>8, <1>9, ToldOfACall
<1> QED
  BY <1>4, <1>7, <1>10 DEF TellInv

LEMMA ReuseNameTells == ASSUME AbiInv, ApiInv, TellInv, Api!ReuseName PROVE TellInv'
<1>1. /\ ~Dies[Api!Type].decl /\ dieRefs' = Put(dieRefs, Api!Type, Referred(Dies, Api!Type))
      /\ UNCHANGED <<dwarf, apiStack, answer, apiDefs>>
  BY ApiHelpers DEF Api!ReuseName, Api!Pending, Api!ByName, Api!InPlace
<1>2. Told(Dies, Complete(Dies), apiStack, apiDefs, answer, dieRefs) /\ Dies' = Dies
  BY <1>1 DEF TellInv, Dies
<1>3. \A u \in DOMAIN dieRefs' : ~Dies[u].decl
  BY <1>1, <1>2 DEF Told, Put
<1>4. Told(Dies, Complete(Dies), apiStack, apiDefs, answer, dieRefs')
  BY <1>2, <1>3 DEF Told
<1> QED
  BY <1>1, <1>2, <1>4 DEF TellInv

LEMMA NextChildTells ==
  ASSUME AbiInv, ApiInv, TellInv, Api!AtChild, NEW lines, Api!NextChild(lines),
         LET m == Dies[Api!Top.die].members[Api!Top.child]
             wrote == \E l : l.child = Api!Top.child /\ lines = Append(Api!Top.lines, l)
             C == Complete(Dies)
         IN \/ /\ wrote /\ (Api!Top.partial => DefinitionMember(Dies, C, m))
               /\ ~Api!Top.partial => InPlaceMember(Dies, C, m)
            \/ lines = Api!Top.lines /\ Api!Top.partial /\ ~DefinitionMember(Dies, C, m)
  PROVE  TellInv'
<1> DEFINE g == [Api!Top EXCEPT !.child = @ + 1, !.lines = lines]
<1>1. apiStack # <<>> /\ Api!Top.child \in DOMAIN Dies[Api!Top.die].members
  BY ApiChild
<1>2. /\ Extends(apiStack, Api!Callers, Api!Top) /\ IsSeq(Api!Callers) /\ Callable(Dies, Api!Top)
      /\ Api!Top = apiStack[Len(apiStack)] /\ IsSeq(Api!Top.lines)
  BY <1>1, ApiTop DEF Open, Plain, IsSeq
<1>3. /\ apiStack' = Append(Api!Callers, g) /\ answer' = [form |-> "none"]
      /\ UNCHANGED <<dwarf, apiDefs, dieRefs>>
  BY DEF Api!NextChild, Api!Unanswered
<1>4. g.die = Api!Top.die /\ g.partial = Api!Top.partial /\ g.child = Api!Top.child + 1 /\ g.lines = lines
  <2>1. Api!Top = Call(Api!Top)
    BY <1>2 DEF Callable
  <2>2. g = [die |-> Api!Top.die, partial |-> Api!Top.partial, child |-> Api!Top.child + 1, lines |-> lines]
    BY <2>1, MovedOn
  <2> HIDE DEF g
  <2> QED
    BY <2>2
<1> HIDE DEF g
<1>5. Extends(apiStack', Api!Callers, g)
  BY <1>2, <1>3, AppendExtends
<1>6. Told(Dies, Complete(Dies), apiStack, apiDefs, answer, dieRefs) /\ Dies' = Dies /\ LaidOut(Dies)
  BY <1>3, LibraryFacts DEF TellInv, Dies
<1>7. Written(Dies, Complete(Dies), Api!Top)
  BY <1>2, <1>6, ExtendsPlaces DEF Told
<1>8. Written(Dies, Complete(Dies), g)
  BY <1>1, <1>2, <1>4, <1>6, <1>7, WrittenSoFar
<1>9. Told(Dies, Complete(Dies), apiStack', apiDefs, [form |-> "none"], dieRefs)
  BY <1>2, <1>4, <1>5, <1>6, <1>8, ToldOfTheNext
<1> QED
  BY <1>3, <1>6, <1>9 DEF TellInv

LEMMA RenderedIsSettled == Api!Rendered => ~Api!Pending
<1> SUFFICES ASSUME Api!Rendered PROVE ~Api!Pending
  OBVIOUS
<1>1. Compound(Dies, Api!Type) => ~Scalar(Dies, Api!Type)
  BY DEF Compound, Scalar
<1>2. /\ Api!ByName \/ Api!InPlace => Compound(Dies, Api!Type)
      /\ ~(Api!ByName /\ Api!InPlace)
  BY ApiHelpers DEF Api!ByName, Api!InPlace
<1>3. /\ Api!ByName => Api!Type \in DOMAIN dieRefs
      /\ Api!InPlace => answer.form = "body"
  BY <1>1, <1>2, ApiHelpers DEF Api!Rendered
<1>4. answer.form = "body" => answer # Api!Unanswered
  BY DEF Api!Unanswered
<1> QED
  BY <1>3, <1>4 DEF Api!Pending

LEMMA OmitMemberTells == ASSUME AbiInv, ApiInv, TellInv, Api!OmitMember PROVE TellInv'
<1>1. /\ Api!AtChild /\ Api!Top.partial /\ Api!NextChild(Api!Top.lines) /\ ~Api!Pending
      /\ \/ ~Api!Rendered
         \/ Api!Child.bits
         \/ Api!Child.name = NoName /\ ~Api!InPlace
  BY RenderedIsSettled, ApiHelpers DEF Api!OmitMember, Api!Unrendered
<1>2. Api!Child = Dies[Api!Top.die].members[Api!Top.child]
  BY <1>1, ApiChild
<1>3. ~DefinitionMember(Dies, Complete(Dies), Dies[Api!Top.die].members[Api!Top.child])
  BY <1>1, <1>2, Decided
<1> QED
  BY <1>1, <1>3, NextChildTells

LEMMA WriteMemberTells == ASSUME AbiInv, ApiInv, TellInv, Api!WriteMember PROVE TellInv'
<1> DEFINE l == Api!Line
<1>1. /\ Api!AtChild /\ Api!Rendered
      /\ Api!Child.bits => ~Api!Top.partial /\ ~IsArray(Dies, Api!Child.type)
      /\ Api!Child.name # NoName \/ (Api!InPlace /\ ~Api!Child.bits)
      /\ Api!NextChild(Append(Api!Top.lines, l))
  BY ApiHelpers DEF Api!WriteMember
<1>2. l.child = Api!Top.child
  BY DEF Api!Line
<1> HIDE DEF l
<1>3. ~Api!Pending
  BY <1>1, RenderedIsSettled
<1>4. Api!Child = Dies[Api!Top.die].members[Api!Top.child]
  BY <1>1, ApiChild
<1>5. LET m == Dies[Api!Top.die].members[Api!Top.child]
          C == Complete(Dies)
      IN /\ Api!Top.partial => DefinitionMember(Dies, C, m)
         /\ ~Api!Top.partial => InPlaceMember(Dies, C, m)
  BY <1>1, <1>3, <1>4, Decided
<1> QED
  BY <1>1, <1>2, <1>5, NextChildTells

LEMMA GiveTells ==
  ASSUME AbiInv, ApiInv, TellInv, apiStack # <<>>, ~Api!Top.partial, NEW a, Api!Give(a),
         a.form \in {"failed", "body"}, a.form = "body" <=> Complete(Dies)[Api!Top.die]
  PROVE  TellInv'
<1>1. apiStack' = Api!Callers /\ answer' = a /\ UNCHANGED <<dwarf, apiDefs, dieRefs>>
  BY DEF Api!Give
<1>2. Extends(apiStack, Api!Callers, Api!Top) /\ IsSeq(Api!Callers)
  BY ApiTop
<1>3. Told(Dies, Complete(Dies), apiStack, apiDefs, answer, dieRefs) /\ Dies' = Dies /\ Nested(Dies, apiStack)
  BY <1>1 DEF TellInv, Dies, ApiInv, Writing
<1>4. Told(Dies, Complete(Dies), Api!Callers, apiDefs, a, dieRefs)
  BY <1>2, <1>3, ToldOfAnAnswer
<1> QED
  BY <1>1, <1>3, <1>4 DEF TellInv

LEMMA GiveUpInPlaceTells == ASSUME AbiInv, ApiInv, TellInv, Api!GiveUpInPlace PROVE TellInv'
<1>0. Api!Failed.form = "failed"
  BY DEF Api!Failed
<1>1. /\ Api!AtChild /\ ~Api!Top.partial /\ Api!Give(Api!Failed) /\ ~Api!Pending
      /\ \/ ~Api!Rendered
         \/ Api!Child.bits /\ (Api!Child.name = NoName \/ IsArray(Dies, Api!Child.type))
         \/ Api!Child.name = NoName /\ ~Api!InPlace
  BY RenderedIsSettled, ApiHelpers DEF Api!GiveUpInPlace, Api!Unrendered
<1>2. /\ apiStack # <<>> /\ Api!Top.die \in DOMAIN Dies /\ Api!Top.child \in DOMAIN Dies[Api!Top.die].members
      /\ Api!Child = Dies[Api!Top.die].members[Api!Top.child]
  BY <1>1, ApiChild
<1>3. ~InPlaceMember(Dies, Complete(Dies), Dies[Api!Top.die].members[Api!Top.child])
  BY <1>1, <1>2, Decided
<1>4. Complete(Dies)[Api!Top.die] = InPlaceType(Dies, Complete(Dies), Api!Top.die)
  BY <1>2, Completed, GraphsAssumption DEF AbiInv, Shape, Dies
<1>5. ~Complete(Dies)[Api!Top.die]
  BY <1>2, <1>3, <1>4 DEF InPlaceType
<1> QED
  BY <1>0, <1>1, <1>2, <1>5, GiveTells

LEMMA ApiEnd ==
  ASSUME AbiInv, ApiInv, Api!AtEnd
  PROVE  /\ apiStack # <<>> /\ Api!Top.die \in DOMAIN Dies
         /\ \A k \in DOMAIN Dies[Api!Top.die].members : k < Api!Top.child
         /\ Api!Top.child \notin DOMAIN Dies[Api!Top.die].members
         /\ Api!Top.child = 1 <=> ~(Len(Dies[Api!Top.die].members) > 0)
<1>1. apiStack # <<>> /\ Api!Top.child \notin DOMAIN Dies[Api!Top.die].members
  BY ApiHelpers DEF Api!AtEnd, Api!Rendering
<1>2. /\ Api!Top.die \in DOMAIN Dies
      /\ Api!Top.child \in 1..(Len(Dies[Api!Top.die].members) + 1)
  BY <1>1, ApiTop DEF Callable
<1>3. /\ Len(Dies[Api!Top.die].members) \in Nat
      /\ DOMAIN Dies[Api!Top.die].members = 1..Len(Dies[Api!Top.die].members)
  BY <1>2, LibraryFacts DEF LaidOut
<1> QED
  BY <1>1, <1>2, <1>3

LEMMA LeaveInPlaceTells == ASSUME AbiInv, ApiInv, TellInv, Api!LeaveInPlace PROVE TellInv'
<1> DEFINE a == IF Api!Top.lines = <<>> THEN Api!Failed ELSE Api!Body(Api!Top.lines)
           C == Complete(Dies)
           d == Api!Top.die
<1>1. Api!AtEnd /\ ~Api!Top.partial /\ Api!Give(a)
  BY DEF Api!LeaveInPlace
<1>2. /\ apiStack # <<>> /\ d \in DOMAIN Dies /\ \A k \in DOMAIN Dies[d].members : k < Api!Top.child
      /\ Api!Top.child = 1 <=> ~(Len(Dies[d].members) > 0)
  BY <1>1, ApiEnd
<1>3. a.form \in {"failed", "body"} /\ (a.form = "body" <=> Api!Top.lines # <<>>)
  BY DEF Api!Failed, Api!Body
<1>4. Written(Dies, C, Api!Top) /\ ~Dies[d].decl
  BY <1>2, ApiTop, ExtendsPlaces DEF TellInv, Told, Callable
<1>5. C[d] = InPlaceType(Dies, C, d)
  BY <1>2, Completed, GraphsAssumption DEF AbiInv, Shape, Dies
<1> HIDE DEF a, C
<1>6. Api!Top.lines = <<>> <=> Api!Top.child = 1
  BY <1>1, <1>4 DEF Written
<1>7. \A k \in DOMAIN Dies[d].members : InPlaceMember(Dies, C, Dies[d].members[k])
  BY <1>1, <1>2, <1>4 DEF Written
<1>8. C[d] <=> Api!Top.lines # <<>>
  BY <1>2, <1>4, <1>5, <1>6, <1>7 DEF InPlaceType
<1> QED
  BY <1>1, <1>2, <1>3, <1>8, GiveTells DEF C

LEMMA LeaveDefinitionTells == ASSUME AbiInv, ApiInv, TellInv, Api!LeaveDefinition PROVE TellInv'
<1> DEFINE def == [die |-> Api!Top.die, lines |-> Api!Top.lines]
           C == Complete(Dies)
<1>1. /\ Api!AtEnd /\ Api!Top.partial /\ apiDefs' = Append(apiDefs, def) /\ apiStack' = Api!Callers
      /\ UNCHANGED <<dwarf, answer, dieRefs>>
  BY DEF Api!LeaveDefinition
<1>2. /\ apiStack # <<>> /\ Api!Top.die \in DOMAIN Dies
      /\ \A k \in DOMAIN Dies[Api!Top.die].members : k < Api!Top.child
      /\ Api!Top.child \notin DOMAIN Dies[Api!Top.die].members
  BY <1>1, ApiEnd
<1>3. Extends(apiStack, Api!Callers, Api!Top) /\ Api!Top = apiStack[Len(apiStack)]
  BY <1>2, ApiTop
<1>4. def.die = Api!Top.die /\ def.lines = Api!Top.lines
  OBVIOUS
<1> HIDE DEF def, C
<1>5. Extends(apiDefs', apiDefs, def)
  BY <1>1, AppendExtends DEF ApiInv, Writing
<1>6. Told(Dies, C, apiStack, apiDefs, answer, dieRefs) /\ Dies' = Dies
  BY <1>1 DEF TellInv, Dies, C
<1>7. answer.form = "none"
  BY <1>2, <1>3, <1>6 DEF Told, Answers
<1>8. Written(Dies, C, Api!Top)
  BY <1>3, <1>6, ExtendsPlaces DEF Told
<1>9. HasWhatItCan(Dies, C, def)
  BY <1>1, <1>2, <1>4, <1>8 DEF HasWhatItCan, Written
<1>10. Told(Dies, C, Api!Callers, apiDefs', answer, dieRefs)
  BY <1>3, <1>5, <1>6, <1>7, <1>9, ToldOfADefinition
<1> QED
  BY <1>1, <1>6, <1>10 DEF TellInv, C

LEMMA TellWaits ==
  ASSUME TellInv, dwarf' = dwarf, UNCHANGED apiVars \/ \E root : Api!RootUnnamed(root)
  PROVE  TellInv'
<1>1. UNCHANGED <<apiStack, answer, apiDefs, dieRefs>> /\ Dies' = Dies
  BY DEF apiVars, Api!RootUnnamed, Dies
<1> QED
  BY <1>1 DEF TellInv

(* For every library, the cdef has the members that C and cffi let it have:  *)
(* what cannot be written is left out, and nothing else is.                  *)
THEOREM WritesMembers == Spec => []WritesWhatItCan
<1>1. Init => TellInv
  <2>1. ASSUME Init
        PROVE  apiStack = <<>> /\ apiDefs = <<>> /\ DOMAIN dieRefs = {} /\ answer = [form |-> "none"]
    BY <2>1 DEF Init, Api!Fresh, Api!Unanswered
  <2>2. ASSUME Init PROVE Told(Dies, Complete(Dies), apiStack, apiDefs, answer, dieRefs)
    BY <2>1, <2>2, EmptyIsSeq DEF Told
  <2> QED
    BY <2>2 DEF TellInv
<1>2. ASSUME AbiInv, ApiInv, RootInv, TellInv, status = "exact", Api!Next(EnvDie(dwarf)) PROVE TellInv'
  <2>1. EnvDie(dwarf) # NoDie
    BY <1>2 DEF RootInv
  <2>2. CASE Api!RootUnnamed(EnvDie(dwarf))
    BY <1>2, <2>2, ApiReads, TellWaits
  <2>3. CASE Api!EmitMemberType \/ Api!WriteInPlace
    <3>1. Api!AtChild
      BY <2>3 DEF Api!EmitMemberType, Api!WriteInPlace
    <3> QED
      BY <1>2, <2>3, <3>1, CallTells
  <2> QED
    BY <1>2, <2>1, <2>2, <2>3, RenderTells, ReuseNameTells, OmitMemberTells, GiveUpInPlaceTells,
       WriteMemberTells, LeaveDefinitionTells, LeaveInPlaceTells DEF Api!Next
<1>3. ASSUME [Next]_vars, ~(status = "exact" /\ Api!Next(EnvDie(dwarf)))
      PROVE  UNCHANGED apiVars /\ dwarf' = dwarf
  BY <1>3, ExtractReads DEF Next, VerifyAndRepair, Finished, vars
<1>4. AbiInv /\ ApiInv /\ RootInv /\ TellInv /\ [Next]_vars => TellInv'
  BY <1>2, <1>3, TellWaits
<1>5. ASSUME AbiInv, ApiInv, TellInv PROVE WritesWhatItCan
  <2>1. DOMAIN apiDefs = 1..Len(apiDefs)
    BY <1>5, IsSeqFacts DEF ApiInv, Writing
  <2>2. Complete(Dies) = Api!CompleteInPlace
    BY CompleteForApi
  <2>3. \A m : Api!Writable(m) <=> DefinitionMember(Dies, Complete(Dies), m)
    BY <2>2, ApiHelpers DEF Api!Writable, DefinitionMember
  <2>4. ASSUME NEW i \in DOMAIN apiDefs
        PROVE  {apiDefs[i].lines[k].child : k \in DOMAIN apiDefs[i].lines}
                 = {k \in DOMAIN Dies[apiDefs[i].die].members : Api!Writable(Dies[apiDefs[i].die].members[k])}
    <3>1. HasWhatItCan(Dies, Complete(Dies), apiDefs[i])
      BY <1>5, <2>1 DEF TellInv, Told
    <3>2. {k \in DOMAIN Dies[apiDefs[i].die].members : Api!Writable(Dies[apiDefs[i].die].members[k])}
            = {k \in DOMAIN Dies[apiDefs[i].die].members :
                 DefinitionMember(Dies, Complete(Dies), Dies[apiDefs[i].die].members[k])}
      BY <2>3
    <3> QED
      BY <3>1, <3>2, Zenon DEF HasWhatItCan, ChildrenIn
  <2> QED
    BY <2>4, ApiHelpers DEF WritesWhatItCan, Api!WritesWhatItCan
<1> QED
  BY <1>1, <1>4, <1>5, Invariance, ApiInvariance, PTL DEF Spec

-----------------------------------------------------------------------------
(* The arrays on the way to a member's leaf.                                 *)
Suffix(D, dims, u) ==
  IF IsArray(D, u)
  THEN LET a == D[ResolveTypedefs(D, u)] IN ArrayDims(a) \o dims[a.of]
  ELSE <<>>

(* They end, so a member has finitely many dimensions.                       *)
LEMMA DimsAreNumbers ==
  ASSUME NEW D, DOMAIN D \subseteq Nat, IsFiniteSet(DOMAIN D), Typed(D)
  PROVE  \A t \in DOMAIN D \cup {NoDie} : Dims(D, t) \in Seq(Int)
<1> DEFINE U == DOMAIN D \cup {NoDie}
           Is(f, N) == f = [u \in U |-> IF u < N THEN Suffix(D, f, u) ELSE <<>>]
           T == {N \in Nat : \E f : Is(f, N)}
<1>1. U \subseteq Nat
  BY DEF NoDie
<1>2. ASSUME NEW f, NEW g, NEW u \in U, \A v \in U : v < u => f[v] = g[v]
      PROVE  Suffix(D, f, u) = Suffix(D, g, u)
  BY <1>2 DEF Suffix, Typed
<1>3. ASSUME NEW f, NEW u \in U, \A v \in U : v < u => f[v] \in Seq(Int)
      PROVE  Suffix(D, f, u) \in Seq(Int)
  <2>1. CASE IsArray(D, u)
    <3> DEFINE a == D[ResolveTypedefs(D, u)]
    <3>1. ArrayDims(a) \in Seq(Int) /\ f[a.of] \in Seq(Int)
      BY <1>3, <2>1 DEF Typed
    <3>2. Suffix(D, f, u) = ArrayDims(a) \o f[a.of]
      BY <2>1 DEF Suffix
    <3> HIDE DEF a
    <3> QED
      BY <3>1, <3>2
  <2> QED
    BY <2>1 DEF Suffix
<1> HIDE DEF U
<1>4. 0 \in T
  <2> DEFINE f == [u \in U |-> <<>>]
  <2>1. f = [u \in U |-> IF u < 0 THEN Suffix(D, f, u) ELSE <<>>]
    <3>1. \A u \in U : ~(u < 0)
      BY <1>1
    <3> HIDE DEF f
    <3> QED
      BY <3>1, Zenon DEF f
  <2> HIDE DEF f
  <2> QED
    BY <2>1
<1>5. ASSUME NEW N \in Nat, N \in T PROVE N + 1 \in T
  <2>1. PICK f : Is(f, N)
    BY <1>5
  <2> DEFINE g == [u \in U |-> IF u < N + 1 THEN Suffix(D, f, u) ELSE <<>>]
  <2>2. \A u \in U : u < N => f[u] = g[u]
    <3>1. \A u \in U : u < N => f[u] = Suffix(D, f, u)
      BY <2>1
    <3>2. \A u \in U : u < N => u < N + 1
      BY <1>1
    <3> HIDE DEF Is
    <3> QED
      BY <3>1, <3>2, Zenon
  <2> HIDE DEF g, Is
  <2>3. ASSUME NEW u \in U, u < N + 1 PROVE Suffix(D, f, u) = Suffix(D, g, u)
    <3>1. \A v \in U : v < u => v < N
      BY <1>1, <2>3
    <3>2. \A v \in U : v < u => f[v] = g[v]
      BY <2>2, <3>1
    <3> QED
      BY <1>2, <3>2
  <2>4. g = [u \in U |-> IF u < N + 1 THEN Suffix(D, g, u) ELSE <<>>]
    BY <2>3, Zenon DEF g
  <2>5. Is(g, N + 1)
    BY <2>4 DEF Is
  <2> QED
    BY <2>5
<1>6. PICK N \in Nat : \A u \in U : u < N
  <2>1. PICK M \in Nat : \A u \in DOMAIN D : u < M
    BY FiniteBound
  <2>2. \A u \in U : u < M + 1
    BY <1>1, <2>1 DEF U, NoDie
  <2> QED
    BY <2>2
<1>7. N \in T
  <2> HIDE DEF T
  <2> QED
    BY <1>4, <1>5, NatSetInduction
<1>8. \E f : f = [u \in U |-> Suffix(D, f, u)]
  <2>1. PICK f : Is(f, N)
    BY <1>7
  <2>2. f = [u \in U |-> Suffix(D, f, u)]
    BY <1>6, <2>1, Zenon
  <2> QED
    BY <2>2
<1> DEFINE dims == CHOOSE f : f = [u \in U |-> Suffix(D, f, u)]
<1>9. dims = [u \in U |-> Suffix(D, dims, u)]
  BY <1>8, Zenon
<1>10. \A t : Dims(D, t) = dims[t]
  BY Zenon DEF Dims, Suffix, U
<1> HIDE DEF dims
<1>11. \A u \in U : dims[u] = Suffix(D, dims, u)
  BY <1>9, Zenon
<1> DEFINE V == {n \in Nat : \A u \in U : u < n => dims[u] \in Seq(Int)}
<1>12. 0 \in V
  BY <1>1
<1>13. ASSUME NEW n \in Nat, n \in V PROVE n + 1 \in V
  <2> SUFFICES ASSUME NEW u \in U, u < n + 1 PROVE dims[u] \in Seq(Int)
    OBVIOUS
  <2>1. \A v \in U : v < u => dims[v] \in Seq(Int)
    BY <1>1, <1>13
  <2> QED
    BY <1>3, <1>11, <2>1
<1>14. N \in V
  <2> HIDE DEF V
  <2> QED
    BY <1>12, <1>13, NatSetInduction
<1>15. \A u \in U : dims[u] \in Seq(Int)
  BY <1>6, <1>14
<1> QED
  BY <1>10, <1>15 DEF U

(* Sizes multiply to a size.                                                 *)
LEMMA ProductIsPositive ==
  ASSUME NEW dims \in Seq(Int), \A i \in 1..Len(dims) : dims[i] > 0
  PROVE  LET product[i \in 0..Len(dims)] == IF i = 0 THEN 1 ELSE dims[i] * product[i - 1]
         IN product[Len(dims)] \in Nat \ {0}
<1> DEFINE n == Len(dims)
           Step(f, i) == IF i = 0 THEN 1 ELSE dims[i] * f[i - 1]
           Is(f, N) == f = [i \in 0..n |-> IF i <= N THEN Step(f, i) ELSE 1]
           S == {N \in Nat : \E f : Is(f, N)}
<1>1. n \in Nat
  OBVIOUS
<1> HIDE DEF n
<1>2. 0 \in S
  <2> DEFINE f == [i \in 0..n |-> 1]
  <2>1. \A i \in 0..n : (IF i <= 0 THEN Step(f, i) ELSE 1) = 1
    BY <1>1
  <2>2. f = [i \in 0..n |-> IF i <= 0 THEN Step(f, i) ELSE 1]
    <3> HIDE DEF f, Step
    <3> QED
      BY <2>1, Zenon DEF f
  <2> HIDE DEF f
  <2> QED
    BY <2>2
<1>3. ASSUME NEW N \in Nat, N \in S PROVE N + 1 \in S
  <2>1. PICK f : Is(f, N)
    BY <1>3
  <2> DEFINE g == [i \in 0..n |-> IF i <= N + 1 THEN Step(f, i) ELSE 1]
  <2>2. ASSUME NEW i \in 0..n, i <= N PROVE f[i] = g[i]
    <3>1. i <= N + 1
      BY <2>2
    <3> HIDE DEF Step
    <3> QED
      BY <2>1, <2>2, <3>1
  <2>3. ASSUME NEW i \in 0..n, i <= N + 1 PROVE Step(f, i) = Step(g, i)
    <3>1. i = 0 \/ (i - 1 \in 0..n /\ i - 1 <= N)
      BY <1>1, <2>3
    <3> HIDE DEF g
    <3> QED
      BY <2>2, <3>1
  <2>4. g = [i \in 0..n |-> IF i <= N + 1 THEN Step(g, i) ELSE 1]
    <3> HIDE DEF g, Step
    <3> QED
      BY <2>3, Zenon DEF g
  <2> HIDE DEF g, Step
  <2>5. Is(g, N + 1)
    BY <2>4
  <2> HIDE DEF Is
  <2> QED
    BY <2>5
<1>4. n \in S
  <2> HIDE DEF S
  <2> QED
    BY <1>1, <1>2, <1>3, NatSetInduction
<1>5. \E f : f = [i \in 0..n |-> Step(f, i)]
  <2>1. PICK f : Is(f, n)
    BY <1>4
  <2>2. \A i \in 0..n : i <= n
    BY <1>1
  <2>3. f = [i \in 0..n |-> Step(f, i)]
    <3> HIDE DEF Step
    <3> QED
      BY <2>1, <2>2, Zenon
  <2> QED
    BY <2>3
<1> DEFINE product == CHOOSE f : f = [i \in 0..n |-> Step(f, i)]
<1>6. product = [i \in 0..n |-> Step(product, i)]
  <2> HIDE DEF Step
  <2> QED
    BY <1>5, Zenon
<1>7. \A i \in 0..n : product[i] = Step(product, i)
  <2> HIDE DEF Step, product
  <2> QED
    BY <1>6, Zenon
<1> DEFINE P == {i \in Nat : i <= n => product[i] \in Nat \ {0}}
<1>8. 0 \in P
  <2> HIDE DEF product
  <2> QED
    BY <1>1, <1>7
<1>9. ASSUME NEW i \in Nat, i \in P PROVE i + 1 \in P
  <2> SUFFICES ASSUME i + 1 <= n PROVE product[i + 1] \in Nat \ {0}
    OBVIOUS
  <2> HIDE DEF product
  <2>1. i + 1 \in 0..n /\ i + 1 \in 1..Len(dims) /\ (i + 1) - 1 = i /\ i + 1 # 0
    BY <1>1 DEF n
  <2>2. product[i + 1] = dims[i + 1] * product[i]
    BY <1>7, <2>1
  <2>3. product[i] \in Nat \ {0} /\ dims[i + 1] \in Nat \ {0}
    BY <1>1, <1>9, <2>1
  <2>4. \A x, y \in Nat \ {0} : x * y \in Nat \ {0}
    OBVIOUS
  <2> QED
    BY <2>2, <2>3, <2>4
<1>10. product[n] \in Nat \ {0}
  <2> HIDE DEF P, product
  <2>1. n \in P
    BY <1>1, <1>8, <1>9, NatSetInduction
  <2> QED
    BY <1>1, <2>1 DEF P
<1> QED
  BY <1>10, Zenon DEF n

LEMMA CountIsPositive ==
  ASSUME NEW D, DOMAIN D \subseteq Nat, IsFiniteSet(DOMAIN D), Typed(D),
         NEW t \in DOMAIN D \cup {NoDie}, ~Unsized(D, t)
  PROVE  Count(D, t) \in Nat \ {0}
<1> DEFINE dims == Dims(D, t)
<1>1. dims \in Seq(Int) /\ \A i \in 1..Len(dims) : dims[i] > 0
  <2>1. dims \in Seq(Int)
    BY DimsAreNumbers
  <2>2. DOMAIN dims = 1..Len(dims) /\ \A i \in 1..Len(dims) : dims[i] \in Int
    <3> HIDE DEF dims
    <3> QED
      BY <2>1
  <2>3. \A i \in DOMAIN dims : ~(dims[i] <= 0)
    BY DEF Unsized
  <2> HIDE DEF dims
  <2> QED
    BY <2>1, <2>2, <2>3
<1>2. Count(D, t) = LET product[i \in 0..Len(dims)] == IF i = 0 THEN 1 ELSE dims[i] * product[i - 1]
                    IN product[Len(dims)]
  BY Zenon DEF Count
<1> HIDE DEF dims
<1> QED
  BY <1>1, <1>2, ProductIsPositive, Zenon

(* A set of positions can be listed in order.                                *)
LEMMA ListedInOrder ==
  ASSUME NEW N \in Nat, NEW places, places \subseteq 1..N
  PROVE  InSourceOrder(places) \in Seq(places)
<1> DEFINE Lists(S, p) == /\ p \in [1..Cardinality(S) -> S]
                          /\ \A i, j \in DOMAIN p : i < j => p[i] < p[j]
           T == {n \in Nat : \A S \in SUBSET (1..n) :
                   IsFiniteSet(S) /\ Cardinality(S) \in Nat /\ \E p : Lists(S, p)}
<1>1. 0 \in T
  <2>1. \A S \in SUBSET (1..0) : S = {}
    OBVIOUS
  <2>2. IsFiniteSet({}) /\ Cardinality({}) = 0
    BY FS_EmptySet
  <2>3. Lists({}, <<>>)
    BY <2>2
  <2> HIDE DEF Lists
  <2>4. \A S \in SUBSET (1..0) : IsFiniteSet(S) /\ Cardinality(S) \in Nat /\ \E p : Lists(S, p)
    <3>1. IsFiniteSet({}) /\ Cardinality({}) \in Nat /\ \E p : Lists({}, p)
      BY <2>2, <2>3
    <3> QED
      BY <2>1, <3>1, Zenon
  <2> QED
    BY <2>4
<1>2. ASSUME NEW n \in Nat, n \in T PROVE n + 1 \in T
  <2> SUFFICES ASSUME NEW S \in SUBSET (1..(n + 1))
               PROVE  IsFiniteSet(S) /\ Cardinality(S) \in Nat /\ \E p : Lists(S, p)
    OBVIOUS
  <2> DEFINE R == S \ {n + 1}
  <2>1. R \in SUBSET (1..n)
    OBVIOUS
  <2>2. IsFiniteSet(R) /\ Cardinality(R) \in Nat /\ \E p : Lists(R, p)
    <3> HIDE DEF R, Lists
    <3> QED
      BY <1>2, <2>1
  <2>3. CASE n + 1 \notin S
    <3>1. S = R
      BY <2>3
    <3> HIDE DEF R, Lists
    <3> QED
      BY <2>2, <3>1
  <2>4. CASE n + 1 \in S
    <3>1. S = R \cup {n + 1} /\ n + 1 \notin R
      BY <2>4
    <3>2. IsFiniteSet(S) /\ Cardinality(S) = Cardinality(R) + 1
      <4> HIDE DEF R
      <4> QED
        BY <2>2, <3>1, FS_AddElement
    <3>3. PICK p : Lists(R, p)
      BY <2>2
    <3> DEFINE c == Cardinality(R)
               q == [i \in 1..(c + 1) |-> IF i = c + 1 THEN n + 1 ELSE p[i]]
    <3>4. q \in [1..Cardinality(S) -> S]
      <4>1. \A i \in 1..(c + 1) : i # c + 1 => i \in 1..c
        BY <2>2
      <4>2. \A i \in 1..(c + 1) : (IF i = c + 1 THEN n + 1 ELSE p[i]) \in S
        BY <3>1, <3>3, <4>1
      <4> QED
        BY <3>2, <4>2
    <3>5. ASSUME NEW i \in 1..(c + 1), NEW j \in 1..(c + 1), i < j PROVE q[i] < q[j]
      <4>1. i \in 1..c /\ p[i] \in R
        <5>1. i \in 1..c
          BY <2>2, <3>5
        <5> QED
          BY <3>3, <5>1
      <4>2. q[i] = p[i]
        BY <2>2, <4>1
      <4>3. CASE j = c + 1
        <5>1. p[i] \in 1..n /\ q[j] = n + 1
          BY <2>1, <4>1, <4>3
        <5> HIDE DEF q
        <5> QED
          BY <4>2, <5>1
      <4>4. CASE j # c + 1
        <5>1. j \in 1..c /\ q[j] = p[j]
          BY <2>2, <4>4
        <5>2. DOMAIN p = 1..c
          BY <3>3
        <5> HIDE DEF q, c
        <5> QED
          BY <3>3, <3>5, <4>1, <4>2, <5>1, <5>2
      <4> QED
        BY <4>3, <4>4
    <3>6. Lists(S, q)
      <4>1. DOMAIN q = 1..(c + 1)
        OBVIOUS
      <4> HIDE DEF q, c, R
      <4> QED
        BY <3>4, <3>5, <4>1
    <3> HIDE DEF Lists, q, c, R
    <3> QED
      BY <2>2, <3>2, <3>6
  <2> QED
    BY <2>3, <2>4
<1>3. N \in T
  <2> HIDE DEF T
  <2> QED
    BY <1>1, <1>2, NatSetInduction
<1>4. Cardinality(places) \in Nat /\ \E p : Lists(places, p)
  <2> HIDE DEF Lists
  <2> QED
    BY <1>3
<1>5. InSourceOrder(places) \in [1..Cardinality(places) -> places]
  BY <1>4, Zenon DEF InSourceOrder
<1> QED
  BY <1>4, <1>5

-----------------------------------------------------------------------------
(* What the extractor hands over to the repair.  A member that is printed    *)
(* has a positive size: its arrays do, and it is a scalar or a definition.   *)
Printable(D, m) ==
  /\ m.type \in DOMAIN D \cup {NoDie} /\ ~Unsized(D, m.type)
  /\ m.tag = NoName => Scalar(D, Leaf(D, m.type))
PrintInv ==
  /\ NoName \notin Tags
  /\ \A t \in Tags : \A k \in DOMAIN structs[t].members : Printable(Dies, structs[t].members[k])
  /\ abiStatus = "emitted" => order # <<>>

LEMMA NumberedIsNamed ==
  ASSUME NEW name, Len(name) \in Nat, name = [i \in 1..Len(name) |-> name[i]], name # NoName, NEW n
  PROVE  Numbered(name, n) # NoName
<1> DEFINE S == {name[i] : i \in 1..Len(name)} \cup {n}
<1>1. name \in Seq(S)
  BY SeqDef
<1> HIDE DEF S
<1>2. n \in S
  BY DEF S
<1> QED
  BY <1>1, <1>2, AppendProperties DEF Numbered, NoName

LEMMA TypesOfTheLibrary ==
  ASSUME AbiInv
  PROVE  DOMAIN Dies \subseteq Nat /\ IsFiniteSet(DOMAIN Dies) /\ LaidOut(Dies) /\ Typed(Dies)
BY GraphsAssumption DEF AbiInv, Shape, Dies

LEMMA EnterPrints ==
  ASSUME AbiInv, PrintInv, NEW d \in DOMAIN Dies, NEW rest, Enter(d, rest), abiStatus' = "emitting"
  PROVE  PrintInv'
<1> DEFINE base == IF Dies[d].name = NoName THEN <<"anon", anonCount'>> ELSE Dies[d].name
           def == [kind |-> Dies[d].tag, size |-> Dies[d].size, members |-> [k \in {} |-> NoDie]]
<1>1. \E n \in 1..(Len(order) + Len(stack) + 1) : structs' = Put(structs, Numbered(base, n), def)
  BY DEF Enter
<1>2. ASSUME NEW n PROVE Numbered(base, n) # NoName
  <2>1. CASE Dies[d].name = NoName
    <3> DEFINE anon == <<"anon", anonCount'>>
    <3>1. Len(anon) \in Nat /\ anon = [i \in 1..Len(anon) |-> anon[i]] /\ anon # NoName
      BY DEF NoName
    <3>2. base = anon
      BY <2>1
    <3> HIDE DEF anon, base
    <3> QED
      BY <3>1, <3>2, NumberedIsNamed
  <2>2. CASE Dies[d].name # NoName
    <3>1. base = Dies[d].name
      BY <2>2
    <3>2. Len(Dies[d].name) \in Nat /\ Dies[d].name = [i \in 1..Len(Dies[d].name) |-> Dies[d].name[i]]
      BY TypesOfTheLibrary DEF Typed
    <3> HIDE DEF base
    <3> QED
      BY <2>2, <3>1, <3>2, NumberedIsNamed
  <2> QED
    BY <2>1, <2>2
<1>3. DOMAIN def.members = {}
  OBVIOUS
<1> HIDE DEF base, def
<1>4. PICK tag : structs' = Put(structs, tag, def) /\ tag # NoName
  BY <1>1, <1>2
<1>5. /\ Tags' = Tags \cup {tag} /\ structs'[tag] = def
      /\ \A t \in Tags : t # tag => structs'[t] = structs[t]
  BY <1>4 DEF Put, Tags
<1>6. Dies' = Dies
  BY DEF Enter, Dies
<1> QED
  BY <1>3, <1>4, <1>5, <1>6 DEF PrintInv

LEMMA KeepMemberPrints == ASSUME AbiInv, PrintInv, KeepMember PROVE PrintInv'
<1> DEFINE member == [type |-> Child.type, offset |-> MemberOffset(Child.loc),
                      tag |-> IF Compound(Dies, Type) THEN dieTags[Type] ELSE NoName]
           after == Put(structs[TopTag].members, Top.child, member)
<1>1. AtChild /\ Kept /\ UNCHANGED <<dwarf, order, abiStatus>> /\ stack # <<>>
  BY DEF KeepMember, AtChild
<1>2. Top.die \in DOMAIN Dies /\ TopTag \in Tags
  BY <1>1, TopFacts
<1>3. Child = Dies[Top.die].members[Top.child] /\ Top.child \in DOMAIN Dies[Top.die].members
  BY <1>1 DEF AtChild, Child, Children
<1>4. Printable(Dies, member)
  <2>1. Child.type \in DOMAIN Dies \cup {NoDie}
    BY <1>2, <1>3, TypesOfTheLibrary DEF Typed
  <2>2. ASSUME member.tag = NoName PROVE Scalar(Dies, Type)
    <3>1. ASSUME Emitted(Type) PROVE FALSE
      <4>1. Compound(Dies, Type) /\ dieTags[Type] \in Tags
        BY <3>1 DEF Emitted, AbiInv, Shape
      <4> QED
        BY <2>2, <4>1 DEF PrintInv
    <3> QED
      BY <1>1, <3>1 DEF Kept
  <2>3. member.type = Child.type
    OBVIOUS
  <2> HIDE DEF member
  <2> QED
    BY <1>1, <2>1, <2>2, <2>3 DEF Printable, Kept, Type
<1> HIDE DEF member
<1>5. structs' = [structs EXCEPT ![TopTag].members = after]
  BY DEF KeepMember, member
<1>6. \A k \in DOMAIN after : Printable(Dies, after[k])
  BY <1>2, <1>4 DEF Put, PrintInv
<1> HIDE DEF after
<1>7. /\ Tags' = Tags /\ \A t \in Tags \ {TopTag} : structs'[t] = structs[t]
      /\ structs'[TopTag].members = after
  BY <1>2, <1>5, NewMembers
<1>8. Dies' = Dies
  BY <1>1 DEF Dies
<1> QED
  BY <1>1, <1>6, <1>7, <1>8 DEF PrintInv

LEMMA LeaveStructPrints == ASSUME AbiInv, PrintInv, LeaveStruct PROVE PrintInv'
<1> DEFINE after == AtZero(structs[TopTag].members)
<1>1. stack # <<>> /\ dwarf' = dwarf /\ order' = Append(order, TopTag)
  BY DEF LeaveStruct, AtEnd
<1>2. TopTag \in Tags
  BY <1>1, TopFacts
<1>3. order' # <<>>
  BY <1>1, <1>2, AppendProperties DEF AbiInv, Shape
<1>4. \A k \in DOMAIN after : Printable(Dies, after[k])
  BY <1>2 DEF AtZero, PrintInv
<1> HIDE DEF after
<1>5. Tags' = Tags /\ \A t \in Tags : \A k \in DOMAIN structs'[t].members : Printable(Dies, structs'[t].members[k])
  <2>1. CASE structs' = structs
    BY <2>1 DEF PrintInv, Tags
  <2>2. CASE structs' = [structs EXCEPT ![TopTag].members = after]
    <3>1. /\ Tags' = Tags /\ \A t \in Tags \ {TopTag} : structs'[t] = structs[t]
          /\ structs'[TopTag].members = after
      BY <1>2, <2>2, NewMembers
    <3> QED
      BY <1>4, <3>1 DEF PrintInv
  <2> QED
    BY <2>1, <2>2 DEF LeaveStruct, after
<1>6. Dies' = Dies
  BY <1>1 DEF Dies
<1> QED
  BY <1>3, <1>5, <1>6 DEF PrintInv

(* At any moment, what emit_struct has collected can be printed.             *)
LEMMA Printing == Spec => []PrintInv
<1>1. Init => PrintInv
  BY DEF Init, Fresh, PrintInv, Tags
<1>2. ASSUME AbiInv, PrintInv, EmitRoot \/ EmitMemberType PROVE PrintInv'
  <2>1. CASE EmitRoot
    <3>1. EnvDie(dwarf) \in DOMAIN Dies
      BY <1>2, <2>1, GraphsAssumption DEF EmitRoot, RootFound, AbiInv, Shape, Dies
    <3> QED
      BY <1>2, <2>1, <3>1, EnterPrints DEF EmitRoot
  <2>2. CASE EmitMemberType
    <3>1. Type \in DOMAIN Dies
      BY <1>2, <2>2, TypeIsBelow DEF EmitMemberType, Pending
    <3> QED
      BY <1>2, <2>2, <3>1, EnterPrints DEF EmitMemberType, AtChild
  <2> QED
    BY <1>2, <2>1, <2>2
<1>3. ASSUME PrintInv, UNCHANGED <<dwarf, structs, order>>, abiStatus' = abiStatus \/ abiStatus' # "emitted"
      PROVE  PrintInv'
  BY <1>3 DEF PrintInv, Tags, Dies
<1>4. ASSUME AbiInv, PrintInv, Extract PROVE PrintInv'
  <2>1. CASE NoRoot \/ DropMember \/ UnknownLocation
    <3>1. UNCHANGED <<dwarf, structs, order>> /\ (abiStatus' = abiStatus \/ abiStatus' # "emitted")
      BY <2>1 DEF NoRoot, DropMember, UnknownLocation
    <3> QED
      BY <1>3, <1>4, <3>1
  <2> QED
    BY <1>2, <1>4, <2>1, KeepMemberPrints, LeaveStructPrints DEF Extract
<1>5. ASSUME [Next]_vars, ~Extract PROVE UNCHANGED <<dwarf, abiVars>>
  BY <1>5, ApiReads DEF Next, VerifyAndRepair, Finished, vars
<1>6. AbiInv /\ PrintInv /\ [Next]_vars => PrintInv'
  BY <1>3, <1>4, <1>5 DEF abiVars
<1> QED
  BY <1>1, <1>6, Invariance, PTL DEF Spec

(* What is proved of the repair, of this module's variables.                 *)
RP == INSTANCE LayoutRepairProofs WITH Inputs <- {}

(* Sizes of the scalars are powers of two that a type of C aligns to.        *)
LEMMA ScalarsAreAligned ==
  ASSUME NEW t, Scalar(Dies, t)
  PROVE  ScalarSize(t) \in {1, 2, 4, 8}
<1>1. CASE Dies[t].tag = "pointer"
  BY <1>1 DEF ScalarSize
<1>2. CASE Dies[t].tag = "base" /\ <<Dies[t].enc, Dies[t].size>> \in BaseTypes
  BY <1>2 DEF ScalarSize, BaseTypes
<1>3. CASE Dies[t].tag = "enum"
  <2> DEFINE size == IF Dies[t].size \in {NoSize, 0} THEN 4 ELSE Dies[t].size
  <2>1. <<"unsigned", size>> \in BaseTypes
    BY <1>3 DEF Scalar
  <2>2. ScalarSize(t) = size
    BY <1>3 DEF ScalarSize
  <2> HIDE DEF size
  <2>3. size \in {1, 2, 4, 8}
    BY <2>1 DEF BaseTypes
  <2> QED
    BY <2>2, <2>3
<1> QED
  BY <1>1, <1>2, <1>3 DEF Scalar

(* A member as it is printed, and a definition.                              *)
Place(tag) == CHOOSE i \in DOMAIN order : order[i] = tag
PrintedMember(m) ==
  LET leaf == Leaf(Dies, m.type)
      scalar == IF m.tag = NoName THEN ScalarSize(leaf) ELSE 1
  IN [size |-> scalar, align |-> scalar,
      struct |-> IF m.tag = NoName THEN 0 ELSE Place(m.tag),
      count |-> Count(Dies, m.type), offset |-> m.offset]
PrintedMembers(def) ==
  LET places == InSourceOrder(DOMAIN def.members)
  IN [k \in DOMAIN places |-> PrintedMember(def.members[places[k]])]
PrintedDefinition(tag) ==
  [kind |-> structs[tag].kind, size |-> structs[tag].size, members |-> PrintedMembers(structs[tag])]

LEMMA ExtractedIsPrinted == Extracted = [i \in DOMAIN order |-> PrintedDefinition(order[i])]
BY Zenon DEF Extracted, PrintedDefinition, PrintedMembers, PrintedMember, Place

LEMMA PrintedMemberFits ==
  ASSUME AbiInv, PrintInv, NEW i \in DOMAIN order, NEW k \in DOMAIN structs[order[i]].members,
         structs[order[i]].members[k].offset \in Nat
  PROVE  /\ PrintedMember(structs[order[i]].members[k]) \in RP!Member
         /\ PrintedMember(structs[order[i]].members[k]).struct < i
<1> DEFINE m == structs[order[i]].members[k]
           scalar == IF m.tag = NoName THEN ScalarSize(Leaf(Dies, m.type)) ELSE 1
           struct == IF m.tag = NoName THEN 0 ELSE Place(m.tag)
<1>1. order \in Seq(Tags) /\ order[i] \in Tags /\ DOMAIN order = 1..Len(order) /\ Len(order) \in Nat
  BY DEF AbiInv, Shape
<1>2. Printable(Dies, m)
  BY <1>1 DEF PrintInv
<1>3. scalar \in {1, 2, 4, 8}
  BY <1>2, ScalarsAreAligned DEF Printable
<1>4. Count(Dies, m.type) \in Nat \ {0}
  BY <1>2, TypesOfTheLibrary, CountIsPositive DEF Printable
<1>5. struct \in Nat /\ struct < i
  <2>1. CASE m.tag = NoName
    BY <1>1, <2>1
  <2>2. CASE m.tag # NoName
    <3>1. PICK j \in 1..(i - 1) : order[j] = m.tag
      BY <2>2 DEF AbiInv, DefinedBeforeUse
    <3>2. j \in DOMAIN order
      BY <1>1, <3>1
    <3>3. Place(m.tag) = j
      <4> HIDE DEF m
      <4>1. \A h \in DOMAIN order : order[h] = m.tag => h = j
        BY <3>1, <3>2 DEF AbiInv, OneTagPerType
      <4> QED
        BY <3>1, <3>2, <4>1 DEF Place
    <3> QED
      BY <1>1, <2>2, <3>1, <3>3
  <2> QED
    BY <2>1, <2>2
<1>6. PrintedMember(m) = [size |-> scalar, align |-> scalar, struct |-> struct,
                          count |-> Count(Dies, m.type), offset |-> m.offset]
  BY Zenon DEF PrintedMember
<1> HIDE DEF m, scalar, struct
<1> QED
  BY <1>3, <1>4, <1>5, <1>6 DEF RP!Member, RP!Alignments, m

LEMMA ExtractedIsAcceptable ==
  ASSUME AbiInv, KeepInv, PrintInv, abiStatus = "emitted"
  PROVE  RP!Acceptable(Extracted)
<1>1. order \in Seq(Tags) /\ order # <<>> /\ Len(order) \in Nat /\ DOMAIN order = 1..Len(order)
      /\ \A i \in DOMAIN order : order[i] \in Tags
  BY DEF AbiInv, Shape, PrintInv
<1>2. ASSUME NEW t \in Tags
      PROVE  /\ structs[t].kind \in {"struct", "union"} /\ structs[t].size \in Nat \ {0}
             /\ InSourceOrder(DOMAIN structs[t].members) \in Seq(DOMAIN structs[t].members)
             /\ \A k \in DOMAIN structs[t].members :
                  /\ structs[t].members[k].offset \in Nat
                  /\ structs[t].kind = "union" => structs[t].members[k].offset = 0
  <2>1. PICK d \in DOMAIN dieTags : dieTags[d] = t
    BY DEF KeepInv
  <2>2. Described(d) /\ DOMAIN structs[t].members = KeptAtLast(d)
    BY <2>1 DEF KeepInv
  <2>3. /\ d \in DOMAIN Dies /\ structs[t].kind = Dies[d].tag /\ structs[t].size = Dies[d].size
        /\ \A k \in DOMAIN structs[t].members : structs[t].members[k].offset = Dies[d].members[k].place
        /\ Compound(Dies, d) /\ Resolvable(d)
    BY <2>1, <2>2 DEF Described
  <2>4. /\ Dies[d].size \in Nat \cup {NoSize}
        /\ Len(Dies[d].members) \in Nat /\ DOMAIN Dies[d].members = 1..Len(Dies[d].members)
        /\ \A k \in DOMAIN Dies[d].members : Dies[d].members[k].place \in Nat
    BY <2>3, TypesOfTheLibrary DEF LaidOut
  <2>5. DOMAIN structs[t].members \subseteq 1..Len(Dies[d].members)
    BY <2>2, <2>4 DEF KeptAtLast
  <2>6. InSourceOrder(DOMAIN structs[t].members) \in Seq(DOMAIN structs[t].members)
    BY <2>4, <2>5, ListedInOrder
  <2>7. Dies[d].tag \in {"struct", "union"} /\ Dies[d].size \in Nat \ {0}
    BY <2>3, <2>4 DEF Compound, Resolvable
  <2>8. \A k \in DOMAIN structs[t].members : Dies[d].tag = "union" => Dies[d].members[k].place = 0
    BY <2>2 DEF KeptAtLast
  <2> QED
    BY <2>3, <2>4, <2>5, <2>6, <2>7, <2>8
<1>3. ASSUME NEW i \in DOMAIN order
      PROVE  /\ PrintedDefinition(order[i]) \in RP!Definition
             /\ \A k \in DOMAIN PrintedDefinition(order[i]).members :
                  /\ PrintedDefinition(order[i]).members[k].struct < i
                  /\ PrintedDefinition(order[i]).kind = "union"
                       => PrintedDefinition(order[i]).members[k].offset = 0
  <2> DEFINE def == structs[order[i]]
             places == InSourceOrder(DOMAIN def.members)
  <2>1. places \in Seq(DOMAIN def.members) /\ def.kind \in {"struct", "union"} /\ def.size \in Nat \ {0}
        /\ \A k \in DOMAIN def.members :
             def.members[k].offset \in Nat /\ (def.kind = "union" => def.members[k].offset = 0)
    BY <1>1, <1>2
  <2>2. PrintedMembers(def) = [k \in DOMAIN places |-> PrintedMember(def.members[places[k]])]
    BY Zenon DEF PrintedMembers
  <2>3. \A k \in DOMAIN def.members :
          PrintedMember(def.members[k]) \in RP!Member /\ PrintedMember(def.members[k]).struct < i
    BY <1>1, <2>1, PrintedMemberFits
  <2>7. \A m : PrintedMember(m).offset = m.offset
    BY DEF PrintedMember
  <2>4. PrintedDefinition(order[i]) = [kind |-> def.kind, size |-> def.size, members |-> PrintedMembers(def)]
    BY Zenon DEF PrintedDefinition
  <2> HIDE DEF def, places
  <2>5. DOMAIN places = 1..Len(places) /\ Len(places) \in Nat
        /\ \A k \in 1..Len(places) : places[k] \in DOMAIN def.members
    BY <2>1
  <2>6. PrintedMembers(def) \in Seq(RP!Member) /\ DOMAIN PrintedMembers(def) = 1..Len(places)
        /\ \A k \in 1..Len(places) :
             /\ PrintedMembers(def)[k].struct < i
             /\ def.kind = "union" => PrintedMembers(def)[k].offset = 0
    <3>1. PrintedMembers(def) \in [1..Len(places) -> RP!Member]
      BY <2>2, <2>3, <2>5
    <3>2. \A k \in 1..Len(places) : def.kind = "union" => PrintedMembers(def)[k].offset = 0
      BY <2>1, <2>2, <2>5, <2>7
    <3> QED
      BY <2>2, <2>3, <2>5, <3>1, <3>2, SeqDef
  <2> QED
    BY <2>1, <2>4, <2>6 DEF RP!Definition
<1>4. Extracted = [i \in 1..Len(order) |-> PrintedDefinition(order[i])]
  BY <1>1, ExtractedIsPrinted
<1>5. Extracted \in Seq(RP!Definition) /\ Extracted # <<>> /\ DOMAIN Extracted = 1..Len(order)
  <2>1. Extracted \in [1..Len(order) -> RP!Definition]
    BY <1>1, <1>3, <1>4
  <2>2. Len(order) # 0
    BY <1>1
  <2>3. Extracted \in Seq(RP!Definition) /\ Len(Extracted) = Len(order)
    BY <1>1, <2>1, SeqDef
  <2> QED
    BY <1>1, <2>1, <2>2, <2>3
<1>6. \A i \in DOMAIN Extracted : \A k \in DOMAIN Extracted[i].members :
        /\ Extracted[i].members[k].struct < i
        /\ Extracted[i].kind = "union" => Extracted[i].members[k].offset = 0
  <2>1. \A i \in 1..Len(order) : Extracted[i] = PrintedDefinition(order[i])
    BY <1>4
  <2> QED
    BY <1>1, <1>3, <1>5, <2>1
<1> QED
  BY <1>5, <1>6 DEF RP!Acceptable

(* The repair goes on as LayoutRepairProofs has it.                          *)
RepairInv ==
  /\ limit \in Limits
  /\ status = "idle" => end = 0 /\ align = 1 /\ last = [struct |-> 0, member |-> 0]
  /\ status # "idle" => RP!Inv

LEMMA RepairSteps == Repair!Next => RP!Next
BY Zenon DEF Repair!Next, RP!Next, Repair!MemberExact, RP!MemberExact, Repair!PadMember, RP!PadMember,
   Repair!MemberTooFar, RP!MemberTooFar, Repair!UnionMember, RP!UnionMember, Repair!SizeExact, RP!SizeExact,
   Repair!PadTail, RP!PadTail, Repair!SizeTooLarge, RP!SizeTooLarge, Repair!OpaqueExact, RP!OpaqueExact,
   Repair!Done, RP!Done, Repair!AtMember, RP!AtMember, Repair!AtSize, RP!AtSize, Repair!Comparing, RP!Comparing,
   Repair!NextMember, RP!NextMember, Repair!AnotherPass, RP!AnotherPass, Repair!MakeOpaque, RP!MakeOpaque,
   Repair!Leave, RP!Leave, Repair!Offset, RP!Offset, Repair!Size, RP!Size, Repair!RoundUp, RP!RoundUp,
   Repair!Larger, RP!Larger, Repair!Structs, RP!Structs, Repair!Members, RP!Members, Repair!Width, RP!Width,
   Repair!AlignOf, RP!AlignOf, Repair!repairs, RP!repairs, Repair!vars, RP!vars

LEMMA RepairPromises ==
  /\ Repair!Acceptable(defs) <=> RP!Acceptable(defs)
  /\ Repair!HeaderIsExact <=> RP!HeaderIsExact
<1>1. Repair!Acceptable(defs) <=> RP!Acceptable(defs)
  BY Zenon DEF Repair!Acceptable, RP!Acceptable, Repair!Definition, RP!Definition, Repair!Member, RP!Member,
     Repair!Alignments, RP!Alignments
<1>2. Repair!HeaderIsExact <=> RP!HeaderIsExact
  BY Zenon DEF Repair!HeaderIsExact, RP!HeaderIsExact, Repair!CLayout, RP!CLayout,
     Repair!StructLayout, RP!StructLayout, Repair!LaidOffsets, RP!LaidOffsets,
     Repair!LaidWidth, RP!LaidWidth, Repair!LaidAlign, RP!LaidAlign, Repair!Structs, RP!Structs,
     Repair!Members, RP!Members, Repair!RoundUp, RP!RoundUp, Repair!Alignments, RP!Alignments
<1> QED
  BY <1>1, <1>2

LEMMA RepairBegins ==
  ASSUME AbiInv, KeepInv, PrintInv, RepairInv, VerifyAndRepair
  PROVE  RepairInv'
<1>1. RP!Acceptable(Extracted) /\ status = "idle"
  BY ExtractedIsAcceptable DEF VerifyAndRepair
<1> DEFINE new == Extracted
<1>2. /\ defs' = new /\ limit' = limit /\ end' = 0 /\ align' = 1 /\ last' = [struct |-> 0, member |-> 0]
      /\ pads' = [i \in DOMAIN new |-> [k \in DOMAIN new[i].members |-> 0]]
      /\ tail' = [i \in DOMAIN new |-> 0] /\ opaque' = [i \in DOMAIN new |-> FALSE]
      /\ aligns' = [i \in DOMAIN new |-> 1]
      /\ passes' = 1 /\ at' = 1 /\ next' = 1 /\ status' = "verifying"
  BY <1>1 DEF VerifyAndRepair, RepairInv
<1>3. RP!Acceptable(new)
  BY <1>1
<1> HIDE DEF new
<1>4. DOMAIN new = 1..Len(new)
  BY <1>3 DEF RP!Acceptable
<1>5. RP!Acceptable(defs)' /\ RP!Fresh'
  BY <1>2, <1>3, <1>4 DEF RepairInv, RP!Fresh, RP!Structs, RP!Members, RP!Acceptable
<1>6. RP!Inv'
  BY <1>5, LimitsAssumption, RP!StartEstablishesInv
<1> QED
  BY <1>2, <1>6 DEF RepairInv

LEMMA RepairGoesOn ==
  ASSUME RepairInv, status = "verifying", Repair!Next
  PROVE  RepairInv'
<1>1. RP!Inv /\ RP!Next
  BY RepairSteps DEF RepairInv
<1>2. RP!Inv'
  BY <1>1, LimitsAssumption, RP!NextKeepsInv
<1>3. limit' \in Limits /\ status' # "idle"
  BY <1>2 DEF RP!Inv, RP!TypeOK
<1> QED
  BY <1>2, <1>3 DEF RepairInv

LEMMA RepairWaits == ASSUME RepairInv, UNCHANGED repairVars PROVE RepairInv'
<1>1. CASE status = "idle"
  BY <1>1 DEF RepairInv, repairVars
<1>2. CASE status # "idle"
  <2>1. [RP!Next]_RP!vars
    BY DEF repairVars, RP!vars
  <2>2. RP!Inv'
    BY <1>2, <2>1, LimitsAssumption, RP!NextKeepsInv DEF RepairInv
  <2> QED
    BY <1>2, <2>2 DEF RepairInv, repairVars
<1> QED
  BY <1>1, <1>2

(* For every library: the repair is given definitions it is proved for, and  *)
(* in the header it returns, every struct has its real size and every member *)
(* it declares its real place.                                               *)
THEOREM HeaderExact == Spec => []HeaderIsExact
<1>1. Init => RepairInv
  BY DEF Init, RepairInv
<1>2. ASSUME AbiInv, KeepInv, PrintInv, RepairInv, [Next]_vars PROVE RepairInv'
  <2>1. CASE VerifyAndRepair
    BY <1>2, <2>1, RepairBegins
  <2>2. CASE status = "verifying" /\ Repair!Next
    BY <1>2, <2>2, RepairGoesOn
  <2>3. CASE ~VerifyAndRepair /\ ~(status = "verifying" /\ Repair!Next)
    <3>1. UNCHANGED repairVars
      BY <1>2, <2>3 DEF Next, Finished, vars
    <3> QED
      BY <1>2, <3>1, RepairWaits
  <2> QED
    BY <2>1, <2>2, <2>3
<1>3. AbiInv /\ KeepInv /\ PrintInv /\ RepairInv /\ [Next]_vars => RepairInv'
  BY <1>2
<1>4. ASSUME RepairInv PROVE HeaderIsExact
  <2>1. CASE status = "idle"
    BY <2>1, RepairPromises DEF HeaderIsExact, RP!HeaderIsExact
  <2>2. CASE status # "idle"
    <3>1. RP!Inv
      BY <1>4, <2>2 DEF RepairInv
    <3>2. RP!HeaderIsExact
      BY <3>1, LimitsAssumption, RP!ExactAsLaidOut
    <3>3. RP!Acceptable(defs)
      BY <3>1 DEF RP!Inv
    <3> QED
      BY <3>2, <3>3, RepairPromises DEF HeaderIsExact
  <2> QED
    BY <2>1, <2>2
<1> QED
  BY <1>1, <1>3, <1>4, Keeping, Printing, PTL DEF Spec
=============================================================================
