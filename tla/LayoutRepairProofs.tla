------------------------- MODULE LayoutRepairProofs -------------------------
(* For every list of definitions and every limit: a repair is never undone,  *)
(* and what verify_and_repair returns is exact.                              *)
EXTENDS LayoutRepair, TLAPS, WellFoundedInduction

(* What the comparison of the current pass has established.                  *)
Compared ==
  /\ opaque[at] => next = 1
  /\ defs[at].kind = "struct" =>
       (\A k \in 1..(next - 1) : Placed(at, k)) /\ end = EndBefore(at, next)
  /\ defs[at].kind = "union" =>
       /\ \A k \in 1..(next - 1) : Width(Members(at)[k]) <= end
       /\ end = 0 \/ \E k \in 1..(next - 1) : end = Width(Members(at)[k])
  /\ \A k \in 1..(next - 1) : AlignOf(Members(at)[k]) <= align
  /\ align = 1 \/ \E k \in 1..(next - 1) : align = AlignOf(Members(at)[k])

(* What passes before it have settled: every pass compares that again, and   *)
(* nothing before the last repair is found different.                        *)
Settled ==
  /\ last.struct <= Len(defs)
  /\ \A i \in Structs : (i < at \/ i < last.struct) => Exact(i)
  /\ last.struct # 0 /\ ~opaque[last.struct] =>
       /\ defs[last.struct].kind = "struct"
       /\ last.member \in 1..(Len(Members(last.struct)) + 1)
       /\ \A k \in 1..(last.member - 1) : Placed(last.struct, k)

(* No pad reaches beyond what it is to fill.                                 *)
PadsFit ==
  \A i \in Structs :
    /\ \A k \in DOMAIN Members(i) :
         pads[i][k] > 0 => EndBefore(i, k) + pads[i][k] <= Members(i)[k].offset
    /\ tail[i] > 0 => EndBefore(i, Len(Members(i)) + 1) + tail[i] <= defs[i].size

GivenUp == \A i \in Structs : opaque[i] => i <= last.struct /\ Unrepairable(i)

(* When verify_and_repair returns, every struct solves the equations of C    *)
(* layout.                                                                   *)
RepairedIsExact == status = "exact" => \A i \in Structs : Exact(i)

Inv ==
  /\ Acceptable(defs) /\ TypeOK
  /\ Compared /\ Settled /\ PadsFit /\ GivenUp /\ RepairedIsExact
-----------------------------------------------------------------------------
(* C rounds up to the next multiple: not below, and beyond a size only if    *)
(* the size is no multiple.                                                  *)
LEMMA RoundingUp ==
  ASSUME NEW n \in Nat, NEW a \in Alignments
  PROVE  /\ RoundUp(n, a) \in Nat /\ n <= RoundUp(n, a)
         /\ n % a = 0 => RoundUp(n, a) = n
         /\ RoundUp(n, a) % a = 0
         /\ \A s \in Nat : n <= s /\ s < RoundUp(n, a) => s % a # 0
<1>1. a = 1 \/ a = 2 \/ a = 4 \/ a = 8
  BY DEF Alignments
<1>2. CASE a = 1
  BY <1>2 DEF RoundUp
<1>3. CASE a = 2
  BY <1>3 DEF RoundUp
<1>4. CASE a = 4
  BY <1>4 DEF RoundUp
<1>5. CASE a = 8
  BY <1>5 DEF RoundUp
<1> QED
  BY <1>1, <1>2, <1>3, <1>4, <1>5

(* The parts of a definition and of its repairs.                             *)
LEMMA Parts ==
  ASSUME Acceptable(defs), TypeOK
  PROVE  /\ Len(defs) \in Nat \ {0} /\ at \in Structs
         /\ \A i \in Structs :
              /\ defs[i].kind \in {"struct", "union"} /\ defs[i].size \in Nat \ {0}
              /\ Members(i) \in Seq(Member) /\ Len(Members(i)) \in Nat
              /\ pads[i] \in Seq(Nat) /\ Len(pads[i]) = Len(Members(i))
              /\ tail[i] \in Nat /\ aligns[i] \in Alignments
              /\ \A k \in DOMAIN Members(i) :
                   Members(i)[k] \in Member /\ Members(i)[k].struct < i /\ pads[i][k] \in Nat
<1>1. Acceptable(defs)
  OBVIOUS
<1>2. defs \in Seq(Definition) /\ defs # <<>>
  BY <1>1 DEF Acceptable
<1>3. \A i \in Structs : defs[i] \in Definition
  BY <1>2 DEF Structs
<1>4. \A i \in Structs : \A k \in DOMAIN Members(i) : Members(i)[k].struct < i
  BY <1>1, <1>2 DEF Acceptable, Structs, Members
<1>5. \A i \in Structs :
         /\ defs[i].kind \in {"struct", "union"} /\ defs[i].size \in Nat \ {0}
         /\ Members(i) \in Seq(Member)
  BY <1>3 DEF Definition, Members
<1>6. \A i \in Structs : \A k \in DOMAIN Members(i) : Members(i)[k] \in Member
  BY <1>5
<1>7. \A i \in Structs : pads[i] \in Seq(Nat) /\ Len(pads[i]) = Len(Members(i))
                         /\ tail[i] \in Nat /\ aligns[i] \in Alignments
  BY DEF TypeOK
<1>8. \A i \in Structs : \A k \in DOMAIN Members(i) : pads[i][k] \in Nat
  BY <1>5, <1>7
<1>9. Len(defs) \in Nat \ {0}
  BY <1>2
<1>10. at \in Structs
  BY DEF TypeOK
<1>11. \A i \in Structs : Len(Members(i)) \in Nat
  BY <1>5
<1> QED
  BY <1>4, <1>5, <1>6, <1>7, <1>8, <1>9, <1>10, <1>11

LEMMA Measures ==
  ASSUME Acceptable(defs), TypeOK, NEW i \in Structs
  PROVE  /\ \A k \in DOMAIN Members(i) :
              /\ Width(Members(i)[k]) \in Nat /\ AlignOf(Members(i)[k]) \in Alignments
              /\ Members(i)[k].offset \in Nat
         /\ \A k \in 1..(Len(Members(i)) + 1) : EndBefore(i, k) \in Nat
<1>1. ASSUME NEW k \in DOMAIN Members(i)
      PROVE  /\ Width(Members(i)[k]) \in Nat /\ AlignOf(Members(i)[k]) \in Alignments
             /\ Members(i)[k].offset \in Nat
  <2>1. Members(i)[k] \in Member /\ Members(i)[k].struct < i /\ i \in Structs
    BY Parts
  <2>2. Members(i)[k].struct # 0 => Members(i)[k].struct \in Structs
    <3>1. Members(i)[k].struct \in Nat
      BY <2>1 DEF Member
    <3>2. Len(defs) \in Nat
      BY Parts
    <3> QED
      BY <2>1, <3>1, <3>2 DEF Structs
  <2>3. AlignOf(Members(i)[k]) \in Alignments /\ Members(i)[k].offset \in Nat
    BY <2>1, <2>2, Parts DEF AlignOf, Member
  <2> DEFINE one == IF Members(i)[k].struct = 0 THEN Members(i)[k].size
                    ELSE defs[Members(i)[k].struct].size
  <2>4. one \in Nat /\ Members(i)[k].count \in Nat
    BY <2>1, <2>2, Parts DEF Member
  <2> HIDE DEF one
  <2>5. Members(i)[k].count * one \in Nat
    BY <2>4
  <2> QED
    BY <2>3, <2>5 DEF Width, one
<1>2. ASSUME NEW k \in 1..(Len(Members(i)) + 1) PROVE EndBefore(i, k) \in Nat
  <2>1. k = 1 \/ k - 1 \in DOMAIN Members(i)
    BY Parts
  <2> QED
    BY <2>1, <1>1 DEF EndBefore
<1> QED
  BY <1>1, <1>2

LEMMA LargestIsUnique ==
  ASSUME Acceptable(defs), TypeOK, NEW i \in Structs, NEW a \in Alignments, NEW b \in Alignments,
         IsAlignment(a, i), IsAlignment(b, i)
  PROVE  a = b
<1>1. a \in Nat /\ b \in Nat /\ 1 <= a /\ 1 <= b
  BY DEF Alignments
<1>2. \A k \in DOMAIN Members(i) : AlignOf(Members(i)[k]) \in Nat
  BY Measures DEF Alignments
<1>3. a <= b
  BY <1>1, <1>2 DEF IsAlignment
<1>4. b <= a
  BY <1>1, <1>2 DEF IsAlignment
<1> QED
  BY <1>1, <1>3, <1>4

(* The claims about struct i depend on its repairs and on the alignments of  *)
(* the structs before it.                                                    *)
LEMMA Locality ==
  ASSUME Inv, defs' = defs, NEW i \in Structs,
         \A j \in Structs : j < i => aligns'[j] = aligns[j]
  PROVE  /\ Structs' = Structs /\ Members(i)' = Members(i)
         /\ \A k \in DOMAIN Members(i) :
              /\ AlignOf(Members(i)[k])' = AlignOf(Members(i)[k])
              /\ Width(Members(i)[k])' = Width(Members(i)[k])
         /\ \A k \in 1..(Len(Members(i)) + 1) : EndBefore(i, k)' = EndBefore(i, k)
         /\ \A a : IsAlignment(a, i)' <=> IsAlignment(a, i)
         /\ Unrepairable(i)' <=> Unrepairable(i)
         /\ \A k \in DOMAIN Members(i) :
              pads'[i][k] = pads[i][k] => (Placed(i, k)' <=> Placed(i, k))
         /\ pads'[i] = pads[i] /\ tail'[i] = tail[i] /\ opaque'[i] = opaque[i]
            /\ aligns'[i] = aligns[i] => (Exact(i)' <=> Exact(i))
<1>1. Structs' = Structs /\ Members(i)' = Members(i)
  BY DEF Structs, Members
<1>2. ASSUME NEW k \in DOMAIN Members(i)
      PROVE  AlignOf(Members(i)[k])' = AlignOf(Members(i)[k])
  <2>1. Members(i)[k].struct = 0
        \/ (Members(i)[k].struct \in Structs /\ Members(i)[k].struct < i)
    <3>1. Members(i)[k] \in Member /\ Members(i)[k].struct < i /\ Len(defs) \in Nat
      BY Parts DEF Inv
    <3>2. Members(i)[k].struct \in Nat
      BY <3>1 DEF Member
    <3> QED
      BY <3>1, <3>2 DEF Structs
  <2> QED
    BY <2>1, <1>1 DEF AlignOf
<1>3. \A k \in DOMAIN Members(i) : Width(Members(i)[k])' = Width(Members(i)[k])
  BY <1>1 DEF Width
<1>4. ASSUME NEW k \in 1..(Len(Members(i)) + 1) PROVE EndBefore(i, k)' = EndBefore(i, k)
  BY <1>1 DEF EndBefore, Width
<1>5. \A a : IsAlignment(a, i)' <=> IsAlignment(a, i)
  BY <1>1, <1>2 DEF IsAlignment
<1>6. Len(Members(i)) \in Nat /\ DOMAIN Members(i) = 1..Len(Members(i))
  BY Parts DEF Inv
<1>7. \A k \in DOMAIN Members(i) :
        pads'[i][k] = pads[i][k] => (Placed(i, k)' <=> Placed(i, k))
  BY <1>1, <1>2, <1>4, <1>6 DEF Placed
<1>8. Unrepairable(i)' <=> Unrepairable(i)
  BY <1>1, <1>2, <1>3, <1>4, <1>5, <1>6 DEF Unrepairable
<1>9. pads'[i] = pads[i] /\ tail'[i] = tail[i] /\ opaque'[i] = opaque[i]
      /\ aligns'[i] = aligns[i] => (Exact(i)' <=> Exact(i))
  <2> SUFFICES ASSUME pads'[i] = pads[i], tail'[i] = tail[i], opaque'[i] = opaque[i],
                      aligns'[i] = aligns[i]
               PROVE  Exact(i)' <=> Exact(i)
    OBVIOUS
  <2>1. EndPlaced(i)' <=> EndPlaced(i)
    BY <1>1, <1>4, <1>6 DEF EndPlaced
  <2>2. IsAlignment(aligns[i], i)' <=> IsAlignment(aligns[i], i)
    BY <1>1, <1>2 DEF IsAlignment
  <2> QED
    BY <2>1, <2>2, <1>1, <1>3, <1>7 DEF Exact
<1> QED
  BY <1>1, <1>2, <1>3, <1>4, <1>5, <1>7, <1>8, <1>9
-----------------------------------------------------------------------------
(* Where cffi puts the member being compared, and how large it makes the     *)
(* struct, in terms of the definition.                                       *)
LEMMA CffiOffset ==
  ASSUME Inv, AtMember(at), defs[at].kind = "struct"
  PROVE  /\ next \in DOMAIN Members(at) /\ next \in Nat
         /\ EndBefore(at, next) \in Nat /\ pads[at][next] \in Nat
         /\ Members(at)[next].offset \in Nat /\ AlignOf(Members(at)[next]) \in Alignments
         /\ Width(Members(at)[next]) \in Nat
         /\ end = EndBefore(at, next)
         /\ Offset = RoundUp(EndBefore(at, next) + pads[at][next], AlignOf(Members(at)[next]))
         /\ Offset \in Nat
<1>1. at \in Structs /\ next \in 1..(Len(Members(at)) + 1) /\ next <= Len(Members(at))
  BY DEF Inv, TypeOK, AtMember
<1>2. next \in DOMAIN Members(at) /\ next \in Nat
  BY <1>1, Parts DEF Inv
<1>3. EndBefore(at, next) \in Nat /\ pads[at][next] \in Nat
      /\ Members(at)[next].offset \in Nat /\ AlignOf(Members(at)[next]) \in Alignments
      /\ Width(Members(at)[next]) \in Nat
  BY <1>1, <1>2, Parts, Measures DEF Inv
<1>4. end = EndBefore(at, next)
  BY DEF Inv, Compared
<1>5. EndBefore(at, next) + pads[at][next] \in Nat
  BY <1>3
<1> QED
  BY <1>2, <1>3, <1>4, <1>5, RoundingUp DEF Offset

LEMMA CffiSize ==
  ASSUME Inv, AtSize(at)
  PROVE  /\ IsAlignment(align, at) /\ align \in Alignments
         /\ next = Len(Members(at)) + 1 /\ Len(Members(at)) \in Nat
         /\ defs[at].kind = "struct" =>
              /\ \A k \in DOMAIN Members(at) : Placed(at, k)
              /\ end = EndBefore(at, Len(Members(at)) + 1)
         /\ defs[at].kind = "union" =>
              /\ \A k \in DOMAIN Members(at) : Width(Members(at)[k]) <= end
              /\ end = 0 \/ \E k \in DOMAIN Members(at) : end = Width(Members(at)[k])
         /\ Size \in Nat /\ end \in Nat
<1>1. at \in Structs /\ next \in 1..(Len(Members(at)) + 1) /\ next > Len(Members(at))
      /\ align \in Alignments /\ end \in Nat
  BY DEF Inv, TypeOK, AtSize
<1>2. Len(Members(at)) \in Nat /\ DOMAIN Members(at) = 1..Len(Members(at))
  BY <1>1, Parts DEF Inv
<1>3. next = Len(Members(at)) + 1 /\ 1..(next - 1) = DOMAIN Members(at)
  BY <1>1, <1>2
<1>4. IsAlignment(align, at)
  BY <1>3 DEF Inv, Compared, IsAlignment
<1>5. end + tail[at] \in Nat /\ Larger(end, defs[at].size) \in Nat /\ defs[at].size \in Nat
  BY <1>1, Parts DEF Inv, Larger
<1>6. Size \in Nat
  BY <1>1, <1>5, RoundingUp DEF Size
<1> QED
  BY <1>1, <1>2, <1>3, <1>4, <1>6 DEF Inv, Compared

(* A struct that an earlier pass found exact is found exact again.           *)
LEMMA SettledIsExact ==
  ASSUME Inv, Exact(at), ~opaque[at]
  PROVE  /\ AtMember(at) /\ defs[at].kind = "struct" => Offset = Members(at)[next].offset
         /\ AtSize(at) => Size = defs[at].size /\ align = aligns[at]
<1>1. at \in Structs
  BY Parts DEF Inv
<1>2. ASSUME AtMember(at), defs[at].kind = "struct" PROVE Offset = Members(at)[next].offset
  BY <1>2, CffiOffset DEF Exact, Placed
<1>3. ASSUME AtSize(at) PROVE Size = defs[at].size /\ align = aligns[at]
  <2>1. IsAlignment(align, at) /\ IsAlignment(aligns[at], at)
    BY <1>3, CffiSize DEF Exact
  <2>2. align = aligns[at]
    BY <2>1, <1>1, <1>3, CffiSize, Parts, LargestIsUnique DEF Inv
  <2>3. CASE defs[at].kind = "union"
    <3>1. end <= defs[at].size /\ defs[at].size % align = 0
      BY <1>1, <1>3, <2>2, <2>3, CffiSize, Parts DEF Exact, Inv
    <3>2. end \in Nat /\ defs[at].size \in Nat /\ align \in Alignments
      BY <1>1, <1>3, CffiSize, Parts DEF Inv
    <3>3. Larger(end, defs[at].size) = defs[at].size
      BY <3>1, <3>2 DEF Larger
    <3>4. RoundUp(defs[at].size, align) = defs[at].size
      BY <3>1, <3>2, RoundingUp
    <3> QED
      BY <2>2, <2>3, <3>3, <3>4 DEF Size
  <2>4. CASE defs[at].kind = "struct"
    BY <1>3, <2>2, <2>4, CffiSize DEF Exact, EndPlaced, Size
  <2> QED
    BY <1>1, <2>2, <2>3, <2>4, Parts DEF Inv
<1> QED
  BY <1>2, <1>3

(* The comparison differs at a member, or at the end of the struct.          *)
Differs ==
  \/ AtMember(at) /\ defs[at].kind = "struct" /\ Offset # Members(at)[next].offset
  \/ AtSize(at) /\ Size # defs[at].size

LEMMA RepairsGoOn ==
  ASSUME Inv, Differs
  PROVE  /\ last.struct <= at /\ (last.struct = at => last.member <= next)
         /\ at \in Structs /\ next \in Nat /\ ~opaque[at]
<1>1. at \in Structs /\ at \in Nat /\ next \in Nat /\ ~opaque[at] /\ last.struct \in Nat
      /\ last.member \in Nat
  <2>1. at \in Structs /\ next \in 1..(Len(Members(at)) + 1) /\ last \in [struct : Nat, member : Nat]
    BY DEF Inv, TypeOK
  <2>2. ~opaque[at]
    BY DEF Differs, AtMember, AtSize
  <2> QED
    BY <2>1, <2>2 DEF Structs
<1>2. ~Exact(at)
  BY <1>1, SettledIsExact DEF Differs
<1>3. last.struct <= at
  BY <1>1, <1>2 DEF Inv, Settled
<1>4. ASSUME last.struct = at PROVE last.member <= next
  <2>1. /\ defs[at].kind = "struct" /\ last.member \in 1..(Len(Members(at)) + 1)
        /\ \A k \in 1..(last.member - 1) : Placed(at, k)
    BY <1>1, <1>4 DEF Inv, Settled, Structs
  <2>2. CASE AtMember(at)
    <3>1. ~Placed(at, next) /\ next \in DOMAIN Members(at) /\ next >= 1
      BY <2>1, <2>2, CffiOffset, <1>1, Parts DEF Differs, Placed, AtMember, AtSize, Inv
    <3> QED
      BY <2>1, <3>1, <1>1
  <2>3. CASE AtSize(at)
    BY <2>1, <2>3, <1>1, CffiSize
  <2> QED
    BY <2>2, <2>3 DEF Differs
<1> QED
  BY <1>1, <1>3, <1>4
-----------------------------------------------------------------------------
(* A pass begins anew after a repair that leaves what was settled.           *)
LEMMA RepairKeepsInv ==
  ASSUME Inv, Differs, AnotherPass, TypeOK', PadsFit',
         \A i \in Structs : i # at =>
           pads'[i] = pads[i] /\ tail'[i] = tail[i] /\ opaque'[i] = opaque[i],
         \/ opaque'[at] /\ Unrepairable(at)
         \/ /\ ~opaque'[at] /\ defs[at].kind = "struct"
            /\ \A k \in 1..(next - 1) : pads'[at][k] = pads[at][k]
  PROVE  Inv'
<1>1. /\ defs' = defs /\ aligns' = aligns /\ at' = 1 /\ next' = 1 /\ end' = 0 /\ align' = 1
      /\ last' = [struct |-> at, member |-> next] /\ status' # "exact"
  BY DEF AnotherPass, Differs, AtMember, AtSize, Comparing
<1> PICK s \in Structs : s = at
  BY RepairsGoOn
<1>2. /\ next \in Nat /\ last.struct <= s /\ last.struct \in Nat
      /\ next \in 1..(Len(Members(s)) + 1) /\ Len(Members(s)) \in Nat
      /\ DOMAIN Members(s) = 1..Len(Members(s))
  <2>1. next \in 1..(Len(Members(at)) + 1) /\ last \in [struct : Nat, member : Nat]
    BY DEF Inv, TypeOK
  <2> QED
    BY <2>1, RepairsGoOn, Parts DEF Inv
<1>3. Structs' = Structs /\ Structs \subseteq Nat /\ s <= Len(defs) /\ s # 0
  BY <1>1, Parts DEF Structs, Inv
<1>4. last'.struct = s /\ last'.member = next
  BY <1>1
<1>5. Compared'
  BY <1>1 DEF Compared, EndBefore
<1>6. Settled'
  <2>1. \A i \in Structs : i < s => Exact(i)'
    <3> TAKE i \in Structs
    <3> HAVE i < s
    <3>1. Exact(i)
      BY DEF Inv, Settled
    <3>2. i # at
      BY <1>3
    <3> QED
      BY <1>1, <3>1, <3>2, Locality
  <2>2. \A i \in Structs' : (i < at' \/ i < last'.struct) => Exact(i)'
    BY <2>1, <1>1, <1>3, <1>4
  <2>3. ASSUME ~opaque'[s]
        PROVE  /\ defs'[s].kind = "struct" /\ next \in 1..(Len(Members(s)') + 1)
               /\ \A k \in 1..(next - 1) : Placed(s, k)'
    <3>1. defs[s].kind = "struct" /\ \A k \in 1..(next - 1) : pads'[s][k] = pads[s][k]
      BY <2>3
    <3>2. \A k \in 1..(next - 1) : k \in DOMAIN Members(s) /\ Placed(s, k)
      BY <1>2, <3>1 DEF Inv, Compared
    <3>3. Members(s)' = Members(s)
          /\ \A k \in DOMAIN Members(s) :
               pads'[s][k] = pads[s][k] => (Placed(s, k)' <=> Placed(s, k))
      BY <1>1, Locality
    <3> QED
      BY <1>1, <1>2, <3>1, <3>2, <3>3
  <2> QED
    BY <2>2, <2>3, <1>1, <1>3, <1>4 DEF Settled
<1>7. GivenUp'
  <2> SUFFICES ASSUME NEW i \in Structs, opaque'[i]
               PROVE  i <= s /\ Unrepairable(i)'
    BY <1>3, <1>4 DEF GivenUp
  <2>1. CASE i = s
    BY <2>1, <1>1, <1>3, Locality
  <2>2. CASE i # s
    <3>1. opaque[i] /\ i <= last.struct /\ Unrepairable(i)
      BY <2>2 DEF Inv, GivenUp
    <3>2. Unrepairable(i)'
      BY <1>1, <3>1, Locality
    <3> QED
      BY <3>1, <3>2, <1>2, <1>3
  <2> QED
    BY <2>1, <2>2
<1>8. RepairedIsExact'
  BY <1>1 DEF RepairedIsExact
<1> QED
  BY <1>1, <1>5, <1>6, <1>7, <1>8 DEF Inv

(* The comparison leaves a struct that is exact.                             *)
LEMMA LeaveKeepsInv ==
  ASSUME Inv, status = "verifying", NEW a \in Alignments, Leave(a),
         at < last.struct => a = aligns[at],
         opaque[at] => a = 1,
         ~opaque[at] =>
           /\ IsAlignment(a, at)
           /\ defs[at].kind = "union" =>
                /\ \A k \in DOMAIN Members(at) : Width(Members(at)[k]) <= defs[at].size
                /\ defs[at].size % a = 0
           /\ defs[at].kind = "struct" =>
                /\ \A k \in DOMAIN Members(at) : Placed(at, k)
                /\ \/ Members(at) = <<>> /\ tail[at] = 0
                   \/ defs[at].size = RoundUp(EndBefore(at, Len(Members(at)) + 1) + tail[at], a)
  PROVE  Inv'
<1> PICK s \in Structs : s = at
  BY Parts DEF Inv
<1>1. /\ UNCHANGED <<defs, limit, passes, last, pads, tail, opaque>>
      /\ aligns' = [aligns EXCEPT ![s] = a] /\ next' = 1 /\ end' = 0 /\ align' = 1
      /\ \/ s = Len(defs) /\ status' = "exact" /\ at' = s
         \/ s # Len(defs) /\ status' = status /\ at' = s + 1
  BY DEF Leave, repairs
<1>2. Structs \subseteq Nat /\ Len(defs) \in Nat /\ s <= Len(defs) /\ Structs' = Structs
      /\ last \in [struct : Nat, member : Nat] /\ last.struct \in Nat
      /\ last.struct <= Len(defs)
  BY <1>1, Parts DEF Inv, TypeOK, Structs, Settled
<1>3. aligns \in [Structs -> Alignments]
  BY DEF Inv, TypeOK
<1>4. aligns'[s] = a /\ \A j \in Structs : j # s => aligns'[j] = aligns[j]
  BY <1>1, <1>3
<1>5. ASSUME NEW i \in Structs, i <= s \/ i <= last.struct
      PROVE  \A j \in Structs : j < i => aligns'[j] = aligns[j]
  <2>1. CASE s < last.struct
    BY <2>1, <1>3, <1>4
  <2>2. CASE ~(s < last.struct)
    BY <2>2, <1>2, <1>4, <1>5
  <2> QED
    BY <2>1, <2>2
<1>6. TypeOK'
  <2>1. at' \in Structs' /\ next' \in 1..(Len(Members(at)') + 1)
    <3>1. at' \in Structs
      BY <1>1, <1>2 DEF Structs
    <3>2. Len(Members(at')) \in Nat
      BY <3>1, Parts DEF Inv
    <3> QED
      BY <1>1, <1>2, <3>1, <3>2 DEF Members
  <2>2. aligns' \in [Structs -> Alignments]
    BY <1>1, <1>3
  <2>3. pads' \in [Structs -> Seq(Nat)] /\ \A i \in Structs : Len(pads'[i]) = Len(Members(i))
        /\ tail' \in [Structs -> Nat] /\ opaque' \in [Structs -> BOOLEAN]
        /\ limit' \in Limits /\ passes' \in 1..limit' /\ last' \in [struct : Nat, member : Nat]
    BY <1>1 DEF Inv, TypeOK
  <2>4. end' \in Nat /\ align' \in Alignments
        /\ status' \in {"verifying", "exact", "did not converge"}
    BY <1>1 DEF Alignments
  <2>5. \A i \in Structs : Members(i)' = Members(i)
    BY <1>1 DEF Members
  <2> QED
    BY <2>1, <2>2, <2>3, <2>4, <2>5, <1>2 DEF TypeOK
<1>7. Compared'
  BY <1>1 DEF Compared, EndBefore
<1>8. Exact(s)'
  <2>1. /\ Members(s)' = Members(s)
        /\ \A k \in DOMAIN Members(s) : Width(Members(s)[k])' = Width(Members(s)[k])
        /\ EndBefore(s, Len(Members(s)) + 1)' = EndBefore(s, Len(Members(s)) + 1)
        /\ IsAlignment(a, s)' <=> IsAlignment(a, s)
        /\ \A k \in DOMAIN Members(s) : Placed(s, k)' <=> Placed(s, k)
    <3>1. Len(Members(s)) + 1 \in 1..(Len(Members(s)) + 1)
      BY Parts DEF Inv
    <3> QED
      BY <3>1, <1>1, <1>2, <1>5, Locality
  <2>2. CASE opaque[s]
    BY <2>2, <1>1, <1>4 DEF Exact
  <2>3. CASE ~opaque[s]
    <3>1. IsAlignment(aligns[s], s)'
      BY <2>1, <2>3, <1>4 DEF IsAlignment
    <3>2. CASE defs[s].kind = "union"
      BY <2>1, <2>3, <3>1, <3>2, <1>1, <1>4 DEF Exact
    <3>3. CASE defs[s].kind = "struct"
      <4>1. EndPlaced(s)'
        BY <2>1, <2>3, <3>3, <1>1, <1>4 DEF EndPlaced
      <4>2. \A k \in DOMAIN Members(s) : Placed(s, k)'
        BY <2>1, <2>3, <3>3
      <4>3. ~opaque'[s] /\ defs'[s].kind # "union"
        BY <2>3, <3>3, <1>1
      <4>4. \A k \in DOMAIN Members(s)' : Placed(s, k)'
        BY <4>2, <2>1
      <4> QED
        BY <3>1, <4>1, <4>3, <4>4 DEF Exact
    <3> QED
      BY <3>2, <3>3, Parts DEF Inv
  <2> QED
    BY <2>2, <2>3
<1>9. \A i \in Structs : (i <= s \/ i < last.struct) => Exact(i)'
  <2> SUFFICES ASSUME NEW i \in Structs, i # s, i < s \/ i < last.struct PROVE Exact(i)'
    BY <1>2, <1>8
  <2>1. Exact(i)
    BY DEF Inv, Settled
  <2>2. \A j \in Structs : j < i => aligns'[j] = aligns[j]
    <3>1. i <= s \/ i <= last.struct
      BY <1>2
    <3> QED
      BY <1>5, <3>1
  <2>3. aligns'[i] = aligns[i]
    BY <1>4
  <2> QED
    BY <2>1, <2>2, <2>3, <1>1, Locality
<1>10. Settled'
  <2>1. \A i \in Structs' : (i < at' \/ i < last'.struct) => Exact(i)'
    BY <1>1, <1>2, <1>9
  <2>2. ASSUME last'.struct # 0, ~opaque'[last'.struct]
        PROVE  /\ defs'[last'.struct].kind = "struct"
               /\ last'.member \in 1..(Len(Members(last.struct)') + 1)
               /\ \A k \in 1..(last'.member - 1) : Placed(last.struct, k)'
    <3> PICK l \in Structs : l = last.struct
      BY <2>2, <1>1, <1>2 DEF Structs
    <3>1. /\ defs[l].kind = "struct" /\ last.member \in 1..(Len(Members(l)) + 1)
          /\ \A k \in 1..(last.member - 1) : Placed(l, k)
      BY <2>2, <1>1 DEF Inv, Settled
    <3>2. Members(l)' = Members(l) /\ Len(Members(l)) \in Nat
          /\ DOMAIN Members(l) = 1..Len(Members(l))
          /\ \A k \in DOMAIN Members(l) : Placed(l, k)' <=> Placed(l, k)
      BY <1>1, <1>2, <1>5, Parts, Locality DEF Inv
    <3>3. \A k \in 1..(last.member - 1) : Placed(l, k)'
      BY <3>1, <3>2
    <3>4. last'.struct = l
      BY <1>1
    <3> QED
      BY <1>1, <3>1, <3>2, <3>3, <3>4
  <2> QED
    BY <2>1, <2>2, <1>1, <1>2 DEF Settled
<1>11. PadsFit'
  BY <1>1, <1>2 DEF Inv, PadsFit, Members, EndBefore, Width
<1>12. GivenUp'
  <2> SUFFICES ASSUME NEW i \in Structs, opaque[i] PROVE i <= last.struct /\ Unrepairable(i)'
    BY <1>1, <1>2 DEF GivenUp
  <2>1. i <= last.struct /\ Unrepairable(i)
    BY DEF Inv, GivenUp
  <2> QED
    BY <2>1, <1>1, <1>5, Locality
<1>13. RepairedIsExact'
  <2>1. ASSUME status' = "exact" PROVE \A i \in Structs : i <= s
    BY <2>1, <1>1, <1>2 DEF Structs
  <2> QED
    BY <2>1, <1>2, <1>9 DEF RepairedIsExact
<1> QED
  BY <1>1, <1>6, <1>7, <1>10, <1>11, <1>12, <1>13 DEF Inv

-----------------------------------------------------------------------------
LEMMA FreshIsInv == ASSUME Acceptable(defs), Fresh PROVE Inv
<1>1. Acceptable(defs) /\ defs \in Seq(Definition) /\ defs # <<>>
  BY DEF Acceptable
<1>2. Len(defs) \in Nat \ {0} /\ \A i \in Structs : Members(i) \in Seq(Member)
  <2>1. Len(defs) \in Nat \ {0} /\ \A i \in Structs : defs[i] \in Definition
    BY <1>1 DEF Structs
  <2> QED
    BY <2>1 DEF Definition, Members
<1>3. \A i \in Structs : pads[i] = [k \in DOMAIN Members(i) |-> 0]
  BY DEF Fresh
<1>4. \A i \in Structs : pads[i] \in Seq(Nat) /\ Len(pads[i]) = Len(Members(i))
  <2> TAKE i \in Structs
  <2>1. DOMAIN Members(i) = 1..Len(Members(i)) /\ Len(Members(i)) \in Nat
    BY <1>2
  <2>2. pads[i] = [k \in 1..Len(Members(i)) |-> 0]
    BY <2>1, <1>3
  <2>3. pads[i] \in [1..Len(Members(i)) -> Nat]
    BY <2>2
  <2> QED
    BY <2>1, <2>2, <2>3
<1>5. TypeOK
  <2>1. at \in Structs /\ next \in 1..(Len(Members(at)) + 1)
    BY <1>2 DEF Fresh, Structs
  <2>2. pads \in [Structs -> Seq(Nat)] /\ tail \in [Structs -> Nat]
        /\ opaque \in [Structs -> BOOLEAN] /\ aligns \in [Structs -> Alignments]
    BY <1>4 DEF Fresh, Alignments
  <2>3. limit \in Limits /\ passes \in 1..limit
    BY LimitsAssumption DEF Fresh
  <2> QED
    BY <1>4, <2>1, <2>2, <2>3 DEF Fresh, TypeOK, Alignments
<1>6. Compared
  BY DEF Fresh, Compared, EndBefore
<1>7. Settled
  BY <1>2 DEF Fresh, Settled, Structs
<1>8. PadsFit
  BY <1>3 DEF Fresh, PadsFit
<1>9. GivenUp /\ RepairedIsExact
  BY DEF Fresh, GivenUp, RepairedIsExact
<1> QED
  BY <1>5, <1>6, <1>7, <1>8, <1>9 DEF Fresh, Inv

(* The loop may begin with any definitions that are acceptable.              *)
LEMMA StartEstablishesInv == (Acceptable(defs) /\ Fresh)' => Inv'
<1>1. Acceptable(defs) /\ Fresh => Inv
  BY FreshIsInv
<1> QED
  BY <1>1, PTL

LEMMA NothingMoves ==
  ASSUME Inv, UNCHANGED <<defs, pads, tail, opaque, aligns, last, at, status>>
  PROVE  Settled' /\ PadsFit' /\ GivenUp' /\ RepairedIsExact'
<1>1. Settled'
  BY DEF Inv, Settled, Exact, IsAlignment, Placed, EndPlaced, EndBefore, Width, AlignOf,
         Members, Structs
<1>2. PadsFit'
  BY DEF Inv, PadsFit, EndBefore, Width, Members, Structs
<1>3. GivenUp'
  BY Locality DEF Inv, GivenUp, Structs
<1>4. RepairedIsExact'
  BY DEF Inv, RepairedIsExact, Exact, IsAlignment, Placed, EndPlaced, EndBefore, Width,
         AlignOf, Members, Structs
<1> QED
  BY <1>1, <1>2, <1>3, <1>4

LEMMA StutterKeepsInv == ASSUME Inv, UNCHANGED vars PROVE Inv'
<1>1. UNCHANGED <<defs, limit, pads, tail, opaque, passes, at, next, end, align, aligns, last, status>>
  BY DEF vars
<1>2. TypeOK'
  BY <1>1 DEF Inv, TypeOK, Structs, Members
<1>3. Compared'
  BY <1>1 DEF Inv, Compared, Placed, EndBefore, Width, AlignOf, Members
<1> QED
  BY <1>1, <1>2, <1>3, NothingMoves DEF Inv

(* The comparison goes on to the next member.                                *)
LEMMA NextMemberKeepsInv ==
  ASSUME Inv, AtMember(at), NEW e \in Nat, NextMember(e),
         defs[at].kind = "struct" => Placed(at, next) /\ e = EndBefore(at, next + 1),
         defs[at].kind = "union" => e = Larger(end, Width(Members(at)[next]))
  PROVE  Inv'
<1> PICK s \in Structs : s = at
  BY Parts DEF Inv
<1> PICK n \in 1..Len(Members(s)) : n = next
  <2>1. next \in 1..(Len(Members(s)) + 1) /\ next <= Len(Members(s)) /\ Len(Members(s)) \in Nat
    BY Parts DEF Inv, TypeOK, AtMember
  <2> QED
    BY <2>1
<1>1. /\ UNCHANGED <<defs, limit, pads, tail, opaque, passes, at, aligns, last, status>>
      /\ next' = n + 1 /\ end' = e /\ align' = Larger(align, AlignOf(Members(s)[n]))
  BY DEF NextMember, repairs
<1>2. Len(Members(s)) \in Nat /\ DOMAIN Members(s) = 1..Len(Members(s)) /\ n \in Nat
      /\ align \in Alignments /\ end \in Nat /\ defs[s].kind \in {"struct", "union"}
  <2>1. align \in Alignments /\ end \in Nat
    BY DEF Inv, TypeOK
  <2>2. Len(Members(s)) \in Nat /\ Members(s) \in Seq(Member) /\ defs[s].kind \in {"struct", "union"}
    BY Parts DEF Inv
  <2> QED
    BY <2>1, <2>2
<1>3. /\ \A k \in DOMAIN Members(s) :
           Width(Members(s)[k]) \in Nat /\ AlignOf(Members(s)[k]) \in Alignments
      /\ \A k \in DOMAIN Members(s) : Placed(s, k)' <=> Placed(s, k)
      /\ \A k \in DOMAIN Members(s) :
           /\ AlignOf(Members(s)[k])' = AlignOf(Members(s)[k])
           /\ Width(Members(s)[k])' = Width(Members(s)[k])
      /\ \A k \in 1..(Len(Members(s)) + 1) : EndBefore(s, k)' = EndBefore(s, k)
      /\ Members(s)' = Members(s) /\ Structs' = Structs
  BY <1>1, Measures, Locality DEF Inv
<1>4. align' \in Alignments /\ align <= align' /\ AlignOf(Members(s)[n]) <= align'
      /\ (align' = align \/ align' = AlignOf(Members(s)[n]))
  <2>1. AlignOf(Members(s)[n]) \in Alignments
    BY <1>3, <1>2
  <2>2. \A x, y \in Alignments : /\ Larger(x, y) \in Alignments /\ x <= Larger(x, y)
                                 /\ y <= Larger(x, y) /\ Larger(x, y) \in {x, y}
    BY DEF Larger, Alignments
  <2> QED
    BY <1>1, <1>2, <2>1, <2>2
<1>5. TypeOK'
  <2>1. next' \in 1..(Len(Members(s)') + 1)
    BY <1>1, <1>2, <1>3
  <2>2. \A i \in Structs : Members(i)' = Members(i)
    BY <1>1 DEF Members
  <2>3. at' = s
    BY <1>1
  <2> QED
    BY <2>1, <2>2, <2>3, <1>1, <1>3, <1>4 DEF Inv, TypeOK
<1>6. Compared'
  <2> DEFINE K == 1..n
             Before == 1..(n - 1)
  <2>1. K = Before \cup {n} /\ K \subseteq DOMAIN Members(s) /\ 1..(next' - 1) = K
        /\ Before = 1..(next - 1)
    BY <1>1, <1>2
  <2>2. ~opaque'[s]
    BY <1>1 DEF AtMember
  <2>3. defs[s].kind = "struct" =>
          /\ \A k \in K : Placed(s, k)'
          /\ end' = EndBefore(s, n + 1)'
    BY <2>1, <1>1, <1>2, <1>3 DEF Inv, Compared
  <2>4. defs[s].kind = "union" =>
          /\ \A k \in K : Width(Members(s)[k])' <= end'
          /\ end' = 0 \/ \E k \in K : end' = Width(Members(s)[k])'
    <3> SUFFICES ASSUME defs[s].kind = "union"
                 PROVE  /\ \A k \in K : Width(Members(s)[k])' <= end'
                        /\ end' = 0 \/ \E k \in K : end' = Width(Members(s)[k])'
      OBVIOUS
    <3>1. /\ \A k \in Before : Width(Members(s)[k]) <= end
          /\ end = 0 \/ \E k \in Before : end = Width(Members(s)[k])
      BY <2>1 DEF Inv, Compared
    <3>2. Width(Members(s)[n]) \in Nat
      BY <1>2, <1>3
    <3>3. end <= end' /\ Width(Members(s)[n]) <= end'
          /\ (end' = end \/ end' = Width(Members(s)[n]))
      BY <1>1, <1>2, <3>2 DEF Larger
    <3>4. \A k \in Before : Width(Members(s)[k]) \in Nat
      BY <2>1, <1>3
    <3>5. \A k \in Before : Width(Members(s)[k]) <= end'
      BY <1>1, <1>2, <3>1, <3>3, <3>4
    <3> QED
      BY <2>1, <3>1, <3>3, <3>5, <1>3
  <2>5. \A k \in K : AlignOf(Members(s)[k])' <= align'
    <3>1. \A k \in Before : AlignOf(Members(s)[k]) <= align
      BY <2>1 DEF Inv, Compared
    <3>2. \A k \in Before : AlignOf(Members(s)[k]) \in Alignments
      BY <2>1, <1>3
    <3>3. \A k \in Before : AlignOf(Members(s)[k]) <= align'
      BY <3>1, <3>2, <1>2, <1>4 DEF Alignments
    <3> QED
      BY <2>1, <3>3, <1>3, <1>4
  <2>6. align' = 1 \/ \E k \in K : align' = AlignOf(Members(s)[k])'
    <3>1. align = 1 \/ \E k \in Before : align = AlignOf(Members(s)[k])
      BY <2>1 DEF Inv, Compared
    <3> QED
      BY <2>1, <3>1, <1>3, <1>4
  <2>7. at' = s /\ defs'[s] = defs[s] /\ next' = n + 1 /\ K = 1..(n + 1 - 1)
    BY <1>1, <1>2
  <2> QED
    BY <2>2, <2>3, <2>4, <2>5, <2>6, <2>7, <1>3 DEF Compared
<1> QED
  BY <1>1, <1>5, <1>6, NothingMoves DEF Inv

LEMMA MemberExactKeepsInv ==
  ASSUME Inv, NEW i \in Structs, MemberExact(i) PROVE Inv'
<1>1. i = at /\ AtMember(at) /\ defs[at].kind = "struct" /\ Offset = Members(at)[next].offset
      /\ NextMember(Offset + Width(Members(at)[next]))
  BY DEF MemberExact, AtMember, Comparing
<1>2. Placed(at, next) /\ next \in Nat \ {0} /\ Offset + Width(Members(at)[next]) \in Nat
  <2>1. next \in DOMAIN Members(at) /\ Members(at) \in Seq(Member)
    BY <1>1, CffiOffset, Parts DEF Inv
  <2>2. next \in Nat \ {0}
    BY <2>1
  <2> QED
    BY <1>1, <2>2, CffiOffset DEF Placed
<1>3. Offset + Width(Members(at)[next]) = EndBefore(at, next + 1)
  BY <1>1, <1>2 DEF EndBefore
<1> QED
  BY <1>1, <1>2, <1>3, NextMemberKeepsInv

LEMMA UnionMemberKeepsInv ==
  ASSUME Inv, NEW i \in Structs, UnionMember(i) PROVE Inv'
<1>1. i = at /\ AtMember(at) /\ defs[at].kind = "union"
      /\ NextMember(Larger(end, Width(Members(at)[next])))
  BY DEF UnionMember, AtMember, Comparing
<1>2. next \in DOMAIN Members(at)
  <2>1. next \in 1..(Len(Members(at)) + 1) /\ next <= Len(Members(at)) /\ Len(Members(at)) \in Nat
    BY <1>1, Parts DEF Inv, TypeOK, AtMember
  <2>2. Members(at) \in Seq(Member)
    BY Parts DEF Inv
  <2> QED
    BY <2>1, <2>2
<1>3. Width(Members(at)[next]) \in Nat /\ end \in Nat
  BY <1>2, Measures, Parts DEF Inv, TypeOK
<1>4. Larger(end, Width(Members(at)[next])) \in Nat
  BY <1>3 DEF Larger
<1> QED
  BY <1>1, <1>4, NextMemberKeepsInv

LEMMA SizeExactKeepsInv ==
  ASSUME Inv, NEW i \in Structs, SizeExact(i) PROVE Inv'
<1>1. i = at /\ AtSize(at) /\ Size = defs[at].size /\ Leave(align) /\ ~opaque[at]
      /\ status = "verifying" /\ at \in Structs
  BY DEF SizeExact, AtSize, Comparing
<1>2. align \in Alignments /\ IsAlignment(align, at) /\ end \in Nat /\ defs[at].size \in Nat
  BY <1>1, CffiSize, Parts DEF Inv
<1>3. at < last.struct => align = aligns[at]
  BY <1>1, SettledIsExact DEF Inv, Settled
<1>4. ASSUME defs[at].kind = "union"
      PROVE  /\ \A k \in DOMAIN Members(at) : Width(Members(at)[k]) <= defs[at].size
             /\ defs[at].size % align = 0
  <2> DEFINE n == Larger(end, defs[at].size)
  <2>1. n \in Nat /\ end <= n /\ defs[at].size <= n
    BY <1>2 DEF Larger
  <2>2. Size = RoundUp(n, align)
    BY <1>4 DEF Size
  <2> HIDE DEF n
  <2>3. n <= defs[at].size /\ defs[at].size % align = 0
    BY <1>1, <1>2, <2>1, <2>2, RoundingUp
  <2>4. \A k \in DOMAIN Members(at) : Width(Members(at)[k]) <= end /\ Width(Members(at)[k]) \in Nat
    BY <1>1, <1>4, CffiSize, Measures DEF Inv
  <2> QED
    BY <1>2, <2>1, <2>3, <2>4
<1>5. ASSUME defs[at].kind = "struct"
      PROVE  /\ \A k \in DOMAIN Members(at) : Placed(at, k)
             /\ \/ Members(at) = <<>> /\ tail[at] = 0
                \/ defs[at].size = RoundUp(EndBefore(at, Len(Members(at)) + 1) + tail[at], align)
  BY <1>1, <1>5, CffiSize DEF Size
<1> QED
  BY <1>1, <1>2, <1>3, <1>4, <1>5, LeaveKeepsInv

LEMMA OpaqueExactKeepsInv ==
  ASSUME Inv, NEW i \in Structs, OpaqueExact(i) PROVE Inv'
<1>1. i = at /\ opaque[at] /\ Leave(1) /\ status = "verifying" /\ 1 \in Alignments /\ at \in Structs
  BY DEF OpaqueExact, Comparing, Alignments
<1>2. at < last.struct => aligns[at] = 1
  BY <1>1 DEF Inv, Settled, Exact
<1> QED
  BY <1>1, <1>2, LeaveKeepsInv
-----------------------------------------------------------------------------
LEMMA RepairKeepsTypes ==
  ASSUME Inv, Differs, AnotherPass,
         pads' \in [Structs -> Seq(Nat)],
         \A i \in Structs : Len(pads'[i]) = Len(Members(i)),
         tail' \in [Structs -> Nat], opaque' \in [Structs -> BOOLEAN]
  PROVE  TypeOK'
<1>1. /\ defs' = defs /\ aligns' = aligns /\ limit' = limit /\ at' = 1 /\ next' = 1 /\ end' = 0 /\ align' = 1
      /\ last' = [struct |-> at, member |-> next]
      /\ \/ passes = limit /\ status' = "did not converge" /\ passes' = passes
         \/ passes # limit /\ status' = status /\ passes' = passes + 1
  BY DEF AnotherPass
<1>2. limit \in Nat \ {0} /\ limit \in Limits /\ passes \in 1..limit
  BY LimitsAssumption DEF Inv, TypeOK
<1>3. Structs' = Structs /\ (\A i \in Structs : Members(i)' = Members(i)) /\ 1 \in Structs
      /\ Len(Members(1)) \in Nat /\ at \in Nat /\ next \in Nat
  <2>1. 1 \in Structs /\ at \in Nat /\ next \in Nat
    BY Parts, RepairsGoOn DEF Inv, Structs
  <2> QED
    BY <1>1, <2>1, Parts DEF Inv, Structs, Members
<1>4. passes' \in 1..limit'
  <2>1. passes \in Nat /\ 1 <= passes /\ passes <= limit
    BY <1>2
  <2>2. limit' = limit /\ (passes' = passes \/ (passes # limit /\ passes' = passes + 1))
    BY <1>1
  <2> QED
    BY <1>2, <2>1, <2>2
<1>5. at' \in Structs' /\ next' \in 1..(Len(Members(at)') + 1)
  <2>1. Members(at)' = Members(1)
    BY <1>1 DEF Members
  <2>2. Len(Members(at)') = Len(Members(1))
    BY <2>1
  <2>3. 1 \in 1..(Len(Members(1)) + 1)
    BY <1>3
  <2> QED
    BY <1>1, <1>3, <2>2, <2>3
<1>6. last' \in [struct : Nat, member : Nat]
  BY <1>1, <1>3
<1>7. status' \in {"verifying", "exact", "did not converge"}
  BY <1>1 DEF Inv, TypeOK
<1>8. aligns' \in [Structs -> Alignments]
  BY <1>1 DEF Inv, TypeOK
<1> QED
  BY <1>1, <1>2, <1>3, <1>4, <1>5, <1>6, <1>7, <1>8 DEF TypeOK, Alignments

(* What a pad is to fill does not depend on the repairs.                     *)
LEMMA EndsStay ==
  ASSUME Inv, defs' = defs
  PROVE  /\ Structs' = Structs
         /\ \A i \in Structs : Members(i)' = Members(i)
         /\ \A i \in Structs : \A k \in 1..(Len(Members(i)) + 1) : EndBefore(i, k)' = EndBefore(i, k)
BY DEF Structs, Members, EndBefore, Width

LEMMA PadMemberKeepsInv ==
  ASSUME Inv, NEW i \in Structs, PadMember(i) PROVE Inv' /\ Differs /\ AnotherPass
<1>1. /\ i = at /\ AtMember(at) /\ defs[at].kind = "struct" /\ Offset < Members(at)[next].offset
      /\ AnotherPass /\ tail' = tail /\ opaque' = opaque /\ defs' = defs
      /\ pads' = [pads EXCEPT ![at][next] = @ + Members(at)[next].offset - Offset]
  BY DEF PadMember, AtMember, Comparing, AnotherPass
<1>2. Differs
  BY <1>1, CffiOffset DEF Differs
<1> PICK s \in Structs : s = at
  BY <1>1
<1> PICK n \in DOMAIN Members(s) : n = next
  BY <1>1, CffiOffset
<1> DEFINE pad == pads[s][n] + Members(s)[n].offset - Offset
<1>3. pad \in Nat /\ EndBefore(s, n) + pad <= Members(s)[n].offset
  <2>1. EndBefore(s, n) + pads[s][n] <= Offset
    BY <1>1, CffiOffset, RoundingUp
  <2> QED
    BY <2>1, <1>1, CffiOffset
<1> HIDE DEF pad
<1>4. pads \in [Structs -> Seq(Nat)] /\ (\A j \in Structs : Len(pads[j]) = Len(Members(j)))
      /\ tail \in [Structs -> Nat] /\ opaque \in [Structs -> BOOLEAN]
  BY DEF Inv, TypeOK
<1>5. pads' = [pads EXCEPT ![s] = [pads[s] EXCEPT ![n] = pad]]
  BY <1>1 DEF pad
<1>6. /\ [pads[s] EXCEPT ![n] = pad] \in Seq(Nat)
      /\ Len([pads[s] EXCEPT ![n] = pad]) = Len(pads[s])
      /\ DOMAIN pads[s] = DOMAIN Members(s)
  BY <1>3, <1>4, Parts DEF Inv
<1>7. /\ pads'[s] = [pads[s] EXCEPT ![n] = pad]
      /\ \A j \in Structs : j # s => pads'[j] = pads[j]
  BY <1>4, <1>5
<1>8. pads' \in [Structs -> Seq(Nat)] /\ \A j \in Structs : Len(pads'[j]) = Len(Members(j))
  BY <1>4, <1>5, <1>6, <1>7
<1>9. TypeOK'
  BY <1>1, <1>2, <1>4, <1>8, RepairKeepsTypes
<1>10. pads'[s][n] = pad /\ \A k \in DOMAIN Members(s) : k # n => pads'[s][k] = pads[s][k]
  BY <1>6, <1>7
<1>11. PadsFit'
  <2>1. ASSUME NEW j \in Structs, NEW k \in DOMAIN Members(j), pads'[j][k] > 0
        PROVE  EndBefore(j, k)' + pads'[j][k] <= Members(j)[k].offset
    <3>1. EndBefore(j, k)' = EndBefore(j, k)
      <4>1. k \in 1..(Len(Members(j)) + 1)
        BY Parts DEF Inv
      <4> QED
        BY <4>1, <1>1, EndsStay
    <3>2. CASE j = s /\ k = n
      BY <3>1, <3>2, <1>3, <1>10
    <3>3. CASE ~(j = s /\ k = n)
      <4>1. pads'[j][k] = pads[j][k]
        BY <3>3, <1>7, <1>10
      <4> QED
        BY <2>1, <3>1, <4>1 DEF Inv, PadsFit
    <3> QED
      BY <3>2, <3>3
  <2>2. \A j \in Structs : EndBefore(j, Len(Members(j)) + 1)' = EndBefore(j, Len(Members(j)) + 1)
    <3> TAKE j \in Structs
    <3>1. Len(Members(j)) + 1 \in 1..(Len(Members(j)) + 1)
      BY Parts DEF Inv
    <3> QED
      BY <3>1, <1>1, EndsStay
  <2>3. Structs' = Structs /\ \A j \in Structs : Members(j)' = Members(j)
    BY <1>1, EndsStay
  <2> QED
    BY <2>1, <2>2, <2>3, <1>1 DEF Inv, PadsFit
<1>12. \A k \in 1..(next - 1) : pads'[at][k] = pads[at][k]
  <2>1. \A k \in 1..(n - 1) : k \in DOMAIN Members(s) /\ k # n
    BY Parts DEF Inv
  <2> QED
    BY <2>1, <1>10
<1>13. ~opaque'[at]
  BY <1>1 DEF AtMember
<1> QED
  BY <1>1, <1>2, <1>7, <1>9, <1>11, <1>12, <1>13, RepairKeepsInv

(* A struct is given up for a reason that is in its DWARF layout.            *)
LEMMA MakeOpaqueKeepsInv ==
  ASSUME Inv, Differs, MakeOpaque, Unrepairable(at) PROVE Inv'
<1>1. AnotherPass /\ pads' = pads /\ tail' = tail /\ opaque' = [opaque EXCEPT ![at] = TRUE]
      /\ defs' = defs
  BY DEF MakeOpaque, AnotherPass
<1>2. at \in Structs /\ pads \in [Structs -> Seq(Nat)] /\ tail \in [Structs -> Nat]
      /\ opaque \in [Structs -> BOOLEAN]
      /\ \A i \in Structs : Len(pads[i]) = Len(Members(i))
  BY DEF Inv, TypeOK
<1>3. opaque' \in [Structs -> BOOLEAN] /\ opaque'[at]
      /\ \A i \in Structs : i # at => opaque'[i] = opaque[i]
  BY <1>1, <1>2
<1>4. TypeOK'
  BY <1>1, <1>2, <1>3, RepairKeepsTypes
<1>5. PadsFit'
  BY <1>1 DEF Inv, PadsFit, EndBefore, Width, Members, Structs
<1> QED
  BY <1>1, <1>3, <1>4, <1>5, RepairKeepsInv

LEMMA MemberTooFarKeepsInv ==
  ASSUME Inv, NEW i \in Structs, MemberTooFar(i) PROVE Inv' /\ Differs /\ AnotherPass
<1>1. i = at /\ AtMember(at) /\ defs[at].kind = "struct" /\ Offset > Members(at)[next].offset
      /\ MakeOpaque /\ at \in Structs
  BY DEF MemberTooFar, AtMember, Comparing
<1>2. Differs
  BY <1>1, CffiOffset DEF Differs
<1> DEFINE e == EndBefore(at, next)
           a == AlignOf(Members(at)[next])
           o == Members(at)[next].offset
           p == pads[at][next]
<1>3. next \in DOMAIN Members(at) /\ e \in Nat /\ a \in Alignments /\ o \in Nat /\ p \in Nat
      /\ Offset = RoundUp(e + p, a)
  BY <1>1, CffiOffset
<1>4. p > 0 => e + p <= o
  BY <1>1, <1>3 DEF Inv, PadsFit
<1>5. Offset > o
  BY <1>1
<1> HIDE DEF e, a, o, p
<1>6. e > o \/ o % a # 0
  <2>1. CASE e + p <= o
    BY <1>3, <1>5, <2>1, RoundingUp
  <2>2. CASE ~(e + p <= o)
    BY <1>3, <1>4, <2>2
  <2> QED
    BY <2>1, <2>2
<1>7. Unrepairable(at)
  BY <1>1, <1>3, <1>6 DEF Unrepairable, e, a, o
<1> QED
  BY <1>1, <1>2, <1>7, MakeOpaqueKeepsInv DEF MakeOpaque

LEMMA SizeTooLargeKeepsInv ==
  ASSUME Inv, NEW i \in Structs, SizeTooLarge(i) PROVE Inv' /\ Differs /\ AnotherPass
<1>1. i = at /\ AtSize(at) /\ Size > defs[at].size /\ MakeOpaque /\ at \in Structs
  BY DEF SizeTooLarge, AtSize, Comparing
<1> DEFINE s == defs[at].size
           t == tail[at]
<1>2. Size \in Nat /\ s \in Nat /\ t \in Nat /\ end \in Nat /\ align \in Alignments
      /\ IsAlignment(align, at) /\ Size > s
  BY <1>1, CffiSize, Parts DEF Inv
<1>3. Differs
  BY <1>1, <1>2 DEF Differs
<1>4. CASE defs[at].kind = "struct"
  <2>1. end = EndBefore(at, Len(Members(at)) + 1)
    BY <1>1, <1>4, CffiSize
  <2>2. t > 0 => end + t <= s
    BY <1>1, <2>1 DEF Inv, PadsFit
  <2>3. Size = RoundUp(end + t, align)
    BY <1>2, <1>4 DEF Size
  <2> HIDE DEF s, t
  <2>4. end > s \/ s % align # 0
    <3>1. CASE end + t <= s
      BY <1>2, <2>3, <3>1, RoundingUp
    <3>2. CASE ~(end + t <= s)
      BY <1>2, <2>2, <3>2
    <3> QED
      BY <3>1, <3>2
  <2>5. Unrepairable(at)
    BY <1>2, <1>4, <2>1, <2>4 DEF Unrepairable, s
  <2> QED
    BY <1>1, <1>3, <2>5, MakeOpaqueKeepsInv DEF MakeOpaque
<1>5. CASE defs[at].kind = "union"
  <2> DEFINE n == Larger(end, s)
  <2>1. Size = RoundUp(n, align)
    BY <1>5 DEF Size
  <2>2. n \in Nat /\ (n = end \/ n = s) /\ s <= n
    BY <1>2 DEF Larger
  <2> HIDE DEF n, s
  <2>3. end > s \/ s % align # 0
    <3>1. CASE n <= s
      BY <1>2, <2>1, <2>2, <3>1, RoundingUp
    <3>2. CASE ~(n <= s)
      BY <1>2, <2>2, <3>2
    <3> QED
      BY <3>1, <3>2
  <2>4. end > s => \E k \in DOMAIN Members(at) : s < Width(Members(at)[k])
    BY <1>1, <1>2, <1>5, CffiSize
  <2>5. Unrepairable(at)
    BY <1>2, <1>5, <2>3, <2>4 DEF Unrepairable, s
  <2> QED
    BY <1>1, <1>3, <2>5, MakeOpaqueKeepsInv DEF MakeOpaque
<1> QED
  BY <1>1, <1>4, <1>5, Parts DEF Inv

LEMMA PadTailKeepsInv ==
  ASSUME Inv, NEW i \in Structs, PadTail(i) PROVE Inv' /\ Differs /\ AnotherPass
<1>1. /\ i = at /\ AtSize(at) /\ Size < defs[at].size /\ AnotherPass /\ at \in Structs
      /\ pads' = pads /\ opaque' = opaque /\ defs' = defs /\ ~opaque[at]
      /\ tail' = [tail EXCEPT ![at] = @ + defs[at].size - Size]
  BY DEF PadTail, AtSize, Comparing, AnotherPass
<1> PICK b \in Structs : b = at
  BY <1>1
<1> DEFINE s == defs[b].size
           t == tail[b]
           e == EndBefore(b, Len(Members(b)) + 1)
<1>2. Size \in Nat /\ s \in Nat /\ t \in Nat /\ end \in Nat /\ align \in Alignments /\ Size < s
  BY <1>1, CffiSize, Parts DEF Inv
<1>3. Differs
  BY <1>1, <1>2 DEF Differs
<1>4. defs[b].kind = "struct"
  <2>1. ASSUME defs[b].kind = "union" PROVE FALSE
    <3> DEFINE n == Larger(end, s)
    <3>1. n \in Nat /\ s <= n
      BY <1>2 DEF Larger
    <3>2. Size = RoundUp(n, align)
      BY <2>1 DEF Size
    <3> HIDE DEF n, s
    <3> QED
      BY <1>2, <3>1, <3>2, RoundingUp
  <2> QED
    BY <2>1, Parts DEF Inv
<1>5. end = e
  BY <1>1, <1>4, CffiSize
<1>6. end + t <= Size
  <2>1. CASE Members(b) = <<>> /\ t = 0
    BY <1>1, <1>2, <1>4, <2>1 DEF Size
  <2>2. CASE ~(Members(b) = <<>> /\ t = 0)
    <3>1. Size = RoundUp(end + t, align)
      BY <1>4, <2>2 DEF Size
    <3> QED
      BY <1>2, <3>1, RoundingUp
  <2> QED
    BY <2>1, <2>2
<1>7. t + s - Size \in Nat /\ e + (t + s - Size) <= s
  <2> HIDE DEF s, t, e
  <2> QED
    BY <1>2, <1>5, <1>6
<1>8. pads \in [Structs -> Seq(Nat)] /\ tail \in [Structs -> Nat]
      /\ opaque \in [Structs -> BOOLEAN]
      /\ \A j \in Structs : Len(pads[j]) = Len(Members(j))
  BY DEF Inv, TypeOK
<1>9. tail' \in [Structs -> Nat] /\ tail'[b] = t + s - Size
      /\ \A j \in Structs : j # b => tail'[j] = tail[j]
  BY <1>1, <1>7, <1>8
<1>10. TypeOK'
  BY <1>1, <1>3, <1>8, <1>9, RepairKeepsTypes
<1>11. PadsFit'
  <2>1. Structs' = Structs /\ (\A j \in Structs : Members(j)' = Members(j))
        /\ \A j \in Structs : \A k \in 1..(Len(Members(j)) + 1) : EndBefore(j, k)' = EndBefore(j, k)
    BY <1>1, EndsStay
  <2>2. ASSUME NEW j \in Structs
        PROVE  EndBefore(j, Len(Members(j)) + 1)' = EndBefore(j, Len(Members(j)) + 1)
               /\ \A k \in DOMAIN Members(j) : EndBefore(j, k)' = EndBefore(j, k)
    <3>1. Len(Members(j)) + 1 \in 1..(Len(Members(j)) + 1)
          /\ DOMAIN Members(j) \subseteq 1..(Len(Members(j)) + 1)
      BY Parts DEF Inv
    <3> QED
      BY <2>1, <3>1
  <2>3. ASSUME NEW j \in Structs, tail'[j] > 0
        PROVE  EndBefore(j, Len(Members(j)) + 1)' + tail'[j] <= defs[j].size
    <3>1. CASE j = b
      BY <3>1, <2>2, <1>7, <1>9
    <3>2. CASE j # b
      BY <3>2, <2>2, <2>3, <1>9 DEF Inv, PadsFit
    <3> QED
      BY <3>1, <3>2
  <2> QED
    BY <2>1, <2>2, <2>3, <1>1 DEF Inv, PadsFit
<1> QED
  BY <1>1, <1>3, <1>4, <1>9, <1>10, <1>11, RepairKeepsInv
-----------------------------------------------------------------------------
LEMMA NextKeepsInv == ASSUME Inv, [Next]_vars PROVE Inv'
BY MemberExactKeepsInv, PadMemberKeepsInv, MemberTooFarKeepsInv, UnionMemberKeepsInv,
   SizeExactKeepsInv, PadTailKeepsInv, SizeTooLargeKeepsInv, OpaqueExactKeepsInv,
   StutterKeepsInv DEF Next, Done

(* For every list of definitions and every limit on the passes: whatever     *)
(* verify_and_repair has settled stays settled, pads fill gaps, and a struct *)
(* is given up for a reason.                                                 *)
THEOREM Invariance == Spec => []Inv
<1>1. Init => Inv
  BY FreshIsInv, InputsAssumption DEF Init
<1>2. Inv /\ [Next]_vars => Inv'
  BY NextKeepsInv
<1> QED
  BY <1>1, <1>2, PTL DEF Spec

(* The variables of verify_and_repair keep their types; the passes stay      *)
(* within MAX_REPAIR_PASSES.                                                 *)
THEOREM TypeCorrect == Spec => []TypeOK
<1>1. Inv => TypeOK
  BY DEF Inv
<1> QED
  BY <1>1, Invariance, PTL

(* No struct becomes an opaque array because of what the repair itself did.  *)
THEOREM OpaqueIsJustified == Spec => []OpaqueOnlyIfUnrepairable
<1>1. Inv => OpaqueOnlyIfUnrepairable
  BY DEF Inv, GivenUp, OpaqueOnlyIfUnrepairable
<1> QED
  BY <1>1, Invariance, PTL

(* The place of the first mismatch never moves back.                         *)
LEMMA StepMovesForward == ASSUME Inv, [Next]_vars PROVE ~After(last, last') \/ last' = last
<1>1. ASSUME Differs, AnotherPass PROVE ~After(last, last')
  <2>1. last' = [struct |-> at, member |-> next]
    BY <1>1 DEF AnotherPass
  <2>2. last.struct <= at /\ (last.struct = at => last.member <= next)
    BY <1>1, RepairsGoOn
  <2>3. last.struct \in Nat /\ last.member \in Nat /\ at \in Nat /\ next \in Nat
    <3>1. last \in [struct : Nat, member : Nat]
      BY DEF Inv, TypeOK
    <3> QED
      BY <3>1, <1>1, RepairsGoOn DEF Structs
  <2> QED
    BY <2>1, <2>2, <2>3 DEF After
<1>2. ASSUME NEW i \in Structs, PadMember(i) \/ MemberTooFar(i) \/ PadTail(i) \/ SizeTooLarge(i)
      PROVE  Differs /\ AnotherPass
  BY <1>2, PadMemberKeepsInv, MemberTooFarKeepsInv, PadTailKeepsInv, SizeTooLargeKeepsInv
<1>3. ASSUME NEW i \in Structs, MemberExact(i) \/ UnionMember(i) \/ SizeExact(i) \/ OpaqueExact(i)
      PROVE  last' = last
  BY <1>3 DEF MemberExact, UnionMember, SizeExact, OpaqueExact, NextMember, Leave
<1>4. ASSUME UNCHANGED vars PROVE last' = last
  BY <1>4 DEF vars
<1> QED
  BY <1>1, <1>2, <1>3, <1>4 DEF Next, Done

THEOREM RepairsProgress == Spec => RepairsMoveForward
<1>1. Inv /\ [Next]_vars => [~After(last, last')]_vars
  <2> SUFFICES ASSUME Inv, [Next]_vars, last' = last PROVE ~After(last, last')
    BY StepMovesForward
  <2>1. last \in [struct : Nat, member : Nat]
    BY DEF Inv, TypeOK
  <2> QED
    BY <2>1 DEF After
<1> QED
  BY <1>1, Invariance, PTL DEF Spec, RepairsMoveForward
-----------------------------------------------------------------------------
(* What is exact is what C makes of the text.                                *)
LEMMA Smallest ==
  ASSUME NEW S, S \subseteq Nat, S # {}
  PROVE  \E least \in S : \A n \in S : least <= n
<1> DEFINE R == {p \in Nat \X Nat : p[1] < p[2]}
<1>1. R = OpToRel(<, Nat)
  BY DEF OpToRel
<1>2. IsWellFoundedOn(R, Nat)
  BY <1>1, NatLessThanWellFounded
<1>3. PICK least \in S : \A n \in S : <<n, least>> \notin R
  BY <1>2, WFMin
<1>4. \A n \in S : ~(n < least)
  BY <1>3
<1>5. \A n \in S : least <= n
  BY <1>4
<1> QED
  BY <1>5

(* The layout that DWARF gives struct i.                                     *)
Wanted(i) ==
  [size |-> defs[i].size, align |-> aligns[i],
   offsets |-> IF opaque[i] THEN <<>> ELSE [k \in DOMAIN Members(i) |-> Members(i)[k].offset]]

LEMMA OffsetsOfExact ==
  ASSUME Inv, NEW i \in Structs, NEW lay,
         \A k \in DOMAIN Members(i) : /\ Placed(i, k)
                                      /\ LaidWidth(lay, Members(i)[k]) = Width(Members(i)[k])
                                      /\ LaidAlign(lay, Members(i)[k]) = AlignOf(Members(i)[k])
  PROVE  LaidOffsets(lay, i) = [k \in DOMAIN Members(i) |-> Members(i)[k].offset]
<1> DEFINE ms == Members(i)
           before(f, k) == IF k = 1 THEN 0 ELSE f[k - 1] + LaidWidth(lay, ms[k - 1])
           Step(f, k) == RoundUp(before(f, k) + pads[i][k], LaidAlign(lay, ms[k]))
           real == [k \in DOMAIN ms |-> ms[k].offset]
           off == CHOOSE f : f = [k \in DOMAIN ms |-> Step(f, k)]
<1>1. Len(ms) \in Nat /\ DOMAIN ms = 1..Len(ms)
  BY Parts DEF Inv
<1>2. ASSUME NEW f, NEW k \in DOMAIN ms, k # 1 => f[k - 1] = ms[k - 1].offset
      PROVE  Step(f, k) = ms[k].offset
  <2>1. k = 1 \/ k - 1 \in DOMAIN ms
    BY <1>1
  <2>2. before(f, k) = EndBefore(i, k)
    BY <1>2, <2>1 DEF EndBefore
  <2>3. ms[k].offset = RoundUp(EndBefore(i, k) + pads[i][k], AlignOf(ms[k]))
    BY DEF Placed
  <2>4. LaidAlign(lay, ms[k]) = AlignOf(ms[k])
    OBVIOUS
  <2> HIDE DEF before, ms
  <2> QED
    BY <2>2, <2>3, <2>4
<1> HIDE DEF ms
<1>3. real = [k \in DOMAIN ms |-> Step(real, k)]
  <2>1. \A k \in DOMAIN ms : k # 1 => real[k - 1] = ms[k - 1].offset
    BY <1>1
  <2>2. \A k \in DOMAIN ms : Step(real, k) = ms[k].offset
    <3> HIDE DEF real, Step
    <3> QED
      BY <1>2, <2>1
  <2> HIDE DEF Step
  <2> QED
    BY <2>2, Zenon DEF real
<1>4. off = [k \in DOMAIN ms |-> Step(off, k)]
  <2> HIDE DEF Step, real
  <2> QED
    BY <1>3, Zenon
<1> HIDE DEF off, Step
<1>5. \A k \in DOMAIN ms : off[k] = Step(off, k)
  BY <1>4, Zenon
<1> DEFINE Wrong == {k \in DOMAIN ms : off[k] # ms[k].offset}
<1>6. Wrong = {}
  <2> SUFFICES ASSUME Wrong # {} PROVE FALSE
    OBVIOUS
  <2>1. Wrong \subseteq Nat
    BY <1>1
  <2>2. PICK k \in Wrong : \A j \in Wrong : k <= j
    <3> HIDE DEF Wrong
    <3> QED
      BY <2>1, Smallest
  <2>3. k # 1 => off[k - 1] = ms[k - 1].offset
    <3> SUFFICES ASSUME k # 1 PROVE k - 1 \notin Wrong /\ k - 1 \in DOMAIN ms
      OBVIOUS
    <3> QED
      BY <1>1, <2>1, <2>2
  <2> QED
    BY <1>2, <1>5, <2>3
<1>7. off = real
  <2>1. \A k \in DOMAIN ms : off[k] = ms[k].offset
    BY <1>6
  <2>2. \A k \in DOMAIN ms : Step(off, k) = ms[k].offset
    BY <1>5, <2>1
  <2> QED
    BY <1>4, <2>2, Zenon DEF real
<1> QED
  BY <1>7, Zenon DEF LaidOffsets, off, real, Step, ms

LEMMA LayoutOfExact ==
  ASSUME Inv, NEW i \in Structs, Exact(i), NEW lay,
         \A k \in DOMAIN Members(i) : /\ LaidWidth(lay, Members(i)[k]) = Width(Members(i)[k])
                                      /\ LaidAlign(lay, Members(i)[k]) = AlignOf(Members(i)[k])
  PROVE  StructLayout(lay, i) = Wanted(i)
<1> DEFINE ms == Members(i)
           off == LaidOffsets(lay, i)
           used == IF ms = <<>> THEN 0 ELSE off[Len(ms)] + LaidWidth(lay, ms[Len(ms)])
           big == CHOOSE a \in Alignments :
                    /\ \A k \in DOMAIN ms : LaidAlign(lay, ms[k]) <= a
                    /\ a = 1 \/ \E k \in DOMAIN ms : LaidAlign(lay, ms[k]) = a
           most == CHOOSE n \in {LaidWidth(lay, ms[k]) : k \in DOMAIN ms} \cup {defs[i].size} :
                     defs[i].size <= n /\ \A k \in DOMAIN ms : LaidWidth(lay, ms[k]) <= n
<1>0. StructLayout(lay, i) =
        IF opaque[i] THEN [size |-> defs[i].size, align |-> 1, offsets |-> <<>>]
        ELSE IF defs[i].kind = "union"
          THEN [size |-> RoundUp(most, big), align |-> big, offsets |-> [k \in DOMAIN ms |-> 0]]
        ELSE [size |-> IF ms = <<>> /\ tail[i] = 0 THEN defs[i].size ELSE RoundUp(used + tail[i], big),
              align |-> big, offsets |-> off]
  BY Zenon DEF StructLayout
<1>1. /\ Len(ms) \in Nat /\ DOMAIN ms = 1..Len(ms) /\ defs[i].size \in Nat
      /\ defs[i].kind \in {"struct", "union"} /\ aligns[i] \in Alignments /\ tail[i] \in Nat
      /\ (ms = <<>> <=> Len(ms) = 0)
  BY Parts DEF Inv
<1>2. \A k \in DOMAIN ms : Width(ms[k]) \in Nat /\ AlignOf(ms[k]) \in Alignments
  BY Measures DEF Inv
<1>3. \A k \in DOMAIN ms : LaidWidth(lay, ms[k]) = Width(ms[k]) /\ LaidAlign(lay, ms[k]) = AlignOf(ms[k])
  OBVIOUS
<1>4. CASE opaque[i]
  <2>1. aligns[i] = 1
    BY <1>4 DEF Exact
  <2> HIDE DEF off, used, big, most
  <2> QED
    BY <1>0, <1>4, <2>1 DEF Wanted
<1>5. CASE ~opaque[i]
  <2>1. IsAlignment(aligns[i], i)
    BY <1>5 DEF Exact
  <2>2. big = aligns[i]
    <3>1. \A a \in Alignments :
            IsAlignment(a, i) <=> /\ \A k \in DOMAIN ms : LaidAlign(lay, ms[k]) <= a
                                  /\ a = 1 \/ \E k \in DOMAIN ms : LaidAlign(lay, ms[k]) = a
      BY <1>3 DEF IsAlignment
    <3>2. \A a \in Alignments : IsAlignment(a, i) => a = aligns[i]
      BY <1>1, <2>1, LargestIsUnique DEF Inv
    <3> HIDE DEF ms
    <3> QED
      BY <1>1, <2>1, <3>1, <3>2, Zenon
  <2>3. CASE defs[i].kind = "union"
    <3>1. \A k \in DOMAIN ms : Width(ms[k]) <= defs[i].size
      BY <1>5, <2>3 DEF Exact
    <3>2. most = defs[i].size
      <4> DEFINE N == {LaidWidth(lay, ms[k]) : k \in DOMAIN ms} \cup {defs[i].size}
                 Is(n) == defs[i].size <= n /\ \A k \in DOMAIN ms : LaidWidth(lay, ms[k]) <= n
      <4> HIDE DEF ms
      <4>1. defs[i].size \in N /\ Is(defs[i].size)
        BY <1>1, <1>3, <3>1
      <4>2. ASSUME NEW n \in N, Is(n) PROVE n = defs[i].size
        BY <1>1, <1>2, <1>3, <3>1, <4>2
      <4> HIDE DEF N, Is
      <4>3. (CHOOSE n \in N : Is(n)) = defs[i].size
        BY <4>1, <4>2, Zenon
      <4> QED
        BY <4>3, Zenon DEF N, Is, ms
    <3>3. defs[i].size % aligns[i] = 0
      BY <1>5, <2>3 DEF Exact
    <3>4. RoundUp(most, big) = defs[i].size
      BY <2>2, <3>2, <3>3 DEF RoundUp
    <3>5. \A k \in DOMAIN ms : ms[k].offset = 0
      <4>1. i \in DOMAIN defs /\ Acceptable(defs)
        BY DEF Inv, Acceptable, Structs
      <4> QED
        BY <2>3, <4>1 DEF Acceptable, Members
    <3>6. [k \in DOMAIN ms |-> 0] = [k \in DOMAIN ms |-> ms[k].offset]
      <4> HIDE DEF ms
      <4> QED
        BY <3>5
    <3>7. StructLayout(lay, i) = [size |-> defs[i].size, align |-> aligns[i], offsets |-> [k \in DOMAIN ms |-> 0]]
      <4> HIDE DEF ms, off, used, big, most
      <4> QED
        BY <1>0, <1>5, <2>2, <2>3, <3>4
    <3> QED
      BY <1>5, <3>6, <3>7, Zenon DEF Wanted, ms
  <2>4. CASE defs[i].kind = "struct"
    <3>1. (\A k \in DOMAIN ms : Placed(i, k)) /\ EndPlaced(i)
      BY <1>5, <2>4 DEF Exact
    <3>2. off = [k \in DOMAIN ms |-> ms[k].offset]
      <4>1. \A k \in DOMAIN Members(i) :
              /\ Placed(i, k)
              /\ LaidWidth(lay, Members(i)[k]) = Width(Members(i)[k])
              /\ LaidAlign(lay, Members(i)[k]) = AlignOf(Members(i)[k])
        BY <1>3, <3>1
      <4> HIDE DEF ms
      <4> QED
        BY <4>1, OffsetsOfExact, Zenon DEF ms
    <3> HIDE DEF off, big, most
    <3>3. used = EndBefore(i, Len(ms) + 1)
      <4>1. CASE Len(ms) = 0
        BY <1>1, <4>1 DEF EndBefore
      <4>2. CASE Len(ms) # 0
        <5>1. Len(ms) \in DOMAIN ms /\ Len(ms) + 1 # 1 /\ (Len(ms) + 1) - 1 = Len(ms)
          BY <1>1, <4>2
        <5>2. off[Len(ms)] = ms[Len(ms)].offset
          <6> HIDE DEF ms
          <6> QED
            BY <3>2, <5>1
        <5> QED
          BY <1>1, <1>3, <4>2, <5>1, <5>2 DEF EndBefore
      <4> QED
        BY <4>1, <4>2
    <3>4. (IF ms = <<>> /\ tail[i] = 0 THEN defs[i].size ELSE RoundUp(used + tail[i], big)) = defs[i].size
      <4> HIDE DEF used
      <4> QED
        BY <2>2, <3>1, <3>3 DEF EndPlaced
    <3>5. StructLayout(lay, i) = [size |-> defs[i].size, align |-> aligns[i], offsets |-> off]
      <4>1. defs[i].kind # "union"
        BY <2>4
      <4> HIDE DEF ms, used
      <4> QED
        BY <1>0, <1>5, <2>2, <3>4, <4>1
    <3> QED
      BY <1>5, <3>2, <3>5, Zenon DEF Wanted, ms
  <2> QED
    BY <1>1, <2>3, <2>4
<1> QED
  BY <1>4, <1>5

(* The members of a struct refer to structs before it.                       *)
LEMMA LaidAsWanted ==
  ASSUME Inv, NEW i \in Structs, NEW lay,
         \A j \in Structs : j < i => lay[j] = Wanted(j), NEW k \in DOMAIN Members(i)
  PROVE  /\ LaidWidth(lay, Members(i)[k]) = Width(Members(i)[k])
         /\ LaidAlign(lay, Members(i)[k]) = AlignOf(Members(i)[k])
<1> DEFINE m == Members(i)[k]
<1>1. m.struct \in Nat /\ m.struct < i /\ Structs = 1..Len(defs) /\ Len(defs) \in Nat
  <2>1. m \in Member /\ m.struct < i /\ Len(defs) \in Nat
    BY Parts DEF Inv
  <2> QED
    BY <2>1 DEF Member, Structs
<1> HIDE DEF m
<1>2. CASE m.struct = 0
  BY <1>2 DEF LaidWidth, Width, LaidAlign, AlignOf, m
<1>3. CASE m.struct # 0
  <2>1. m.struct \in Structs
    BY <1>1, <1>3
  <2>2. lay[m.struct] = Wanted(m.struct)
    BY <1>1, <2>1
  <2>3. Wanted(m.struct).size = defs[m.struct].size /\ Wanted(m.struct).align = aligns[m.struct]
    BY DEF Wanted
  <2> QED
    BY <1>3, <2>2, <2>3 DEF LaidWidth, Width, LaidAlign, AlignOf, m
<1> QED
  BY <1>2, <1>3

LEMMA CLayoutIsWanted ==
  ASSUME Inv, status = "exact"
  PROVE  \A i \in Structs : CLayout[i] = Wanted(i)
<1> DEFINE lay == CHOOSE f : f = [i \in Structs |-> StructLayout(f, i)]
           dwarf == [i \in Structs |-> Wanted(i)]
<1>1. ASSUME NEW f, NEW i \in Structs, \A j \in Structs : j < i => f[j] = Wanted(j)
      PROVE  StructLayout(f, i) = Wanted(i)
  <2>1. Exact(i)
    BY DEF Inv, RepairedIsExact
  <2> QED
    BY <1>1, <2>1, LaidAsWanted, LayoutOfExact
<1>2. dwarf = [i \in Structs |-> StructLayout(dwarf, i)]
  <2>1. \A i \in Structs : dwarf[i] = Wanted(i)
    BY Zenon
  <2> HIDE DEF dwarf
  <2>2. \A i \in Structs : StructLayout(dwarf, i) = Wanted(i)
    BY <1>1, <2>1
  <2> QED
    BY <2>2, Zenon DEF dwarf
<1>3. lay = [i \in Structs |-> StructLayout(lay, i)]
  <2> HIDE DEF dwarf
  <2> QED
    BY <1>2, Zenon
<1>4. CLayout = lay
  BY Zenon DEF CLayout
<1> HIDE DEF lay, dwarf
<1>5. \A i \in Structs : lay[i] = StructLayout(lay, i)
  BY <1>3, Zenon
<1> DEFINE Wrong == {i \in Structs : lay[i] # Wanted(i)}
<1>6. Wrong = {}
  <2> SUFFICES ASSUME Wrong # {} PROVE FALSE
    OBVIOUS
  <2>1. Wrong \subseteq Nat
    BY Parts DEF Structs, Inv
  <2>2. PICK i \in Wrong : \A j \in Wrong : i <= j
    <3> HIDE DEF Wrong
    <3> QED
      BY <2>1, Smallest
  <2>3. \A j \in Structs : j < i => lay[j] = Wanted(j)
    <3> SUFFICES ASSUME NEW j \in Wrong, j < i PROVE FALSE
      OBVIOUS
    <3> QED
      BY <2>1, <2>2
  <2> QED
    BY <1>1, <1>5, <2>3
<1> QED
  BY <1>4, <1>6

LEMMA ExactAsLaidOut == Inv => HeaderIsExact
<1> SUFFICES ASSUME Inv, status = "exact"
             PROVE  \A i \in Structs :
                      /\ CLayout[i].size = defs[i].size
                      /\ ~opaque[i] => CLayout[i].offsets = [k \in DOMAIN Members(i) |-> Members(i)[k].offset]
  BY Zenon DEF HeaderIsExact
<1> TAKE i \in Structs
<1>1. CLayout[i] = Wanted(i)
  BY CLayoutIsWanted
<1>2. Wanted(i).size = defs[i].size
  BY DEF Wanted
<1>3. ~opaque[i] => Wanted(i).offsets = [k \in DOMAIN Members(i) |-> Members(i)[k].offset]
  BY DEF Wanted
<1> QED
  BY <1>1, <1>2, <1>3, Zenon

(* When verify_and_repair returns, C lays the header out as DWARF says,      *)
(* whatever it was given.                                                    *)
THEOREM HeaderExact == Spec => []HeaderIsExact
  BY ExactAsLaidOut, Invariance, PTL

-----------------------------------------------------------------------------
(* The repairs made so far, and what the structs before the last repair and  *)
(* the places before it may have cost.  At a place that padding cannot make  *)
(* exact, every pad moves the end of what precedes nearer to it.             *)
Made == IF status = "did not converge" THEN passes ELSE passes - 1
Swallowed == IF Widest = 1 THEN 0 ELSE Widest

Paid(made, spent, k, place, before, a) ==
  IF place % a = 0
  THEN place = RoundUp(before, a) /\ made <= spent + k
  ELSE before <= place /\ made <= spent + (k - 1) + (before - place + a)

PaidAt(s, k) ==
  /\ opaque[s] => Made <= Needed[s] - 1
  /\ ~opaque[s] /\ k \in DOMAIN Members(s) =>
       Paid(Made, Needed[s - 1] - 1, k, Members(s)[k].offset, EndBefore(s, k) + pads[s][k],
            AlignOf(Members(s)[k]))
  /\ ~opaque[s] /\ k = Len(Members(s)) + 1 =>
       \A a \in Alignments : IsAlignment(a, s) =>
         Paid(Made, Needed[s - 1] - 1, k, defs[s].size, EndBefore(s, k) + tail[s], a)

(* The places after the last repair have no pad yet.                         *)
Unpadded ==
  \A i \in Structs :
    /\ \A k \in DOMAIN Members(i) :
         (i > last.struct \/ (i = last.struct /\ k > last.member)) => pads[i][k] = 0
    /\ (i > last.struct \/ (i = last.struct /\ last.member <= Len(Members(i)))) => tail[i] = 0

(* Nothing is aligned more strictly than the widest member.                  *)
Narrow == align <= Widest /\ \A i \in Structs : aligns[i] <= Widest

(* What the repairs made so far have been paid for with.                     *)
Tally ==
  /\ Unpadded /\ Narrow
  /\ last.struct = 0 => Made = 0
  /\ last.struct # 0 => PaidAt(last.struct, last.member)
  /\ status = "did not converge" => passes = limit

(* A set of alignments has a largest member, or is empty.                    *)
LEMMA LargestExists ==
  ASSUME NEW S, S \subseteq Alignments
  PROVE  \E a \in Alignments : (\A b \in S : b <= a) /\ (a = 1 \/ a \in S)
<1>1. CASE 8 \in S
  BY <1>1 DEF Alignments
<1>2. CASE 8 \notin S /\ 4 \in S
  BY <1>2 DEF Alignments
<1>3. CASE 8 \notin S /\ 4 \notin S /\ 2 \in S
  BY <1>3 DEF Alignments
<1>4. CASE 8 \notin S /\ 4 \notin S /\ 2 \notin S
  BY <1>4 DEF Alignments
<1> QED
  BY <1>1, <1>2, <1>3, <1>4

(* Widest, defined by CHOOSE, is what its name says.                         *)
LEMMA WidestOfAll ==
  ASSUME Acceptable(defs), TypeOK
  PROVE  /\ Widest \in Alignments
         /\ \A i \in Structs : \A k \in DOMAIN Members(i) : Members(i)[k].align <= Widest
<1> DEFINE S == {a \in Alignments : \E i \in Structs : \E k \in DOMAIN Members(i) : Members(i)[k].align = a}
           Is(a) == /\ \A i \in Structs : \A k \in DOMAIN Members(i) : Members(i)[k].align <= a
                    /\ a = 1 \/ \E i \in Structs : \E k \in DOMAIN Members(i) : Members(i)[k].align = a
<1>1. PICK a \in Alignments : (\A b \in S : b <= a) /\ (a = 1 \/ a \in S)
  BY LargestExists
<1>2. \A i \in Structs : \A k \in DOMAIN Members(i) : Members(i)[k].align \in S
  BY Parts DEF Member
<1>3. Is(a)
  BY <1>1, <1>2
<1>4. Widest = CHOOSE b \in Alignments : Is(b)
  BY Zenon DEF Widest
<1>5. Widest \in Alignments /\ Is(Widest)
  <2> HIDE DEF Is
  <2> QED
    BY <1>3, <1>4
<1> QED
  BY <1>5

(* Induction over a set of numbers.                                          *)
LEMMA NatSetInduction ==
  ASSUME NEW S, 0 \in S, \A n \in Nat : n \in S => n + 1 \in S
  PROVE  Nat \subseteq S
<1> SUFFICES ASSUME Nat \ S # {} PROVE FALSE
  OBVIOUS
<1>1. PICK least \in Nat \ S : \A n \in Nat \ S : least <= n
  BY Smallest
<1>2. least - 1 \in Nat /\ least - 1 \in S
  BY <1>1
<1> QED
  BY <1>1, <1>2

(* The budget is defined for every struct, and grows.                        *)
LEMMA Budget ==
  ASSUME Acceptable(defs), TypeOK
  PROVE  /\ Needed[0] = 1
         /\ \A i \in 0..Len(defs) : Needed[i] \in Nat
         /\ \A i \in Structs : Needed[i] = Needed[i - 1] + Len(Members(i)) + 1 + Swallowed
<1> DEFINE N == Len(defs)
           Step(f, i) == IF i = 0 THEN 1
                         ELSE f[i - 1] + Len(Members(i)) + 1 + (IF Widest = 1 THEN 0 ELSE Widest)
           Is(f, n) == f = [i \in 0..n |-> Step(f, i)] /\ \A i \in 0..n : f[i] \in Nat
           S == {n \in Nat : n <= N => \E f : Is(f, n)}
<1>1. N \in Nat /\ Structs = 1..N /\ (\A i \in Structs : Len(Members(i)) \in Nat) /\ Widest \in Nat
  BY Parts, WidestOfAll DEF Structs, Alignments
<1>2. 0 \in S
  <2> DEFINE g == [i \in 0..0 |-> 1]
  <2>1. Is(g, 0)
    OBVIOUS
  <2> HIDE DEF Is, g
  <2> QED
    BY <2>1
<1>3. ASSUME NEW n \in Nat, n \in S PROVE n + 1 \in S
  <2> SUFFICES ASSUME n + 1 <= N PROVE \E f : Is(f, n + 1)
    OBVIOUS
  <2>1. PICK f : Is(f, n)
    <3> HIDE DEF Is
    <3> QED
      BY <1>1, <1>3
  <2> DEFINE more == f[n] + Len(Members(n + 1)) + 1 + (IF Widest = 1 THEN 0 ELSE Widest)
             g == [i \in 0..(n + 1) |-> IF i = n + 1 THEN more ELSE f[i]]
  <2>2. \A i \in 0..n : f[i] = Step(f, i) /\ f[i] \in Nat
    <3> HIDE DEF Step
    <3> QED
      BY <2>1
  <2>3. ASSUME NEW i \in 0..(n + 1) PROVE g[i] = Step(g, i) /\ g[i] \in Nat
    <3>1. CASE i = n + 1
      <4>1. g[i] = more /\ g[i - 1] = f[n] /\ i # 0 /\ f[n] \in Nat
        BY <3>1, <2>2
      <4>2. more \in Nat
        BY <1>1, <4>1
      <4> HIDE DEF g
      <4> QED
        BY <3>1, <4>1, <4>2
    <3>2. CASE i \in 1..n
      <4>1. g[i] = f[i] /\ g[i - 1] = f[i - 1] /\ i # 0 /\ i \in 0..n
        BY <3>2
      <4> HIDE DEF g
      <4> QED
        BY <4>1, <2>2
    <3>3. CASE i = 0
      <4>1. g[i] = f[i] /\ i \in 0..n
        BY <3>3
      <4> HIDE DEF g
      <4> QED
        BY <3>3, <4>1, <2>2
    <3> QED
      BY <3>1, <3>2, <3>3
  <2>4. Is(g, n + 1)
    <3> HIDE DEF Step
    <3> QED
      BY <2>3
  <2> HIDE DEF Is, g
  <2> QED
    BY <2>4
<1>4. \E f : Is(f, N)
  <2> HIDE DEF Is
  <2>1. Nat \subseteq S
    <3> HIDE DEF S
    <3> QED
      BY <1>2, <1>3, NatSetInduction
  <2> QED
    BY <1>1, <2>1
<1>5. Needed = CHOOSE f : f = [i \in 0..N |-> Step(f, i)]
  BY Zenon DEF Needed
<1>6. Needed = [i \in 0..N |-> Step(Needed, i)]
  <2>1. \E f : f = [i \in 0..N |-> Step(f, i)]
    <3> HIDE DEF Step
    <3> QED
      BY <1>4
  <2> HIDE DEF Step, N
  <2> QED
    BY <1>5, <2>1, Zenon
<1>7. \A i \in 0..N : Needed[i] = Step(Needed, i)
  <2> HIDE DEF Step
  <2> QED
    BY <1>6, Zenon
<1> DEFINE T == {n \in Nat : n <= N => Needed[n] \in Nat}
<1>8. 0 \in T
  BY <1>1, <1>7
<1>9. ASSUME NEW n \in Nat, n \in T PROVE n + 1 \in T
  <2> SUFFICES ASSUME n + 1 <= N PROVE Needed[n + 1] \in Nat
    OBVIOUS
  <2>1. n + 1 \in Structs /\ n + 1 \in 0..N /\ n + 1 # 0 /\ (n + 1) - 1 = n /\ Needed[n] \in Nat
    BY <1>1, <1>9
  <2>2. Needed[n + 1] = Needed[n] + Len(Members(n + 1)) + 1 + (IF Widest = 1 THEN 0 ELSE Widest)
    BY <1>7, <2>1
  <2>3. Len(Members(n + 1)) \in Nat
    BY <1>1, <2>1
  <2> QED
    BY <1>1, <2>1, <2>2, <2>3
<1>10. Nat \subseteq T
  <2> HIDE DEF T
  <2> QED
    BY <1>8, <1>9, NatSetInduction
<1>11. Needed[0] = 1
  BY <1>1, <1>7
<1>12. ASSUME NEW i \in Structs
       PROVE  Needed[i] = Needed[i - 1] + Len(Members(i)) + 1 + Swallowed
  <2>1. i \in 0..N /\ i # 0
    BY <1>1
  <2> QED
    BY <1>7, <2>1 DEF Swallowed
<1> QED
  BY <1>1, <1>10, <1>11, <1>12

(* A later struct has at least the budget of an earlier one.                 *)
LEMMA BudgetGrows ==
  ASSUME Acceptable(defs), TypeOK, NEW i \in 0..Len(defs), NEW j \in 0..Len(defs), i <= j
  PROVE  Needed[i] <= Needed[j]
<1> DEFINE S == {n \in Nat : i + n <= Len(defs) => Needed[i] <= Needed[i + n]}
<1>1. Len(defs) \in Nat /\ (\A h \in 0..Len(defs) : Needed[h] \in Nat) /\ Swallowed \in Nat
      /\ i \in Nat /\ j \in Nat
  BY Parts, Budget, WidestOfAll DEF Swallowed, Alignments
<1>2. 0 \in S
  BY <1>1
<1>3. ASSUME NEW n \in Nat, n \in S PROVE n + 1 \in S
  <2> SUFFICES ASSUME i + (n + 1) <= Len(defs) PROVE Needed[i] <= Needed[i + (n + 1)]
    OBVIOUS
  <2> DEFINE h == i + (n + 1)
  <2>1. h \in Structs /\ h - 1 = i + n /\ h - 1 \in 0..Len(defs) /\ h \in 0..Len(defs)
    BY <1>1 DEF Structs
  <2>2. Needed[h] = Needed[h - 1] + Len(Members(h)) + 1 + Swallowed /\ Len(Members(h)) \in Nat
    BY <2>1, Budget, Parts
  <2>3. Needed[i] <= Needed[h - 1]
    BY <1>3, <2>1
  <2> HIDE DEF h
  <2>4. Needed[i] <= Needed[h]
    BY <1>1, <2>1, <2>2, <2>3
  <2> QED
    BY <2>4 DEF h
<1>4. Nat \subseteq S
  <2> HIDE DEF S
  <2> QED
    BY <1>2, <1>3, NatSetInduction
<1>5. j - i \in S
  BY <1>1, <1>4
<1> QED
  BY <1>1, <1>5

(* A pad that leaves a member short of its place: its end was rounded up.    *)
LEMMA PadGains ==
  ASSUME NEW before \in Nat, NEW place \in Nat, NEW a \in Alignments, RoundUp(before, a) < place
  PROVE  LET after == before + place - RoundUp(before, a)
         IN /\ after \in Nat /\ before < after /\ after <= place /\ place < after + a
            /\ place % a = 0 => place = RoundUp(after, a)
<1>1. a = 1 \/ a = 2 \/ a = 4 \/ a = 8
  BY DEF Alignments
<1>2. CASE a = 1
  BY <1>2 DEF RoundUp
<1>3. CASE a = 2
  BY <1>3 DEF RoundUp
<1>4. CASE a = 4
  BY <1>4 DEF RoundUp
<1>5. CASE a = 8
  BY <1>5 DEF RoundUp
<1> QED
  BY <1>1, <1>2, <1>3, <1>4, <1>5

(* No place is aligned more strictly than the widest member.                 *)
LEMMA NarrowMembers ==
  ASSUME Inv, Narrow, NEW i \in Structs
  PROVE  /\ \A k \in DOMAIN Members(i) : AlignOf(Members(i)[k]) <= Widest
         /\ Widest \in Alignments /\ 1 <= Widest
         /\ \A a \in Alignments : IsAlignment(a, i) => a <= Widest
         /\ \E a \in Alignments : IsAlignment(a, i)
<1>1. Widest \in Alignments /\ 1 <= Widest
  BY WidestOfAll DEF Inv, Alignments
<1>2. ASSUME NEW k \in DOMAIN Members(i) PROVE AlignOf(Members(i)[k]) <= Widest
  <2>1. Members(i)[k] \in Member /\ Members(i)[k].struct < i /\ Len(defs) \in Nat
    BY Parts DEF Inv
  <2>2. Members(i)[k].struct = 0 \/ Members(i)[k].struct \in Structs
    <3>1. Members(i)[k].struct \in Nat
      BY <2>1 DEF Member
    <3> QED
      BY <2>1, <3>1 DEF Structs
  <2>3. Members(i)[k].align <= Widest
    BY WidestOfAll DEF Inv
  <2> QED
    BY <2>2, <2>3 DEF AlignOf, Narrow
<1>3. \A a \in Alignments : IsAlignment(a, i) => a <= Widest
  BY <1>1, <1>2 DEF IsAlignment
<1> DEFINE S == {AlignOf(Members(i)[k]) : k \in DOMAIN Members(i)}
<1>4. \A k \in DOMAIN Members(i) : AlignOf(Members(i)[k]) \in Alignments
  BY Measures DEF Inv
<1>5. S \subseteq Alignments
  BY <1>4
<1>6. PICK a \in Alignments : (\A b \in S : b <= a) /\ (a = 1 \/ a \in S)
  BY <1>5, LargestExists
<1>7. IsAlignment(a, i)
  BY <1>6 DEF IsAlignment
<1> QED
  BY <1>1, <1>2, <1>3, <1>7

(* The repairs made are counted.                                             *)
LEMMA MadeIsNat == ASSUME Inv PROVE Made \in Nat /\ passes \in Nat
<1>1. passes \in 1..limit /\ limit \in Nat
  BY LimitsAssumption DEF Inv, TypeOK
<1>2. passes \in Nat /\ passes - 1 \in Nat
  BY <1>1
<1> QED
  BY <1>2 DEF Made

(* What a place costs is in the budget of its struct, and one repair less if *)
(* the struct has to be given up for it.                                     *)
LEMMA Affordable ==
  ASSUME Inv, NEW s \in Structs, NEW k \in 1..(Len(Members(s)) + 1),
         NEW place \in Nat, NEW before \in Nat, NEW a \in Alignments, a <= Widest,
         Paid(Made, Needed[s - 1] - 1, k, place, before, a)
  PROVE  /\ Made <= Needed[s] - 1
         /\ place % a # 0 => Made <= Needed[s] - 2
<1>1. Needed[s] = Needed[s - 1] + Len(Members(s)) + 1 + Swallowed /\ Len(Members(s)) \in Nat
  BY Budget, Parts DEF Inv
<1>2. Needed[s - 1] \in Nat /\ Needed[s] \in Nat
  <2>1. s - 1 \in 0..Len(defs) /\ s \in 0..Len(defs)
    BY Parts DEF Inv, Structs
  <2> QED
    BY <2>1, Budget DEF Inv
<1>3. Made \in Nat
  BY MadeIsNat
<1>4. Swallowed \in Nat /\ (a # 1 => a <= Swallowed) /\ a \in Nat /\ k \in Nat
  BY WidestOfAll DEF Inv, Swallowed, Alignments
<1> DEFINE n == Needed[s - 1]
           m == Needed[s]
           l == Len(Members(s))
           r == Made
<1>7. n \in Nat /\ m \in Nat /\ l \in Nat /\ r \in Nat /\ m = n + l + 1 + Swallowed /\ k <= l + 1
  BY <1>1, <1>2, <1>3
<1>5. CASE place % a = 0
  <2>1. r <= n - 1 + k
    BY <1>5 DEF Paid
  <2> HIDE DEF n, m, l, r
  <2>2. r <= m - 1
    BY <1>4, <1>7, <2>1
  <2> QED
    BY <1>5, <2>2 DEF m, r
<1>6. CASE place % a # 0
  <2>1. before <= place /\ r <= n - 1 + (k - 1) + (before - place + a)
    BY <1>6 DEF Paid
  <2>2. a # 1
    BY <1>6
  <2> HIDE DEF n, m, l, r
  <2>3. r <= m - 2
    BY <1>4, <1>7, <2>1, <2>2
  <2>4. r <= m - 1
    BY <1>7, <2>3
  <2> QED
    BY <2>3, <2>4 DEF m, r
<1> QED
  BY <1>5, <1>6

(* The places of the last repair.                                            *)
LEMMA PlacesOfLast ==
  ASSUME Inv, Tally, last.struct # 0, NEW s \in Structs, s = last.struct
  PROVE  /\ opaque[s] => Made <= Needed[s] - 1
         /\ ~opaque[s] =>
              \E place \in Nat, before \in Nat, a \in Alignments :
                /\ a <= Widest
                /\ last.member \in 1..(Len(Members(s)) + 1)
                /\ Paid(Made, Needed[s - 1] - 1, last.member, place, before, a)
<1> DEFINE k == last.member
<1>1. PaidAt(s, k)
  BY DEF Tally
<1>2. ASSUME ~opaque[s]
      PROVE  \E place \in Nat, before \in Nat, a \in Alignments :
                a <= Widest /\ k \in 1..(Len(Members(s)) + 1) /\ Paid(Made, Needed[s - 1] - 1, k, place, before, a)
  <2>1. k \in 1..(Len(Members(s)) + 1) /\ Len(Members(s)) \in Nat
        /\ DOMAIN Members(s) = 1..Len(Members(s))
    BY <1>2, Parts DEF Inv, Settled
  <2>2. EndBefore(s, k) \in Nat
    BY <2>1, Measures DEF Inv
  <2>3. CASE k \in DOMAIN Members(s)
    <3>1. Paid(Made, Needed[s - 1] - 1, k, Members(s)[k].offset, EndBefore(s, k) + pads[s][k], AlignOf(Members(s)[k]))
      BY <1>1, <1>2, <2>3 DEF PaidAt
    <3>2. Members(s)[k].offset \in Nat /\ AlignOf(Members(s)[k]) \in Alignments /\ pads[s][k] \in Nat
          /\ AlignOf(Members(s)[k]) <= Widest
      BY <2>3, Measures, Parts, NarrowMembers DEF Inv, Tally
    <3>3. EndBefore(s, k) + pads[s][k] \in Nat
      BY <2>2, <3>2
    <3> QED
      BY <2>1, <3>1, <3>2, <3>3
  <2>4. CASE k = Len(Members(s)) + 1
    <3>1. PICK a \in Alignments : IsAlignment(a, s)
      BY NarrowMembers DEF Tally
    <3>2. Paid(Made, Needed[s - 1] - 1, k, defs[s].size, EndBefore(s, k) + tail[s], a) /\ a <= Widest
      BY <1>1, <1>2, <2>4, <3>1, NarrowMembers DEF PaidAt, Tally
    <3>3. defs[s].size \in Nat /\ EndBefore(s, k) + tail[s] \in Nat
      BY <2>2, Parts DEF Inv
    <3> QED
      BY <2>1, <3>2, <3>3
  <2> QED
    BY <2>1, <2>3, <2>4
<1> QED
  BY <1>1, <1>2 DEF PaidAt

(* The repairs so far fit in the budget up to the last repaired struct.      *)
LEMMA WithinStruct ==
  ASSUME Inv, Tally, last.struct # 0
  PROVE  last.struct \in Structs /\ Made <= Needed[last.struct] - 1
<1>1. last.struct \in Structs
  <2>1. last.struct \in Nat /\ last.struct <= Len(defs) /\ Len(defs) \in Nat
    BY Parts DEF Inv, TypeOK, Settled
  <2> QED
    BY <2>1 DEF Structs
<1> PICK s \in Structs : s = last.struct
  BY <1>1
<1>2. CASE opaque[s]
  BY <1>2, PlacesOfLast
<1>3. CASE ~opaque[s]
  BY <1>3, PlacesOfLast, Affordable
<1> QED
  BY <1>2, <1>3

(* What was paid before the first repair at a place.                         *)
LEMMA PaidBefore ==
  ASSUME Inv, Tally, Differs, ~(last.struct = at /\ last.member = next)
  PROVE  Made <= Needed[at - 1] - 1 + (next - 1)
<1>1. /\ last.struct <= at /\ (last.struct = at => last.member <= next)
      /\ at \in Structs /\ next \in Nat /\ ~opaque[at]
      /\ last.struct \in Nat /\ last.member \in Nat /\ Len(defs) \in Nat
      /\ next \in 1..(Len(Members(at)) + 1) /\ Len(Members(at)) \in Nat
      /\ DOMAIN Members(at) = 1..Len(Members(at))
  <2>1. last \in [struct : Nat, member : Nat] /\ next \in 1..(Len(Members(at)) + 1)
    BY DEF Inv, TypeOK
  <2> QED
    BY <2>1, RepairsGoOn, Parts DEF Inv
<1>2. Made \in Nat
  BY MadeIsNat
<1>3. /\ at - 1 \in 0..Len(defs) /\ at \in Nat
      /\ Needed[at - 1] \in Nat /\ Needed[0] = 1 /\ 0 \in 0..Len(defs) /\ 0 <= at - 1
  <2>1. at - 1 \in 0..Len(defs) /\ at \in Nat /\ 0 \in 0..Len(defs) /\ 0 <= at - 1
    BY <1>1 DEF Structs
  <2> QED
    BY <2>1, Budget DEF Inv
<1>4. CASE last.struct = 0
  <2>1. Made = 0 /\ 1 <= Needed[at - 1]
    BY <1>3, <1>4, BudgetGrows DEF Tally, Inv
  <2> QED
    BY <1>1, <1>3, <2>1
<1>5. CASE last.struct # 0 /\ last.struct # at
  <2>1. Made <= Needed[last.struct] - 1
    BY <1>5, WithinStruct
  <2>2. last.struct \in 0..Len(defs) /\ last.struct <= at - 1
    BY <1>1, <1>3, <1>5 DEF Structs
  <2>3. Needed[last.struct] <= Needed[at - 1] /\ Needed[last.struct] \in Nat
    BY <1>3, <2>2, BudgetGrows, Budget DEF Inv
  <2> DEFINE n == Needed[at - 1]
             m == Needed[last.struct]
             r == Made
  <2>4. r <= m - 1 /\ m <= n /\ n \in Nat /\ m \in Nat /\ r \in Nat /\ 1 <= next
    BY <1>1, <1>2, <1>3, <2>1, <2>3
  <2> HIDE DEF n, m, r
  <2>5. r <= n - 1 + (next - 1)
    BY <1>1, <2>4
  <2> QED
    BY <2>5 DEF n, r
<1>6. CASE last.struct = at
  <2> PICK s \in Structs : s = at
    BY <1>1
  <2> DEFINE k == last.member
  <2>1. k < next /\ 1 <= k
    BY <1>1, <1>3, <1>6 DEF Inv, Settled
  <2>2. k \in 1..(next - 1) /\ k \in DOMAIN Members(s) /\ defs[s].kind = "struct"
    BY <1>1, <1>6, <2>1, <1>3 DEF Inv, Settled
  <2>3. Placed(s, k)
    BY <2>2 DEF Inv, Compared
  <2>4. Members(s)[k].offset \in Nat /\ AlignOf(Members(s)[k]) \in Alignments
        /\ EndBefore(s, k) + pads[s][k] \in Nat
    <3>1. EndBefore(s, k) \in Nat
      BY <1>1, <2>2, Measures DEF Inv
    <3> QED
      BY <2>2, <3>1, Measures, Parts DEF Inv
  <2>5. Members(s)[k].offset % AlignOf(Members(s)[k]) = 0
    BY <2>3, <2>4, RoundingUp DEF Placed
  <2>6. Paid(Made, Needed[s - 1] - 1, k, Members(s)[k].offset, EndBefore(s, k) + pads[s][k], AlignOf(Members(s)[k]))
    <3>1. s # 0 /\ last.struct = s
      BY <1>1, <1>6 DEF Structs
    <3>2. PaidAt(last.struct, last.member)
      BY <3>1 DEF Tally
    <3>3. PaidAt(s, k) /\ ~opaque[s]
      BY <1>1, <3>1, <3>2
    <3> QED
      BY <2>2, <3>3 DEF PaidAt
  <2>7. Made <= Needed[at - 1] - 1 + k
    BY <1>6, <2>5, <2>6 DEF Paid
  <2> QED
    BY <1>1, <1>2, <1>3, <2>1, <2>7
<1> QED
  BY <1>4, <1>5, <1>6

(* The budget is a function of the definitions.                              *)
LEMMA BudgetStays == ASSUME defs' = defs PROVE Needed' = Needed /\ Widest' = Widest /\ Structs' = Structs
<1> DEFINE WidestOf(d) ==
             CHOOSE a \in Alignments :
               /\ \A i \in 1..Len(d) : \A k \in DOMAIN d[i].members : d[i].members[k].align <= a
               /\ a = 1 \/ \E i \in 1..Len(d) : \E k \in DOMAIN d[i].members : d[i].members[k].align = a
           NeededFor(d, w) ==
             CHOOSE f : f = [i \in 0..Len(d) |->
               IF i = 0 THEN 1
               ELSE f[i - 1] + Len(d[i].members) + 1 + (IF w = 1 THEN 0 ELSE w)]
<1>1. Widest = WidestOf(defs) /\ Widest' = WidestOf(defs')
  BY Zenon DEF Widest, Structs, Members
<1>2. Needed = NeededFor(defs, Widest) /\ Needed' = NeededFor(defs', Widest')
  BY Zenon DEF Needed, Members
<1> HIDE DEF WidestOf, NeededFor
<1> QED
  BY <1>1, <1>2 DEF Structs

(* While the comparison agrees, nothing is paid.                             *)
LEMMA QuietKeepsTally ==
  ASSUME Inv, Tally, UNCHANGED <<defs, limit, passes, pads, tail, opaque, last>>,
         status = "verifying", status' \in {"verifying", "exact"},
         align' <= Widest, \A j \in Structs : aligns'[j] <= Widest,
         \A j \in Structs : j < last.struct => aligns'[j] = aligns[j]
  PROVE  Tally'
<1>1. Needed' = Needed /\ Widest' = Widest /\ Structs' = Structs /\ Made' = Made
  BY BudgetStays DEF Made
<1>2. \A i \in Structs : Members(i)' = Members(i)
  BY DEF Members
<1>3. Unpadded' /\ Narrow'
  BY <1>1, <1>2 DEF Tally, Unpadded, Narrow
<1>4. ASSUME last.struct # 0 PROVE PaidAt(last.struct, last.member)'
  <2> PICK s \in Structs : s = last.struct
    BY <1>4, WithinStruct
  <2> DEFINE k == last.member
  <2>1. PaidAt(s, k)
    BY <1>4 DEF Tally
  <2>2. /\ Members(s)' = Members(s)
        /\ \A h \in DOMAIN Members(s) : AlignOf(Members(s)[h])' = AlignOf(Members(s)[h])
        /\ \A h \in 1..(Len(Members(s)) + 1) : EndBefore(s, h)' = EndBefore(s, h)
        /\ \A a : IsAlignment(a, s)' <=> IsAlignment(a, s)
    BY Locality
  <2>3. k \in 1..(Len(Members(s)) + 1) \/ opaque[s]
    BY <1>4 DEF Inv, Settled
  <2> QED
    <3>1. CASE opaque[s]
      BY <1>1, <2>1, <3>1 DEF PaidAt
    <3>2. CASE ~opaque[s] /\ k \in DOMAIN Members(s)
      BY <1>1, <2>1, <2>2, <2>3, <3>2 DEF PaidAt
    <3>3. CASE ~opaque[s] /\ k = Len(Members(s)) + 1
      BY <1>1, <2>1, <2>2, <2>3, <3>3 DEF PaidAt
    <3> QED
      BY <2>2, <3>1, <3>2, <3>3 DEF PaidAt
<1>5. last.struct = 0 => Made' = 0
  BY <1>1 DEF Tally
<1>6. status' # "did not converge"
  OBVIOUS
<1> QED
  BY <1>3, <1>4, <1>5, <1>6 DEF Tally

(* A repair costs one pass and leaves the places after it unpadded.          *)
LEMMA RepairCounts ==
  ASSUME Inv, Tally, Differs, AnotherPass
  PROVE  /\ Made' = Made + 1 /\ Narrow'
         /\ status' = "did not converge" => passes' = limit'
         /\ last' = [struct |-> at, member |-> next]
<1>1. /\ defs' = defs /\ limit' = limit /\ aligns' = aligns /\ align' = 1
      /\ last' = [struct |-> at, member |-> next] /\ status = "verifying"
      /\ \/ passes = limit /\ status' = "did not converge" /\ passes' = passes
         \/ passes # limit /\ status' = status /\ passes' = passes + 1
  BY DEF AnotherPass, Differs, AtMember, AtSize, Comparing
<1>2. Made' = Made + 1
  <2>1. passes \in Nat /\ Made = passes - 1
    BY <1>1, MadeIsNat DEF Made
  <2>2. CASE status' = "did not converge" /\ passes' = passes
    <3>1. Made' = passes
      BY <2>2 DEF Made
    <3>2. passes = Made + 1
      BY <2>1
    <3> QED
      BY <3>1, <3>2
  <2>3. CASE status' = "verifying" /\ passes' = passes + 1
    BY <1>1, <2>1, <2>3 DEF Made
  <2> QED
    BY <1>1, <2>2, <2>3
<1>3. Narrow'
  <2>1. 1 <= Widest
    BY WidestOfAll DEF Inv, Alignments
  <2> QED
    BY <1>1, <2>1, BudgetStays DEF Tally, Narrow
<1> QED
  BY <1>1, <1>2, <1>3

(* A repair pads or gives up its own place only.                             *)
LEMMA RepairLeavesUnpadded ==
  ASSUME Inv, Tally, Differs, AnotherPass,
         \A i \in Structs : i # at => pads'[i] = pads[i] /\ tail'[i] = tail[i],
         \A k \in DOMAIN Members(at) : k > next => pads'[at][k] = pads[at][k],
         next <= Len(Members(at)) => tail'[at] = tail[at]
  PROVE  Unpadded'
<1>1. /\ last.struct <= at /\ (last.struct = at => last.member <= next)
      /\ at \in Structs /\ next \in Nat
      /\ last.struct \in Nat /\ last.member \in Nat /\ Structs \subseteq Nat
  <2>1. last \in [struct : Nat, member : Nat]
    BY DEF Inv, TypeOK
  <2> QED
    BY <2>1, RepairsGoOn DEF Structs
<1>2. last'.struct = at /\ last'.member = next /\ Structs' = Structs
      /\ \A i \in Structs : Members(i)' = Members(i)
  BY DEF AnotherPass, Structs, Members
<1>3. ASSUME NEW i \in Structs, NEW k \in DOMAIN Members(i), i > at \/ (i = at /\ k > next)
      PROVE  pads'[i][k] = 0
  <2>1. k \in Nat /\ i \in Nat /\ at \in Nat
    BY <1>1, Parts DEF Inv
  <2>2. i > last.struct \/ (i = last.struct /\ k > last.member)
    BY <1>1, <1>3, <2>1
  <2>3. pads[i][k] = 0
    BY <2>2 DEF Tally, Unpadded
  <2>4. pads'[i][k] = pads[i][k]
    BY <1>1, <1>3
  <2> QED
    BY <2>3, <2>4
<1>4. ASSUME NEW i \in Structs, i > at \/ (i = at /\ next <= Len(Members(i)))
      PROVE  tail'[i] = 0
  <2>1. Len(Members(i)) \in Nat /\ i \in Nat /\ at \in Nat
    BY <1>1, Parts DEF Inv
  <2>2. i > last.struct \/ (i = last.struct /\ last.member <= Len(Members(i)))
    BY <1>1, <1>4, <2>1
  <2>3. tail[i] = 0
    BY <2>2 DEF Tally, Unpadded
  <2>4. tail'[i] = tail[i]
    BY <1>1, <1>4
  <2> QED
    BY <2>3, <2>4
<1> QED
  BY <1>2, <1>3, <1>4 DEF Unpadded

(* The price of a pad: in `spent` what the places before it may have cost.   *)
LEMMA PadIsPaid ==
  ASSUME NEW before \in Nat, NEW place \in Nat, NEW a \in Alignments, RoundUp(before, a) < place,
         NEW spent \in Int, NEW k \in Nat, NEW made \in Nat,
         \/ made <= spent + (k - 1)
         \/ place % a # 0 /\ made <= spent + (k - 1) + (before - place + a)
  PROVE  Paid(made + 1, spent, k, place, before + place - RoundUp(before, a), a)
<1> DEFINE after == before + place - RoundUp(before, a)
<1>1. /\ after \in Nat /\ before < after /\ after <= place /\ place < after + a
      /\ place % a = 0 => place = RoundUp(after, a)
  BY PadGains
<1>2. a \in Nat
  BY DEF Alignments
<1> HIDE DEF after
<1>3. place % a # 0 => made + 1 <= spent + (k - 1) + (after - place + a)
  BY <1>1, <1>2
<1>4. place % a = 0 => made + 1 <= spent + k
  BY <1>1, <1>2
<1> QED
  BY <1>1, <1>3, <1>4 DEF after, Paid

(* A pad before a member is paid.                                            *)
LEMMA PadMemberKeepsTally ==
  ASSUME Inv, Tally, NEW i \in Structs, PadMember(i) PROVE Tally'
<1>1. /\ i = at /\ AtMember(at) /\ defs[at].kind = "struct" /\ Offset < Members(at)[next].offset
      /\ AnotherPass /\ tail' = tail /\ opaque' = opaque /\ defs' = defs /\ aligns' = aligns
      /\ pads' = [pads EXCEPT ![at][next] = @ + Members(at)[next].offset - Offset]
      /\ Differs
  BY PadMemberKeepsInv DEF PadMember, AtMember, Comparing, AnotherPass
<1> PICK s \in Structs : s = at
  BY <1>1
<1> PICK n \in DOMAIN Members(s) : n = next
  BY <1>1, CffiOffset
<1> DEFINE e == EndBefore(s, n)
           p == pads[s][n]
           o == Members(s)[n].offset
           a == AlignOf(Members(s)[n])
           spent == Needed[s - 1] - 1
           after == e + p + o - RoundUp(e + p, a)
<1>2. /\ n \in Nat /\ e \in Nat /\ p \in Nat /\ o \in Nat /\ a \in Alignments /\ e + p \in Nat
      /\ Offset = RoundUp(e + p, a) /\ ~opaque[s] /\ s # 0
      /\ Offset \in Nat
  <2>1. /\ n \in Nat /\ e \in Nat /\ p \in Nat /\ o \in Nat /\ a \in Alignments
        /\ Offset = RoundUp(e + p, a) /\ Offset \in Nat
    BY <1>1, CffiOffset
  <2>2. ~opaque[s] /\ s # 0
    BY <1>1 DEF AtMember, Structs
  <2> QED
    BY <2>1, <2>2
<1>3. /\ pads'[s][n] = p + o - Offset
      /\ \A k \in DOMAIN Members(s) : k # n => pads'[s][k] = pads[s][k]
      /\ \A j \in Structs : j # s => pads'[j] = pads[j]
  <2>1. pads \in [Structs -> Seq(Nat)]
    BY DEF Inv, TypeOK
  <2>2. DOMAIN pads[s] = DOMAIN Members(s)
    BY Parts DEF Inv
  <2> QED
    BY <1>1, <2>1, <2>2
<1>4. Unpadded'
  <2>1. \A k \in DOMAIN Members(at) : k > next => pads'[at][k] = pads[at][k]
    BY <1>2, <1>3
  <2> QED
    BY <1>1, <1>3, <2>1, RepairLeavesUnpadded
<1>5. spent \in Int /\ Made \in Nat
  <2>1. s - 1 \in 0..Len(defs)
    BY Parts DEF Inv, Structs
  <2> QED
    BY <2>1, Budget, MadeIsNat DEF Inv
<1>6. \/ Made <= spent + (n - 1)
      \/ o % a # 0 /\ Made <= spent + (n - 1) + ((e + p) - o + a)
  <2>1. CASE ~(last.struct = at /\ last.member = next)
    BY <1>1, <2>1, PaidBefore
  <2>2. CASE last.struct = at /\ last.member = next
    <3>1. PaidAt(last.struct, last.member)
      BY <1>2, <2>2 DEF Tally
    <3>2. Paid(Made, spent, n, o, e + p, a)
      BY <1>2, <2>2, <3>1 DEF PaidAt
    <3>3. o # RoundUp(e + p, a)
      <4>1. Offset < o
        BY <1>1
      <4> HIDE DEF e, p, o, a
      <4> QED
        BY <1>2, <4>1
    <3> HIDE DEF e, p, o, a, spent
    <3> QED
      <4>1. o % a # 0
        BY <3>2, <3>3 DEF Paid
      <4>2. Made <= spent + (n - 1) + ((e + p) - o + a)
        BY <3>2, <4>1 DEF Paid
      <4> QED
        BY <4>1, <4>2
  <2> QED
    BY <2>1, <2>2
<1>7. Paid(Made + 1, spent, n, o, after, a)
  <2>1. RoundUp(e + p, a) < o
    BY <1>1, <1>2
  <2> DEFINE before == e + p
  <2>2. \/ Made <= spent + (n - 1)
        \/ o % a # 0 /\ Made <= spent + (n - 1) + (before - o + a)
    BY <1>6
  <2>3. before \in Nat /\ RoundUp(before, a) < o
    BY <1>2, <2>1
  <2>4. after = before + o - RoundUp(before, a)
    OBVIOUS
  <2> HIDE DEF e, p, o, a, spent, before, after
  <2>5. Paid(Made + 1, spent, n, o, before + o - RoundUp(before, a), a)
    BY <1>2, <1>5, <2>2, <2>3, PadIsPaid
  <2> QED
    BY <2>4, <2>5
<1>8. /\ Made' = Made + 1 /\ last' = [struct |-> s, member |-> n] /\ Narrow'
      /\ status' = "did not converge" => passes' = limit'
  BY <1>1, RepairCounts
<1>9. /\ Members(s)' = Members(s) /\ AlignOf(Members(s)[n])' = a /\ EndBefore(s, n)' = e
      /\ Needed' = Needed
  <2>1. n \in 1..(Len(Members(s)) + 1)
    BY Parts DEF Inv
  <2>2. AlignOf(Members(s)[n])' = a /\ EndBefore(s, n)' = e /\ Members(s)' = Members(s)
    BY <1>1, <2>1, Locality
  <2> QED
    BY <1>1, <2>2, BudgetStays
<1>10. e + pads'[s][n] = after
  BY <1>2, <1>3
<1>11. Paid(Made', Needed'[s - 1] - 1, n, Members(s)'[n].offset, EndBefore(s, n)' + pads'[s][n],
            AlignOf(Members(s)[n])')
  <2> HIDE DEF e, p, o, a, after
  <2> QED
    BY <1>7, <1>8, <1>9, <1>10, Zenon DEF o
<1>12. ~opaque'[s] /\ n # Len(Members(s)) + 1
  BY <1>1, <1>2, Parts DEF Inv
<1>13. PaidAt(s, n)'
  BY <1>9, <1>11, <1>12 DEF PaidAt
<1> QED
  BY <1>2, <1>4, <1>8, <1>13 DEF Tally

(* A pad at the end of a struct is paid.                                     *)
LEMMA PadTailKeepsTally ==
  ASSUME Inv, Tally, NEW i \in Structs, PadTail(i) PROVE Tally'
<1>1. /\ i = at /\ AtSize(at) /\ Size < defs[at].size /\ AnotherPass
      /\ pads' = pads /\ opaque' = opaque /\ defs' = defs /\ aligns' = aligns
      /\ tail' = [tail EXCEPT ![at] = @ + defs[at].size - Size]
      /\ Differs
  BY PadTailKeepsInv DEF PadTail, AtSize, Comparing, AnotherPass
<1> PICK s \in Structs : s = at
  BY <1>1
<1> PICK n \in Nat : n = Len(Members(s)) + 1
  BY Parts DEF Inv
<1> DEFINE e == EndBefore(s, n)
           p == tail[s]
           o == defs[s].size
           a == align
           spent == Needed[s - 1] - 1
           before == e + p
           after == before + o - RoundUp(before, a)
<1>2. /\ n = next /\ n \in Nat /\ n \notin DOMAIN Members(s) /\ end \in Nat /\ p \in Nat /\ o \in Nat
      /\ a \in Alignments /\ IsAlignment(a, s) /\ Size \in Nat /\ ~opaque[s] /\ s # 0
      /\ \A b \in Alignments : IsAlignment(b, s) => b = a
  <2>1. /\ n = next /\ n \in Nat /\ end \in Nat /\ Size \in Nat
        /\ a \in Alignments /\ IsAlignment(a, s)
    BY <1>1, CffiSize
  <2>2. n \notin DOMAIN Members(s) /\ p \in Nat /\ o \in Nat /\ s # 0
    BY Parts DEF Inv, Structs
  <2>3. \A b \in Alignments : IsAlignment(b, s) => b = a
    BY <2>1, LargestIsUnique DEF Inv
  <2> QED
    BY <1>1, <2>1, <2>2, <2>3 DEF AtSize
<1>3. defs[s].kind = "struct"
  <2>1. ASSUME defs[s].kind = "union" PROVE FALSE
    <3>1. Larger(end, o) \in Nat /\ o <= Larger(end, o)
      BY <1>2 DEF Larger
    <3>2. Size = RoundUp(Larger(end, o), a)
      BY <2>1 DEF Size
    <3> QED
      BY <1>1, <1>2, <3>1, <3>2, RoundingUp
  <2> QED
    BY <2>1, Parts DEF Inv
<1>4. end = e /\ before \in Nat
  BY <1>1, <1>2, <1>3, CffiSize
<1>5. Size = RoundUp(before, a)
  <2>1. ~(Members(at) = <<>> /\ tail[at] = 0)
    BY <1>1, <1>2, <1>3 DEF Size
  <2>2. defs[at].kind # "union"
    BY <1>3
  <2> QED
    BY <1>4, <2>1, <2>2 DEF Size
<1>6. tail'[s] = p + o - Size /\ \A j \in Structs : j # s => tail'[j] = tail[j]
  <2>1. tail \in [Structs -> Nat]
    BY DEF Inv, TypeOK
  <2> QED
    BY <1>1, <2>1
<1>7. Unpadded'
  BY <1>1, <1>2, <1>6, RepairLeavesUnpadded
<1>8. spent \in Int /\ Made \in Nat
  <2>1. s - 1 \in 0..Len(defs)
    BY Parts DEF Inv, Structs
  <2> QED
    BY <2>1, Budget, MadeIsNat DEF Inv
<1>9. \/ Made <= spent + (n - 1)
      \/ o % a # 0 /\ Made <= spent + (n - 1) + (before - o + a)
  <2>1. CASE ~(last.struct = at /\ last.member = next)
    BY <1>1, <1>2, <2>1, PaidBefore
  <2>2. CASE last.struct = at /\ last.member = next
    <3>1. PaidAt(last.struct, last.member)
      BY <1>2, <2>2 DEF Tally
    <3>2. Paid(Made, spent, n, o, before, a)
      BY <1>2, <2>2, <3>1 DEF PaidAt
    <3>3. o # RoundUp(before, a)
      <4>1. Size < o
        BY <1>1
      <4> HIDE DEF e, p, o, a, before
      <4> QED
        BY <1>2, <1>5, <4>1
    <3> HIDE DEF e, p, o, a, spent, before
    <3> QED
      BY <3>2, <3>3 DEF Paid
  <2> QED
    BY <2>1, <2>2
<1>10. Paid(Made + 1, spent, n, o, after, a)
  <2>1. RoundUp(before, a) < o
    BY <1>1, <1>5
  <2> HIDE DEF e, p, o, a, spent, before
  <2> QED
    BY <1>2, <1>4, <1>8, <1>9, <2>1, PadIsPaid
<1>11. /\ Made' = Made + 1 /\ last' = [struct |-> s, member |-> n] /\ Narrow'
       /\ status' = "did not converge" => passes' = limit'
  BY <1>1, <1>2, RepairCounts
<1>12. /\ Members(s)' = Members(s) /\ EndBefore(s, n)' = e /\ Needed' = Needed
       /\ \A b : IsAlignment(b, s)' <=> IsAlignment(b, s)
  <2>1. n \in 1..(Len(Members(s)) + 1)
    BY Parts DEF Inv
  <2> QED
    BY <1>1, <2>1, Locality, BudgetStays
<1>13. e + tail'[s] = after
  <2>1. e \in Nat
    BY <1>2, <1>4
  <2> HIDE DEF e, p, o, a
  <2> QED
    BY <1>2, <1>5, <1>6, <2>1
<1>14. ~opaque'[s] /\ defs'[s].size = o
  BY <1>1, <1>2
<1>15. ASSUME NEW b \in Alignments, IsAlignment(b, s)'
       PROVE  Paid(Made', Needed'[s - 1] - 1, n, defs'[s].size, EndBefore(s, n)' + tail'[s], b)
  <2>1. b = a
    BY <1>2, <1>12, <1>15
  <2> HIDE DEF e, p, o, a, after
  <2> QED
    BY <1>10, <1>11, <1>12, <1>13, <1>14, <2>1, Zenon
<1>16. PaidAt(s, n)'
  BY <1>2, <1>12, <1>14, <1>15 DEF PaidAt
<1> QED
  BY <1>2, <1>7, <1>11, <1>16 DEF Tally

(* A struct that has to be given up has that repair left.                    *)
LEMMA MakeOpaqueKeepsTally ==
  ASSUME Inv, Tally, Differs, MakeOpaque,
         last.struct = at /\ last.member = next =>
           \E place \in Nat, before \in Nat, a \in Alignments :
             /\ a <= Widest /\ place % a # 0
             /\ Paid(Made, Needed[at - 1] - 1, next, place, before, a)
  PROVE  Tally'
<1>1. /\ AnotherPass /\ pads' = pads /\ tail' = tail /\ opaque' = [opaque EXCEPT ![at] = TRUE]
      /\ defs' = defs
  BY DEF MakeOpaque, AnotherPass
<1> PICK s \in Structs : s = at
  BY RepairsGoOn
<1>2. /\ next \in Nat /\ next \in 1..(Len(Members(s)) + 1) /\ Len(Members(s)) \in Nat /\ s # 0
      /\ opaque'[s]
  <2>1. opaque \in [Structs -> BOOLEAN] /\ next \in 1..(Len(Members(s)) + 1)
    BY DEF Inv, TypeOK
  <2> QED
    BY <1>1, <2>1, Parts DEF Inv, Structs
<1>3. Unpadded'
  BY <1>1, RepairLeavesUnpadded
<1>4. /\ Made' = Made + 1 /\ last' = [struct |-> s, member |-> next] /\ Narrow'
      /\ status' = "did not converge" => passes' = limit'
  BY <1>1, RepairCounts
<1> PICK k \in Nat : k = next
  BY <1>2
<1> DEFINE r == Made
           m == Needed[s]
           l == Len(Members(s))
           n == Needed[s - 1]
<1>5. n \in Nat /\ m \in Nat /\ l \in Nat /\ r \in Nat /\ Swallowed \in Nat
      /\ m = n + l + 1 + Swallowed /\ next <= l + 1
  <2>1. s - 1 \in 0..Len(defs) /\ s \in 0..Len(defs)
    BY Parts DEF Inv, Structs
  <2>2. Swallowed \in Nat
    BY WidestOfAll DEF Inv, Swallowed, Alignments
  <2> QED
    BY <1>2, <2>1, <2>2, Budget, MadeIsNat DEF Inv
<1>6. r + 1 <= m - 1
  <2>1. CASE ~(last.struct = at /\ last.member = next)
    <3>1. r <= n - 1 + (next - 1)
      BY <2>1, PaidBefore
    <3> HIDE DEF r, m, l, n
    <3> QED
      BY <1>2, <1>5, <3>1
  <2>2. CASE last.struct = at /\ last.member = next
    <3>1. PICK place \in Nat, before \in Nat, a \in Alignments :
            /\ a <= Widest /\ place % a # 0
            /\ Paid(Made, Needed[s - 1] - 1, next, place, before, a)
      BY <2>2
    <3>2. r <= m - 2
      BY <1>2, <3>1, Affordable
    <3> HIDE DEF r, m, l, n
    <3> QED
      BY <1>5, <3>2
  <2> QED
    BY <2>1, <2>2
<1>7. Made' <= Needed'[s] - 1
  <2>1. Needed' = Needed
    BY <1>1, BudgetStays
  <2> QED
    BY <1>4, <1>6, <2>1
<1>8. PaidAt(s, k)'
  BY <1>2, <1>7 DEF PaidAt
<1> QED
  BY <1>2, <1>3, <1>4, <1>8 DEF Tally

(* A struct given up at a member is paid.                                    *)
LEMMA MemberTooFarKeepsTally ==
  ASSUME Inv, Tally, NEW i \in Structs, MemberTooFar(i) PROVE Tally'
<1>1. i = at /\ AtMember(at) /\ defs[at].kind = "struct" /\ Offset > Members(at)[next].offset
      /\ MakeOpaque /\ at \in Structs /\ Differs
  BY MemberTooFarKeepsInv DEF MemberTooFar, AtMember, Comparing
<1> DEFINE e == EndBefore(at, next)
           a == AlignOf(Members(at)[next])
           o == Members(at)[next].offset
           before == e + pads[at][next]
<1>2. next \in DOMAIN Members(at) /\ e \in Nat /\ a \in Alignments /\ o \in Nat /\ before \in Nat
      /\ Offset = RoundUp(before, a) /\ Offset \in Nat /\ ~opaque[at] /\ at # 0 /\ a <= Widest
  <2>1. next \in DOMAIN Members(at) /\ e \in Nat /\ a \in Alignments /\ o \in Nat /\ before \in Nat
        /\ Offset = RoundUp(before, a) /\ Offset \in Nat
    BY <1>1, CffiOffset
  <2>2. ~opaque[at] /\ at # 0
    BY <1>1 DEF AtMember, Structs
  <2>3. a <= Widest
    BY <1>1, <2>1, NarrowMembers DEF Tally
  <2> QED
    BY <2>1, <2>2, <2>3
<1>3. ASSUME last.struct = at, last.member = next
      PROVE  o % a # 0 /\ Paid(Made, Needed[at - 1] - 1, next, o, before, a)
  <2>1. PaidAt(last.struct, last.member)
    BY <1>2, <1>3 DEF Tally
  <2>2. Paid(Made, Needed[at - 1] - 1, next, o, before, a)
    BY <1>2, <1>3, <2>1 DEF PaidAt
  <2>3. o # RoundUp(before, a)
    <3>1. Offset > o
      BY <1>1
    <3> HIDE DEF e, o, a, before
    <3> QED
      BY <1>2, <3>1
  <2> HIDE DEF e, o, a, before
  <2> QED
    BY <2>2, <2>3 DEF Paid
<1> HIDE DEF e, o, a, before
<1> QED
  BY <1>1, <1>2, <1>3, MakeOpaqueKeepsTally

(* A struct given up at its size is paid.                                    *)
LEMMA SizeTooLargeKeepsTally ==
  ASSUME Inv, Tally, NEW i \in Structs, SizeTooLarge(i) PROVE Tally'
<1>1. i = at /\ AtSize(at) /\ Size > defs[at].size /\ MakeOpaque /\ at \in Structs /\ Differs
  BY SizeTooLargeKeepsInv DEF SizeTooLarge, AtSize, Comparing
<1> DEFINE o == defs[at].size
           before == EndBefore(at, next) + tail[at]
<1>2. /\ next = Len(Members(at)) + 1 /\ o \in Nat /\ align \in Alignments /\ IsAlignment(align, at)
      /\ Size \in Nat /\ ~opaque[at] /\ at # 0 /\ align <= Widest /\ before \in Nat
  <2>1. next = Len(Members(at)) + 1 /\ align \in Alignments /\ IsAlignment(align, at) /\ Size \in Nat
        /\ Len(Members(at)) \in Nat
    BY <1>1, CffiSize
  <2>2. ~opaque[at] /\ at # 0
    BY <1>1 DEF AtSize, Structs
  <2>3. EndBefore(at, next) \in Nat /\ o \in Nat /\ tail[at] \in Nat
    BY <1>1, <2>1, Measures, Parts DEF Inv
  <2>4. align <= Widest
    BY DEF Tally, Narrow
  <2>5. before \in Nat
    BY <2>3
  <2> QED
    BY <2>1, <2>2, <2>3, <2>4, <2>5
<1>3. ASSUME last.struct = at, last.member = next
      PROVE  o % align # 0 /\ Paid(Made, Needed[at - 1] - 1, next, o, before, align)
  <2>1. PaidAt(last.struct, last.member)
    BY <1>2, <1>3 DEF Tally
  <2>2. Paid(Made, Needed[at - 1] - 1, next, o, before, align)
    BY <1>2, <1>3, <2>1 DEF PaidAt
  <2>3. defs[at].kind = "struct"
    BY <1>1, <1>2, <1>3 DEF Inv, Settled
  <2>4. end = EndBefore(at, next)
    BY <1>1, <1>2, <2>3, CffiSize
  <2>5. Size = RoundUp(before, align)
    BY <1>1, <1>2, <2>3, <2>4 DEF Size
  <2>6. o # RoundUp(before, align)
    BY <1>1, <1>2, <2>5
  <2> HIDE DEF o, before
  <2> QED
    BY <2>2, <2>6 DEF Paid
<1> HIDE DEF o, before
<1> QED
  BY <1>1, <1>2, <1>3, MakeOpaqueKeepsTally

(* Going on to the next member costs nothing.                                *)
LEMMA NextMemberKeepsTally ==
  ASSUME Inv, Tally, AtMember(at), NEW e, NextMember(e) PROVE Tally'
<1>1. /\ UNCHANGED <<defs, limit, passes, pads, tail, opaque, last, aligns>>
      /\ status = "verifying" /\ status' = "verifying"
      /\ align' = Larger(align, AlignOf(Members(at)[next]))
  BY DEF NextMember, AtMember, Comparing, repairs
<1>2. at \in Structs /\ next \in DOMAIN Members(at)
  <2>1. next \in 1..(Len(Members(at)) + 1) /\ next <= Len(Members(at)) /\ at \in Structs
    BY DEF AtMember, Inv, TypeOK
  <2> QED
    BY <2>1, Parts DEF Inv
<1>3. AlignOf(Members(at)[next]) <= Widest
  BY <1>2, NarrowMembers DEF Tally
<1>4. align' <= Widest
  BY <1>1, <1>3 DEF Larger, Tally, Narrow
<1>5. \A j \in Structs : aligns'[j] <= Widest
  BY <1>1 DEF Tally, Narrow
<1> QED
  BY <1>1, <1>4, <1>5, QuietKeepsTally

(* Going on to the next struct costs nothing.                                *)
LEMMA LeaveKeepsTally ==
  ASSUME Inv, Tally, status = "verifying", NEW a \in Alignments, Leave(a), a <= Widest,
         at < last.struct => a = aligns[at]
  PROVE  Tally'
<1>1. /\ UNCHANGED <<defs, limit, passes, pads, tail, opaque, last>>
      /\ status' \in {"verifying", "exact"} /\ align' = 1
      /\ aligns' = [aligns EXCEPT ![at] = a]
  BY DEF Leave, repairs
<1>2. aligns \in [Structs -> Alignments] /\ at \in Structs /\ Structs \subseteq Nat
      /\ last.struct \in Nat
  <2>1. last \in [struct : Nat, member : Nat]
    BY DEF Inv, TypeOK
  <2> QED
    BY <2>1 DEF Inv, TypeOK, Structs
<1>3. 1 <= Widest
  BY WidestOfAll DEF Inv, Alignments
<1>4. \A j \in Structs : aligns'[j] <= Widest
  BY <1>1, <1>2 DEF Tally, Narrow
<1>5. ASSUME NEW j \in Structs, j < last.struct PROVE aligns'[j] = aligns[j]
  BY <1>1, <1>2, <1>5
<1> QED
  BY <1>1, <1>3, <1>4, <1>5, QuietKeepsTally

(* Neither does an exact size.                                               *)
LEMMA SizeExactKeepsTally ==
  ASSUME Inv, Tally, NEW i \in Structs, SizeExact(i) PROVE Tally'
<1>1. AtSize(at) /\ Leave(align) /\ status = "verifying" /\ at \in Structs /\ ~opaque[at]
  BY DEF SizeExact, AtSize, Comparing
<1>2. ASSUME at < last.struct PROVE align = aligns[at]
  BY <1>1, <1>2, SettledIsExact DEF Inv, Settled
<1>3. align \in Alignments /\ align <= Widest
  BY DEF Inv, TypeOK, Tally, Narrow
<1> QED
  BY <1>1, <1>2, <1>3, LeaveKeepsTally

(* Nor a struct that was given up before.                                    *)
LEMMA OpaqueExactKeepsTally ==
  ASSUME Inv, Tally, NEW i \in Structs, OpaqueExact(i) PROVE Tally'
<1>1. opaque[at] /\ Leave(1) /\ status = "verifying" /\ at \in Structs
  BY DEF OpaqueExact, Comparing
<1>2. ASSUME at < last.struct PROVE 1 = aligns[at]
  BY <1>1, <1>2 DEF Inv, Settled, Exact
<1>3. 1 \in Alignments /\ 1 <= Widest
  BY WidestOfAll DEF Inv, Alignments
<1> QED
  BY <1>1, <1>2, <1>3, LeaveKeepsTally

(* Nor a step of nothing.                                                    *)
LEMMA StutterKeepsTally ==
  ASSUME Inv, Tally, UNCHANGED vars PROVE Tally'
<1>1. /\ UNCHANGED <<defs, limit, passes, pads, tail, opaque, last, status, align, aligns>>
  BY DEF vars
<1>2. Needed' = Needed /\ Widest' = Widest /\ Structs' = Structs /\ Made' = Made
      /\ \A i : Members(i)' = Members(i)
  BY <1>1, BudgetStays DEF Made, Members
<1>3. Unpadded' /\ Narrow'
  BY <1>1, <1>2 DEF Tally, Unpadded, Narrow
<1>4. ASSUME last.struct # 0 PROVE PaidAt(last.struct, last.member)'
  BY <1>1, <1>2, <1>4, Zenon
     DEF Tally, PaidAt, IsAlignment, AlignOf, EndBefore, Width
<1> QED
  BY <1>1, <1>2, <1>3, <1>4 DEF Tally

(* Nothing is owed at the start.                                             *)
LEMMA FreshIsTally == ASSUME Inv, Fresh PROVE Tally
<1>1. Widest \in Nat /\ 1 <= Widest
  BY WidestOfAll DEF Inv, Alignments
<1>2. Unpadded
  BY DEF Fresh, Unpadded
<1> QED
  BY <1>1, <1>2 DEF Fresh, Tally, Narrow, Made

(* Every step keeps the tally.                                               *)
LEMMA NextKeepsTally == ASSUME Inv, Tally, [Next]_vars PROVE Tally'
<1>1. ASSUME NEW i \in Structs, MemberExact(i) \/ UnionMember(i) PROVE Tally'
  BY <1>1, NextMemberKeepsTally DEF MemberExact, UnionMember, AtMember, Comparing
<1> QED
  BY <1>1, PadMemberKeepsTally, MemberTooFarKeepsTally, SizeExactKeepsTally, PadTailKeepsTally,
     SizeTooLargeKeepsTally, OpaqueExactKeepsTally, StutterKeepsTally DEF Next, Done

(* A tally that used up the limit used up less than the budget.              *)
LEMMA TallyConverges == ASSUME Inv, Tally PROVE ConvergesWithinBound
<1> SUFFICES ASSUME Made = limit PROVE limit < Needed[Len(defs)]
  BY Zenon DEF ConvergesWithinBound, Tally, Made
<1>1. Made = limit /\ Made \in Nat
  BY MadeIsNat
<1>2. PICK n : n = Len(defs)
  OBVIOUS
<1>3. n \in Nat /\ n # 0
  BY <1>2, Parts DEF Inv
<1>4. n \in 0..n /\ 0 \in 0..n /\ 0 <= n
  BY <1>3
<1>5. /\ Structs = 1..n /\ Needed[0] = 1
      /\ \A i \in 0..n : Needed[i] \in Nat
      /\ \A i, j \in 0..n : i <= j => Needed[i] <= Needed[j]
  BY <1>2, Budget, BudgetGrows DEF Inv, Structs
<1>6. CASE last.struct = 0
  <2>1. Made = 0
    BY <1>6 DEF Tally
  <2>2. PICK y \in Nat : y = Needed[n] /\ 1 <= y
    BY <1>4, <1>5
  <2> QED
    BY <1>1, <1>2, <2>1, <2>2
<1>7. CASE last.struct # 0
  <2>1. PICK s \in 1..n : Made <= Needed[s] - 1
    BY <1>5, <1>7, WithinStruct
  <2>2. s \in 0..n /\ s <= n
    BY <1>3
  <2>3. PICK x \in Nat, y \in Nat, r \in Nat :
          x = Needed[s] /\ y = Needed[n] /\ r = Made /\ x <= y /\ r <= x - 1
    BY <1>1, <1>4, <1>5, <2>1, <2>2
  <2>4. r < y
    BY <2>3
  <2> QED
    BY <1>1, <1>2, <2>3, <2>4
<1> QED
  BY <1>6, <1>7

(* A limit that reaches the sum of what the structs may cost is enough: the  *)
(* script never ends in SystemExit("layout repair did not converge").        *)
THEOREM RepairsConverge == Spec => []ConvergesWithinBound
<1>1. Init => Inv /\ Tally
  BY FreshIsInv, FreshIsTally, InputsAssumption DEF Init
<1>2. Inv /\ Tally /\ [Next]_vars => Tally'
  BY NextKeepsTally
<1>3. Inv /\ Tally => ConvergesWithinBound
  BY TallyConverges
<1> QED
  BY <1>1, <1>2, <1>3, Invariance, PTL DEF Spec
=============================================================================
