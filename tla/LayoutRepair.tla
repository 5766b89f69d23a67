---------------------------- MODULE LayoutRepair ----------------------------
(* The repair loop of scripts/penguin-env-cffi-gen.py.  The extractor hands  *)
(* over struct definitions whose offsets and sizes come from DWARF and from  *)
(* which members may be missing.  verify_and_repair prints them as C, lets   *)
(* cffi lay the C out, compares, repairs the first mismatch by padding or by *)
(* giving the struct up as an opaque byte array, and starts again.           *)
(*                                                                          *)
(* cffi lays a struct out one member after the other, so its answers are     *)
(* computed along the comparison: `end` and `align` are the layout of the    *)
(* members of defs[at] compared so far.  A struct is left behind only when   *)
(* its size is the DWARF size, so for a member of struct type that is the    *)
(* size cffi uses; `aligns` is the alignment cffi gave each struct.          *)
EXTENDS Integers, Sequences

CONSTANTS
  Inputs,   \* the definitions the extractor may hand over
  Limits    \* the values of MAX_REPAIR_PASSES to look at

VARIABLES
  defs,     \* self.order: kind, DWARF size, members with type and DWARF offset
  limit,    \* MAX_REPAIR_PASSES
  pads,     \* pads[i][k]: bytes inserted before member k of struct i
  tail,     \* trailing_pad
  opaque,   \* the structs given up
  passes,   \* cdefs parsed so far
  at, next, end, align, aligns,   \* the comparison of this pass
  last,     \* history: where the last repair was made
  status

vars == <<defs, limit, pads, tail, opaque, passes, at, next, end, align, aligns,
          last, status>>
comparison == <<at, next, end, align, aligns>>
repairs == <<pads, tail, opaque>>

(* The sizes and alignments of C types that have a name in BASE_TYPES.       *)
Alignments == {1, 2, 4, 8}

(* What the extractor guarantees: sizes are positive, a member that is a     *)
(* struct refers to an earlier definition (EnvTypes!DefinedBeforeUse), and    *)
(* those of a union are at its start (EnvTypes!KeepsWhatItCan).              *)
Member == [size : Nat \ {0}, align : Alignments, struct : Nat, count : Nat \ {0}, offset : Nat]
Definition == [kind : {"struct", "union"}, size : Nat \ {0}, members : Seq(Member)]

Acceptable(d) ==
  /\ d \in Seq(Definition) \ {<<>>}
  /\ \A i \in DOMAIN d : \A k \in DOMAIN d[i].members :
       /\ d[i].members[k].struct < i
       /\ d[i].kind = "union" => d[i].members[k].offset = 0

ASSUME InputsAssumption == \A d \in Inputs : Acceptable(d)
ASSUME LimitsAssumption == Limits \subseteq Nat \ {0}

RoundUp(n, a) == IF n % a = 0 THEN n ELSE n + (a - (n % a))
Larger(m, n) == IF m >= n THEN m ELSE n

Structs == 1..Len(defs)
Members(i) == defs[i].members
Width(m) == m.count * (IF m.struct = 0 THEN m.size ELSE defs[m.struct].size)
AlignOf(m) == IF m.struct = 0 THEN m.align ELSE aligns[m.struct]
(* Where the members before member k of struct i end in the real type.       *)
EndBefore(i, k) ==
  IF k = 1 THEN 0 ELSE Members(i)[k - 1].offset + Width(Members(i)[k - 1])

Fresh ==
  /\ limit \in Limits
  /\ pads = [i \in Structs |-> [k \in DOMAIN Members(i) |-> 0]]
  /\ tail = [i \in Structs |-> 0]
  /\ opaque = [i \in Structs |-> FALSE]
  /\ aligns = [i \in Structs |-> 1]
  /\ passes = 1 /\ at = 1 /\ next = 1 /\ end = 0 /\ align = 1
  /\ last = [struct |-> 0, member |-> 0]
  /\ status = "verifying"
Init == defs \in Inputs /\ Fresh

(* The next iteration of the loop, or SystemExit after the last one.         *)
AnotherPass ==
  /\ at' = 1 /\ next' = 1 /\ end' = 0 /\ align' = 1
  /\ last' = [struct |-> at, member |-> next]
  /\ IF passes = limit
     THEN status' = "did not converge" /\ UNCHANGED passes
     ELSE passes' = passes + 1 /\ UNCHANGED status
  /\ UNCHANGED <<defs, limit, aligns>>

MakeOpaque ==
  /\ opaque' = [opaque EXCEPT ![at] = TRUE]
  /\ AnotherPass
  /\ UNCHANGED <<pads, tail>>

(* Mutant: compares again when nothing is left to compare.                   *)
Leave_NeverReturns(a) ==
  /\ aligns' = [aligns EXCEPT ![at] = a]
  /\ next' = 1 /\ end' = 0 /\ align' = 1
  /\ at' = (at % Len(defs)) + 1
  /\ UNCHANGED <<defs, limit, passes, last, repairs, status>>

(* The struct is exact: go on with the next one, or return.                  *)
Leave(a) ==
  /\ aligns' = [aligns EXCEPT ![at] = a]
  /\ next' = 1 /\ end' = 0 /\ align' = 1
  /\ IF at = Len(defs)
     THEN status' = "exact" /\ UNCHANGED at
     ELSE at' = at + 1 /\ UNCHANGED status
  /\ UNCHANGED <<defs, limit, passes, last, repairs>>

Comparing(i) == status = "verifying" /\ at = i
AtMember(i) == Comparing(i) /\ ~opaque[i] /\ next <= Len(Members(i))
AtSize(i) == Comparing(i) /\ ~opaque[i] /\ next > Len(Members(i))

(* Offset that cffi gives the member being compared.                         *)
Offset == RoundUp(end + pads[at][next], AlignOf(Members(at)[next]))

(* ffi.sizeof: a struct without members and padding is printed as an array   *)
(* of its DWARF size; every union ends in such an array.                     *)
Size ==
  IF defs[at].kind = "struct" /\ Members(at) = <<>> /\ tail[at] = 0
    THEN defs[at].size
  ELSE IF defs[at].kind = "union" THEN RoundUp(Larger(end, defs[at].size), align)
  ELSE RoundUp(end + tail[at], align)

NextMember(e) ==
  /\ next' = next + 1
  /\ end' = e
  /\ align' = Larger(align, AlignOf(Members(at)[next]))
  /\ UNCHANGED <<defs, limit, repairs, passes, at, aligns, last, status>>

(* Mutant: a gap before the member is not a mismatch.                        *)
MemberExact_GapAllowed(i) ==
  /\ AtMember(i) /\ defs[i].kind = "struct"
  /\ Offset <= Members(i)[next].offset
  /\ NextMember(Offset + Width(Members(i)[next]))

MemberExact(i) ==
  /\ AtMember(i) /\ defs[i].kind = "struct"
  /\ Offset = Members(i)[next].offset
  /\ NextMember(Offset + Width(Members(i)[next]))

(* Mutant: one byte at a time.                                               *)
PadMember_ByteByByte(i) ==
  /\ AtMember(i) /\ defs[i].kind = "struct"
  /\ Offset < Members(i)[next].offset
  /\ pads' = [pads EXCEPT ![i][next] = @ + 1]
  /\ AnotherPass
  /\ UNCHANGED <<tail, opaque>>

(* Mutant: the pad goes to the head of the struct.                           *)
PadMember_AtHead(i) ==
  /\ AtMember(i) /\ defs[i].kind = "struct"
  /\ Offset < Members(i)[next].offset
  /\ pads' = [pads EXCEPT ![i][1] = @ + Members(i)[next].offset - Offset]
  /\ AnotherPass
  /\ UNCHANGED <<tail, opaque>>

PadMember(i) ==
  /\ AtMember(i) /\ defs[i].kind = "struct"
  /\ Offset < Members(i)[next].offset
  /\ pads' = [pads EXCEPT ![i][next] = @ + Members(i)[next].offset - Offset]
  /\ AnotherPass
  /\ UNCHANGED <<tail, opaque>>

(* Mutant: any mismatch costs the struct.                                    *)
MemberTooFar_AnyMismatch(i) ==
  /\ AtMember(i) /\ defs[i].kind = "struct"
  /\ Offset # Members(i)[next].offset
  /\ MakeOpaque

MemberTooFar(i) ==
  /\ AtMember(i) /\ defs[i].kind = "struct"
  /\ Offset > Members(i)[next].offset
  /\ MakeOpaque

(* The members of a union are not compared, but cffi lays them out.          *)
UnionMember(i) ==
  /\ AtMember(i) /\ defs[i].kind = "union"
  /\ NextMember(Larger(end, Width(Members(i)[next])))

SizeExact(i) ==
  /\ AtSize(i)
  /\ Size = defs[i].size
  /\ Leave(align)

PadTail(i) ==
  /\ AtSize(i)
  /\ Size < defs[i].size
  /\ tail' = [tail EXCEPT ![i] = @ + defs[i].size - Size]
  /\ AnotherPass
  /\ UNCHANGED <<pads, opaque>>

SizeTooLarge(i) ==
  /\ AtSize(i)
  /\ Size > defs[i].size
  /\ MakeOpaque

(* An opaque struct is printed as an array of bytes of its DWARF size.       *)
OpaqueExact(i) == Comparing(i) /\ opaque[i] /\ Leave(1)

Done == status # "verifying" /\ UNCHANGED vars

Next ==
  \/ \E i \in Structs :
       \/ MemberExact(i) \/ PadMember(i) \/ MemberTooFar(i) \/ UnionMember(i)
       \/ SizeExact(i) \/ PadTail(i) \/ SizeTooLarge(i) \/ OpaqueExact(i)
  \/ Done

Spec == Init /\ [][Next]_vars
-----------------------------------------------------------------------------
TypeOK ==
  /\ limit \in Limits
  /\ pads \in [Structs -> Seq(Nat)]
  /\ \A i \in Structs : Len(pads[i]) = Len(Members(i))
  /\ tail \in [Structs -> Nat]
  /\ opaque \in [Structs -> BOOLEAN]
  /\ aligns \in [Structs -> Alignments]
  /\ passes \in 1..limit
  /\ at \in Structs /\ next \in 1..(Len(Members(at)) + 1)
  /\ end \in Nat /\ align \in Alignments
  /\ last \in [struct : Nat, member : Nat]
  /\ status \in {"verifying", "exact", "did not converge"}

(* The alignment cffi gives struct i: the largest of its members'.           *)
IsAlignment(a, i) ==
  /\ \A k \in DOMAIN Members(i) : AlignOf(Members(i)[k]) <= a
  /\ a = 1 \/ \E k \in DOMAIN Members(i) : a = AlignOf(Members(i)[k])

(* The padded C struct has every member and its end where DWARF has them:    *)
(* the DWARF offsets solve the equations of C layout.                        *)
Placed(i, k) ==
  Members(i)[k].offset = RoundUp(EndBefore(i, k) + pads[i][k], AlignOf(Members(i)[k]))
EndPlaced(i) ==
  \/ Members(i) = <<>> /\ tail[i] = 0
  \/ defs[i].size = RoundUp(EndBefore(i, Len(Members(i)) + 1) + tail[i], aligns[i])
Exact(i) ==
  IF opaque[i] THEN aligns[i] = 1
  ELSE /\ IsAlignment(aligns[i], i)
       /\ IF defs[i].kind = "union"
          THEN /\ \A k \in DOMAIN Members(i) : Width(Members(i)[k]) <= defs[i].size
               /\ defs[i].size % aligns[i] = 0
          ELSE (\A k \in DOMAIN Members(i) : Placed(i, k)) /\ EndPlaced(i)

(* No padding can make struct i exact: a member or the end is not aligned as *)
(* its type needs, or lies inside what precedes it.                          *)
Unrepairable(i) ==
  \/ \E a \in Alignments : IsAlignment(a, i) /\ defs[i].size % a # 0
  \/ /\ defs[i].kind = "struct"
     /\ \/ \E k \in DOMAIN Members(i) :
             \/ Members(i)[k].offset % AlignOf(Members(i)[k]) # 0
             \/ Members(i)[k].offset < EndBefore(i, k)
        \/ defs[i].size < EndBefore(i, Len(Members(i)) + 1)
  \/ /\ defs[i].kind = "union"
     /\ \E k \in DOMAIN Members(i) : defs[i].size < Width(Members(i)[k])

(* Reference: what is printed of struct i, laid out from scratch by the rule *)
(* of C, with `lay` for the structs before it.                               *)
LaidWidth(lay, m) == m.count * (IF m.struct = 0 THEN m.size ELSE lay[m.struct].size)
LaidAlign(lay, m) == IF m.struct = 0 THEN m.align ELSE lay[m.struct].align
LaidOffsets(lay, i) ==
  LET ms == Members(i)
      off[k \in DOMAIN ms] ==
        RoundUp((IF k = 1 THEN 0 ELSE off[k - 1] + LaidWidth(lay, ms[k - 1])) + pads[i][k],
                LaidAlign(lay, ms[k]))
  IN off
StructLayout(lay, i) ==
  LET ms == Members(i)
      off == LaidOffsets(lay, i)
      used == IF ms = <<>> THEN 0 ELSE off[Len(ms)] + LaidWidth(lay, ms[Len(ms)])
      big == CHOOSE a \in Alignments :
               /\ \A k \in DOMAIN ms : LaidAlign(lay, ms[k]) <= a
               /\ a = 1 \/ \E k \in DOMAIN ms : LaidAlign(lay, ms[k]) = a
      most == CHOOSE n \in {LaidWidth(lay, ms[k]) : k \in DOMAIN ms} \cup {defs[i].size} :
                defs[i].size <= n /\ \A k \in DOMAIN ms : LaidWidth(lay, ms[k]) <= n
  IN IF opaque[i] THEN [size |-> defs[i].size, align |-> 1, offsets |-> <<>>]
     ELSE IF defs[i].kind = "union"
       THEN [size |-> RoundUp(most, big), align |-> big, offsets |-> [k \in DOMAIN ms |-> 0]]
     ELSE [size |-> IF ms = <<>> /\ tail[i] = 0 THEN defs[i].size ELSE RoundUp(used + tail[i], big),
           align |-> big, offsets |-> off]
CLayout == LET lay[i \in Structs] == StructLayout(lay, i) IN lay

(* The header that is written, laid out from scratch, is the DWARF layout of *)
(* every struct it does not hide.                                            *)
HeaderIsExact ==
  status = "exact" =>
    LET lay == CLayout
    IN \A i \in Structs :
         /\ lay[i].size = defs[i].size
         /\ ~opaque[i] => lay[i].offsets = [k \in DOMAIN Members(i) |-> Members(i)[k].offset]

(* A struct loses its members only if no padding could have saved them: not  *)
(* because of an earlier repair of it, or of a struct inside it.             *)
OpaqueOnlyIfUnrepairable == \A i \in Structs : opaque[i] => Unrepairable(i)

(* A member that padding can place costs one pass, and so does the end of    *)
(* the struct; one that it cannot place is padded until the rounding no      *)
(* longer swallows the pad, and then costs its struct.  A limit that reaches *)
(* the sum never ends in SystemExit("layout repair did not converge").       *)
Widest == CHOOSE a \in Alignments :
            /\ \A i \in Structs : \A k \in DOMAIN Members(i) : Members(i)[k].align <= a
            /\ a = 1 \/ \E i \in Structs : \E k \in DOMAIN Members(i) : Members(i)[k].align = a
Needed[i \in 0..Len(defs)] ==
  IF i = 0 THEN 1
  ELSE Needed[i - 1] + Len(Members(i)) + 1 + (IF Widest = 1 THEN 0 ELSE Widest)
ConvergesWithinBound == status = "did not converge" => limit < Needed[Len(defs)]

(* No repair undoes what an earlier pass had settled: the place of the first *)
(* mismatch never moves back, although a repair may move every later member  *)
(* and a struct that is given up changes the alignment of those around it.   *)
After(p, q) == p.struct > q.struct \/ (p.struct = q.struct /\ p.member > q.member)
RepairsMoveForward == [][~After(last, last')]_vars
=============================================================================
