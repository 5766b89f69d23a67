------------------------ MODULE SeriesWorkflowProofs ------------------------
(* What CI accepts, what its advice to developers does, and what an export   *)
(* that finishes has written, for any patches and any history of them.       *)
EXTENDS SeriesWorkflow, SequenceTheorems, WellFoundedInduction, TLAPS

(* Induction on the natural numbers, for a property given as a set.          *)
LEMMA NatSetInduction ==
  ASSUME NEW S, 0 \in S, \A n \in Nat : n \in S => n + 1 \in S
  PROVE  Nat \subseteq S
<1> DEFINE R == {p \in Nat \X Nat : p[1] < p[2]}
<1>1. R = OpToRel(<, Nat)
  BY DEF OpToRel
<1>2. IsWellFoundedOn(R, Nat)
  BY <1>1, NatLessThanWellFounded
<1> SUFFICES ASSUME Nat \ S # {} PROVE FALSE
  OBVIOUS
<1>3. PICK m \in Nat \ S : \A k \in Nat \ S : <<k, m>> \notin R
  BY <1>2, WFMin
<1>4. \A k \in Nat \ S : ~(k < m)
  BY <1>3
<1>5. m - 1 \in Nat /\ m - 1 \in S
  BY <1>4
<1> QED
  BY <1>5

(* The loop of the export has a result for every number of commits.          *)
LEMMA ExportLoop ==
  ASSUME NEW commits \in Seq(Commit)
  PROVE  /\ ExportedUpTo(commits)[0] = <<>>
         /\ \A n \in 1..Len(commits) :
              ExportedUpTo(commits)[n] =
                IF commits[n] \in Vendored THEN ExportedUpTo(commits)[n - 1]
                ELSE Append(ExportedUpTo(commits)[n - 1], FormatPatch(commits)[n])
<1> DEFINE Step(f, n) == IF n = 0 THEN <<>>
                         ELSE IF commits[n] \in Vendored THEN f[n - 1]
                         ELSE Append(f[n - 1], FormatPatch(commits)[n])
           IsLoop(f, N) == f = [n \in 0..N |-> Step(f, n)]
           S == {N \in Nat : \E f : IsLoop(f, N)}
<1>1. 0 \in S
  <2> DEFINE g == [n \in 0..0 |-> <<>>]
  <2>1. IsLoop(g, 0)
    OBVIOUS
  <2> QED
    BY <2>1
<1>2. ASSUME NEW N \in Nat, N \in S PROVE N + 1 \in S
  <2>1. PICK f : IsLoop(f, N)
    BY <1>2
  <2> DEFINE last == IF commits[N + 1] \in Vendored THEN f[N]
                     ELSE Append(f[N], FormatPatch(commits)[N + 1])
             g == [n \in 0..(N + 1) |-> IF n = N + 1 THEN last ELSE f[n]]
  <2>2. ASSUME NEW n \in 0..(N + 1)
        PROVE  g[n] = Step(g, n)
    <3>1. CASE n = N + 1
      <4>1. g[n] = last /\ g[n - 1] = f[N] /\ n # 0
        BY <3>1
      <4> QED
        BY <4>1, <3>1
    <3>2. CASE n \in 1..N
      <4>1. g[n] = f[n] /\ g[n - 1] = f[n - 1] /\ n # 0 /\ n \in 0..N
        BY <3>2
      <4> QED
        BY <4>1, <2>1
    <3>3. CASE n = 0
      BY <3>3, <2>1
    <3> QED
      BY <3>1, <3>2, <3>3
  <2>3. IsLoop(g, N + 1)
    BY <2>2
  <2>4. \E h : IsLoop(h, N + 1)
    <3> HIDE DEF IsLoop, g
    <3> QED
      BY <2>3
  <2> QED
    <3> HIDE DEF IsLoop
    <3> QED
      BY <2>4
<1>3. \E f : IsLoop(f, Len(commits))
  <2> HIDE DEF IsLoop
  <2>1. Nat \subseteq S
    <3> HIDE DEF S
    <3> QED
      BY <1>1, <1>2, NatSetInduction
  <2> QED
    BY <2>1
<1>4. ExportedUpTo(commits) = CHOOSE f : IsLoop(f, Len(commits))
  BY DEF ExportedUpTo
<1>5. ASSUME NEW f, IsLoop(f, Len(commits))
      PROVE  \A n \in 0..Len(commits) : f[n] = Step(f, n)
  <2> HIDE DEF Step
  <2> QED
    BY <1>5
<1>6. IsLoop(ExportedUpTo(commits), Len(commits))
  <2> HIDE DEF IsLoop
  <2> QED
    BY <1>3, <1>4
<1>7. \A n \in 0..Len(commits) : ExportedUpTo(commits)[n] = Step(ExportedUpTo(commits), n)
  <2> HIDE DEF IsLoop, Step
  <2> QED
    BY <1>5, <1>6
<1>8. ExportedUpTo(commits)[0] = <<>>
  BY <1>7
<1> QED
  BY <1>7, <1>8

(* What an export leaves in the series file is a sequence of patch files.    *)
LEMMA FormatPatchType ==
  ASSUME NEW commits \in Seq(Commit)
  PROVE  /\ FormatPatch(commits) \in Seq(File)
         /\ Len(FormatPatch(commits)) = Len(commits)
         /\ \A i \in 1..Len(commits) :
              FormatPatch(commits)[i] = [num |-> i, of |-> commits[i]]
<1>1. \A i \in 1..Len(commits) : [num |-> i, of |-> commits[i]] \in File
  BY DEF File
<1> QED
  BY <1>1 DEF FormatPatch

(* The round trip keeps the patches of a series and numbers them from 1.     *)
LEMMA RoundTripOf ==
  ASSUME NEW r \in Repo, \A i \in DOMAIN r.series : r.series[i].of \in Exportable
  PROVE  RoundTrip(r) = [i \in 1..Len(r.series) |-> [num |-> i, of |-> r.series[i].of]]
<1> DEFINE c == Imported(r)
           n == Len(r.series)
           Kept(k) == [i \in 1..k |-> [num |-> i, of |-> r.series[i].of]]
           S == {k \in Nat : k <= n => ExportedUpTo(c)[k] = Kept(k)}
<1>1. /\ r.series \in Seq(File) /\ n \in Nat /\ DOMAIN r.series = 1..n
  BY DEF Repo
<1>2. /\ c \in Seq(Commit) /\ Len(c) = n + 1 /\ c[n + 1] = Overlay
      /\ \A i \in 1..n : c[i] = r.series[i].of
  <2> DEFINE patches == [i \in DOMAIN r.series |-> r.series[i].of]
  <2>1. /\ patches \in Seq(Commit) /\ Len(patches) = n
        /\ \A i \in 1..n : patches[i] = r.series[i].of
    BY <1>1 DEF Commit, Exportable
  <2>2. <<Overlay>> \in Seq(Commit) /\ Len(<<Overlay>>) = 1 /\ <<Overlay>>[1] = Overlay
    BY DEF Commit
  <2>3. c = patches \o <<Overlay>>
    BY DEF Imported
  <2> HIDE DEF patches, c
  <2> QED
    BY <1>1, <2>1, <2>2, <2>3
<1>3. \A k \in 1..(n + 1) : FormatPatch(c)[k] = [num |-> k, of |-> c[k]]
  BY <1>2, FormatPatchType
<1>4. /\ ExportedUpTo(c)[0] = <<>>
      /\ \A k \in 1..(n + 1) :
           ExportedUpTo(c)[k] = IF c[k] \in Vendored THEN ExportedUpTo(c)[k - 1]
                                ELSE Append(ExportedUpTo(c)[k - 1], FormatPatch(c)[k])
  BY <1>2, ExportLoop
<1> HIDE DEF c
<1>5. 0 \in S
  BY <1>4
<1>6. ASSUME NEW k \in Nat, k \in S PROVE k + 1 \in S
  <2> SUFFICES ASSUME k + 1 <= n PROVE ExportedUpTo(c)[k + 1] = Kept(k + 1)
    OBVIOUS
  <2>1. k + 1 \in 1..n /\ k + 1 \in 1..(n + 1) /\ (k + 1) - 1 = k
    BY <1>1
  <2>2. c[k + 1] = r.series[k + 1].of /\ c[k + 1] \notin Vendored
    BY <2>1, <1>1, <1>2, OverlayAssumption DEF Exportable
  <2>3. ExportedUpTo(c)[k] = Kept(k)
    BY <1>6, <1>1
  <2>4. ExportedUpTo(c)[k + 1] = Append(Kept(k), [num |-> k + 1, of |-> r.series[k + 1].of])
    BY <2>1, <2>2, <2>3, <1>3, <1>4
  <2>5. Append(Kept(k), [num |-> k + 1, of |-> r.series[k + 1].of]) = Kept(k + 1)
    OBVIOUS
  <2> QED
    BY <2>4, <2>5
<1>7. n \in S
  <2> HIDE DEF S
  <2> QED
    BY <1>1, <1>5, <1>6, NatSetInduction
<1>8. ExportedUpTo(c)[n] = Kept(n)
  <2> HIDE DEF n, Kept
  <2> QED
    BY <1>1, <1>7
<1>9. ExportedUpTo(c)[n + 1] = ExportedUpTo(c)[n]
  <2>1. n + 1 \in 1..(n + 1) /\ (n + 1) - 1 = n
    BY <1>1
  <2> QED
    BY <2>1, <1>2, <1>4, OverlayAssumption
<1> QED
  BY <1>2, <1>8, <1>9 DEF RoundTrip, Exported, c

-----------------------------------------------------------------------------
(* The export in progress: while it copies, the series file holds what the   *)
(* commits looked at so far leave there, the directory holds the patches the *)
(* series names and the one copied last, and the rest is still staged.       *)
Done == Len(source) - Len(stage)

Staged ==
  /\ Len(stage) <= Len(source)
  /\ \A i \in 1..Len(stage) : stage[i] = FormatPatch(source)[Done + i]

ExportInv ==
  /\ pc = "idle" => stage = <<>>
  /\ pc \in {"remove", "truncate"} => stage = FormatPatch(source)
  /\ pc = "truncate" => work.files = {}
  /\ pc \in {"copy", "append"} => Staged /\ work.series = ExportedUpTo(source)[Done]
  /\ pc = "copy" => work.files = ToSet(work.series)
  /\ pc = "append" => /\ stage # <<>> /\ Head(stage).of \notin Vendored
                      /\ work.files = ToSet(work.series) \cup {Head(stage)}

IInv == TypeOK /\ ExportInv

LEMMA InitInv == Init => IInv
<1> SUFFICES ASSUME Init PROVE IInv
  OBVIOUS
<1>1. PICK p \in Exportable \ EditsOverlay :
        main = [files |-> {[num |-> 1, of |-> p]},
                series |-> <<[num |-> 1, of |-> p]>>, recorded |-> {p}]
  BY DEF Init
<1> DEFINE f == [num |-> 1, of |-> p]
<1>2. f \in File
  BY DEF File, Commit, Exportable
<1>3. <<f>> \in Seq(File) /\ ToSet(<<f>>) = {f}
  BY <1>2 DEF ToSet
<1>4. main \in Repo /\ main.files = {f} /\ main.series = <<f>>
  BY <1>1, <1>2, <1>3 DEF Repo, Exportable
<1>5. \A g \in main.files \cup ToSet(main.series) : g.of \in Exportable
  BY <1>3, <1>4
<1>6. <<>> \in Seq(Commit) /\ <<>> \in Seq(File)
  OBVIOUS
<1> QED
  BY <1>4, <1>5, <1>6 DEF Init, IInv, TypeOK, ExportInv

(* Steps that leave the export where it is and its files alone.              *)
LEMMA DevelopmentKeepsInv ==
  ASSUME IInv,
         ImportSucceeds \/ ImportFails \/ DevRemoved
           \/ (\E p \in Patch : DevCommits(p)) \/ (\E i \in DOMAIN dev : DevDrops(i))
  PROVE  IInv'
<1>1. UNCHANGED <<main, work, pc, stage, source>>
  BY DEF ImportSucceeds, ImportFails, DevRemoved, DevCommits, DevDrops
<1>2. work.series \in Seq(File) /\ \A i \in DOMAIN work.series : work.series[i].of \in Exportable
  BY DEF IInv, TypeOK, Repo, ToSet
<1>3. dev' \in Seq(Commit) /\ devExists' \in BOOLEAN
  <2>1. CASE ImportSucceeds
    <3> DEFINE patches == [i \in DOMAIN work.series |-> work.series[i].of]
    <3>1. patches \in Seq(Commit)
      BY <1>2 DEF Commit, Exportable
    <3>2. <<Overlay>> \in Seq(Commit)
      BY DEF Commit
    <3>3. dev' = patches \o <<Overlay>> /\ devExists' = TRUE
      BY <2>1 DEF ImportSucceeds, Imported
    <3> HIDE DEF patches
    <3> QED
      BY <3>1, <3>2, <3>3
  <2>2. CASE ImportFails
    <3>1. PICK n \in DOMAIN work.series : dev' = [i \in 1..n - 1 |-> work.series[i].of]
      BY <2>2 DEF ImportFails
    <3>2. devExists' = TRUE
      BY <2>2 DEF ImportFails
    <3>3. n - 1 \in Nat /\ \A i \in 1..n - 1 : work.series[i].of \in Commit
      BY <1>2, <3>1 DEF Commit, Exportable
    <3> QED
      BY <3>1, <3>2, <3>3
  <2>3. CASE DevRemoved
    <3>1. dev' = <<>> /\ devExists' = FALSE
      BY <2>3 DEF DevRemoved
    <3>2. <<>> \in Seq(Commit)
      OBVIOUS
    <3> QED
      BY <3>1, <3>2
  <2>4. ASSUME NEW p \in Patch, DevCommits(p) PROVE dev' \in Seq(Commit) /\ devExists' \in BOOLEAN
    BY <2>4 DEF DevCommits, IInv, TypeOK, Commit
  <2>5. ASSUME NEW i \in DOMAIN dev, DevDrops(i) PROVE dev' \in Seq(Commit) /\ devExists' \in BOOLEAN
    <3>1. dev \in Seq(Commit) /\ devExists' \in BOOLEAN
      BY <2>5 DEF DevDrops, IInv, TypeOK
    <3>2. /\ SubSeq(dev, 1, i - 1) \in Seq(Commit)
          /\ SubSeq(dev, i + 1, Len(dev)) \in Seq(Commit)
      BY <3>1
    <3>3. dev' = SubSeq(dev, 1, i - 1) \o SubSeq(dev, i + 1, Len(dev))
      BY <2>5 DEF DevDrops, RemoveAt
    <3> QED
      BY <3>1, <3>2, <3>3
  <2> QED
    BY <2>1, <2>2, <2>3, <2>4, <2>5
<1> QED
  BY <1>1, <1>3 DEF IInv, TypeOK, ExportInv, Staged, Done

(* What is staged, looked at from its head.                                  *)
LEMMA HeadOfStage ==
  ASSUME IInv, pc \in {"copy", "append"}, stage # <<>>
  PROVE  /\ Done \in Nat /\ Done + 1 \in 1..Len(source)
         /\ Head(stage) = [num |-> Done + 1, of |-> source[Done + 1]]
         /\ Head(stage) \in File /\ Tail(stage) \in Seq(File)
         /\ Len(source) - Len(Tail(stage)) = Done + 1
         /\ Len(Tail(stage)) <= Len(source)
         /\ \A i \in 1..Len(Tail(stage)) :
              Tail(stage)[i] = FormatPatch(source)[Done + 1 + i]
<1>1. source \in Seq(Commit) /\ stage \in Seq(File) /\ Staged
  BY DEF IInv, TypeOK, ExportInv
<1>2. Done \in Nat /\ Done + 1 \in 1..Len(source)
  BY <1>1 DEF Staged, Done
<1>3. Head(stage) = FormatPatch(source)[Done + 1]
  BY <1>1 DEF Staged, Done
<1>4. FormatPatch(source)[Done + 1] = [num |-> Done + 1, of |-> source[Done + 1]]
  BY <1>1, <1>2, FormatPatchType
<1>5. /\ Head(stage) \in File /\ Tail(stage) \in Seq(File)
      /\ Len(Tail(stage)) = Len(stage) - 1
      /\ \A i \in 1..Len(Tail(stage)) : Tail(stage)[i] = stage[i + 1]
  BY <1>1
<1>6. Len(source) - Len(Tail(stage)) = Done + 1 /\ Len(Tail(stage)) <= Len(source)
  BY <1>1, <1>5 DEF Staged, Done
<1>7. ASSUME NEW i \in 1..Len(Tail(stage))
      PROVE  Tail(stage)[i] = FormatPatch(source)[Done + 1 + i]
  <2>1. i + 1 \in 1..Len(stage) /\ Done + (i + 1) = Done + 1 + i
    BY <1>1, <1>2, <1>5
  <2>2. stage[i + 1] = FormatPatch(source)[Done + (i + 1)]
    BY <1>1, <2>1 DEF Staged
  <2> QED
    BY <1>5, <2>1, <2>2
<1> QED
  BY <1>2, <1>3, <1>4, <1>5, <1>6, <1>7

(* One loop of the export, on what the series file holds.                    *)
LEMMA OneLooked ==
  ASSUME NEW commits \in Seq(Commit), NEW n \in Nat, n + 1 \in 1..Len(commits)
  PROVE  ExportedUpTo(commits)[n + 1] =
           IF commits[n + 1] \in Vendored THEN ExportedUpTo(commits)[n]
           ELSE Append(ExportedUpTo(commits)[n], [num |-> n + 1, of |-> commits[n + 1]])
<1>1. (n + 1) - 1 = n
  OBVIOUS
<1> QED
  BY <1>1, ExportLoop, FormatPatchType

LEMMA ToSetAppend ==
  ASSUME NEW T, NEW s \in Seq(T), NEW e \in T
  PROVE  ToSet(Append(s, e)) = ToSet(s) \cup {e}
<1>1. DOMAIN s = 1..Len(s) /\ DOMAIN Append(s, e) = 1..(Len(s) + 1) /\ Len(s) \in Nat
  OBVIOUS
<1>2. (\A i \in 1..Len(s) : Append(s, e)[i] = s[i]) /\ Append(s, e)[Len(s) + 1] = e
  OBVIOUS
<1>3. 1..(Len(s) + 1) = (1..Len(s)) \cup {Len(s) + 1}
  BY <1>1
<1>4. ToSet(s) = {s[i] : i \in 1..Len(s)}
  BY <1>1, Zenon DEF ToSet
<1>5. ToSet(Append(s, e)) = {Append(s, e)[i] : i \in (1..Len(s)) \cup {Len(s) + 1}}
  BY <1>1, <1>3, Zenon DEF ToSet
<1> QED
  BY <1>2, <1>4, <1>5, Zenon

LEMMA SeriesReplaced ==
  ASSUME NEW r \in Repo, NEW s \in Seq(File)
  PROVE  LET t == [r EXCEPT !.series = s]
         IN  t \in Repo /\ t.files = r.files /\ t.series = s
  BY DEF Repo

LEMMA ExportStartsKeepsInv == IInv /\ ExportStarts => IInv'
<1> SUFFICES ASSUME IInv, ExportStarts PROVE IInv'
  OBVIOUS
<1>1. dev \in Seq(Commit)
  BY DEF IInv, TypeOK
<1>2. stage' = FormatPatch(dev) /\ source' = dev /\ pc' = "remove"
      /\ UNCHANGED <<main, work, dev, devExists>>
  BY DEF ExportStarts
<1>3. FormatPatch(dev) = FormatPatch(source') /\ FormatPatch(dev) \in Seq(File)
  BY <1>1, <1>2, FormatPatchType
<1>4. TypeOK'
  BY <1>1, <1>2, <1>3 DEF IInv, TypeOK
<1> QED
  BY <1>2, <1>3, <1>4 DEF IInv, ExportInv

LEMMA ExportRemovesKeepsInv == IInv /\ ExportRemoves => IInv'
<1> SUFFICES ASSUME IInv, ExportRemoves PROVE IInv'
  OBVIOUS
<1>1. work \in Repo
  BY DEF IInv, TypeOK
<1>2. /\ work' = [work EXCEPT !.files = {}] /\ pc = "remove" /\ pc' = "truncate"
      /\ UNCHANGED <<main, dev, devExists, stage, source>>
  BY DEF ExportRemoves
<1>3. work' \in Repo /\ work'.files = {} /\ work'.series = work.series
  BY <1>1, <1>2 DEF Repo
<1>4. TypeOK'
  BY <1>2, <1>3 DEF IInv, TypeOK
<1> QED
  BY <1>2, <1>3, <1>4 DEF IInv, ExportInv

LEMMA ExportTruncatesKeepsInv == IInv /\ ExportTruncates => IInv'
<1> SUFFICES ASSUME IInv, ExportTruncates PROVE IInv'
  OBVIOUS
<1>1. work \in Repo /\ source \in Seq(Commit) /\ stage \in Seq(File)
  BY DEF IInv, TypeOK
<1>2. /\ work' = [work EXCEPT !.series = <<>>] /\ pc = "truncate" /\ pc' = "copy"
      /\ UNCHANGED <<main, dev, devExists, stage, source>>
  BY DEF ExportTruncates
<1>3. stage = FormatPatch(source) /\ work.files = {}
  BY <1>2 DEF IInv, ExportInv
<1>4. ToSet(<<>>) = {}
  BY DEF ToSet
<1>5. work' \in Repo /\ work'.files = {} /\ work'.series = <<>>
  <2>1. <<>> \in Seq(File)
    OBVIOUS
  <2> QED
    BY <1>1, <1>2, <1>3, <2>1, SeriesReplaced
<1>6. TypeOK'
  BY <1>2, <1>4, <1>5 DEF IInv, TypeOK
<1>7. Len(stage) = Len(source) /\ Done = 0
  BY <1>1, <1>3, FormatPatchType DEF Done
<1>8. ExportedUpTo(source)[0] = <<>>
  BY <1>1, ExportLoop
<1>9. Staged /\ Done' = 0 /\ Staged'
  BY <1>1, <1>2, <1>3, <1>7 DEF Staged, Done
<1>10. work'.series = ExportedUpTo(source')[Done']
  BY <1>2, <1>5, <1>8, <1>9
<1> QED
  BY <1>2, <1>4, <1>5, <1>6, <1>9, <1>10 DEF IInv, ExportInv

LEMMA ExportSkipsKeepsInv == IInv /\ ExportSkipsOverlay => IInv'
<1> SUFFICES ASSUME IInv, ExportSkipsOverlay PROVE IInv'
  OBVIOUS
<1>1. /\ pc = "copy" /\ stage # <<>> /\ Head(stage).of \in Vendored
      /\ stage' = Tail(stage) /\ UNCHANGED <<main, work, dev, devExists, pc, source>>
  BY DEF ExportSkipsOverlay
<1>2. /\ Done \in Nat /\ Done + 1 \in 1..Len(source)
      /\ Head(stage) = [num |-> Done + 1, of |-> source[Done + 1]]
      /\ Tail(stage) \in Seq(File)
  BY <1>1, HeadOfStage
<1>3. Done' = Done + 1
  BY <1>1, HeadOfStage DEF Done
<1>4. Staged'
  BY <1>1, <1>3, HeadOfStage DEF Staged
<1>5. source \in Seq(Commit) /\ source[Done + 1] \in Vendored
  BY <1>1, <1>2 DEF IInv, TypeOK
<1>6. ExportedUpTo(source)[Done + 1] = ExportedUpTo(source)[Done]
  BY <1>2, <1>5, OneLooked
<1>7. work'.series = ExportedUpTo(source')[Done'] /\ work'.files = ToSet(work'.series)
  BY <1>1, <1>3, <1>6 DEF IInv, ExportInv
<1>8. TypeOK'
  BY <1>1, <1>2 DEF IInv, TypeOK
<1> QED
  BY <1>1, <1>4, <1>7, <1>8 DEF IInv, ExportInv

LEMMA ExportCopiesKeepsInv == IInv /\ ExportCopies => IInv'
<1> SUFFICES ASSUME IInv, ExportCopies PROVE IInv'
  OBVIOUS
<1> DEFINE f == Head(stage)
<1>1. /\ pc = "copy" /\ stage # <<>> /\ f.of \notin Vendored /\ pc' = "append"
      /\ work' = [work EXCEPT !.files = @ \cup {f}]
      /\ UNCHANGED <<main, dev, devExists, stage, source>>
  BY DEF ExportCopies
<1>2. f \in File /\ f.of \in Exportable
  <2>1. f \in File
    BY <1>1, HeadOfStage
  <2> QED
    BY <1>1, <2>1, OverlayAssumption DEF File, Commit, Exportable
<1>3. work \in Repo /\ work.files = ToSet(work.series)
  BY <1>1 DEF IInv, TypeOK, ExportInv
<1>4. /\ work' \in Repo /\ work'.series = work.series
      /\ work'.files = ToSet(work.series) \cup {f}
  BY <1>1, <1>2, <1>3 DEF Repo
<1>5. TypeOK'
  BY <1>1, <1>2, <1>4 DEF IInv, TypeOK
<1>6. Staged /\ work.series = ExportedUpTo(source)[Done]
  BY <1>1 DEF IInv, ExportInv
<1>7. Staged' /\ work'.series = ExportedUpTo(source')[Done']
  BY <1>1, <1>4, <1>6 DEF Staged, Done
<1> QED
  BY <1>1, <1>4, <1>5, <1>7 DEF IInv, ExportInv

LEMMA ExportAppendsKeepsInv == IInv /\ ExportAppends => IInv'
<1> SUFFICES ASSUME IInv, ExportAppends PROVE IInv'
  OBVIOUS
<1> DEFINE f == Head(stage)
<1>1. /\ pc = "append" /\ pc' = "copy" /\ stage' = Tail(stage)
      /\ work' = [work EXCEPT !.series = Append(@, f)]
      /\ UNCHANGED <<main, dev, devExists, source>>
  BY DEF ExportAppends
<1>2. /\ stage # <<>> /\ f.of \notin Vendored /\ work.files = ToSet(work.series) \cup {f}
      /\ work.series = ExportedUpTo(source)[Done]
  BY <1>1 DEF IInv, ExportInv
<1>3. /\ Done \in Nat /\ Done + 1 \in 1..Len(source) /\ f \in File
      /\ f = [num |-> Done + 1, of |-> source[Done + 1]] /\ Tail(stage) \in Seq(File)
  BY <1>1, <1>2, HeadOfStage
<1>4. Done' = Done + 1
  BY <1>1, <1>2, HeadOfStage DEF Done
<1>5. Staged'
  BY <1>1, <1>2, <1>4, HeadOfStage DEF Staged
<1>6. source \in Seq(Commit) /\ source[Done + 1] \notin Vendored
  BY <1>2, <1>3 DEF IInv, TypeOK
<1>7. ExportedUpTo(source)[Done + 1] = Append(ExportedUpTo(source)[Done], f)
  BY <1>3, <1>6, OneLooked
<1>8. work \in Repo /\ work.series \in Seq(File)
  BY DEF IInv, TypeOK, Repo
<1>9. /\ work' \in Repo /\ work'.files = work.files
      /\ work'.series = Append(work.series, f)
  <2>1. Append(work.series, f) \in Seq(File)
    BY <1>3, <1>8
  <2> QED
    BY <1>1, <1>8, <2>1, SeriesReplaced
<1>10. ToSet(work'.series) = ToSet(work.series) \cup {f}
  BY <1>3, <1>8, <1>9, ToSetAppend
<1>11. f.of \in Exportable
  BY <1>2, <1>3, OverlayAssumption DEF File, Commit, Exportable
<1>12. TypeOK'
  BY <1>1, <1>3, <1>9, <1>10, <1>11 DEF IInv, TypeOK
<1>13. work'.series = ExportedUpTo(source')[Done'] /\ work'.files = ToSet(work'.series)
  BY <1>1, <1>2, <1>4, <1>7, <1>9, <1>10
<1> QED
  BY <1>1, <1>5, <1>12, <1>13 DEF IInv, ExportInv

LEMMA ExportEndsKeepsInv == IInv /\ (ExportFinishes \/ ExportDies) => IInv'
<1> SUFFICES ASSUME IInv, ExportFinishes \/ ExportDies PROVE IInv'
  OBVIOUS
<1>1. /\ pc' = "idle" /\ stage' = <<>> /\ source' = <<>>
      /\ UNCHANGED <<main, work, dev, devExists>>
  BY DEF ExportFinishes, ExportDies
<1>2. <<>> \in Seq(Commit) /\ <<>> \in Seq(File)
  OBVIOUS
<1>3. TypeOK'
  BY <1>1, <1>2 DEF IInv, TypeOK
<1> QED
  BY <1>1, <1>3 DEF IInv, ExportInv

(* git and verify-series.sh --record run between exports.                    *)
LEMMA RepositoryKeepsInv ==
  ASSUME IInv, VerifyRecords \/ Push \/ Checkout \/ (\E p \in Patch : Pull(p))
  PROVE  IInv'
<1>1. pc = "idle" /\ stage = <<>> /\ UNCHANGED <<dev, devExists, pc, stage, source>>
  BY DEF VerifyRecords, Push, Checkout, Pull, IInv, ExportInv
<1>2. /\ main \in Repo /\ work \in Repo
      /\ \A r \in {main, work} : \A f \in r.files \cup ToSet(r.series) : f.of \in Exportable
  BY DEF IInv, TypeOK
<1> DEFINE Good(r) == r \in Repo /\ \A f \in r.files \cup ToSet(r.series) : f.of \in Exportable
<1>3. Good(main) /\ Good(work)
  BY <1>2
<1>4. Good(main)' /\ Good(work)'
  <2>1. CASE VerifyRecords
    <3>1. work' = [work EXCEPT !.recorded = Tree(work)] /\ main' = main
      BY <2>1 DEF VerifyRecords
    <3>2. Tree(work) \subseteq Patch
      BY <1>2 DEF Tree, ToSet, Exportable
    <3>3. work' \in Repo /\ work'.files = work.files /\ work'.series = work.series
      BY <1>2, <3>1, <3>2 DEF Repo
    <3> QED
      BY <1>3, <3>1, <3>3
  <2>2. CASE Push
    BY <1>3, <2>2 DEF Push
  <2>3. CASE Checkout
    BY <1>3, <2>3 DEF Checkout
  <2>4. ASSUME NEW p \in Patch, Pull(p) PROVE Good(main)' /\ Good(work)'
    <3> DEFINE f == [num |-> Len(main.series) + 1, of |-> p]
    <3>1. /\ main' = [files |-> main.files \cup {f}, series |-> Append(main.series, f),
                      recorded |-> main.recorded \cup {p}]
          /\ work' = main'
      BY <2>4 DEF Pull
    <3>2. main.series \in Seq(File) /\ main.files \subseteq File /\ main.recorded \subseteq Patch
      BY <1>2 DEF Repo
    <3>3. f \in File /\ f.of = p /\ p \in Exportable
      BY <2>4, <3>2 DEF Pull, File, Commit
    <3>4. Append(main.series, f) \in Seq(File)
          /\ ToSet(Append(main.series, f)) = ToSet(main.series) \cup {f}
      BY <3>2, <3>3, ToSetAppend
    <3>5. main' \in Repo
      BY <3>1, <3>2, <3>3, <3>4 DEF Repo
    <3>6. /\ main'.files = main.files \cup {f}
          /\ ToSet(main'.series) = ToSet(main.series) \cup {f}
      BY <3>1, <3>4
    <3> QED
      BY <1>3, <3>1, <3>3, <3>5, <3>6
  <2> QED
    BY <2>1, <2>2, <2>3, <2>4
<1>5. TypeOK'
  BY <1>1, <1>4 DEF IInv, TypeOK
<1> QED
  BY <1>1, <1>5 DEF IInv, ExportInv

LEMMA NextKeepsInv == IInv /\ [Next]_vars => IInv'
<1> SUFFICES ASSUME IInv, [Next]_vars PROVE IInv'
  OBVIOUS
<1>1. CASE \/ ImportSucceeds \/ ImportFails \/ DevRemoved
           \/ (\E p \in Patch : DevCommits(p)) \/ (\E i \in DOMAIN dev : DevDrops(i))
  BY <1>1, DevelopmentKeepsInv
<1>2. CASE ExportStarts
  BY <1>2, ExportStartsKeepsInv
<1>3. CASE ExportRemoves
  BY <1>3, ExportRemovesKeepsInv
<1>4. CASE ExportTruncates
  BY <1>4, ExportTruncatesKeepsInv
<1>5. CASE ExportSkipsOverlay
  BY <1>5, ExportSkipsKeepsInv
<1>6. CASE ExportCopies
  BY <1>6, ExportCopiesKeepsInv
<1>7. CASE ExportAppends
  BY <1>7, ExportAppendsKeepsInv
<1>8. CASE ExportFinishes \/ ExportDies
  BY <1>8, ExportEndsKeepsInv
<1>9. CASE VerifyRecords \/ Push \/ Checkout \/ (\E p \in Patch : Pull(p))
  BY <1>9, RepositoryKeepsInv
<1>10. CASE UNCHANGED vars
  BY <1>10 DEF vars, IInv, TypeOK, ExportInv, Staged, Done
<1> QED
  BY <1>1, <1>2, <1>3, <1>4, <1>5, <1>6, <1>7, <1>8, <1>9, <1>10 DEF Next

-----------------------------------------------------------------------------
THEOREM InvAlways == Spec => []IInv
  BY InitInv, NextKeepsInv, PTL DEF Spec

(* The repository and its working copy are well formed in every history.     *)
THEOREM TypeCorrect == Spec => []TypeOK
<1>1. IInv => TypeOK
  BY DEF IInv
<1> QED
  BY <1>1, InvAlways, PTL

(* A series CI accepts is numbered in the order it applies and leaves the    *)
(* files this repository vendors alone.                                      *)
THEOREM GreenMeansCurated == Spec => []GreenIsCurated
<1>1. IInv => GreenIsCurated
  <2> SUFFICES ASSUME IInv, Green(main) PROVE
        /\ \A i \in DOMAIN main.series : main.series[i].num = i
        /\ Tree(main) \cap EditsOverlay = {}
    BY DEF GreenIsCurated
  <2>1. /\ main \in Repo /\ main.series \in Seq(File)
        /\ \A i \in DOMAIN main.series : main.series[i].of \in Exportable
    BY DEF IInv, TypeOK, Repo, ToSet
  <2>2. main.series = [i \in 1..Len(main.series) |-> [num |-> i, of |-> main.series[i].of]]
    BY <2>1, RoundTripOf DEF Green
  <2>3. \A i \in DOMAIN main.series : main.series[i].num = i
    BY <2>1, <2>2
  <2>4. Tree(main) \cap EditsOverlay = {}
    BY DEF Green, VerifyPasses, Applied, Applies, StrictlyApplies, Tree
  <2> QED
    BY <2>3, <2>4
<1> QED
  BY <1>1, InvAlways, PTL

(* The advice of the CI job is sound: whatever series verify-series.sh gets  *)
(* through, the export of its import, once recorded, is one the job accepts. *)
THEOREM RepairAlwaysTurnsGreen == Spec => []RepairTurnsGreen
<1>1. IInv => RepairTurnsGreen
  <2> DEFINE s == RoundTrip(main)
             r == [files |-> ToSet(s), series |-> s, recorded |-> Tree(main)]
  <2> SUFFICES ASSUME IInv, Applies(main), main.series # <<>> PROVE Green(r)
    BY DEF RepairTurnsGreen, Applied
  <2>1. /\ main \in Repo /\ main.series \in Seq(File)
        /\ \A i \in DOMAIN main.series : main.series[i].of \in Exportable
    BY DEF IInv, TypeOK, Repo, ToSet
  <2>2. s = [i \in 1..Len(main.series) |-> [num |-> i, of |-> main.series[i].of]]
    BY <2>1, RoundTripOf
  <2>3. /\ s \in Seq(File) /\ Len(s) = Len(main.series) /\ DOMAIN s = DOMAIN main.series
        /\ \A i \in DOMAIN s : s[i] = [num |-> i, of |-> main.series[i].of]
    <3>1. \A i \in 1..Len(main.series) : [num |-> i, of |-> main.series[i].of] \in File
      BY <2>1 DEF File, Commit, Exportable
    <3> QED
      BY <2>1, <2>2, <3>1
  <2> HIDE DEF s
  <2>4. /\ \A i \in DOMAIN s : s[i].of = main.series[i].of
        /\ \A i \in DOMAIN s : s[i] \in ToSet(s)
    <3>1. ASSUME NEW i \in DOMAIN s PROVE s[i].of = main.series[i].of
      <4>1. s[i] = [num |-> i, of |-> main.series[i].of]
        BY <2>3
      <4> QED
        BY <4>1
    <3> QED
      BY <3>1, Zenon DEF ToSet
  <2>5. r.files = ToSet(s) /\ r.series = s /\ r.recorded = Tree(main)
    OBVIOUS
  <2>6. Tree(main) \subseteq Patch /\ ToSet(s) \subseteq File
    BY <2>1, <2>3 DEF Tree, ToSet, Exportable
  <2>7. r \in Repo
    BY <2>3, <2>6 DEF Repo
  <2> HIDE DEF r
  <2>8. Tree(r) = Tree(main)
    BY <2>3, <2>4, <2>5 DEF Tree
  <2>9. Applies(r)
    <3>1. \A i \in DOMAIN main.series : main.series[i].of \notin EditsOverlay
      BY DEF Applies, StrictlyApplies
    <3> QED
      BY <2>3, <2>4, <2>5, <3>1 DEF Applies, StrictlyApplies
  <2>10. r.series = RoundTrip(r)
    <3>1. \A i \in DOMAIN r.series : r.series[i].of \in Exportable
      BY <2>1, <2>3, <2>4, <2>5
    <3>2. RoundTrip(r) = [i \in 1..Len(s) |-> [num |-> i, of |-> s[i].of]]
      BY <2>5, <2>7, <3>1, RoundTripOf
    <3>3. \A i \in 1..Len(s) : s[i] = [num |-> i, of |-> s[i].of]
      BY <2>3, <2>4
    <3>4. s = [i \in 1..Len(s) |-> s[i]]
      BY <2>3
    <3> QED
      BY <2>5, <3>2, <3>3, <3>4
  <2>11. r.series # <<>>
    BY <2>1, <2>3, <2>5
  <2> QED
    BY <2>5, <2>8, <2>9, <2>10, <2>11 DEF Green, VerifyPasses, Applied
<1> QED
  BY <1>1, InvAlways, PTL

(* An export that finishes has written the commits it started from and       *)
(* nothing else, whatever was in the directory before.                       *)
THEOREM ExportIsComplete == Spec => ExportComplete
<1>1. IInv /\ ExportFinishes => /\ work.series = Exported(source)
                                /\ work.files = ToSet(work.series)
  <2> SUFFICES ASSUME IInv, ExportFinishes
               PROVE  work.series = Exported(source) /\ work.files = ToSet(work.series)
    OBVIOUS
  <2>1. pc = "copy" /\ stage = <<>>
    BY DEF ExportFinishes
  <2>2. Done = Len(source)
    BY <2>1 DEF Done, IInv, TypeOK
  <2> QED
    BY <2>1, <2>2 DEF IInv, ExportInv, Exported
<1>2. IInv /\ [Next]_vars =>
        [ExportFinishes => /\ work.series = Exported(source)
                           /\ work.files = ToSet(work.series)]_vars
  BY <1>1
<1> QED
  BY <1>2, InvAlways, PTL DEF Spec, ExportComplete
=============================================================================
