--------------------------- MODULE SeriesWorkflow ---------------------------
(***************************************************************************)
(* The life of the patch series: import-series.sh turns the committed      *)
(* series into a development tree, developers commit there,                *)
(* export-series.sh writes the tree back over the working copy,            *)
(* verify-series.sh checks it and records the tree it produces, and CI     *)
(* (series.yml) verifies what was pushed and requires an import followed   *)
(* by an export to reproduce it.  The export deletes before it writes and  *)
(* may stop at any point.                                                  *)
(*                                                                         *)
(* A patch is its identity: it applies to the pristine tarball unless it   *)
(* edits a file of the vendored overlay, which is not there.  Patches are  *)
(* otherwise independent, so the tree a series produces is the set of its  *)
(* patches.                                                                *)
(***************************************************************************)
EXTENDS Naturals, Sequences, SequencesExt

CONSTANTS
  Patch,          \* changes a developer may commit
  EditsOverlay,   \* those that edit a file of src/, configs/ or build.sh
  Overlay,        \* the commit import-series.sh makes on top of the patches
  MaxCommits,     \* bound on the commits of a development tree
  Vendored        \* commits with VENDORED: in their subject, by accident too

ASSUME OverlayAssumption ==
  /\ EditsOverlay \subseteq Patch /\ Overlay \notin Patch
  /\ Overlay \in Vendored /\ Vendored \subseteq Patch \cup {Overlay}

VARIABLES
  main,           \* the repository as pushed
  work,           \* the working copy of it
  dev,            \* commits above base-<tag> in the development tree
  devExists,      \* the development tree's directory exists
  pc,             \* the step export-series.sh is at
  stage,          \* patch files of format-patch still to be looked at
  source          \* ghost: the commits the export in progress started from

vars == <<main, work, dev, devExists, pc, stage, source>>

Commit == Patch \cup {Overlay}
Exportable == Patch \ Vendored
File == [num : Nat \ {0}, of : Commit]
Repo == [files : SUBSET File, series : Seq(File), recorded : SUBSET Patch]

TypeOK ==
  /\ main \in Repo /\ work \in Repo
  /\ \A r \in {main, work} : \A f \in r.files \cup ToSet(r.series) : f.of \in Exportable
  /\ dev \in Seq(Commit)
  /\ devExists \in BOOLEAN
  /\ pc \in {"idle", "remove", "truncate", "copy", "append"}
  /\ stage \in Seq(File)
  /\ source \in Seq(Commit)

-----------------------------------------------------------------------------
(* git format-patch: one file per commit, named by its position. *)
FormatPatch(commits) == [i \in DOMAIN commits |-> [num |-> i, of |-> commits[i]]]

(* Mutant: the overlay is exported too. *)
Exported_KeepsOverlay(commits) == FormatPatch(commits)

(* What an export of these commits leaves in the series file, when it has     *)
(* looked at the first n of them and at all.                                  *)
ExportedUpTo(commits) ==
  LET upTo[n \in 0..Len(commits)] ==
        IF n = 0 THEN <<>>
        ELSE IF commits[n] \in Vendored THEN upTo[n - 1]
        ELSE Append(upTo[n - 1], FormatPatch(commits)[n])
  IN upTo
Exported(commits) == ExportedUpTo(commits)[Len(commits)]

(* Mutant: a patch is tried on the overlaid tree. *)
StrictlyApplies_Overlaid(r, f) == f \in r.files

(* git am without --3way on the pristine tarball *)
StrictlyApplies(r, f) == f \in r.files /\ f.of \notin EditsOverlay
Applies(r) == \A i \in DOMAIN r.series : StrictlyApplies(r, r.series[i])
Tree(r) == {r.series[i].of : i \in DOMAIN r.series}

(* verify-series.sh as far as the tree: grep -c counts the patches first, and *)
(* under set -e its exit status ends the script when there is none.           *)
Applied(r) == r.series # <<>> /\ Applies(r)

(* An imported tree: the patches, and on top of them the overlay. *)
Imported(r) == [i \in DOMAIN r.series |-> r.series[i].of] \o <<Overlay>>
RoundTrip(r) == Exported(Imported(r))

VerifyPasses(r) == Applied(r) /\ r.recorded = Tree(r)

(* The two series jobs of CI; git diff also sees a file the export deletes. *)
Green(r) == /\ VerifyPasses(r)
            /\ r.series = RoundTrip(r)
            /\ r.files = ToSet(r.series)

Init ==
  /\ \E p \in Exportable \ EditsOverlay :
       main = [files |-> {[num |-> 1, of |-> p]},
               series |-> <<[num |-> 1, of |-> p]>>, recorded |-> {p}]
  /\ work = main
  /\ dev = <<>>
  /\ devExists = FALSE
  /\ pc = "idle"
  /\ stage = <<>>
  /\ source = <<>>

-----------------------------------------------------------------------------
(* import-series.sh refuses an existing directory; a patch that does not     *)
(* apply stops it half way, with the tree so far left behind.                *)
ImportSucceeds ==
  /\ pc = "idle"
  /\ ~devExists
  /\ Applies(work)
  /\ dev' = Imported(work)
  /\ devExists' = TRUE
  /\ UNCHANGED <<main, work, pc, stage, source>>

ImportFails ==
  /\ pc = "idle"
  /\ ~devExists
  /\ ~Applies(work)
  /\ \E n \in DOMAIN work.series :
       /\ ~StrictlyApplies(work, work.series[n])
       /\ \A i \in 1 .. n - 1 : StrictlyApplies(work, work.series[i])
       /\ dev' = [i \in 1 .. n - 1 |-> work.series[i].of]
  /\ devExists' = TRUE
  /\ UNCHANGED <<main, work, pc, stage, source>>

(* git in the development tree: a commit on top, one dropped, the tree removed. *)
DevCommits(p) ==
  /\ devExists
  /\ p \notin ToSet(dev) /\ Len(dev) < MaxCommits
  /\ p \in EditsOverlay => Overlay \in ToSet(dev)
  /\ dev' = Append(dev, p)
  /\ UNCHANGED <<main, work, devExists, pc, stage, source>>

DevDrops(i) ==
  /\ devExists
  /\ dev[i] \in Patch
  /\ dev' = RemoveAt(dev, i)
  /\ UNCHANGED <<main, work, devExists, pc, stage, source>>

DevRemoved ==
  /\ devExists
  /\ dev' = <<>>
  /\ devExists' = FALSE
  /\ UNCHANGED <<main, work, pc, stage, source>>

-----------------------------------------------------------------------------
(* export-series.sh, line by line from its guard on. *)
ExportStarts ==
  /\ pc = "idle"
  /\ devExists
  /\ work = main
  /\ stage' = FormatPatch(dev)
  /\ source' = dev
  /\ pc' = "remove"
  /\ UNCHANGED <<main, work, dev, devExists>>

(* Mutant: the patches of the last export stay. *)
ExportRemoves_Nothing ==
  /\ pc = "remove"
  /\ pc' = "truncate"
  /\ UNCHANGED <<main, work, dev, devExists, stage, source>>

ExportRemoves ==
  /\ pc = "remove"
  /\ work' = [work EXCEPT !.files = {}]
  /\ pc' = "truncate"
  /\ UNCHANGED <<main, dev, devExists, stage, source>>

ExportTruncates ==
  /\ pc = "truncate"
  /\ work' = [work EXCEPT !.series = <<>>]
  /\ pc' = "copy"
  /\ UNCHANGED <<main, dev, devExists, stage, source>>

(* Mutant: the overlay is copied like any patch. *)
ExportSkipsOverlay_Copies ==
  /\ pc = "copy"
  /\ stage # <<>>
  /\ Head(stage).of \in Vendored
  /\ work' = [work EXCEPT !.files = @ \cup {Head(stage)}]
  /\ pc' = "append"
  /\ UNCHANGED <<main, dev, devExists, stage, source>>

ExportSkipsOverlay ==
  /\ pc = "copy"
  /\ stage # <<>>
  /\ Head(stage).of \in Vendored
  /\ stage' = Tail(stage)
  /\ UNCHANGED <<main, work, dev, devExists, pc, source>>

ExportCopies ==
  /\ pc = "copy"
  /\ stage # <<>>
  /\ Head(stage).of \notin Vendored
  /\ work' = [work EXCEPT !.files = @ \cup {Head(stage)}]
  /\ pc' = "append"
  /\ UNCHANGED <<main, dev, devExists, stage, source>>

ExportAppends ==
  /\ pc = "append"
  /\ work' = [work EXCEPT !.series = Append(@, Head(stage))]
  /\ stage' = Tail(stage)
  /\ pc' = "copy"
  /\ UNCHANGED <<main, dev, devExists, source>>

(* With no commit at all the glob stays literal, and cp fails. *)
ExportFinishes ==
  /\ pc = "copy"
  /\ stage = <<>>
  /\ source # <<>>
  /\ pc' = "idle"
  /\ source' = <<>>
  /\ UNCHANGED <<main, work, dev, devExists, stage>>

ExportDies ==
  /\ pc # "idle"
  /\ pc' = "idle"
  /\ stage' = <<>>
  /\ source' = <<>>
  /\ UNCHANGED <<main, work, dev, devExists>>

-----------------------------------------------------------------------------
(* verify-series.sh --record writes base.json only if every patch applied. *)
VerifyRecords ==
  /\ pc = "idle"
  /\ Applied(work)
  /\ work' = [work EXCEPT !.recorded = Tree(work)]
  /\ UNCHANGED <<main, dev, devExists, pc, stage, source>>

(* git in the repository: everything pushed, thrown away, or pulled. *)
Push ==
  /\ pc = "idle"
  /\ main' = work
  /\ UNCHANGED <<work, dev, devExists, pc, stage, source>>

Checkout ==
  /\ pc = "idle"
  /\ work' = main
  /\ UNCHANGED <<main, dev, devExists, pc, stage, source>>

(* Another developer pushes a patch that CI accepts, and it is pulled. *)
Pull(p) ==
  /\ pc = "idle"
  /\ work = main
  /\ Green(main)
  /\ p \in Exportable \ (EditsOverlay \cup Tree(main))
  /\ LET f == [num |-> Len(main.series) + 1, of |-> p]
     IN  main' = [files |-> main.files \cup {f}, series |-> Append(main.series, f),
                  recorded |-> main.recorded \cup {p}]
  /\ work' = main'
  /\ UNCHANGED <<dev, devExists, pc, stage, source>>

Next ==
  \/ ImportSucceeds \/ ImportFails \/ DevRemoved
  \/ \E p \in Patch : DevCommits(p) \/ Pull(p)
  \/ \E i \in DOMAIN dev : DevDrops(i)
  \/ ExportStarts \/ ExportRemoves \/ ExportTruncates \/ ExportSkipsOverlay
  \/ ExportCopies \/ ExportAppends \/ ExportFinishes \/ ExportDies
  \/ VerifyRecords \/ Push \/ Checkout

Spec == Init /\ [][Next]_vars

-----------------------------------------------------------------------------
(* Properties. *)

(* An export that finishes has written exactly the commits it started from,   *)
(* in their order and without the overlay, and no other file, whatever state  *)
(* an earlier export that died left the directory in.                         *)
ExportComplete ==
  [][ExportFinishes => /\ work.series = Exported(source)
                       /\ work.files = ToSet(work.series)]_vars

(* What CI accepts is a curated series: its patches are numbered 1, 2, ..., n *)
(* in the order they apply, and none of them edits a file this repository     *)
(* created.                                                                   *)
GreenIsCurated ==
  Green(main) => /\ \A i \in DOMAIN main.series : main.series[i].num = i
                 /\ Tree(main) \cap EditsOverlay = {}

(* "Re-run it locally and commit the result" (series.yml): whatever series    *)
(* verify-series.sh gets through, one import and export makes it one that CI  *)
(* accepts.                                                                   *)
RepairTurnsGreen ==
  Applied(main) => LET s == RoundTrip(main)
                   IN  Green([files |-> ToSet(s), series |-> s, recorded |-> Tree(main)])

(* "an export with no code change must produce no diff" (export-series.sh):   *)
(* importing what an export has just written and exporting it again changes   *)
(* nothing.                                                                   *)
ExportReproducible ==
  [][ExportFinishes /\ Applies(work) => RoundTrip(work) = work.series]_vars
=============================================================================
