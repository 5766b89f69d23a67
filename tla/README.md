# Formal verification of qemu_builder

TLA+ modules, TLC runs and TLAPS proofs for the Penguin delta on QEMU 11.1.0:
the C code in `src/system/penguin.c`, the patches of `patches/11.1.0`, the
scripts that keep the series, and those that generate, build and package the
CFFI interface. Paths below are relative to the repository.

## 1. The system

The repository builds QEMU as shared libraries for an embedder, Penguin, that
loads them into a Python process and drives them through CFFI. Its delta has two
halves: files it created (`src/`, copied into the tree) and edits to upstream
files (`patches/`, a series applied with `git am`).

| component | state | operations | meets |
|---|---|---|---|
| Guest hypercall dispatch (`penguin.c` 23-108) | the table of numbers, guest callback + opaque, KVM callback; no lock | register, unregister, clear, two setters, `penguin_handle_guest_hypercall` | every architecture's entry point calls it from a vCPU thread; Penguin calls the setters, also from inside callbacks |
| Snapshots (`penguin.c` 230-312, patch 0010) | queued bottom halves, run state, blocker flag, images on disk | schedule, bottom half, save, load | QEMU's savevm and main loop, which polls while it works |
| vhost-user-vsock (patch 0010) | `connected`, the vhost device, the event handler, the config space | connect, disconnect, event, realize, unrealize | chardev, vhost core, the external backend |
| After-guest-init hook (patch 0001) | callback, `called` flag | setter, the hook in startup | BQL, Penguin's lock |
| Patch series (`scripts/`, `series.yml`) | `patches/`, `series`, `base.json`, the development tree | import, export, verify, record, CI's gate | git, two developers |
| Hypercall entry points (0003-0009) | guest registers, KVM run structure | one helper per architecture and accelerator | the dispatch |
| QMP and reset hooks (0011), MMIO regions | callback + opaque; regions | setters, invocation | QMP dispatch, runstate |
| Env header generator (`penguin-env-cffi-gen.py`) | tags, definitions, pads, names in use, all for one library | extract types from DWARF, repair their layout, render the cdef | pyelftools, cffi, the C compiler |
| Header generator, build, package (`penguin-cffi-gen.py`, `build.sh`, `penguin-qemu-package.py`) | two build directories, two manifests, the archive; they outlive a run | configure, ninja, alias, generate, package | each other through files |
| Version probe, config checks, Nix, workflows | none of their own | | git, Nix, GitHub |

What makes it hard: a dispatch takes no lock and re-reads what it tested; a
snapshot operation can begin inside another; a close is deferred past later
events; an export deletes what it is about to write; startup may or may not hold
the BQL; a repair of one struct moves members of others; a build dies anywhere
and the next one starts from what is there. Each component must be right for reasons a unit test hardly reaches:

- dispatch: the pointer is tested and read again, the pair is stored and loaded
  word by word, the table is asked without a lock; so what may be promised is that
  a call through NULL, a torn callback/opaque pair or a route the table does not
  explain has one cause each, and that nothing else leads there;
- snapshots: the guest never runs inside one, the run state and the blocker flag
  are always put back, a stopped guest is never started, every request ends;
- vsock: no double initialisation or leak, no stale config, a drop is noticed,
  nothing happens after removal;
- hook: under the BQL, once, never skipped, never waiting for itself, and in one
  lock order with the rest of Penguin;
- env header: every declared member at its real offset, nothing dropped that
  could be kept, no type used before it is defined, no tag for two types, and
  the generator always ends;
- build: a run that ends well ships what was asked for, whatever earlier runs did;
- series: what CI accepts is curated; an export, interrupted before or not, is
  complete; one import and export repairs a series.

`PROJECT.json` lists every hazard at its line with the properties that cover it.

## 2. Modules

| module | models | relation |
|---|---|---|
| `HypercallService` | the atomic routing the dispatch promises | abstract specification |
| `GuestHypercall` | the dispatch, one step per shared read or store | implements `HypercallService` by `Service == INSTANCE ...` |
| `Snapshot` | requests, nested operations, run state, images | |
| `VhostUserVsock` | the device's connection life cycle | |
| `AfterGuestInit` | startup, the hook, two locks, a second thread | |
| `SeriesWorkflow` | the repository, working copy and development tree | |
| `Dwarf` | debug information, the helpers that walk it, what DWARF and C promise of it | extended by the next two |
| `EnvTypes` | `EnvTypeExtractor.emit_struct`: tags, members, order | |
| `ApiTypes` | `ApiCdefEmitter`: the cdef of the compiled module | |
| `LayoutRepair` | `verify_and_repair` and cffi's layout of what is printed | |
| `EnvGenerator` | `generate`, the three in sequence for one library | extends `EnvTypes`, instantiates `LayoutRepair`, `ApiTypes` |
| `BuildPipeline` | `build.sh` and its scripts, run after run | takes `generate` as one step |
| `MC*` | inputs and symmetry sets for TLC | extend the module they name |
| `*Proofs` | inductive invariants and theorems | extend the module they name |

Operators named `X_Something` beside an `X`, commented "Mutant", are plausible
bugs of `X`. No specification uses them; each shows that a property would notice.

**GuestHypercall.** The variables are the static variables of `penguin.c`.
`penguin_handle_guest_hypercall` is `Enter`, `TestGuest` (line 95), `Lookup`
(96), `LoadCallback` and `LoadOpaque` (97-99, the pointer read again and the
opaque, in either order), `GuestReturns`, `TestKvm`, `CallKvm` (which may read the
pointer again too), `KvmReturns`. A change of the table lasts from `Mutate` to
`MutationReturns`, because a GHashTable changed without a lock may answer a
concurrent lookup either way. The guest callback's setter is two stores,
`SetGuestCallback` and `SetGuestOpaque`, KVM's is one. Any of them runs at any
moment, in the embedder's thread or inside a callback of either vCPU. One habit of
the embedder is assumed, in `MayMutate`: its threads do not change the table at
the same time as each other, which would corrupt the GHashTable. A call through
NULL (`nullGuest`, `nullKvm`) ends the process. `seen` and `clashed` are ghosts:
what happened to a dispatch since it entered.

**Snapshot.** `penguin_schedule_snapshot` queues; a queued bottom half may begin
on an idle main loop or inside the operation on top of `stack`, because QEMU
polls its event loop as it drains and writes. A frame is a C stack frame:
`saved` is the run state read at its start. Saves may be refused before
`vm_stop`, with the old image deleted or not, or fail at the end; loads may fail
before or half way through the devices (`Broken`). `captured` and `disturbed`
are ghosts. What `save_snapshot` and `load_snapshot` do is external, modelled
from how lines 237-277 use them.

**VhostUserVsock.** One action per outcome of each callback. The events are
delivered on the main loop, one at a time; the deferred close is counted in
`closes`. Whether `vhost_user_async_close` leaves `vuv_event` installed is not in
the repository, hence the constant `HandlerKept`; the callback passed to it is
taken to run once for each close.

**AfterGuestInit.** `CallHook` stands for both arms of `if (bql_locked())`: the
call begins with the BQL held by startup and waits for it only if another thread
holds it. Creation may fail after the hook and be tried again by the monitor.
The second thread takes either lock, or Penguin's inside the BQL, as the hook does;
with `Nested` it also asks for the BQL (`waiting`) under Penguin's lock, the order
that patch 0001 warns of.

**SeriesWorkflow.** A patch is a value; it applies strictly unless it edits a
file of the overlay, and export drops it if its subject says VENDORED:
(`Vendored`). `verify-series.sh` refuses an empty series, because `grep -c`
counts no line and `set -e` ends the script (`Applied`). `export-series.sh` is modelled line by line from its guard,
with `ExportDies` at each; `verify-series.sh`, which only reads until it records,
is one predicate and one step; import is one step that succeeds or stops at the
first patch that does not apply. Conflicts between patches are left out: the tree
a series makes is its set of patches.

**Dwarf.** A library is a function from DIE offsets to entries and a list of
compilation units. Attributes that may be absent have a value for it. The
typedef, qualifier and array chains of `_resolve_typedefs` and `member_ctype`
are recursive functions over the entries; `Uleb` decodes a member location byte
by byte. `GraphsAssumption` says what the compiler guarantees of its output, and
TLC checks it of every library of the run: a type is numbered above the types it
holds by value (`WellFounded`: C has no type that contains itself), a member of
the source is located as DWARF prescribes for its `place` (`LaidOut`), names, member
types and array bounds are of their kind and an array is numbered above its
element type (`Typed`), and tags held by value do not lead back to where they
began (`NamedOnce`). The last is C's
rule within one file. Across the files of a library it is an assumption: the
emitters take two types with one tag for the same, and two files that use two
tags the other way round would give a cdef that the C compiler refuses. Nothing
in the script looks for that.

**EnvTypes** and **ApiTypes.** The recursion of the script is an explicit stack:
a frame is a call and the child it looks at. A child whose type needs a
definition pushes a frame (`EmitMemberType`, `WriteInPlace`); when that returns
the caller looks at the child again and finds the result in `die_tags`,
`die_refs` or `answer`. A reference is a kind and a name, as it is printed. `DropMember`, `OmitMember` and `GiveUpInPlace` are the
`continue` and `return None` of the loops, `UnknownLocation` the uncaught
ValueError. A member keeps what later steps read: type, offset and tag. C text is
left out, but the line structure that cffi's rules are about (`...;`, bitfields,
bodies in place) is kept.

**LayoutRepair.** One comparison of `_verify_once` per step, in its order. `end`
and `align` are cffi's layout of the members already compared, so that `Offset`
and `Size` are what `offsetof` and `sizeof` return for the struct that
`StructDef.render` prints, pads and fallback arrays included. A mismatch pads
(`PadMember`, `PadTail`) or gives the struct up (`MemberTooFar`,
`SizeTooLarge`) and starts another pass. The layout rule is external: it is that
of C for the types of `BASE_TYPES`.

**EnvGenerator.** `VerifyAndRepair` converts what `EnvTypes` collected into what
`LayoutRepair` lays out: members in the order of their children (`InSourceOrder`),
arrays as the product of their dimensions (`Count`), struct members as the place
of their tag in `order`. `HeaderIsExact` includes that the result meets the
assumption `LayoutRepair` makes of its inputs (`Acceptable`).

**BuildPipeline.** A file is known by the target and source version it was made
from. One action per command and loop iteration: `Configure` (skipped when the
directory has a `config.status`), `Ninja`, `StageAlias`, `WriteHeader`,
`WriteManifest`, `GenerateEnv` or `ShareEnv`, `UpdateManifest`, the same for KVM,
`OpenArchive`, `AddEntry`, `CloseArchive`. `Dies` ends a run anywhere and stands
for compiler errors, SystemExit of the env generator and signals alike. A failed or
stopped link removes its output, so a run that dies in ninja takes any of the
libraries it was linking with it (`Linking`); otherwise a file is written whole or
not at all. A library that SIGKILL cuts short would be packaged like a stale one
and is left out. The source changes only between runs.

## 3. Runs

| run | question | bounds | states |
|---|---|---|---|
| `hypercall` | what do unsynchronised changes do to a dispatch, and is every other one that of the atomic service? | 2 vCPUs, 1 number, 1 callback | 1.7 M |
| `snapshot` | all snapshot properties | 3 requests, 2 names, 1 guest step | 50 k |
| `vsock` | all connection properties | 2 CIDs, 3 waiting closes, handler kept or removed | 350 |
| `series` | all series properties | 4 patches, one an overlay edit, one VENDORED:; trees of 3 commits | 691 k |
| `after_guest_init` | all hook properties | 2 threads, unbounded retries | 150 |
| `env_generator` | what do the header and the cdef keep, in which order, and does it end? | 3748 libraries: a root and two types | 120 k |
| `layout_repair` | is the repaired header exact, and was every sacrifice needed? | 18 465 starts: 1 or 2 structs of at most 2 members, sizes up to 3 and 5, limits 2, 4, 12 | 165 k |
| `build_pipeline` | does a run that ends ship what was asked for? | 3 runs, 2 source versions, 3 arch sets, KVM or not | 4.1 M |
| four violation runs | one documented claim each, see section 5 | the same; `after_guest_init_nested` lets the other thread nest the locks | |

Why the bounds suffice. Two vCPUs and one embedder thread give every pairwise
race, and two installs that overlap each other; one number goes in and out of the
table, and each vCPU asks for it before, during and after. One callback is enough
for a torn pair, its pointer with the opaque NULL; the proofs hold for any number
of all three. Three requests nest to depth three with
both kinds in any order, and two names let a load read what an inner save wrote.
A flapping link can defer any number of closes before the first runs; three are a
drop, a second drop and a refused reconnect, and the proofs hold for any bound.
Two ordinary patches show order and renumbering, the third edits the overlay, the
fourth has VENDORED: in its subject; a tree of three commits holds any two of them
and the overlay.

In `env_generator` two types below the root are what a clash of names, a
dependency in either order and nesting in place need; each is a struct or union,
named or not, with the same name as the other or a name that looks like a tag of
the script or of the root, and their members cover every branch of `member_ctype` and
`_member_type`. A union referred to by its name is among them, and a union and a
struct that share one. It runs with the script's own limit of 200. The limits of
`layout_repair` are smaller than some inputs need, so that `ConvergesWithinBound`
is tested on both sides, and `HeaderIsExact` lays the final cdef out again from
scratch, by a definition of its own (`CLayout`). In `build_pipeline` three
runs are one that dies, one that is asked for something else, and one that meets
both; an arch set has aliases of one target, one grows past what was configured,
and one has an unknown arch.

`MaxRuns`, `MaxVersions`, `Ticks`, `MaxCloses`, `MaxCommits` and the finite
`Request` set are the only caps; hitting one disables an action and hides no
state within it. `MCSnapshot` declares a symmetry set but `snapshot` does not use
it, since it checks liveness; `hypercall` and the series runs use theirs for
safety only. `CHECK_DEADLOCK FALSE` appears where the process may end: a crash in
`hypercall` and `vsock`, `exit(1)` in `after_guest_init`, the end of the last run in
`build_pipeline`.

Fairness. `Snapshot!FairSpec` is weak fairness of the bottom half: the main loop
runs what is queued and the operation in hand goes on. `VhostUserVsock!FairSpec`
is the same for the deferred close. `AfterGuestInit!FairSpec` assumes Penguin's
thread returns the locks it takes and that a waiting thread gets a lock others
keep taking and returning (strong fairness), which a mutex gives in practice; the
callback returns. `EnvGenerator!FairSpec` is weak fairness of one sequential
program: nothing it calls blocks. The other specifications state no liveness;
`build.sh` may wait for a compiler for ever.

## 4. Proofs

Each proofs module defines an inductive `IInv`, proves `Init => IInv`,
`IInv /\ [Next]_vars => IInv'` with one step per action, and derives the theorems.
All hold for every value of the constants that meets the named assumptions.

- `GuestHypercallProofs`: `IInv` relates a vCPU's position to the ghosts. A vCPU
  past its test has a callback to call unless a clear came after the test
  (`CallsNullOnlyIfCleared`). Outside an install the two words of the pair agree
  unless installs clashed, and what a vCPU has loaded of the pair agrees with them
  unless an install began since (`PairsMatch`). A lookup outside a change agrees
  with `registered`, and what was true of the number since the entry is remembered
  (`RoutesMatch`). `Implements` proves the refinement: a dispatch that nothing was
  changed around before it had its route finds at its `Decide` the table and the
  pointers it has read; the lookup that finds the number, or else the test of
  KVM's callback, is that `Decide`, and every other step maps to a step or a
  stutter. The service lets only the contended ones go elsewhere.
- `SnapshotProofs`: the invariant is about the whole stack. Only the bottom frame
  may have saved "running"; every inner frame saved a stopped state, so popping it
  cannot start the guest. The blocker flag implies a save frame; frames not
  `disturbed` still agree with `vm`. Lemmas say what push, pop and disturb do.
- `VhostUserVsockProofs`: `connected <=> inited`, and the config equals the
  backend's unless a close waits or the link is down.
- `AfterGuestInitProofs`: the flag counts the calls except between setting it and
  the call; ownership of the BQL follows from `hadBql` and the program counter.

- `SeriesWorkflowProofs`: while an export copies, the series file holds exactly
  what the commits looked at so far leave there, the directory the patches that
  the series names and the one just copied, and the rest is still staged
  (`ExportInv`); so an export that finishes is complete, and whatever an export
  that died left on disk is removed or truncated before it counts. `ExportLoop`
  shows that the recursive `ExportedUpTo` is defined for every number of commits
  and what it is; `RoundTripOf`, that an import followed by an export gives each
  patch its position as number. With the check CI makes, `GreenMeansCurated`
  follows for any series, and `RepairAlwaysTurnsGreen` for any that is not empty:
  no repair makes verification accept an empty one.
- `EnvGeneratorProofs`, in six parts that rest on one another. Each step of the
  generator is a step of `EnvTypes`, of `LayoutRepair` or of `ApiTypes`, or an
  end, and changes nothing of the others.
  - `UlebDecodes`: the decoder of line 163 reads back every number of which the
    bytes are an encoding, of any length.
  - `AbiInv`, for `HeaderOrder` and `TagsAreUnique`: a member's type is numbered
    below the entry that holds it, so the stack is strictly decreasing and no call
    is made for an entry already on it. Hence every tag is either placed in
    `order` or on the stack, a child whose call has returned has a placed tag, and
    `LeaveStruct` places a tag after those its members hold. Tags come from
    `IsFree`, so they differ.
  - `KeepInv`, for `KeepsMembers`: every definition describes the entry that has
    its tag, and holds the children before the one its call looks at that cffi can
    express, at their `place`; a union that returned keeps those at offset 0.
  - `ApiInv`, for `CdefIsAccepted`: each call of `_members_body` is made for the
    child its caller looks at; the names taken are those of the definitions
    written and begun, each once; lines in place refer to nothing at any depth,
    and those of a definition only to definitions above it. A reference carries
    the kind of the entry it was made for, and the definition above may come from
    another entry of that name; the kinds agree if a name has one kind
    (`OneKindPerName`), which C guarantees within a file only. `NamesOnTheWay` is
    where `NamedOnce` is needed: no definition is asked for while it is being
    written.
  - `TellInv`, for `WritesMembers`: a call has written the children it looked at
    that can be told, a call in place gives up at the first that cannot, and
    `answer` tells whether the type is complete. `CompleteInPlace` is a function
    that refers to itself through the types an entry holds; `InPlaceDefined` shows,
    by induction on the numbers of the entries, that there is one.
  - `PrintInv` and `RepairInv`, for `HeaderExact`: the members an extractor keeps
    have a positive number of elements (`DimsAreNumbers`, `ProductIsPositive`) of a
    scalar type of a size in `Alignments` or of a definition placed earlier, and
    `InSourceOrder` lists them all. So what the extractor emits is `Acceptable`
    (`ExtractedIsAcceptable`), and from there on the invariant of
    `LayoutRepairProofs`, which that module proves of any acceptable start
    (`StartEstablishesInv`), holds of `generate`, by INSTANCE.
- `LayoutRepairProofs`: the invariant says of the members compared so far that
  `end` and `align` are their C layout and that it is the DWARF one; that structs
  before `at` are exact in this pass; that pads never exceed the gap DWARF leaves;
  and that a struct is opaque only for a reason in DWARF. A pad that grew is
  therefore never the cause of a later `MemberTooFar`.
  `OpaqueIsJustified` and `RepairsProgress` follow; most of the arithmetic is in
  lemmas about `RoundUp` with an alignment of 1, 2, 4 or 8. The loop compares
  struct by struct and relies on what it compared before. `HeaderExact` says the
  same of the header as a whole: `CLayout` is given by equations that refer to
  earlier members and earlier structs; the DWARF layout solves them when the repair
  is done, and two solutions would differ at a first member and a first struct
  (`OffsetsOfExact`, `CLayoutIsWanted`), which cannot be. `RepairsConverge` needs a
  second invariant, `Tally`, which says how the repairs made so far were paid for.
  A place that padding can make exact costs one. One that it cannot (its offset is
  no multiple of its alignment) costs a pad for every byte its predecessor's end
  moves, and each pad moves it by one at least (`PadGains`): at most the alignment,
  since a wider gap is not swallowed by rounding; then it costs the struct.
  Places behind the last repair are unpadded (`Unpadded`), and the structs before
  it have their whole budget `Needed`, which is a recursive function that `Budget`
  shows to be defined for any number of structs. The budget is a bound in numbers,
  not a well-founded measure, so it is a safety property and within the prover's
  reach.

- `BuildPipelineProofs`: the invariant is one conjunct per command of the run, each
  saying what its loop has done so far for the names it no longer has to do
  (`NinjaDone` ... `EnvDone`), and two that hold across runs: the empty target is
  never configured (`Known`), and no manifest names a file that is missing
  (`AllInPlace`), libraries apart, also after a run that died. A library that a
  dead run took away is linked again by the next run that asks for its directory;
  the KVM half of a run without KVM is the exception that `FailsOnlyIfRefused`
  names. A finished directory is `Complete`;
  the KVM half does not touch the system one (`SystemDone`). With
  `TargetsOfTargets` an alias never overwrites the library of another target.
  The archive then holds an entry for each name that left `todo` (`Packed`).

Two obstacles shaped these proofs. The prover cannot use an induction theorem that
takes a predicate, so induction is stated over a set, `NatSetInduction`, and proved
from the well-foundedness of `<`. And what a recursive function is must be proved
before it can be used: such lemmas exhibit a function that satisfies the equation
for every bound and let the induction extend it by one.

Only model-checked: liveness (`EveryRequestEnds`, `DropNoticed`, `HookReturns`, `GeneratorEnds`), which is beyond the prover.

## 5. Where the code and its texts disagree

1. *Reconnect before the deferred close* (`vsock_reopened_early`): OPENED is
   ignored because `connected` is still set, then the close clears it. The
   device stays disconnected on a live link.
   This contradicts the comment in `vuv_device_realize` that a dropped connection
   is re-established. If the asynchronous close also removes the event handler,
   `vuv_disconnect` does not put it back, and no reconnect is noticed any more
   (`armed`).
2. *Export is not reproducible* (`series_renumbered`): format-patch numbers files
   by position above the base, overlay included, so a commit on top of the
   overlay gets a number too high and the next round trip renames its file.
3. *Headers can drift from the library* (`build_drift`): the env generator's
   comment says nothing can. A run that completed its KVM half at version 1, a second at
   version 2 that dies after `ninja -C build-kvm`, and a third without KVM targets
   package the KVM library of version 2 with the env header of version 1, because
   the packager takes the manifest it finds.
4. *The hook runs under the BQL* (`after_guest_init_nested`): patch 0001's message
   says that the callback is invoked outside it, since taking it there deadlocks
   against Penguin's locking; the code takes it, or keeps it, and its own comment
   says why. With a thread of Penguin's that calls into QEMU from under Penguin's
   lock, startup holds the BQL and waits for Penguin's lock, the thread the
   reverse. Without such a thread `HookReturns` holds (`after_guest_init`).

Without a run of their own, since they restate one line: an edit of an overlay
file is exported although `README.md` says the invariant holds automatically
(`series` has such a patch, and `GreenIsCurated` says it never passes CI); the
docstring of `ApiCdefEmitter` says
bitfields and anonymous members are declared, while a definition that ends in
`...;` drops its bitfields (`WritesWhatItCan` says what is written).

Also modelled, and claimed by no text: a guest or KVM callback cleared while a
dispatch is between its test and its call is called through NULL, and a new guest
callback may be given the opaque of the old one (`NoNullCall` and `PairIntact` say
what it takes); a commit with VENDORED: in its subject is lost by an export;
`OpenedCrashes`, a failed restart that
leaves the error unset before it is reported; a failed load leaves the guest
stopped, and later loads do not start it; a refused or failed save may already
have deleted the snapshot it replaces.

## 6. Not modelled, and the plan

Planned modules, in order, with the theorem or refinement worth having:

1. `HypercallEntry`: the entry points of 0003-0009, registers and result width per
   architecture, what an unhandled call leaves, and whether TCG and KVM agree.
2. `EmbedderHooks`: QMP, reset and MMIO registration.
3. `VersionProbe`: the classification of patches and the state `git am` leaves.

Inside the modelled scripts: the text of the C that is printed (indentation, the
constant header template, comments), the flags harvested from
`compile_commands.json`, a cdef that cffi cannot parse, files that SIGKILL cuts short
while they are written, the header generator's own tarball, and the packager's
qemu-img, pc-bios and metadata entries.

Left out for good: meson rules and the one-constant board patch, Nix expressions,
the register and env accessors (sequential bounds checks), the greps of the
configuration checks, and the remaining CI workflows.
