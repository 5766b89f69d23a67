--------------------------- MODULE BuildPipeline ----------------------------
(* build.sh and the scripts it runs, from run to run: the build directories  *)
(* and the package stay, the source and what is asked for change, and a run  *)
(* can die at every step.  A library, header or module is known by the       *)
(* target and the version of the source it was made from.  A target is       *)
(* written without its -softmmu, which makes it the arch of its KVM library. *)
EXTENDS Naturals

CONSTANTS
  SystemArches,   \* values of PENGUIN_SYSTEM_ARCHES, as sets
  KvmTargets,     \* values of PENGUIN_KVM_TARGETS, as sets; {} for "none"
  MaxRuns, MaxVersions   \* bounds: runs of build.sh, versions of the source

SYSTEM_TARGETS ==
  [arch \in {"intel64", "x86_64", "armel", "arm", "aarch64", "mipsel", "mipseb", "mips",
             "mips64el", "mips64eb", "mips64", "powerpc", "ppc", "powerpc64", "powerpc64le",
             "powerpc64el", "ppc64", "riscv64", "loongarch64"} |->
     CASE arch = "intel64" -> "x86_64"
       [] arch = "armel" -> "arm"
       [] arch = "mipseb" -> "mips"
       [] arch = "mips64eb" -> "mips64"
       [] arch = "powerpc" -> "ppc"
       [] arch \in {"powerpc64", "powerpc64le", "powerpc64el"} -> "ppc64"
       [] OTHER -> arch]

(* With no arch it knows, configure would be left to its default targets and *)
(* ninja still refuse the library without a name: not worth a run.           *)
ASSUME SystemArchesAssumption == \A arches \in SystemArches : arches \cap DOMAIN SYSTEM_TARGETS # {}

VADDR_BITS == [a \in {"armel", "arm", "mipsel", "mipseb", "mips", "powerpc", "ppc"} |-> 32]
vaddr_bits_for_arch(arch) == IF arch \in DOMAIN VADDR_BITS THEN VADDR_BITS[arch] ELSE 64

Absent == [target |-> "", version |-> 0]
Empty == [n \in {} |-> Absent]
Put(f, x, v) == [y \in DOMAIN f \cup {x} |-> IF y = x THEN v ELSE f[y]]

VARIABLES
  source,     \* version of the source tree
  runs,       \* runs so far
  asked,      \* what this run is asked to build, and from which version
  step,       \* the command that runs, or how the run ended
  dir,        \* the build directory it works on
  todo,       \* what its loop still has to do
  draft,      \* the manifest in the memory of penguin-env-cffi-gen.py
  dirs,       \* what is on disk in each build directory
  archive,    \* penguin-qemu.tar.gz
  died        \* history: something outside failed, or ended, this run

vars == <<source, runs, asked, step, dir, todo, draft, dirs, archive, died>>

Init ==
  /\ source = 1 /\ runs = 0 /\ died = FALSE
  /\ asked = [system |-> {}, kvm |-> {}, version |-> source]
  /\ step = "new" /\ dir = "system" /\ todo = {} /\ draft = Empty
  /\ dirs = [d \in {"system", "kvm"} |->
               [targets |-> {}, libraries |-> Empty, headers |-> Empty, manifest |-> Empty,
                envHeaders |-> Empty, envModules |-> Empty]]
  /\ archive = [complete |-> FALSE, entries |-> {}]

-----------------------------------------------------------------------------
Ended == step \in {"new", "done", "failed"}

EditSource ==
  /\ Ended /\ source < MaxVersions
  /\ source' = source + 1
  /\ UNCHANGED <<runs, asked, step, dir, todo, draft, dirs, archive, died>>

StartRun(arches, kvm) ==
  /\ Ended /\ runs < MaxRuns
  /\ runs' = runs + 1 /\ died' = FALSE
  /\ asked' = [system |-> arches, kvm |-> kvm, version |-> source]
  /\ step' = "configure" /\ dir' = "system"
  /\ UNCHANGED <<source, todo, draft, dirs, archive>>

(* An arch the configuration does not know gives the empty target: the error *)
(* of the command substitution does not end the loop.                        *)
TargetOf(d, name) ==
  IF d = "kvm" THEN name
  ELSE IF name \in DOMAIN SYSTEM_TARGETS THEN SYSTEM_TARGETS[name] ELSE ""
AskedTargets == {TargetOf(dir, n) : n \in asked[dir]}
Here == dirs[dir]

(* configure_build_dir: an empty name in --target-list counts for nothing.   *)
Configure ==
  /\ step = "configure"
  /\ dirs' = IF Here.targets # {} THEN dirs
             ELSE [dirs EXCEPT ![dir].targets = AskedTargets \ {""}]
  /\ step' = "ninja" /\ todo' = AskedTargets
  /\ UNCHANGED <<source, runs, asked, dir, draft, archive, died>>

(* ninja does not know the library of a target that is not configured.       *)
NinjaRefuses ==
  /\ step = "ninja"
  /\ ~(todo \subseteq Here.targets)
  /\ step' = "failed"
  /\ UNCHANGED <<source, runs, asked, dir, todo, draft, dirs, archive, died>>

Ninja(target) ==
  /\ step = "ninja" /\ todo \subseteq Here.targets /\ target \in todo
  /\ dirs' = [dirs EXCEPT ![dir].libraries =
                Put(@, target, [target |-> target, version |-> source])]
  /\ IF todo # {target} THEN todo' = todo \ {target} /\ UNCHANGED step
     ELSE /\ todo' = asked[dir]
          /\ step' = IF dir = "system" THEN "aliases" ELSE "headers"
  /\ UNCHANGED <<source, runs, asked, dir, draft, archive, died>>

(* Mutant: only an alias that is there already is brought up to date.        *)
StageAlias_OnlyExisting(arch) ==
  /\ step = "aliases" /\ arch \in todo
  /\ dirs' = IF arch \notin DOMAIN Here.libraries THEN dirs
             ELSE [dirs EXCEPT ![dir].libraries = Put(@, arch, @[TargetOf(dir, arch)])]
  /\ IF todo # {arch} THEN todo' = todo \ {arch} /\ UNCHANGED step
     ELSE todo' = asked[dir] /\ step' = "headers"
  /\ UNCHANGED <<source, runs, asked, dir, draft, archive, died>>

(* stage_system_lib_aliases.  (The copy of a library to itself is left out.) *)
StageAlias(arch) ==
  /\ step = "aliases" /\ arch \in todo
  /\ dirs' = [dirs EXCEPT ![dir].libraries = Put(@, arch, @[TargetOf(dir, arch)])]
  /\ IF todo # {arch} THEN todo' = todo \ {arch} /\ UNCHANGED step
     ELSE todo' = asked[dir] /\ step' = "headers"
  /\ UNCHANGED <<source, runs, asked, dir, draft, archive, died>>

-----------------------------------------------------------------------------
(* penguin-cffi-gen.py: SystemExit at the first library that is missing.     *)
WriteHeader(name) ==
  /\ step = "headers" /\ name \in todo
  /\ IF name \in DOMAIN Here.libraries
     THEN /\ dirs' = [dirs EXCEPT ![dir].headers = Put(@, name, vaddr_bits_for_arch(name))]
          /\ todo' = todo \ {name}
          /\ UNCHANGED step
     ELSE step' = "failed" /\ UNCHANGED <<dirs, todo>>
  /\ UNCHANGED <<source, runs, asked, dir, draft, archive, died>>

(* The manifest replaces that of an earlier run, and with it its env keys.   *)
(* penguin-env-cffi-gen.py reads it next.                                    *)
WriteManifest ==
  /\ step = "headers" /\ todo = {}
  /\ draft' = [n \in asked[dir] |-> [target |-> TargetOf(dir, n), env |-> FALSE, module |-> FALSE]]
  /\ dirs' = [dirs EXCEPT ![dir].manifest = draft']
  /\ step' = "env" /\ todo' = asked[dir]
  /\ UNCHANGED <<source, runs, asked, dir, archive, died>>

-----------------------------------------------------------------------------
(* penguin-env-cffi-gen.py: the header and module of a target are made from  *)
(* the library of its first entry; the other entries get copies.             *)
SameTarget(name) == {n \in DOMAIN draft \ todo : draft[n].target = draft[name].target}

WriteEnv(name, header, compiled) ==
  /\ draft' = [draft EXCEPT ![name].env = TRUE, ![name].module = compiled]
  /\ dirs' = [dirs EXCEPT ![dir].envHeaders = Put(@, name, header),
                          ![dir].envModules = IF compiled THEN Put(@, draft[name].target, header) ELSE @]
  /\ todo' = todo \ {name}
  /\ UNCHANGED <<source, runs, asked, step, dir, archive, died>>

(* Mutant: a header that is there already is not made again.                 *)
GenerateEnv_OnlyMissing(name) ==
  /\ step = "env" /\ name \in todo
  /\ SameTarget(name) = {}
  /\ \E compiled \in BOOLEAN :
       WriteEnv(name, IF name \in DOMAIN Here.envHeaders THEN Here.envHeaders[name]
                      ELSE Here.libraries[name], compiled)

(* The module may fail to compile, and the entry goes without.               *)
GenerateEnv(name) ==
  /\ step = "env" /\ name \in todo
  /\ SameTarget(name) = {}
  /\ \E compiled \in BOOLEAN : WriteEnv(name, Here.libraries[name], compiled)

ShareEnv(name) ==
  /\ step = "env" /\ name \in todo
  /\ \E first \in SameTarget(name) :
       WriteEnv(name, Here.envHeaders[first], draft[first].module)

UpdateManifest ==
  /\ step = "env" /\ todo = {}
  /\ dirs' = [dirs EXCEPT ![dir].manifest = draft]
  /\ draft' = Empty
  /\ IF dir = "system" /\ asked.kvm # {}
     THEN step' = "configure" /\ dir' = "kvm"
     ELSE step' = "package" /\ UNCHANGED dir
  /\ UNCHANGED <<source, runs, asked, todo, archive, died>>

-----------------------------------------------------------------------------
(* penguin-qemu-package.py: the archive is opened under its final name; then *)
(* the manifests that are on disk say what goes into it.                     *)
OpenArchive ==
  /\ step = "package"
  /\ archive' = [complete |-> FALSE, entries |-> {}]
  /\ todo' = UNION {{<<d, n>> : n \in DOMAIN dirs[d].manifest} : d \in DOMAIN dirs}
  /\ step' = "archive"
  /\ UNCHANGED <<source, runs, asked, dir, draft, dirs, died>>

InPlace(d, n) ==
  LET entry == dirs[d].manifest[n]
  IN /\ n \in DOMAIN dirs[d].libraries /\ n \in DOMAIN dirs[d].headers
     /\ entry.env => n \in DOMAIN dirs[d].envHeaders
     /\ entry.module => entry.target \in DOMAIN dirs[d].envModules

(* SystemExit at the first file that is missing.                             *)
AddEntry(d, n) ==
  /\ step = "archive" /\ <<d, n>> \in todo
  /\ LET on == dirs[d]
         entry == on.manifest[n]
     IN IF InPlace(d, n)
        THEN /\ archive' = [archive EXCEPT !.entries = @ \cup
                  {[dir |-> d, name |-> n, library |-> on.libraries[n], bits |-> on.headers[n],
                    env |-> IF entry.env THEN on.envHeaders[n] ELSE Absent,
                    module |-> IF entry.module THEN on.envModules[entry.target] ELSE Absent]}]
             /\ todo' = todo \ {<<d, n>>}
             /\ UNCHANGED step
        ELSE step' = "failed" /\ UNCHANGED <<archive, todo>>
  /\ UNCHANGED <<source, runs, asked, dir, draft, dirs, died>>

CloseArchive ==
  /\ step = "archive" /\ todo = {}
  /\ archive' = [archive EXCEPT !.complete = TRUE]
  /\ step' = "done"
  /\ UNCHANGED <<source, runs, asked, dir, todo, draft, dirs, died>>

(* A compiler error, a library without usable debug information, no target   *)
(* in compile_commands.json, a full disk, a signal: the run is over.  The    *)
(* libraries ninja was about to link may be gone, those of earlier runs      *)
(* included: a link that fails or is stopped takes its output away.  Nothing *)
(* else that was written is taken back.                                      *)
Linking == IF step = "ninja" /\ todo \subseteq Here.targets THEN todo ELSE {}
Without(f, names) == [n \in DOMAIN f \ names |-> f[n]]
Dies ==
  /\ ~Ended
  /\ step' = "failed" /\ died' = TRUE
  /\ \E gone \in SUBSET Linking :
       dirs' = [dirs EXCEPT ![dir].libraries = Without(@, gone)]
  /\ UNCHANGED <<source, runs, asked, dir, todo, draft, archive>>

Next ==
  \/ EditSource
  \/ \E arches \in SystemArches, kvm \in KvmTargets : StartRun(arches, kvm)
  \/ Configure \/ NinjaRefuses \/ WriteManifest \/ UpdateManifest
  \/ \E n \in todo :
       \/ Ninja(n) \/ StageAlias(n) \/ WriteHeader(n)
       \/ GenerateEnv(n) \/ ShareEnv(n)
  \/ OpenArchive \/ CloseArchive
  \/ \E p \in todo : step = "archive" /\ AddEntry(p[1], p[2])
  \/ Dies

Spec == Init /\ [][Next]_vars
-----------------------------------------------------------------------------
(* A run that ends well has packaged what it was asked for: each arch has    *)
(* the library of its target built from this source, an env header made from *)
(* that library, a compiled module made from it or none, and the virtual     *)
(* address width of its target, whatever earlier runs were asked for and     *)
(* wherever they died.  The KVM part is promised only if it was asked for.   *)
Current(e) ==
  /\ e.library = [target |-> TargetOf(e.dir, e.name), version |-> asked.version]
  /\ e.env = e.library
  /\ e.module \in {Absent, e.library}
  /\ e.bits = vaddr_bits_for_arch(e.library.target)
ShipsWhatWasAsked ==
  step = "done" =>
    /\ archive.complete
    /\ \A d \in {"system", "kvm"} : asked[d] # {} =>
         LET entries == {e \in archive.entries : e.dir = d}
         IN /\ {e.name : e \in entries} = asked[d]
            /\ \A e \in entries : Current(e)

(* What earlier runs left behind makes a run fail in two ways only: the build*)
(* directory was configured for other targets, and a KVM library is gone,    *)
(* which an earlier run linked again in vain and this one does not ask for.  *)
(* Apart from that a run fails on an arch it does not know.                  *)
KvmLibraryGone ==
  \E n \in DOMAIN dirs["kvm"].manifest : n \notin DOMAIN dirs["kvm"].libraries
FailsOnlyIfRefused ==
  step = "failed" /\ ~died =>
    \/ \E n \in asked[dir] : TargetOf(dir, n) \notin Here.targets
    \/ asked.kvm = {} /\ KvmLibraryGone

(* "Field names are enumerated from the library's DWARF, so nothing can drift*)
(* from the binary" (penguin-env-cffi-gen.py): the env header in a package   *)
(* was made from the library next to it.                                     *)
NothingDrifts ==
  archive.complete => \A e \in archive.entries : e.env # Absent => e.env = e.library
=============================================================================
