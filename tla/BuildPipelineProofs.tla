------------------------ MODULE BuildPipelineProofs -------------------------
(* A run of build.sh that ends well ships what it was asked for, and what    *)
(* earlier runs left behind makes one fail in two ways only, for any         *)
(* requests, any number of runs and any number of changes of the source.     *)
EXTENDS BuildPipeline, TLAPS

Dirs == {"system", "kvm"}
Made(target) == [target |-> target, version |-> asked.version]

(* What a build directory holds for a name that was asked for.               *)
HasLib(d, n, target) ==
  n \in DOMAIN dirs[d].libraries /\ dirs[d].libraries[n] = Made(target)
HasHeader(d, n) ==
  n \in DOMAIN dirs[d].headers /\ dirs[d].headers[n] = vaddr_bits_for_arch(n)
HasEnv(d, n, entry) ==
  /\ entry.target = TargetOf(d, n) /\ entry.env
  /\ n \in DOMAIN dirs[d].envHeaders /\ dirs[d].envHeaders[n] = Made(TargetOf(d, n))
  /\ entry.module => /\ TargetOf(d, n) \in DOMAIN dirs[d].envModules
                     /\ dirs[d].envModules[TargetOf(d, n)] = Made(TargetOf(d, n))
Complete(d) ==
  /\ DOMAIN dirs[d].manifest = asked[d]
  /\ \A n \in asked[d] : /\ TargetOf(d, n) # "" /\ HasLib(d, n, TargetOf(d, n))
                         /\ HasHeader(d, n) /\ HasEnv(d, n, dirs[d].manifest[n])

DirShape(on) ==
  on = [targets |-> on.targets, libraries |-> on.libraries, headers |-> on.headers,
        manifest |-> on.manifest, envHeaders |-> on.envHeaders, envModules |-> on.envModules]
EntryShape(entry) ==
  /\ entry = [target |-> entry.target, env |-> entry.env, module |-> entry.module]
  /\ entry.module \in BOOLEAN

Shape ==
  /\ dir \in Dirs
  /\ asked = [system |-> asked.system, kvm |-> asked.kvm, version |-> asked.version]
  /\ dirs = [d \in Dirs |-> dirs[d]] /\ \A d \in Dirs : DirShape(dirs[d])
  /\ archive = [complete |-> archive.complete, entries |-> archive.entries]

(* The empty target of an unknown arch is never configured.                  *)
Known == \A d \in Dirs : "" \notin dirs[d].targets

ThisSource == ~Ended => asked.version = source /\ asked.system # {}

(* What the loop of the current step has done.                               *)
NinjaDone ==
  step = "ninja" =>
    /\ todo \subseteq AskedTargets
    /\ \A t \in AskedTargets \ todo : t \in Here.targets /\ HasLib(dir, t, t)
Configured ==
  step \in {"aliases", "headers", "env"} =>
    /\ todo \subseteq asked[dir]
    /\ \A n \in asked[dir] : TargetOf(dir, n) # ""
AliasesDone ==
  step = "aliases" =>
    /\ dir = "system"
    /\ \A t \in AskedTargets : HasLib(dir, t, t)
    /\ \A n \in asked[dir] \ todo : HasLib(dir, n, TargetOf(dir, n))
HeadersDone ==
  /\ step \in {"headers", "env"} => \A n \in asked[dir] : HasLib(dir, n, TargetOf(dir, n))
  /\ step = "headers" => \A n \in asked[dir] \ todo : HasHeader(dir, n)
EnvDone ==
  step = "env" =>
    /\ DOMAIN draft = asked[dir]
    /\ draft = [n \in asked[dir] |-> draft[n]]
    /\ \A n \in asked[dir] :
         HasHeader(dir, n) /\ EntryShape(draft[n]) /\ draft[n].target = TargetOf(dir, n)
    /\ \A n \in asked[dir] \ todo : HasEnv(dir, n, draft[n])

(* What earlier steps of the run have done.                                  *)
SystemDone ==
  dir = "kvm" /\ step \in {"configure", "ninja", "aliases", "headers", "env"}
    => Complete("system")
AllDone ==
  step \in {"package", "archive", "done"}
    => \A d \in Dirs : asked[d] # {} => Complete(d)
Packed ==
  /\ step = "archive" =>
       \A p \in todo : \E d \in Dirs : \E n \in DOMAIN dirs[d].manifest : p = <<d, n>>
  /\ step \in {"archive", "done"} =>
       \A d \in Dirs : asked[d] # {} =>
         /\ \A e \in archive.entries : e.dir = d => e.name \in asked[d] /\ Current(e)
         /\ \A n \in asked[d] :
              <<d, n>> \in todo \/ \E e \in archive.entries : e.dir = d /\ e.name = n
  /\ step = "done" => todo = {} /\ archive.complete

(* No file a manifest names is missing, whichever run wrote it, but a library.*)
RestInPlace(d, n) ==
  LET entry == dirs[d].manifest[n]
  IN /\ n \in DOMAIN dirs[d].headers
     /\ entry.env => n \in DOMAIN dirs[d].envHeaders
     /\ entry.module => entry.target \in DOMAIN dirs[d].envModules
AllInPlace == \A d \in Dirs : \A n \in DOMAIN dirs[d].manifest : RestInPlace(d, n)

Inv ==
  /\ Shape /\ Known /\ ThisSource
  /\ NinjaDone /\ Configured /\ AliasesDone /\ HeadersDone /\ EnvDone
  /\ SystemDone /\ AllDone /\ Packed /\ AllInPlace /\ FailsOnlyIfRefused
-----------------------------------------------------------------------------
(* The target of a target is itself, and as wide.                            *)
LEMMA TargetsOfTargets ==
  ASSUME NEW d \in Dirs, NEW n, TargetOf(d, n) # ""
  PROVE  /\ TargetOf(d, TargetOf(d, n)) = TargetOf(d, n)
         /\ vaddr_bits_for_arch(TargetOf(d, n)) = vaddr_bits_for_arch(n)
<1>1. CASE d = "kvm"
  BY <1>1 DEF TargetOf
<1>2. CASE d = "system"
  <2>1. n \in DOMAIN SYSTEM_TARGETS /\ TargetOf(d, n) = SYSTEM_TARGETS[n]
    BY <1>2 DEF TargetOf
  <2>2. CASE SYSTEM_TARGETS[n] = n
    BY <1>2, <2>1, <2>2 DEF TargetOf
  <2>3. CASE SYSTEM_TARGETS[n] # n
    <3>1. n \in {"intel64", "armel", "mipseb", "mips64eb", "powerpc", "powerpc64",
                 "powerpc64le", "powerpc64el"}
      BY <2>1, <2>3 DEF SYSTEM_TARGETS
    <3> QED
      BY <1>2, <2>1, <3>1 DEF TargetOf, SYSTEM_TARGETS, vaddr_bits_for_arch, VADDR_BITS
  <2> QED
    BY <2>2, <2>3
<1> QED
  BY <1>1, <1>2 DEF Dirs

LEMMA InitEstablishesInv == Init => Inv
<1> SUFFICES ASSUME Init PROVE Inv
  OBVIOUS
<1>1. Shape
  BY DEF Init, Shape, DirShape, Dirs
<1>2. Known /\ AllInPlace
  BY DEF Init, Known, AllInPlace, Dirs, Empty
<1> QED
  BY <1>1, <1>2 DEF Init, Inv, ThisSource, Ended, NinjaDone, Configured, AliasesDone, HeadersDone,
     EnvDone, SystemDone, AllDone, Packed, FailsOnlyIfRefused

(* What Inv says of the disk only depends on the disk and the request.       *)
LEMMA SameFiles ==
  ASSUME UNCHANGED <<dirs, asked>>
  PROVE  /\ \A d, n, target : HasLib(d, n, target)' <=> HasLib(d, n, target)
         /\ \A d, n : HasHeader(d, n)' <=> HasHeader(d, n)
         /\ \A d, n, entry : HasEnv(d, n, entry)' <=> HasEnv(d, n, entry)
         /\ \A d : Complete(d)' <=> Complete(d)
         /\ \A d, n : RestInPlace(d, n)' <=> RestInPlace(d, n)
         /\ \A e : Current(e)' <=> Current(e)
         /\ Known' <=> Known
         /\ AllInPlace' <=> AllInPlace
  BY DEF HasLib, HasHeader, HasEnv, Complete, RestInPlace, Current, Known, AllInPlace, Made, TargetOf

SameButTargets(d) ==
  /\ dirs'[d].libraries = dirs[d].libraries /\ dirs'[d].headers = dirs[d].headers
  /\ dirs'[d].manifest = dirs[d].manifest
  /\ dirs'[d].envHeaders = dirs[d].envHeaders /\ dirs'[d].envModules = dirs[d].envModules

LEMMA SameDirectory ==
  ASSUME NEW d, SameButTargets(d), UNCHANGED asked
  PROVE  Complete(d)' <=> Complete(d)
<1>1. \A n, target : HasLib(d, n, target)' <=> HasLib(d, n, target)
  BY DEF HasLib, Made, SameButTargets
<1>2. \A n : HasHeader(d, n)' <=> HasHeader(d, n)
  BY DEF HasHeader, SameButTargets
<1>3. \A n, entry : HasEnv(d, n, entry)' <=> HasEnv(d, n, entry)
  BY DEF HasEnv, Made, TargetOf, SameButTargets
<1>4. dirs'[d].manifest = dirs[d].manifest /\ asked'[d] = asked[d]
  BY DEF SameButTargets
<1>5. \A n : HasEnv(d, n, dirs[d].manifest[n])' <=> HasEnv(d, n, dirs[d].manifest[n])
  BY <1>3, <1>4 DEF HasEnv, Made, TargetOf, SameButTargets
<1> QED
  BY <1>1, <1>2, <1>4, <1>5 DEF Complete, TargetOf

SameFilesHere ==
  /\ dirs'[dir].libraries = dirs[dir].libraries /\ dirs'[dir].headers = dirs[dir].headers
  /\ dirs'[dir].envHeaders = dirs[dir].envHeaders /\ dirs'[dir].envModules = dirs[dir].envModules

LEMMA StopKeepsInv ==
  ASSUME Inv, EditSource \/ NinjaRefuses \/ UNCHANGED vars
  PROVE  Inv'
<1>1. UNCHANGED <<dirs, asked, dir, todo, archive, draft>>
  BY DEF EditSource, NinjaRefuses, vars
<1>2. step' = step \/ step' = "failed"
  BY DEF EditSource, NinjaRefuses, vars
<1>3. Shape' /\ Known' /\ AllInPlace'
  BY <1>1, SameFiles DEF Inv, Shape, DirShape
<1>4. ThisSource'
  BY <1>1, <1>2 DEF Inv, ThisSource, Ended, EditSource, NinjaRefuses, vars
<1>5. AskedTargets' = AskedTargets /\ Here' = Here
  BY <1>1 DEF AskedTargets, Here, TargetOf
<1>6. NinjaDone' /\ Configured' /\ AliasesDone' /\ HeadersDone' /\ EnvDone'
  BY <1>1, <1>2, <1>5, SameFiles
     DEF Inv, NinjaDone, Configured, AliasesDone, HeadersDone, EnvDone, EntryShape
<1>7. SystemDone' /\ AllDone' /\ Packed'
  BY <1>1, <1>2, SameFiles DEF Inv, SystemDone, AllDone, Packed
<1>8. FailsOnlyIfRefused'
  <2>1. CASE NinjaRefuses
    <3>1. PICK target \in AskedTargets : target \notin Here.targets
      BY <2>1 DEF NinjaRefuses, Inv, NinjaDone
    <3> QED
      BY <3>1, <1>1, <1>5 DEF FailsOnlyIfRefused, AskedTargets, TargetOf
  <2>2. CASE EditSource \/ UNCHANGED vars
    BY <2>2, <1>1, <1>5 DEF Inv, FailsOnlyIfRefused, KvmLibraryGone, EditSource, vars
  <2> QED
    BY <2>1, <2>2
<1> QED
  BY <1>3, <1>4, <1>6, <1>7, <1>8 DEF Inv

LEMMA DiesKeepsInv == ASSUME Inv, Dies PROVE Inv'
<1>1. /\ UNCHANGED <<asked, dir, archive>> /\ step' = "failed" /\ died'
      /\ \E gone : dirs' = [dirs EXCEPT ![dir].libraries = Without(@, gone)]
  BY DEF Dies
<1>2. PICK gone : dirs' = [dirs EXCEPT ![dir].libraries = Without(@, gone)]
  BY <1>1
<1> DEFINE left == Without(dirs[dir].libraries, gone)
<1>3. /\ dirs' = [d \in Dirs |-> dirs'[d]] /\ dir \in Dirs
      /\ \A d \in Dirs : d # dir => dirs'[d] = dirs[d]
      /\ dirs'[dir] = [dirs[dir] EXCEPT !.libraries = left]
  BY <1>2 DEF Inv, Shape
<1> HIDE DEF left
<1>4. \A d \in Dirs : /\ DirShape(dirs'[d])
                      /\ dirs'[d].targets = dirs[d].targets
                      /\ dirs'[d].headers = dirs[d].headers
                      /\ dirs'[d].manifest = dirs[d].manifest
                      /\ dirs'[d].envHeaders = dirs[d].envHeaders
                      /\ dirs'[d].envModules = dirs[d].envModules
  BY <1>3 DEF Inv, Shape, DirShape
<1>5. Shape' /\ Known'
  BY <1>1, <1>3, <1>4 DEF Inv, Shape, Known
<1>6. AllInPlace'
  BY <1>4 DEF Inv, AllInPlace, RestInPlace
<1> QED
  BY <1>1, <1>5, <1>6 DEF Inv, ThisSource, Ended, NinjaDone, Configured, AliasesDone, HeadersDone,
     EnvDone, SystemDone, AllDone, Packed, FailsOnlyIfRefused

LEMMA StartRunKeepsInv ==
  ASSUME Inv, NEW arches \in SystemArches, NEW kvm, StartRun(arches, kvm)
  PROVE  Inv'
<1>1. UNCHANGED <<dirs, archive>> /\ dir' = "system" /\ step' = "configure"
      /\ asked' = [system |-> arches, kvm |-> kvm, version |-> source] /\ source' = source
  BY DEF StartRun
<1>3. asked'.system # {}
  BY <1>1, SystemArchesAssumption
<1>2. Shape' /\ Known' /\ AllInPlace'
  BY <1>1 DEF Inv, Shape, DirShape, Dirs, Known, AllInPlace, RestInPlace
<1> QED
  BY <1>1, <1>2, <1>3 DEF Inv, ThisSource, NinjaDone, Configured, AliasesDone, HeadersDone, EnvDone,
     SystemDone, AllDone, Packed, FailsOnlyIfRefused

-----------------------------------------------------------------------------
LEMMA OpenArchiveKeepsInv == ASSUME Inv, OpenArchive PROVE Inv'
<1>1. /\ UNCHANGED <<dirs, asked, dir, source>> /\ step = "package" /\ step' = "archive"
      /\ archive' = [complete |-> FALSE, entries |-> {}]
      /\ todo' = UNION {{<<d, n>> : n \in DOMAIN dirs[d].manifest} : d \in DOMAIN dirs}
  BY DEF OpenArchive
<1>2. DOMAIN dirs = Dirs
  BY DEF Inv, Shape
<1>3. Shape' /\ Known' /\ AllInPlace'
  BY <1>1, SameFiles DEF Inv, Shape, DirShape
<1>4. AllDone' /\ AllDone
  BY <1>1, SameFiles DEF Inv, AllDone
<1>5. Packed'
  <2>1. \A p \in todo' : \E d \in Dirs : \E n \in DOMAIN dirs[d].manifest : p = <<d, n>>
    BY <1>1, <1>2
  <2>2. ASSUME NEW d \in Dirs, NEW n \in asked[d] PROVE <<d, n>> \in todo'
    <3>1. n \in DOMAIN dirs[d].manifest
      BY <1>1, <1>4 DEF AllDone, Complete
    <3>2. <<d, n>> \in {<<d, m>> : m \in DOMAIN dirs[d].manifest}
      BY <3>1
    <3> QED
      BY <3>2, <1>1, <1>2
  <2> QED
    BY <1>1, <2>1, <2>2 DEF Packed
<1> QED
  BY <1>1, <1>3, <1>4, <1>5 DEF Inv, ThisSource, Ended, NinjaDone, Configured, AliasesDone,
     HeadersDone, EnvDone, SystemDone, FailsOnlyIfRefused

LEMMA CloseArchiveKeepsInv == ASSUME Inv, CloseArchive PROVE Inv'
<1>1. /\ UNCHANGED <<dirs, asked, dir, source, todo>> /\ step = "archive" /\ step' = "done"
      /\ todo = {} /\ archive' = [archive EXCEPT !.complete = TRUE]
  BY DEF CloseArchive
<1>2. archive' = [complete |-> TRUE, entries |-> archive.entries]
  BY <1>1 DEF Inv, Shape
<1>3. Shape' /\ Known' /\ AllInPlace' /\ AllDone'
  BY <1>1, <1>2, SameFiles DEF Inv, Shape, DirShape, AllDone
<1>4. Packed'
  BY <1>1, <1>2, SameFiles DEF Inv, Packed
<1> QED
  BY <1>1, <1>3, <1>4 DEF Inv, ThisSource, Ended, NinjaDone, Configured, AliasesDone,
     HeadersDone, EnvDone, SystemDone, FailsOnlyIfRefused

(* The entry made for a name that was asked for.                             *)
LEMMA EntriesAreCurrent ==
  ASSUME NEW d \in Dirs, Complete(d), NEW n \in asked[d], NEW e,
         e = [dir |-> d, name |-> n, library |-> dirs[d].libraries[n], bits |-> dirs[d].headers[n],
              env |-> IF dirs[d].manifest[n].env THEN dirs[d].envHeaders[n] ELSE Absent,
              module |-> IF dirs[d].manifest[n].module
                         THEN dirs[d].envModules[dirs[d].manifest[n].target] ELSE Absent]
  PROVE  Current(e)
<1> DEFINE target == TargetOf(d, n)
<1>1. /\ target # "" /\ e.dir = d /\ e.name = n
      /\ e.library = Made(target) /\ e.env = Made(target) /\ e.module \in {Absent, Made(target)}
      /\ e.bits = vaddr_bits_for_arch(n)
  BY DEF Complete, HasLib, HasHeader, HasEnv
<1>2. vaddr_bits_for_arch(target) = vaddr_bits_for_arch(n)
  BY <1>1, TargetsOfTargets
<1> HIDE DEF target
<1>3. e.library.target = target
  <2>1. Made(target).target = target
    BY DEF Made
  <2> QED
    BY <1>1, <2>1, Zenon
<1>4. TargetOf(e.dir, e.name) = target
  BY <1>1 DEF target
<1> QED
  BY <1>1, <1>2, <1>3, <1>4 DEF Current, Made

(* A file is missing only if it is a library this run was not asked for.     *)
LEMMA AddEntryFindsAsked ==
  ASSUME Inv, NEW d, NEW n, AddEntry(d, n)
  PROVE  /\ d \in Dirs /\ n \in DOMAIN dirs[d].manifest
         /\ InPlace(d, n) \/ (asked.kvm = {} /\ KvmLibraryGone)
<1>1. step = "archive" /\ <<d, n>> \in todo
  BY DEF AddEntry
<1>2. d \in Dirs /\ n \in DOMAIN dirs[d].manifest
  BY <1>1 DEF Inv, Packed
<1>3. RestInPlace(d, n)
  BY <1>2 DEF Inv, AllInPlace
<1>4. ASSUME asked[d] # {} PROVE n \in DOMAIN dirs[d].libraries
  BY <1>1, <1>2, <1>4 DEF Inv, AllDone, Complete, HasLib
<1>5. ASSUME asked[d] = {} PROVE d = "kvm"
  BY <1>1, <1>2, <1>5 DEF Inv, ThisSource, Ended, Dirs
<1>6. CASE n \in DOMAIN dirs[d].libraries
  BY <1>2, <1>3, <1>6 DEF InPlace, RestInPlace
<1>7. CASE n \notin DOMAIN dirs[d].libraries
  <2>1. d = "kvm" /\ asked[d] = {}
    BY <1>4, <1>5, <1>7
  <2> QED
    BY <1>2, <1>7, <2>1 DEF KvmLibraryGone, Inv, Shape
<1> QED
  BY <1>2, <1>6, <1>7

LEMMA AddEntryFailsKeepsInv ==
  ASSUME Inv, NEW d, NEW n, AddEntry(d, n), ~InPlace(d, n)
  PROVE  Inv'
<1>1. UNCHANGED <<dirs, asked, dir, archive, died>> /\ step' = "failed"
  BY DEF AddEntry
<1>2. Shape' /\ Known' /\ AllInPlace'
  BY <1>1, SameFiles DEF Inv, Shape, DirShape
<1>3. FailsOnlyIfRefused'
  <2>1. asked.kvm = {} /\ KvmLibraryGone
    BY AddEntryFindsAsked
  <2> QED
    BY <2>1, <1>1 DEF FailsOnlyIfRefused, KvmLibraryGone
<1> QED
  BY <1>1, <1>2, <1>3 DEF Inv, ThisSource, Ended, NinjaDone, Configured, AliasesDone, HeadersDone,
     EnvDone, SystemDone, AllDone, Packed

LEMMA AddEntryAddsKeepsInv ==
  ASSUME Inv, NEW d, NEW n, AddEntry(d, n), InPlace(d, n)
  PROVE  Inv'
<1>1. /\ UNCHANGED <<dirs, asked, dir, source>> /\ step = "archive" /\ <<d, n>> \in todo
  BY DEF AddEntry
<1>2. d \in Dirs /\ n \in DOMAIN dirs[d].manifest
  BY AddEntryFindsAsked
<1> DEFINE e == [dir |-> d, name |-> n, library |-> dirs[d].libraries[n],
              bits |-> dirs[d].headers[n],
              env |-> IF dirs[d].manifest[n].env THEN dirs[d].envHeaders[n] ELSE Absent,
              module |-> IF dirs[d].manifest[n].module
                         THEN dirs[d].envModules[dirs[d].manifest[n].target] ELSE Absent]
<1>4. /\ archive' = [archive EXCEPT !.entries = @ \cup {e}]
      /\ todo' = todo \ {<<d, n>>} /\ step' = step
  BY DEF AddEntry
<1>5. e.dir = d /\ e.name = n
  OBVIOUS
<1>6. asked[d] # {} => Complete(d)
  BY <1>1, <1>2 DEF Inv, AllDone
<1>7. asked[d] # {} => n \in asked[d]
  BY <1>2, <1>6 DEF Complete
<1>8. asked[d] # {} => Current(e)
  BY <1>2, <1>6, <1>7, EntriesAreCurrent
<1> HIDE DEF e
<1>9. archive' = [complete |-> archive.complete, entries |-> archive.entries \cup {e}]
  BY <1>4 DEF Inv, Shape
<1>10. Shape' /\ Known' /\ AllInPlace' /\ AllDone'
  BY <1>1, <1>4, <1>9, SameFiles DEF Inv, Shape, DirShape, AllDone
<1>11. Packed'
  <2>1. \A p \in todo' : \E c \in Dirs : \E m \in DOMAIN dirs[c].manifest : p = <<c, m>>
    BY <1>1, <1>4 DEF Inv, Packed
  <2>2. ASSUME NEW c \in Dirs, asked[c] # {}
        PROVE  /\ \A f \in archive'.entries : f.dir = c => f.name \in asked[c] /\ Current(f)
               /\ \A m \in asked[c] :
                    <<c, m>> \in todo' \/ \E f \in archive'.entries : f.dir = c /\ f.name = m
    <3>1. \A f \in archive.entries : f.dir = c => f.name \in asked[c] /\ Current(f)
      BY <1>1, <2>2 DEF Inv, Packed
    <3>2. \A m \in asked[c] :
            <<c, m>> \in todo \/ \E f \in archive.entries : f.dir = c /\ f.name = m
      BY <1>1, <2>2 DEF Inv, Packed
    <3>3. archive'.entries = archive.entries \cup {e}
      BY <1>9
    <3>4. \A f \in archive'.entries : f.dir = c => f.name \in asked[c] /\ Current(f)
      BY <3>1, <3>3, <2>2, <1>5, <1>7, <1>8
    <3>5. \A m \in asked[c] :
            <<c, m>> \in todo' \/ \E f \in archive'.entries : f.dir = c /\ f.name = m
      BY <3>2, <3>3, <1>4, <1>5
    <3> QED
      BY <3>4, <3>5
  <2> QED
    BY <2>1, <2>2, <1>1, <1>4, SameFiles DEF Packed
<1> QED
  BY <1>1, <1>4, <1>10, <1>11 DEF Inv, ThisSource, Ended, NinjaDone, Configured, AliasesDone,
     HeadersDone, EnvDone, SystemDone, FailsOnlyIfRefused

LEMMA AddEntryKeepsInv ==
  ASSUME Inv, NEW d, NEW n, AddEntry(d, n)
  PROVE  Inv'
  BY AddEntryFailsKeepsInv, AddEntryAddsKeepsInv

-----------------------------------------------------------------------------
(* A library is written in the build directory of the step.                  *)
LEMMA LibraryWritten ==
  ASSUME Shape, NEW n, NEW v, dirs' = [dirs EXCEPT ![dir].libraries = Put(@, n, v)],
         UNCHANGED <<asked, dir>>
  PROVE  /\ dirs' = [d \in Dirs |-> dirs'[d]] /\ \A d \in Dirs : DirShape(dirs'[d])
         /\ Known => Known'
         /\ AllInPlace => AllInPlace'
         /\ \A d \in Dirs : dirs'[d].targets = dirs[d].targets
         /\ \A d \in Dirs : d # dir /\ Complete(d) => Complete(d)'
         /\ \A d \in Dirs : \A m, target :
              HasLib(d, m, target) /\ (m = n => v = Made(target)) => HasLib(d, m, target)'
         /\ \A target : v = Made(target) => HasLib(dir, n, target)'
<1>1. /\ dirs' = [d \in Dirs |-> dirs'[d]] /\ \A d \in Dirs : DirShape(dirs'[d])
      /\ \A d \in Dirs : d # dir => dirs'[d] = dirs[d]
      /\ dirs'[dir] = [dirs[dir] EXCEPT !.libraries = Put(@, n, v)]
  BY DEF Shape, DirShape
<1>2. /\ \A d \in Dirs : /\ dirs'[d].targets = dirs[d].targets
                          /\ dirs'[d].headers = dirs[d].headers
                          /\ dirs'[d].manifest = dirs[d].manifest
                          /\ dirs'[d].envHeaders = dirs[d].envHeaders
                          /\ dirs'[d].envModules = dirs[d].envModules
      /\ dirs'[dir].libraries = Put(dirs[dir].libraries, n, v)
  BY <1>1 DEF Shape, DirShape
<1>3. /\ DOMAIN dirs'[dir].libraries = DOMAIN dirs[dir].libraries \cup {n}
      /\ dirs'[dir].libraries[n] = v
      /\ \A m \in DOMAIN dirs[dir].libraries : m # n => dirs'[dir].libraries[m] = dirs[dir].libraries[m]
  BY <1>2 DEF Put
<1>4. Known => Known'
  BY <1>2 DEF Known
<1>5. \A d \in Dirs : DOMAIN dirs[d].libraries \subseteq DOMAIN dirs'[d].libraries
  BY <1>1, <1>3
<1>6. AllInPlace => AllInPlace'
  BY <1>2, <1>5 DEF AllInPlace, RestInPlace
<1>7. \A d \in Dirs : d # dir /\ Complete(d) => Complete(d)'
  BY <1>1, SameDirectory DEF SameButTargets
<1>8. \A d \in Dirs : \A m, target :
        HasLib(d, m, target) /\ (m = n => v = Made(target)) => HasLib(d, m, target)'
  BY <1>1, <1>3 DEF HasLib, Made
<1>9. \A target : v = Made(target) => HasLib(dir, n, target)'
  BY <1>3 DEF HasLib, Made
<1> QED
  BY <1>1, <1>2, <1>4, <1>6, <1>7, <1>8, <1>9

LEMMA ConfigureKeepsInv == ASSUME Inv, Configure PROVE Inv'
<1>1. /\ UNCHANGED <<asked, dir, archive, source, draft>>
      /\ step = "configure" /\ step' = "ninja" /\ todo' = AskedTargets
  BY DEF Configure
<1>2. \/ dirs' = dirs
      \/ dirs' = [dirs EXCEPT ![dir].targets = AskedTargets \ {""}]
  BY DEF Configure
<1>3. /\ dirs' = [d \in Dirs |-> dirs'[d]] /\ \A d \in Dirs : DirShape(dirs'[d])
      /\ \A d \in Dirs : SameButTargets(d) /\ "" \notin dirs'[d].targets
  <2>1. CASE dirs' = dirs
    BY <2>1 DEF Inv, Shape, Known, SameButTargets
  <2>2. CASE dirs' = [dirs EXCEPT ![dir].targets = AskedTargets \ {""}]
    <3>1. /\ dirs' = [d \in Dirs |-> dirs'[d]] /\ \A d \in Dirs : d # dir => dirs'[d] = dirs[d]
          /\ dirs'[dir] = [dirs[dir] EXCEPT !.targets = AskedTargets \ {""}]
      BY <2>2 DEF Inv, Shape
    <3>2. ASSUME NEW d \in Dirs, d # dir
          PROVE  DirShape(dirs'[d]) /\ SameButTargets(d) /\ "" \notin dirs'[d].targets
      BY <3>1, <3>2 DEF Inv, Shape, Known, SameButTargets
    <3>3. DirShape(dirs'[dir]) /\ SameButTargets(dir) /\ "" \notin dirs'[dir].targets
      BY <3>1 DEF Inv, Shape, DirShape, Known, SameButTargets
    <3> QED
      BY <3>1, <3>2, <3>3
  <2> QED
    BY <1>2, <2>1, <2>2
<1>4. Shape' /\ Known'
  BY <1>1, <1>3 DEF Inv, Shape, Known
<1>5. AllInPlace'
  BY <1>3 DEF Inv, AllInPlace, RestInPlace, SameButTargets
<1>6. \A d \in Dirs : Complete(d) => Complete(d)'
  BY <1>1, <1>3, SameDirectory
<1>7. SystemDone'
  BY <1>1, <1>6 DEF Inv, SystemDone, Dirs
<1>8. NinjaDone'
  BY <1>1 DEF NinjaDone, AskedTargets, TargetOf
<1> QED
  BY <1>1, <1>4, <1>5, <1>7, <1>8 DEF Inv, ThisSource, Ended, Configured, AliasesDone, HeadersDone,
     EnvDone, AllDone, Packed, FailsOnlyIfRefused

LEMMA NinjaKeepsInv == ASSUME Inv, NEW target, Ninja(target) PROVE Inv'
<1>1. /\ UNCHANGED <<asked, dir, archive, source, draft>> /\ step = "ninja"
      /\ todo \subseteq dirs[dir].targets /\ target \in todo
      /\ dirs' = [dirs EXCEPT ![dir].libraries =
                    Put(@, target, [target |-> target, version |-> source])]
  BY DEF Ninja, Here
<1>2. [target |-> target, version |-> source] = Made(target)
  BY <1>1 DEF Inv, ThisSource, Ended, Made
<1>3. Shape' /\ Known' /\ AllInPlace'
  BY <1>1, LibraryWritten DEF Inv, Shape
<1>4. dir \in Dirs /\ dirs'[dir].targets = dirs[dir].targets
  BY <1>1, LibraryWritten DEF Inv, Shape
<1>5. \A t \in (AskedTargets \ todo) \cup {target} : HasLib(dir, t, t)' /\ t \in dirs[dir].targets
  <2>1. HasLib(dir, target, target)'
    BY <1>1, <1>2, LibraryWritten DEF Inv
  <2>2. ASSUME NEW t \in AskedTargets \ todo, t # target
        PROVE  HasLib(dir, t, t)' /\ t \in dirs[dir].targets
    <3>1. HasLib(dir, t, t) /\ t \in dirs[dir].targets
      BY <1>1 DEF Inv, NinjaDone, Here
    <3>2. Shape /\ UNCHANGED <<asked, dir>>
      BY <1>1 DEF Inv
    <3>3. HasLib(dir, t, t)'
      <4> DEFINE v == [target |-> target, version |-> source]
      <4>1. dirs' = [dirs EXCEPT ![dir].libraries = Put(@, target, v)]
        BY <1>1
      <4> HIDE DEF v
      <4>2. \A d \in Dirs : \A m, u :
              HasLib(d, m, u) /\ (m = target => v = Made(u)) => HasLib(d, m, u)'
        BY <4>1, <3>2, LibraryWritten
      <4> QED
        BY <4>2, <3>1, <3>2, <2>2, <1>4 DEF HasLib, Made
    <3> QED
      BY <3>1, <3>3
  <2> QED
    BY <1>1, <2>1, <2>2
<1>6. SystemDone'
  <2>1. dir = "kvm" => Complete("system")'
    BY <1>1, LibraryWritten DEF Inv, SystemDone, Dirs
  <2> QED
    BY <2>1, <1>1 DEF SystemDone
<1>7. AskedTargets' = AskedTargets
  BY <1>1 DEF AskedTargets, TargetOf
<1>8. CASE todo # {target}
  <2>1. todo' = todo \ {target} /\ step' = "ninja"
    BY <1>1, <1>8 DEF Ninja
  <2>2. NinjaDone'
    BY <2>1, <1>1, <1>4, <1>5, <1>7 DEF Inv, NinjaDone, Here
  <2> QED
    BY <2>1, <2>2, <1>1, <1>3, <1>6 DEF Inv, ThisSource, Ended, Configured, AliasesDone, HeadersDone,
       EnvDone, AllDone, Packed, FailsOnlyIfRefused
<1>9. CASE todo = {target}
  <2>1. todo' = asked[dir] /\ step' = IF dir = "system" THEN "aliases" ELSE "headers"
    BY <1>1, <1>9 DEF Ninja
  <2>2. \A t \in AskedTargets : HasLib(dir, t, t)' /\ t \in dirs[dir].targets
    BY <1>5, <1>9
  <2>3. \A n \in asked[dir] : TargetOf(dir, n) \in AskedTargets
    BY DEF AskedTargets
  <2>4. \A n \in asked[dir] : TargetOf(dir, n) # ""
    BY <2>2, <2>3, <1>4 DEF Inv, Known
  <2>5. Configured'
    BY <2>1, <2>4, <1>1 DEF Configured, TargetOf
  <2>6. AliasesDone'
    BY <2>1, <2>2, <1>1, <1>7 DEF AliasesDone
  <2>7. HeadersDone'
    <3>1. dir # "system" => \A n \in asked[dir] : TargetOf(dir, n) = n
      BY <1>4 DEF TargetOf, Dirs
    <3> QED
      BY <2>1, <2>2, <2>3, <3>1, <1>1 DEF HeadersDone, TargetOf
  <2> QED
    BY <2>1, <2>5, <2>6, <2>7, <1>1, <1>3, <1>6 DEF Inv, ThisSource, Ended, NinjaDone,
       EnvDone, AllDone, Packed, FailsOnlyIfRefused
<1> QED
  BY <1>8, <1>9

LEMMA StageAliasKeepsInv == ASSUME Inv, NEW arch, StageAlias(arch) PROVE Inv'
<1> DEFINE v == dirs[dir].libraries[TargetOf(dir, arch)]
<1>1. /\ UNCHANGED <<asked, dir, archive, source, draft>> /\ step = "aliases" /\ arch \in todo
      /\ dirs' = [dirs EXCEPT ![dir].libraries = Put(@, arch, v)]
  <2>1. dirs' = [dirs EXCEPT ![dir].libraries = Put(@, arch, @[TargetOf(dir, arch)])]
    BY DEF StageAlias
  <2> QED
    BY <2>1 DEF StageAlias, Inv, Shape
<1>2. /\ dir = "system" /\ dir \in Dirs
      /\ todo \subseteq asked[dir] /\ arch \in asked[dir]
      /\ \A n \in asked[dir] : TargetOf(dir, n) # "" /\ TargetOf(dir, n) \in AskedTargets
      /\ \A t \in AskedTargets : HasLib(dir, t, t)
      /\ \A n \in asked[dir] \ todo : HasLib(dir, n, TargetOf(dir, n))
  BY <1>1 DEF Inv, Shape, Configured, AliasesDone, AskedTargets
<1>3. v = Made(TargetOf(dir, arch))
  BY <1>2 DEF HasLib
<1> HIDE DEF v
<1>4. Shape' /\ Known' /\ AllInPlace'
  BY <1>1, LibraryWritten DEF Inv, Shape
<1>5. ASSUME NEW m, NEW u, HasLib(dir, m, u), m = arch => v = Made(u)
      PROVE  HasLib(dir, m, u)'
  <2>1. \A d \in Dirs : HasLib(d, m, u) /\ (m = arch => v = Made(u)) => HasLib(d, m, u)'
    BY <1>1, LibraryWritten DEF Inv
  <2> QED
    BY <2>1, <1>1, <1>2, <1>5 DEF HasLib, Made
<1>6. ASSUME NEW t \in AskedTargets PROVE HasLib(dir, t, t)'
  <2>1. PICK n \in asked[dir] : t = TargetOf(dir, n)
    BY DEF AskedTargets
  <2>2. TargetOf(dir, t) = t
    BY <2>1, <1>2, TargetsOfTargets
  <2> QED
    BY <2>2, <1>2, <1>3, <1>5
<1>7. ASSUME NEW n \in asked[dir] \ (todo \ {arch}) PROVE HasLib(dir, n, TargetOf(dir, n))'
  <2>1. CASE n = arch
    <3>1. \A target : v = Made(target) => HasLib(dir, arch, target)'
      BY <1>1, LibraryWritten DEF Inv
    <3> QED
      BY <3>1, <2>1, <1>3, <1>1 DEF TargetOf, HasLib, Made
  <2>2. CASE n # arch
    <3>1. HasLib(dir, n, TargetOf(dir, n))
      BY <2>2, <1>2
    <3> QED
      BY <3>1, <2>2, <1>5, <1>1 DEF TargetOf
  <2> QED
    BY <2>1, <2>2
<1>8. AskedTargets' = AskedTargets
  BY <1>1 DEF AskedTargets, TargetOf
<1>9. CASE todo # {arch}
  <2>1. todo' = todo \ {arch} /\ step' = "aliases"
    BY <1>1, <1>9 DEF StageAlias
  <2>2. AliasesDone'
    BY <2>1, <1>1, <1>2, <1>6, <1>7, <1>8 DEF AliasesDone, TargetOf
  <2>3. Configured'
    BY <2>1, <1>1, <1>2 DEF Configured, TargetOf
  <2> QED
    BY <2>1, <2>2, <2>3, <1>1, <1>2, <1>4 DEF Inv, ThisSource, Ended, NinjaDone, HeadersDone,
       EnvDone, SystemDone, AllDone, Packed, FailsOnlyIfRefused
<1>10. CASE todo = {arch}
  <2>1. todo' = asked[dir] /\ step' = "headers"
    BY <1>1, <1>10 DEF StageAlias
  <2>2. HeadersDone'
    BY <2>1, <1>1, <1>7, <1>10 DEF HeadersDone, TargetOf
  <2>3. Configured'
    BY <2>1, <1>1, <1>2 DEF Configured, TargetOf
  <2> QED
    BY <2>1, <2>2, <2>3, <1>1, <1>2, <1>4 DEF Inv, ThisSource, Ended, NinjaDone, AliasesDone,
       EnvDone, SystemDone, AllDone, Packed, FailsOnlyIfRefused
<1> QED
  BY <1>9, <1>10

-----------------------------------------------------------------------------
LEMMA WriteHeaderKeepsInv == ASSUME Inv, NEW name, WriteHeader(name) PROVE Inv'
<1>1. /\ UNCHANGED <<asked, dir, archive, source, draft>> /\ step = "headers" /\ name \in todo
  BY DEF WriteHeader
<1>2. /\ dir \in Dirs /\ name \in asked[dir] /\ name \in DOMAIN dirs[dir].libraries
  BY <1>1 DEF Inv, Shape, Configured, HeadersDone, HasLib
<1>3. /\ dirs' = [dirs EXCEPT ![dir].headers = Put(@, name, vaddr_bits_for_arch(name))]
      /\ todo' = todo \ {name} /\ step' = step
  BY <1>2 DEF WriteHeader, Here
<1>4. /\ dirs' = [d \in Dirs |-> dirs'[d]] /\ \A d \in Dirs : d # dir => dirs'[d] = dirs[d]
      /\ dirs'[dir] = [dirs[dir] EXCEPT !.headers = Put(@, name, vaddr_bits_for_arch(name))]
  BY <1>2, <1>3 DEF Inv, Shape
<1>5. /\ DirShape(dirs'[dir])
      /\ dirs'[dir].targets = dirs[dir].targets
      /\ dirs'[dir].libraries = dirs[dir].libraries
      /\ dirs'[dir].headers = Put(dirs[dir].headers, name, vaddr_bits_for_arch(name))
      /\ dirs'[dir].manifest = dirs[dir].manifest
      /\ dirs'[dir].envHeaders = dirs[dir].envHeaders
      /\ dirs'[dir].envModules = dirs[dir].envModules
  BY <1>2, <1>4 DEF Inv, Shape, DirShape
<1>6. Shape' /\ Known'
  BY <1>1, <1>4, <1>5 DEF Inv, Shape, Known
<1>7. \A n \in DOMAIN dirs[dir].headers \cup {name} : n \in DOMAIN dirs'[dir].headers
  BY <1>5 DEF Put
<1>8. AllInPlace'
  BY <1>4, <1>5, <1>7 DEF Inv, AllInPlace, RestInPlace
<1>9. \A n, target : HasLib(dir, n, target) => HasLib(dir, n, target)'
  BY <1>1, <1>5 DEF HasLib, Made
<1>10. \A n : HasHeader(dir, n) \/ n = name => HasHeader(dir, n)'
  BY <1>1, <1>5 DEF HasHeader, Put
<1>11. Configured'
  BY <1>1, <1>3 DEF Inv, Configured, TargetOf
<1>12. HeadersDone'
  <2>1. \A n \in asked[dir] : HasLib(dir, n, TargetOf(dir, n))'
    BY <1>1, <1>5 DEF Inv, HeadersDone, HasLib, Made, TargetOf
  <2> QED
    BY <2>1, <1>1, <1>3, <1>10 DEF Inv, HeadersDone, HasHeader
<1>13. SystemDone'
  <2>1. dir = "kvm" => Complete("system")'
    BY <1>1, <1>4, SameDirectory DEF Inv, SystemDone, SameButTargets, Dirs
  <2> QED
    BY <2>1, <1>1 DEF SystemDone
<1> QED
  BY <1>1, <1>3, <1>6, <1>8, <1>11, <1>12, <1>13 DEF Inv, ThisSource, Ended, NinjaDone, AliasesDone,
     EnvDone, AllDone, Packed, FailsOnlyIfRefused

(* The manifest of the step's directory is written.                          *)
LEMMA ManifestWritten ==
  ASSUME Inv, dirs' = [dirs EXCEPT ![dir].manifest = draft'], UNCHANGED asked, dir' \in Dirs,
         UNCHANGED archive
  PROVE  /\ Shape' /\ Known' /\ dir \in Dirs
         /\ dirs'[dir].manifest = draft' /\ SameFilesHere
         /\ \A d \in Dirs : d # dir => dirs'[d] = dirs[d]
         /\ \A d \in Dirs : d # dir /\ Complete(d) => Complete(d)'
<1>1. /\ dirs' = [d \in Dirs |-> dirs'[d]] /\ \A d \in Dirs : d # dir => dirs'[d] = dirs[d]
      /\ dirs'[dir] = [dirs[dir] EXCEPT !.manifest = draft'] /\ dir \in Dirs
  BY DEF Inv, Shape
<1>2. /\ DirShape(dirs'[dir]) /\ SameFilesHere
      /\ dirs'[dir].targets = dirs[dir].targets /\ dirs'[dir].manifest = draft'
  BY <1>1 DEF Inv, Shape, DirShape, SameFilesHere
<1>3. Shape' /\ Known'
  BY <1>1, <1>2 DEF Inv, Shape, Known
<1>4. \A d \in Dirs : d # dir /\ Complete(d) => Complete(d)'
  BY <1>1, SameDirectory DEF SameButTargets
<1> QED
  BY <1>1, <1>2, <1>3, <1>4

LEMMA WriteManifestKeepsInv == ASSUME Inv, WriteManifest PROVE Inv'
<1>1. /\ UNCHANGED <<asked, dir, archive, source>> /\ step = "headers" /\ todo = {}
      /\ step' = "env" /\ todo' = asked[dir] /\ dir' \in Dirs
      /\ draft' = [n \in asked[dir] |-> [target |-> TargetOf(dir, n), env |-> FALSE, module |-> FALSE]]
      /\ dirs' = [dirs EXCEPT ![dir].manifest = draft']
  BY DEF WriteManifest, Inv, Shape
<1>2. /\ Shape' /\ Known' /\ dir \in Dirs
      /\ dirs'[dir].manifest = draft' /\ SameFilesHere
      /\ \A d \in Dirs : d # dir => dirs'[d] = dirs[d]
      /\ \A d \in Dirs : d # dir /\ Complete(d) => Complete(d)'
  BY <1>1, ManifestWritten
<1>3. \A n \in asked[dir] : HasLib(dir, n, TargetOf(dir, n)) /\ HasHeader(dir, n)
  BY <1>1 DEF Inv, HeadersDone
<1>4. AllInPlace'
  <2>1. ASSUME NEW d \in Dirs, d # dir, NEW n \in DOMAIN dirs'[d].manifest PROVE RestInPlace(d, n)'
    BY <2>1, <1>2 DEF Inv, AllInPlace, RestInPlace
  <2>2. ASSUME NEW n \in DOMAIN dirs'[dir].manifest PROVE RestInPlace(dir, n)'
    <3>1. n \in asked[dir] /\ ~dirs'[dir].manifest[n].env /\ ~dirs'[dir].manifest[n].module
      BY <1>1, <1>2
    <3> QED
      BY <3>1, <1>1, <1>2, <1>3 DEF RestInPlace, HasLib, HasHeader, SameFilesHere
  <2> QED
    BY <2>1, <2>2, <1>1 DEF AllInPlace, RestInPlace
<1>5. Configured'
  BY <1>1 DEF Inv, Configured, TargetOf
<1>6. HeadersDone'
  <2>1. ASSUME NEW n \in asked[dir] PROVE HasLib(dir, n, TargetOf(dir, n))'
    <3>1. TargetOf(dir, n)' = TargetOf(dir, n) /\ Made(TargetOf(dir, n))' = Made(TargetOf(dir, n))
      BY <1>1 DEF Made, TargetOf
    <3> QED
      BY <3>1, <1>1, <1>2, <1>3 DEF HasLib, SameFilesHere
  <2> QED
    BY <2>1, <1>1 DEF HeadersDone, HasLib
<1>7. EnvDone'
  <2>1. \A n \in asked[dir] : HasHeader(dir, n)'
    BY <1>1, <1>2, <1>3 DEF HasHeader, SameFilesHere
  <2>2. \A n \in asked[dir] : EntryShape(draft'[n]) /\ draft'[n].target = TargetOf(dir, n)
    BY <1>1 DEF EntryShape
  <2> QED
    BY <2>1, <2>2, <1>1 DEF EnvDone, TargetOf, HasHeader, EntryShape
<1>8. SystemDone'
  <2>1. dir = "kvm" => Complete("system")'
    BY <1>1, <1>2 DEF Inv, SystemDone, Dirs
  <2> QED
    BY <2>1, <1>1 DEF SystemDone
<1> QED
  BY <1>1, <1>2, <1>4, <1>5, <1>6, <1>7, <1>8 DEF Inv, ThisSource, Ended, NinjaDone, AliasesDone,
     AllDone, Packed, FailsOnlyIfRefused

(* A header made from the library of the name's target, and a module or none.*)
LEMMA WriteEnvKeepsInv ==
  ASSUME Inv, step = "env", NEW name \in todo, NEW compiled \in BOOLEAN,
         WriteEnv(name, Made(TargetOf(dir, name)), compiled)
  PROVE  Inv'
<1> DEFINE made == Made(TargetOf(dir, name))
<1>1. /\ UNCHANGED <<asked, dir, archive, source, step>> /\ todo' = todo \ {name}
      /\ draft' = [draft EXCEPT ![name].env = TRUE, ![name].module = compiled]
      /\ dirs' = [dirs EXCEPT ![dir].envHeaders = Put(@, name, made),
                    ![dir].envModules = IF compiled THEN Put(@, draft[name].target, made) ELSE @]
  BY DEF WriteEnv
<1>2. /\ dir \in Dirs /\ name \in asked[dir] /\ todo \subseteq asked[dir]
      /\ draft = [n \in asked[dir] |-> draft[n]]
      /\ EntryShape(draft[name]) /\ draft[name].target = TargetOf(dir, name)
  BY DEF Inv, Shape, Configured, EnvDone
<1> HIDE DEF made
<1>3. /\ draft' = [n \in asked[dir] |-> draft'[n]]
      /\ \A n \in asked[dir] : n # name => draft'[n] = draft[n]
      /\ draft'[name] = [draft[name] EXCEPT !.env = TRUE, !.module = compiled]
  BY <1>1, <1>2
<1>4. /\ EntryShape(draft'[name]) /\ draft'[name].target = TargetOf(dir, name)
      /\ draft'[name].env /\ draft'[name].module = compiled
  BY <1>2, <1>3 DEF EntryShape
<1>5. /\ dirs' = [d \in Dirs |-> dirs'[d]] /\ \A d \in Dirs : d # dir => dirs'[d] = dirs[d]
      /\ dirs'[dir] = [dirs[dir] EXCEPT !.envHeaders = Put(@, name, made),
                         !.envModules = IF compiled THEN Put(@, draft[name].target, made) ELSE @]
  BY <1>1, <1>2 DEF Inv, Shape
<1>6. /\ DirShape(dirs'[dir])
      /\ dirs'[dir].targets = dirs[dir].targets
      /\ dirs'[dir].libraries = dirs[dir].libraries
      /\ dirs'[dir].headers = dirs[dir].headers
      /\ dirs'[dir].manifest = dirs[dir].manifest
      /\ dirs'[dir].envHeaders = Put(dirs[dir].envHeaders, name, made)
      /\ dirs'[dir].envModules = IF compiled THEN Put(dirs[dir].envModules, TargetOf(dir, name), made)
                                 ELSE dirs[dir].envModules
  BY <1>2, <1>5 DEF Inv, Shape, DirShape
<1>7. Shape' /\ Known'
  BY <1>1, <1>5, <1>6 DEF Inv, Shape, Known
<1>8. /\ DOMAIN dirs'[dir].envHeaders = DOMAIN dirs[dir].envHeaders \cup {name}
      /\ dirs'[dir].envHeaders[name] = made
      /\ \A n \in DOMAIN dirs[dir].envHeaders :
           n # name => dirs'[dir].envHeaders[n] = dirs[dir].envHeaders[n]
  BY <1>6 DEF Put
<1>9. /\ DOMAIN dirs[dir].envModules \subseteq DOMAIN dirs'[dir].envModules
      /\ \A t \in DOMAIN dirs[dir].envModules :
           t # TargetOf(dir, name) => dirs'[dir].envModules[t] = dirs[dir].envModules[t]
      /\ ~compiled => dirs'[dir].envModules = dirs[dir].envModules
      /\ compiled => /\ TargetOf(dir, name) \in DOMAIN dirs'[dir].envModules
                     /\ dirs'[dir].envModules[TargetOf(dir, name)] = made
  <2>1. CASE compiled
    BY <2>1, <1>6 DEF Put
  <2>2. CASE ~compiled
    BY <2>2, <1>6
  <2> QED
    BY <2>1, <2>2
<1>10. AllInPlace'
  <2>1. ASSUME NEW d \in Dirs, d # dir, NEW n \in DOMAIN dirs'[d].manifest PROVE RestInPlace(d, n)'
    BY <2>1, <1>5 DEF Inv, AllInPlace, RestInPlace
  <2>2. ASSUME NEW n \in DOMAIN dirs'[dir].manifest PROVE RestInPlace(dir, n)'
    <3>1. n \in DOMAIN dirs[dir].manifest /\ RestInPlace(dir, n)
      BY <2>2, <1>2, <1>6 DEF Inv, AllInPlace
    <3>2. DOMAIN dirs[dir].envHeaders \subseteq DOMAIN dirs'[dir].envHeaders
      BY <1>8
    <3> QED
      BY <3>1, <3>2, <1>1, <1>6, <1>9 DEF RestInPlace
  <2> QED
    BY <2>1, <2>2, <1>1 DEF AllInPlace, RestInPlace
<1>11. Configured'
  BY <1>1 DEF Inv, Configured, TargetOf
<1>12. HeadersDone'
  BY <1>1, <1>6 DEF Inv, HeadersDone, HasLib, Made, TargetOf
<1>13. HasEnv(dir, name, draft[name])'
  <2>1. made' = made
    BY <1>1 DEF made, Made, TargetOf
  <2>2. TargetOf(dir, name)' = TargetOf(dir, name) /\ Made(TargetOf(dir, name))' = made
    BY <1>1 DEF made, Made, TargetOf
  <2> QED
    BY <2>2, <1>1, <1>4, <1>8, <1>9 DEF HasEnv
<1>14. ASSUME NEW n \in asked[dir] \ todo PROVE HasEnv(dir, n, draft[n])'
  <2>1. HasEnv(dir, n, draft[n]) /\ draft'[n] = draft[n] /\ n # name
    BY <1>3 DEF Inv, EnvDone
  <2>2. n \in DOMAIN dirs'[dir].envHeaders /\ dirs'[dir].envHeaders[n] = Made(TargetOf(dir, n))
    BY <2>1, <1>8 DEF HasEnv
  <2>3. ASSUME draft[n].module
        PROVE  /\ TargetOf(dir, n) \in DOMAIN dirs'[dir].envModules
               /\ dirs'[dir].envModules[TargetOf(dir, n)] = Made(TargetOf(dir, n))
    <3>1. /\ TargetOf(dir, n) \in DOMAIN dirs[dir].envModules
          /\ dirs[dir].envModules[TargetOf(dir, n)] = Made(TargetOf(dir, n))
      BY <2>1, <2>3 DEF HasEnv
    <3>2. CASE TargetOf(dir, n) = TargetOf(dir, name)
      BY <3>1, <3>2, <1>9 DEF made
    <3>3. CASE TargetOf(dir, n) # TargetOf(dir, name)
      BY <3>1, <3>3, <1>9
    <3> QED
      BY <3>2, <3>3
  <2>4. draft[n].target = TargetOf(dir, n) /\ draft[n].env
    BY <2>1 DEF HasEnv
  <2>5. TargetOf(dir, n)' = TargetOf(dir, n) /\ Made(TargetOf(dir, n))' = Made(TargetOf(dir, n))
    BY <1>1 DEF Made, TargetOf
  <2> QED
    BY <2>1, <2>2, <2>3, <2>4, <2>5, <1>1 DEF HasEnv
<1>15. EnvDone'
  <2>1. DOMAIN draft' = asked[dir]
    BY <1>3
  <2>2. \A n \in asked[dir] : HasHeader(dir, n) /\ EntryShape(draft[n])
                              /\ draft[n].target = TargetOf(dir, n)
    BY DEF Inv, EnvDone
  <2>3. ASSUME NEW n \in asked[dir]
        PROVE  HasHeader(dir, n)' /\ EntryShape(draft[n])' /\ draft'[n].target = TargetOf(dir, n)'
    <3>1. HasHeader(dir, n)'
      BY <2>2, <1>1, <1>6 DEF HasHeader
    <3>2. EntryShape(draft'[n]) /\ draft'[n].target = TargetOf(dir, n)
      BY <2>2, <1>3, <1>4
    <3> QED
      BY <3>1, <3>2, <1>1 DEF EntryShape, TargetOf
  <2>4. ASSUME NEW n \in asked[dir], n \notin todo' PROVE HasEnv(dir, n, draft[n])'
    BY <2>4, <1>1, <1>13, <1>14
  <2>5. asked'[dir'] = asked[dir]
    BY <1>1
  <2> QED
    BY <2>1, <2>3, <2>4, <2>5, <1>3 DEF EnvDone
<1>16. SystemDone'
  <2>1. dir = "kvm" => Complete("system")'
    BY <1>1, <1>5, SameDirectory DEF Inv, SystemDone, SameButTargets, Dirs
  <2> QED
    BY <2>1, <1>1 DEF SystemDone
<1> QED
  BY <1>1, <1>7, <1>10, <1>11, <1>12, <1>15, <1>16 DEF Inv, ThisSource, Ended, NinjaDone, AliasesDone,
     AllDone, Packed, FailsOnlyIfRefused

LEMMA EnvKeepsInv == ASSUME Inv, NEW name, GenerateEnv(name) \/ ShareEnv(name) PROVE Inv'
<1>1. step = "env" /\ name \in todo /\ name \in asked[dir]
  BY DEF GenerateEnv, ShareEnv, Inv, Configured
<1>2. CASE GenerateEnv(name)
  <2>1. Here.libraries[name] = Made(TargetOf(dir, name))
    BY <1>1 DEF Inv, HeadersDone, HasLib, Here
  <2>2. PICK compiled \in BOOLEAN : WriteEnv(name, Made(TargetOf(dir, name)), compiled)
    BY <1>2, <2>1 DEF GenerateEnv
  <2> QED
    BY <1>1, <2>2, WriteEnvKeepsInv
<1>3. CASE ShareEnv(name)
  <2>1. PICK first \in SameTarget(name) :
          WriteEnv(name, Here.envHeaders[first], draft[first].module)
    BY <1>3 DEF ShareEnv
  <2>2. first \in asked[dir] \ todo /\ draft[first].target = draft[name].target
    BY <1>1, <2>1 DEF SameTarget, Inv, EnvDone
  <2>3. TargetOf(dir, first) = TargetOf(dir, name)
    BY <1>1, <2>2 DEF Inv, EnvDone
  <2>4. Here.envHeaders[first] = Made(TargetOf(dir, name))
    BY <1>1, <2>2, <2>3 DEF Inv, EnvDone, HasEnv, Here
  <2>5. draft[first].module \in BOOLEAN
    BY <1>1, <2>2 DEF Inv, EnvDone, EntryShape
  <2> QED
    BY <1>1, <2>1, <2>4, <2>5, WriteEnvKeepsInv
<1> QED
  BY <1>2, <1>3

LEMMA UpdateManifestKeepsInv == ASSUME Inv, UpdateManifest PROVE Inv'
<1>1. /\ UNCHANGED <<asked, archive, source>> /\ step = "env" /\ todo = {} /\ todo' = todo
      /\ IF dir = "system" /\ asked.kvm # {}
         THEN step' = "configure" /\ dir' = "kvm"
         ELSE step' = "package" /\ dir' = dir
  BY DEF UpdateManifest
<1>2. dir \in Dirs /\ dir' \in Dirs
  BY <1>1 DEF Inv, Shape, Dirs
<1>3. /\ dirs' = [d \in Dirs |-> dirs'[d]] /\ \A d \in Dirs : d # dir => dirs'[d] = dirs[d]
      /\ dirs'[dir] = [dirs[dir] EXCEPT !.manifest = draft]
  BY <1>2 DEF UpdateManifest, Inv, Shape
<1>4. /\ DirShape(dirs'[dir]) /\ SameFilesHere
      /\ dirs'[dir].targets = dirs[dir].targets /\ dirs'[dir].manifest = draft
  BY <1>2, <1>3 DEF Inv, Shape, DirShape, SameFilesHere
<1>5. Shape' /\ Known'
  BY <1>1, <1>2, <1>3, <1>4 DEF Inv, Shape, Known
<1>6. /\ DOMAIN draft = asked[dir]
      /\ \A n \in asked[dir] :
           /\ TargetOf(dir, n) # "" /\ HasLib(dir, n, TargetOf(dir, n))
           /\ HasHeader(dir, n) /\ HasEnv(dir, n, draft[n])
  BY <1>1 DEF Inv, Configured, HeadersDone, EnvDone
<1>8. AllInPlace'
  <2>1. ASSUME NEW d \in Dirs, d # dir, NEW n \in DOMAIN dirs'[d].manifest PROVE RestInPlace(d, n)'
    BY <2>1, <1>3 DEF Inv, AllInPlace, RestInPlace
  <2>2. ASSUME NEW d \in Dirs, d = dir, NEW n \in DOMAIN dirs'[d].manifest PROVE RestInPlace(d, n)'
    <3>1. n \in asked[dir] /\ dirs'[d].manifest[n] = draft[n]
      BY <2>2, <1>4, <1>6
    <3> QED
      BY <2>2, <3>1, <1>4, <1>6 DEF RestInPlace, HasLib, HasHeader, HasEnv, SameFilesHere
  <2> QED
    BY <2>1, <2>2 DEF AllInPlace
<1>9. ASSUME NEW d \in Dirs, d = dir PROVE Complete(d)'
  <2>1. DOMAIN dirs'[d].manifest = asked'[d] /\ dirs'[d].manifest = draft /\ asked'[d] = asked[dir]
    BY <1>1, <1>4, <1>6, <1>9
  <2>2. ASSUME NEW n \in asked[dir]
        PROVE  /\ TargetOf(d, n)' # "" /\ HasLib(d, n, TargetOf(d, n))' /\ HasHeader(d, n)'
               /\ HasEnv(d, n, dirs[d].manifest[n])'
    <3>1. TargetOf(d, n)' = TargetOf(dir, n) /\ Made(TargetOf(d, n))' = Made(TargetOf(dir, n))
      BY <1>1, <1>9 DEF Made, TargetOf
    <3>2. HasLib(d, n, TargetOf(d, n))' /\ HasHeader(d, n)'
      BY <3>1, <1>4, <1>6, <1>9 DEF HasLib, HasHeader, SameFilesHere
    <3>3. HasEnv(d, n, dirs[d].manifest[n])'
      BY <2>1, <3>1, <1>4, <1>6, <1>9 DEF HasEnv, SameFilesHere
    <3> QED
      BY <3>1, <3>2, <3>3, <1>6
  <2> QED
    BY <2>1, <2>2 DEF Complete
<1>10. ASSUME NEW d \in Dirs, d # dir, Complete(d) PROVE Complete(d)'
  BY <1>10, <1>1, <1>3, SameDirectory DEF SameButTargets
<1>11. SystemDone'
  BY <1>1, <1>9, <1>2 DEF SystemDone, Dirs
<1>12. AllDone'
  <2>1. ASSUME NEW d \in Dirs, step' = "package", asked'[d] # {} PROVE Complete(d)'
    <3>1. CASE d = dir
      BY <3>1, <1>9
    <3>2. CASE d # dir
      <4>1. dir = "kvm"
        BY <1>1, <1>2, <2>1, <3>2 DEF Inv, Shape, Dirs
      <4>2. d = "system" /\ Complete("system")
        BY <4>1, <3>2, <1>1 DEF Inv, SystemDone, Dirs
      <4> QED
        BY <4>2, <3>2, <1>10
    <3> QED
      BY <3>1, <3>2
  <2> QED
    BY <2>1, <1>1 DEF AllDone
<1> QED
  BY <1>1, <1>5, <1>8, <1>11, <1>12 DEF Inv, ThisSource, Ended, NinjaDone, Configured, AliasesDone,
     HeadersDone, EnvDone, Packed, FailsOnlyIfRefused

-----------------------------------------------------------------------------
(* What every run of build.sh keeps, whatever was asked for and changed.     *)
THEOREM Invariance == Spec => []Inv
<1>1. Inv /\ [Next]_vars => Inv'
  <2> SUFFICES ASSUME Inv, [Next]_vars PROVE Inv'
    OBVIOUS
  <2>1. CASE EditSource \/ NinjaRefuses \/ UNCHANGED vars
    BY <2>1, StopKeepsInv
  <2>9. CASE Dies
    BY <2>9, DiesKeepsInv
  <2>2. CASE \E arches \in SystemArches, kvm \in KvmTargets : StartRun(arches, kvm)
    BY <2>2, StartRunKeepsInv
  <2>3. CASE Configure
    BY <2>3, ConfigureKeepsInv
  <2>4. CASE \E n \in todo : Ninja(n) \/ StageAlias(n)
    BY <2>4, NinjaKeepsInv, StageAliasKeepsInv
  <2>5. CASE WriteManifest \/ \E n \in todo : WriteHeader(n)
    BY <2>5, WriteManifestKeepsInv, WriteHeaderKeepsInv
  <2>6. CASE UpdateManifest \/ \E n \in todo : GenerateEnv(n) \/ ShareEnv(n)
    BY <2>6, UpdateManifestKeepsInv, EnvKeepsInv
  <2>7. CASE OpenArchive \/ CloseArchive
    BY <2>7, OpenArchiveKeepsInv, CloseArchiveKeepsInv
  <2>8. CASE \E p \in todo : step = "archive" /\ AddEntry(p[1], p[2])
    BY <2>8, AddEntryKeepsInv
  <2> QED
    BY <2>1, <2>2, <2>3, <2>4, <2>5, <2>6, <2>7, <2>8, <2>9 DEF Next
<1> QED
  BY <1>1, InitEstablishesInv, PTL DEF Spec

(* Whatever earlier runs were asked for and wherever they died, a run that   *)
(* ends well ships the library, header, env header and module of every name  *)
(* it was asked for, made for its target and from this source.               *)
THEOREM ShipsWhatItWasAsked == Spec => []ShipsWhatWasAsked
<1>1. Inv => ShipsWhatWasAsked
  <2> SUFFICES ASSUME Inv, step = "done" PROVE ShipsWhatWasAsked
    BY DEF ShipsWhatWasAsked
  <2>1. archive.complete /\ todo = {}
    BY DEF Inv, Packed
  <2>2. ASSUME NEW d \in {"system", "kvm"}, asked[d] # {}
        PROVE  LET entries == {e \in archive.entries : e.dir = d}
               IN /\ {e.name : e \in entries} = asked[d]
                  /\ \A e \in entries : Current(e)
    <3>1. /\ \A e \in archive.entries : e.dir = d => e.name \in asked[d] /\ Current(e)
          /\ \A n \in asked[d] : \E e \in archive.entries : e.dir = d /\ e.name = n
      BY <2>1, <2>2 DEF Inv, Packed, Dirs
    <3> QED
      BY <3>1
  <2> QED
    BY <2>1, <2>2 DEF ShipsWhatWasAsked
<1> QED
  BY <1>1, Invariance, PTL

(* A run that nothing from outside ended only fails when a name it was asked *)
(* for has no target in a directory configured for others, or when it does   *)
(* not ask for KVM and a library that an old KVM manifest names is gone.     *)
THEOREM FailsOnlyIfItIsRefused == Spec => []FailsOnlyIfRefused
<1>1. Inv => FailsOnlyIfRefused
  BY DEF Inv
<1> QED
  BY <1>1, Invariance, PTL
=============================================================================
