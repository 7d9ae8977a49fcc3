--------------------------- MODULE Launch_proofs ----------------------------
(***************************************************************************)
(* Proofs about Setup and Launch for every set of command lines, hosts,    *)
(* commands and plugin directories, and every number of setup runs that    *)
(* fail or are cut short: the two trees on disk, the torch of the venv,    *)
(* and the command that starts in what setup left.                         *)
(***************************************************************************)
EXTENDS Launch, Compare_proofs, SequenceTheorems, TLAPS

-----------------------------------------------------------------------------
(* The checkout and the build directories.                                 *)

(* The records and functions the disk is made of.                          *)
Shape ==
  /\ tree = [checkout |-> tree.checkout, staging |-> tree.staging]
  /\ build = [d \in Dirs |-> [record |-> build[d].record, made |-> build[d].made]]

(* The old checkout goes only when the new one is complete beside it.      *)
Staged == pc \in {"replace", "rename"} => tree.staging = "whole"

(* A record is the truth about its directory, and CMake runs under one.    *)
Recorded ==
  \A d \in Dirs : build[d].record # NoArguments => build[d].made \subseteq {build[d].record}
Configured == pc \in {"make", "bind_make"} => build[BuildDir].record = Arguments(BuildDir)

IInv == Shape /\ FetchIsWhole /\ Staged /\ Recorded /\ Configured

LEMMA ArgumentsAreSome == \A d : Arguments(d) # NoArguments
BY DEF Arguments, NoArguments, Prefix, None

LEMMA BuildDirIsDir == BuildDir \in Dirs /\ BuildDir' \in Dirs
BY DEF BuildDir, Dirs

LEMMA SameArguments ==
  ASSUME UNCHANGED run PROVE \A d : Arguments(d)' = Arguments(d)
BY DEF run, Arguments, Prefix, Wheel, Arch

LEMMA InitInv == Init => IInv
BY SetupAssumption
   DEF Init, IInv, Shape, FetchIsWhole, Staged, Recorded, Configured, EmptyDir, None

(* A step that leaves both trees alone and starts neither CMake nor the    *)
(* replacement of the checkout.                                            *)
Elsewhere ==
  /\ UNCHANGED <<tree, build>>
  /\ pc' \notin {"make", "bind_make", "replace", "rename"}

LEMMA ElsewhereInv == IInv /\ Elsewhere => IInv'
BY DEF IInv, Elsewhere, Shape, FetchIsWhole, Staged, Recorded, Configured

LEMMA BeforeBuild ==
  \/ \E j \in Requests : Start(j)
  \/ Confirm \/ CleanVenv \/ CleanCut \/ SetupVenv \/ KeepTorch \/ PipTorch
  \/ WriteRecord \/ RecordTorn \/ Package
  => Elsewhere
<1> USE DEF Elsewhere, disk, run, Goto, Exit
<1>1. ASSUME NEW j \in Requests, Start(j) PROVE Elsewhere
    BY <1>1 DEF Start
<1>2. Confirm => Elsewhere
    BY DEF Confirm
<1>3. CleanVenv \/ CleanCut \/ SetupVenv => Elsewhere
    BY DEF CleanVenv, CleanCut, SetupVenv
<1>4. KeepTorch => Elsewhere
    BY DEF KeepTorch
<1>5. PipTorch \/ WriteRecord \/ RecordTorn => Elsewhere
    BY DEF PipTorch, WriteRecord, RecordTorn
<1>6. Package => Elsewhere
    BY DEF Package
<1> QED BY <1>1, <1>2, <1>3, <1>4, <1>5, <1>6

LEMMA AroundBuild ==
  \/ BuildHipdnn \/ Install \/ Bindings \/ InstallBindings \/ InstallRocke
  \/ StageLink \/ Relink \/ Verify \/ Stop
  => Elsewhere
<1> USE DEF Elsewhere, disk, run, Goto, Exit
<1>1. BuildHipdnn \/ Bindings => Elsewhere
    BY DEF BuildHipdnn, Bindings
<1>2. Install \/ InstallBindings \/ InstallRocke => Elsewhere
    BY DEF Install, InstallBindings, InstallRocke
<1>3. StageLink \/ Relink \/ Verify \/ Stop => Elsewhere
    BY DEF StageLink, Relink, Verify, Stop
<1> QED BY <1>1, <1>2, <1>3

LEMMA FetchInv ==
  /\ IInv
  /\ \/ ReuseCheckout \/ SparseAddCut \/ BeginFetch \/ Clone \/ Fetch
     \/ FetchFails \/ RemoveOld \/ Rename
  => IInv'
<1> SUFFICES ASSUME IInv,
                    \/ ReuseCheckout \/ SparseAddCut \/ BeginFetch \/ Clone \/ Fetch
                    \/ FetchFails \/ RemoveOld \/ Rename
             PROVE  IInv'
    OBVIOUS
<1> USE DEF IInv, Shape, FetchIsWhole, Staged, Recorded, Configured, Goto, Exit, None
<1>1. CASE ReuseCheckout BY <1>1 DEF ReuseCheckout
<1>2. CASE SparseAddCut  BY <1>2 DEF SparseAddCut
<1>3. CASE BeginFetch    BY <1>3 DEF BeginFetch
<1>4. CASE Clone         BY <1>4 DEF Clone, Cloned
<1>5. CASE Fetch         BY <1>5 DEF Fetch, Cloned
<1>6. CASE FetchFails    BY <1>6 DEF FetchFails
<1>7. CASE RemoveOld     BY <1>7 DEF RemoveOld, EmptyDir
<1>8. CASE Rename        BY <1>8 DEF Rename
<1> QED BY <1>1, <1>2, <1>3, <1>4, <1>5, <1>6, <1>7, <1>8

LEMMA BuildInv == IInv /\ (ResetBuildDir \/ ResetCut \/ Make) => IInv'
<1> SUFFICES ASSUME IInv, ResetBuildDir \/ ResetCut \/ Make PROVE IInv'
    OBVIOUS
<1> USE BuildDirIsDir, ArgumentsAreSome DEF IInv, Shape, FetchIsWhole, Staged, Recorded
<1>1. CASE ResetBuildDir
    <2>1. BuildDir' = BuildDir
        BY <1>1 DEF ResetBuildDir, Goto, BuildDir
    <2>2. Arguments(BuildDir)' = Arguments(BuildDir)
        BY <1>1, <2>1, SameArguments DEF ResetBuildDir
    <2> QED BY <1>1, <2>1, <2>2 DEF ResetBuildDir, Goto, Stale, Configured
<1>2. CASE ResetCut
    BY <1>2 DEF ResetCut, Exit, Configured
<1>3. CASE Make
    <2> DEFINE made == build[BuildDir].made \cup {Arguments(BuildDir)}
    <2>1. /\ build' = [build EXCEPT ![BuildDir].made = made]
          /\ build[BuildDir].record = Arguments(BuildDir)
          /\ pc' \notin {"make", "bind_make", "replace", "rename"}
          /\ tree' = tree
        BY <1>3 DEF Make, Goto, Exit, Configured
    <2> DEFINE dir(d) == [record |-> build[d].record,
                          made   |-> IF d = BuildDir THEN made ELSE build[d].made]
    <2>2. Shape'
        <3> HIDE DEF made
        <3>1. build' = [d \in Dirs |-> dir(d)]
            BY <2>1
        <3>2. \A d \in Dirs : build'[d] = dir(d)
            BY <3>1
        <3> QED BY <2>1, <3>1, <3>2
    <2>3. Recorded'
        <3> SUFFICES ASSUME NEW d \in Dirs, build'[d].record # NoArguments
                     PROVE  build'[d].made \subseteq {build'[d].record}
            BY DEF Recorded
        <3>1. CASE d = BuildDir
            BY <2>1, <3>1
        <3>2. CASE d # BuildDir
            BY <2>1, <3>2
        <3> QED BY <3>1, <3>2
    <2> QED BY <2>1, <2>2, <2>3 DEF Configured
<1> QED BY <1>1, <1>2, <1>3

(* The inductive invariant of setup_env.py's two trees.                    *)
THEOREM SetupInductive == SpecSetup => []IInv
<1>1. IInv /\ [NextSetup]_vars => IInv'
    <2> SUFFICES ASSUME IInv, [NextSetup]_vars PROVE IInv'
        OBVIOUS
    <2>1. CASE UNCHANGED vars
        BY <2>1 DEF vars, disk, run, IInv, Shape, FetchIsWhole, Staged, Recorded,
                    Configured, Arguments, Prefix, Wheel, Arch, BuildDir
    <2> QED BY <2>1, BeforeBuild, AroundBuild, ElsewhereInv, FetchInv, BuildInv DEF NextSetup
<1> QED BY <1>1, InitInv, PTL DEF SpecSetup

(* A checkout that setup fetched is whole wherever .git is, whatever failed *)
(* or was cut short (ensure_rocm_libraries_checkout()).                    *)
THEOREM FetchedCheckoutIsWhole == SpecSetup => []FetchIsWhole
<1>1. IInv => FetchIsWhole
    BY DEF IInv
<1> QED BY <1>1, SetupInductive, PTL

(* CMake never runs in a directory that holds anything configured with     *)
(* other arguments (_reset_build_dir()).                                   *)
THEOREM BuildsAreUnmixed == SpecSetup => []BuildUnmixed
<1>1. IInv => BuildUnmixed
    BY BuildDirIsDir, ArgumentsAreSome DEF IInv, Recorded, Configured, BuildUnmixed
<1> QED BY <1>1, SetupInductive, PTL

-----------------------------------------------------------------------------
(* The torch of the venv.                                                  *)

Wheels == {"cpu", "cuda", "rocm"}

(* The records that Setup updates field by field.                          *)
Shapes ==
  /\ venv = [python |-> venv.python, torch |-> venv.torch, record |-> venv.record,
             env |-> venv.env, bindings |-> venv.bindings, rocke |-> venv.rocke,
             devel |-> venv.devel, relic |-> venv.relic]
  /\ self = [torch_mode |-> self.torch_mode, index |-> self.index, arch |-> self.arch,
             plugins |-> self.plugins, warned |-> self.warned, built |-> self.built]

(* The record is the truth about the torch it lies beside.                 *)
RecordTrue ==
  venv.record # NoRecord =>
    /\ venv.torch # NoTorch
    /\ venv.record.index = venv.torch.index /\ venv.record.gpu_arch = venv.torch.gpu_arch

(* A venv without an interpreter holds nothing.                            *)
NewIsEmpty ==
  IF venv.python THEN TRUE
  ELSE pc \notin {"torch", "record"} /\ venv.torch = NoTorch /\ venv.record = NoRecord

RocmHasArch == venv.torch.mode = "rocm" => venv.torch.gpu_arch # None

(* What the run knows of the torch it found ...                            *)
Found ==
  /\ pc \in {"confirm", "clean"} =>
       self.torch_mode = IF job.clean THEN "missing" ELSE Probe(venv.torch)
  /\ pc \in {"venv", "torch"} => self.torch_mode = Probe(venv.torch)

(* ... and of the one it installed.                                        *)
Installed ==
  pc = "record" =>
    \/ Probe(venv.torch) = "missing"
    \/ venv.torch.index = self.index /\ venv.torch.gpu_arch = self.arch

(* The options stand until the record is written.                          *)
Options ==
  /\ pc \in {"confirm", "clean", "venv", "torch"} => self.arch = None
  /\ pc = "record" =>
       /\ job.mode \in Wheels /\ job.index \in {None, self.index}
       /\ job.mode = "rocm" => job.gpu_arch \in {None, self.arch} /\ self.arch # None

(* The arch that HIP code is built for is that of the record.              *)
OnTheWay == {"package", "sources", "clone", "fetch", "replace", "rename", "plugins", "reset",
             "make"}
BuildsFor(arch) ==
  arch # None /\ (self.arch = arch \/ (self.arch = None /\ job.gpu_arch = arch))
ArchKept ==
  pc \in OnTheWay /\ job.mode = "rocm" =>
    \/ venv.record = NoRecord /\ (self.warned \/ job.gpu_arch = None)
    \/ BuildsFor(venv.torch.gpu_arch)

Asked ==
  pc = "package" /\ job.mode \in Wheels =>
    \/ self.warned
    \/ /\ job.index \in {None, venv.torch.index}
       /\ job.mode = "rocm" => job.gpu_arch \in {None, venv.torch.gpu_arch}

(* --clean counts on no torch.                                             *)
Cleaning == pc \in {"confirm", "clean"} /\ job.clean => self.torch_mode = "missing"

(* An interrupted --clean leaves a venv of which nothing is known.         *)
Known == ~venv.relic => RecordTrue /\ NewIsEmpty /\ Found /\ Installed /\ ArchKept /\ Asked

MixInv == Shapes /\ RocmHasArch /\ Options /\ Cleaning /\ Known

LEMMA MixInit == Init => MixInv
<1> SUFFICES ASSUME Init PROVE MixInv
    OBVIOUS
<1>1. pc = "idle" /\ self = NoRun /\ venv \in {NoVenv, PreparedVenv}
    BY DEF Init
<1>2. Shapes
    BY <1>1 DEF Shapes, NoVenv, PreparedVenv, NoRun
<1>3. /\ venv.torch.mode # "rocm" /\ venv.record = NoRecord
      /\ venv.python \/ venv.torch = NoTorch
    <2>1. CASE venv = NoVenv
        BY <2>1 DEF NoVenv, NoTorch
    <2>2. CASE venv = PreparedVenv
        BY <2>2 DEF PreparedVenv, NoVenv
    <2> QED BY <1>1, <2>1, <2>2
<1> QED BY <1>1, <1>2, <1>3 DEF MixInv, RocmHasArch, Options, Cleaning, Known, RecordTrue,
        NewIsEmpty, Found, Installed, ArchKept, Asked, OnTheWay

(* A step past the record, or out of the run: torch and record stay.       *)
Past ==
  /\ venv'.python = venv.python /\ venv'.torch = venv.torch /\ venv'.record = venv.record
  /\ venv'.relic = venv.relic
  /\ \/ /\ pc \in OnTheWay /\ pc' \in OnTheWay \ {"package"}
        /\ job' = job /\ self'.arch = self.arch /\ self'.warned = self.warned
     \/ pc' \notin OnTheWay \cup {"confirm", "clean", "venv", "torch", "record"}
  /\ Shapes'

LEMMA PastMix == MixInv /\ Past => MixInv'
BY DEF MixInv, Past, RocmHasArch, Options, Cleaning, Known, RecordTrue, NewIsEmpty, Found,
       Installed, ArchKept, Asked, OnTheWay, BuildsFor

LEMMA PastSteps ==
  /\ Shapes
  /\ \/ Package \/ ReuseCheckout \/ SparseAddCut \/ BeginFetch \/ Clone \/ Fetch \/ FetchFails
     \/ RemoveOld \/ Rename \/ BuildHipdnn \/ ResetBuildDir \/ ResetCut \/ Make \/ Install
     \/ Bindings \/ InstallBindings \/ InstallRocke \/ StageLink \/ Relink \/ Verify \/ Stop
  => Past
<1> USE DEF Past, Shapes, OnTheWay, Goto, Exit, disk, run, NoRun
<1>1. Shapes /\ (Package \/ ReuseCheckout \/ SparseAddCut \/ BeginFetch) => Past
    BY DEF Package, ReuseCheckout, SparseAddCut, BeginFetch
<1>2. Shapes /\ (Clone \/ Fetch \/ FetchFails \/ RemoveOld \/ Rename) => Past
    BY DEF Clone, Fetch, FetchFails, RemoveOld, Rename
<1>3. Shapes /\ (BuildHipdnn \/ ResetBuildDir) => Past
    BY DEF BuildHipdnn, ResetBuildDir
<1>4. Shapes /\ (ResetCut \/ Make \/ Install \/ Bindings) => Past
    BY DEF ResetCut, Make, Install, Bindings
<1>5. Shapes /\ (InstallBindings \/ InstallRocke \/ StageLink \/ Relink) => Past
    BY DEF InstallBindings, InstallRocke, StageLink, Relink
<1>6. Shapes /\ (Verify \/ Stop) => Past
    BY DEF Verify, Stop
<1> QED BY <1>1, <1>2, <1>3, <1>4, <1>5, <1>6

LEMMA StartMix == ASSUME MixInv, NEW j \in Requests, Start(j) PROVE MixInv'
<1> USE DEF MixInv, Shapes, Start, Goto, Idle, disk, NoRun, HasVenv
<1>1. Shapes' /\ RocmHasArch'
    BY DEF RocmHasArch
<1>2. Options' /\ Cleaning'
    BY DEF Options, Cleaning
<1>3. Known'
    BY DEF Known, RecordTrue, NewIsEmpty, Found, Installed, ArchKept, Asked, OnTheWay,
           Probe, NoTorch
<1> QED BY <1>1, <1>2, <1>3

LEMMA ConfirmMix == MixInv /\ Confirm => MixInv'
<1> SUFFICES ASSUME MixInv, Confirm PROVE MixInv'
    OBVIOUS
<1> USE DEF MixInv, Shapes, Confirm, Goto, Exit, disk, run, NoRun
<1>1. Shapes' /\ RocmHasArch'
    BY DEF RocmHasArch
<1>2. Options' /\ Cleaning'
    BY DEF Options, Cleaning
<1>3. Known'
    BY DEF Known, RecordTrue, NewIsEmpty, Found, Installed, ArchKept, Asked, OnTheWay, Probe
<1> QED BY <1>1, <1>2, <1>3

LEMMA CleanMix == MixInv /\ CleanVenv => MixInv'
<1> SUFFICES ASSUME MixInv, CleanVenv PROVE MixInv'
    OBVIOUS
<1> USE DEF MixInv, Shapes, CleanVenv, Goto, run, NoVenv, NoTorch, NoRecord, None
<1>1. Shapes' /\ RocmHasArch' /\ Options' /\ Cleaning'
    BY DEF RocmHasArch, Options, Cleaning
<1>2. Known'
    BY DEF Cleaning, Known, RecordTrue, NewIsEmpty, Found, Installed, ArchKept, Asked, OnTheWay,
           Probe
<1> QED BY <1>1, <1>2

LEMMA CutMix == MixInv /\ CleanCut => MixInv'
<1> SUFFICES ASSUME MixInv, CleanCut PROVE MixInv'
    OBVIOUS
<1>1. PICK python \in {FALSE, venv.python}, torch \in {NoTorch, venv.torch},
           record \in {NoRecord, venv.record}, bindings \in {None, venv.bindings},
           env \in {None, venv.env} :
        venv' = [NoVenv EXCEPT !.python = python, !.torch = torch, !.record = record,
                               !.bindings = bindings, !.env = env, !.relic = TRUE]
    BY Zenon DEF CleanCut
<1>2. venv' = [python |-> python, torch |-> torch, record |-> record, env |-> env,
               bindings |-> bindings, rocke |-> FALSE, devel |-> None, relic |-> TRUE]
    BY <1>1 DEF NoVenv
<1>3. pc' = "idle" /\ self' = NoRun
    BY DEF CleanCut, Exit
<1>4. Shapes'
    BY <1>2, <1>3 DEF Shapes, NoRun
<1>5. RocmHasArch'
    BY <1>2 DEF MixInv, RocmHasArch, NoTorch
<1> QED BY <1>2, <1>3, <1>4, <1>5 DEF MixInv, Options, Cleaning, Known

LEMMA VenvMix == MixInv /\ SetupVenv => MixInv'
BY DEF MixInv, Shapes, SetupVenv, Goto, run, RocmHasArch, Options, Cleaning, Known, RecordTrue,
       NewIsEmpty, Found, Installed, ArchKept, Asked, OnTheWay

LEMMA KeepMix == MixInv /\ KeepTorch => MixInv'
<1> SUFFICES ASSUME MixInv, KeepTorch PROVE MixInv'
    OBVIOUS
<1> USE DEF MixInv, Shapes, KeepTorch, Goto, disk
<1>1. Shapes'
    BY DEF Adopted
<1>2. RocmHasArch' /\ Options' /\ Cleaning'
    BY DEF RocmHasArch, Options, Cleaning
<1>3. ASSUME ~venv.relic PROVE RecordTrue' /\ NewIsEmpty' /\ Found' /\ Installed'
    BY <1>3 DEF Known, RecordTrue, NewIsEmpty, Found, Installed
<1>4. ASSUME ~venv.relic PROVE ArchKept'
    BY <1>4 DEF Known, RecordTrue, Found, Options, RocmHasArch, ArchKept, BuildsFor, OnTheWay,
                Probe, Adopted, Unchecked, SourceClash, NoRecord, NoTorch, None, Wheels
<1>5. ASSUME ~venv.relic PROVE Asked'
    BY <1>5 DEF Known, RecordTrue, Found, Options, Asked, Probe, Adopted, Unchecked,
                SourceClash, NoRecord, NoTorch, None, Wheels
<1> QED BY <1>1, <1>2, <1>3, <1>4, <1>5 DEF Known

LEMMA PipMix == MixInv /\ PipTorch => MixInv'
<1> SUFFICES ASSUME MixInv, PipTorch PROVE MixInv'
    OBVIOUS
<1> DEFINE devel == IF job.mode = "rocm" THEN "duplicate" ELSE venv.devel
           arch  == IF job.mode = "rocm" THEN Arch ELSE self.arch
<1>1. PICK torch :
        /\ venv.torch # NoTorch => torch = venv.torch
        /\ venv.torch = NoTorch =>
             torch.index = Index /\ torch.gpu_arch = IF job.mode = "rocm" THEN Arch ELSE None
        /\ venv.torch = NoTorch /\ torch.mode = "rocm" => job.mode = "rocm"
        /\ venv' = [venv EXCEPT !.torch = torch, !.devel = devel]
    BY DEF PipTorch
<1>2. /\ pc = "torch" /\ pc' = "record" /\ job' = job
      /\ job.mode \in Wheels /\ self.torch_mode = "missing"
      /\ job.mode = "rocm" => Arch # None
      /\ self' = [self EXCEPT !.index = Index, !.arch = arch]
    BY DEF PipTorch, Installs, Goto, Wheels
<1> HIDE DEF devel, arch
<1>3. Shapes' /\ self'.index = Index /\ self'.arch = arch
    BY <1>1, <1>2 DEF MixInv, Shapes
<1>4. /\ venv'.torch = torch /\ venv'.record = venv.record
      /\ venv'.python = venv.python /\ venv'.relic = venv.relic
    BY <1>1 DEF MixInv, Shapes
<1>5. self.arch = None /\ job.index \in {None, Index}
    BY <1>2 DEF MixInv, Options, Index
<1>6. job.mode = "rocm" => job.gpu_arch \in {None, Arch}
    BY <1>5 DEF Arch
<1>7. RocmHasArch'
    BY <1>1, <1>2, <1>4 DEF MixInv, RocmHasArch
<1>8. Options' /\ Cleaning'
    BY <1>2, <1>3, <1>5, <1>6 DEF Options, Cleaning, arch
<1>9. ASSUME ~venv.relic PROVE RecordTrue' /\ Installed'
    <2>1. venv.torch = NoTorch => venv.record = NoRecord
        BY <1>9 DEF MixInv, Known, RecordTrue
    <2>2. venv.torch # NoTorch => Probe(venv.torch) = "missing"
        BY <1>2, <1>9 DEF MixInv, Known, Found
    <2>3. venv.torch = NoTorch => torch.index = Index /\ torch.gpu_arch = arch
        BY <1>1, <1>5 DEF arch
    <2>4. RecordTrue'
        BY <1>1, <1>4, <1>9, <2>1 DEF MixInv, Known, RecordTrue
    <2>5. Installed'
        BY <1>1, <1>3, <1>4, <2>2, <2>3 DEF Installed, Probe
    <2> QED BY <2>4, <2>5
<1>10. ASSUME ~venv.relic PROVE NewIsEmpty'
    BY <1>2, <1>4, <1>10 DEF MixInv, Known, NewIsEmpty
<1>11. Found' /\ ArchKept' /\ Asked'
    BY <1>2 DEF Found, ArchKept, Asked, OnTheWay
<1> QED BY <1>3, <1>4, <1>7, <1>8, <1>9, <1>10, <1>11 DEF MixInv, Known

LEMMA RecordMix == MixInv /\ (WriteRecord \/ RecordTorn) => MixInv'
<1> SUFFICES ASSUME MixInv, WriteRecord \/ RecordTorn PROVE MixInv'
    OBVIOUS
<1> USE DEF MixInv, Shapes, Goto, Exit, NoRun
<1>1. CASE WriteRecord
    <2> USE <1>1 DEF WriteRecord
    <2>1. Shapes' /\ RocmHasArch' /\ Options' /\ Cleaning'
        BY DEF RocmHasArch, Options, Cleaning
    <2>2. ASSUME ~venv.relic PROVE Known'
        BY <2>2 DEF Known, RecordTrue, NewIsEmpty, Found, Installed, ArchKept, Asked, OnTheWay,
                    Probe, NoTorch, NoRecord, None, Options, Wheels, BuildsFor
    <2> QED BY <2>1, <2>2 DEF Known
<1>2. CASE RecordTorn
    BY <1>2 DEF RecordTorn, RocmHasArch, Options, Cleaning, Known, RecordTrue, NewIsEmpty, Found,
                Installed, ArchKept, Asked, OnTheWay
<1> QED BY <1>1, <1>2

(* The inductive invariant of the torch of the venv: the record is true    *)
(* unless an interrupted --clean left a relic, and the run's options and   *)
(* what it found are those it works with (install_torch(), TORCH_RECORD).  *)
THEOREM MixInductive == SpecSetup => []MixInv
<1>1. ASSUME MixInv, [NextSetup]_vars PROVE MixInv'
    <2>1. CASE UNCHANGED vars
        BY <1>1, <2>1 DEF vars, disk, run, MixInv, Shapes, RocmHasArch, Options,
              Cleaning, Known, RecordTrue, NewIsEmpty, Found, Installed, ArchKept, Asked, BuildsFor
    <2>2. CASE NextSetup
        BY <1>1, <2>2, StartMix, ConfirmMix, CleanMix, CutMix, VenvMix, KeepMix, PipMix,
           RecordMix, PastSteps, PastMix DEF NextSetup, MixInv
    <2> QED BY <1>1, <2>1, <2>2
<1> QED BY MixInit, <1>1, PTL DEF SpecSetup

(* In a venv that no interrupted --clean left: a run in cpu, cuda or rocm  *)
(* mode goes on with the torch its flags name or warns, and a run in rocm  *)
(* mode builds for another GPU than its torch's only where the record is   *)
(* missing, and there only with a warning or without --gpu-arch            *)
(* (require_same_torch_source(), install_torch()).                         *)
THEOREM NoSilentMixes == SpecSetup => []NoSilentMix
<1>1. \A arch : BuildsFor(arch) => Arch = arch
    BY DEF BuildsFor, Arch
<1>2. MixInv => NoSilentMix
    BY <1>1 DEF MixInv, Known, Asked, ArchKept, OnTheWay, NoSilentMix, Wheels
<1> QED BY <1>2, MixInductive, PTL

-----------------------------------------------------------------------------
(* What a run that verified leaves behind.                                 *)

(* activate.local names a prefix with hipDNN's plugins under lib/, if the   *)
(* run built them or found them there.                                     *)
Plugged == "lib" \in hipdnn[venv.env]
Prefixed ==
  /\ venv.env \in RocmPrefixes
  /\ DoBuild \/ self.plugins = "lib" => Plugged
Bound == venv.bindings # None

BuiltSteps == {"bind", "bind_reset", "bind_make", "bind_install"}
BoundSteps == {"rocke", "extras", "relink"}
ReadyInv ==
  /\ Shapes /\ DOMAIN hipdnn = RocmPrefixes
  /\ pc \in BuiltSteps => Prefixed
  /\ pc \in BoundSteps => Prefixed /\ Bound
  /\ pc = "verify" => Cuda \/ (Prefixed /\ Bound)
  /\ pc = "ready" /\ self.torch_mode # "cuda" =>
       /\ Bound /\ venv.env \in RocmPrefixes
       /\ self.built \/ self.plugins = "lib" => Plugged

(* Before those steps nothing is claimed.                                  *)
Earlier == Shapes' /\ pc' \notin BuiltSteps \cup BoundSteps \cup {"verify", "ready"}

LEMMA EarlierSteps ==
  /\ Shapes
  /\ \/ \E j \in Requests : Start(j)
     \/ Confirm \/ CleanVenv \/ CleanCut \/ SetupVenv \/ KeepTorch \/ PipTorch
     \/ WriteRecord \/ RecordTorn \/ ReuseCheckout \/ SparseAddCut \/ BeginFetch \/ Clone
     \/ Fetch \/ FetchFails \/ RemoveOld \/ Rename \/ ResetCut \/ Stop
  => Earlier
<1> USE DEF Earlier, BuiltSteps, BoundSteps, Goto, Exit, disk, run, NoRun, Shapes
<1>1. ASSUME Shapes, NEW j \in Requests, Start(j) PROVE Earlier
    BY <1>1 DEF Start
<1>2. Shapes /\ (Confirm \/ CleanVenv) => Earlier
    BY DEF Confirm, CleanVenv, NoVenv
<1>3. Shapes /\ CleanCut => Earlier
    <2> SUFFICES ASSUME CleanCut PROVE Earlier
        OBVIOUS
    <2>1. PICK python \in {FALSE, venv.python}, torch \in {NoTorch, venv.torch},
               record \in {NoRecord, venv.record}, bindings \in {None, venv.bindings},
               env \in {None, venv.env} :
            venv' = [NoVenv EXCEPT !.python = python, !.torch = torch, !.record = record,
                                   !.bindings = bindings, !.env = env, !.relic = TRUE]
        BY Zenon DEF CleanCut
    <2>2. pc' = "idle" /\ self' = NoRun
        BY DEF CleanCut
    <2> QED BY <2>1, <2>2 DEF NoVenv
<1>4. Shapes /\ SetupVenv => Earlier
    BY DEF SetupVenv
<1>5. Shapes /\ KeepTorch => Earlier
    BY DEF KeepTorch, Adopted
<1>6. Shapes /\ PipTorch => Earlier
    BY DEF PipTorch
<1>7. Shapes /\ (WriteRecord \/ RecordTorn) => Earlier
    BY DEF WriteRecord, RecordTorn
<1>8. Shapes /\ (ReuseCheckout \/ SparseAddCut \/ BeginFetch) => Earlier
    BY DEF ReuseCheckout, SparseAddCut, BeginFetch
<1>9. Shapes /\ (Clone \/ Fetch \/ FetchFails \/ RemoveOld \/ Rename) => Earlier
    BY DEF Clone, Fetch, FetchFails, RemoveOld, Rename
<1>10. Shapes /\ (ResetCut \/ Stop) => Earlier
    BY DEF ResetCut, Stop
<1> QED BY <1>1, <1>2, <1>3, <1>4, <1>5, <1>6, <1>7, <1>8, <1>9, <1>10

LEMMA PrefixesStay ==
  ASSUME DOMAIN hipdnn = RocmPrefixes, [NextSetup]_vars
  PROVE  DOMAIN hipdnn' = RocmPrefixes
<1>1. \A p, x : DOMAIN [hipdnn EXCEPT ![p] = x] = RocmPrefixes
    OBVIOUS
<1>2. ASSUME CleanVenv \/ CleanCut \/ PipTorch \/ Install PROVE DOMAIN hipdnn' = RocmPrefixes
    BY <1>1, <1>2 DEF CleanVenv, CleanCut, PipTorch, Install
<1>3. ASSUME UNCHANGED hipdnn PROVE DOMAIN hipdnn' = RocmPrefixes
    BY <1>3
<1>4. UNCHANGED hipdnn \/ CleanVenv \/ CleanCut \/ PipTorch \/ Install
    BY DEF NextSetup, vars, disk, Start, Confirm, SetupVenv, KeepTorch, WriteRecord, RecordTorn,
           Package, ReuseCheckout, SparseAddCut, BeginFetch, Clone, Fetch, FetchFails, RemoveOld,
           Rename, BuildHipdnn, ResetBuildDir, ResetCut, Make, Bindings, InstallBindings,
           InstallRocke, StageLink, Relink, Verify, Stop
<1> QED BY <1>2, <1>3, <1>4

(* The steps that leave the prefix and the plugins found in it alone.      *)
LEMMA PrefixedStays ==
  ASSUME Prefixed, UNCHANGED <<job, self, hipdnn>>, venv'.env = venv.env
  PROVE  Prefixed'
BY DEF Prefixed, Plugged, DoBuild, Cuda

LEMMA ReadyStep == ReadyInv /\ [NextSetup]_vars => ReadyInv'
<1> SUFFICES ASSUME ReadyInv, [NextSetup]_vars PROVE ReadyInv'
    OBVIOUS
<1>1. DOMAIN hipdnn = RocmPrefixes /\ DOMAIN hipdnn' = RocmPrefixes
    BY PrefixesStay DEF ReadyInv
<1>2. Earlier => ReadyInv'
    BY <1>1 DEF Earlier, ReadyInv, BuiltSteps, BoundSteps
<1>3. Prefix \in RocmPrefixes
    BY DEF Prefix, RocmPrefixes
<1>4. CASE Package
    <2>1. Shapes' /\ pc' \in {"verify", "sources", "plugins"} /\ (pc' = "verify" => Cuda')
        BY <1>4 DEF Package, Goto, run, disk, Cuda, ReadyInv, Shapes
    <2> QED BY <1>1, <2>1 DEF ReadyInv, BuiltSteps, BoundSteps
<1>5. CASE BuildHipdnn
    <2>1. Shapes'
        BY <1>5 DEF BuildHipdnn, ReadyInv, Shapes
    <2>2. CASE pc' = "reset"
        BY <1>1, <2>1, <2>2 DEF ReadyInv, BuiltSteps, BoundSteps
    <2>3. CASE pc' # "reset"
        <3>1. /\ ~DoBuild /\ pc' = "bind" /\ venv'.env = Prefix /\ hipdnn' = hipdnn
              /\ self'.plugins = PluginsIn(hipdnn[Prefix]) /\ job' = job
              /\ self'.torch_mode = self.torch_mode
            BY <1>5, <2>3 DEF BuildHipdnn, Goto, ReadyInv, Shapes
        <3>2. ~DoBuild'
            BY <3>1 DEF DoBuild, Cuda
        <3>3. self'.plugins = "lib" => "lib" \in hipdnn[Prefix]
            BY <3>1 DEF PluginsIn, None
        <3>4. Prefixed'
            BY <1>3, <3>1, <3>2, <3>3 DEF Prefixed, Plugged
        <3> QED BY <1>1, <2>1, <3>1, <3>4 DEF ReadyInv, BuiltSteps, BoundSteps
    <2> QED BY <2>2, <2>3
<1>6. CASE ResetBuildDir \/ Make \/ Bindings
    <2>1. Shapes' /\ venv' = venv /\ hipdnn' = hipdnn
        BY <1>6 DEF ResetBuildDir, Make, Bindings, NoRun, run, disk, Exit, ReadyInv, Shapes
    <2>2. \/ pc' \in {"idle", "make", "install"}
          \/ pc \in BuiltSteps /\ pc' \in BuiltSteps /\ UNCHANGED <<job, self>>
          \/ pc \in BuiltSteps /\ pc' = "rocke" /\ Bound /\ UNCHANGED <<job, self>>
        BY <1>6 DEF ResetBuildDir, Make, Bindings, HasBindings, Goto, Exit, run, BuiltSteps,
                    Bound
    <2>3. pc' \in BuiltSteps \cup {"rocke"} => Prefixed'
        BY <2>1, <2>2, PrefixedStays DEF ReadyInv, BuiltSteps
    <2> QED BY <1>1, <2>1, <2>2, <2>3 DEF ReadyInv, BuiltSteps, BoundSteps, Bound
<1>7. CASE Install
    <2>1. Shapes' /\ pc' = "bind"
        BY <1>7 DEF Install, Goto, ReadyInv, Shapes
    <2>2. venv'.env = Prefix /\ "lib" \in hipdnn'[Prefix]
        BY <1>1, <1>3, <1>7 DEF Install, ReadyInv, Shapes
    <2>3. Prefixed'
        BY <1>3, <2>2 DEF Prefixed, Plugged
    <2> QED BY <1>1, <2>1, <2>3 DEF ReadyInv, BuiltSteps, BoundSteps
<1>8. CASE InstallBindings \/ InstallRocke \/ StageLink \/ Relink
    <2>1. /\ Shapes' /\ UNCHANGED <<job, self, hipdnn>> /\ venv'.env = venv.env
          /\ pc' \in BoundSteps \cup {"verify"} /\ pc' # "ready"
          /\ pc \in BuiltSteps \cup BoundSteps
        BY <1>8 DEF InstallBindings, InstallRocke, StageLink, Relink, Goto, run, BuiltSteps,
                    BoundSteps, ReadyInv, Shapes
    <2>2. Prefixed'
        BY <2>1, PrefixedStays DEF ReadyInv
    <2>3. Bound'
        <3>1. CASE InstallBindings
            BY <3>1 DEF InstallBindings, Prefix, None, Bound, ReadyInv, Shapes
        <3>2. CASE InstallRocke \/ StageLink \/ Relink
            <4>1. pc \in BoundSteps /\ venv'.bindings = venv.bindings
                BY <3>2 DEF InstallRocke, StageLink, Relink, BoundSteps, ReadyInv, Shapes
            <4> QED BY <4>1 DEF Bound, ReadyInv
        <3> QED BY <1>8, <3>1, <3>2
    <2> QED BY <1>1, <2>1, <2>2, <2>3 DEF ReadyInv, BuiltSteps, BoundSteps
<1>9. CASE Verify
    <2>1. /\ pc = "verify" /\ pc' = "ready" /\ UNCHANGED <<venv, hipdnn>>
          /\ self'.torch_mode = (IF Cuda THEN "cuda" ELSE "missing")
          /\ self'.plugins = self.plugins /\ self'.built = DoBuild /\ Shapes'
        BY <1>9 DEF Verify, disk, NoRun, ReadyInv, Shapes
    <2> QED BY <1>1, <2>1 DEF ReadyInv, BuiltSteps, BoundSteps, Prefixed, Plugged, Bound
<1>10. CASE UNCHANGED vars
    BY <1>10 DEF vars, disk, run, ReadyInv, Shapes, Prefixed, Plugged, Bound, DoBuild, Cuda
<1> QED BY <1>2, <1>4, <1>5, <1>6, <1>7, <1>8, <1>9, <1>10, EarlierSteps DEF NextSetup, ReadyInv

-----------------------------------------------------------------------------
(* The command.                                                            *)

(* A command leaves the installation alone.                                *)
LEMMA LaunchIsSetup == NextLaunch => [NextSetup]_vars
BY DEF NextLaunch, Enter, Configure, Bind, Reference, StartHipdnn, StartTorch, RunSuite,
       CompareFiles, Prompt, Leave, Still, everything

(* Over the behaviours of Launch the installation behaves as in Setup.     *)
THEOREM LaunchRefinesSetup == SpecLaunch => SpecSetup
<1>1. InitLaunch => Init
    BY DEF InitLaunch
<1>2. [NextLaunch]_everything => [NextSetup]_vars
    BY LaunchIsSetup DEF everything
<1> QED BY <1>1, <1>2, PTL DEF SpecLaunch, SpecSetup

(* What the command knows.                                                 *)
Opened(path) == [Quiet EXCEPT !.rocm_path = path]
Known1 == Merged(command.cli, command.config)

Console ==
  /\ step \in {"shell", "config", "starting", "ended"}
  /\ start = [rocm_path |-> start.rocm_path, todo |-> start.todo, error |-> start.error,
              backend |-> start.backend, torch |-> start.torch, pairs |-> start.pairs]
  /\ start.rocm_path \in RocmPrefixes \cup {None}
  /\ step # "ended" => status = NoStatus
  /\ step = "shell" => start = Quiet
  /\ step \in {"config", "starting"} =>
       /\ command \in Commands
       /\ command.config # NoConfig => ConfigValid(command.config)
  /\ step = "config" => start = Opened(start.rocm_path) /\ args = Known1
  /\ step = "starting" => args = WithDefault(Known1) /\ SuiteConfigValid(args)

LEMMA ConsoleInit == InitLaunch => Console
BY DEF InitLaunch, Console, Quiet, Opened

LEMMA ConsoleStep == Console /\ [NextLaunch]_everything => Console'
<1> SUFFICES ASSUME Console, [NextLaunch]_everything PROVE Console'
    OBVIOUS
<1> USE DEF Console, console, disk, vars, Known1
<1>1. CASE step = "shell" /\ NextSetup /\ UNCHANGED console
    BY <1>1
<1>2. ASSUME NEW c \in Commands, Enter(c) PROVE Console'
    <2>1. PICK path \in RocmPrefixes \cup {None} : start' = [Quiet EXCEPT !.rocm_path = path]
        BY <1>2, CommandsAssumption DEF Enter, RocmPath
    <2>2. start' = Opened(path) /\ start'.rocm_path = path
        BY <2>1 DEF Opened, Quiet
    <2>3. command' = c /\ step' \in {"config", "ended"} /\ status = NoStatus
        BY <1>2 DEF Enter, End
    <2>4. step' = "config" =>
            /\ c.config # NoConfig => ConfigValid(c.config)
            /\ status' = status /\ args' = Merged(c.cli, c.config)
        BY <1>2 DEF Enter, End
    <2> QED BY <2>1, <2>2, <2>3, <2>4 DEF Quiet
<1>3. CASE Configure
    <2>1. /\ UNCHANGED <<command, status>> \/ step' = "ended"
          /\ step' \in {"starting", "ended"} /\ command' = command
          /\ start' = start \/ start' = [start EXCEPT !.todo = start'.todo]
          /\ step' = "starting" => args' = WithDefault(args) /\ SuiteConfigValid(args')
          /\ step = "config"
          /\ UNCHANGED vars
        BY <1>3 DEF Configure, End
    <2>2. start'.rocm_path = start.rocm_path
        BY <2>1
    <2>3. WithDefault(Known1)' = WithDefault(Known1)
        BY <2>1, <2>2 DEF WithDefault, DefaultPluginPath, WheelSdk, Merged, Matrix
    <2> QED BY <2>1, <2>2, <2>3
<1>4. CASE Bind \/ Reference \/ StartHipdnn \/ StartTorch \/ RunSuite
    <2>1. /\ step = "starting" /\ step' \in {"starting", "ended"}
          /\ UNCHANGED <<vars, command, args>>
          /\ step' = "starting" => status' = status
        BY <1>4 DEF Bind, Reference, StartHipdnn, StartTorch, RunSuite, Still, Next1, Done, End
    <2>2. start'.rocm_path = start.rocm_path
          /\ start' = [rocm_path |-> start'.rocm_path, todo |-> start'.todo,
                       error |-> start'.error, backend |-> start'.backend,
                       torch |-> start'.torch, pairs |-> start'.pairs]
        BY <1>4 DEF Bind, Reference, StartHipdnn, StartTorch, RunSuite, Done, End, ImportTorch
    <2>3. WithDefault(Known1)' = WithDefault(Known1)
        BY <2>1, <2>2 DEF WithDefault, DefaultPluginPath, WheelSdk, Merged, Matrix
    <2>4. SuiteConfigValid(args)' = SuiteConfigValid(args)
        BY <2>1 DEF SuiteConfigValid, Given
    <2> QED BY <2>1, <2>2, <2>3, <2>4
<1>5. CASE CompareFiles \/ Prompt
    <2>1. CASE CompareFiles
        <3>1. step' = "ended" /\ start' = start
            BY <2>1 DEF CompareFiles, End
        <3> QED BY <3>1
    <2>2. CASE Prompt
        BY <2>2 DEF Prompt, Quiet
    <2> QED BY <1>5, <2>1, <2>2
<1>6. CASE Leave \/ UNCHANGED everything
    <2>1. UNCHANGED everything
        BY <1>6 DEF Leave
    <2> QED BY <2>1 DEF everything, WithDefault, DefaultPluginPath, WheelSdk, Merged,
                        Matrix, SuiteConfigValid, Given
<1> QED BY <1>1, <1>2, <1>3, <1>4, <1>5, <1>6 DEF NextLaunch

-----------------------------------------------------------------------------
(* hipDNN first.                                                           *)

(* What start_runtime() still has to do before hipDNN, or before torch.    *)
BindAhead == start.todo # <<>> /\ Head(start.todo) = "bind"
ReferenceAhead ==
  /\ start.todo # <<>>
  /\ \/ Head(start.todo) = "reference"
     \/ BindAhead /\ Tail(start.todo) # <<>> /\ Head(Tail(start.todo)) = "reference"
Tasks == {"bind", "reference", "hipdnn", "pytorch", "rocke"}
Ordered ==
  step = "starting" =>
    /\ start.todo \in Seq(Tasks)
    /\ "hipdnn" \in args.runtime => BindAhead \/ start.backend # None \/ start.error
    /\ args.validate => ReferenceAhead \/ start.torch

LEMMA OrderFirst ==
  ASSUME NEW R, NEW t, t = Order(R) \o InOrder(R)
  PROVE  /\ t \in Seq(Tasks) /\ t # <<>>
         /\ "hipdnn" \in R => Head(t) = "bind" /\ Tail(t) # <<>> /\ Head(Tail(t)) = "reference"
         /\ "hipdnn" \notin R => Head(t) = "reference"
<1> DEFINE If(r) == IF r \in R THEN <<r>> ELSE <<>>
           o == Order(R)
           s == InOrder(R)
<1>1. \A x \in Tasks : <<x>> \in Seq(Tasks)
    OBVIOUS
<1>2. ASSUME NEW r \in Tasks PROVE If(r) \in Seq(Tasks)
    BY <1>1, EmptySeq
<1>3. /\ "hipdnn" \in Tasks /\ "pytorch" \in Tasks /\ "rocke" \in Tasks
      /\ "bind" \in Tasks /\ "reference" \in Tasks
    BY DEF Tasks
<1>4. s \in Seq(Tasks)
    <2>1. s = If("hipdnn") \o If("pytorch") \o If("rocke")
        BY DEF InOrder
    <2> HIDE DEF If, s
    <2>2. If("hipdnn") \o If("pytorch") \in Seq(Tasks)
        BY <1>2, <1>3, ConcatProperties
    <2> QED BY <1>2, <1>3, <2>1, <2>2, ConcatProperties
<1>5. /\ o \in Seq(Tasks) /\ Len(o) \in {1, 2}
      /\ "hipdnn" \in R => Len(o) = 2 /\ o[1] = "bind" /\ o[2] = "reference"
      /\ "hipdnn" \notin R => Len(o) = 1 /\ o[1] = "reference"
    BY <1>3 DEF Order
<1> HIDE DEF o, s
<1>6. /\ t \in Seq(Tasks) /\ Len(t) = Len(o) + Len(s)
      /\ \A i \in 1..Len(o) + Len(s) : t[i] = IF i <= Len(o) THEN o[i] ELSE s[i - Len(o)]
    BY <1>4, <1>5, ConcatProperties DEF o, s
<1>7. Len(s) \in Nat
    BY <1>4, LenProperties
<1>8. t # <<>> /\ t[1] = o[1] /\ Len(t) >= Len(o) /\ ("hipdnn" \in R => t[2] = o[2])
    BY <1>5, <1>6, <1>7
<1>9. /\ Head(t) = t[1] /\ Len(Tail(t)) = Len(t) - 1
      /\ \A i \in 1..Len(Tail(t)) : Tail(t)[i] = t[i + 1]
    BY <1>6, <1>8, HeadTailProperties
<1>10. ASSUME "hipdnn" \in R PROVE Tail(t) # <<>> /\ Head(Tail(t)) = "reference"
    <2> DEFINE n == Len(s)
    <2>1. Len(t) = 2 + n /\ n \in Nat
        BY <1>5, <1>6, <1>7, <1>10
    <2> HIDE DEF n
    <2>2. Len(Tail(t)) = 1 + n
        BY <1>9, <2>1
    <2>3. Len(Tail(t)) >= 1 /\ Len(Tail(t)) \in Nat
        BY <2>1, <2>2
    <2>4. Tail(t) # <<>> /\ Head(Tail(t)) = Tail(t)[1]
        BY <2>3
    <2> QED BY <1>5, <1>8, <1>9, <1>10, <2>3, <2>4
<1> QED BY <1>5, <1>6, <1>8, <1>9, <1>10

LEMMA TailOrdered ==
  ASSUME NEW t \in Seq(Tasks), t # <<>> PROVE Tail(t) \in Seq(Tasks)
BY HeadTailProperties

FirstInv == Ordered /\ HipdnnFirst

LEMMA FirstStep ==
  ASSUME Console, FirstInv, [NextLaunch]_everything
  PROVE  FirstInv'
<1> USE DEF FirstInv
<1>1. CASE step = "shell" /\ NextSetup /\ UNCHANGED console
    <2>1. start = Quiet /\ start' = Quiet /\ step' = "shell" /\ status' = NoStatus
        BY <1>1 DEF Console, console
    <2> QED BY <2>1 DEF Ordered, HipdnnFirst, Quiet, NoStatus, None
<1>2. ASSUME NEW c \in Commands, Enter(c) PROVE FirstInv'
    <2>1. start'.backend = None /\ step' # "starting" /\ status'.why # "bindings"
        BY <1>2 DEF Enter, End, Quiet, Console, NoStatus, None
    <2> QED BY <2>1 DEF Ordered, HipdnnFirst, None
<1>3. CASE Configure
    <2>1. start.backend = None /\ step = "config" /\ status.why # "bindings"
        BY <1>3 DEF Configure, Console, Opened, Quiet, NoStatus, None
    <2>2. CASE step' = "ended"
        <3>1. start'.backend = None /\ status'.why # "bindings"
            BY <1>3, <2>1, <2>2 DEF Configure, End
        <3> QED BY <2>2, <3>1 DEF Ordered, HipdnnFirst, None
    <2>3. CASE step' # "ended"
        <3>1. /\ start' = [start EXCEPT !.todo = Order(args'.runtime) \o InOrder(args'.runtime)]
              /\ status' = status
            BY <1>3, <2>3 DEF Configure, End
        <3>2. /\ start'.todo = Order(args'.runtime) \o InOrder(args'.runtime)
              /\ start'.backend = None
            BY <2>1, <3>1 DEF Console
        <3>3. HipdnnFirst'
            BY <2>1, <3>1, <3>2 DEF HipdnnFirst, None
        <3>4. Ordered'
            BY <3>2, OrderFirst DEF Ordered, BindAhead, ReferenceAhead
        <3> QED BY <3>3, <3>4
    <2> QED BY <2>2, <2>3
<1>4. CASE Bind \/ Reference \/ StartHipdnn \/ StartTorch \/ RunSuite
    <2>1. /\ step = "starting" /\ step' \in {"starting", "ended"}
          /\ UNCHANGED <<vars, command, args>> /\ status = NoStatus
        BY <1>4 DEF Bind, Reference, StartHipdnn, StartTorch, RunSuite, Still, Next1, Done, End,
                    Console
    <2>2. start'.rocm_path = start.rocm_path
        BY <1>4, <2>1 DEF Bind, Reference, StartHipdnn, StartTorch, RunSuite, Done, End,
                          ImportTorch, Console
    <2>3. CASE Bind
        <3>1. BindAhead /\ status' = status /\ start'.todo = Tail(start.todo)
              /\ start'.torch = start.torch
            BY <2>3 DEF Bind, Next1, Done, Console, BindAhead
        <3>2. start'.backend # None \/ start'.error
            BY <2>3 DEF Bind, Done, Console, None
        <3>3. Ordered'
            BY <2>1, <3>1, <3>2, TailOrdered DEF Ordered, BindAhead, ReferenceAhead
        <3>4. start.rocm_path # None =>
                \/ start'.backend = start.backend /\ start'.error = start.error
                \/ start'.backend = "hipdnn" \/ start'.error
            BY <2>3 DEF Bind, Done, Preloaded, Console
        <3>5. HipdnnFirst'
            BY <2>1, <2>2, <3>1, <3>4 DEF HipdnnFirst, NoStatus, None
        <3> QED BY <3>3, <3>5
    <2>4. CASE step' = "ended" /\ ~Bind
        <3>1. start' = start
            BY <1>4, <2>1, <2>4 DEF Reference, StartHipdnn, StartTorch, RunSuite, Done, End
        <3>2. status'.why = "bindings" => StartHipdnn /\ Head(start.todo) = "hipdnn"
            BY <1>4, <2>1, <2>4 DEF Reference, StartHipdnn, StartTorch, RunSuite, Done, End, Next1
        <3>3. HipdnnFirst'
            BY <2>1, <2>2, <3>1, <3>2 DEF HipdnnFirst, Ordered, ReferenceAhead, BindAhead
        <3> QED BY <2>4, <3>3 DEF Ordered
    <2>5. CASE step' = "starting" /\ ~Bind
        <3>1. /\ ~BindAhead /\ start.todo # <<>> /\ start'.todo = Tail(start.todo)
              /\ start'.error = start.error /\ status' = status
            BY <1>4, <2>1, <2>5
               DEF Reference, StartHipdnn, StartTorch, RunSuite, Done, End, Next1, BindAhead,
                   Console, ImportTorch
        <3>2. \/ start'.backend = start.backend /\ (start'.torch = start.torch)
              \/ start' = [ImportTorch EXCEPT !.todo = Tail(start.todo)]
            BY <1>4, <2>1, <2>5
               DEF Reference, StartHipdnn, StartTorch, RunSuite, Done, End, Console, ImportTorch
        <3>3. start.backend # None => start'.backend = start.backend
            BY <3>2 DEF ImportTorch, Loads, Console
        <3>4. start.torch => start'.torch
            BY <3>2 DEF ImportTorch, Console
        <3>5. args.validate /\ Head(start.todo) = "reference" => start'.torch
            BY <1>4, <2>1, <2>5
               DEF Reference, StartHipdnn, StartTorch, RunSuite, Done, End, Next1, Console,
                   ImportTorch
        <3>6. Ordered'
            BY <2>1, <3>1, <3>3, <3>4, <3>5, TailOrdered DEF Ordered, ReferenceAhead, BindAhead
        <3>7. HipdnnFirst'
            BY <2>1, <2>2, <3>1, <3>3 DEF HipdnnFirst, Ordered, NoStatus, None
        <3> QED BY <3>6, <3>7
    <2> QED BY <1>4, <2>1, <2>3, <2>4, <2>5
<1>5. CASE CompareFiles \/ Prompt
    <2>1. CASE CompareFiles
        <3>1. step' = "ended" /\ status'.why = "compare" /\ UNCHANGED <<start, args, vars>>
              /\ step = "shell"
            BY <2>1 DEF CompareFiles, End
        <3> QED BY <3>1 DEF Ordered, HipdnnFirst, Console, Quiet, None
    <2>2. CASE Prompt
        BY <2>2 DEF Prompt, Ordered, HipdnnFirst, Quiet, NoStatus, None
    <2> QED BY <1>5, <2>1, <2>2
<1>6. CASE Leave \/ UNCHANGED everything
    <2>1. UNCHANGED everything
        BY <1>6 DEF Leave
    <2> QED BY <2>1 DEF everything, console, vars, disk, Ordered, HipdnnFirst, BindAhead,
                        ReferenceAhead
<1> QED BY <1>1, <1>2, <1>3, <1>4, <1>5, <1>6 DEF NextLaunch

-----------------------------------------------------------------------------
(* Which engine with which plugin.                                         *)

LEMMA OverIs ==
  ASSUME NEW f, NEW g, NEW k \in DOMAIN g
  PROVE  k \in DOMAIN Over(f, g) /\ Over(f, g)[k] = IF k \in DOMAIN f THEN f[k] ELSE g[k]
BY DEF Over

LEMMA MergedIs ==
  ASSUME NEW c \in Commands
  PROVE  LET a == Merged(c.cli, c.config)
             m == Matrix(c.cli, c.config)
         IN  /\ {"engine", "plugin_path"} \subseteq DOMAIN a
             /\ a.engine = IF "engine" \in DOMAIN c.cli THEN c.cli.engine
                           ELSE IF c.config # NoConfig /\ "engine" \in DOMAIN m THEN m.engine
                           ELSE <<>>
             /\ a.plugin_path =
                  IF "plugin_path" \in DOMAIN c.cli THEN c.cli.plugin_path
                  ELSE IF c.config = NoConfig THEN <<>>
                  ELSE IF "plugin_path" \in DOMAIN m THEN m.plugin_path
                  ELSE IF "plugin_path" \in DOMAIN c.config.options
                         THEN c.config.options.plugin_path
                  ELSE <<>>
<1> DEFINE m == Matrix(c.cli, c.config)
<1>1. /\ {"engine", "plugin_path"} \subseteq DOMAIN OPTION_DEFAULTS
      /\ OPTION_DEFAULTS.engine = <<>> /\ OPTION_DEFAULTS.plugin_path = <<>>
    BY DEF OPTION_DEFAULTS
<1>2. c.config # NoConfig => "engine" \notin DOMAIN c.config.options
    BY CommandsAssumption
<1> DEFINE o == Over(c.config.options, OPTION_DEFAULTS)
           b == Over(m, o)
           d == IF c.config = NoConfig THEN OPTION_DEFAULTS ELSE b
<1>3. /\ {"engine", "plugin_path"} \subseteq DOMAIN o
      /\ o["engine"] = IF "engine" \in DOMAIN c.config.options
                         THEN c.config.options["engine"] ELSE <<>>
      /\ o["plugin_path"] = IF "plugin_path" \in DOMAIN c.config.options
                              THEN c.config.options["plugin_path"] ELSE <<>>
    BY <1>1, OverIs
<1> HIDE DEF o, m
<1>4. /\ {"engine", "plugin_path"} \subseteq DOMAIN b
      /\ b["engine"] = IF "engine" \in DOMAIN m THEN m["engine"] ELSE o["engine"]
      /\ b["plugin_path"] = IF "plugin_path" \in DOMAIN m THEN m["plugin_path"]
                            ELSE o["plugin_path"]
    BY <1>3, OverIs
<1>5. Merged(c.cli, c.config) = Over(c.cli, d)
    BY DEF Merged, m, o
<1> HIDE DEF b
<1>6. {"engine", "plugin_path"} \subseteq DOMAIN d
    BY <1>1, <1>4
<1> HIDE DEF d
<1>7. /\ {"engine", "plugin_path"} \subseteq DOMAIN Over(c.cli, d)
      /\ Over(c.cli, d)["engine"] = IF "engine" \in DOMAIN c.cli THEN c.cli["engine"]
                                    ELSE d["engine"]
      /\ Over(c.cli, d)["plugin_path"] = IF "plugin_path" \in DOMAIN c.cli THEN c.cli["plugin_path"]
                                         ELSE d["plugin_path"]
    BY <1>6, OverIs
<1> QED BY <1>1, <1>2, <1>3, <1>4, <1>5, <1>7 DEF d, m

(* The table of a config file, as two lists of one length.                 *)
LEMMA MatrixIs ==
  ASSUME NEW engines, List(engines)
  PROVE  /\ List(IDs(engines)) /\ Len(IDs(engines)) = Len(engines)
         /\ List(PluginPaths(engines)) /\ Len(PluginPaths(engines)) = Len(engines)
         /\ \A i \in 1..Len(engines) : /\ IDs(engines)[i] = engines[i].id
                                       /\ PluginPaths(engines)[i] = engines[i].plugin_path
                                       /\ engines[i] \in ToSet(engines)
                                       /\ engines[i].plugin_path \in ToSet(PluginPaths(engines))
<1> DEFINE n == Len(engines)
           S == {engines[i].id : i \in 1..n} \cup {engines[i].plugin_path : i \in 1..n}
<1>1. n \in Nat /\ DOMAIN engines = 1..n
    BY DEF List
<1>2. IDs(engines) = [i \in 1..n |-> engines[i].id]
      /\ PluginPaths(engines) = [i \in 1..n |-> engines[i].plugin_path]
    BY <1>1 DEF IDs, PluginPaths
<1> HIDE DEF n
<1>3. IDs(engines) \in Seq(S) /\ PluginPaths(engines) \in Seq(S)
    BY <1>1, <1>2
<1>4. Len(IDs(engines)) = n /\ Len(PluginPaths(engines)) = n
    BY <1>1, <1>2, <1>3, LenProperties
<1>5. List(IDs(engines)) /\ List(PluginPaths(engines))
    BY <1>1, <1>2, <1>4 DEF List
<1> QED BY <1>1, <1>2, <1>4, <1>5 DEF n, ToSet

LEMMA TableIs ==
  ASSUME NEW c \in Commands, c.config # NoConfig
  PROVE  LET m == Matrix(c.cli, c.config)
             whole == {"engine", "plugin_path"} \cap DOMAIN c.cli = {} /\ c.config.engines # <<>>
         IN  /\ "engine" \in DOMAIN m <=> whole
             /\ "plugin_path" \in DOMAIN m <=>
                  whole /\ None \notin ToSet(PluginPaths(c.config.engines))
             /\ "engine" \in DOMAIN m => m.engine = IDs(c.config.engines)
             /\ "plugin_path" \in DOMAIN m => m.plugin_path = PluginPaths(c.config.engines)
<1>1. DOMAIN <<>> = {}
    OBVIOUS
<1> QED BY <1>1 DEF Matrix, MatrixOf

LEMMA NotEmpty ==
  ASSUME NEW s, List(s), s # <<>> PROVE Len(s) >= 1
<1>1. ASSUME Len(s) = 0 PROVE FALSE
    <2>1. s = [i \in 1..0 |-> s[i]]
        BY <1>1 DEF List
    <2> QED BY <2>1
<1> QED BY <1>1 DEF List

LEMMA NamedIsList ==
  ASSUME NEW c \in Commands
  PROVE  List(NamedPaths(c))
<1> DEFINE m == Matrix(c.cli, c.config)
<1>1. List(<<>>)
    BY DEF List
<1>2. c.config # NoConfig /\ "plugin_path" \in DOMAIN m => List(m.plugin_path)
    BY CommandsAssumption, TableIs, MatrixIs
<1>3. /\ "plugin_path" \in DOMAIN c.cli => List(c.cli.plugin_path)
      /\ c.config # NoConfig /\ "plugin_path" \in DOMAIN c.config.options =>
           List(c.config.options.plugin_path)
    BY CommandsAssumption
<1> QED BY <1>1, <1>2, <1>3, MergedIs DEF NamedPaths

LEMMA DefaultIs ==
  ASSUME NEW a, {"engine", "plugin_path"} \subseteq DOMAIN a,
         start.rocm_path \in RocmPrefixes \cup {None}
  PROVE  /\ WithDefault(a).engine = a.engine
         /\ \/ WithDefault(a).plugin_path = a.plugin_path
            \/ /\ a.plugin_path = <<>> /\ DefaultPluginPath \in RocmPrefixes
               /\ WithDefault(a).plugin_path = <<DefaultPluginPath>>
<1>1. DefaultPluginPath \in RocmPrefixes \cup {None}
    BY DEF DefaultPluginPath, RocmPrefixes, None
<1> QED BY <1>1 DEF WithDefault

(* What a pair is made of: a path for each engine, one for all, or none.   *)
LEMMA PairIs ==
  ASSUME NEW a, NEW i \in DOMAIN a.engine,
         a.plugin_path = <<>> \/ List(a.plugin_path)
  PROVE  /\ i \in DOMAIN Selections(a) /\ Selections(a)[i][1] = a.engine[i]
         /\ a.plugin_path = <<>> => Selections(a)[i][2] = None
         /\ a.plugin_path # <<>> /\ Len(a.plugin_path) = 1 =>
              Selections(a)[i][2] = a.plugin_path[1]
         /\ a.plugin_path # <<>> /\ Len(a.plugin_path) # 1 =>
              Selections(a)[i][2] = a.plugin_path[i]
BY DEF Selections

LEMMA SelectionsArePairs ==
  ASSUME NEW a
  PROVE  /\ Selections(a) = [i \in DOMAIN a.engine |-> Selections(a)[i]]
         /\ \A i \in DOMAIN a.engine :
              Selections(a)[i] = <<Selections(a)[i][1], Selections(a)[i][2]>>
BY DEF Selections

(* PairsKept of any pairs.                                                 *)
Kept(pairs, c) ==
  \A i \in DOMAIN pairs :
    /\ "engine" \in DOMAIN c.cli => pairs[i][1] = c.cli.engine[i]
    /\ "plugin_path" \in DOMAIN c.cli =>
         /\ "engine" \in DOMAIN c.cli
         /\ pairs[i][2] = c.cli.plugin_path[IF Len(c.cli.plugin_path) = 1 THEN 1 ELSE i]
    /\ c.config # NoConfig /\ "plugin_path" \notin DOMAIN c.cli /\ NamedPaths(c) # <<>> =>
         LET table == {<<e.id, e.plugin_path>> : e \in ToSet(c.config.engines)} IN
         pairs[i][2] \in {t[2] : t \in table} \ {None} => pairs[i] \in table

LEMMA SelectionsKept ==
  ASSUME NEW c \in Commands, NEW a, a = WithDefault(Merged(c.cli, c.config)),
         SuiteConfigValid(a), c.config # NoConfig => ConfigValid(c.config),
         start.rocm_path \in RocmPrefixes \cup {None}
  PROVE  Kept(Selections(a), c)
<1> DEFINE b == Merged(c.cli, c.config)
           m == Matrix(c.cli, c.config)
           engines == c.config.engines
<1>1. /\ a.engine = b.engine
      /\ \/ a.plugin_path = b.plugin_path
         \/ b.plugin_path = <<>> /\ \E d \in RocmPrefixes : a.plugin_path = <<d>>
      /\ b.plugin_path = NamedPaths(c)
    BY MergedIs, DefaultIs DEF NamedPaths
<1>2. List(a.plugin_path)
    <2>1. List(b.plugin_path) /\ \A d : List(<<d>>)
        BY <1>1, NamedIsList DEF List
    <2> QED BY <1>1, <2>1
<1>3. Len(a.plugin_path) > 1 => Len(a.plugin_path) = Len(a.engine)
    BY DEF SuiteConfigValid
<1>4. /\ a.engine = IF "engine" \in DOMAIN c.cli THEN c.cli.engine
                    ELSE IF c.config # NoConfig /\ "engine" \in DOMAIN m THEN m.engine
                    ELSE <<>>
      /\ b.plugin_path =
           IF "plugin_path" \in DOMAIN c.cli THEN c.cli.plugin_path
           ELSE IF c.config = NoConfig THEN <<>>
           ELSE IF "plugin_path" \in DOMAIN m THEN m.plugin_path
           ELSE IF "plugin_path" \in DOMAIN c.config.options THEN c.config.options.plugin_path
           ELSE <<>>
    BY <1>1, MergedIs
<1>5. Selections(a) = [i \in DOMAIN a.engine |-> Selections(a)[i]]
      /\ \A i \in DOMAIN a.engine :
           Selections(a)[i] = <<Selections(a)[i][1], Selections(a)[i][2]>>
    BY SelectionsArePairs
<1> HIDE DEF b, m, engines
<1> SUFFICES ASSUME NEW i \in DOMAIN a.engine
             PROVE  LET pair == Selections(a)[i] IN
                    /\ "engine" \in DOMAIN c.cli => pair[1] = c.cli.engine[i]
                    /\ "plugin_path" \in DOMAIN c.cli =>
                         /\ "engine" \in DOMAIN c.cli
                         /\ pair[2] =
                              c.cli.plugin_path[IF Len(c.cli.plugin_path) = 1 THEN 1 ELSE i]
                    /\ /\ c.config # NoConfig /\ "plugin_path" \notin DOMAIN c.cli
                       /\ NamedPaths(c) # <<>>
                       =>
                         LET table == {<<e.id, e.plugin_path>> : e \in ToSet(engines)} IN
                         pair[2] \in {t[2] : t \in table} \ {None} => pair \in table
    <2>1. DOMAIN Selections(a) = DOMAIN a.engine
        BY <1>5
    <2> QED BY <2>1 DEF Kept, engines
<1> DEFINE pair == Selections(a)[i]
<1>6. /\ pair[1] = a.engine[i] /\ pair = <<pair[1], pair[2]>>
      /\ a.plugin_path = <<>> => pair[2] = None
      /\ a.plugin_path # <<>> /\ Len(a.plugin_path) = 1 => pair[2] = a.plugin_path[1]
      /\ a.plugin_path # <<>> /\ Len(a.plugin_path) # 1 => pair[2] = a.plugin_path[i]
    <2>1. pair = <<pair[1], pair[2]>>
        BY <1>5
    <2>2. a.plugin_path = <<>> \/ List(a.plugin_path)
        BY <1>2
    <2> QED BY <2>1, <2>2, PairIs
<1> HIDE DEF pair
<1>7. ASSUME a.plugin_path # <<>>, List(a.plugin_path), List(a.engine)
      PROVE  \E j \in DOMAIN a.plugin_path :
                pair[2] = a.plugin_path[j] /\ (Len(a.plugin_path) # 1 => j = i)
    <2>1. Len(a.plugin_path) >= 1 /\ Len(a.plugin_path) \in Nat
        BY <1>7, NotEmpty DEF List
    <2>2. CASE Len(a.plugin_path) = 1
        BY <1>6, <1>7, <2>2 DEF List
    <2>3. CASE Len(a.plugin_path) # 1
        <3>1. Len(a.plugin_path) > 1
            <4>1. \A n \in Nat : n >= 1 /\ n # 1 => n > 1
                OBVIOUS
            <4> QED BY <2>1, <2>3, <4>1
        <3>2. Len(a.plugin_path) = Len(a.engine)
            BY <1>3, <3>1
        <3>3. DOMAIN a.plugin_path = 1..Len(a.plugin_path) /\ DOMAIN a.engine = 1..Len(a.engine)
            BY <1>7 DEF List
        <3>4. i \in DOMAIN a.plugin_path
            BY <3>2, <3>3
        <3> QED BY <1>6, <1>7, <2>3, <3>4
    <2> QED BY <2>2, <2>3
<1>8. DOMAIN <<>> = {}
    OBVIOUS
<1>9. ASSUME "plugin_path" \in DOMAIN c.cli
      PROVE  /\ "engine" \in DOMAIN c.cli
             /\ pair[2] = c.cli.plugin_path[IF Len(c.cli.plugin_path) = 1 THEN 1 ELSE i]
    <2>1. "engine" \in DOMAIN c.cli
        <3>1. c.config # NoConfig => "engine" \notin DOMAIN m
            BY <1>9, TableIs DEF m
        <3> QED BY <1>4, <1>8, <3>1
    <2>2. List(c.cli.engine) /\ c.cli.plugin_path # <<>>
        BY <1>9, <2>1, CommandsAssumption
    <2>3. a.plugin_path = c.cli.plugin_path /\ a.engine = c.cli.engine
        BY <1>1, <1>4, <1>9, <2>1, <2>2
    <2> QED BY <1>6, <2>1, <2>2, <2>3
<1>10. ASSUME c.config # NoConfig, "plugin_path" \notin DOMAIN c.cli, NamedPaths(c) # <<>>,
              NEW e \in ToSet(engines), pair[2] = e.plugin_path, e.plugin_path # None
       PROVE  pair \in {<<f.id, f.plugin_path>> : f \in ToSet(engines)}
    <2>1. List(engines)
        BY <1>10, CommandsAssumption DEF engines
    <2>2. PICK k \in 1..Len(engines) : e = engines[k]
        BY <2>1 DEF ToSet, List
    <2>3. e.plugin_path \in ToSet(PluginPaths(engines))
        BY <2>1, <2>2, MatrixIs
    <2>4. "plugin_path" \notin DOMAIN c.config.options
        BY <1>10, <2>3 DEF ConfigValid, engines
    <2>5. a.plugin_path = b.plugin_path /\ a.plugin_path # <<>>
        BY <1>1, <1>10
    <2>6. "plugin_path" \in DOMAIN m /\ a.plugin_path = m.plugin_path
        BY <1>4, <1>10, <2>4, <2>5
    <2>7. a.plugin_path = PluginPaths(engines) /\ a.engine = IDs(engines)
        BY <1>4, <1>10, <2>6, TableIs DEF m, engines
    <2>8. /\ List(a.plugin_path) /\ Len(a.plugin_path) = Len(engines)
          /\ List(a.engine) /\ Len(a.engine) = Len(engines)
        BY <2>1, <2>7, MatrixIs
    <2>9. PICK j \in 1..Len(engines) :
              pair[2] = a.plugin_path[j] /\ (Len(engines) # 1 => j = i)
        BY <1>7, <2>5, <2>8 DEF List
    <2>10. j = i
        <3>1. i \in 1..Len(engines)
            BY <2>8 DEF List
        <3>2. CASE Len(engines) = 1
            BY <2>9, <3>1, <3>2
        <3> QED BY <2>9, <3>2
    <2>11. pair[1] = engines[i].id /\ pair[2] = engines[i].plugin_path
           /\ engines[i] \in ToSet(engines)
        BY <1>6, <2>1, <2>7, <2>9, <2>10, MatrixIs
    <2> QED BY <1>6, <2>11
<1>11. "engine" \in DOMAIN c.cli => pair[1] = c.cli.engine[i]
    BY <1>4, <1>6
<1> QED BY <1>9, <1>10, <1>11 DEF pair

LEMMA PairsStep ==
  ASSUME Console, PairsKept, [NextLaunch]_everything
  PROVE  PairsKept'
<1>1. /\ PairsKept <=> Kept(start.pairs, command)
      /\ PairsKept' <=> Kept(start'.pairs, command')
    BY DEF PairsKept, Kept
<1>2. \A c : Kept(<<>>, c)
    BY DEF Kept
<1>3. CASE start'.pairs = start.pairs /\ command' = command
    BY <1>1, <1>3
<1>4. CASE start'.pairs = <<>>
    BY <1>1, <1>2, <1>4
<1>5. CASE StartHipdnn /\ step' = "starting"
    <2>1. start'.pairs = Selections(args) /\ step = "starting" /\ command' = command
        BY <1>5 DEF StartHipdnn, Done, End, Still, Next1, Console
    <2>2. Kept(Selections(args), command)
        BY <2>1, SelectionsKept DEF Console, Known1
    <2> QED BY <1>1, <2>1, <2>2
<1>6. \/ start'.pairs = start.pairs /\ command' = command
      \/ start'.pairs = <<>>
      \/ StartHipdnn /\ step' = "starting"
    <2>1. CASE step = "shell" /\ NextSetup /\ UNCHANGED console
        BY <2>1 DEF console
    <2>2. ASSUME NEW c \in Commands, Enter(c) PROVE start'.pairs = <<>>
        BY <2>2 DEF Enter, Quiet
    <2>3. CASE Configure
        BY <2>3 DEF Configure, End, Console
    <2>4. CASE Bind \/ Reference \/ StartTorch \/ RunSuite
        BY <2>4 DEF Bind, Reference, StartTorch, RunSuite, Done, End, Still, ImportTorch, Console
    <2>5. CASE StartHipdnn
        BY <2>5 DEF StartHipdnn, Done, End, Still, Next1
    <2>6. CASE CompareFiles
        BY <2>6 DEF CompareFiles
    <2>7. CASE Prompt
        BY <2>7 DEF Prompt, Quiet
    <2>8. CASE Leave \/ UNCHANGED everything
        BY <2>8 DEF Leave, everything, console
    <2> QED BY <2>1, <2>2, <2>3, <2>4, <2>5, <2>6, <2>7, <2>8 DEF NextLaunch
<1> QED BY <1>3, <1>4, <1>5, <1>6

-----------------------------------------------------------------------------
(* The default run after a setup run.                                      *)

LEMMA ReadyInit == Init => ReadyInv
<1> SUFFICES ASSUME Init PROVE ReadyInv
    OBVIOUS
<1>1. Shapes
    BY MixInit DEF MixInv
<1> QED BY <1>1 DEF Init, ReadyInv, BuiltSteps, BoundSteps

(* A directory that is not there was named: the default is the prefix that *)
(* setup installed into, or the SDK of torch with hipDNN in it.            *)
LEMMA DefaultIsThere ==
  ASSUME Console, step = "starting", start.rocm_path = None \/ Plugged,
         start.rocm_path \in {None, venv.env},
         NEW p \in ToSet(args.plugin_path), ~IsDir(p)
  PROVE  NamedPaths(command) # <<>>
<1>1. command \in Commands /\ args = WithDefault(Known1)
    BY DEF Console
<1>2. {"engine", "plugin_path"} \subseteq DOMAIN Known1 /\ Known1.plugin_path = NamedPaths(command)
    BY <1>1, MergedIs DEF Known1, NamedPaths
<1>3. CASE args.plugin_path = Known1.plugin_path
    BY <1>2, <1>3 DEF ToSet
<1>4. CASE args.plugin_path = <<DefaultPluginPath>> /\ DefaultPluginPath \in RocmPrefixes
    <2>1. p = DefaultPluginPath
        BY <1>4 DEF ToSet
    <2>2. "lib" \in hipdnn[DefaultPluginPath]
        BY <1>4 DEF DefaultPluginPath, RocmPrefixes, Plugged, None
    <2> QED BY <1>4, <2>1, <2>2 DEF IsDir
<1>5. start.rocm_path \in RocmPrefixes \cup {None}
    BY DEF Console
<1> QED BY <1>1, <1>2, <1>3, <1>4, <1>5, DefaultIs

LEMMA SufficesStep ==
  ASSUME Console, ReadyInv, ReadyInv', SetupSuffices, [NextLaunch]_everything
  PROVE  SetupSuffices'
<1>1. pc' = "ready" /\ self'.torch_mode # "cuda" => Bound'
    BY DEF ReadyInv
<1>2. CASE status'.why # "directory"
    BY <1>1, <1>2 DEF SetupSuffices, Bound
<1>3. CASE UNCHANGED <<vars, status, command>> /\ start'.rocm_path = start.rocm_path
    BY <1>3 DEF SetupSuffices, NamedPaths, Merged, Matrix, vars, run, disk
<1>4. CASE StartHipdnn /\ status'.why = "directory"
    <2>1. /\ step = "starting" /\ UNCHANGED <<vars, command, args>>
          /\ status # status' => \E p \in ToSet(args.plugin_path) : ~IsDir(p)
        BY <1>4 DEF StartHipdnn, Next1, Still, Done, End
    <2>2. status # status'
        BY <1>4, <2>1 DEF Console, NoStatus, None
    <2>3. start.rocm_path \in {None, venv.env} /\ (start.rocm_path = None \/ Plugged) =>
             NamedPaths(command) # <<>>
        BY <2>1, <2>2, DefaultIsThere
    <2>4. pc = "ready" /\ self.torch_mode # "cuda" /\ (self.built \/ self.plugins = "lib") =>
             Plugged
        BY DEF ReadyInv
    <2>5. start'.rocm_path = start.rocm_path
        BY <1>4 DEF StartHipdnn, Done, End, Console
    <2>6. NamedPaths(command)' = NamedPaths(command)
        BY <2>1 DEF NamedPaths, Merged, Matrix
    <2>7. UNCHANGED <<pc, self, venv>>
        BY <2>1 DEF vars, run, disk
    <2> QED BY <1>1, <2>3, <2>4, <2>5, <2>6, <2>7 DEF SetupSuffices, Bound
<1>5. \/ status'.why # "directory"
      \/ UNCHANGED <<vars, status, command>> /\ start'.rocm_path = start.rocm_path
      \/ StartHipdnn /\ status'.why = "directory"
    <2>1. CASE step = "shell" /\ NextSetup /\ UNCHANGED console
        BY <2>1 DEF console, Console, NoStatus, None
    <2>2. ASSUME NEW c \in Commands, Enter(c)
          PROVE  status'.why # "directory"
        BY <2>2 DEF Enter, End, Console, NoStatus, None
    <2>3. CASE Configure
        BY <2>3 DEF Configure, End, Console, NoStatus, None
    <2>4. CASE Bind \/ Reference \/ StartTorch \/ RunSuite
        <3>1. step = "starting"
            BY <2>4 DEF Bind, Reference, StartTorch, RunSuite, Next1
        <3>2. status.why # "directory"
            BY <3>1 DEF Console, NoStatus, None
        <3> QED BY <2>4, <3>2 DEF Bind, Reference, StartTorch, RunSuite, Done, End, Still
    <2>5. CASE StartHipdnn
        BY <2>5
    <2>6. CASE CompareFiles
        BY <2>6 DEF CompareFiles, End
    <2>7. CASE Prompt
        BY <2>7 DEF Prompt, NoStatus, None
    <2>8. CASE Leave \/ UNCHANGED everything
        BY <2>8 DEF Leave, everything, console
    <2> QED BY <2>1, <2>2, <2>3, <2>4, <2>5, <2>6, <2>7, <2>8 DEF NextLaunch
<1> QED BY <1>2, <1>3, <1>4, <1>5

-----------------------------------------------------------------------------
(* The command after any number of setup runs.                             *)

(* The inductive invariant of the command: its stages and records, what    *)
(* setup has installed by then, what start_runtime() still has to do, and  *)
(* the three properties themselves.                                        *)
LaunchInv == Console /\ ReadyInv /\ FirstInv /\ PairsKept /\ SetupSuffices

THEOREM LaunchInductive == SpecLaunch => []LaunchInv
<1>1. InitLaunch => LaunchInv
    <2>1. ASSUME InitLaunch PROVE FirstInv
        BY <2>1 DEF InitLaunch, FirstInv, Ordered, HipdnnFirst, Quiet, NoStatus, None
    <2>2. ASSUME InitLaunch PROVE PairsKept /\ SetupSuffices
        BY <2>2 DEF InitLaunch, Init, PairsKept, SetupSuffices, Quiet
    <2>3. InitLaunch => ReadyInv
        BY ReadyInit DEF InitLaunch
    <2> QED BY <2>1, <2>2, <2>3, ConsoleInit DEF LaunchInv
<1>2. LaunchInv /\ [NextLaunch]_everything => LaunchInv'
    <2> SUFFICES ASSUME LaunchInv, [NextLaunch]_everything PROVE LaunchInv'
        OBVIOUS
    <2>1. [NextSetup]_vars
        BY LaunchIsSetup DEF everything
    <2>2. ReadyInv'
        BY <2>1, ReadyStep DEF LaunchInv
    <2> QED BY <2>2, ConsoleStep, FirstStep, PairsStep, SufficesStep DEF LaunchInv
<1> QED BY <1>1, <1>2, PTL DEF SpecLaunch

(* After a setup run that verified, unless it was for CUDA, a command      *)
(* finds the bindings; and if that run built, or found plugins under lib/  *)
(* of the prefix it reused, a command that names no plugins finds their    *)
(* directory, activated or without a ROCM_PATH (Setup.run(),               *)
(* write_activate_local(), start_runtime()).                               *)
THEOREM SetupIsEnough == SpecLaunch => []SetupSuffices
<1>1. LaunchInv => SetupSuffices
    BY DEF LaunchInv
<1> QED BY <1>1, LaunchInductive, PTL

(* Where ROCM_PATH names its install hipDNN runs on that install's backend *)
(* (start_runtime(), _load_hipdnn_bindings()).                             *)
THEOREM HipdnnIsFirst == SpecLaunch => []HipdnnFirst
<1>1. LaunchInv => HipdnnFirst
    BY DEF LaunchInv, FirstInv
<1> QED BY <1>1, LaunchInductive, PTL

(* The command line's engines and plugins are the ones that run, each in   *)
(* its place, and an entry of the table is taken whole                     *)
(* (apply_config_file(), engine_selections_for(),                          *)
(* SuiteConfig.__post_init__()).                                           *)
THEOREM PairsAreKept == SpecLaunch => []PairsKept
<1>1. LaunchInv => PairsKept
    BY DEF LaunchInv
<1> QED BY <1>1, LaunchInductive, PTL

(* What is proved of Setup holds while commands run in between.            *)
THEOREM SetupHolds == SpecLaunch => [](FetchIsWhole /\ BuildUnmixed /\ NoSilentMix)
BY LaunchRefinesSetup, FetchedCheckoutIsWhole, BuildsAreUnmixed, NoSilentMixes, PTL

-----------------------------------------------------------------------------
(* Comparisons.                                                            *)

(* A report is what compare() made of two of the documents.                *)
Reported ==
  report = NoReport \/
    /\ report.a \in Documents /\ report.b \in Documents /\ report.threshold \in Nat
    /\ report.pairs = ComparePairs(report.a, report.b, report.by)

THEOREM ReportInductive == SpecLaunch => []Reported
<1>1. InitLaunch => Reported
    BY DEF InitLaunch, Reported
<1>2. Reported /\ [NextLaunch]_everything => Reported'
    <2> SUFFICES ASSUME Reported, [NextLaunch]_everything PROVE Reported'
        OBVIOUS
    <2>1. CASE CompareFiles
        <3>1. PICK a \in Documents, b \in Documents, c \in Comparisons :
                report' = IF CompareExit(a, b, c.by, c.threshold, c.allow) = 2 THEN report
                          ELSE [a |-> a, b |-> b, by |-> c.by, threshold |-> c.threshold,
                                pairs |-> ComparePairs(a, b, c.by)]
            BY <2>1 DEF CompareFiles
        <3>2. c.threshold \in Nat
            BY DocumentsAssumption
        <3> QED BY <3>1, <3>2 DEF Reported
    <2>2. CASE Prompt
        BY <2>2 DEF Prompt, Reported
    <2>3. CASE UNCHANGED report
        BY <2>3 DEF Reported
    <2>4. UNCHANGED report \/ CompareFiles \/ Prompt
        <3>1. CASE UNCHANGED everything
            BY <3>1 DEF everything, console
        <3>2. CASE NextLaunch
            BY <3>2 DEF NextLaunch, console, Enter, Configure, Bind, Reference, StartHipdnn,
                        StartTorch, RunSuite, Leave, Still, everything
        <3> QED BY <3>1, <3>2
    <2> QED BY <2>1, <2>2, <2>3, <2>4
<1> QED BY <1>1, <1>2, PTL DEF SpecLaunch

LEMMA DocumentIs ==
  \A d \in Documents :
    /\ IsDocument(d)
    /\ \A i \in DOMAIN d.graphs : \A r \in DOMAIN d.graphs[i].rows : Timed(d.graphs[i].rows[r])
BY DocumentsAssumption DEF List, IsDocument, Listed, Timed

(* Graphs are paired at most once, by graph_id and in order, and none of   *)
(* one graph_id is left over on both sides, for any two documents          *)
(* (_match_graphs()).                                                      *)
THEOREM GraphsArePaired == SpecLaunch => []GraphsPairedInOrder
<1> DEFINE a == report.a.graphs
           b == report.b.graphs
           M == MatchGraphs(report.a, report.b)
<1>1. ASSUME Reported, report # NoReport PROVE GraphsPairedInOrder
    <2>1. IsDocument(report.a) /\ IsDocument(report.b)
        BY <1>1, DocumentIs DEF Reported
    <2>2. MatchInv(report.a, report.b, Len(a), M)
        BY <2>1, MatchingIs DEF IsDocument
    <2>3. Matched \subseteq M
        BY <1>1, <2>1, Reports DEF Reported, Matched
    <2>4. \A m \in M :
            \/ report.by # "engine"
            \/ EngineRows(a[m[1]].rows) # {}
            \/ EngineRows(b[m[2]].rows) # {}
            => m \in Matched
        BY <1>1, <2>1, Reports DEF Reported, Matched
    <2>5. DOMAIN a = 1..Len(a) /\ DOMAIN b = 1..Len(b)
        BY <2>1 DEF IsDocument
    <2> HIDE DEF M
    <2>6. \A m, n \in M :
            /\ m[1] = n[1] \/ m[2] = n[2] => m = n
            /\ a[m[1]].id = a[n[1]].id /\ m[1] < n[1] => m[2] < n[2]
            /\ a[m[1]].id = b[m[2]].id
        BY <2>2 DEF MatchInv, Paired, SameOrder
    <2>7. ASSUME NEW i \in DOMAIN a, NEW j \in DOMAIN b,
                 a[i].id = b[j].id, a[i].id # NoId, Shows(a[i]), Shows(b[j])
          PROVE  \E m \in Matched : m[1] = i \/ m[2] = j
        <3>1. PICK m \in M : m[1] = i \/ m[2] = j
            BY <2>2, <2>5, <2>7 DEF MatchInv, Exhausted
        <3>2. m \in Matched
            BY <2>4, <2>7, <3>1 DEF Shows
        <3> QED BY <3>1, <3>2
    <2>8. \A m, n \in Matched :
            /\ m[1] = n[1] \/ m[2] = n[2] => m = n
            /\ a[m[1]].id = a[n[1]].id /\ m[1] < n[1] => m[2] < n[2]
            /\ a[m[1]].id = b[m[2]].id
        BY <2>3, <2>6
    <2> QED BY <2>7, <2>8, Zenon DEF GraphsPairedInOrder
<1>2. report = NoReport => GraphsPairedInOrder
    BY DEF GraphsPairedInOrder
<1>3. Reported => GraphsPairedInOrder
    BY <1>1, <1>2
<1> QED BY <1>3, ReportInductive, PTL

(* By engine every engine row of two matched graphs is in one pair, with a *)
(* row of the same engine and occurrence (_keyed(), compare()).            *)
THEOREM RowsArePaired == SpecLaunch => []RowsPairedOnce
<1>1. ASSUME Reported, report # NoReport, report.by = "engine", NEW m \in Matched
      PROVE  LET ra == report.a.graphs[m[1]].rows
                 rb == report.b.graphs[m[2]].rows
                 of == {p.rows : p \in {q \in report.pairs : q.graphs = m}}
             IN  /\ \A i \in EngineRows(ra) : Cardinality({p \in of : p[1] = i}) = 1
                 /\ \A j \in EngineRows(rb) : Cardinality({p \in of : p[2] = j}) = 1
                 /\ \A p, q \in of :
                      NoRow \notin {p[1], p[2], q[1], q[2]} =>
                        /\ ra[p[1]].engine = rb[p[2]].engine
                        /\ ra[p[1]].engine = ra[q[1]].engine /\ p[1] < q[1] => p[2] < q[2]
    <2> DEFINE M == MatchGraphs(report.a, report.b)
               ra == report.a.graphs[m[1]].rows
               rb == report.b.graphs[m[2]].rows
               of == {p.rows : p \in {q \in report.pairs : q.graphs = m}}
    <2>1. IsDocument(report.a) /\ IsDocument(report.b)
        BY <1>1, DocumentIs DEF Reported
    <2>2. m \in M
        BY <1>1, <2>1, Reports DEF Reported, Matched
    <2>3. of = EnginePairs(ra, rb)
        BY <1>1, <2>1, <2>2, Reports DEF Reported, RowPairs
    <2>4. Listed(ra) /\ Listed(rb)
        <3>1. MatchInv(report.a, report.b, Len(report.a.graphs), M)
            BY <2>1, MatchingIs DEF IsDocument
        <3> QED BY <2>1, <2>2, <3>1 DEF MatchInv, Paired, IsDocument
    <2> HIDE DEF M, ra, rb, of
    <2>5. /\ \A i \in EngineRows(ra) : \E p : {q \in of : q[1] = i} = {p}
          /\ \A j \in EngineRows(rb) : \E p : {q \in of : q[2] = j} = {p}
          /\ \A p \in of : p[1] # NoRow /\ p[2] # NoRow =>
               /\ p[1] \in EngineRows(ra) /\ p[2] \in EngineRows(rb)
               /\ Key(ra, p[1]) = Key(rb, p[2])
        <3> SUFFICES /\ \A i \in EngineRows(ra) :
                         \E p : {q \in EnginePairs(ra, rb) : q[1] = i} = {p}
                     /\ \A j \in EngineRows(rb) :
                         \E p : {q \in EnginePairs(ra, rb) : q[2] = j} = {p}
                     /\ \A p \in EnginePairs(ra, rb) : p[1] # NoRow /\ p[2] # NoRow =>
                         /\ p[1] \in EngineRows(ra) /\ p[2] \in EngineRows(rb)
                         /\ Key(ra, p[1]) = Key(rb, p[2])
            BY <2>3
        <3> QED BY <2>4, EnginePairsOnce, Zenon
    <2>6. /\ \A i \in EngineRows(ra) : Cardinality({p \in of : p[1] = i}) = 1
          /\ \A j \in EngineRows(rb) : Cardinality({p \in of : p[2] = j}) = 1
        BY <2>5, FS_Singleton, Zenon
    <2>7. ASSUME NEW p \in of, NEW q \in of, NoRow \notin {p[1], p[2], q[1], q[2]}
          PROVE  /\ ra[p[1]].engine = rb[p[2]].engine
                 /\ ra[p[1]].engine = ra[q[1]].engine /\ p[1] < q[1] => p[2] < q[2]
        <3>1. /\ p[1] \in EngineRows(ra) /\ p[2] \in EngineRows(rb)
              /\ q[1] \in EngineRows(ra) /\ q[2] \in EngineRows(rb)
              /\ Key(ra, p[1]) = Key(rb, p[2]) /\ Key(ra, q[1]) = Key(rb, q[2])
            BY <2>5, <2>7
        <3>2. ra[p[1]].engine = rb[p[2]].engine /\ ra[q[1]].engine = rb[q[2]].engine
            BY <3>1, KeyIs
        <3>3. ASSUME ra[p[1]].engine = ra[q[1]].engine, p[1] < q[1] PROVE p[2] < q[2]
            <4>1. Key(ra, p[1])[2] < Key(ra, q[1])[2]
                BY <2>4, <3>1, <3>3, KeysAreDistinct
            <4>2. p[2] < q[2] \/ q[2] < p[2] \/ p[2] = q[2]
                BY <2>4, <3>1 DEF EngineRows, Listed
            <4>3. ~(Key(ra, q[1])[2] < Key(ra, p[1])[2])
                  /\ Key(ra, p[1])[2] # Key(ra, q[1])[2]
                BY <2>4, <3>1, <4>1, KeyNumbers
            <4>4. rb[p[2]].engine = rb[q[2]].engine
                BY <3>2, <3>3
            <4>5. q[2] < p[2] => Key(rb, q[2])[2] < Key(rb, p[2])[2]
                BY <2>4, <3>1, <4>4, KeysAreDistinct
            <4> QED BY <3>1, <4>1, <4>2, <4>3, <4>5
        <3> QED BY <3>2, <3>3
    <2> QED BY <2>6, <2>7 DEF ra, rb, of
<1>2. Reported => RowsPairedOnce
    BY <1>1 DEF RowsPairedOnce
<1> QED BY <1>2, ReportInductive, PTL

(* A comparison of two documents counts no graph and no row twice, leaves  *)
(* none out, and never mixes two graph_ids or engines (compare()).         *)
THEOREM EachComparedOnce == SpecLaunch => []ComparedOnce
<1>1. GraphsPairedInOrder /\ RowsPairedOnce => ComparedOnce
    BY DEF ComparedOnce
<1> QED BY <1>1, GraphsArePaired, RowsArePaired, PTL

(* A document compared with itself shows no change (_match_graphs(),       *)
(* _keyed(), _pick(), _pair()).                                            *)
THEOREM NoChangeInItself == SpecLaunch => []SelfIsQuiet
<1>1. ASSUME Reported, report # NoReport, report.a = report.b, NEW p \in report.pairs
      PROVE  Label(report.a.graphs[p.graphs[1]], report.b.graphs[p.graphs[2]], p.rows,
                   report.threshold) \notin {"REGRESSION", "faster"}
    <2> DEFINE d == report.a
               by == report.by
               g == d.graphs[p.graphs[1]]
               r == p.rows[1]
    <2>1. /\ d \in Documents /\ IsDocument(d) /\ p \in ComparePairs(d, d, by)
          /\ report.threshold \in Nat
        BY <1>1, DocumentIs DEF Reported
    <2>2. /\ p.graphs \in MatchGraphs(d, d) /\ p.graphs[1] = p.graphs[2]
          /\ p.rows \in RowPairs(g, d.graphs[p.graphs[2]], by) /\ p.rows = <<r, r>>
        BY <2>1, ComparedWithItself
    <2>3. p.graphs[1] \in DOMAIN d.graphs
        <3>1. MatchInv(d, d, Len(d.graphs), MatchGraphs(d, d))
            BY <2>1, MatchingIs DEF IsDocument
        <3> QED BY <2>2, <3>1 DEF MatchInv, Paired
    <2>4. r # NoRow => r \in DOMAIN g.rows
        BY <2>1, <2>2, <2>3, PairsAreOfRows DEF IsDocument
    <2>5. r # NoRow => Timed(g.rows[r])
        BY <2>1, <2>3, <2>4, DocumentIs
    <2>6. report.b.graphs[p.graphs[2]] = g
        BY <1>1, <2>2
    <2> HIDE DEF g, r
    <2>7. Label(g, g, <<r, r>>, report.threshold) \notin {"REGRESSION", "faster"}
        BY <2>1, <2>5, LabelOfItself
    <2> QED BY <2>2, <2>6, <2>7 DEF g
<1>2. Reported => SelfIsQuiet
    BY <1>1 DEF SelfIsQuiet
<1> QED BY <1>2, ReportInductive, PTL
=============================================================================
