------------------------------- MODULE Setup -------------------------------
(***************************************************************************)
(* setup_env.py on Linux: the stages of one setup run, and the disk that   *)
(* outlives it: the virtual environment with its torch and TORCH_RECORD,   *)
(* the rocm-libraries checkout, the CMake build directories with their     *)
(* BUILD_RECORD, and the prefixes hipDNN is installed into.  Setup runs    *)
(* follow one another with other options; any command may fail and Ctrl-C  *)
(* may arrive at every step, also in the middle of an rmtree().            *)
(***************************************************************************)
EXTENDS Naturals, FiniteSets

CONSTANTS
  Requests,     \* the command lines a user gives
  Hosts,        \* [archs, tools, terminal, checkout, prepared, brings]: what
                \* setup finds; prepared: a venv with a CPU torch and bindings
                \* for --reuse-artifacts; brings: the parts of hipDNN that an
                \* installed ROCm, or the SDK of a ROCm torch, comes with
  DefaultIndex, \* the index of each torch mode when none is given
  MaxRuns       \* bound: setup runs in a behaviour

None == "none"
RocmPrefixes == {"wheel", "system"}

\* hipDNN in a prefix: its CMake configs, and plugins under lib/ or bin/.
Parts == {"configs", "lib", "bin"}

\* Setup finds no half of a checkout that it did not leave itself.
ASSUME SetupAssumption ==
  /\ MaxRuns \in Nat
  /\ \A h \in Hosts : /\ h.checkout \in {"absent", "foreign", "old", "whole"}
                      /\ h.brings \in [RocmPrefixes -> SUBSET Parts]

VARIABLES
  host, pc,
  job,    \* the options of this run
  self,   \* [torch_mode, index, arch, plugins, warned, built]:
          \* installed_torch_mode, the resolved index, gpu_arch, the place of
          \* plugin_engines_dir, and for the properties a warning that torch
          \* could not be checked and, of a run that is over, do_build
  runs, code,
  venv,   \* [python, torch, record, env, bindings, rocke, devel, relic]
  tree,   \* [checkout, staging] of rocm-libraries
  build,  \* directory -> [record, made]
  hipdnn  \* prefix -> the parts of hipDNN it holds

disk == <<venv, tree, build, hipdnn>>
run  == <<host, job, self, runs>>
vars == <<disk, run, pc, code>>

Dirs == {"superbuild", "frontend_bindings"}
NoTorch == [mode |-> "missing", index |-> None, gpu_arch |-> None]
NoRecord == [index |-> None, gpu_arch |-> None]
NoArguments == [prefix |-> None, arch |-> None]
EmptyDir == [record |-> NoArguments, made |-> {}]
NoVenv == [python |-> FALSE, torch |-> NoTorch, record |-> NoRecord, env |-> None,
           bindings |-> None, rocke |-> FALSE, devel |-> None,
           relic |-> FALSE]
PreparedVenv ==
  [NoVenv EXCEPT !.python = TRUE, !.env = "plain", !.bindings = "user",
                 !.torch = [mode |-> "cpu", index |-> None, gpu_arch |-> None]]
NoRun == [torch_mode |-> "missing", index |-> None, arch |-> None, plugins |-> None,
          warned |-> FALSE, built |-> FALSE]
NoJob == [mode |-> None, reuse |-> FALSE, clean |-> FALSE, yes |-> FALSE,
          gpu_arch |-> None, index |-> None, prefix |-> None]

Init ==
  /\ host \in Hosts
  /\ pc = "idle" /\ job = NoJob /\ self = NoRun /\ runs = 0 /\ code = 0
  /\ venv = IF host.prepared THEN PreparedVenv ELSE NoVenv
  /\ tree = [checkout |-> host.checkout, staging |-> None]
  /\ build = [d \in Dirs |-> EmptyDir]
  /\ hipdnn = [p \in RocmPrefixes |-> IF p = "system" THEN host.brings[p] ELSE {}]

Goto(step) == pc' = step /\ UNCHANGED code

\* No setup runs; "ready" after one that verified its installation.
Idle == pc \in {"idle", "ready"}

\* main() returns; what the run knew is gone.
Exit(status) ==
  /\ pc' = "idle" /\ code' = status
  /\ job' = NoJob /\ self' = NoRun /\ UNCHANGED <<host, runs>>

-----------------------------------------------------------------------------
(* The torch of the venv. *)

\* get_torch_mode(): a torch that cannot be imported is "missing".
Probe(torch) == IF torch.mode = "broken" THEN "missing" ELSE torch.mode

\* Seeded bug: only the index URL is compared.
SourceClash_url_only(record) == record # NoRecord /\ job.index \notin {None, record.index}

\* require_same_torch_source(): an explicit flag differs from the record.
SourceClash(record) ==
  /\ record # NoRecord
  /\ \/ job.index \notin {None, record.index}
     \/ job.mode = "rocm" /\ job.gpu_arch \notin {None, record.gpu_arch}

\* The warning when there is no record to compare an explicit flag with.
Unchecked == /\ venv.record = NoRecord
             /\ job.index # None \/ (job.mode = "rocm" /\ job.gpu_arch # None)

\* The index of this mode.
Index == IF job.index # None THEN job.index ELSE DefaultIndex[job.mode]

\* The record stands in for the flags that were not given (check_arch).
Adopted ==
  [self EXCEPT
     !.warned = @ \/ Unchecked,
     !.arch  = IF job.mode = "rocm" /\ job.gpu_arch = None THEN venv.record.gpu_arch ELSE @,
     !.index = IF job.mode = "rocm" /\ job.index = None /\ venv.record # NoRecord
                 THEN venv.record.index ELSE Index]

\* gpu_arch: the flag (or the record's), else the one arch the tools report.
Arch == IF self.arch # None THEN self.arch
        ELSE IF job.gpu_arch # None THEN job.gpu_arch
        ELSE IF Cardinality(host.archs) = 1 THEN CHOOSE a \in host.archs : TRUE
        ELSE None
ArchAmbiguous == self.arch = None /\ job.gpu_arch = None /\ Cardinality(host.archs) > 1

-----------------------------------------------------------------------------
(* Preflight and confirmation. *)

HasVenv(j) == venv.python /\ ~j.clean
Cuda == job.mode = "cuda" \/ (job.mode = "existing" /\ self.torch_mode = "cuda")
DoBuild == ~job.reuse /\ ~Cuda

\* The checks of run() before anything is touched.
Refused(j, found) ==
  \/ j.reuse /\ j.mode # "cuda" /\ ~HasVenv(j)
  \/ j.mode = "existing" /\ ~HasVenv(j)
  \/ /\ j.reuse /\ HasVenv(j)
     /\ CASE j.mode \in {"rocm", "cpu", "cuda"} -> found # j.mode
          [] j.mode = "existing" -> found = "missing"
          [] j.mode = "none" -> venv.torch # NoTorch

\* main() and run() up to the confirmation.
Start(j) ==
  LET found == IF HasVenv(j) THEN Probe(venv.torch) ELSE "missing"
  IN  /\ Idle /\ runs < MaxRuns
      /\ runs' = runs + 1 /\ UNCHANGED <<host, disk>>
      /\ IF (j.clean /\ j.mode = "existing") \/ Refused(j, found)
           THEN /\ pc' = "idle" /\ code' = (IF j.clean /\ j.mode = "existing" THEN 2 ELSE 1)
                /\ job' = NoJob /\ self' = NoRun
           ELSE /\ job' = j /\ self' = [NoRun EXCEPT !.torch_mode = found]
                /\ Goto("confirm")

\* The reuse path checks the source here already, and confirm_build() asks.
\* Without a terminal -y is the only consent; "n" ends with status 0.
Asks == (job.clean /\ venv # NoVenv) \/ DoBuild
Confirm ==
  /\ pc = "confirm" /\ UNCHANGED disk
  /\ \/ /\ job.reuse /\ self.torch_mode # "missing" /\ SourceClash(venv.record)
        /\ job.mode \in {"rocm", "cpu", "cuda"} /\ Exit(1)
     \/ Asks /\ ~job.yes /\ Exit(IF host.terminal THEN 0 ELSE 1)
     \/ (~Asks \/ job.yes \/ host.terminal) /\ Goto("clean") /\ UNCHANGED run

-----------------------------------------------------------------------------
(* Virtual environment and torch. *)

CleanVenv ==
  /\ pc = "clean" /\ Goto("venv")
  /\ venv' = IF job.clean THEN NoVenv ELSE venv
  /\ hipdnn' = IF job.clean THEN [hipdnn EXCEPT !["wheel"] = {}] ELSE hipdnn
  /\ UNCHANGED <<run, tree, build>>

\* An interrupted rmtree() leaves any part of the venv, and of the SDK in it.
CleanCut ==
  /\ pc = "clean" /\ job.clean /\ venv # NoVenv /\ Exit(130)
  /\ \E python \in {FALSE, venv.python}, torch \in {NoTorch, venv.torch},
        record \in {NoRecord, venv.record}, bindings \in {None, venv.bindings},
        env \in {None, venv.env} :
       venv' = [NoVenv EXCEPT !.python = python, !.torch = torch, !.record = record,
                              !.bindings = bindings, !.env = env, !.relic = TRUE]
  /\ \E rest \in SUBSET hipdnn["wheel"] : hipdnn' = [hipdnn EXCEPT !["wheel"] = rest]
  /\ UNCHANGED <<tree, build>>

\* An existing interpreter is reused; `python -m venv` into a directory that
\* is still there keeps what is in it.
SetupVenv ==
  /\ pc = "venv" /\ Goto("torch")
  /\ venv' = [venv EXCEPT !.python = TRUE, !.env = IF @ = None THEN "plain" ELSE @]
  /\ UNCHANGED <<run, tree, build, hipdnn>>

\* install_torch() keeps the torch it finds, or fails.
KeepTorch ==
  /\ pc = "torch" /\ UNCHANGED <<disk, host, runs>>
  /\ \/ job.mode = "none" /\ self.torch_mode = "missing"
        /\ Goto("package") /\ UNCHANGED <<job, self>>
     \/ job.mode = "existing" /\ self.torch_mode # "missing"
        /\ Goto("package") /\ UNCHANGED <<job, self>>
     \/ /\ job.mode = self.torch_mode /\ ~SourceClash(venv.record)
        /\ self' = Adopted /\ Goto("package") /\ UNCHANGED job

\* pip: a torch that is there satisfies it; the index may hold another kind
\* of wheel, or one that cannot be imported.  The SDK comes with a hipDNN.
Installs == job.mode \in {"cpu", "cuda", "rocm"} /\ self.torch_mode = "missing"
PipTorch ==
  /\ pc = "torch" /\ Installs /\ (job.mode = "rocm" => Arch # None)
  /\ \E mode \in {job.mode, "cpu", "broken"} :
       venv' = [venv EXCEPT
                  !.torch = IF @ # NoTorch THEN @
                            ELSE [mode |-> mode, index |-> Index,
                                  gpu_arch |-> IF job.mode = "rocm" THEN Arch ELSE None],
                  !.devel = IF job.mode = "rocm" THEN "duplicate" ELSE @]
  /\ self' = [self EXCEPT !.index = Index,
                          !.arch = IF job.mode = "rocm" THEN Arch ELSE @]
  /\ hipdnn' = [hipdnn EXCEPT !["wheel"] =
                    @ \cup (IF job.mode = "rocm" THEN host.brings["wheel"] ELSE {})]
  /\ Goto("record") /\ UNCHANGED <<host, job, runs, tree, build>>

\* require_torch_mode(), then the record; a torn one is no record.
WriteRecord ==
  /\ pc = "record" /\ Probe(venv.torch) = job.mode
  /\ venv' = [venv EXCEPT !.record = [index |-> self.index, gpu_arch |-> self.arch]]
  /\ self' = [self EXCEPT !.torch_mode = job.mode]
  /\ Goto("package") /\ UNCHANGED <<host, job, runs, tree, build, hipdnn>>
RecordTorn ==
  /\ pc = "record" /\ Probe(venv.torch) = job.mode /\ Exit(130)
  /\ venv' = [venv EXCEPT !.record = NoRecord]
  /\ UNCHANGED <<tree, build, hipdnn>>

Package ==
  /\ pc = "package" /\ UNCHANGED <<run, disk>>
  /\ Goto(CASE Cuda -> "verify" [] DoBuild -> "sources" [] OTHER -> "plugins")

-----------------------------------------------------------------------------
(* ensure_rocm_libraries_checkout(). *)

HasGit == tree.checkout \in {"whole", "old", "torn", "part"}

\* A checkout is used as it is; an old sparse one gets the missing root dirs.
ReuseCheckout ==
  /\ pc = "sources" /\ HasGit /\ Goto("plugins")
  /\ tree' = [tree EXCEPT !.checkout = IF @ = "old" THEN "whole" ELSE @]
  /\ UNCHANGED <<run, venv, build, hipdnn>>

\* git adds them in place; once a directory is there it is not added again.
SparseAddCut ==
  /\ pc = "sources" /\ tree.checkout = "old" /\ tree' = [tree EXCEPT !.checkout = "torn"]
  /\ \E status \in {1, 130} : Exit(status)
  /\ UNCHANGED <<venv, build, hipdnn>>

\* Anything else that is not empty is replaced only with consent.
BeginFetch ==
  /\ pc = "sources" /\ ~HasGit
  /\ \/ /\ tree.checkout # "foreign" \/ job.yes \/ host.terminal
        /\ Goto("clone") /\ tree' = [tree EXCEPT !.staging = None] /\ UNCHANGED run
     \/ /\ tree.checkout = "foreign" /\ ~job.yes
        /\ Exit(IF host.terminal THEN 0 ELSE 1) /\ UNCHANGED tree
  /\ UNCHANGED <<venv, build, hipdnn>>

\* Seeded bug: the clone goes straight into rocm-libraries.
Cloned_in_place(part) == [tree EXCEPT !.checkout = part]

\* Where git clone, sparse-checkout, fetch and checkout put their files.
Cloned(part) == [tree EXCEPT !.staging = part]

Clone == /\ pc = "clone" /\ tree' = Cloned("part") /\ Goto("fetch")
         /\ UNCHANGED <<run, venv, build, hipdnn>>
Fetch == /\ pc = "fetch" /\ tree' = Cloned("whole") /\ Goto("replace")
         /\ UNCHANGED <<run, venv, build, hipdnn>>

\* The handler removes the staging tree, unless it is cut short too.
FetchFails ==
  /\ pc \in {"clone", "fetch"}
  /\ \E status \in {1, 130} : Exit(status)
  /\ \E rest \in {None, tree.staging} : tree' = [tree EXCEPT !.staging = rest]
  /\ UNCHANGED <<venv, build, hipdnn>>

RemoveOld == /\ pc = "replace" /\ tree' = [tree EXCEPT !.checkout = "absent"]
             /\ build' = [d \in Dirs |-> EmptyDir] /\ Goto("rename")
             /\ UNCHANGED <<run, venv, hipdnn>>
Rename == /\ pc = "rename" /\ Goto("plugins")
          /\ tree' = [checkout |-> IF tree.staging # None THEN tree.staging ELSE tree.checkout,
                      staging |-> None]
          /\ UNCHANGED <<run, venv, build, hipdnn>>

-----------------------------------------------------------------------------
(* hipDNN, its provider plugins and its bindings. *)

\* select_binding_prefix() and toolchain_prefix: they follow the torch mode.
Wheel == /\ job.prefix = None
         /\ job.mode = "rocm" \/ (job.mode = "existing" /\ self.torch_mode = "rocm")
Prefix == IF Wheel THEN "wheel" ELSE "system"

\* The configure arguments, as far as two runs differ in them; the bindings
\* are host code.
Arguments(d) == [prefix |-> Prefix, arch |-> IF d = "superbuild" THEN Arch ELSE None]

BuildDir == IF pc \in {"bind", "bind_reset", "bind_make"} THEN "frontend_bindings"
                                                          ELSE "superbuild"

\* find_rocm_wheel_prefix() and _rocm_sdk_devel_root(): the SDK comes with a
\* ROCm torch.
WheelSdk == venv.torch.mode = "rocm"

\* plugin_engines_dir: the first directory that holds plugins.
PluginsIn(parts) == CASE "bin" \in parts -> "bin" [] "lib" \in parts -> "lib" [] OTHER -> None

\* build_hipdnn(): the arch is resolved first; --reuse-artifacts looks for
\* the CMake configs only, and missing plugins are a warning.
BuildHipdnn ==
  /\ pc = "plugins" /\ ~ArchAmbiguous /\ (Wheel => WheelSdk)
  /\ \/ DoBuild /\ host.tools /\ Goto("reset") /\ UNCHANGED <<venv, self>>
     \/ /\ ~DoBuild /\ "configs" \in hipdnn[Prefix] /\ Goto("bind")
        /\ venv' = [venv EXCEPT !.env = Prefix]
        /\ self' = [self EXCEPT !.plugins = PluginsIn(hipdnn[Prefix])]
  /\ UNCHANGED <<host, job, runs, tree, build, hipdnn>>

\* Seeded bug: a record that cannot be read keeps the directory.
Stale_torn_is_same(d) == build[d].record \notin {NoArguments, Arguments(d)}

\* _reset_build_dir(): only the same arguments keep a directory.
Stale(d) == build[d].record # Arguments(d)

\* The old directory is gone before the new record is written.
ResetBuildDir ==
  /\ pc \in {"reset", "bind_reset"}
  /\ build' = [build EXCEPT ![BuildDir] =
                 [record |-> Arguments(BuildDir),
                  made |-> IF job.clean \/ Stale(BuildDir) THEN {} ELSE @.made]]
  /\ Goto(IF pc = "reset" THEN "make" ELSE "bind_make")
  /\ UNCHANGED <<run, venv, tree, hipdnn>>

\* Cut short, any part of the old directory is left, or a torn record.
ResetCut ==
  /\ pc \in {"reset", "bind_reset"} /\ Exit(130)
  /\ \/ /\ job.clean \/ Stale(BuildDir)
        /\ \E record \in {NoArguments, build[BuildDir].record},
              made \in {{}, build[BuildDir].made} :
             build' = [build EXCEPT ![BuildDir] = [record |-> record, made |-> made]]
     \/ build' = [build EXCEPT ![BuildDir] =
                    [record |-> NoArguments,
                     made |-> IF job.clean \/ Stale(BuildDir) THEN {} ELSE @.made]]
  /\ UNCHANGED <<venv, tree, hipdnn>>

\* cmake configures and builds; it may stop half way.
Make ==
  /\ pc \in {"make", "bind_make"}
  /\ build' = [build EXCEPT ![BuildDir].made = @ \cup {Arguments(BuildDir)}]
  /\ \/ Goto(IF pc = "make" THEN "install" ELSE "bind_install") /\ UNCHANGED run
     \/ \E status \in {1, 130} : Exit(status)
  /\ UNCHANGED <<venv, tree, hipdnn>>

\* cmake --install, then activate.local names the prefix.
Install ==
  /\ pc = "install" /\ hipdnn' = [hipdnn EXCEPT ![Prefix] = @ \cup {"configs", "lib"}]
  /\ venv' = [venv EXCEPT !.env = Prefix]
  /\ self' = [self EXCEPT !.plugins = PluginsIn(hipdnn[Prefix] \cup {"lib"})]
  /\ Goto("bind") /\ UNCHANGED <<host, job, runs, tree, build>>

\* Seeded bug: a prefix with hipDNN is taken for its bindings.
HasBindings_prefix == "configs" \in hipdnn[Prefix]

\* install_bindings(): --reuse-artifacts needs the package to be there.
HasBindings == venv.bindings # None
Bindings ==
  /\ pc = "bind" /\ (DoBuild \/ HasBindings)
  /\ Goto(IF DoBuild THEN "bind_reset" ELSE "rocke") /\ UNCHANGED <<run, disk>>
InstallBindings ==
  /\ pc = "bind_install" /\ venv' = [venv EXCEPT !.bindings = Prefix]
  /\ Goto("rocke") /\ UNCHANGED <<run, tree, build, hipdnn>>

\* install_rocke_packages(): editable, from the checkout if there is one.
InstallRocke ==
  /\ pc = "rocke" /\ venv' = [venv EXCEPT !.rocke = @ \/ HasGit]
  /\ Goto("extras") /\ UNCHANGED <<run, tree, build, hipdnn>>

\* unify_rocprofiler_libs(): the symlink is built beside the duplicate, where
\* an earlier run may have left one, and renamed over it.
StageLink ==
  /\ pc = "extras"
  /\ venv' = [venv EXCEPT !.devel = IF @ = "duplicate" THEN "staged" ELSE @]
  /\ Goto("relink") /\ UNCHANGED <<run, tree, build, hipdnn>>
Relink ==
  /\ pc = "relink" /\ Goto("verify") /\ UNCHANGED <<run, tree, build, hipdnn>>
  /\ \E end \in {"link", "duplicate"} :   \* an OSError is only a warning
       venv' = [venv EXCEPT !.devel = IF @ = "staged" THEN end ELSE @]

\* verify() only warns when the bindings cannot be imported.
Verify ==
  /\ pc = "verify" /\ UNCHANGED <<disk, host, runs>>
  /\ pc' = "ready" /\ code' = 0 /\ job' = NoJob
  /\ self' = [NoRun EXCEPT !.torch_mode = IF Cuda THEN "cuda" ELSE "missing",
                           !.plugins = self.plugins, !.built = DoBuild]

\* A stage stops between two of its steps: a command of it failed, a check
\* of it refused to go on, or Ctrl-C.
Stop ==
  /\ ~Idle /\ pc # "confirm" /\ UNCHANGED disk
  /\ \E status \in {1, 130} : Exit(status)

NextSetup ==
  \/ \E j \in Requests : Start(j)
  \/ Confirm \/ CleanVenv \/ CleanCut \/ SetupVenv \/ KeepTorch \/ PipTorch
  \/ WriteRecord \/ RecordTorn \/ Package \/ ReuseCheckout \/ SparseAddCut
  \/ BeginFetch \/ Clone \/ Fetch \/ FetchFails \/ RemoveOld \/ Rename
  \/ BuildHipdnn \/ ResetBuildDir \/ ResetCut \/ Make \/ Install \/ Bindings
  \/ InstallBindings \/ InstallRocke \/ StageLink \/ Relink \/ Verify \/ Stop

SpecSetup == Init /\ [][NextSetup]_vars

-----------------------------------------------------------------------------
(* Properties. *)

\* Whatever failed or was interrupted before: a run in cpu, cuda or rocm mode
\* that was given an index (in rocm mode, or a GPU) goes on only with the
\* torch of it, or with a warning; and a run in rocm mode builds HIP code for
\* the GPU of its torch, except in a venv without a torch record, and there
\* with a warning if a flag names the GPU.  A venv that an interrupted
\* --clean left behind is excepted, for `python -m venv` fills it up; so are
\* the existing mode, which takes the torch it finds and compares nothing, and
\* the none mode, which has none.
\* (require_same_torch_source(), TORCH_RECORD, install_torch())
NoSilentMix ==
  ~venv.relic =>
    /\ pc = "package" /\ job.mode \in {"cpu", "cuda", "rocm"} =>
         \/ self.warned
         \/ /\ job.index \in {None, venv.torch.index}
            /\ job.mode = "rocm" => job.gpu_arch \in {None, venv.torch.gpu_arch}
    /\ pc = "make" /\ job.mode = "rocm" /\ Arch # venv.torch.gpu_arch =>
         venv.record = NoRecord /\ (self.warned \/ job.gpu_arch = None)

\* Whatever a build directory holds when CMake runs in it was made with the
\* arguments of this run, and so was what its record names at any time.
\* (_reset_build_dir(), BUILD_RECORD)
BuildUnmixed ==
  /\ pc \in {"make", "bind_make"} => build[BuildDir].made \subseteq {Arguments(BuildDir)}
  /\ \A d \in Dirs : build[d].record # NoArguments => build[d].made \subseteq {build[d].record}

\* A checkout that setup fetched is whole wherever .git is, also when the
\* fetch, its cleanup or the replacement of the old directory was cut short.
\* (ensure_rocm_libraries_checkout())
FetchIsWhole == tree.checkout # "part"
=============================================================================
