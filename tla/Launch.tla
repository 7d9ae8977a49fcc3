------------------------------- MODULE Launch ------------------------------
(***************************************************************************)
(* The dnn-benchmark command in the environment that Setup leaves: main()  *)
(* merges command line and config file, SuiteConfig checks the result, and *)
(* start_runtime() binds hipDNN, checks the reference and starts every     *)
(* selected runtime.  `compare` is the same program's other command.  One  *)
(* command runs at a time, between two runs of setup_env.py.               *)
(***************************************************************************)
EXTENDS Setup, Compare, SequencesExt

CONSTANTS
  Commands,   \* [cli, config]: options given, by destination; config is
              \* [options, engines] or NoConfig
  NoConfig,
  PluginDirs, \* directory -> the engines its plugins provide
  Inherited,  \* the prefixes that ROCM_PATH of a shell may name, or None
  Documents,  \* the result files that compare may be given
  Comparisons \* [by, threshold, allow]

\* An option that is given is not the empty list, and a config file sets
\* engines only in its table.
List(s) == Len(s) \in Nat /\ DOMAIN s = 1..Len(s)
ASSUME CommandsAssumption ==
  Inherited \subseteq RocmPrefixes \cup {None} /\ \A c \in Commands :
    /\ "engine" \in DOMAIN c.cli => List(c.cli.engine)
    /\ "plugin_path" \in DOMAIN c.cli => List(c.cli.plugin_path) /\ c.cli.plugin_path # <<>>
    /\ c.config # NoConfig =>
         /\ "engine" \notin DOMAIN c.config.options
         /\ "plugin_path" \in DOMAIN c.config.options => List(c.config.options.plugin_path)
         /\ List(c.config.engines)

\* The graphs of a document, and the rows of a graph, are lists; a row has
\* numbers, and so has a comparison.
ASSUME DocumentsAssumption ==
  /\ \A d \in Documents :
       /\ List(d.graphs)
       /\ \A i \in DOMAIN d.graphs :
            LET rows == d.graphs[i].rows IN
            List(rows) /\ \A r \in DOMAIN rows : rows[r].ms \in Nat /\ rows[r].iqr \in Nat
  /\ \A c \in Comparisons : c.threshold \in Nat

VARIABLES
  step,    \* where the command is
  command, \* what it was given
  args,    \* the merged options
  start,   \* [rocm_path, todo, error, backend, torch, pairs] of this process
  status,  \* [code, why] it ended with
  report   \* [a, b, by, threshold, pairs] of a finished comparison

console  == <<step, command, args, start, status, report>>
everything == <<vars, console>>

Quiet == [rocm_path |-> None, todo |-> <<>>, error |-> FALSE, backend |-> None,
          torch |-> FALSE, pairs |-> <<>>]
NoStatus == [code |-> 0, why |-> None]
NoDocument == [gates |-> None, graphs |-> <<>>]
NoReport == [a |-> NoDocument, b |-> NoDocument, by |-> None, threshold |-> 0, pairs |-> {}]

InitLaunch ==
  /\ Init
  /\ step = "shell" /\ command = NoConfig /\ args = NoConfig
  /\ start = Quiet /\ status = NoStatus /\ report = NoReport

-----------------------------------------------------------------------------
(* Options: defaults < config < command line. *)

OPTION_DEFAULTS ==
  [runtime |-> {"hipdnn"}, engine |-> <<>>, plugin_path |-> <<>>, validate |-> FALSE,
   flags |-> {}]

IDs(engines) == [i \in DOMAIN engines |-> engines[i].id]
PluginPaths(engines) == [i \in DOMAIN engines |-> engines[i].plugin_path]

\* _normalise_config(), _normalise_engines(): all entries set a plugin path
\* or none does, and only one place sets it.
ConfigValid(config) ==
  LET paths == ToSet(PluginPaths(config.engines))
  IN  /\ None \in paths => paths = {None}
      /\ paths \notin {{}, {None}} => "plugin_path" \notin DOMAIN config.options

\* dict.update(): f's entries take precedence.
Over(f, g) == [k \in DOMAIN f \cup DOMAIN g |-> IF k \in DOMAIN f THEN f[k] ELSE g[k]]

MatrixOf(engines) ==
  LET keys == IF engines = <<>> THEN {}
              ELSE IF None \in ToSet(PluginPaths(engines)) THEN {"engine"}
              ELSE {"engine", "plugin_path"}
  IN  [k \in keys |-> IF k = "engine" THEN IDs(engines) ELSE PluginPaths(engines)]

\* Seeded bug: --plugin-path alone does not drop the engines of the config.
Matrix_engine_only(cli, config) ==
  IF "engine" \in DOMAIN cli THEN <<>> ELSE MatrixOf(config.engines)

\* apply_config_file(): the [[engines]] table is dropped as a unit.
Matrix(cli, config) ==
  IF {"engine", "plugin_path"} \cap DOMAIN cli # {} THEN <<>> ELSE MatrixOf(config.engines)

Merged(cli, config) ==
  Over(cli, IF config = NoConfig THEN OPTION_DEFAULTS
            ELSE Over(Matrix(cli, config), Over(config.options, OPTION_DEFAULTS)))

\* RUNTIME_OPTIONS.
Honoured(runtime) ==
  CASE runtime = "hipdnn"  -> {"--engine", "--plugin-path", "--validate", "--oracle",
                               "--pmc", "--trace", "--perf", "--roofline",
                               "--autotune", "--hipdnn-cache-dir"}
    [] runtime = "pytorch" -> {"--oracle"}
    [] runtime = "rocke"   -> {"--plugin-path", "--validate"}

Given(a) == a.flags \cup (IF a.engine = <<>> THEN {} ELSE {"--engine"})
                    \cup (IF a.plugin_path = <<>> THEN {} ELSE {"--plugin-path"})
                    \cup (IF a.validate THEN {"--validate"} ELSE {})

\* SuiteConfig.__post_init__(): several plugin paths go with as many engines,
\* every option is honoured by some selected runtime, and a PyTorch runtime
\* is no reference for itself.
SuiteConfigValid(a) ==
  /\ Len(a.plugin_path) > 1 => Len(a.plugin_path) = Len(a.engine)
  /\ ~({"--oracle", "--autotune"} \subseteq a.flags)
  /\ Given(a) \subseteq UNION {Honoured(r) : r \in a.runtime}
  /\ ~(a.validate /\ "pytorch" \in a.runtime)

\* ROCM_PATH of the command: that of activate.local in the activated venv,
\* else what the shell has.
RocmPath(active, inherited) ==
  IF active /\ venv.env \in RocmPrefixes THEN venv.env ELSE inherited

\* default_hipdnn_plugin_paths(): without ROCM_PATH the SDK of a ROCm torch
\* stands in, if it has the directory.
DefaultPluginPath ==
  IF start.rocm_path = None /\ WheelSdk /\ "lib" \in hipdnn["wheel"] THEN "wheel"
                                                                  ELSE start.rocm_path

\* from_namespace(): the plugin directory of a run that may need one.
WithDefault(a) ==
  IF a.plugin_path = <<>> /\ a.runtime # {"pytorch"} /\ DefaultPluginPath # None
    THEN [a EXCEPT !.plugin_path = <<DefaultPluginPath>>] ELSE a

\* engine_selections_for(): positional, or one path for all.
Selections(a) ==
  [i \in DOMAIN a.engine |->
     <<a.engine[i], CASE a.plugin_path = <<>> -> None
                      [] Len(a.plugin_path) = 1 -> a.plugin_path[1]
                      [] OTHER -> a.plugin_path[i]>>]

-----------------------------------------------------------------------------
(* The command. *)

End(exit, why) ==
  /\ step' = "ended" /\ status' = [code |-> exit, why |-> why]

Prompt ==
  /\ step = "ended" /\ step' = "shell" /\ command' = NoConfig /\ args' = NoConfig
  /\ start' = Quiet /\ status' = NoStatus /\ report' = NoReport
  /\ UNCHANGED vars

\* main(): parse, merge, or refuse with status 2.  It needs the venv.
Enter(c) ==
  /\ step = "shell" /\ Idle /\ venv.python
  /\ command' = c
  /\ \E active \in BOOLEAN, inherited \in Inherited :
       start' = [Quiet EXCEPT !.rocm_path = RocmPath(active, inherited)]
  /\ IF c.config # NoConfig /\ ~ConfigValid(c.config)
       THEN End(2, "config") /\ args' = args
       ELSE args' = Merged(c.cli, c.config) /\ step' = "config" /\ UNCHANGED status
  /\ UNCHANGED <<vars, report>>

\* Seeded bug: the reference check comes first.
Order_reference_first(runtimes) ==
  IF "hipdnn" \in runtimes THEN <<"reference", "bind">> ELSE <<"reference">>

\* start_runtime(): hipDNN binds before anything imports torch.
Order(runtimes) ==
  IF "hipdnn" \in runtimes THEN <<"bind", "reference">> ELSE <<"reference">>

\* parse_runtimes(): RuntimeName order.
InOrder(runtimes) ==
  LET If(r) == IF r \in runtimes THEN <<r>> ELSE <<>>
  IN  If("hipdnn") \o If("pytorch") \o If("rocke")

\* run_suite_cli() up to start_runtime().
Configure ==
  LET a == WithDefault(args)
  IN  /\ step = "config"
      /\ IF SuiteConfigValid(a)
           THEN /\ args' = a /\ step' = "starting"
                /\ start' = [start EXCEPT !.todo = Order(a.runtime) \o InOrder(a.runtime)]
                /\ UNCHANGED status
           ELSE End(2, "config") /\ UNCHANGED <<args, start>>
      /\ UNCHANGED <<vars, command, report>>

Next1(item) == step = "starting" /\ start.todo # <<>> /\ Head(start.todo) = item
Done(s) == start' = [s EXCEPT !.todo = Tail(@)] /\ UNCHANGED <<step, status>>
Still == UNCHANGED <<vars, command, args, report>>

\* The first library of that name to be loaded serves the process.
Loads(backend) == IF start.backend = None THEN backend ELSE start.backend

\* initialize_pip_rocm_runtime(): without ROCM_PATH the SDK's libraries,
\* hipDNN's among them, are preloaded.
Preloaded == IF start.rocm_path = None /\ WheelSdk THEN Loads("sdk") ELSE start.backend

\* _load_hipdnn_bindings(): an error is kept for later.
Bind ==
  /\ Next1("bind") /\ Still
  /\ \/ /\ venv.bindings # None
        /\ Done([start EXCEPT !.backend = IF Preloaded = None THEN "hipdnn" ELSE Preloaded])
     \/ Done([start EXCEPT !.error = TRUE, !.backend = Preloaded])

\* The first import of torch; a ROCm wheel preloads a backend of its own.
ImportTorch ==
  [start EXCEPT !.torch = TRUE,
                !.backend = IF WheelSdk THEN Loads("sdk") ELSE @]

\* _check_reference_provider().
Reference ==
  /\ Next1("reference") /\ Still
  /\ \/ ~args.validate /\ Done(start)
     \/ args.validate /\ Probe(venv.torch) # "missing" /\ Done(ImportTorch)
     \/ args.validate /\ End(1, "reference") /\ UNCHANGED start

\* Of a prefix, lib/hipdnn_plugins/engines is meant (rocm_runtime.py).
IsDir(path) ==
  path \in DOMAIN PluginDirs \/ (path \in RocmPrefixes /\ "lib" \in hipdnn[path])

\* _create_hipdnn_handle(): directories first, then the kept error, then a
\* handle, for each pair where the paths are per engine.
Provides(pair) == pair[2] \in DOMAIN PluginDirs => pair[1] \in PluginDirs[pair[2]]
StartHipdnn ==
  /\ Next1("hipdnn") /\ Still
  /\ IF \E p \in ToSet(args.plugin_path) : ~IsDir(p)
       THEN End(2, "directory") /\ UNCHANGED start
     ELSE IF start.error THEN End(1, "bindings") /\ UNCHANGED start
     ELSE IF \E p \in ToSet(Selections(args)) : ~Provides(p)
       THEN End(2, "engine") /\ UNCHANGED start
     ELSE \/ Done([start EXCEPT !.pairs = Selections(args)])
          \/ End(1, "handle") /\ UNCHANGED start

\* _start_pytorch(), _start_rocke(): a torch that sees a GPU; rocKE needs a
\* ROCm build, its packages and its descriptors.
StartTorch ==
  \E r \in {"pytorch", "rocke"} :
    /\ Next1(r) /\ Still
    /\ \/ /\ Probe(venv.torch) \notin {"missing", "cpu"}
          /\ r = "rocke" => venv.torch.mode = "rocm" /\ venv.rocke
          /\ Done(ImportTorch)
       \/ End(1, r) /\ UNCHANGED start

\* Every planner is there: the suite runs (SuiteCli).
RunSuite ==
  /\ step = "starting" /\ start.todo = <<>> /\ End(0, "suite")
  /\ Still /\ UNCHANGED start

\* `compare` reads two documents and no installation; it is tried only before
\* the first setup run.
CompareFiles ==
  /\ step = "shell" /\ pc = "idle" /\ runs = 0
  /\ \E a, b \in Documents, c \in Comparisons :
       /\ End(CompareExit(a, b, c.by, c.threshold, c.allow), "compare")
       /\ report' = IF CompareExit(a, b, c.by, c.threshold, c.allow) = 2 THEN report
                    ELSE [a |-> a, b |-> b, by |-> c.by, threshold |-> c.threshold,
                          pairs |-> ComparePairs(a, b, c.by)]
  /\ UNCHANGED <<vars, command, args, start>>

\* The user has run setup often enough (MaxRuns).
Leave == step = "shell" /\ Idle /\ runs = MaxRuns /\ UNCHANGED everything

NextLaunch ==
  \/ step = "shell" /\ NextSetup /\ UNCHANGED console
  \/ \E c \in Commands : Enter(c)
  \/ Configure \/ Bind \/ Reference \/ StartHipdnn \/ StartTorch \/ RunSuite
  \/ CompareFiles \/ Prompt \/ Leave

SpecLaunch == InitLaunch /\ [][NextLaunch]_everything

-----------------------------------------------------------------------------
(* Properties. *)

\* The plugin directories that the command line or the config file names.
NamedPaths(c) == Merged(c.cli, c.config).plugin_path

\* After a setup run that verified, unless it was for CUDA, the bindings are
\* there; and after one that built, or that found plugins under lib/ of the
\* prefix it reused, so is the plugin directory of every command that names
\* none, in the activated venv or in a shell without another ROCM_PATH; also
\* when earlier setup runs failed, were cut short or used another prefix.
\* (Setup.run(), install_bindings(), write_activate_local(), start_runtime())
SetupSuffices ==
  pc = "ready" /\ self.torch_mode # "cuda" =>
    /\ venv.bindings # None
    /\ status.why = "directory" /\ start.rocm_path \in {None, venv.env} =>
         NamedPaths(command) # <<>> \/ (~self.built /\ self.plugins # "lib")

\* Where ROCM_PATH names its install, hipDNN runs on the backend of that
\* install, whatever else this process imports; and its load error is
\* reported only after a usable reference.
\* (start_runtime(), _load_hipdnn_bindings())
HipdnnFirst ==
  /\ start.rocm_path # None /\ start.backend = "sdk" =>
       "hipdnn" \notin args.runtime \/ start.error
  /\ status.why = "bindings" /\ args.validate => start.torch

\* Engines or plugins of the command line are the ones that run, each engine
\* with the plugin in its place or with the only one, and none is completed
\* from the [[engines]] table: where the command names its plugins, an engine
\* runs with one of the table only if an entry names both.
\* (apply_config_file(), engine_selections_for())
PairsKept ==
  \A i \in DOMAIN start.pairs :
    LET c == command IN
    /\ "engine" \in DOMAIN c.cli => start.pairs[i][1] = c.cli.engine[i]
    /\ "plugin_path" \in DOMAIN c.cli =>
         /\ "engine" \in DOMAIN c.cli
         /\ start.pairs[i][2] = c.cli.plugin_path[IF Len(c.cli.plugin_path) = 1 THEN 1 ELSE i]
    /\ c.config # NoConfig /\ "plugin_path" \notin DOMAIN c.cli /\ NamedPaths(c) # <<>> =>
         LET table == {<<e.id, e.plugin_path>> : e \in ToSet(c.config.engines)} IN
         start.pairs[i][2] \in {t[2] : t \in table} \ {None} => start.pairs[i] \in table

\* Each graph of either document is compared at most once, only with one of
\* its graph_id, graphs of equal graph_id in their order; and of the graphs
\* of one graph_id none is left over on both sides.  By engine, a pair of
\* graphs without engine rows does not show.  (_match_graphs())
Matched == {p.graphs : p \in report.pairs}
Shows(g) == report.by = "engine" => EngineRows(g.rows) # {}
GraphsPairedInOrder ==
  LET a == report.a.graphs
      b == report.b.graphs
  IN  report # NoReport =>
        /\ \A m, n \in Matched :
             /\ m[1] = n[1] \/ m[2] = n[2] => m = n
             /\ a[m[1]].id = a[n[1]].id /\ m[1] < n[1] => m[2] < n[2]
        /\ \A m \in Matched : a[m[1]].id = b[m[2]].id
        /\ \A i \in DOMAIN a, j \in DOMAIN b :
             a[i].id = b[j].id /\ a[i].id # NoId /\ Shows(a[i]) /\ Shows(b[j]) =>
               \E m \in Matched : m[1] = i \/ m[2] = j

\* By engine, every engine row of a pair of matched graphs is compared once
\* and no row twice, rows of one engine with each other and in their order.
\* (_keyed(), compare())
RowsPairedOnce ==
  report # NoReport /\ report.by = "engine" =>
    \A m \in Matched :
      LET ra == report.a.graphs[m[1]].rows
          rb == report.b.graphs[m[2]].rows
          of == {p.rows : p \in {q \in report.pairs : q.graphs = m}}
      IN  /\ \A i \in EngineRows(ra) : Cardinality({p \in of : p[1] = i}) = 1
          /\ \A j \in EngineRows(rb) : Cardinality({p \in of : p[2] = j}) = 1
          /\ \A p, q \in of :
               NoRow \notin {p[1], p[2], q[1], q[2]} =>
                 /\ ra[p[1]].engine = rb[p[2]].engine
                 /\ ra[p[1]].engine = ra[q[1]].engine /\ p[1] < q[1] => p[2] < q[2]

\* No graph and no row of a comparison is counted twice or left out.
ComparedOnce == GraphsPairedInOrder /\ RowsPairedOnce

\* A document compared with itself shows neither a regression nor a gain,
\* though graphs and engines repeat in it: each row meets itself.
\* (_match_graphs(), _keyed(), _pick(), _pair())
SelfIsQuiet ==
  report # NoReport /\ report.a = report.b =>
    \A p \in report.pairs :
      LET ga == report.a.graphs[p.graphs[1]]
          gb == report.b.graphs[p.graphs[2]]
      IN  Label(ga, gb, p.rows, report.threshold) \notin {"REGRESSION", "faster"}
=============================================================================
