# TLA+ models of dnn-benchmark

`dnn-benchmark` times deep-learning graphs on GPUs: every hipDNN engine, PyTorch
and rocKE kernels, beside a reference that validates them. Most of its code is
sequential Python, but what makes its numbers trustworthy is not: a host thread,
a GPU stream and a watchdog race inside one timed sample; kernel caches of the
whole process leak from one measurement into the next; a suite of hours is
interrupted, killed or hangs in a driver. These modules model that part of the
code, check it with TLC, and prove the central properties with TLAPS.

All paths are relative to `src/`; `dnn_benchmarking/` stands for
`src/dnn_benchmarking/` there. `PROJECT.json` maps each definition to its lines.

## The system

| Component | State it keeps | Operations | Hard behaviour | Model |
|---|---|---|---|---|
| Timed loop, `execution/timing.py` | counts of samples and warmups, device time, mode, torch's sync-debug mode | prime, probe for host syncs, choose a mode, warm up, flush, sample, stop | three sources of warmups; two loops with one stop rule; modes that exclude each other | `MeasureLoop` |
| Stall gate, `StalledRegionTimer` | the gate's signal, the stream, two events | arm, record, enqueue, release, wait, verdict | host, GPU and watchdog run concurrently; errors and Ctrl-C inside the region | `StallGate` |
| Suite command, `cli/suite_runner_cli.py` | results so far, signal dispositions, watchdog | run the graphs, write periodically, handle signals, final write, exit code | signals between any two bytecodes; a second signal; a hung kernel | `SuiteCli` |
| Result file, `reporting/suite_results.py` | the document on disk | serialize, temp file, rename | crash or interrupt in the middle of a write | `SuiteCli`, `ResultFile` |
| Graph runner, `execution/suite_runner.py` | the rows of a graph, the reference, device memory | plan, generate inputs, compute references, run a row per engine, validate, profile, rerun unstalled | failure of any step; a retry of the whole graph; shared state between rows | `GraphRun` |
| Oracle, `execution/oracle.py` | the registry of tuned pairs, an environment switch, hipDNN's caches | build and run a tuned plan | winners that survive in the process and on disk | `GraphRun` |
| Capped subprocess, `metrics/_subprocess.py` | a tool's processes and pipes | run under a cap, kill the group, reap | processes that fork, escape or hang; Ctrl-C while waiting | `CappedRun` |
| Profilers, `metrics/*` | artifact directories, slices of a row | look a tool up, one pass per selection and source | a tool that is missing, hangs or fails; data of one pass taken for another's | `Profiling` |
| hipDNN, rocKE and PyTorch executors, buffer managers | plans, workspace, buffers, compiled graphs, torch's attention switches | prepare, allocate, load, zero, execute, release | memory that holds old results; replays; process-wide switches | `RowLife`, `TorchGraph` |
| Correctness and comparison, `execution/correctness.py`, `validation/*` | the reference outputs | compare, aggregate | missing outputs, poisoned buffers | `RowLife` |
| Setup, `setup_env.py` | the venv, the checkout, build directories, install prefixes, all on disk | preflight, clean, install torch, fetch, build, install, relink, verify | runs that fail or are cut short anywhere, and later runs with other options | `Setup` |
| Command line, config file, startup, `cli/main.py`, `cli/config_file.py`, `cli/runtimes.py` | the merged options, loaded libraries | merge, refuse, load, check, create handles | precedence of pairs; load order | `Launch` |
| Compare command, `reporting/compare.py` | none | match two documents, label, exit code | repeated and missing keys | `Compare` |
| PyTorch op handlers, statistics, reporter, graph loading, machine information, analytical counts, tuned child | none that outlives a call | - | - | not modelled, see below |

The suite command calls the graph runner once per graph; the runner calls each
runtime's planner and then one row at a time; a row calls the timed loop, which
calls the stall gate once per sample; a row of an oracle run also calls the
oracle. The exception `StallFallbackError` goes from the gate through the loop
and the row to the runner, which remeasures the graph. Signals go from the
operating system to the suite command, and through it into whatever runs.
The rows share the process: hipDNN's in-memory winners, the environment, device
memory and the reference outputs. After its timed rows a graph is profiled by
child processes, which run the same program under a tool. Setup and the
benchmark share the machine: the bindings, prefixes and environment that one
leaves are what the other starts in.

## Modules

| Module | Models | Checked by |
|---|---|---|
| `MeasureLoop` | `measure()`, `_measure_blocks()`, `_probe_host_sync()` | `measure_loop`, `MeasureLoop_proofs` |
| `SampleBudget` | abstract: what a timed loop promises (stop rule, `capped`) | refined by `MeasureLoop` |
| `StallGate` | `StalledRegionTimer.measure()`, the stream, the watchdog | `stall_gate`, `stall_gate_interrupt`, `StallGate_proofs` |
| `SuiteCli` | `_run_suite()`, `_arm_sigterm_watchdog()`, `SuiteResult.write()` | `suite_cli`, two violation runs, `SuiteCli_proofs` |
| `ResultFile` | abstract: what the result file and the exit code promise | refined by `SuiteCli` |
| `GraphRun` | `run_graph()` with all row kinds, and `oracle.py` | `graph_run`, `graph_modes`, `GraphRun_proofs` |
| `CappedRun` | `run_capped()`, `_kill_tree()` | `capped_run`, `capped_run_cancel`, `Profiling_proofs` |
| `Profiling` (extends `CappedRun`) | the passes of a graph, the four tools, `run_tool()` | `capped_run`, `Profiling_proofs` |
| `TorchGraph` | which graphs PyTorch takes, the tensors of a node, releases | `row_life`, `RowLife_proofs` |
| `RowLife` (extends `TorchGraph`) | buffers, executors, replays and validation of a graph's rows | `row_life`, `RowLife_proofs` |
| `Setup` | `setup_env.py` on Linux | `workspace`, `Launch_proofs` |
| `Compare` | `compare.py`: matching, labels, exit code | `workspace`, `Compare_proofs`, `Launch_proofs` |
| `Launch` (extends `Setup`, `Compare`) | `main()`, config merge, `SuiteConfig`, `start_runtime()` | `workspace`, `Launch_proofs` |
| `Descent` | what a rank is: four numbers that a step can only lower; used by the proofs of `SuiteCli`, `GraphRun` and `Profiling` | `SuiteCli_proofs`, `GraphRun_proofs`, `Profiling_proofs` |
| `MCMeasureLoop`, `MCGraphRun`, `MCProfiling`, `MCRowLife`, `MCWorkspace` | small values of the constants | |

A definition `X_suffix` that stands just before `X` is a seeded bug: replacing
`X` by it must break the property it is paired with in `PROJECT.json`.

**MeasureLoop.** Each call of `measure()` is one behaviour. Its arguments (a
`TimingPolicy`) and surroundings (timer, torch stream, whether the enqueue
syncs, what the HIP runtime offers) are drawn in `Init` and never change.
The actions are the code's enqueues, flushes and decisions; a wait for the GPU
is part of the action that waits, because nothing else of the loop runs
meanwhile. `runs`, `timed`, `idle`, `flushed` and `genuine` are history: what
really ran on the device, against which the reported numbers are held.

**StallGate.** The host thread, the GPU and the watchdog are three groups of
actions over one queue. The enqueue submits its packets one by one, and may
wait for the stream. A region ends with a sample, a fallback, an error or an
interrupt; the next one uses the same gate. How the gate's signal and watchdog
work belongs to `hipdnn_frontend`: the watchdog may open a closed gate at any
time, and says so. A Ctrl-C is delivered before any step `InterruptAt` names.
Interrupts inside the exception handler itself are not modelled.

**SuiteCli.** The main thread moves by steps of the code between which Python
can run a signal handler. `Arrive` makes a signal pending or drops it, by its
disposition at that step; `Interrupt`, `InterruptAfterReplace` and `Uncaught`
are the deliveries, by where the exception lands. SIGINT's handler runs first
when both are pending. A step of `SuiteResult.write()` may fail. A graph may
hang, and then only the watchdog thread runs.

**GraphRun.** One action per stage of a row, over a row record that keeps what
the properties tell apart: runtime, engine, role, status, mode, verdict,
oracle, whether hipDNN served a tuned winner. What an engine, PyTorch, a
profiler or hipDNN's caches do is a choice. The process may die between any two
steps and is started again with any configuration: memory is lost, the disk
cache stays. `run_graph` is called for the same graph again without end, as a
suite with repeated graphs does. Graphs with equal content are one graph (the
limit `oracle.py:48` names is left out), and the rocKE kernels of a graph are
one row. The stall gate is seen only as `Fallback`, which a stalled
measurement alone can take: that is theorem `UnstalledNeverFallsBack` of the
loop. The mode of a row is that of the attempt, but a rocKE or PyTorch row,
which runs on a torch stream, may be in events mode instead: the loop probes its
enqueue for host syncs, and its timer may be torch's.

**CappedRun.** The tool's processes are the tool itself, a helper in its group
and one that escaped by `setsid()`; all hold the pipes. `subprocess.Popen` is
modelled from CPython: `communicate()` waits for the end of the pipes and
reaps; under a `KeyboardInterrupt` it first reaps a tool that has exited;
`__exit__` waits, except under a `KeyboardInterrupt`.

**Profiling.** `run_profiling_passes()` over the calls of `CappedRun`, whose
variables are those of the call under way. A source first looks its tool up (the
wheel's shim, an install prefix, `PATH`) and then runs its passes into an
artifact directory; the disk records which selection's data a directory holds.
The root may be one that an earlier run was given (`--profiling-output-dir`):
`found` are the directories with its artifacts, which nothing clears. What a
tool stores before it ends, or is killed, is a choice; the result of a pass is a
slice that names whose data it reports. `OwnData` excepts two cases: two
selections with one engine name share a directory in the code, and a pass that
writes nothing where an earlier run wrote reports that run's data.

**TorchGraph and RowLife.** `TorchGraph` has the pure part: the tensors a node
names, which the code finds by scanning its attributes as well as its inputs and
outputs, and the index after which each virtual tensor is dropped. `RowLife`
runs a reference row and engine rows one after the other. A storage holds the
inputs' data, a right or a wrong result, zeros or junk, and freed memory is
handed out again with what it holds, a right result included. An engine is
right, wrong in all or in all but one output, accumulates into its output, needs
a zeroed workspace or stores nothing; a value is right or wrong, nothing finer.
Comparing an output may also fail, and then the verdict is a mismatch that names
no output (`Compare`). The rows' timing is `MeasureLoop`'s business, their order
and outcome `GraphRun`'s.

**Setup.** One action per stage of `Setup.run()`, over what is on disk. Any
stage may end with a failed command or a Ctrl-C, and stages that remove or
replace trees also end half way. A new run starts from the disk that is left,
with other options. `venv.torch` is what is installed, `venv.record` what
`TORCH_RECORD` says about it, `self` what this run knows. A pip install may
fetch a CPU wheel, or one that cannot be imported, from any index.
`venv.relic` is history: an interrupted `--clean` left this directory.
A prefix holds any of three parts of hipDNN: its CMake configs, plugins under
`lib/`, plugins under `bin/`. What a host starts with is drawn: an installed
ROCm may bring some of them, so may the SDK of a ROCm torch, and a venv may have
been prepared for `--reuse-artifacts`.

**Launch and Compare.** Between two setup runs a user runs the benchmark, in an
activated shell or not, which may have a `ROCM_PATH` of its own, or `compare`.
`Launch` keeps the order in which `start_runtime()` loads libraries, because
whichever is loaded first decides the HIP backend of the process. `Compare` is
pure operators over two documents; only the action of `Launch` that calls it has
state.

## Runs

| Run | What it asks | Bounds |
|---|---|---|
| `measure_loop` | warmup count, cold flushes, mode choice, probe, bounded work, refinement of `SampleBudget` | every policy with 0-4 warmups, 1-2 iterations, cap 1-3, budget 0 or 3 ms, blocks of 1-2; sample times 0-2 ms |
| `stall_gate` | no gap in a kept sample, gate open on exit, idle at each arm, every region ends | `MaxWork` 2 packets, `MaxCalls` 2 regions, all interrupt points but `start` |
| `stall_gate_interrupt` | finding: Ctrl-C as `arm()` returns | one region |
| `suite_cli` | whole documents and true exits (`ResultFile`), types, code 0, SIGTERM ends the run | `Total` 2 graphs, `MaxSignals` 3 |
| `suite_second_signal` | finding: second signal before SIG_IGN | one graph, two signals |
| `suite_lost_interrupt` | finding: interrupt after the rename | one graph, one signal |
| `graph_run` | untuned OOTB rows, caches restored, hard gate, rows as planned, one mode but for PyTorch's and rocKE's rows, memory of children, termination | one graph, two engines, engine lists up to 2 (one with a repeated engine), six configurations |
| `graph_modes` | finding: rows of one graph in two modes | one configuration |
| `capped_run` | teardown after a cap or SIGTERM; a slice per source, with its own data, from the right tool; an interrupted pass reports no data; the passes end | two selections, two sources for each, hosts with a tool elsewhere or missing, an output directory that is fresh or full, one helper of each kind, `MaxInterrupts` 2 at `communicate`, `reap`, `exit` |
| `capped_run_cancel` | finding: Ctrl-C with an exited tool | one signal |
| `row_life` | a verdict is that of one clean execution or says that the comparison failed; replays find their tensors and keep no dead one; host reads only while priming; torch's switches are scoped | 75 graphs of up to three nodes, two row sequences, 2 replays |
| `workspace` | torch from one source, unmixed builds, whole checkouts, setup that built or found plugins suffices for a command that names no plugin directory, hipDNN binds first, engine and plugin pairs, graphs and rows compared once and in order, a document compared with itself is quiet | `MaxRuns` 3 setup runs of ten kinds on three hosts, 20 commands, 133 documents of up to two graphs with up to three rows |

Why the bounds are enough: warmup counts 0-4 lie below, at and above the 1-3
enqueues that priming makes; the caps and budgets meet, miss and coincide. Two
regions are enough for one to disturb the next, two packets for the stream to
run dry between them. Three signals cover a first one, one in the finally block
and one in the last write; a suite of two graphs has a periodic write with a
part and a final one with the whole. A row interacts with another only through
the winners, the registry, the reference and the mode: two engines, one of them
repeated, and repeated graphs reach each interaction. The six configurations
are ones `SuiteConfig` accepts, and between them they reach every branch.
`Killed` and the external actions need no bound. Two selections are enough for
one to be handed the data of the other, two sources for one to fail beside
another. The 75 graphs have tensors that are shared, read twice, never read,
viewed, or named only by an attribute; two replays differ as the first and
every later one do. Three setup runs make, disturb and use: the first leaves a
disk, the second is cut short in it, the third goes on. The comparison reads
nothing that a setup run writes, so it is tried only before the first one.

No run disables the deadlock check: finished behaviours stutter explicitly
(`Done`, `Finished`, `Ended`, `Stopped`, `Leave`).

### Fairness

- `MeasureLoop` has no fairness: that the loop ends is the invariant
  `WorkBounded` on the work it can submit.
- `StallGate`: the host and the GPU make progress (weak fairness). No step has
  to fail: an enqueue stuck behind the closed gate need not raise (`StepRaises`
  is outside `Host`), and only the watchdog frees it, which has fairness there
  and nowhere else. So `Returns` fails without the watchdog, and would fail if
  the code relied on it elsewhere.
- `SuiteCli`: the main thread runs on unless a graph hangs; the watchdog's timed
  wait ends. Signals owe nothing.
- `GraphRun`: `run_graph` runs on; starting a graph and dying owe nothing.
  A row that hangs is the business of `SuiteCli`.
- `Profiling`: the caller runs (its steps between the calls, those of
  `run_capped()`, and the expiry of its timeouts); the tool and the signals owe
  nothing. `PassesEnd` therefore rests on the cap and on the bounded reap.
- `RowLife`, `Setup` and `Launch` have none and claim no liveness: they are
  sequential, and a command that hangs hangs them.

### Findings

1. `timing.py:218`: a Ctrl-C delivered as `arm()` returns is outside both `try`
   statements; the gate stays closed (`stall_gate_interrupt`).
2. `suite_runner_cli.py:318`: a second signal before the two `SIG_IGN` calls
   have run skips the last write (`suite_second_signal`).
3. `suite_results.py:718`: an interrupt after the rename is swallowed as a
   failed write and the suite runs on (`suite_lost_interrupt`).
4. `timing.py:367` (`docs/methodology.md:57`): rows of one graph need not share
   a mode: a PyTorch or rocKE row that syncs with the host is timed in events
   mode (`graph_modes`).
5. `_subprocess.py:71`: after a Ctrl-C that found the tool exited, the
   processes it started survive (`capped_run_cancel`).

### Exceptions

Where the code does not keep what a reader may expect, the property says what it
does keep. Without its exception TLC finds each property violated.

- `NoSilentMix`: a venv that an interrupted `--clean` left may mix two torches
  (`setup_env.py:769`). A venv without a torch record is built for the GPU that
  setup detects: with a warning if `--gpu-arch` names one, else in silence. So
  a run with `--gpu-arch` that is cut between pip and the record
  (`setup_env.py:1151`) leaves the next run, without flags, to build for another
  GPU than the torch's, although `docs/setup.md:281-283` announces a warning for a
  venv without the record. The modes `existing` and `none` compare nothing.
- `SetupSuffices`: `--reuse-artifacts` asks for hipDNN's CMake configs only,
  accepts plugins under `bin/`, and warns if there are none
  (`setup_env.py:1488-1506`); the launcher looks under `lib/` alone
  (`rocm_runtime.py:51-52`), although `docs/setup.md:97-99` asks for
  `--plugin-path` only with another plugin build. Of such a run the property
  promises the bindings, not the plugin directory. A shell with a `ROCM_PATH` of
  its own is excepted too.
- `OwnData`: selections with one engine name share a directory
  (`profiling_orchestrator.py:195`; the run has none); and in a `--profiling-output-dir` that was
  used before, which nothing clears, a pass that writes nothing reports the
  artifact that it found. So the csv that perf's slice names need not be the one
  "perf actually wrote" (`perf.py:249`).
- `VerdictTrue`: a mismatch that names no output says only that the comparison
  failed (`correctness.py:150`); such a row may be of a right engine.
- `EnginesShareMode`: rocKE and PyTorch rows may be in events mode (finding 4).

## Proofs

TLAPS proves these for every value of the constants: any policies, suite
length, number of signals, graphs, tensors, engines, configurations, command
lines, config files and hosts. They rest on the named assumptions of the
modules, which the runs evaluate on their instances:

- the constants have the shape the code accepts, such as `RowsAssumption` (a
  reference row is the first) and `CommandsAssumption` (argparse and TOML give
  lists; `--plugin-path` is not empty; a config file has its engines in the
  `[[engines]]` table, never as an option `engine`, `config_file.py`);
- a graph is well-formed (`GraphsAreGraphs`): a node reads an input or what an
  earlier node stored, and every output is stored by one node; hipDNN takes no
  other graph, and the code here relies on it without a check;
- the teardown theorems about `run_capped()` and one about the gate assume `Guarded`, a
  bound on where a signal arrives, and `VerdictsAreTrue` assumes a graph with an
  output. The table says so.

| Theorem | Statement |
|---|---|
| `MeasureLoop_proofs!TypeCorrect` (the types), `ReportsItsWarmups`, `ColdRunsAreCold`, `StagingIsSafe`, `ProbeFailsNothing`, `WorkIsBounded` | the others: each safety invariant of the run `measure_loop` |
| `MeasureLoop_proofs!StagedDeviceIsIdle`, `UnstalledNeverFallsBack` | what `StallGate` and `GraphRun` assume of the loop: the gate is armed on an idle device, and only a stalled measurement falls back |
| `MeasureLoop_proofs!KeepsBudget` | `MeasureLoop` implements `SampleBudget` |
| `StallGate_proofs!TypeCorrect`, `SamplesAreGapFree`, `RegionsArmIdle` | the types; each safety invariant of `stall_gate` |
| `StallGate_proofs!WaitsEnd` | the host waits for the stream only behind an open gate |
| `StallGate_proofs!GateIsReleased` | the gate is open on exit; `Guarded`: no Ctrl-C is delivered as `arm()` returns |
| `SuiteCli_proofs!TypeCorrect`, `ZeroIsTrue` | the types; code 0 means a whole, good, saved suite |
| `SuiteCli_proofs!KeepsFile` | `SuiteCli` implements `ResultFile` |
| `SuiteCli_proofs!SuiteComesNearer` | every step, signal and forced exit brings the end of the suite nearer (an action property) |
| `GraphRun_proofs!TypeCorrect`, `OotbIsUntuned`, `CachesAreRestored`, `ChildrenGetRoom` | the types; no tuned winner in an OOTB row; the cache switch is off outside a tuned launch; nothing of a row is on the GPU when a child uses it |
| `GraphRun_proofs!RowsArePlanned` | a graph that returns has the promised rows, in order, of one attempt |
| `GraphRun_proofs!GateIsHard` | with `--validate` no engine row gets through unjudged |
| `GraphRun_proofs!EnginesAgree` | the hipDNN rows of a graph share one mode, and a rocKE or PyTorch row leaves it only for events mode: finding 4 has no other way |
| `GraphRun_proofs!EndComesNearer`, `RanksEnd` | every step of `run_graph()` lowers its rank (an action property); ranks cannot fall for ever |
| `Profiling_proofs!TypeCorrect`, `CapTearsItDown` | a cap, a SIGTERM or an OS error leaves nothing of a call's group; `Guarded`: signals arrive at `communicate`, `reap` or `exit` |
| `Profiling_proofs!PassesTearDown`, `CallsExit` | the same for the call of every pass, and none waits without a bound for a tool that runs (`Guarded`) |
| `Profiling_proofs!PassesComeNearer` | every step of the passes and of their calls, and every signal, lowers their rank, and the tool never raises it (an action property) |
| `Profiling_proofs!SlicesAreKept`, `DataIsOwn`, `ToolsAreHonest`, `StoppedGivesNoData` | a slice for each source asked for, with its own selection's data (or what its directory was found with), from the right tool; an interrupted pass reports no data (an action property) |
| `RowLife_proofs!VerdictsAreTrue` | a row passes only if its engine computes the right outputs in one clean execution, and a mismatch that names an output is of a wrong engine and a wrong output; for graphs with an output |
| `RowLife_proofs!ReadsAreFound`, `OnlyTheLiveAreKept`, `OnlyPrimingWaits`, `SwitchesAreScoped` | the other invariants of `row_life` |
| `Launch_proofs!FetchedCheckoutIsWhole`, `BuildsAreUnmixed` | of `Setup`: a fetched checkout is whole; CMake never runs over another configuration |
| `Launch_proofs!NoSilentMixes` | of `Setup`: no run mixes two sources of torch in silence, or builds for another GPU than its torch's; with the exceptions above |
| `Launch_proofs!LaunchRefinesSetup`, `SetupHolds` | `SpecLaunch => SpecSetup`, and with it the three properties of `Setup` |
| `Launch_proofs!SetupIsEnough`, `HipdnnIsFirst`, `PairsAreKept` | a verified setup that built, or found plugins under `lib/`, is enough for a command that names no plugin directory; hipDNN binds first; engines and plugins stay paired |
| `Launch_proofs!EachComparedOnce` (from `GraphsArePaired`, `RowsArePaired`) | of `Compare`: graphs of one `graph_id`, and rows of one engine, are compared at most once, in order, and none is left over on both sides |
| `Launch_proofs!NoChangeInItself` | of `Compare`: a document compared with itself shows no regression and no gain |

The theorems named `Inductive`, `PassesInductive`, `CallsInductive`,
`SetupInductive`, `MixInductive`, `LaunchInductive`, `GateInductive` and
`ReportInductive` state
the inductive invariants; the others follow from them.

Arguments. **MeasureLoop**: none of the properties is inductive alone. `IInv`
adds to the types what each phase has done so far (before the loop nothing is
timed; a staged loop passed the probe, ...) and an accounting equation of
`runs` against `primed`, `warmed` and `timed`; the warmup count and the work
bound are consequences of it. For the refinement, each action maps to
`SampleBudget`'s `Sample`, `Stop`, `Fail` or a stutter; that `Run` maps to
`Sample` needs from `IInv` that a timed iteration starts with the budget unmet
and the cap not reached. **StallGate**: until the stop event is on the stream,
the GPU stands before the closed gate or the watchdog has fired, which the
verdict sees; and every way out of a region drains the stream before the next
one is armed. **SuiteCli**: `IInv` says for each step what the file
holds (`OnDisk`: a complete document only once the loop is done; after a
successful last write exactly the recorded graphs) and how far the run is
(`Progress`). Writes refine to `Publish` at the rename and stutter elsewhere;
reports refine to `Return`. **GraphRun**: `Registered` is the heart: the disk
cache has no winner, every winner in memory is a registered pair, and a tunable
launch under way has its pair registered and the caches off. Then a build that
passes the registry check cannot be served a winner, and every recorded row is
untuned. Registering after the launch, or a launch without the switch, breaks
the induction where it breaks the code. The order of the rows is `OrderInv`:
the recorded rows keep the promises in order, and the row under way keeps the
next one, whatever its steps overwrite in it; a failed row is made anew, with
the same runtime, engine and role. For the gate, `GInv` ties each step to
the kind of row it works on and says when the reference is settled, which makes
the verdict of an earlier row still true when the last one is recorded. For the
modes, `ModeInv` says that a row from its timing on is in the mode of the
attempt, a row that is not hipDNN's maybe in events mode, and that no row is left of the attempt before a rerun.
**CappedRun**: until the wait is over nobody has reaped the tool, so an
exception other than `KeyboardInterrupt` still finds its process group; after
the kill no member is left to start another. The `KeyboardInterrupt` case is
finding 5. **Profiling**: the sources still to run and those with a slice
divide the request (`Divided`), an artifact directory holds what a selection
of its engine name left there, or what it was found with (`DiskTrue`), and a slice names the artifact of
its own directory (`SlicesTrue`). That an interrupted pass reports no data also
needs the invariant of the call (`RInv`): once a signal was the first
exception, the call ends by a signal.

**RowLife**: `Control` says which kind of row is at which step and whether its
timed loop is over. `Replayed` is about the map of a replay: a tensor that a
node may still read is there or was dropped after its last use, and what is
there a later node names; so no read misses (`Present`) and nothing dead stays
(`Live`). `Memory` says for each step what is in the storages the row owns:
inputs hold their data from the load on, outputs are zero at the launch that is
compared, and what lies in freed memory is never part of it. Without the zeroing
before that launch (`Zeros`) the induction fails at the comparison: an output
may still hold what the timed launches, or an earlier row, left there.
`Switches` confines torch's attention switches to the call that set them.

**Setup**: the old checkout goes only after the clone beside it is
complete; a record names the only configuration its directory has seen, since
the directory is emptied before another record is written. For torch, outside
a relic the record is the truth about the torch beside it, and each
stage knows the torch it found or installed (`MixInv`); so a flag that differs
from the torch also differs from the record, or meets none and is warned about.
**Launch**: its steps outside setup leave setup's variables alone, so
`SpecLaunch` implements `SpecSetup` with the identity as the mapping, and
setup's theorems carry over. `Console` says what the command knows at each
stage; `ReadyInv` what setup has installed by then. `Ordered` says what
`start_runtime()` still has to load: where hipDNN is asked for, a backend is
loaded, the load failed, or the load is still ahead of everything that could
bring another ROCm. For the
pairs, `Merged` is followed through each of its four sources.

**Compare**: the matching of graphs is one recursive function over the first
document, and no installed prover can instantiate the library's induction
theorems. `Compare_proofs` argues by the least counterexample instead: among
the positions of a sequence where a claim fails there is a first one, and the
definition gives the claim there from the one before. So: what was matched so
far is a set of pairs, each of one `graph_id`, where both sides rise together
within an ID, and a graph that is passed over leaves none of its ID on the other
side. A document compared with itself takes each graph and row for itself
(`MatchesItself`, `RowMeetsItself`), and a timing is within any threshold of
itself. `ReportInductive` carries this to `Launch`: a report is what `compare()`
made of two of the documents.

**Ends**: no liveness can be proved here, but what it rests on can. A rank is
four numbers, compared from the first one on (`Descent`). For `run_graph()`
they are the attempts left, the stage, the planners or rows to go, and the steps
of the row; for the passes, the selections left, the stage, the sources to go and
the steps of the call; for `_run_suite()`, whether it is in the loop, the graphs
to go and the steps after them. `RunDescends`, `PassesDescend` and
`SuiteDescends` say that every step of the program lowers the rank, the
second and third that nothing else raises it; `RanksEnd` that it
cannot fall for ever. What is left to TLC is that a next step can always be taken:
there the wait of `StallGate` for its stream and the wait of `Popen.__exit__` for
its tool have no bound of their own. `WaitsEnd` and `CallsExit` say that each is
entered only when what it waits for is on its way.

Only proved: the types of the modules other than `SuiteCli`, and the
properties that the proof modules define for themselves (`RunDescends`,
`PassesDescend`, `SuiteDescends`, `WaitsBehindOpenGate`, `ExitAtOnce`). No run
checks them, since a theorem says more than a run on one instance.

Only model-checked: the four liveness properties `Returns`, `TermEnds`,
`GraphEnds` and `PassesEnd`, for whose fairness and `ENABLED` the prover has no
rules. Every other property of a passing run is stated by a theorem. No module
here has a `RECURSIVE` operator.

## Not modelled, and why

- Floating-point numerics: op handlers, element comparison, statistics,
  analytical FLOP counts, the geometric mean. TLC has no reals, and these are
  pure functions.
- Parsing and formatting: graph JSON, argparse and TOML tables, profiler
  output, console.
- Machine information: reads of system files; a failure is an absent field.
- The tuned PyTorch child's own code: `GraphRun` has its outcome as its parent
  sees it. Likewise the workload a profiler runs.
- Of the executors: engine discovery, knobs, rocKE's eligibility of variants,
  layouts, dtypes and strides.
- Of setup: the DVC data pull, amdsmi, the choice of the Python interpreter.
- Packaging, CI, Docker images; Windows branches (no watchdog, `taskkill`).
- Leftover temp files and file modes of the result file.
- A second installed prefix beside the first: "system" stands for the one that
  `--rocm-prefix`, the shell's `ROCM_PATH` or `/opt/rocm` names. A plugin
  directory that exists and is empty, and artifacts of an earlier run in part of
  a directory.

## What is left

1. Compositions: `SuiteCli` over an abstract graph runner that `GraphRun`
   implements, and `MeasureLoop` with `StallGate` in place of its fallback.
2. The children: the tuned PyTorch process and the profiled workload, with the
   parent's view as the abstract specification they implement.
3. Several rocKE kernels per graph, and graphs that differ only in names
   (`oracle.py:48`).
