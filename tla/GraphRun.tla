------------------------------ MODULE GraphRun ------------------------------
(***************************************************************************)
(* execution/suite_runner.py: run_graph(), one graph through every         *)
(* runtime: plans, shared inputs and references, one row per engine, the   *)
(* rerun without stalling; execution/oracle.py: the tuned plan beside each *)
(* row and the registry that keeps its winners out of OOTB timings.        *)
(*                                                                         *)
(* What an engine, PyTorch, a profiler or hipDNN's caches do is a choice.  *)
(* Graphs with the same content are one graph (oracle.py:45).  Process     *)
(* death is possible at every step; a new process reads the same disk.     *)
(*                                                                         *)
(* A definition X_suffix just before X is a seeded bug for mutation runs.  *)
(***************************************************************************)
EXTENDS Naturals, Sequences

CONSTANTS Graphs,       \* graph contents
          Engines,      \* hipDNN engine IDs
          EngineLists,  \* what --engine or discovery can select
          Configs       \* suite configurations

RuntimeNames == {"hipdnn", "pytorch", "rocke"}

SuiteConfigs ==
  [runtimes : Seq(RuntimeNames), oracle : BOOLEAN, validate : BOOLEAN,
   strict : BOOLEAN, float64 : BOOLEAN, profile : BOOLEAN, stall : BOOLEAN]

ASSUME GraphRunAssumption ==
  /\ Engines \subseteq Nat \ {0} /\ EngineLists \subseteq Seq(Engines)
  /\ Configs \subseteq SuiteConfigs
  /\ \A c \in Configs : \A k \in 1..Len(c.runtimes) :
       c.runtimes[k] = "pytorch" => ~c.validate

VARIABLES
  pc,        \* the next step
  config,    \* SuiteConfig; stall is timing_policy.stall_gate
  asked,     \* was stalling allowed in the first attempt?
  graph,     \* the graph that runs
  planned,   \* planners that have run
  jobs,      \* the rows they promised, in order
  erred,     \* a planner, or the input generation, failed
  inputs,    \* some plan needs inputs
  rows,      \* graph.results
  row,       \* the row being filled
  ref,       \* the reference: outputs, on the device or not, why missing
  tuned,     \* the row's tuned plan: "none", "plain" or "tunable"
  held,      \* device memory of the row: subset of {"ootb", "tuned", "buffers"}
  cache_off, \* HIPDNN_DISABLE_CACHE=1 is in the environment
  registry,  \* _TUNED_IN_PROCESS
  winners,   \* hipDNN's tuned winners in this process's memory
  disk       \* and in its disk cache

vars == <<pc, config, asked, graph, planned, jobs, erred, inputs, rows, row,
          ref, tuned, held, cache_off, registry, winners, disk>>
job    == <<config, asked, graph, planned, jobs, erred, inputs>>
oracle == <<registry, winners, disk>>
device == <<tuned, held, cache_off>>

NoRef == [outputs |-> "none", device |-> FALSE, why |-> "none"]

NewRow(runtime, engine, role) ==
  [runtime |-> runtime, engine |-> engine, role |-> role, status |-> "success",
   stalled |-> config.stall, mode |-> "none", served |-> FALSE,
   verdict |-> "none", oracle |-> "none"]

Blank == [runtime |-> "none", engine |-> 0, role |-> "none", status |-> "none",
          stalled |-> FALSE, mode |-> "none", served |-> FALSE,
          verdict |-> "none", oracle |-> "none"]

Init ==
  /\ pc = "idle"
  /\ config \in Configs /\ asked = config.stall
  /\ graph \in Graphs
  /\ planned = 0 /\ jobs = <<>> /\ erred = FALSE /\ inputs = FALSE
  /\ rows = <<>> /\ row = Blank /\ ref = NoRef
  /\ tuned = "none" /\ held = {} /\ cache_off = FALSE
  /\ registry = {} /\ winners = {} /\ disk = {}

Goto(step) == pc' = step

Pair == <<graph, row.engine>>

Engine(r) == r.role = "engine"

(* What a new attempt keeps of graph.results.                              *)
FreshRows_kept == rows
FreshRows == <<>>

-----------------------------------------------------------------------------
(* run_graph(): the first attempt, and the rerun of the whole graph.       *)

StartAttempt ==
  /\ Goto("plan")
  /\ planned' = 0 /\ jobs' = <<>> /\ erred' = FALSE /\ inputs' = FALSE
  /\ rows' = FreshRows /\ row' = Blank /\ ref' = NoRef
  /\ tuned' = "none" /\ held' = {}

Start ==
  /\ pc \in {"idle", "result", "raised"}
  /\ \E g \in Graphs : graph' = g
  /\ config' = [config EXCEPT !.stall = asked]
  /\ StartAttempt
  /\ UNCHANGED <<asked, cache_off, oracle>>

(* The policy of the rerun.                                                *)
Unstalled_keeps_gate(c) == c
Unstalled(c) == [c EXCEPT !.stall = FALSE]

(* A StallFallbackError leaves the row, its buffers and the attempt.       *)
Rerun ==
  /\ pc = "fallback"
  /\ config' = Unstalled(config)
  /\ StartAttempt
  /\ UNCHANGED <<asked, graph, cache_off, oracle>>

(* The process dies; the suite is started again, maybe with other options. *)
Killed ==
  /\ Goto("idle")
  /\ config' \in Configs /\ asked' = config'.stall
  /\ planned' = 0 /\ jobs' = <<>> /\ erred' = FALSE /\ inputs' = FALSE
  /\ rows' = <<>> /\ row' = Blank /\ ref' = NoRef
  /\ tuned' = "none" /\ held' = {} /\ cache_off' = FALSE
  /\ registry' = {} /\ winners' = {}
  /\ UNCHANGED <<graph, disk>>

-----------------------------------------------------------------------------
(* _run_graph(): planners in order, inputs, references, rows in order.     *)

Job(runtime, engine) == [runtime |-> runtime, engine |-> engine]

Promise(new, needs) ==
  /\ jobs' = jobs \o new
  /\ inputs' = (inputs \/ needs)
  /\ UNCHANGED erred

SelectionFails == erred' = TRUE /\ UNCHANGED <<jobs, inputs>>

Plan ==
  /\ pc = "plan" /\ planned < Len(config.runtimes)
  /\ planned' = planned + 1
  /\ LET runtime == config.runtimes[planned + 1] IN
     \/ /\ runtime = "hipdnn"
        /\ \E list \in EngineLists :
             Promise([k \in 1..Len(list) |-> Job("hipdnn", list[k])], TRUE)
     \/ /\ runtime = "pytorch"
        /\ \/ Promise(<<Job("pytorch", 0)>>, TRUE)
           \/ Promise(<<Job("pytorch_unsupported", 0)>>, FALSE)
     \/ /\ runtime = "rocke"
        /\ Promise(<<Job("rocke", 0)>>, TRUE) \/ Promise(<<>>, FALSE)
     \/ runtime \in {"hipdnn", "rocke"} /\ SelectionFails
  /\ UNCHANGED <<pc, config, asked, graph, rows, row, ref, device, oracle>>

PlansDone == pc = "plan" /\ planned = Len(config.runtimes)

GenerateInputs ==
  /\ PlansDone
  /\ Goto(IF inputs /\ config.validate THEN "reference" ELSE "rows")
  /\ UNCHANGED <<job, rows, row, ref, device, oracle>>

(* No inputs: the graph ends in an error without rows.                     *)
InputsFail ==
  /\ PlansDone /\ inputs
  /\ erred' = TRUE
  /\ Goto("result")
  /\ UNCHANGED <<config, asked, graph, planned, jobs, inputs, rows, row, ref,
                 device, oracle>>

(* The rows ahead of the engine rows: the reference's, if it has one.      *)
Ahead == IF rows # <<>> /\ rows[1].role = "reference" THEN 1 ELSE 0

StartRow ==
  /\ pc = "rows"
  /\ \E k \in 1..Len(jobs) :
       /\ Ahead + k = Len(rows) + 1
       /\ row' = NewRow(jobs[k].runtime, jobs[k].engine, "engine")
       /\ Goto(jobs[k].runtime)
  /\ UNCHANGED <<job, rows, ref, device, oracle>>

RowsDone ==
  /\ pc = "rows" /\ Len(rows) = Ahead + Len(jobs)
  /\ Goto("result")
  /\ UNCHANGED <<job, rows, row, ref, device, oracle>>

(* A row ends: it is appended, and its buffers and plans are gone.         *)
Append1(r) ==
  /\ rows' = Append(rows, r)
  /\ row' = Blank /\ tuned' = "none" /\ held' = {}
  /\ Goto(IF r.role = "reference" THEN "choose_reference" ELSE "rows")

(* A reason-only row replaces the partially filled one.                    *)
FailedRow(status) ==
  Append1([NewRow(row.runtime, row.engine, row.role) EXCEPT !.status = status])

-----------------------------------------------------------------------------
(* run_single_provider_engine(): one hipDNN engine.                        *)

Hip(step) == pc = step /\ row.runtime = "hipdnn"

(* What keeps an engine's OOTB row from being timed after its search.      *)
Refused == Pair \in registry

(* A handle that cannot be made, a tuned pair, or a failed or unsupported  *)
(* build end the row; else the OOTB plan is built, primed first.  hipDNN   *)
(* serves a known winner to the build.                                     *)
BuildFails ==
  /\ pc = "hipdnn"
  /\ FailedRow("error") \/ (~Refused /\ FailedRow("skipped"))
  /\ UNCHANGED <<job, ref, cache_off, oracle>>

Build ==
  /\ pc = "hipdnn" /\ ~Refused
  /\ row' = [row EXCEPT !.served = Pair \in winners \cup (IF cache_off THEN {} ELSE disk)]
  /\ held' = {"ootb"}
  /\ Goto(IF config.oracle THEN "build_tuned" ELSE "allocate")
  /\ UNCHANGED <<job, rows, ref, tuned, cache_off, oracle>>

(* build_tuned_plan(): nothing runs yet; a failure only marks the oracle.  *)
BuildTuned ==
  /\ pc = "build_tuned"
  /\ Goto("allocate")
  /\ \/ tuned' \in {"plain", "tunable"} /\ held' = held \cup {"tuned"} /\ UNCHANGED row
     \/ row' = [row EXCEPT !.oracle = "error"] /\ UNCHANGED <<tuned, held>>
  /\ UNCHANGED <<job, rows, ref, cache_off, oracle>>

(* Buffers, inputs; any failure is the row's.                              *)
Allocate ==
  /\ Hip("allocate") \/ pc = "rocke"
  /\ held' = held \cup {"buffers"}
  /\ Goto("measure")
  /\ UNCHANGED <<job, rows, row, ref, tuned, cache_off, oracle>>

(* A step of the row raises something other than StallFallbackError.       *)
StepFails ==
  /\ pc \in {"allocate", "measure", "validate", "rocke"}
  /\ \E status \in {"error", "skipped"} : FailedRow(status)
  /\ UNCHANGED <<job, ref, cache_off, oracle>>

(* config.stall: the policy asks for the stall gate, and HIP's bindings and *)
(* the device can do it.  "events" is any mode without it, block timing too. *)
Mode == IF config.stall THEN "staged" ELSE "events"

(* A row on a torch stream is probed for host syncs, and its timer may be  *)
(* torch's: either takes that row alone out of staged mode.                *)
ModesOf(runtime) == {Mode} \cup (IF runtime = "hipdnn" THEN {} ELSE {"events"})

Measure ==
  /\ pc = "measure"
  /\ \E mode \in ModesOf(row.runtime) : row' = [row EXCEPT !.mode = mode]
  /\ Goto("validate")
  /\ UNCHANGED <<job, rows, ref, device, oracle>>

(* _tuned_env(): the switch inside the context, and after it.              *)
TunedEnv == TRUE
Restored_never == cache_off
Restored == FALSE

(* The winners after a launch that searched: only an engine with the knob  *)
(* searches.                                                               *)
Found == IF tuned = "tunable" THEN {winners \cup {Pair}} ELSE {}

(* The stall gate failed: only a stalled loop says so.                     *)
Fallback ==
  /\ pc \in {"measure", "pytorch", "pytorch_reference", "launch_tuned"} /\ config.stall
  /\ Goto("fallback")
  /\ cache_off' = Restored /\ held' = {} /\ tuned' = "none"
  /\ winners' \in {winners} \cup (IF pc = "launch_tuned" THEN Found ELSE {})
  /\ UNCHANGED <<job, rows, row, ref, registry, disk>>

(* _validate_row(): --validate is a hard gate.                             *)
NoReference_unchecked == "unchecked"
NoReference == "mismatch"

Verdicts ==
  IF ref.outputs # "none" THEN {"match", "mismatch"}
  ELSE IF ref.why = "skipped" THEN {"unchecked"}
  ELSE IF config.validate THEN {NoReference}
  ELSE {"none"}

Validate ==
  /\ pc = "validate"
  /\ \E verdict \in Verdicts : row' = [row EXCEPT !.verdict = verdict]
  /\ Goto(IF tuned # "none" THEN "mark_tuned"
          ELSE IF row.runtime = "hipdnn" THEN "release" ELSE "finish")
  /\ UNCHANGED <<job, rows, ref, device, oracle>>

-----------------------------------------------------------------------------
(* run_tuned_plan().  The pair is registered before the launch, because a  *)
(* search that fails part way may leave a winner behind.                   *)

Marked_never == registry
Marked == IF tuned = "tunable" THEN registry \cup {Pair} ELSE registry

MarkTuned ==
  /\ pc = "mark_tuned"
  /\ cache_off' = TunedEnv
  /\ registry' = Marked
  /\ Goto("launch_tuned")
  /\ UNCHANGED <<job, rows, row, ref, tuned, held, winners, disk>>

(* hipDNN keeps the winner in memory, and on disk unless that is disabled. *)
LaunchTuned ==
  /\ pc = "launch_tuned"
  /\ \/ tuned = "tunable" /\ winners' = winners \cup {Pair}
        /\ disk' = IF cache_off THEN disk ELSE disk \cup {Pair}
     \/ UNCHANGED <<winners, disk>>
  /\ \E outcome \in {"ok", "error"} : row' = [row EXCEPT !.oracle = outcome]
  /\ cache_off' = Restored
  /\ Goto("release")
  /\ UNCHANGED <<job, rows, ref, tuned, held, registry>>

-----------------------------------------------------------------------------
(* The buffers are freed, then both plans, then the profilers run.         *)

Released_plans_kept == {"ootb", "tuned"} \cap held
Released == {}

Release ==
  /\ pc = "release"
  /\ held' = Released
  /\ Goto(IF config.profile THEN "profile" ELSE "finish")
  /\ UNCHANGED <<job, rows, row, ref, tuned, cache_off, oracle>>

(* The profilers rerun the workload in a child; a failure is a note.       *)
Profile ==
  /\ pc = "profile"
  /\ Goto("finish")
  /\ UNCHANGED <<job, rows, row, ref, device, oracle>>

FinishRow ==
  /\ pc = "finish"
  /\ Append1(row)
  /\ UNCHANGED <<job, ref, cache_off, oracle>>

-----------------------------------------------------------------------------
(* _run_pytorch_row(), as an engine or as the reference of the graph.      *)

Strict == config.strict

MeasurePytorch ==
  /\ pc \in {"pytorch", "pytorch_reference"}
  /\ \E mode \in ModesOf(row.runtime) : row' = [row EXCEPT !.mode = mode]
  /\ held' = {"buffers"}
  /\ Goto(IF row.role = "reference" THEN "extract" ELSE "pytorch_done")
  /\ UNCHANGED <<job, rows, ref, tuned, cache_off, oracle>>

(* Unsupported is skipped unless strict; other failures are errors for an  *)
(* engine row and for a strict selection.                                  *)
PytorchFails ==
  /\ pc \in {"pytorch", "pytorch_reference", "extract"}
  /\ \/ FailedRow(IF Strict THEN "error" ELSE "skipped")
     \/ FailedRow(IF Strict \/ Engine(row) THEN "error" ELSE "skipped")
  /\ UNCHANGED <<job, ref, cache_off, oracle>>

(* Where a reference output is kept: profiled runs keep a host copy.       *)
OnDevice(gpu) == gpu /\ ~config.profile

Extract ==
  /\ pc = "extract"
  /\ ref' = [NoRef EXCEPT !.outputs = "native", !.device = OnDevice(TRUE)]
  /\ Goto("pytorch_done")
  /\ UNCHANGED <<job, rows, row, device, oracle>>

(* The buffers go before the tuned child runs.  Its failure is a note.     *)
PytorchDone ==
  /\ pc = "pytorch_done"
  /\ held' = {}
  /\ Goto(IF config.oracle THEN "pytorch_child" ELSE "finish")
  /\ UNCHANGED <<job, rows, row, ref, tuned, cache_off, oracle>>

PytorchChild ==
  /\ pc = "pytorch_child"
  /\ \E outcome \in {"ok", "error"} : row' = [row EXCEPT !.oracle = outcome]
  /\ Goto("finish")
  /\ UNCHANGED <<job, rows, ref, device, oracle>>

(* A graph PyTorch cannot express: a static row.                           *)
PytorchUnsupported ==
  /\ pc = "pytorch_unsupported"
  /\ row.runtime = "pytorch_unsupported"
  /\ FailedRow(IF Strict THEN "error" ELSE "skipped")
  /\ UNCHANGED <<job, ref, cache_off, oracle>>

-----------------------------------------------------------------------------
(* _prepare_references().                                                  *)

Missing(why) == [NoRef EXCEPT !.why = why]

NoProvider ==
  /\ pc = "reference"
  /\ ref' = Missing("error")
  /\ Goto("rows")
  /\ UNCHANGED <<job, rows, row, device, oracle>>

ReferenceRow ==
  /\ pc = "reference"
  /\ row' = NewRow("pytorch", 0, "reference")
  /\ Goto("pytorch_reference")
  /\ UNCHANGED <<job, rows, ref, device, oracle>>

FallsBack == ~Strict

ChooseReference ==
  /\ pc = "choose_reference"
  /\ IF ref.outputs # "none" \/ FallsBack
     THEN /\ Goto(IF config.float64 THEN "float64"
                  ELSE IF ref.outputs = "native" THEN "rows" ELSE "host_reference")
          /\ UNCHANGED ref
     ELSE /\ ref' = Missing("error")
          /\ Goto("rows")
  /\ UNCHANGED <<job, rows, row, device, oracle>>

(* The float64 reference: computed, on the GPU after a timed row and on    *)
(* the host else; not computed, or not fitting, which is a note.           *)
Float64 ==
  /\ pc = "float64"
  /\ \/ /\ ref' = [NoRef EXCEPT !.outputs = "float64",
                                !.device = OnDevice(ref.outputs = "native")]
        /\ Goto("rows")
     \/ /\ UNCHANGED ref
        /\ Goto(IF ref.outputs = "native" THEN "rows" ELSE "host_reference")
  /\ UNCHANGED <<job, rows, row, device, oracle>>

(* Copying the computed float64 outputs is not guarded: it may raise out   *)
(* of run_graph.                                                           *)
Float64CopyRaises ==
  /\ pc = "float64" /\ ref.outputs = "native"
  /\ Goto("raised")
  /\ UNCHANGED <<job, rows, row, ref, device, oracle>>

(* The CPU reference: computed, failed, or skipped for lack of memory.     *)
HostReference ==
  /\ pc = "host_reference"
  /\ ref' \in {[NoRef EXCEPT !.outputs = "native"], Missing("error"), Missing("skipped")}
  /\ Goto("rows")
  /\ UNCHANGED <<job, rows, row, device, oracle>>

-----------------------------------------------------------------------------
Run ==
  \/ Rerun \/ Plan \/ GenerateInputs \/ InputsFail \/ StartRow \/ RowsDone
  \/ BuildFails \/ Build \/ BuildTuned \/ Allocate \/ StepFails \/ Measure
  \/ Fallback \/ Validate \/ MarkTuned \/ LaunchTuned \/ Release \/ Profile
  \/ FinishRow \/ MeasurePytorch \/ PytorchFails \/ Extract \/ PytorchDone
  \/ PytorchChild \/ PytorchUnsupported \/ NoProvider \/ ReferenceRow
  \/ ChooseReference \/ Float64 \/ Float64CopyRaises \/ HostReference

Next == Start \/ Killed \/ Run

Spec == Init /\ [][Next]_vars

(* run_graph() runs on until it returns.                                   *)
FairSpec == Spec /\ WF_vars(Run)

-----------------------------------------------------------------------------
(* Properties.                                                             *)

Steps == {"idle", "plan", "reference", "rows", "hipdnn", "pytorch", "rocke",
          "pytorch_unsupported", "build_tuned", "allocate", "measure", "validate",
          "mark_tuned", "launch_tuned", "release", "profile", "finish",
          "pytorch_reference", "extract", "pytorch_done", "pytorch_child",
          "choose_reference", "float64", "host_reference", "fallback", "result", "raised"}

Runtimes == {"hipdnn", "pytorch", "pytorch_unsupported", "rocke"}

Rows == [runtime : Runtimes, engine : Engines \cup {0},
         role : {"engine", "reference"}, status : {"success", "error", "skipped"},
         stalled : BOOLEAN, mode : {"none", "staged", "events"}, served : BOOLEAN,
         verdict : {"none", "match", "mismatch", "unchecked"},
         oracle : {"none", "ok", "error"}]

Pairs == Graphs \X Engines

TypeOK ==
  /\ pc \in Steps /\ graph \in Graphs
  /\ planned \in 0..Len(config.runtimes)
  /\ rows \in Seq(Rows) /\ (row = Blank \/ row \in Rows)
  /\ ref \in [outputs : {"none", "native", "float64"}, device : BOOLEAN,
              why : {"none", "error", "skipped"}]
  /\ tuned \in {"none", "plain", "tunable"} /\ held \subseteq {"ootb", "tuned", "buffers"}
  /\ asked \in BOOLEAN /\ erred \in BOOLEAN /\ inputs \in BOOLEAN /\ cache_off \in BOOLEAN
  /\ registry \subseteq Pairs /\ winners \subseteq Pairs /\ disk \subseteq Pairs

Succeeded(r) == r.status = "success"

Recorded == {rows[k] : k \in 1..Len(rows)}

(* An OOTB timing is never of a kernel that a tuned search picked: not in  *)
(* a rerun, not when the graph comes again, not in a later process.        *)
OotbUntuned == \A r \in Recorded : Succeeded(r) => ~r.served

(* Outside the tuned launch the caches are as the user left them.          *)
CachesRestored == cache_off => pc = "launch_tuned"

StrictFailed == config.strict /\ \E r \in Recorded : r.role = "reference" /\ ~Succeeded(r)

(* With --validate an engine row that ran is compared, or fails; it is let *)
(* through unchecked only where the reference did not fit in host memory.  *)
(* A strict SDPA selection that failed has no match from another backend.  *)
HardGate ==
  config.validate => \A r \in Recorded :
    (Engine(r) /\ Succeeded(r)) =>
      \/ r.verdict = "mismatch"
      \/ r.verdict = "match" /\ ref.outputs # "none" /\ ~StrictFailed
      \/ r.verdict = "unchecked" /\ ref.why = "skipped"

(* A graph that returns has exactly the promised rows, in order, after at  *)
(* most one reference row, and all of one attempt.  Only a graph that ends *)
(* in an error may have none.                                              *)
RowsAsPlanned ==
  (pc = "result" /\ ~(erred /\ rows = <<>>)) =>
    /\ Len(rows) = Ahead + Len(jobs)
    /\ \A k \in 1..Len(jobs) :
         LET r == rows[Ahead + k] IN
         Engine(r) /\ r.runtime = jobs[k].runtime /\ r.engine = jobs[k].engine
    /\ \A k \in 1..Len(rows) :
         /\ rows[k].role = "reference" => k = 1
         /\ rows[k].stalled = config.stall

(* A child process that uses the GPU finds nothing of its row there; a     *)
(* profiler finds no reference either.                                     *)
ChildrenHaveRoom ==
  /\ pc \in {"profile", "pytorch_child"} => held = {}
  /\ pc = "profile" => ~ref.device

(* run_graph() returns: a stall failure costs one rerun.                   *)
GraphEnds == []<>(pc \in {"idle", "result", "raised"})

(* The timings of one graph can be compared: its hipDNN rows were all      *)
(* taken in one mode, whatever in the stall gate failed and was remeasured. *)
(* A rocKE or PyTorch row, which may wait for the host itself, can be in   *)
(* events mode beside staged ones, but no row is staged beside a hipDNN row *)
(* that is not.  (run_graph(), measure())                                  *)
EnginesShareMode ==
  \A r, s \in Recorded : Succeeded(r) /\ Succeeded(s) =>
    /\ r.mode # "none"
    /\ r.mode = "staged" /\ s.runtime = "hipdnn" => s.mode = "staged"

(* docs/methodology.md:57: the rows of one graph always share one mode.    *)
RowsShareMode ==
  pc = "result" => \A r, s \in Recorded :
    (Succeeded(r) /\ Succeeded(s)) => r.mode = s.mode
=============================================================================
