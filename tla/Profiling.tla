------------------------------ MODULE Profiling ------------------------------
(***************************************************************************)
(* The opt-in profiling passes of one graph: after its timed pass every    *)
(* engine selection is run again, once per requested source, under an      *)
(* external tool (metrics/profiling_orchestrator.py and the four source    *)
(* modules; run_tool() of metrics/_subprocess.py).  Each pass is one       *)
(* run_capped() call, which CappedRun models and this module extends: its  *)
(* variables are those of the call under way.                              *)
(***************************************************************************)
EXTENDS CappedRun, Sequences, FiniteSets

CONSTANTS
  Requests,   \* the sets of sources a run draws from
  Hosts,      \* the hosts: [cdna, wheel, installed], the last by tool
  Selections, \* the engine selections of the graph, by the engine's name
  Leftovers   \* the sets of directories earlier passes left an artifact in

Binaries == {"rocprofv3", "perf", "rocprof-compute"}
Places == {"shim", "prefix", "path"}

ASSUME ProfilingAssumption ==
  /\ Hosts \subseteq [cdna : BOOLEAN, wheel : BOOLEAN,
                      installed : [Binaries -> SUBSET Places]]
  /\ Requests \subseteq SUBSET {"pmc", "trace", "perf", "roofline"}
  /\ Len(Selections) \in Nat \ {0} /\ DOMAIN Selections = 1..Len(Selections)

Sources == {"pmc", "trace", "perf", "roofline"}

\* The passes asked for, in the order of the table in run_profiling_passes().
Requested(s) ==
  LET If(x) == IF x \in s THEN <<x>> ELSE <<>>
  IN  If("pmc") \o If("trace") \o If("perf") \o If("roofline")

VARIABLES
  requests,   \* drawn: the sources asked for
  pmcSet,     \* drawn: "memory" or "all"
  found,      \* drawn: the directories with an artifact of earlier passes
  host,       \* drawn: has its arch counter tables of its own, are the ROCm
              \* wheels installed, and where each tool is found
  stage,      \* "startup", "select", "next", "tool", "ended" and the outcomes
  sel, todo,  \* the selection, and its sources still to run
  slices,     \* what extra_metrics has of the selection: source to slice
  disk,       \* directory to the selection whose artifact it holds, 0 for none,
              \* or Earlier
  left        \* the processes earlier calls left behind

drawn == <<requests, pmcSet, host, found>>
passes == <<stage, sel, todo, slices, disk, left>>
allvars == <<vars, drawn, passes>>

Binary(s) == CASE s \in {"pmc", "trace"} -> "rocprofv3"
               [] s = "perf"             -> "perf"
               [] s = "roofline"         -> "rocprof-compute"

NoSlice == [x \in {} |-> <<>>]
Slice(is, from) == [is |-> is, from |-> from]

\* Seeded bug: the engine's name is left out.
Dir_no_engine(i, s) == <<s>>

\* _subdir(): graph, engine name, source.
Dir(i, s) == <<Selections[i], s>>
Dirs == {Dir(i, s) : i \in DOMAIN Selections, s \in Sources}
ASSUME LeftoversAssumption == Leftovers \subseteq SUBSET Dirs

\* _subdir() makes its directory with exist_ok: under a reused
\* --profiling-output-dir, or for a graph the suite lists twice, it may hold
\* what earlier passes of the graph and engine wrote.
Earlier == Len(Selections) + 1

Source == Head(todo)
Here == Dir(sel, Source)

InitProfiling ==
  /\ Init
  /\ requests \in Requests /\ host \in Hosts /\ found \in Leftovers
  /\ pmcSet \in {"memory", "all"} /\ ("pmc" \notin requests => pmcSet = "all")
  /\ stage = "startup" /\ sel = 1 /\ todo = <<>>
  /\ slices = NoSlice /\ left = {}
  /\ disk = [d \in Dirs |-> IF d \in found THEN Earlier ELSE 0]

-----------------------------------------------------------------------------
(* Tools. *)

\* _resolve_perf(): any perf that runs, of whatever kernel.
ResolvePerf == IF host.installed["perf"] = {} THEN "none" ELSE "path"

\* resolve_rocm_tool(): the wheel's shim, if the wheels are there, then the
\* prefix, then PATH.
Resolve(b) ==
  IF b = "perf" THEN ResolvePerf
  ELSE IF host.wheel /\ "shim" \in host.installed[b] THEN "shim"
  ELSE IF "prefix" \in host.installed[b] THEN "prefix"
  ELSE IF "path" \in host.installed[b] THEN "path" ELSE "none"

\* A tool of another ROCm install cannot profile a wheel's process.
Foreign(b) == host.wheel /\ b # "perf" /\ Resolve(b) # "shim"

\* Seeded bug: roofline's tool is not looked for at startup.
Missing_roofline == {s \in requests \ {"roofline"} : Resolve(Binary(s)) = "none"}

\* check_requested_tools()
Missing == {s \in requests : Resolve(Binary(s)) = "none"}

\* _resolve_counter_groups(): counter groups, one replay each.
CounterGroups ==
  IF pmcSet = "all" THEN (IF host.cdna THEN 3 ELSE 1)
  ELSE IF host.cdna THEN 1 ELSE 0

Startup ==
  /\ stage = "startup"
  /\ stage' = IF Missing # {} THEN "refused" ELSE "select"
  /\ UNCHANGED <<vars, drawn, sel, todo, slices, disk, left>>

-----------------------------------------------------------------------------
(* The passes of one selection. *)

Select ==
  /\ stage = "select" /\ sel <= Len(Selections)
  /\ todo' = Requested(requests) /\ slices' = NoSlice /\ stage' = "next"
  /\ UNCHANGED <<vars, drawn, sel, disk, left>>

\* aggregated.update()
Recorded(slice) == [s \in DOMAIN slices \cup {Source} |->
                      IF s = Source THEN slice ELSE slices[s]]
Record(slice) ==
  /\ slices' = Recorded(slice) /\ todo' = Tail(todo) /\ stage' = "next"

\* run() before its tool: nothing to collect, or no tool.
SkipPass ==
  /\ stage = "next" /\ todo # <<>>
  /\ \/ Source = "pmc" /\ CounterGroups = 0 /\ Record(Slice("empty", 0))
     \/ /\ ~(Source = "pmc" /\ CounterGroups = 0)
        /\ Resolve(Binary(Source)) = "none" /\ Record(Slice("toolless", 0))
  /\ UNCHANGED <<vars, drawn, sel, disk, left>>

\* The call is over: its variables are as before the first.
Fresh == /\ pc' = "spawn" /\ child' = "none" /\ helpers' = {} /\ raising' = "none"
         /\ outcome' = "none" /\ cause' = "none" /\ UNCHANGED interrupts

\* run_tool() calls run_capped().
StartTool ==
  /\ stage = "next" /\ todo # <<>>
  /\ ~(Source = "pmc" /\ CounterGroups = 0)
  /\ Resolve(Binary(Source)) # "none"
  /\ stage' = "tool"
  /\ UNCHANGED <<vars, drawn, sel, todo, slices, disk, left>>

\* The call, and the processes of the tool.
Tool ==
  /\ stage = "tool" /\ pc # "ended"
  /\ Next
  /\ UNCHANGED <<drawn, passes>>

\* Seeded bug: -p is the engine's directory, shared by its sources.
ClearedBy_parent(d, s) == s = "roofline" /\ d[1] = Selections[sel]

\* rocprof-compute clears the whole directory it is given with -p.
ClearedBy(d, s) == s = "roofline" /\ d = Dir(sel, s)

\* The tool, or a process it forked, writes its artifact.
ToolWrites ==
  /\ stage = "tool" /\ child = "running" /\ ~Foreign(Binary(Source))
  /\ disk' = [d \in Dirs |-> IF d = Here THEN sel
                             ELSE IF ClearedBy(d, Source) THEN 0 ELSE disk[d]]
  /\ UNCHANGED <<vars, drawn, stage, sel, todo, slices, left>>

\* The exit codes of a tool that completed.  The workload under it, one plain
\* run of one graph and one engine, fails with 1.
Codes == IF Foreign(Binary(Source)) THEN {1} ELSE {0, 1}

\* Seeded bug: the tool's data is read after a timeout as well.
Unfinished_parsed == {"oserror"}

\* run_tool() returns no process.
Unfinished == {"timeout", "oserror"}

\* perf's file is read after a nonzero exit too.
Salvaged == IF Source = "perf" THEN disk[Here] ELSE 0

\* What run() makes of the call: find_first() and the parsers.
SliceOf(code) ==
  IF outcome \in Unfinished THEN Slice("skipped", 0)
  ELSE IF code # 0 THEN Slice("failed", Salvaged)
  ELSE IF disk[Here] = 0 THEN Slice("warned", 0)
  ELSE Slice("data", disk[Here])

\* except Exception: KeyboardInterrupt and the SIGTERM exception are not.
Caught == {"completed", "oserror", "timeout"}

EndPass ==
  /\ stage = "tool" /\ pc = "ended" /\ outcome \in Caught
  /\ \/ \E code \in Codes : Record(SliceOf(code))
     \/ Record(Slice("unexpected", 0))
  /\ left' = left \cup helpers \cup (IF child = "running" THEN {"child"} ELSE {})
  /\ Fresh
  /\ UNCHANGED <<drawn, sel, disk>>

InterruptPass ==
  /\ stage = "tool" /\ pc = "ended" /\ outcome \notin Caught
  /\ stage' = "interrupted"
  /\ UNCHANGED <<vars, drawn, sel, todo, slices, disk, left>>

EndSelection ==
  /\ stage = "next" /\ todo = <<>>
  /\ stage' = "row"
  /\ UNCHANGED <<vars, drawn, sel, todo, slices, disk, left>>

NextSelection ==
  /\ stage = "row"
  /\ sel' = sel + 1 /\ slices' = NoSlice
  /\ stage' = IF sel = Len(Selections) THEN "done" ELSE "select"
  /\ UNCHANGED <<vars, drawn, todo, disk, left>>

Stopped == stage \in {"done", "refused", "interrupted"} /\ UNCHANGED allvars

Pass == \/ Startup \/ Select \/ SkipPass \/ StartTool \/ EndPass \/ InterruptPass
        \/ EndSelection \/ NextSelection
Calling == stage = "tool" /\ Call /\ UNCHANGED <<drawn, passes>>

NextProfiling == Pass \/ Tool \/ ToolWrites \/ Stopped

\* The orchestrator and run_capped() take their steps; the tool owes nothing.
SpecProfiling ==
  InitProfiling /\ [][NextProfiling]_allvars /\ WF_allvars(Pass \/ Calling)

-----------------------------------------------------------------------------
(* Properties. *)

\* One source that is skipped, fails or raises costs no other its result: a
\* selection whose passes end has a slice for each source it asked for, and
\* an artifact a slice names is still there, whatever ran afterwards.
\* (run_profiling_passes(), roofline._build_argv())
SlicesKept ==
  /\ stage = "row" => DOMAIN slices = requests
  /\ \A s \in DOMAIN slices : slices[s].from # 0 => disk[Dir(sel, s)] = slices[s].from

\* The counters of a slice are this selection's own, provided no earlier
\* selection has the same engine name; or they are those of earlier passes,
\* in a directory that was found with them and that this pass never wrote to.
\* (_subdir(), find_first(), perf.run())
OwnData ==
  sel <= Len(Selections) /\ (\A i \in 1..(sel - 1) : Selections[i] # Selections[sel]) =>
    \A s \in DOMAIN slices :
      \/ slices[s].from \in {0, sel}
      \/ slices[s].from = Earlier /\ Dir(sel, s) \in found /\ disk[Dir(sel, s)] = Earlier

\* A pass is never skipped for want of its tool, and no tool of another ROCm
\* install ever reports counters: a missing tool refuses the run before any
\* graph, a foreign one fails.  (check_requested_tools(), resolve_rocm_tool())
ToolsHonest ==
  \A s \in DOMAIN slices :
    /\ slices[s].is # "toolless"
    /\ slices[s].is = "data" /\ s # "perf" => (host.wheel => Resolve(Binary(s)) = "shim")

\* An interrupt is never taken for a tool's failure: no slice is written for
\* the pass it hit.  And a pass whose tool was stopped reports nothing the
\* tool wrote.  (run_tool(), run_profiling_passes())
StoppedIsNoData ==
  [][stage = "tool" /\ slices' # slices =>
       /\ cause \notin {"int", "term"}
       /\ slices'[Source].is = "data" => outcome = "completed"]_allvars

\* The passes of a graph end, whatever their tools do.
PassesEnd == Capped => <>(stage \in {"done", "refused", "interrupted"})
=============================================================================
