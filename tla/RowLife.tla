------------------------------ MODULE RowLife -------------------------------
(***************************************************************************)
(* The device memory of one graph's rows: a PyTorch reference first, then  *)
(* engine rows that are compared with it.  A row prepares its executor     *)
(* (execution/executor.py, pytorch_executor.py, rocke_executor.py), gets   *)
(* buffers (buffer_manager.py, pytorch_buffer_manager.py), loads, zeroes,  *)
(* is timed, zeroed again, run once more and compared (correctness.py).    *)
(* GraphRun models which rows a graph has and what becomes of them; here   *)
(* is what their tensors hold.                                             *)
(*                                                                         *)
(* A tensor map takes a UID to a storage and mem a storage to what it      *)
(* holds: storages a map, the reference or nobody shares are what views,   *)
(* reuse by the allocator and kept references are about.                   *)
(***************************************************************************)
EXTENDS TorchGraph

CONSTANTS
  GraphsRun,  \* the graphs a run draws from
  Rows,       \* the row sequences a run draws from
  Replays     \* enqueues of one timed loop, priming included

ASSUME GraphsAreGraphs == GraphsRun \subseteq {g \in Graphs : WellFormed(g)}
\* At most one reference row, the first; the later rows are compared with it.
ASSUME RowsAssumption ==
  \A q \in Rows :
    /\ q \in Seq({"pytorch", "provider", "hipdnn", "rocke"})
    /\ \A k \in 2..Len(q) : q[k] \in {"hipdnn", "rocke"}
ASSUME ReplaysAssumption == Replays \in Nat \ {0}

\* What an engine does to the outputs: stores the right or a wrong result, or
\* one right and the others wrong; adds to what is there, needs a zero
\* workspace, or stores nothing.
Kinds == {"right", "wrong", "adds", "scratch", "silent"}
           \cup (IF \E u, v \in Outputs : u # v THEN {"partial"} ELSE {})
Correct == {"right", "adds", "scratch"}
Contents == {"data", "right", "wrong", "zero", "junk"}

VARIABLES
  graph, rows,  \* drawn in the initial state
  strict,       \* --pytorch-sdpa-backend is not the default
  keep,         \* no profiling pass: the reference stays on the device
  r, pc,        \* the row under way and where it is
  own,          \* the buffer manager's map
  replay,       \* ReplayTensors: the timed loop's copy of it
  on,           \* the map being executed on: "own" or "replay"
  mem,
  step, ran,    \* the next node, and the replays begun in this row
  cache,        \* _scalar_cache: UID to the value read on the host
  reads,        \* history: the timed replays that read on the host
  switched,     \* torch's global attention switches differ from the default
  sdpa,         \* [active, native, before]: the strict selection's state
  measured,     \* _measure_row() has returned
  engine,       \* [kind, asked]: the plan, and whether it is the one asked for
  scratch,      \* the workspace
  pending,      \* storages torch's stream has still to zero
  ref,          \* the reference: output UID to storage
  verdict       \* [is, worst]: "none", "error", "match" or "mismatch"

drawn == <<graph, rows, strict, keep>>
tensors == <<own, replay, on, mem>>
replaying == <<step, ran, cache, reads, switched, sdpa>>
planned == <<engine, scratch>>
vars == <<drawn, r, pc, tensors, replaying, measured, planned, pending, ref,
          verdict>>

Row == rows[r]
IsTorch == Row = "pytorch"
IsTorchRow == r <= Len(rows) /\ IsTorch
Tensors == IF on = "own" THEN own ELSE replay
Buffered == Inputs \cup Outputs
Nothing == [u \in {} |-> <<>>]
NoVerdict == [is |-> "none", worst |-> {}]
AnyEngine == [kind |-> "right", asked |-> TRUE]
Idle == [active |-> FALSE, native |-> FALSE, before |-> FALSE]

Storages(f) == {f[u] : u \in DOMAIN f}

\* Python frees a tensor with its last reference.
Alive(m, a, b, c) == [s \in Storages(a) \cup Storages(b) \cup Storages(c) |-> m[s]]

Init ==
  /\ graph \in GraphsRun /\ rows \in Rows
  /\ strict \in BOOLEAN /\ keep \in BOOLEAN
  /\ r = 1 /\ pc = "next"
  /\ own = Nothing /\ replay = Nothing /\ on = "own" /\ mem = Nothing
  /\ step = 1 /\ ran = 0 /\ cache = Nothing /\ reads = {}
  /\ switched = FALSE /\ sdpa = Idle /\ measured = FALSE
  /\ engine = AnyEngine /\ scratch = "none"
  /\ pending = {} /\ ref = Nothing /\ verdict = NoVerdict

Goto(p) == pc' = p
\* An exception leaves the row through the buffer manager's __exit__.
Raise == Goto("cleanup") /\ verdict' = [NoVerdict EXCEPT !.is = "error"]

-----------------------------------------------------------------------------
(* Preparing an executor. *)

StartRow ==
  /\ pc = "next" /\ r <= Len(rows)
  /\ Goto(IF Row = "provider" THEN "provide" ELSE
          IF Row = "rocke" THEN "alloc" ELSE "prepare")
  /\ UNCHANGED <<drawn, r, tensors, replaying, measured, planned, pending, ref,
                 verdict>>

\* PyTorchCudaExecutor.prepare(): every operation needs a handler that
\* accepts the node.
TorchPrepare ==
  /\ pc = "prepare" /\ IsTorch
  /\ \/ SupportsGraph(graph) /\ Goto("alloc") /\ UNCHANGED verdict
     \/ Raise
  /\ UNCHANGED <<drawn, r, tensors, replaying, measured, planned, pending, ref>>

\* compute_reference(): plain tensors of the inputs, one execution.
Provide ==
  /\ pc = "provide"
  /\ \/ /\ SupportsGraph(graph)
        /\ own' = [u \in Inputs |-> <<r, u, 0>>]
        /\ mem' = [s \in {<<r, u, 0>> : u \in Inputs} |-> "data"]
        /\ Goto("begin") /\ measured' = TRUE /\ UNCHANGED verdict
     \/ Raise /\ UNCHANGED <<own, mem, measured>>
  /\ on' = "own"
  /\ UNCHANGED <<drawn, r, replay, replaying, planned, pending, ref>>

\* _check_selected_engine()
SelectedEngine(asked) == asked

\* Executor.prepare(): graph, plan, engine check, workspace.
HipPrepare ==
  /\ pc = "prepare" /\ Row = "hipdnn"
  /\ \/ \E k \in Kinds, asked \in BOOLEAN, w \in {"none", "dirty"} :
          /\ SelectedEngine(asked)
          /\ k = "scratch" => w = "dirty"
          /\ engine' = [kind |-> k, asked |-> asked] /\ scratch' = w
          /\ Goto("alloc") /\ UNCHANGED verdict
     \/ Raise /\ UNCHANGED planned
  /\ UNCHANGED <<drawn, r, tensors, replaying, measured, pending, ref>>

\* RockeExecutor.prepare() binds the kernel to the tensors; the auto kernel
\* is compiled by a first launch.
Launched(kind, w) ==
  [s \in DOMAIN mem |->
     IF s \notin {own[u] : u \in Outputs \cap DOMAIN own} THEN mem[s]
     ELSE IF kind = "silent" THEN mem[s]
     ELSE IF /\ \A u \in Inputs \cap DOMAIN own : mem[own[u]] = "data"
             /\ \/ kind = "right"
                \/ kind = "partial" /\ s = own[CHOOSE u \in Outputs : TRUE]
                \/ kind = "adds" /\ mem[s] = "zero"
                \/ kind = "scratch" /\ w = "zero"
          THEN "right" ELSE "wrong"]

RockePrepare ==
  /\ pc = "bind"
  /\ \/ \E k \in Kinds \ {"scratch"}, auto \in BOOLEAN :
          /\ engine' = [kind |-> k, asked |-> TRUE]
          /\ mem' = IF auto THEN Launched(k, "none") ELSE mem
          /\ Goto("time") /\ UNCHANGED verdict
     \/ Raise /\ UNCHANGED <<engine, mem>>
  /\ UNCHANGED <<drawn, r, own, replay, on, replaying, measured, scratch,
                 pending, ref>>

-----------------------------------------------------------------------------
(* Buffers. *)

\* allocate_all(): memory that was freed may still hold what an earlier row
\* computed, right results too.
Allocate ==
  /\ pc = "alloc"
  /\ \/ \E old \in {"junk", "right"} :
          /\ own' = [u \in Buffered |-> <<r, u, 0>>]
          /\ mem' = [s \in {<<r, u, 0>> : u \in Buffered} \cup DOMAIN mem |->
                       IF s \in DOMAIN mem THEN mem[s]
                       ELSE IF s[2] \in Inputs THEN "junk" ELSE old]
          /\ Goto("load") /\ UNCHANGED verdict
     \/ Raise /\ UNCHANGED <<own, mem>>
  /\ on' = "own"
  /\ UNCHANGED <<drawn, r, replay, replaying, measured, planned, pending, ref>>

\* load_input_data()
Load ==
  /\ pc = "load"
  /\ mem' = [s \in DOMAIN mem |->
               IF \E u \in Inputs : own[u] = s THEN "data" ELSE mem[s]]
  /\ Goto("zero")
  /\ UNCHANGED <<drawn, r, own, replay, on, replaying, measured, planned,
                 pending, ref, verdict>>

\* Torch-backed buffers of a hipDNN row: zero_() runs on torch's stream,
\* hipDNN on the handle's (_hipdnn_buffer_device()).
OtherStream == Row = "hipdnn" /\ keep /\ DOMAIN ref # {}
OutputStorages == {own[u] : u \in Outputs \cap DOMAIN own}

\* zero_outputs(), up to the wait for torch's stream.
ZeroOutputs ==
  /\ pc = "zero"
  /\ IF OtherStream
       THEN pending' = OutputStorages /\ mem' = mem
       ELSE /\ mem' = [s \in DOMAIN mem |->
                         IF s \in OutputStorages THEN "zero" ELSE mem[s]]
            /\ pending' = pending
  /\ Goto("sync")
  /\ UNCHANGED <<drawn, r, own, replay, on, replaying, measured, planned,
                 ref, verdict>>

\* The GPU reaches the fill.
ZeroLands ==
  /\ pending # {}
  /\ mem' = [s \in DOMAIN mem |-> IF s \in pending THEN "zero" ELSE mem[s]]
  /\ pending' = {}
  /\ UNCHANGED <<drawn, r, pc, own, replay, on, replaying, measured, planned,
                 ref, verdict>>

StreamIdle == pending = {}

Zeroed ==
  /\ pc = "sync" /\ StreamIdle
  /\ Goto(IF ~measured THEN (IF Row = "rocke" THEN "bind" ELSE "time")
          ELSE IF IsTorch THEN "begin" ELSE "once")
  /\ on' = "own"
  /\ UNCHANGED <<drawn, r, own, replay, mem, replaying, measured, planned,
                 pending, ref, verdict>>

-----------------------------------------------------------------------------
(* Replaying a compiled graph. *)

\* PyTorchCudaExecutor.benchmark(): ReplayTensors copies the map.
TorchBenchmark ==
  /\ pc = "time" /\ IsTorch
  /\ replay' = own /\ on' = "replay" /\ Goto("begin")
  /\ UNCHANGED <<drawn, r, own, mem, replaying, measured, planned, pending,
                 ref, verdict>>

\* use_pytorch_sdpa_backend() on entry.
BeginReplay ==
  /\ pc = "begin"
  /\ sdpa' = [active |-> TRUE, native |-> FALSE, before |-> sdpa.native]
  /\ step' = 1 /\ ran' = ran + 1
  /\ Goto("op")
  /\ UNCHANGED <<drawn, r, tensors, cache, reads, switched, measured, planned,
                 pending, ref, verdict>>

Node == graph[step]
AtOp == pc = "op" /\ step <= Len(graph)

\* _tensor(): a tensor that is not in the map is a ValueError.  A scalar that
\* was read before is served from the cache.
Cached(u) == on = "replay" /\ Node.op = "scalar" /\ u \in DOMAIN cache
Finds == \A u \in ReadUids(Node) : u \in DOMAIN Tensors \/ Cached(u)
Value(u) == IF Cached(u) THEN cache[u] ELSE mem[Tensors[u]]
Result == IF \A u \in ReadUids(Node) : Value(u) \in {"data", "right"}
            THEN "right" ELSE "wrong"

\* _store_tensor() replaces the entry of the map it was given.
StoredIn(map, name) == on = name

\* The map after the node's store and, at its last use, the release.
Next_(map, s) ==
  [u \in (DOMAIN map \cup {Node.out}) \ VirtualReleases(graph)[step] |->
     IF u = Node.out THEN s ELSE map[u]]

NewStorage == <<r, Node.out, ran>>
Store(s) ==
  LET a == IF StoredIn(own, "own") THEN Next_(own, s) ELSE own
      b == IF StoredIn(replay, "replay") THEN Next_(replay, s) ELSE replay
      m == [x \in DOMAIN mem \cup {s} |->
              IF x = NewStorage THEN Result ELSE mem[x]]
  IN  own' = a /\ replay' = b /\ mem' = Alive(m, a, b, ref)

\* CompiledGraph.execute(): one node.  A view shares what it reads.
RunOp ==
  /\ AtOp /\ Finds /\ Node.op \in {"plain", "view"}
  /\ IF Node.op = "view"
       THEN \E u \in ReadUids(Node) : Store(Tensors[u])
       ELSE Store(NewStorage)
  /\ step' = step + 1
  /\ UNCHANGED <<drawn, r, pc, on, ran, cache, reads, switched, sdpa, measured,
                 planned, pending, ref, verdict>>

\* Seeded bug: the value is read again in every replay.
Memoised_never == cache

\* _scalar_value(): memoised in a ReplayTensors, read each time in a dict.
Memoised == [u \in DOMAIN cache \cup ReadUids(Node) |-> Value(u)]

RunScalarOp ==
  /\ AtOp /\ Finds /\ Node.op = "scalar"
  /\ Store(NewStorage)
  /\ cache' = IF on = "replay" THEN Memoised ELSE cache
  /\ reads' = IF on = "replay" /\ \E u \in ReadUids(Node) : ~Cached(u)
                THEN reads \cup {ran} ELSE reads
  /\ step' = step + 1
  /\ UNCHANGED <<drawn, r, pc, on, ran, switched, sdpa, measured, planned,
                 pending, ref, verdict>>

Selected == sdpa.active /\ strict

\* execute_selected_sdpa(): under a strict selection the switches are set.
SdpaEnter ==
  /\ AtOp /\ Finds /\ Node.op = "sdpa"
  /\ switched' = Selected
  /\ Goto("sdpa")
  /\ UNCHANGED <<drawn, r, tensors, step, ran, cache, reads, sdpa, measured,
                 planned, pending, ref, verdict>>

\* Seeded bug: the switches are put back only after a call that succeeded.
AfterCall_success_only(ok) == IF ok THEN FALSE ELSE switched

\* The context managers restore the switches, whatever the call did.
AfterCall(ok) == FALSE

SdpaReturn ==
  /\ pc = "sdpa"
  /\ \E ok \in BOOLEAN :
       /\ switched' = AfterCall(ok)
       /\ IF ok
            THEN /\ Store(NewStorage) /\ Goto("op") /\ step' = step + 1
                 /\ sdpa' = [sdpa EXCEPT !.native = @ \/ Selected]
                 /\ UNCHANGED verdict
            ELSE /\ Goto("unwind")
                 /\ UNCHANGED <<own, replay, mem, step, sdpa, verdict>>
  /\ UNCHANGED <<drawn, r, on, ran, cache, reads, measured, planned, pending,
                 ref>>

\* A handler fails, or does not find a tensor.
OpFails ==
  /\ AtOp
  /\ Goto("unwind")
  /\ UNCHANGED <<drawn, r, tensors, replaying, measured, planned, pending, ref,
                 verdict>>

\* A strict selection must have run a native attention call.
Honoured == strict => sdpa.native

Accumulated == [sdpa EXCEPT !.active = FALSE, !.native = @ \/ sdpa.before]

EndReplay ==
  /\ pc = "op" /\ step > Len(graph)
  /\ IF Honoured
       THEN /\ sdpa' = Accumulated
            /\ Goto(IF measured THEN "collect"
                    ELSE IF ran < Replays THEN "begin" ELSE "measured")
       ELSE sdpa' = sdpa /\ Goto("unwind")
  /\ UNCHANGED <<drawn, r, tensors, step, ran, cache, reads, switched,
                 measured, planned, pending, ref, verdict>>

\* The finally of use_pytorch_sdpa_backend(), then out of the row.
Unwind ==
  /\ pc = "unwind"
  /\ sdpa' = Accumulated /\ Raise
  /\ UNCHANGED <<drawn, r, tensors, step, ran, cache, reads, switched,
                 measured, planned, pending, ref>>

\* The timed loop returns: its copy of the map is gone.
Measured ==
  /\ pc = "measured"
  /\ measured' = TRUE /\ replay' = Nothing /\ on' = "own"
  /\ mem' = Alive(mem, own, Nothing, ref)
  /\ Goto("zero")
  /\ UNCHANGED <<drawn, r, own, replaying, planned, pending, ref, verdict>>

\* _pytorch_reference_outputs_from_buffer(), compute_reference(): outputs
\* stay on the device as they are, or are copied to the host.
Collect ==
  /\ pc = "collect"
  /\ LET at == [u \in Outputs \cap DOMAIN own |-> IF keep THEN own[u] ELSE <<0, u, 0>>]
     IN  /\ ref' = at
         /\ mem' = [s \in DOMAIN mem \cup {at[u] : u \in DOMAIN at} |->
                      IF s \in DOMAIN mem THEN mem[s] ELSE mem[own[s[2]]]]
  /\ Goto("cleanup")
  /\ UNCHANGED <<drawn, r, own, replay, on, replaying, measured, planned,
                 pending, verdict>>

-----------------------------------------------------------------------------
(* Running an engine and comparing its outputs. *)

\* enqueue() of a hipDNN plan or a rocKE kernel, in the timed loop: neither
\* the outputs nor the workspace are reset between two.
Enqueue ==
  /\ pc = "time" /\ ~IsTorch
  /\ mem' = Launched(engine.kind, scratch)
  /\ scratch' = IF scratch = "zero" THEN "dirty" ELSE scratch
  /\ ran' = ran + 1
  /\ Goto(IF ran + 1 = Replays THEN "measured" ELSE "time")
  /\ UNCHANGED <<drawn, r, own, replay, on, step, cache, reads, switched, sdpa,
                 measured, engine, pending, ref, verdict>>

EnqueueFails ==
  /\ pc \in {"time", "once"} /\ ~IsTorch /\ Raise
  /\ UNCHANGED <<drawn, r, tensors, replaying, measured, planned, pending, ref>>

\* Seeded bug: execute_once() leaves the workspace as it is.
Workspace_kept(w) == w

\* The workspace execute_once() runs with.
Workspace(w) == IF Row = "hipdnn" /\ w = "dirty" THEN "zero" ELSE w

\* execute_once(): workspace zeroed, one launch, wait.
ExecuteOnce ==
  /\ pc = "once"
  /\ mem' = Launched(engine.kind, Workspace(scratch))
  /\ scratch' = IF scratch = "none" THEN "none" ELSE "dirty"
  /\ Goto("compare")
  /\ UNCHANGED <<drawn, r, own, replay, on, replaying, measured, engine,
                 pending, ref, verdict>>

\* compare() of one output: a failing element makes it fail; the largest
\* difference of a passing output can exceed that of a failing one.
Passes(u) ==
  u \in DOMAIN ref /\ {mem[own[u]], mem[ref[u]]} \subseteq {"right", "data"}
Differences(u) == IF Passes(u) THEN {0, 2} ELSE {1, 3}

\* max() over (not passed, max_abs_diff); the first of equals.
WorseThan(a, b) ==
  \/ ~a.passed /\ b.passed
  \/ a.passed = b.passed /\ a.diff > b.diff

\* compare() overwrites a block of the reference only if it converted it.
ReferenceAfter(u) == mem[ref[u]]

\* Every output is compared, and the verdicts combined.
Judge ==
  /\ \E d \in [Outputs -> 0..3] :
       /\ \A u \in Outputs : d[u] \in Differences(u)
       /\ LET c(u) == [passed |-> Passes(u), diff |-> d[u]]
          IN  \E w \in Outputs :
                /\ \A u \in Outputs : ~WorseThan(c(u), c(w))
                /\ verdict' = [is |-> IF \A u \in Outputs : Passes(u)
                                       THEN "match" ELSE "mismatch",
                               worst |-> {w}]
  /\ mem' = [s \in DOMAIN mem |->
               IF \E u \in Outputs : ref[u] = s
                 THEN ReferenceAfter(CHOOSE u \in Outputs : ref[u] = s)
                 ELSE mem[s]]

\* check_correctness().  With no reference for an output, or where reading or
\* comparing one raises, there is a mismatch that names no output.
Compare ==
  /\ pc = "compare"
  /\ \/ DOMAIN ref # {} /\ Outputs \subseteq DOMAIN ref /\ Judge
     \/ verdict' = [is |-> "mismatch", worst |-> {}] /\ mem' = mem
  /\ Goto("cleanup")
  /\ UNCHANGED <<drawn, r, own, replay, on, replaying, measured, planned,
                 pending, ref>>

\* cleanup() of the buffer manager: only what the reference keeps is left.
Freed(m) == Alive(m, Nothing, Nothing, ref)

\* __exit__ of the buffer manager.  What the row kept to itself is gone.
Cleanup ==
  /\ pc = "cleanup"
  /\ own' = Nothing /\ replay' = Nothing /\ on' = "own"
  /\ mem' = Freed(mem)
  /\ r' = r + 1 /\ Goto("next") /\ pending' = {}
  /\ step' = 1 /\ ran' = 0 /\ cache' = Nothing /\ reads' = {} /\ sdpa' = Idle
  /\ engine' = AnyEngine /\ scratch' = "none"
  /\ measured' = FALSE /\ verdict' = NoVerdict
  /\ UNCHANGED <<drawn, switched, ref>>

Finished ==
  /\ pc = "next" /\ r > Len(rows)
  /\ UNCHANGED vars

Next ==
  \/ StartRow \/ TorchPrepare \/ Provide \/ HipPrepare \/ RockePrepare
  \/ Allocate \/ Load \/ ZeroOutputs \/ ZeroLands \/ Zeroed
  \/ TorchBenchmark \/ BeginReplay \/ RunOp \/ RunScalarOp \/ SdpaEnter
  \/ SdpaReturn \/ OpFails \/ EndReplay \/ Unwind \/ Measured \/ Collect
  \/ Enqueue \/ EnqueueFails \/ ExecuteOnce \/ Compare \/ Cleanup \/ Finished

Spec == Init /\ [][Next]_vars

-----------------------------------------------------------------------------
(* Properties. *)

Judged == pc = "cleanup" /\ verdict.is \in {"match", "mismatch"}

\* The verdict of an engine row says what one execution of the engine that
\* was asked for does from zeroed outputs and a zeroed workspace, whatever the
\* timed loop, earlier rows or freed memory left behind: a match only if that
\* is right, a mismatch that names an output only if it is wrong, and that
\* output is.  A mismatch that names none says that the comparison failed.
\* (_validate_row(), zero_outputs(), Executor.execute_once(), check_correctness())
VerdictTrue ==
  Judged /\ Outputs \subseteq DOMAIN ref =>
    /\ engine.asked
    /\ verdict.is = "match" => engine.kind \in Correct
    /\ verdict.is = "mismatch" /\ verdict.worst # {} =>
         engine.kind \notin Correct /\ \A u \in verdict.worst : ~Passes(u)

\* Every replay of a graph finds its tensors, although each drops the
\* virtual tensors after their last use and stores over the outputs.
\* (_virtual_releases(), CompiledGraph.execute(), _store_tensor())
NeverMissing == AtOp => Finds

\* Between two nodes only tensors that a later node names are kept: peak
\* memory is the live intermediates; between two rows only what the reference
\* keeps.  (CompiledGraph.execute(), cleanup())
OnlyLive ==
  /\ pc = "op" =>
       \A u \in Virtuals \cap DOMAIN Tensors :
         \E j \in step..Len(graph) : u \in ReferencedUids(graph[j])
  /\ pc = "next" => DOMAIN mem = Storages(ref)

\* Only the first replay of a timed loop waits for the device to read a
\* value: the later ones run behind a closed stall gate, where such a wait
\* would never end.  (ReplayTensors, _scalar_value())
OnlyPrimingReads == reads \subseteq {1}

\* torch's process-wide attention switches differ from the default only
\* inside a selected call, and a strict row that was timed did run one.
\* (execute_selected_sdpa(), use_pytorch_sdpa_backend())
StrictIsScoped ==
  /\ switched => pc = "sdpa"
  /\ sdpa.active => pc \in {"op", "sdpa", "unwind"}
  /\ measured /\ IsTorchRow /\ strict => \E i \in DOMAIN graph : graph[i].op = "sdpa"
=============================================================================
