----------------------------- MODULE MeasureLoop -----------------------------
(***************************************************************************)
(* execution/timing.py: measure() and _measure_blocks(), the one timed     *)
(* loop every executor runs.  One action per enqueue, flush or decision of *)
(* the code; a GPU operation that the host waits for is part of the action *)
(* that waits.  The stall gate's own protocol is module StallGate: here a  *)
(* staged iteration gives a sample or a StallFallbackError.                *)
(*                                                                         *)
(* A definition X_suffix just before X is a seeded bug: a mutation run     *)
(* puts it in the place of X and must then find a property violated.       *)
(***************************************************************************)
EXTENDS Integers

CONSTANTS Policies,   \* the TimingPolicy values measure() is called with
          Elapsed     \* device times (ms) one sample may take

(* TimingPolicy: the fields the loop reads, as __post_init__ admits them.  *)
Policy == { p \in [warmup_iters : Nat, iters : Nat \ {0}, min_time_ms : Nat,
                   max_iters : Nat, cold : BOOLEAN,
                   timing_block : Nat \ {0}, stall_gate : BOOLEAN] :
              /\ p.max_iters >= p.iters
              /\ p.timing_block > 1 => ~p.cold }

ASSUME PolicyAssumption == Policies \subseteq Policy
ASSUME ElapsedAssumption == Elapsed \subseteq Nat

(* What measure() is given besides the policy, and what it finds: the      *)
(* timer, whether a torch stream was passed, whether the enqueue makes     *)
(* torch's sync-debug mode raise, and what the HIP runtime offers.         *)
Env == { e \in [timer : {"hip", "torch"}, torch_stream : BOOLEAN,
                syncs : BOOLEAN, gate : {"usable", "unavailable", "ctor_raises"}] :
           /\ e.timer = "torch" => e.torch_stream
           /\ e.syncs => e.torch_stream }

VARIABLES
  policy, env,    \* the call's arguments and surroundings; they never change
  pc,             \* where the call is
  primed,         \* untimed enqueues so far (measure's primed, the blocks' untimed)
  reason,         \* why staging is not used: "none", "host_sync", "unavailable"
  staged,         \* is there a StalledRegionTimer?
  warmed,         \* iterations of the warmup for-loop already run, counted from primed
  samples, total, \* len(kernel_ms) and total_ms
  capped,         \* the flag of Measurement
  discard_first,  \* _measure_blocks' flag
  debug,          \* torch's sync-debug mode: "default" or "error"
  \* history: what happened on the device, and why the call failed
  runs,           \* enqueues submitted, timed or not
  timed,          \* those inside an event pair that became a sample or a discarded block
  idle, flushed,  \* device drained; caches evicted since the last enqueue
  genuine         \* an enqueue or an allocation really failed

vars == <<policy, env, pc, primed, reason, staged, warmed, samples, total, capped,
          discard_first, debug, runs, timed, idle, flushed, genuine>>
config  == <<policy, env>>
counts  == <<samples, total, capped, discard_first, timed>>
device  == <<runs, idle, flushed>>

Returned == {"measured"}
Raised   == {"fallback", "error"}

Init ==
  /\ policy \in Policies
  /\ env \in Env
  /\ pc = "prime"
  /\ primed = 0 /\ warmed = 0 /\ runs = 0 /\ timed = 0
  /\ reason = "none" /\ staged = FALSE
  /\ samples = 0 /\ total = 0 /\ capped = FALSE /\ discard_first = TRUE
  /\ debug = "default"
  /\ idle = TRUE /\ flushed = FALSE /\ genuine = FALSE

-----------------------------------------------------------------------------
(* Priming.                                                                *)

(* Any enqueue or flush may raise: the exception leaves measure().         *)
Fail ==
  /\ pc \in {"prime", "rerun", "flush", "run", "block"}
  /\ pc' = "error"
  /\ genuine' = TRUE
  /\ runs' = IF pc = "flush" THEN runs ELSE runs + 1
  /\ idle' = FALSE
  /\ UNCHANGED <<config, primed, reason, staged, warmed, counts, debug, flushed>>

(* first_call_ms: one enqueue, then a device sync.                         *)
Prime ==
  /\ pc = "prime"
  /\ pc' = IF env.torch_stream THEN "probe" ELSE "select"
  /\ primed' = 1
  /\ runs' = runs + 1 /\ idle' = TRUE /\ flushed' = FALSE
  /\ UNCHANGED <<config, reason, staged, warmed, counts, debug, genuine>>

(* The debug mode the probe leaves behind (its finally clause), which is    *)
(* also the mode its unchecked rerun runs under.                           *)
NextDebugMode_rerun_checked == "error"
NextDebugMode == "default"

(* The device is drained once priming is over, not between its enqueues.   *)
Drained(next) == next = "select"

(* _probe_host_sync: one enqueue under the "error" mode.  It raises when    *)
(* the work synchronizes, and also when it fails for another reason.        *)
Probe ==
  /\ pc = "probe"
  /\ runs' = runs + 1 /\ flushed' = FALSE
  /\ \/ /\ ~env.syncs
        /\ pc' = "select" /\ reason' = "none" /\ primed' = primed + 1
        /\ debug' = "default"
     \/ /\ pc' = "rerun" /\ reason' = "host_sync" /\ primed' = primed
        /\ debug' = NextDebugMode
  /\ idle' = Drained(pc')
  /\ UNCHANGED <<config, staged, warmed, counts, genuine>>

(* A detected sync costs a second, unchecked enqueue.                      *)
RerunCost_one == 1
RerunCost == 2

Rerun ==
  /\ pc = "rerun"
  /\ runs' = runs + 1 /\ flushed' = FALSE
  /\ IF debug = "error" /\ env.syncs
     THEN pc' = "error" /\ primed' = primed
     ELSE pc' = "select" /\ primed' = primed + RerunCost
  /\ idle' = Drained(pc')
  /\ debug' = "default"
  /\ UNCHANGED <<config, reason, staged, warmed, counts, genuine>>

-----------------------------------------------------------------------------
(* Choosing the mode.                                                      *)

Blocks == policy.timing_block > 1

GateReason ==
  IF \/ env.timer # "hip"
     \/ ~policy.stall_gate
     \/ env.gate = "unavailable"
  THEN "unavailable" ELSE "none"

StagingReason_ignores_probe == GateReason
StagingReason == IF reason = "none" THEN GateReason ELSE reason

SelectMode ==
  /\ pc = "select"
  /\ IF Blocks
     THEN pc' = "loop" /\ UNCHANGED <<reason, staged>>
     ELSE /\ reason' = StagingReason
          /\ IF StagingReason = "none"
             THEN IF env.gate = "ctor_raises"
                  THEN pc' = "fallback" /\ staged' = FALSE
                  ELSE pc' = "warmup" /\ staged' = TRUE
             ELSE pc' = "warmup" /\ staged' = FALSE
  /\ UNCHANGED <<config, primed, warmed, counts, debug, device, genuine>>

-----------------------------------------------------------------------------
(* Iterations: the same path for warmups and for timed samples.            *)

Timing == primed + warmed >= policy.warmup_iters   \* the warmup loop is over

NeedsFlush_timed_only == policy.cold /\ Timing
NeedsFlush == policy.cold

Iterate == IF NeedsFlush THEN "flush" ELSE "run"

Warmup ==
  /\ pc = "warmup"
  /\ IF Timing THEN pc' = "loop" ELSE pc' = Iterate
  /\ UNCHANGED <<config, primed, reason, staged, warmed, counts, debug, device, genuine>>

(* _flush_cache: zero the buffer, then drain the device.                   *)
Flush ==
  /\ pc = "flush"
  /\ pc' = "run"
  /\ idle' = TRUE /\ flushed' = TRUE
  /\ UNCHANGED <<config, primed, reason, staged, warmed, counts, debug, runs, genuine>>

Unmet_count_only(n, t) == n < policy.iters
Unmet(n, t) == n < policy.iters \/ t < policy.min_time_ms

(* iteration(): one sample on the timed path, or StallFallbackError.        *)
(* elapsed_ms and the staged timer both wait for the stop event.           *)
Run ==
  /\ pc = "run"
  /\ runs' = runs + 1 /\ flushed' = FALSE /\ idle' = TRUE
  /\ \/ /\ ~Timing
        /\ warmed' = warmed + 1
        /\ pc' = "warmup"
        /\ UNCHANGED counts
     \/ /\ Timing
        /\ samples' = samples + 1
        /\ \E e \in Elapsed : total' = total + e
        /\ timed' = timed + 1
        /\ pc' = "loop"
        /\ UNCHANGED <<warmed, capped, discard_first>>
  /\ UNCHANGED <<config, primed, reason, staged, debug, genuine>>

StallFallback ==
  /\ pc = "run" /\ staged
  /\ pc' = "fallback"
  /\ runs' = runs + 1 /\ idle' = FALSE
  /\ UNCHANGED <<config, primed, reason, staged, warmed, counts, debug, flushed, genuine>>

(* The head of either while loop: stop, stop capped, or one more sample.   *)
AtCap(n) == n >= policy.max_iters

Loop ==
  /\ pc = "loop"
  /\ IF Unmet(samples, total)
     THEN IF AtCap(samples)
          THEN pc' = "measured" /\ capped' = TRUE
          ELSE pc' = (IF Blocks THEN "block" ELSE Iterate) /\ UNCHANGED capped
     ELSE pc' = "measured" /\ UNCHANGED capped
  /\ UNCHANGED <<config, primed, reason, staged, warmed, samples, total,
                 discard_first, timed, debug, device, genuine>>

(* The discard flag after a block.                                         *)
DiscardNext_never_cleared == discard_first
DiscardNext == FALSE

(* One round of _measure_blocks: untimed executions, drain, a timed block. *)
Block ==
  /\ pc = "block"
  /\ pc' = "loop"
  /\ primed' = primed + policy.warmup_iters
  /\ runs' = runs + policy.warmup_iters + policy.timing_block
  /\ timed' = timed + policy.timing_block
  /\ discard_first' = DiscardNext
  /\ IF discard_first
     THEN UNCHANGED <<samples, total>>
     ELSE samples' = samples + 1 /\ \E e \in Elapsed : total' = total + e
  /\ idle' = TRUE /\ flushed' = FALSE
  /\ UNCHANGED <<config, reason, staged, warmed, capped, debug, genuine>>

Done == pc \in Returned \cup Raised /\ UNCHANGED vars

Next == \/ Prime \/ Probe \/ Rerun \/ SelectMode
        \/ Warmup \/ Flush \/ Run \/ StallFallback \/ Loop \/ Block
        \/ Fail \/ Done

Spec == Init /\ [][Next]_vars

-----------------------------------------------------------------------------
(* Properties.                                                             *)

CountersOK ==
  /\ policy \in Policies /\ env \in Env
  /\ pc \in {"prime", "probe", "rerun", "select", "warmup", "flush", "run",
             "loop", "block", "measured", "fallback", "error"}
  /\ primed \in Nat /\ warmed \in Nat /\ runs \in Nat /\ timed \in Nat
  /\ reason \in {"none", "host_sync", "unavailable"}
  /\ samples \in Nat /\ total \in Nat
  /\ debug \in {"default", "error"}

FlagsOK ==
  /\ staged \in BOOLEAN /\ capped \in BOOLEAN /\ discard_first \in BOOLEAN
  /\ idle \in BOOLEAN /\ flushed \in BOOLEAN /\ genuine \in BOOLEAN

TypeOK == CountersOK /\ FlagsOK

(* Measurement.warmup_iters, computed after the loop.                      *)
ReportedWarmup ==
  IF Blocks \/ primed > policy.warmup_iters THEN primed ELSE policy.warmup_iters

(* The warmup count a result reports is the number of untimed enqueues     *)
(* that really ran: priming, the probe and its rerun, the warmup loop, and *)
(* in block mode the untimed executions before every sample, the discarded *)
(* one included.                                                           *)
WarmupCountHonest ==
  pc = "measured" => ReportedWarmup = runs - timed

(* In cold mode every warmup and every timed enqueue starts on evicted     *)
(* caches and a drained device: a flush stands between it and the enqueue  *)
(* before it.                                                              *)
ColdRuns == pc = "run" /\ policy.cold => flushed /\ idle

(* The stall gate is armed only on an idle device, which its caller owes   *)
(* it: otherwise the start event waits for foreign work.                   *)
StagedStartsIdle == pc = "run" /\ staged => idle

(* Nothing that synchronizes with the host as far as the probe can tell,   *)
(* and nothing of a graph whose gate failed before, runs behind the gate.  *)
StagedOnlyIfSafe ==
  staged => ~env.syncs /\ reason = "none" /\ env.timer = "hip" /\ policy.stall_gate

(* A loop told not to stall never asks to be remeasured: the suite runner  *)
(* remeasures a graph once, with stall_gate off, and has no answer to a    *)
(* second StallFallbackError.                                              *)
NoFallbackUnstalled == pc = "fallback" => policy.stall_gate

(* Looking for host synchronization never fails a measurement: when an     *)
(* error leaves measure(), an enqueue or an allocation failed on its own.  *)
ProbeIsHarmless == pc = "error" => genuine

(* The loop ends: the work it submits is bounded by the policy.            *)
WorkBounded ==
  /\ ~Blocks => runs <= 4 + policy.warmup_iters + policy.max_iters
  /\ Blocks  => runs <= 4 + (policy.warmup_iters + policy.timing_block)
                            * (policy.max_iters + 1)

(* Either loop keeps SampleBudget's promise.                               *)
Status == CASE pc = "measured" -> (IF capped THEN "capped" ELSE "met")
            [] pc \in Raised   -> "failed"
            [] OTHER           -> "sampling"

Budget == INSTANCE SampleBudget WITH status <- Status

BudgetKept == Budget!Spec
=============================================================================
