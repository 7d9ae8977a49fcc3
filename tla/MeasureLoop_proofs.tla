-------------------------- MODULE MeasureLoop_proofs --------------------------
(***************************************************************************)
(* MeasureLoop's invariants and its refinement of SampleBudget, proved for *)
(* every set of policies and every set of device times.                    *)
(***************************************************************************)
EXTENDS MeasureLoop, TLAPS

LEMMA PolicyFields ==
  ASSUME policy \in Policies
  PROVE  /\ policy.warmup_iters \in Nat
         /\ policy.iters \in Nat /\ policy.iters > 0
         /\ policy.min_time_ms \in Nat
         /\ policy.max_iters \in Nat /\ policy.max_iters >= policy.iters
         /\ policy.timing_block \in Nat /\ policy.timing_block > 0
         /\ policy.timing_block > 1 => ~policy.cold
BY PolicyAssumption DEF Policy

(* Every variable keeps its type.                                          *)
THEOREM TypeCorrect == Spec => []TypeOK
<1> USE DEF TypeOK, config, counts, device
<1>1. Init => TypeOK
  <2> SUFFICES ASSUME Init PROVE TypeOK
    OBVIOUS
  <2>1. CountersOK
    BY DEF Init, CountersOK
  <2>2. FlagsOK
    BY Zenon DEF Init, FlagsOK
  <2> QED
    BY <2>1, <2>2
<1>2. ASSUME TypeOK, [Next]_vars PROVE CountersOK'
  <2> USE <1>2 DEF CountersOK
  <2>0. policy \in Policies
    OBVIOUS
  <2>1. CASE Prime           BY <2>1 DEF Prime
  <2>2. CASE Probe           BY <2>2 DEF Probe, NextDebugMode
  <2>3. CASE Rerun           BY <2>3 DEF Rerun, RerunCost
  <2>4. CASE SelectMode      BY <2>4 DEF SelectMode, StagingReason, GateReason
  <2>5. CASE Warmup          BY <2>5 DEF Warmup, Iterate
  <2>6. CASE Flush           BY <2>6 DEF Flush
  <2>7. CASE Run             BY <2>7, ElapsedAssumption DEF Run
  <2>8. CASE StallFallback   BY <2>8 DEF StallFallback
  <2>9. CASE Loop            BY <2>9 DEF Loop, Iterate
  <2>10. CASE Block          BY <2>0, <2>10, PolicyFields, ElapsedAssumption DEF Block
  <2>11. CASE Fail           BY <2>11 DEF Fail
  <2>12. CASE UNCHANGED vars BY <2>12 DEF vars
  <2> QED
    BY <2>1, <2>2, <2>3, <2>4, <2>5, <2>6, <2>7, <2>8, <2>9, <2>10, <2>11,
       <2>12 DEF Next, Done
<1>3. ASSUME TypeOK, [Next]_vars PROVE FlagsOK'
  BY <1>3, Zenon DEF FlagsOK, Next, vars, Prime, Probe, Drained, Rerun, SelectMode,
    Warmup, Flush, Run, StallFallback, Loop, Block, DiscardNext, Fail, Done
<1> QED
  BY <1>1, <1>2, <1>3, PTL DEF Spec

-----------------------------------------------------------------------------
(* The inductive invariant, in named parts.                                *)

(* Which counters are still zero, and which phases belong to which loop.   *)
Phases ==
  /\ pc = "prime" => primed = 0 /\ runs = 0
  /\ pc \in {"prime", "probe"} => reason = "none"
  /\ pc = "rerun" => reason = "host_sync"
  /\ pc \in {"prime", "probe", "rerun", "select"} => warmed = 0 /\ timed = 0 /\ ~staged
  /\ pc \in {"prime", "probe", "rerun", "select", "warmup"} => samples = 0 /\ total = 0
  /\ pc \in {"flush", "run"} /\ ~Timing => samples = 0 /\ total = 0
  /\ pc \in {"warmup", "flush", "run"} => ~Blocks
  /\ pc = "block" => Blocks
  /\ debug = "default"

(* Every enqueue is primed, warmed or timed, and the warmup loop stops at  *)
(* warmup_iters; between iterations the device is idle.                    *)
Accounting ==
  /\ pc = "rerun" => runs = primed + 1
  /\ pc \notin {"rerun", "fallback", "error"} => runs = primed + warmed + timed
  /\ Blocks => warmed = 0
  /\ warmed > 0 => primed + warmed <= policy.warmup_iters
  /\ pc \in {"loop", "measured"} => Blocks \/ Timing
  /\ pc \in {"probe", "select", "warmup", "flush", "run", "loop", "block"} => idle

(* A sample is taken only while the budget is unmet and the cap not hit.   *)
Sampling ==
  /\ pc \in {"flush", "run", "block"} /\ (Timing \/ Blocks)
       => Unmet(samples, total) /\ ~AtCap(samples)
  /\ capped => pc = "measured"
  /\ pc = "measured" => (capped <=> Unmet(samples, total))
  /\ pc = "measured" /\ capped => AtCap(samples)

(* The probe's verdict, and what a stall gate needs.                       *)
Gated ==
  /\ pc \in {"select", "warmup", "flush", "run", "loop", "block"} /\ reason = "none"
       => ~env.syncs
  /\ StagedOnlyIfSafe
  /\ NoFallbackUnstalled
  /\ ProbeIsHarmless
  /\ ColdRuns

IInv == CountersOK /\ Phases /\ Accounting /\ Sampling /\ Gated

LEMMA InitIInv == Init => IInv
BY DEF Init, IInv, CountersOK, Phases, Accounting, Sampling, Gated, StagedOnlyIfSafe,
       NoFallbackUnstalled, ProbeIsHarmless, ColdRuns

LEMMA PhasesStep == IInv /\ Next => Phases'
<1> SUFFICES ASSUME IInv, Next PROVE Phases'
  OBVIOUS
<1> USE DEF IInv, CountersOK, Phases, Accounting, Blocks, Timing, config, counts, device
<1>0. policy \in Policies /\ policy' = policy
  BY DEF Next, Prime, Probe, Rerun, SelectMode, Warmup, Flush, Run, StallFallback,
         Loop, Block, Fail, Done, vars
<1>1. CASE Prime  BY <1>0, <1>1, PolicyFields, ElapsedAssumption DEF Prime
<1>2. CASE Probe  BY <1>0, <1>2, PolicyFields, ElapsedAssumption DEF Probe, NextDebugMode, Drained
<1>3. CASE Rerun  BY <1>0, <1>3, PolicyFields, ElapsedAssumption DEF Rerun, RerunCost, Drained
<1>4. CASE SelectMode
    BY <1>0, <1>4, PolicyFields, ElapsedAssumption DEF SelectMode, StagingReason, GateReason
<1>5. CASE Warmup  BY <1>0, <1>5, PolicyFields, ElapsedAssumption DEF Warmup, Iterate, NeedsFlush
<1>6. CASE Flush  BY <1>0, <1>6, PolicyFields, ElapsedAssumption DEF Flush
<1>7. CASE Run  BY <1>0, <1>7, PolicyFields, ElapsedAssumption DEF Run
<1>8. CASE StallFallback  BY <1>0, <1>8, PolicyFields, ElapsedAssumption DEF StallFallback
<1>9. CASE Loop  BY <1>0, <1>9, PolicyFields, ElapsedAssumption DEF Loop, Iterate, NeedsFlush
<1>10. CASE Block  BY <1>0, <1>10, PolicyFields, ElapsedAssumption DEF Block, DiscardNext
<1>11. CASE Fail  BY <1>0, <1>11, PolicyFields, ElapsedAssumption DEF Fail
<1>12. CASE Done  BY <1>12 DEF Done, vars
<1> QED
  BY <1>1, <1>2, <1>3, <1>4, <1>5, <1>6, <1>7, <1>8, <1>9, <1>10, <1>11, <1>12 DEF Next

LEMMA AccountingStep == IInv /\ Next => Accounting'
<1> SUFFICES ASSUME IInv, Next PROVE Accounting'
  OBVIOUS
<1> USE DEF IInv, CountersOK, Phases, Accounting, Blocks, Timing, config, counts, device
<1>0. policy \in Policies /\ policy' = policy
  BY DEF Next, Prime, Probe, Rerun, SelectMode, Warmup, Flush, Run, StallFallback,
         Loop, Block, Fail, Done, vars
<1>1. CASE Prime  BY <1>0, <1>1, PolicyFields, ElapsedAssumption DEF Prime
<1>2. CASE Probe
  <2>1. pc' = "select" => idle'
    BY <1>2, Zenon DEF Probe, Drained
  <2> QED
    BY <1>0, <1>2, <2>1 DEF Probe
<1>3. CASE Rerun
  <2>1. pc' = "select" => idle'
    BY <1>3, Zenon DEF Rerun, Drained
  <2> QED
    BY <1>0, <1>3, <2>1 DEF Rerun, RerunCost
<1>4. CASE SelectMode
    BY <1>0, <1>4, PolicyFields, ElapsedAssumption DEF SelectMode, StagingReason, GateReason
<1>5. CASE Warmup  BY <1>0, <1>5, PolicyFields, ElapsedAssumption DEF Warmup, Iterate, NeedsFlush
<1>6. CASE Flush  BY <1>0, <1>6, PolicyFields, ElapsedAssumption DEF Flush
<1>7. CASE Run  BY <1>0, <1>7, PolicyFields, ElapsedAssumption DEF Run
<1>8. CASE StallFallback  BY <1>0, <1>8, PolicyFields, ElapsedAssumption DEF StallFallback
<1>9. CASE Loop  BY <1>0, <1>9, PolicyFields, ElapsedAssumption DEF Loop, Iterate, NeedsFlush
<1>10. CASE Block  BY <1>0, <1>10, PolicyFields, ElapsedAssumption DEF Block, DiscardNext
<1>11. CASE Fail  BY <1>0, <1>11, PolicyFields, ElapsedAssumption DEF Fail
<1>12. CASE Done  BY <1>12 DEF Done, vars
<1> QED
  BY <1>1, <1>2, <1>3, <1>4, <1>5, <1>6, <1>7, <1>8, <1>9, <1>10, <1>11, <1>12 DEF Next

LEMMA SamplingStep == IInv /\ Next => Sampling'
<1> SUFFICES ASSUME IInv, Next PROVE Sampling'
  OBVIOUS
<1> USE DEF IInv, CountersOK, Phases, Accounting, Sampling, Blocks, Timing, Unmet, AtCap,
        config, counts, device
<1>0. policy \in Policies /\ policy' = policy
  BY DEF Next, Prime, Probe, Rerun, SelectMode, Warmup, Flush, Run, StallFallback,
         Loop, Block, Fail, Done, vars
<1>1. CASE Prime  BY <1>0, <1>1, PolicyFields, ElapsedAssumption DEF Prime
<1>2. CASE Probe  BY <1>0, <1>2, PolicyFields, ElapsedAssumption DEF Probe, NextDebugMode, Drained
<1>3. CASE Rerun  BY <1>0, <1>3, PolicyFields, ElapsedAssumption DEF Rerun, RerunCost, Drained
<1>4. CASE SelectMode
    BY <1>0, <1>4, PolicyFields, ElapsedAssumption DEF SelectMode, StagingReason, GateReason
<1>5. CASE Warmup  BY <1>0, <1>5, PolicyFields, ElapsedAssumption DEF Warmup, Iterate, NeedsFlush
<1>6. CASE Flush  BY <1>0, <1>6, PolicyFields, ElapsedAssumption DEF Flush
<1>7. CASE Run  BY <1>0, <1>7, PolicyFields, ElapsedAssumption DEF Run
<1>8. CASE StallFallback  BY <1>0, <1>8, PolicyFields, ElapsedAssumption DEF StallFallback
<1>9. CASE Loop  BY <1>0, <1>9, PolicyFields, ElapsedAssumption DEF Loop, Iterate, NeedsFlush
<1>10. CASE Block  BY <1>0, <1>10, PolicyFields, ElapsedAssumption DEF Block, DiscardNext
<1>11. CASE Fail  BY <1>0, <1>11, PolicyFields, ElapsedAssumption DEF Fail
<1>12. CASE Done  BY <1>12 DEF Done, vars
<1> QED
  BY <1>1, <1>2, <1>3, <1>4, <1>5, <1>6, <1>7, <1>8, <1>9, <1>10, <1>11, <1>12 DEF Next

LEMMA GatedStep == IInv /\ Next => Gated'
<1> SUFFICES ASSUME IInv, Next PROVE Gated'
  OBVIOUS
<1> USE DEF IInv, CountersOK, Phases, Accounting, Gated, StagedOnlyIfSafe, NoFallbackUnstalled,
        ProbeIsHarmless, ColdRuns, Env, Blocks, config, counts, device
<1>0. policy \in Policies /\ policy' = policy
  BY DEF Next, Prime, Probe, Rerun, SelectMode, Warmup, Flush, Run, StallFallback,
         Loop, Block, Fail, Done, vars
<1>1. CASE Prime  BY <1>0, <1>1, PolicyFields, ElapsedAssumption DEF Prime
<1>2. CASE Probe  BY <1>0, <1>2, PolicyFields, ElapsedAssumption DEF Probe, NextDebugMode, Drained
<1>3. CASE Rerun  BY <1>0, <1>3, PolicyFields, ElapsedAssumption DEF Rerun, RerunCost, Drained
<1>4. CASE SelectMode
    BY <1>0, <1>4, PolicyFields, ElapsedAssumption DEF SelectMode, StagingReason, GateReason
<1>5. CASE Warmup  BY <1>0, <1>5, PolicyFields, ElapsedAssumption DEF Warmup, Iterate, NeedsFlush
<1>6. CASE Flush  BY <1>0, <1>6, PolicyFields, ElapsedAssumption DEF Flush
<1>7. CASE Run  BY <1>0, <1>7, PolicyFields, ElapsedAssumption DEF Run
<1>8. CASE StallFallback  BY <1>0, <1>8, PolicyFields, ElapsedAssumption DEF StallFallback
<1>9. CASE Loop  BY <1>0, <1>9, PolicyFields, ElapsedAssumption DEF Loop, Iterate, NeedsFlush
<1>10. CASE Block  BY <1>0, <1>10, PolicyFields, ElapsedAssumption DEF Block, DiscardNext
<1>11. CASE Fail  BY <1>0, <1>11, PolicyFields, ElapsedAssumption DEF Fail
<1>12. CASE Done  BY <1>12 DEF Done, vars
<1> QED
  BY <1>1, <1>2, <1>3, <1>4, <1>5, <1>6, <1>7, <1>8, <1>9, <1>10, <1>11, <1>12 DEF Next


(* IInv is inductive: it holds in every reachable state.                   *)
THEOREM Inductive == Spec => []IInv
<1>1. IInv /\ UNCHANGED vars => IInv'
  BY DEF vars, IInv, CountersOK, Phases, Accounting, Sampling, Gated, StagedOnlyIfSafe,
         NoFallbackUnstalled, ProbeIsHarmless, ColdRuns, Timing, Blocks, Unmet, AtCap
<1>2. IInv /\ Next => Phases' /\ Accounting' /\ Sampling' /\ Gated'
  BY PhasesStep, AccountingStep, SamplingStep, GatedStep
<1>3. (CountersOK /\ Phases /\ Accounting /\ Sampling /\ Gated) <=> IInv
  BY DEF IInv
<1>4. TypeOK => CountersOK
  BY DEF TypeOK
<1> QED
  BY InitIInv, <1>1, <1>2, <1>3, <1>4, TypeCorrect, PTL DEF Spec

(* The reported warmup count is the number of untimed enqueues that ran.   *)
THEOREM ReportsItsWarmups == Spec => []WarmupCountHonest
<1>1. IInv => WarmupCountHonest
  <2> SUFFICES ASSUME IInv, pc = "measured" PROVE ReportedWarmup = runs - timed
    BY DEF WarmupCountHonest
  <2> USE DEF IInv, CountersOK, Accounting
  <2>1. runs - timed = primed + warmed /\ policy.warmup_iters \in Nat
    BY PolicyFields
  <2>2. CASE Blocks
    BY <2>1, <2>2 DEF ReportedWarmup
  <2>3. CASE ~Blocks
    <3>1. primed + warmed >= policy.warmup_iters
      BY <2>3 DEF Timing
    <3>2. CASE warmed = 0
      BY <2>1, <2>3, <3>1, <3>2 DEF ReportedWarmup
    <3>3. CASE warmed > 0
      BY <2>1, <2>3, <3>1, <3>3 DEF ReportedWarmup
    <3> QED
      BY <3>2, <3>3
  <2> QED
    BY <2>2, <2>3
<1> QED
  BY <1>1, Inductive, PTL

(* Cold iterations are cold; the gate is armed on an idle device, and only *)
(* where it is safe; a measurement without it never asks for another one;  *)
(* the probe fails nothing.                                                *)
THEOREM ColdRunsAreCold == Spec => []ColdRuns
<1>1. IInv => ColdRuns
  BY DEF IInv, Gated
<1> QED
  BY <1>1, Inductive, PTL

THEOREM StagedDeviceIsIdle == Spec => []StagedStartsIdle
<1>1. IInv => StagedStartsIdle
  BY DEF IInv, Accounting, StagedStartsIdle
<1> QED
  BY <1>1, Inductive, PTL

THEOREM StagingIsSafe == Spec => []StagedOnlyIfSafe
<1>1. IInv => StagedOnlyIfSafe
  BY DEF IInv, Gated
<1> QED
  BY <1>1, Inductive, PTL

THEOREM UnstalledNeverFallsBack == Spec => []NoFallbackUnstalled
<1>1. IInv => NoFallbackUnstalled
  BY DEF IInv, Gated
<1> QED
  BY <1>1, Inductive, PTL

THEOREM ProbeFailsNothing == Spec => []ProbeIsHarmless
<1>1. IInv => ProbeIsHarmless
  BY DEF IInv, Gated
<1> QED
  BY <1>1, Inductive, PTL

(* Either loop implements SampleBudget: every step of measure() is a step  *)
(* of the abstract loop or leaves it unchanged.                            *)
LEMMA StatusValues ==
  /\ pc = "measured" => Status = IF capped THEN "capped" ELSE "met"
  /\ pc \in Raised => Status = "failed"
  /\ pc # "measured" /\ pc \notin Raised => Status = "sampling"
BY DEF Status, Raised

LEMMA NextStatusValues ==
  /\ pc' = "measured" => Status' = IF capped' THEN "capped" ELSE "met"
  /\ pc' \in Raised => Status' = "failed"
  /\ pc' # "measured" /\ pc' \notin Raised => Status' = "sampling"
BY DEF Status, Raised

THEOREM KeepsBudget == Spec => BudgetKept
<1>1. Init => Budget!Init
  BY StatusValues DEF Init, Budget!Init, Raised
<1>2. ASSUME IInv, [Next]_vars PROVE [Budget!Next]_(Budget!vars)
  <2> USE <1>2 DEF Budget!Next, Budget!vars, Budget!Met, Raised, config, counts, device,
                   IInv, CountersOK, Phases, Sampling, Unmet, AtCap, Blocks, Timing
  <2>0. policy \in Policies
    OBVIOUS
  <2>s. ASSUME UNCHANGED <<policy, samples, total>>,
               pc # "measured", pc \notin Raised, pc' # "measured", pc' \notin Raised
        PROVE  UNCHANGED Budget!vars
    BY <2>s, StatusValues, NextStatusValues
  <2>f. ASSUME UNCHANGED <<policy, samples, total>>,
               pc # "measured", pc \notin Raised, pc' \in Raised
        PROVE  Budget!Fail
    BY <2>f, StatusValues, NextStatusValues DEF Budget!Fail
  <2>1. CASE Prime  BY <2>1, <2>s DEF Prime
  <2>2. CASE Probe  BY <2>2, <2>s DEF Probe
  <2>3. CASE Rerun  BY <2>3, <2>s DEF Rerun
  <2>4. CASE SelectMode  BY <2>4, <2>s, <2>f DEF SelectMode
  <2>5. CASE Warmup  BY <2>5, <2>s DEF Warmup, Iterate
  <2>6. CASE Flush  BY <2>6, <2>s DEF Flush
  <2>7. CASE Run
    <3>1. CASE ~Timing  BY <2>7, <3>1, <2>s DEF Run
    <3>2. CASE Timing
      BY <2>0, <2>7, <3>2, PolicyFields, StatusValues, NextStatusValues DEF Run, Budget!Sample
    <3> QED BY <3>1, <3>2
  <2>8. CASE StallFallback  BY <2>8, <2>f DEF StallFallback
  <2>9. CASE Loop
    <3>1. CASE pc' = "measured"
      BY <2>0, <2>9, <3>1, PolicyFields, StatusValues, NextStatusValues
          DEF Loop, Iterate, Budget!Stop
    <3>2. CASE pc' # "measured"  BY <2>9, <3>2, <2>s DEF Loop, Iterate
    <3> QED BY <3>1, <3>2
  <2>10. CASE Block
    <3>1. CASE discard_first  BY <2>10, <3>1, <2>s DEF Block
    <3>2. CASE ~discard_first
      BY <2>0, <2>10, <3>2, PolicyFields, StatusValues, NextStatusValues DEF Block, Budget!Sample
    <3> QED BY <3>1, <3>2
  <2>11. CASE Fail  BY <2>11, <2>f DEF Fail
  <2>12. CASE UNCHANGED vars  BY <2>12 DEF vars, Status
  <2> QED
    BY <2>1, <2>2, <2>3, <2>4, <2>5, <2>6, <2>7, <2>8, <2>9, <2>10, <2>11,
       <2>12 DEF Next, Done
<1> QED
  BY <1>1, <1>2, Inductive, PTL DEF Spec, BudgetKept, Budget!Spec

-----------------------------------------------------------------------------
(* How much work a measurement submits.                                    *)

(* Rounds of the block loop, the discarded one included.                   *)
Rounds == samples + (IF discard_first THEN 0 ELSE 1)

RoundWork == policy.warmup_iters + policy.timing_block

WorkInv ==
  /\ pc = "prime" => primed = 0
  /\ pc \in {"probe", "rerun"} => primed = 1
  /\ ~Blocks => primed <= 3 /\ timed = samples
  /\ Blocks => primed + timed <= 3 + RoundWork * Rounds
  /\ samples <= policy.max_iters
  /\ runs <= primed + warmed + timed + 1 \/ runs <= 3

LEMMA OneMoreRound ==
  ASSUME NEW w \in Nat, NEW r \in Nat
  PROVE  w * (r + 1) = w * r + w
OBVIOUS

LEMMA MoreRounds ==
  ASSUME NEW w \in Nat, NEW r \in Nat, NEW q \in Nat, r <= q
  PROVE  w * r <= w * q
<1>1. PICK d \in Nat : q = r + d
  BY q - r \in Nat
<1>2. w * q = w * r + w * d
  BY <1>1
<1>3. w * d \in Nat /\ w * r \in Nat
  OBVIOUS
<1> QED
  BY <1>2, <1>3

LEMMA WorkStep == IInv /\ WorkInv /\ Next => WorkInv'
<1> SUFFICES ASSUME IInv, WorkInv, Next PROVE WorkInv'
  OBVIOUS
<1> USE DEF IInv, CountersOK, Phases, Accounting, Sampling, WorkInv, Blocks, Timing,
            AtCap, config, counts, device
<1>0. policy \in Policies /\ policy' = policy
  BY DEF Next, Prime, Probe, Rerun, SelectMode, Warmup, Flush, Run, StallFallback,
         Loop, Block, Fail, Done, vars
<1>w. Rounds \in Nat /\ RoundWork \in Nat /\ RoundWork * Rounds \in Nat
  BY <1>0, PolicyFields DEF Rounds, RoundWork
<1>s. UNCHANGED <<samples, discard_first>> => RoundWork' * Rounds' = RoundWork * Rounds
  BY <1>0 DEF Rounds, RoundWork
<1>1. CASE Prime  BY <1>0, <1>1, <1>w, <1>s, PolicyFields DEF Prime
<1>2. CASE Probe  BY <1>0, <1>2, <1>w, <1>s, PolicyFields DEF Probe
<1>3. CASE Rerun  BY <1>0, <1>3, <1>w, <1>s, PolicyFields DEF Rerun, RerunCost
<1>4. CASE SelectMode  BY <1>0, <1>4, <1>w, <1>s, PolicyFields DEF SelectMode
<1>5. CASE Warmup  BY <1>0, <1>5, <1>w, <1>s, PolicyFields DEF Warmup, Iterate
<1>6. CASE Flush  BY <1>0, <1>6, <1>w, <1>s, PolicyFields DEF Flush
<1>7. CASE Run  BY <1>0, <1>7, ElapsedAssumption, <1>w, <1>s, PolicyFields DEF Run
<1>8. CASE StallFallback  BY <1>0, <1>8, <1>w, <1>s, PolicyFields DEF StallFallback
<1>9. CASE Loop  BY <1>0, <1>9, <1>w, <1>s, PolicyFields DEF Loop, Iterate
<1>10. CASE Block
  <2>1. Rounds' = Rounds + 1 /\ Rounds \in Nat /\ RoundWork \in Nat /\ RoundWork' = RoundWork
    BY <1>0, <1>10, <1>w, PolicyFields DEF Block, DiscardNext, Rounds, RoundWork
  <2>2. RoundWork * (Rounds + 1) = RoundWork * Rounds + RoundWork
    BY <2>1, OneMoreRound
  <2>3. primed' + timed' = primed + timed + RoundWork
    BY <1>0, <1>10, PolicyFields DEF Block, RoundWork
  <2>4. primed' + timed' <= 3 + RoundWork' * Rounds'
    <3>1. primed + timed <= 3 + RoundWork * Rounds
      BY <1>10 DEF Block
    <3>2. RoundWork * Rounds \in Nat
      BY <2>1
    <3> QED
      BY <2>1, <2>2, <2>3, <3>1, <3>2
  <2>5. samples' <= policy.max_iters
    BY <1>0, <1>10, PolicyFields DEF Block
  <2>6. runs' <= primed' + warmed' + timed' + 1
    BY <1>0, <1>10, PolicyFields DEF Block
  <2> QED
    BY <1>0, <1>10, <2>4, <2>5, <2>6 DEF Block
<1>11. CASE Fail  BY <1>0, <1>11, <1>w, <1>s DEF Fail
<1>12. CASE Done  BY <1>12, <1>s DEF Done, vars
<1> QED
  BY <1>1, <1>2, <1>3, <1>4, <1>5, <1>6, <1>7, <1>8, <1>9, <1>10, <1>11, <1>12 DEF Next

(* measure() submits a bounded amount of work, so it ends.                 *)
THEOREM WorkIsBounded == Spec => []WorkBounded
<1>1. Init => WorkInv
  <2> SUFFICES ASSUME Init PROVE WorkInv
    OBVIOUS
  <2>1. policy \in Policies
    BY DEF Init
  <2>2. RoundWork * Rounds \in Nat
    BY <2>1, PolicyFields DEF Init, Rounds, RoundWork
  <2> QED
    BY <2>1, <2>2, PolicyFields DEF Init, WorkInv
<1>2. WorkInv /\ UNCHANGED vars => WorkInv'
  BY DEF WorkInv, vars, Rounds, RoundWork, Blocks
<1>3. ASSUME IInv, WorkInv PROVE WorkBounded
  <2> USE <1>3
  <2>0. policy \in Policies
    BY DEF IInv, CountersOK
  <2>1. CASE ~Blocks
    BY <2>0, <2>1, PolicyFields DEF IInv, CountersOK, Accounting, WorkInv, WorkBounded
  <2>2. CASE Blocks
    <3>1. Rounds \in Nat /\ RoundWork \in Nat /\ Rounds <= policy.max_iters + 1
      BY <2>0, PolicyFields DEF IInv, CountersOK, WorkInv, Rounds, RoundWork
    <3>2. RoundWork * Rounds <= RoundWork * (policy.max_iters + 1)
      BY <2>0, <3>1, PolicyFields, MoreRounds
    <3>3. RoundWork * Rounds \in Nat /\ RoundWork * (policy.max_iters + 1) \in Nat
      BY <2>0, <3>1, PolicyFields
    <3>4. runs <= 4 + RoundWork * (policy.max_iters + 1)
      BY <2>2, <3>2, <3>3 DEF IInv, CountersOK, Accounting, WorkInv
    <3> QED
      BY <2>2, <3>4 DEF WorkBounded, RoundWork
  <2> QED
    BY <2>1, <2>2
<1> QED
  BY <1>1, <1>2, <1>3, WorkStep, Inductive, PTL DEF Spec
=============================================================================
