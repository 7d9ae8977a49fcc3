------------------------------ MODULE StallGate ------------------------------
(***************************************************************************)
(* execution/timing.py: StalledRegionTimer.measure(), one measured region  *)
(* behind a stalled stream.  The host thread, the GPU that executes the    *)
(* stream in order, and the gate's watchdog run concurrently.  The gate    *)
(* and the stream belong to hipdnn_frontend and HIP: they are modelled     *)
(* from how measure() uses them.                                           *)
(*                                                                         *)
(* A definition X_suffix just before X is a seeded bug for mutation runs.  *)
(***************************************************************************)
EXTENDS Naturals, Sequences

CONSTANTS MaxWork,      \* packets one enqueue submits at most
          MaxCalls,     \* measured regions on one timer
          InterruptAt   \* host steps before which a Ctrl-C may be delivered

ASSUME BoundsAssumption == MaxWork \in Nat \ {0} /\ MaxCalls \in Nat \ {0}

(* A Ctrl-C is delivered when a call of the main thread returns, so before *)
(* any of these steps.                                                     *)
Interruptible == {"start", "enqueue", "stop", "release", "sync", "check"}

ASSUME InterruptAssumption == InterruptAt \subseteq Interruptible

VARIABLES
  pc,          \* the host thread, by the step it takes next
  syncs,       \* does this enqueue wait for the stream before it returns?
  submitted,   \* packets this enqueue has submitted
  outcome,     \* "none", "sample", "fallback", "error", "interrupted"
  calls,       \* regions measured before this one
  queue,       \* the stream: packets submitted and not yet executed
  open,        \* the gate's signal: TRUE lets the stream's wait pass
  timed_out,   \* the watchdog opened the gate
  span,        \* the GPU is between the start and the stop event
  gap          \* history: the stream ran dry inside the span

vars == <<pc, syncs, submitted, outcome, calls, queue, open, timed_out,
          span, gap>>
gate == <<open, timed_out>>
gpu  == <<span, gap>>
call == <<syncs, calls>>

Init ==
  /\ pc = "arm" /\ syncs \in BOOLEAN /\ submitted = 0
  /\ outcome = "none" /\ calls = 0
  /\ queue = <<>> /\ open = TRUE /\ timed_out = FALSE
  /\ span = FALSE /\ gap = FALSE

Submit(packet) == queue' = Append(queue, packet)

Return(result) == pc' = "returned" /\ outcome' = result
Raise(result)  == pc' = "raised" /\ outcome' = result

-----------------------------------------------------------------------------
(* The GPU executes the stream in order; a wait passes once the gate opens.*)

Gpu ==
  /\ queue # <<>>
  /\ Head(queue) = "wait" => open
  /\ queue' = Tail(queue)
  /\ span' = CASE Head(queue) = "start" -> TRUE
               [] Head(queue) = "stop"  -> FALSE
               [] OTHER                 -> span
  /\ gap' = (gap \/ (span' /\ queue' = <<>>))
  /\ UNCHANGED <<pc, submitted, outcome, call, gate>>

(* The watchdog opens a gate that stays closed too long.                   *)
Watchdog ==
  /\ ~open
  /\ open' = TRUE /\ timed_out' = TRUE
  /\ UNCHANGED <<pc, submitted, outcome, call, queue, gpu>>

-----------------------------------------------------------------------------
(* The host.                                                               *)

(* arm(): close the gate and put a wait for it on the stream.  A RuntimeError *)
(* becomes StallFallbackError.                                             *)
Arm ==
  /\ pc = "arm"
  /\ \/ /\ pc' = "start"
        /\ Submit("wait")
        /\ open' = FALSE /\ timed_out' = FALSE /\ gap' = FALSE
        /\ submitted' = 0
        /\ UNCHANGED <<outcome, span>>
     \/ /\ Raise("fallback")
        /\ UNCHANGED <<queue, gate, submitted, gpu>>
  /\ UNCHANGED call

RecordStart ==
  /\ pc = "start"
  /\ pc' = "enqueue"
  /\ Submit("start")
  /\ UNCHANGED <<submitted, outcome, call, gate, gpu>>

(* enqueue(): submits its packets one by one ...                           *)
EnqueueWork ==
  /\ pc = "enqueue" /\ submitted < MaxWork
  /\ Submit("work")
  /\ submitted' = submitted + 1
  /\ UNCHANGED <<pc, outcome, call, gate, gpu>>

(* ... and returns, after the stream has drained if it synchronizes.       *)
EnqueueReturns ==
  /\ pc = "enqueue" /\ submitted > 0
  /\ syncs => queue = <<>>
  /\ pc' = "stop"
  /\ UNCHANGED <<submitted, outcome, call, queue, gate, gpu>>

(* The step after the stop event is recorded: release first, then wait.    *)
AfterStop_waits_first == "sync"
AfterStop == "release"

RecordStop ==
  /\ pc = "stop"
  /\ Submit("stop")
  /\ pc' = AfterStop
  /\ UNCHANGED <<submitted, outcome, call, gate, gpu>>

(* The step after release(): the stop event is waited for before the       *)
(* verdict.                                                                *)
AfterRelease_no_wait == "check"
AfterRelease == "sync"

Release ==
  /\ pc = "release"
  /\ open' = TRUE
  /\ pc' = AfterRelease
  /\ UNCHANGED <<submitted, outcome, call, queue, timed_out, gpu>>

(* stop.synchronize() waits for the stop event, the last packet.           *)
Synchronize ==
  /\ pc = "sync" /\ queue = <<>>
  /\ pc' = "check"
  /\ UNCHANGED <<submitted, outcome, call, queue, gate, gpu>>

Verdict_trusts_gate == "sample"
Verdict == IF timed_out THEN "fallback" ELSE "sample"

Check ==
  /\ pc = "check"
  /\ IF Verdict = "sample" THEN Return("sample") ELSE Raise(Verdict)
  /\ UNCHANGED <<submitted, call, queue, gate, gpu>>

(* measure() is called again for the next iteration, on the same gate.     *)
NextCall ==
  /\ pc = "returned" /\ calls + 1 < MaxCalls
  /\ pc' = "arm" /\ outcome' = "none" /\ calls' = calls + 1
  /\ syncs' \in BOOLEAN
  /\ UNCHANGED <<submitted, queue, gate, gpu>>

(* Exceptions.  The try after arm() covers the start event, the enqueue    *)
(* and the stop event; its handler releases the gate and drains.           *)
InTry == pc \in {"enqueue", "stop", "release"}

UnwindStep_no_release == "unwind_sync"
UnwindStep == "unwind_release"

Unwind(result) ==
  /\ pc' = UnwindStep /\ outcome' = result
  /\ UNCHANGED <<submitted, call, queue, gate, gpu>>

(* Recording an event and the enqueue itself may raise.                    *)
StepRaises ==
  /\ pc \in {"start", "enqueue", "stop"}
  /\ Unwind("error")

(* A Ctrl-C unwinds like any exception where the last call is in the try;  *)
(* elsewhere it leaves measure() at once.                                  *)
Interrupt ==
  /\ pc \in InterruptAt
  /\ IF InTry
     THEN Unwind("interrupted")
     ELSE /\ Raise("interrupted")
          /\ UNCHANGED <<submitted, call, queue, gate, gpu>>

UnwindRelease ==
  /\ pc = "unwind_release"
  /\ open' = TRUE
  /\ pc' = "unwind_sync"
  /\ UNCHANGED <<submitted, outcome, call, queue, timed_out, gpu>>

(* hip_device_synchronize() drains the device ...                          *)
UnwindSync ==
  /\ pc = "unwind_sync" /\ queue = <<>>
  /\ pc' = "raised"
  /\ UNCHANGED <<submitted, outcome, call, queue, gate, gpu>>

(* ... or fails, which is swallowed.                                       *)
UnwindSyncFails ==
  /\ pc = "unwind_sync"
  /\ pc' = "raised"
  /\ UNCHANGED <<submitted, outcome, call, queue, gate, gpu>>

Host == \/ Arm \/ RecordStart \/ EnqueueWork \/ EnqueueReturns \/ RecordStop
        \/ Release \/ Synchronize \/ Check \/ NextCall
        \/ UnwindRelease \/ UnwindSync

Left == pc \in {"returned", "raised"}

Finished == Left /\ UNCHANGED vars

Next == Host \/ StepRaises \/ UnwindSyncFails \/ Interrupt \/ Gpu \/ Watchdog \/ Finished

Spec == Init /\ [][Next]_vars

(* The host thread and the GPU make progress.  Nothing has to fail: an      *)
(* enqueue stuck behind the gate need not raise.  The watchdog is relied   *)
(* on only where the host may be stuck behind its own gate: in the enqueue.*)
FairSpec ==
  /\ Spec
  /\ WF_vars(Host) /\ WF_vars(Gpu)
  /\ WF_vars(pc = "enqueue" /\ Watchdog)

-----------------------------------------------------------------------------
(* Properties.                                                             *)

Packets == {"wait", "start", "work", "stop"}

TypeOK ==
  /\ pc \in Interruptible \cup {"arm", "unwind_release", "unwind_sync", "returned", "raised"}
  /\ outcome \in {"none", "sample", "fallback", "error", "interrupted"}
  /\ queue \in Seq(Packets)
  /\ submitted \in 0..MaxWork /\ calls \in 0..(MaxCalls - 1)
  /\ syncs \in BOOLEAN /\ open \in BOOLEAN /\ timed_out \in BOOLEAN
  /\ span \in BOOLEAN /\ gap \in BOOLEAN

(* A sample that is kept is gap-free: the GPU never waited for the host     *)
(* between its start and its stop event, whatever the enqueue did and      *)
(* however late the watchdog fired.                                        *)
GapFreeSample == outcome = "sample" => ~gap

(* measure() never leaves with the gate closed: no wait stays on the       *)
(* stream that only the watchdog could let pass.                           *)
ReleasedOnExit == Left => open

(* Every region is armed on an idle stream, as the class demands of its    *)
(* caller: the previous region left nothing behind.                        *)
ArmsIdle == pc = "arm" => queue = <<>> /\ ~span

(* Every region ends.  An enqueue that waits for the host behind the gate  *)
(* is freed by the watchdog; nothing else needs it.                        *)
Returns == []<>Left
=============================================================================
