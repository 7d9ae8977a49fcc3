-------------------------- MODULE StallGate_proofs --------------------------
(***************************************************************************)
(* Proofs about StallGate for every number of packets and regions: a kept  *)
(* sample is gap-free, each region is armed on an idle stream and the gate *)
(* is open on exit.                                                        *)
(***************************************************************************)
EXTENDS StallGate, SequenceTheorems, TLAPS

Between == {"start", "enqueue", "stop", "release"}

(* Unless the watchdog fired, the GPU stands before the closed gate.       *)
Stalled ==
  pc \in Between /\ ~timed_out =>
    /\ ~open /\ ~gap
    /\ queue # <<>> /\ Head(queue) = "wait"

(* Once the stop event is on the stream it is the last packet: the stream  *)
(* cannot run dry inside the span any more.                                *)
Stopped ==
  /\ pc \in {"release", "sync", "check"} =>
       IF queue = <<>> THEN ~span ELSE queue[Len(queue)] = "stop"
  /\ pc \in {"sync", "check"} => open /\ (~timed_out => ~gap)
  /\ pc = "check" => queue = <<>>

(* Between two regions nothing is under way.                               *)
AtRest ==
  /\ pc \in {"arm", "returned"} => open /\ queue = <<>> /\ ~span
  /\ pc = "returned" => ~gap
  /\ outcome = "sample" => pc = "returned"

IInv == TypeOK /\ Stalled /\ Stopped /\ AtRest

(* The GPU takes the first packet; the last one stays the last.            *)
LEMMA TailKeepsLast ==
  ASSUME NEW s \in Seq(Packets), s # <<>>
  PROVE  /\ Head(s) \in Packets /\ Tail(s) \in Seq(Packets)
         /\ Tail(s) # <<>> => Tail(s)[Len(Tail(s))] = s[Len(s)]
         /\ Tail(s) = <<>> => Head(s) = s[Len(s)]
<1> DEFINE t == Tail(s)
<1>1. Len(s) \in Nat /\ Len(s) # 0
    BY EmptySeq, LenProperties
<1>2. /\ Head(s) = s[1] /\ Head(s) \in Packets /\ t \in Seq(Packets)
      /\ Len(t) = Len(s) - 1
      /\ \A i \in 1..Len(t) : t[i] = s[i + 1]
    BY HeadTailProperties
<1>3. t # <<>> => Len(t) \in 1..Len(t) /\ Len(t) + 1 = Len(s)
    BY <1>1, <1>2, EmptySeq, LenProperties
<1>4. t = <<>> => Len(s) = 1
    BY <1>1, <1>2, EmptySeq
<1> HIDE DEF t
<1>5. t # <<>> => t[Len(t)] = s[Len(s)]
    BY <1>2, <1>3
<1>6. t = <<>> => Head(s) = s[Len(s)]
    BY <1>2, <1>4
<1> QED BY <1>2, <1>5, <1>6 DEF t

LEMMA AppendIsLast ==
  ASSUME NEW s \in Seq(Packets), NEW p \in Packets
  PROVE  /\ Append(s, p) \in Seq(Packets) /\ Append(s, p) # <<>>
         /\ Append(s, p)[Len(Append(s, p))] = p
         /\ Head(Append(s, p)) = IF s = <<>> THEN p ELSE Head(s)
<1> DEFINE a == Append(s, p)
<1>1. a \in Seq(Packets) /\ a # <<>> /\ Len(a) = Len(s) + 1 /\ a[Len(s) + 1] = p
    BY AppendProperties
<1>2. Head(a) = IF s = <<>> THEN p ELSE Head(s)
    BY HeadTailAppend
<1> HIDE DEF a
<1>3. a[Len(a)] = p
    BY <1>1
<1> QED BY <1>1, <1>2, <1>3 DEF a

LEMMA InitInv == Init => IInv
<1> SUFFICES ASSUME Init PROVE IInv
    OBVIOUS
<1>1. open \in BOOLEAN /\ timed_out \in BOOLEAN /\ span \in BOOLEAN /\ gap \in BOOLEAN
    BY Zenon DEF Init
<1>2. TypeOK
    BY <1>1, BoundsAssumption DEF Init, TypeOK, Interruptible
<1>3. Stalled /\ Stopped /\ AtRest
    BY DEF Init, Stalled, Stopped, AtRest, Between
<1> QED BY <1>2, <1>3 DEF IInv

LEMMA GpuInv == IInv /\ Gpu => IInv'
<1> SUFFICES ASSUME IInv, Gpu PROVE IInv'
    OBVIOUS
<1> USE DEF IInv, Gpu, call, gate
<1>1. /\ queue \in Seq(Packets) /\ queue # <<>>
      /\ Head(queue) \in Packets /\ queue' = Tail(queue) /\ queue' \in Seq(Packets)
      /\ queue' # <<>> => queue'[Len(queue')] = queue[Len(queue)]
      /\ queue' = <<>> => Head(queue) = queue[Len(queue)]
    BY TailKeepsLast DEF TypeOK
<1>2. TypeOK'
    BY <1>1 DEF TypeOK
<1>3. Stalled'
    BY DEF Stalled
<1>4. Stopped'
    BY <1>1 DEF Stopped
<1>5. AtRest'
    BY <1>1 DEF AtRest
<1> QED BY <1>2, <1>3, <1>4, <1>5

LEMMA SubmitInv ==
  IInv /\ (Arm \/ RecordStart \/ EnqueueWork \/ RecordStop) => IInv'
<1> SUFFICES ASSUME IInv, Arm \/ RecordStart \/ EnqueueWork \/ RecordStop
             PROVE  IInv'
    OBVIOUS
<1> USE BoundsAssumption
    DEF IInv, TypeOK, Stalled, Stopped, AtRest, Between, Submit, Raise, call, gate, gpu,
        Interruptible, Packets
<1>0. queue \in Seq(Packets)
    OBVIOUS
<1>1. CASE Arm
    <2>1. CASE pc' = "start"
        <3>1. /\ queue = <<>> /\ queue' = Append(queue, "wait") /\ outcome # "sample"
              /\ open' = FALSE /\ timed_out' = FALSE /\ gap' = FALSE /\ submitted' = 0
              /\ outcome' = outcome /\ span' = span /\ syncs' = syncs /\ calls' = calls
            BY <1>1, <2>1 DEF Arm
        <3>2. queue' \in Seq(Packets) /\ queue' # <<>> /\ Head(queue') = "wait"
            BY <3>1, <1>0, AppendIsLast
        <3>3. open' \in BOOLEAN /\ timed_out' \in BOOLEAN /\ gap' \in BOOLEAN
            BY <3>1, Zenon
        <3>4. TypeOK'
            BY <2>1, <3>1, <3>2, <3>3
        <3>5. Stalled' /\ Stopped' /\ AtRest'
            BY <2>1, <3>1, <3>2
        <3> QED BY <3>4, <3>5
    <2>2. CASE pc' = "raised"
        BY <1>1, <2>2 DEF Arm
    <2> QED BY <1>1, <2>1, <2>2 DEF Arm
<1>2. CASE RecordStart
    BY <1>2, <1>0, AppendIsLast DEF RecordStart
<1>3. CASE EnqueueWork
    BY <1>3, <1>0, AppendIsLast DEF EnqueueWork
<1>4. CASE RecordStop
    BY <1>4, <1>0, AppendIsLast DEF RecordStop, AfterStop
<1> QED BY <1>1, <1>2, <1>3, <1>4

LEMMA HostInv ==
  /\ IInv
  /\ \/ EnqueueReturns \/ Release \/ Synchronize \/ Check \/ NextCall \/ StepRaises
     \/ UnwindRelease \/ UnwindSync \/ UnwindSyncFails \/ Interrupt \/ Watchdog
  => IInv'
<1> SUFFICES ASSUME IInv,
                    \/ EnqueueReturns \/ Release \/ Synchronize \/ Check \/ NextCall
                    \/ StepRaises \/ UnwindRelease \/ UnwindSync \/ UnwindSyncFails
                    \/ Interrupt \/ Watchdog
             PROVE  IInv'
    OBVIOUS
<1> USE BoundsAssumption, InterruptAssumption
    DEF IInv, TypeOK, Stalled, Stopped, AtRest, Between, Raise, Return, call, gate, gpu,
        Interruptible, Unwind, UnwindStep
<1>1. CASE EnqueueReturns  BY <1>1 DEF EnqueueReturns
<1>2. CASE Release         BY <1>2 DEF Release, AfterRelease
<1>3. CASE Synchronize     BY <1>3 DEF Synchronize
<1>4. CASE Check           BY <1>4 DEF Check, Verdict
<1>5. CASE NextCall        BY <1>5 DEF NextCall
<1>6. CASE StepRaises      BY <1>6 DEF StepRaises
<1>7. CASE UnwindRelease   BY <1>7 DEF UnwindRelease
<1>8. CASE UnwindSync \/ UnwindSyncFails
    BY <1>8 DEF UnwindSync, UnwindSyncFails
<1>9. CASE Interrupt       BY <1>9 DEF Interrupt, InTry
<1>10. CASE Watchdog       BY <1>10 DEF Watchdog
<1> QED BY <1>1, <1>2, <1>3, <1>4, <1>5, <1>6, <1>7, <1>8, <1>9, <1>10

(* The inductive invariant of StalledRegionTimer.measure(), its stream and *)
(* the watchdog.                                                           *)
THEOREM Inductive == Spec => []IInv
<1>1. IInv /\ [Next]_vars => IInv'
    <2> SUFFICES ASSUME IInv, [Next]_vars PROVE IInv'
        OBVIOUS
    <2>1. CASE UNCHANGED vars
        BY <2>1 DEF vars, call, gate, gpu, IInv, TypeOK, Stalled, Stopped, AtRest
    <2>2. CASE Finished
        BY <2>1, <2>2 DEF Finished
    <2> QED BY <2>1, <2>2, GpuInv, SubmitInv, HostInv DEF Next, Host
<1> QED BY <1>1, InitInv, PTL DEF Spec

(* The state of a measured region keeps its types.                         *)
THEOREM TypeCorrect == Spec => []TypeOK
<1>1. IInv => TypeOK
    BY DEF IInv
<1> QED BY <1>1, Inductive, PTL

(* A sample that measure() returns never waited for the host between its   *)
(* two events, whenever the watchdog fired (took_too_long(), line 242).    *)
THEOREM SamplesAreGapFree == Spec => []GapFreeSample
<1>1. IInv => GapFreeSample
    BY DEF IInv, AtRest, GapFreeSample
<1> QED BY <1>1, Inductive, PTL

(* arm() always finds an idle stream.                                      *)
THEOREM RegionsArmIdle == Spec => []ArmsIdle
<1>1. IInv => ArmsIdle
    BY DEF IInv, AtRest, ArmsIdle
<1> QED BY <1>1, Inductive, PTL

-----------------------------------------------------------------------------
(* The gate.                                                               *)

(* The host waits for the stream only after it has opened the gate: no      *)
(* wait of measure() itself, on no path, needs the watchdog to end.        *)
WaitsBehindOpenGate == pc \in {"sync", "unwind_sync"} => open

(* The exception handler opens the gate before it drains the device.       *)
Released == pc = "unwind_sync" => open

(* measure() waits for the stream only behind an open gate, so its own     *)
(* waits end without the watchdog (lines 229-241).                         *)
THEOREM WaitsEnd == Spec => []WaitsBehindOpenGate
<1>1. Init => Released
    BY DEF Init, Released
<1>2. Released /\ [Next]_vars => Released'
    <2> SUFFICES ASSUME Released, [Next]_vars PROVE Released'
        OBVIOUS
    <2> USE DEF Released, gate, Raise, Return, Unwind, UnwindStep
    <2>1. CASE Gpu \/ Watchdog \/ Finished \/ UNCHANGED vars
        BY <2>1 DEF Gpu, Watchdog, Finished, vars
    <2>2. CASE Arm \/ RecordStart \/ EnqueueWork \/ EnqueueReturns \/ RecordStop
        BY <2>2 DEF Arm, RecordStart, EnqueueWork, EnqueueReturns, RecordStop, AfterStop
    <2>3. CASE Release \/ Synchronize \/ Check \/ NextCall
        BY <2>3 DEF Release, AfterRelease, Synchronize, Check, NextCall
    <2>4. CASE StepRaises \/ UnwindRelease \/ UnwindSync \/ UnwindSyncFails \/ Interrupt
        BY <2>4 DEF StepRaises, UnwindRelease, UnwindSync, UnwindSyncFails, Interrupt
    <2> QED BY <2>1, <2>2, <2>3, <2>4 DEF Next, Host
<1>3. IInv /\ Released => WaitsBehindOpenGate
    BY DEF IInv, Stopped, Released, WaitsBehindOpenGate
<1> QED BY <1>1, <1>2, <1>3, Inductive, PTL DEF Spec

(* The handler after arm() releases the gate.  A Ctrl-C as arm() returns   *)
(* is outside it.                                                          *)
Guarded == "start" \notin InterruptAt

ReleasedFirst == pc \in {"unwind_sync", "raised"} => open

(* measure() leaves the gate open, provided no Ctrl-C comes as arm()       *)
(* returns.                                                                *)
THEOREM GateIsReleased ==
  ASSUME Guarded
  PROVE  Spec => []ReleasedOnExit
<1>1. Init => ReleasedFirst
    BY DEF Init, ReleasedFirst
<1>2. IInv /\ ReleasedFirst /\ [Next]_vars => ReleasedFirst'
    <2> SUFFICES ASSUME IInv, ReleasedFirst, [Next]_vars PROVE ReleasedFirst'
        OBVIOUS
    <2> USE DEF ReleasedFirst, gate, Raise, Return
    <2>1. CASE Interrupt
        BY <2>1, InterruptAssumption
           DEF Interrupt, InTry, Unwind, UnwindStep, Guarded, Interruptible, IInv, Stopped
    <2>2. CASE Gpu \/ Watchdog \/ Finished \/ UNCHANGED vars
        BY <2>2 DEF Gpu, Watchdog, Finished, vars
    <2>3. CASE Arm \/ RecordStart \/ EnqueueWork \/ EnqueueReturns \/ RecordStop
        BY <2>3 DEF Arm, RecordStart, EnqueueWork, EnqueueReturns, RecordStop, AfterStop,
                    IInv, AtRest
    <2>4. CASE Release \/ Synchronize \/ Check \/ NextCall
        BY <2>4 DEF Release, AfterRelease, Synchronize, Check, NextCall, IInv, Stopped
    <2>5. CASE StepRaises \/ UnwindRelease \/ UnwindSync \/ UnwindSyncFails
        BY <2>5 DEF StepRaises, Unwind, UnwindStep, UnwindRelease, UnwindSync,
                    UnwindSyncFails
    <2> QED BY <2>1, <2>2, <2>3, <2>4, <2>5 DEF Next, Host
<1>3. IInv /\ ReleasedFirst => ReleasedOnExit
    BY DEF IInv, AtRest, ReleasedFirst, ReleasedOnExit, Left
<1> QED BY <1>1, <1>2, <1>3, Inductive, PTL DEF Spec
=============================================================================
