-------------------------- MODULE Profiling_proofs --------------------------
(***************************************************************************)
(* Proofs about run_capped() (CappedRun) and the profiling passes that call *)
(* it (Profiling), for every number of signals, with and without a cap, and *)
(* for every set of requests, hosts and engine selections.                  *)
(***************************************************************************)
EXTENDS Profiling, Descent, SequenceTheorems, TLAPS

-----------------------------------------------------------------------------
(* One call.                                                               *)

(* The signals reach the steps that the code guards: run_capped() waits    *)
(* for the tool, reaps it, or returns.                                     *)
Guarded == InterruptAt \subseteq {"communicate", "reap", "exit"}

(* Until the wait is over nothing was raised, and nobody has reaped the    *)
(* tool; so an exception other than KeyboardInterrupt still finds its      *)
(* process group, and after the kill no member is left to fork another.    *)
Waiting == pc \in {"body", "communicate"} => child \in {"running", "zombie"} /\ cause = "none"
Findable == pc = "caught" /\ cause # "int" => child \in {"running", "zombie"}
Gone == pc \in {"reap", "exit", "ended"} /\ cause # "int" => TornDown

(* After the wait, or the kill, the tool itself never runs on: also where a *)
(* KeyboardInterrupt has reaped it before the kill.                        *)
Stricken == pc \in {"reap", "exit"} => child # "running"

IInv ==
  /\ TypeOK
  /\ pc = "spawn" => child = "none" /\ helpers = {} /\ cause = "none"
  /\ Waiting /\ Findable /\ Gone /\ Stricken

LEMMA InitInv == Init => IInv
BY CappedRunAssumption
   DEF Init, IInv, TypeOK, Steps, Waiting, Findable, Gone, Stricken, TornDown

LEMMA CallInv == IInv /\ Call => IInv'
<1> SUFFICES ASSUME IInv, Call PROVE IInv'
    OBVIOUS
<1> USE CappedRunAssumption
        DEF IInv, TypeOK, Steps, Waiting, Findable, Gone, Stricken, TornDown, tool
<1>1. CASE Spawn        BY <1>1 DEF Spawn
<1>2. CASE EnterTry     BY <1>2 DEF EnterTry
<1>3. CASE Communicate  BY <1>3 DEF Communicate, PipesClosed
<1>4. CASE CapReached   BY <1>4 DEF CapReached, Raise
<1>5. CASE KillTree     BY <1>5 DEF KillTree, Survivors
<1>6. CASE Reap         BY <1>6 DEF Reap, PipesClosed
<1>7. CASE ReapTimesOut BY <1>7 DEF ReapTimesOut, ReapBounded
<1>8. CASE Exit         BY <1>8 DEF Exit, Outcome
<1> QED BY <1>1, <1>2, <1>3, <1>4, <1>5, <1>6, <1>7, <1>8 DEF Call

LEMMA ToolInv == IInv /\ (Fork \/ ChildExits \/ HelperExits) => IInv'
<1> SUFFICES ASSUME IInv, Fork \/ ChildExits \/ HelperExits PROVE IInv'
    OBVIOUS
<1> USE DEF IInv, TypeOK, Steps, Waiting, Findable, Gone, Stricken, TornDown
<1>1. CASE Fork        BY <1>1 DEF Fork
<1>2. CASE ChildExits  BY <1>2 DEF ChildExits
<1>3. CASE HelperExits BY <1>3 DEF HelperExits
<1> QED BY <1>1, <1>2, <1>3

LEMMA InterruptInv ==
  ASSUME Guarded, IInv, NEW sig \in {"int", "term"}, Interrupt(sig)
  PROVE  IInv'
<1> USE CappedRunAssumption DEF Interrupt, AfterSignal, Raise, ReapsFirst, Guarded
<1>1. TypeOK'
    BY DEF IInv, TypeOK, Steps
<1>2. pc' \in {"caught", "exit", "ended"}
    BY DEF IInv, TypeOK, Steps
<1>3. Waiting' /\ pc' # "spawn"
    BY <1>2 DEF Waiting
<1>4. Findable'
    BY DEF IInv, TypeOK, Waiting, Findable
<1>5. Gone' /\ Stricken'
    BY DEF IInv, TypeOK, Gone, Stricken, TornDown
<1> QED BY <1>1, <1>3, <1>4, <1>5 DEF IInv

(* The inductive invariant of run_capped().                                *)
THEOREM Inductive == ASSUME Guarded PROVE Spec => []IInv
<1>1. IInv /\ [Next]_vars => IInv'
    <2> SUFFICES ASSUME IInv, [Next]_vars PROVE IInv'
        OBVIOUS
    <2>1. CASE UNCHANGED vars
        BY <2>1 DEF vars, IInv, TypeOK, Waiting, Findable, Gone, Stricken, TornDown
    <2>2. CASE Ended
        BY <2>1, <2>2 DEF Ended
    <2> QED BY <2>1, <2>2, CallInv, ToolInv, InterruptInv DEF Next
<1> QED BY <1>1, InitInv, PTL DEF Spec

(* The state of run_capped() keeps its types; in particular it has ended   *)
(* if and only if it has an outcome.                                       *)
THEOREM TypeCorrect == ASSUME Guarded PROVE Spec => []TypeOK
<1>1. IInv => TypeOK
    BY DEF IInv
<1> QED BY <1>1, Inductive, PTL

(* A call that the cap or a SIGTERM stopped has ended with its tool and    *)
(* everything in the tool's process group gone (run_capped()).             *)
THEOREM CapTearsItDown == ASSUME Guarded PROVE Spec => []CapTearsDown
<1>1. IInv => CapTearsDown
    BY DEF IInv, Gone, CapTearsDown
<1> QED BY <1>1, Inductive, PTL

-----------------------------------------------------------------------------
(* What a call reports, whichever steps the signals reach.                 *)

(* Once a signal was the first exception, the call cannot end in another   *)
(* way than by a signal; before anything was raised it can end well.       *)
Raised ==
  /\ cause = "none" <=> raising = "none"
  /\ cause \in {"int", "term"} => raising \in {"int", "term"}
  /\ pc \in {"spawn", "body", "communicate"} => raising = "none"

(* The outcome is what was being raised.                                   *)
Told ==
  pc = "ended" /\ outcome \in {"completed", "oserror", "timeout"} => cause \notin {"int", "term"}

RInv == TypeOK /\ Raised /\ Told

LEMMA CallTells ==
  ASSUME RInv, Next PROVE RInv'
<1> USE CappedRunAssumption DEF RInv, TypeOK, Steps, Raised, Told, tool, vars
<1>1. CASE Spawn        BY <1>1 DEF Spawn
<1>2. CASE EnterTry     BY <1>2 DEF EnterTry
<1>3. CASE Communicate  BY <1>3 DEF Communicate, PipesClosed
<1>4. CASE CapReached   BY <1>4 DEF CapReached, Raise
<1>5. CASE KillTree     BY <1>5 DEF KillTree, Survivors
<1>6. CASE Reap         BY <1>6 DEF Reap, PipesClosed
<1>7. CASE ReapTimesOut BY <1>7 DEF ReapTimesOut, ReapBounded
<1>8. CASE Exit         BY <1>8 DEF Exit, Outcome
<1>9. CASE Fork \/ ChildExits \/ HelperExits
    <2>1. CASE Fork        BY <2>1 DEF Fork
    <2>2. CASE ChildExits  BY <2>2 DEF ChildExits
    <2>3. CASE HelperExits BY <2>3 DEF HelperExits
    <2> QED BY <1>9, <2>1, <2>2, <2>3
<1>10. ASSUME NEW sig \in {"int", "term"}, Interrupt(sig) PROVE RInv'
    BY <1>10 DEF Interrupt, AfterSignal, Raise, ReapsFirst
<1>11. CASE Ended       BY <1>11 DEF Ended
<1> QED BY <1>1, <1>2, <1>3, <1>4, <1>5, <1>6, <1>7, <1>8, <1>9, <1>10, <1>11
        DEF Next, Call

-----------------------------------------------------------------------------
(* The passes.                                                             *)

(* q has the sources of A, each once.                                      *)
Lists(q, A) ==
  /\ q \in Seq(Sources)
  /\ \A i, j \in 1..Len(q) : q[i] = q[j] => i = j
  /\ A = {q[k] : k \in 1..Len(q)}

(* The sources still to run are those the selection has no slice for.      *)
Divided ==
  /\ stage \in {"next", "tool"} => Lists(todo, requests \ DOMAIN slices)
  /\ stage = "tool" => todo # <<>>
  /\ stage = "row" => DOMAIN slices = requests
  /\ stage \in {"startup", "select", "refused", "done"} => DOMAIN slices = {}
  /\ DOMAIN slices \subseteq requests

Within ==
  /\ requests \subseteq Sources
  /\ host \in [cdna : BOOLEAN, wheel : BOOLEAN, installed : [Binaries -> SUBSET Places]]
  /\ sel \in Nat \ {0} /\ (stage # "done" => sel <= Len(Selections))

(* A directory holds what a selection of its engine name left there, or    *)
(* what was found in it.                                                   *)
DiskTrue ==
  /\ disk \in [Dirs -> 0..Earlier]
  /\ \A d \in Dirs : disk[d] # 0 =>
       \/ disk[d] = Earlier /\ d \in found
       \/ disk[d] <= sel /\ disk[d] # Earlier /\ d[1] = Selections[disk[d]]

(* A slice names the artifact in its own directory.                        *)
SlicesTrue ==
  \A s \in DOMAIN slices :
    /\ slices[s].from # 0 => slices[s].from = disk[Dir(sel, s)]
    /\ slices[s].is # "toolless"
    /\ slices[s].is = "data" => ~Foreign(Binary(s))

(* The startup check found every tool that was asked for.                  *)
ToolsThere == stage \notin {"startup", "refused"} => Missing = {}

PInv == Within /\ Divided /\ DiskTrue /\ SlicesTrue /\ ToolsThere

LEMMA ListOne == \A x \in Sources : Lists(<<x>>, {x})
<1> SUFFICES ASSUME NEW x \in Sources PROVE Lists(<<x>>, {x})
    OBVIOUS
<1>1. <<x>> \in Seq(Sources) /\ Len(<<x>>) = 1 /\ <<x>>[1] = x
    OBVIOUS
<1>2. {<<x>>[k] : k \in 1..Len(<<x>>)} = {x}
    BY <1>1
<1> QED BY <1>1, <1>2 DEF Lists

LEMMA ListOneMore ==
  ASSUME NEW q, NEW A, Lists(q, A), NEW x \in Sources \ A, NEW s
  PROVE  Lists(q \o (IF x \in s THEN <<x>> ELSE <<>>), A \cup ({x} \cap s))
<1> DEFINE one == IF x \in s THEN <<x>> ELSE <<>>
           n == q \o one
<1>1. /\ q \in Seq(Sources) /\ one \in Seq(Sources) /\ Len(q) \in Nat
      /\ Len(one) = IF x \in s THEN 1 ELSE 0
    BY DEF Lists
<1>2. /\ n \in Seq(Sources) /\ Len(n) = Len(q) + Len(one)
      /\ \A i \in 1..Len(q) : n[i] = q[i]
      /\ x \in s => n[Len(q) + 1] = x
    BY <1>1
<1> HIDE DEF one, n
<1>3. \A i \in 1..Len(q) : q[i] # x
    BY DEF Lists
<1>4. \A i, j \in 1..Len(n) : n[i] = n[j] => i = j
    <2> SUFFICES ASSUME NEW i \in 1..Len(n), NEW j \in 1..Len(n), n[i] = n[j]
                 PROVE  i = j
        OBVIOUS
    <2>1. CASE i \in 1..Len(q) /\ j \in 1..Len(q)
        BY <1>2, <2>1 DEF Lists
    <2>2. CASE i \notin 1..Len(q) \/ j \notin 1..Len(q)
        BY <1>1, <1>2, <1>3, <2>2
    <2> QED BY <2>1, <2>2
<1>5. A \cup ({x} \cap s) = {n[k] : k \in 1..Len(n)}
    <2>1. CASE x \in s
        <3>1. \A k \in 1..Len(n) : n[k] \in A \cup {x}
            BY <1>1, <1>2, <2>1 DEF Lists
        <3>2. \A y \in A \cup {x} : \E k \in 1..Len(n) : n[k] = y
            BY <1>1, <1>2, <2>1 DEF Lists
        <3> QED BY <2>1, <3>1, <3>2
    <2>2. CASE x \notin s
        BY <1>1, <1>2, <2>2 DEF Lists
    <2> QED BY <2>1, <2>2
<1> QED BY <1>2, <1>4, <1>5 DEF Lists, n, one

LEMMA ListRest ==
  ASSUME NEW q, NEW A, Lists(q, A), q # <<>>
  PROVE  Head(q) \in A /\ Head(q) \in Sources /\ Lists(Tail(q), A \ {Head(q)})
<1>1. /\ q \in Seq(Sources) /\ Len(q) \in Nat \ {0} /\ Head(q) = q[1]
      /\ Tail(q) \in Seq(Sources) /\ Len(Tail(q)) = Len(q) - 1
      /\ \A i \in 1..Len(Tail(q)) : Tail(q)[i] = q[i + 1]
    BY EmptySeq, HeadTailProperties DEF Lists
<1>2. \A i, j \in 1..Len(Tail(q)) : Tail(q)[i] = Tail(q)[j] => i = j
    BY <1>1 DEF Lists
<1>3. A \ {Head(q)} = {Tail(q)[k] : k \in 1..Len(Tail(q))}
    <2>1. \A y \in A \ {Head(q)} : \E k \in 1..Len(Tail(q)) : Tail(q)[k] = y
        <3> SUFFICES ASSUME NEW y \in A \ {Head(q)}
                     PROVE  \E k \in 1..Len(Tail(q)) : Tail(q)[k] = y
            OBVIOUS
        <3>1. PICK i \in 1..Len(q) : q[i] = y
            BY DEF Lists
        <3>2. i - 1 \in 1..Len(Tail(q)) /\ Tail(q)[i - 1] = y
            BY <1>1, <3>1
        <3> QED BY <3>2
    <2>2. \A k \in 1..Len(Tail(q)) : Tail(q)[k] \in A \ {Head(q)}
        BY <1>1 DEF Lists
    <2> QED BY <2>1, <2>2
<1>4. Head(q) \in A /\ Head(q) \in Sources
    BY <1>1 DEF Lists
<1>5. Lists(Tail(q), A \ {Head(q)})
    BY <1>1, <1>2, <1>3 DEF Lists
<1> QED BY <1>4, <1>5

(* The table of run_profiling_passes() yields each requested source once.  *)
LEMMA RequestedOnce ==
  ASSUME NEW s, s \subseteq Sources
  PROVE  Lists(Requested(s), s)
<1> DEFINE If(x) == IF x \in s THEN <<x>> ELSE <<>>
           two == If("pmc") \o If("trace")
           three == two \o If("perf")
<1>1. Lists(If("pmc"), {"pmc"} \cap s)
    <2>1. CASE "pmc" \in s
        <3>1. If("pmc") = <<"pmc">> /\ {"pmc"} \cap s = {"pmc"}
            BY <2>1
        <3>2. Lists(<<"pmc">>, {"pmc"})
            BY ListOne DEF Sources
        <3> QED BY <3>1, <3>2
    <2>2. CASE "pmc" \notin s
        <3>1. If("pmc") = <<>> /\ {"pmc"} \cap s = {}
            BY <2>2
        <3> QED BY <3>1 DEF Lists, Sources
    <2> QED BY <2>1, <2>2
<1>2. Lists(two, {"pmc", "trace"} \cap s)
    <2>1. Lists(two, ({"pmc"} \cap s) \cup ({"trace"} \cap s))
        <3> HIDE DEF If
        <3>1. Lists(If("pmc") \o (IF "trace" \in s THEN <<"trace">> ELSE <<>>),
                    ({"pmc"} \cap s) \cup ({"trace"} \cap s))
            <4>1. "trace" \in Sources \ ({"pmc"} \cap s)
                BY DEF Sources
            <4> QED BY <1>1, <4>1, ListOneMore
        <3> QED BY <3>1 DEF If
    <2> QED BY <2>1
<1>3. Lists(three, {"pmc", "trace", "perf"} \cap s)
    <2>1. Lists(three, ({"pmc", "trace"} \cap s) \cup ({"perf"} \cap s))
        <3> HIDE DEF two
        <3>1. Lists(two \o (IF "perf" \in s THEN <<"perf">> ELSE <<>>),
                    ({"pmc", "trace"} \cap s) \cup ({"perf"} \cap s))
            <4>1. "perf" \in Sources \ ({"pmc", "trace"} \cap s)
                BY DEF Sources
            <4> QED BY <1>2, <4>1, ListOneMore
        <3> QED BY <3>1
    <2> QED BY <2>1
<1>4. Lists(three \o If("roofline"), s)
    <2>1. Lists(three \o If("roofline"),
                ({"pmc", "trace", "perf"} \cap s) \cup ({"roofline"} \cap s))
        <3> HIDE DEF three
        <3>1. Lists(three \o (IF "roofline" \in s THEN <<"roofline">> ELSE <<>>),
                    ({"pmc", "trace", "perf"} \cap s) \cup ({"roofline"} \cap s))
            <4>1. "roofline" \in Sources \ ({"pmc", "trace", "perf"} \cap s)
                BY DEF Sources
            <4> QED BY <1>3, <4>1, ListOneMore
        <3> QED BY <3>1
    <2>2. ({"pmc", "trace", "perf"} \cap s) \cup ({"roofline"} \cap s) = s
        BY DEF Sources
    <2> QED BY <2>1, <2>2
<1> QED BY <1>4 DEF Requested

LEMMA SourceIs ==
  ASSUME PInv, stage \in {"next", "tool"}, todo # <<>>
  PROVE  /\ Source \in Sources /\ Source \in requests /\ Source \notin DOMAIN slices
         /\ Here \in Dirs /\ Resolve(Binary(Source)) # "none"
         /\ sel \in DOMAIN Selections
<1>1. Source \in Sources /\ Source \in requests \ DOMAIN slices
    BY ListRest DEF PInv, Divided, Source
<1>2. sel \in DOMAIN Selections
    BY ProfilingAssumption DEF PInv, Within
<1>3. Here \in Dirs
    BY <1>1, <1>2 DEF Here, Dirs
<1>4. Resolve(Binary(Source)) # "none"
    BY <1>1 DEF PInv, ToolsThere, Missing
<1> QED BY <1>1, <1>2, <1>3, <1>4

LEMMA ElsewhereIsOther ==
  ASSUME NEW s \in Sources, NEW t \in Sources, s # t
  PROVE  Dir(sel, s) # Dir(sel, t)
BY DEF Dir

LEMMA InitPasses == InitProfiling => PInv
<1> SUFFICES ASSUME InitProfiling PROVE PInv
    OBVIOUS
<1> USE ProfilingAssumption DEF InitProfiling
<1>1. Within
    BY DEF Within, Sources
<1>2. Divided
    BY DEF Divided, NoSlice
<1>3. DiskTrue
    BY DEF DiskTrue, Earlier
<1>4. SlicesTrue /\ ToolsThere
    BY DEF SlicesTrue, ToolsThere, NoSlice
<1> QED BY <1>1, <1>2, <1>3, <1>4 DEF PInv

(* A pass records what it made of its call, whatever that was.             *)
LEMMA RecordInv ==
  ASSUME PInv, stage \in {"next", "tool"}, todo # <<>>,
         NEW slice, slice.is # "toolless", slice.from \in {0, disk[Here]},
         slice.is = "data" => ~Foreign(Binary(Source)),
         Record(slice), UNCHANGED <<drawn, sel, disk>>
  PROVE  PInv'
<1>1. /\ Source \in requests \ DOMAIN slices
      /\ Lists(Tail(todo), (requests \ DOMAIN slices) \ {Source})
    BY ListRest DEF PInv, Divided, Source
<1>2. /\ DOMAIN slices' = DOMAIN slices \cup {Source}
      /\ slices'[Source] = slice
      /\ \A s \in DOMAIN slices : slices'[s] = slices[s]
    BY <1>1 DEF Record, Recorded
<1>3. Within'
    BY DEF PInv, Within, Record, drawn
<1>4. Divided'
    <2>1. (requests \ DOMAIN slices)' = (requests \ DOMAIN slices) \ {Source}
        BY <1>2 DEF drawn
    <2>2. Lists(todo', (requests \ DOMAIN slices)')
        BY <1>1, <2>1 DEF Record
    <2>3. Lists(todo, requests \ DOMAIN slices)'
        BY <2>2 DEF Lists
    <2> QED BY <1>1, <1>2, <2>3 DEF PInv, Divided, Record, drawn
<1>5. DiskTrue'
    BY DEF PInv, DiskTrue, Earlier, drawn
<1>6. SlicesTrue'
    <2>1. \A s : (Foreign(Binary(s)) <=> Foreign(Binary(s))') /\ Dir(sel, s)' = Dir(sel, s)
        BY DEF drawn, Foreign, Resolve, ResolvePerf, Binary, Dir
    <2> SUFFICES ASSUME NEW s \in DOMAIN slices'
                 PROVE  /\ slices'[s].from # 0 => slices'[s].from = disk[Dir(sel, s)]
                        /\ slices'[s].is # "toolless"
                        /\ slices'[s].is = "data" => ~Foreign(Binary(s))
        BY <2>1 DEF SlicesTrue
    <2>2. CASE s = Source
        BY <1>2, <2>2 DEF Here
    <2>3. CASE s # Source
        BY <1>2, <2>3 DEF PInv, SlicesTrue
    <2> QED BY <2>2, <2>3
<1>7. ToolsThere'
    BY DEF PInv, ToolsThere, Missing, Resolve, ResolvePerf, Binary, drawn, Record
<1> QED BY <1>3, <1>4, <1>5, <1>6, <1>7 DEF PInv

(* A step that leaves the slices and the disk alone.                       *)
LEMMA QuietInv ==
  ASSUME PInv, UNCHANGED <<drawn, sel, slices, disk>>,
         stage = "done" => stage' = "done", Divided', ToolsThere'
  PROVE  PInv'
<1>1. Within' /\ DiskTrue'
    BY DEF PInv, Within, DiskTrue, drawn
<1>2. \A s : (Foreign(Binary(s)) <=> Foreign(Binary(s))') /\ Dir(sel, s)' = Dir(sel, s)
    BY DEF drawn, Foreign, Resolve, ResolvePerf, Binary, Dir
<1>3. SlicesTrue'
    BY <1>2 DEF PInv, SlicesTrue
<1> QED BY <1>1, <1>3 DEF PInv

LEMMA MissingStays == UNCHANGED drawn => Missing' = Missing
BY DEF Missing, Resolve, ResolvePerf, Binary, drawn

LEMMA PassInv == PInv /\ Pass => PInv'
<1> SUFFICES ASSUME PInv, Pass PROVE PInv'
    OBVIOUS
<1> USE MissingStays
<1>1. CASE Startup
    <2>1. Divided'
        BY <1>1 DEF Startup, PInv, Divided, drawn
    <2>2. ToolsThere'
        BY <1>1 DEF Startup, PInv, ToolsThere
    <2> QED BY <1>1, <2>1, <2>2, QuietInv DEF Startup
<1>2. CASE Select
    <2>1. Lists(todo', requests) /\ DOMAIN slices' = {} /\ DOMAIN slices = {}
        BY <1>2, RequestedOnce DEF Select, PInv, Within, Divided, NoSlice
    <2>2. Lists(todo, requests \ DOMAIN slices)'
        BY <1>2, <2>1 DEF Select, Lists, drawn
    <2>3. Divided' /\ ToolsThere'
        BY <1>2, <2>1, <2>2 DEF Select, Divided, PInv, ToolsThere
    <2>4. Within' /\ DiskTrue' /\ SlicesTrue'
        BY <1>2, <2>1 DEF Select, PInv, Within, DiskTrue, SlicesTrue, drawn
    <2> QED BY <2>3, <2>4 DEF PInv
<1>3. CASE SkipPass
    <2>1. Record(Slice("empty", 0)) /\ UNCHANGED <<drawn, sel, disk>>
        BY <1>3, SourceIs DEF SkipPass
    <2> QED BY <1>3, <2>1, RecordInv DEF SkipPass, Slice
<1>4. CASE StartTool
    BY <1>4, QuietInv DEF StartTool, PInv, Divided, ToolsThere, drawn
<1>5. CASE EndPass
    <2>1. todo # <<>> /\ stage = "tool" /\ UNCHANGED <<drawn, sel, disk>>
        BY <1>5 DEF EndPass, PInv, Divided
    <2>2. CASE Record(Slice("unexpected", 0))
        BY <2>1, <2>2, RecordInv DEF Slice
    <2>3. ASSUME NEW code \in Codes, Record(SliceOf(code)) PROVE PInv'
        <3>1. /\ SliceOf(code).is # "toolless" /\ SliceOf(code).from \in {0, disk[Here]}
              /\ SliceOf(code).is = "data" => code = 0
            BY DEF SliceOf, Slice, Salvaged
        <3>2. code = 0 => ~Foreign(Binary(Source))
            BY DEF Codes
        <3> QED BY <2>1, <2>3, <3>1, <3>2, RecordInv
    <2> QED BY <1>5, <2>2, <2>3 DEF EndPass
<1>6. CASE InterruptPass
    BY <1>6, QuietInv DEF InterruptPass, PInv, Divided, ToolsThere, drawn
<1>7. CASE EndSelection
    <2>1. DOMAIN slices = requests
        <3>1. Lists(<<>>, requests \ DOMAIN slices) /\ DOMAIN slices \subseteq requests
            BY <1>7 DEF EndSelection, PInv, Divided
        <3>2. \A A : Lists(<<>>, A) => A = {}
            BY DEF Lists
        <3>3. requests \ DOMAIN slices = {}
            BY <3>1, <3>2
        <3> QED BY <3>1, <3>3
    <2>2. Divided' /\ ToolsThere'
        BY <1>7, <2>1 DEF EndSelection, PInv, Divided, ToolsThere, drawn
    <2> QED BY <1>7, <2>2, QuietInv DEF EndSelection
<1>8. CASE NextSelection
    <2> DEFINE n == Len(Selections)
    <2>1. /\ n \in Nat /\ sel \in Nat \ {0} /\ sel <= n /\ sel' = sel + 1
          /\ stage' = IF sel = n THEN "done" ELSE "select"
          /\ UNCHANGED <<drawn, disk>>
        BY <1>8, ProfilingAssumption DEF NextSelection, PInv, Within
    <2>2. sel' \in Nat \ {0} /\ (stage' # "done" => sel' <= n) /\ sel <= sel'
        <3> HIDE DEF n
        <3> QED BY <2>1
    <2>3. Within'
        BY <2>1, <2>2 DEF PInv, Within, drawn
    <2>4. DiskTrue'
        <3>1. \A d \in Dirs : disk[d] \in Nat
            BY <2>1 DEF PInv, DiskTrue
        <3> QED BY <2>1, <2>2, <3>1 DEF PInv, DiskTrue, Earlier, drawn
    <2>5. Divided' /\ SlicesTrue' /\ ToolsThere'
        BY <1>8 DEF NextSelection, PInv, Divided, SlicesTrue, ToolsThere, NoSlice
    <2> QED BY <2>3, <2>4, <2>5 DEF PInv
<1> QED BY <1>1, <1>2, <1>3, <1>4, <1>5, <1>6, <1>7, <1>8 DEF Pass

(* The tool's artifact is its own pass's: no slice that was recorded names *)
(* the directory it is written to, or clears.                              *)
LEMMA WritesInv == PInv /\ ToolWrites => PInv'
<1> SUFFICES ASSUME PInv, ToolWrites PROVE PInv'
    OBVIOUS
<1>1. todo # <<>> /\ stage = "tool" /\ UNCHANGED <<drawn, stage, sel, todo, slices>>
    BY DEF ToolWrites, PInv, Divided
<1>2. /\ Source \in Sources \ DOMAIN slices /\ Here \in Dirs /\ sel \in DOMAIN Selections
    BY <1>1, SourceIs
<1>3. Within' /\ Divided' /\ ToolsThere'
    BY <1>1, MissingStays DEF PInv, Within, Divided, ToolsThere, drawn
<1>4. disk' = [d \in Dirs |-> IF d = Here THEN sel ELSE disk[d]]
    BY DEF ToolWrites, ClearedBy, Here
<1>5. DiskTrue'
    <2>1. sel \in 0..Earlier /\ sel # Earlier /\ Earlier' = Earlier /\ found' = found
        BY <1>1, <1>2, ProfilingAssumption DEF Earlier, drawn
    <2>2. disk' \in [Dirs -> 0..Earlier]
        BY <1>4, <2>1 DEF PInv, DiskTrue
    <2>3. Here[1] = Selections[sel] /\ sel # 0
        BY <1>1, <1>2 DEF Here, Dir, PInv, Within
    <2>4. \A d \in Dirs : disk'[d] # 0 =>
            \/ disk'[d] = Earlier /\ d \in found
            \/ disk'[d] <= sel /\ disk'[d] # Earlier /\ d[1] = Selections[disk'[d]]
        BY <1>2, <1>4, <2>1, <2>3 DEF PInv, DiskTrue, Within
    <2> QED BY <1>1, <2>1, <2>2, <2>4 DEF DiskTrue
<1>6. SlicesTrue'
    <2>1. \A s : (Foreign(Binary(s)) <=> Foreign(Binary(s))') /\ Dir(sel, s)' = Dir(sel, s)
        BY <1>1 DEF drawn, Foreign, Resolve, ResolvePerf, Binary, Dir
    <2>2. \A s \in DOMAIN slices : Dir(sel, s) \in Dirs /\ Dir(sel, s) # Here
        BY <1>2, ElsewhereIsOther DEF PInv, Within, Divided, Dirs, Here
    <2>3. \A s \in DOMAIN slices : disk'[Dir(sel, s)] = disk[Dir(sel, s)]
        BY <1>4, <2>2
    <2> QED BY <1>1, <2>1, <2>3 DEF PInv, SlicesTrue
<1> QED BY <1>3, <1>5, <1>6 DEF PInv

(* Each selection's passes keep the invariant (run_profiling_passes()).    *)
LEMMA PassesInv == PInv /\ [NextProfiling]_allvars => PInv'
<1> SUFFICES ASSUME PInv, [NextProfiling]_allvars PROVE PInv'
    OBVIOUS
<1>1. CASE Tool \/ Stopped \/ UNCHANGED allvars
    <2>1. UNCHANGED <<drawn, passes>>
        BY <1>1 DEF Tool, Stopped, allvars
    <2> QED BY <2>1, QuietInv, MissingStays DEF passes, drawn, PInv, Divided, ToolsThere
<1> QED BY <1>1, PassInv, WritesInv DEF NextProfiling

(* The inductive invariant of the profiling passes of one graph, for every *)
(* set of requests, hosts and engine selections.                           *)
THEOREM PassesInductive == SpecProfiling => []PInv
BY InitPasses, PassesInv, PTL DEF SpecProfiling

(* A selection whose passes end has a slice for each source it asked for,  *)
(* and an artifact a slice names is still there (run_profiling_passes()).  *)
THEOREM SlicesAreKept == SpecProfiling => []SlicesKept
<1>1. PInv => SlicesKept
    BY DEF PInv, Divided, SlicesTrue, SlicesKept
<1> QED BY <1>1, PassesInductive, PTL

(* The counters of a slice are this selection's own, provided no earlier   *)
(* selection has the same engine name, or those an earlier run left in a   *)
(* directory this pass did not write to (_subdir(), find_first()).         *)
THEOREM DataIsOwn == SpecProfiling => []OwnData
<1>1. PInv => OwnData
    <2> SUFFICES ASSUME PInv, sel <= Len(Selections),
                        \A i \in 1..(sel - 1) : Selections[i] # Selections[sel],
                        NEW s \in DOMAIN slices, slices[s].from # 0
                 PROVE  \/ slices[s].from = sel
                        \/ /\ slices[s].from = Earlier /\ Dir(sel, s) \in found
                           /\ disk[Dir(sel, s)] = Earlier
        BY DEF OwnData
    <2>1. Dir(sel, s) \in Dirs /\ slices[s].from = disk[Dir(sel, s)]
        BY ProfilingAssumption DEF PInv, Within, Divided, SlicesTrue, Dirs
    <2>2. CASE disk[Dir(sel, s)] = Earlier
        BY <2>1, <2>2, ProfilingAssumption DEF PInv, Within, DiskTrue, Earlier
    <2>3. CASE disk[Dir(sel, s)] # Earlier
        <3>1. /\ disk[Dir(sel, s)] \in 1..sel
              /\ Selections[disk[Dir(sel, s)]] = Selections[sel]
            BY <2>1, <2>3, ProfilingAssumption DEF PInv, Within, DiskTrue, Dir, Earlier
        <3> QED BY <2>1, <3>1 DEF PInv, Within
    <2> QED BY <2>2, <2>3
<1> QED BY <1>1, PassesInductive, PTL

(* No pass is skipped for want of its tool, and no tool of another ROCm    *)
(* install reports counters (check_requested_tools()).                     *)
THEOREM ToolsAreHonest == SpecProfiling => []ToolsHonest
<1>1. PInv => ToolsHonest
    <2>1. \A s \in Sources \ {"perf"} : Binary(s) # "perf"
        BY DEF Binary, Sources
    <2> QED BY <2>1 DEF PInv, Within, Divided, SlicesTrue, ToolsHonest, Foreign
<1> QED BY <1>1, PassesInductive, PTL

-----------------------------------------------------------------------------
(* Calls and passes together.                                              *)

(* Between two calls the variables of run_capped() are those of none.      *)
NoCall == /\ pc = "spawn" /\ child = "none" /\ helpers = {} /\ raising = "none"
          /\ outcome = "none" /\ cause = "none"
Called == stage \notin {"tool", "interrupted"} => NoCall

TInv == PInv /\ RInv /\ Called

(* run_profiling_passes() steps a call only while one is under way.        *)
LEMMA CallSteps ==
  ASSUME PInv, Called, [NextProfiling]_allvars
  PROVE  /\ UNCHANGED vars \/ (stage = "tool" /\ Next) \/ (NoCall' /\ UNCHANGED interrupts)
         /\ Called'
<1>1. CASE Startup \/ Select \/ SkipPass \/ StartTool \/ EndSelection \/ NextSelection
    BY <1>1 DEF Startup, Select, SkipPass, StartTool, EndSelection, NextSelection, Record,
                Called, NoCall, vars
<1>2. CASE EndPass
    BY <1>2 DEF EndPass, Fresh, Called, NoCall
<1>3. CASE InterruptPass
    BY <1>3 DEF InterruptPass, Called, NoCall, vars
<1>4. CASE Tool
    BY <1>4 DEF Tool, Called, passes
<1>5. CASE ToolWrites
    BY <1>5 DEF ToolWrites, Called, NoCall, vars
<1>6. CASE Stopped \/ UNCHANGED allvars
    BY <1>6 DEF Stopped, allvars, passes, Called, NoCall, vars
<1> QED BY <1>1, <1>2, <1>3, <1>4, <1>5, <1>6 DEF NextProfiling, Pass

LEMMA UnchangedCall == UNCHANGED vars => (RInv => RInv') /\ (IInv => IInv')
BY DEF vars, RInv, IInv, TypeOK, Raised, Told, Waiting, Findable, Gone, Stricken, TornDown

LEMMA FreshCall ==
  ASSUME TypeOK, NoCall', UNCHANGED interrupts PROVE RInv' /\ IInv'
BY DEF NoCall, RInv, IInv, TypeOK, Steps, Raised, Told, Waiting, Findable, Gone, Stricken, TornDown

LEMMA InitCall == InitProfiling => RInv /\ IInv /\ Called
BY CappedRunAssumption, InitInv
   DEF InitProfiling, Init, RInv, Raised, Told, Called, NoCall, IInv

(* Passes and calls keep their invariants together, whichever steps of a   *)
(* call the signals reach.                                                 *)
THEOREM CallsInductive == SpecProfiling => []TInv
<1>1. InitProfiling => TInv
    BY InitPasses, InitCall DEF TInv
<1>2. TInv /\ [NextProfiling]_allvars => TInv'
    BY PassesInv, CallSteps, UnchangedCall, FreshCall, CallTells DEF TInv, RInv
<1> QED BY <1>1, <1>2, PTL DEF SpecProfiling

(* An interrupt is never taken for a tool's failure, and a pass whose tool *)
(* was stopped reports nothing the tool wrote (run_tool()).                *)
THEOREM StoppedGivesNoData == SpecProfiling => StoppedIsNoData
<1> DEFINE A == stage = "tool" /\ slices' # slices =>
                  /\ cause \notin {"int", "term"}
                  /\ slices'[Source].is = "data" => outcome = "completed"
<1>1. TInv /\ [NextProfiling]_allvars => [A]_allvars
    <2> SUFFICES ASSUME TInv, [NextProfiling]_allvars, stage = "tool", slices' # slices
                 PROVE  /\ cause \notin {"int", "term"}
                        /\ slices'[Source].is = "data" => outcome = "completed"
        OBVIOUS
    <2>1. EndPass
        BY DEF NextProfiling, Pass, Startup, Select, SkipPass, StartTool, InterruptPass,
               EndSelection, NextSelection, Tool, ToolWrites, Stopped, allvars, passes
    <2>2. cause \notin {"int", "term"}
        BY <2>1 DEF EndPass, Caught, TInv, RInv, Told
    <2>3. Source \notin DOMAIN slices
        BY <2>1, SourceIs DEF TInv, PInv, Divided
    <2>4. \A slice : Record(slice) => slices'[Source] = slice
        BY DEF Record, Recorded
    <2>5. slices'[Source].is = "data" => outcome = "completed"
        <3>1. CASE Record(Slice("unexpected", 0))
            BY <2>4, <3>1 DEF Slice
        <3>2. ASSUME NEW code \in Codes, Record(SliceOf(code)), outcome \in Unfinished
              PROVE  slices'[Source].is # "data"
            BY <2>4, <3>2 DEF SliceOf, Slice
        <3> QED BY <2>1, <3>1, <3>2 DEF EndPass, Caught, Unfinished
    <2> QED BY <2>2, <2>5
<1> QED BY <1>1, CallsInductive, PTL DEF SpecProfiling, StoppedIsNoData

(* The same with the invariant of a call whose signals reach the steps     *)
(* that the code guards.                                                   *)
LEMMA GuardedCalls == ASSUME Guarded PROVE SpecProfiling => []IInv
<1>1. InitProfiling => TInv /\ IInv
    BY InitPasses, InitCall DEF TInv
<1>2. TInv /\ IInv /\ [NextProfiling]_allvars => TInv' /\ IInv'
    <2> SUFFICES ASSUME TInv, IInv, [NextProfiling]_allvars PROVE TInv' /\ IInv'
        OBVIOUS
    <2>1. TInv'
        BY PassesInv, CallSteps, UnchangedCall, FreshCall, CallTells DEF TInv, RInv
    <2>2. Next => IInv'
        BY CallInv, ToolInv, InterruptInv, UnchangedCall DEF Next, Ended
    <2> QED BY <2>1, <2>2, CallSteps, UnchangedCall, FreshCall DEF TInv, RInv
<1> QED BY <1>1, <1>2, PTL DEF SpecProfiling

(* Whatever pass of whatever selection called it, a tool that the cap or a *)
(* SIGTERM stopped is gone with its process group when the call has ended. *)
THEOREM PassesTearDown == ASSUME Guarded PROVE SpecProfiling => []CapTearsDown
<1>1. IInv => CapTearsDown
    BY DEF IInv, Gone, CapTearsDown
<1> QED BY <1>1, GuardedCalls, PTL

(* The wait at the end of the with statement has no bound, and never needs  *)
(* one: the tool has exited or was killed, or the wait is left out.        *)
ExitAtOnce == pc = "exit" => child # "running" \/ raising = "int"

(* No call waits without a bound for a tool that runs (run_capped(), the   *)
(* end of its with statement).                                             *)
THEOREM CallsExit == ASSUME Guarded PROVE SpecProfiling => []ExitAtOnce
<1>1. IInv => ExitAtOnce
    BY DEF IInv, Stricken, ExitAtOnce
<1> QED BY <1>1, GuardedCalls, PTL

-----------------------------------------------------------------------------
(* The end of the passes.                                                  *)

\* How far run_profiling_passes() is from its end: the selections to go, the
\* stage of this one, its sources to go, the steps of the call.
Over == {"done", "refused", "interrupted"}
StagesToGo == [startup |-> 3, select |-> 2, next |-> 1, tool |-> 1, row |-> 0,
               done |-> 0, refused |-> 0, interrupted |-> 0]
CallToGo == [spawn |-> 6, body |-> 5, communicate |-> 4, caught |-> 3, reap |-> 2,
             exit |-> 1, ended |-> 0]
Rank == <<IF stage \in Over THEN 0 ELSE Len(Selections) + 1 - sel, StagesToGo[stage],
          Len(todo), IF stage = "tool" THEN CallToGo[pc] ELSE 7>>

\* Every step of the passes and of their calls brings the end nearer, and a
\* signal does, wherever it arrives; nothing the tool does puts it off: no
\* pass, wait or kill is tried again.  (run_profiling_passes(), run_capped())
PassesDescend == [][Pass \/ Calling \/ Rank' # Rank => Below(Rank', Rank)]_allvars

(* The stage is one of the table, and what is to do is a list.             *)
Stages == {"startup", "select", "next", "tool", "row", "done", "refused", "interrupted"}
Queued == stage \in Stages /\ todo \in Seq(Sources)

EInv == TInv /\ Queued

LEMMA EndInductive == SpecProfiling => []EInv
<1>1. InitProfiling => Queued
    BY DEF InitProfiling, Queued, Stages
<1>2. TInv /\ Queued /\ [NextProfiling]_allvars => Queued'
    <2> SUFFICES ASSUME TInv, Queued, [NextProfiling]_allvars PROVE Queued'
        OBVIOUS
    <2> USE DEF Queued, Stages
    <2>1. todo # <<>> => Tail(todo) \in Seq(Sources)
        BY HeadTailProperties
    <2>2. CASE Startup \/ SkipPass \/ StartTool \/ EndPass \/ InterruptPass \/ EndSelection
               \/ NextSelection
        BY <2>1, <2>2 DEF Startup, SkipPass, StartTool, EndPass, InterruptPass, EndSelection,
                          NextSelection, Record, TInv, PInv, Divided
    <2>3. CASE Select
        BY <2>3, RequestedOnce DEF Select, Lists, TInv, PInv, Within
    <2>4. CASE Tool \/ ToolWrites \/ Stopped \/ UNCHANGED allvars
        BY <2>4 DEF Tool, ToolWrites, Stopped, allvars, passes
    <2> QED BY <2>2, <2>3, <2>4 DEF NextProfiling, Pass
<1> QED BY <1>1, <1>2, CallsInductive, PTL DEF SpecProfiling, EInv

Selected == IF stage \in Over THEN 0 ELSE Len(Selections) + 1 - sel
OfCall == IF stage = "tool" THEN CallToGo[pc] ELSE 7

LEMMA RankIs ==
  ASSUME EInv
  PROVE  /\ Rank = <<Selected, StagesToGo[stage], Len(todo), OfCall>>
         /\ Selected \in Nat /\ StagesToGo[stage] \in Nat /\ Len(todo) \in Nat /\ OfCall \in Nat
<1>1. Rank = <<Selected, StagesToGo[stage], Len(todo), OfCall>>
    BY DEF Rank, Selected, OfCall
<1>2. Selected \in Nat
    <2>1. Len(Selections) \in Nat /\ sel \in Nat /\ (stage \notin Over => sel <= Len(Selections))
        BY ProfilingAssumption DEF EInv, TInv, PInv, Within, Over
    <2> DEFINE n == Len(Selections)
    <2>2. \A m, k \in Nat : k <= m => m + 1 - k \in Nat
        OBVIOUS
    <2> QED BY <2>1, <2>2 DEF Selected
<1>3. StagesToGo[stage] \in Nat
    BY DEF EInv, Queued, Stages, StagesToGo
<1>4. Len(todo) \in Nat
    BY LenProperties DEF EInv, Queued
<1>5. OfCall \in Nat
    BY DEF EInv, TInv, RInv, TypeOK, Steps, OfCall, CallToGo
<1> QED BY <1>1, <1>2, <1>3, <1>4, <1>5

LEMMA RankFalls ==
  ASSUME EInv, EInv',
         \/ Selected' < Selected
         \/ Selected' = Selected /\ StagesToGo[stage'] < StagesToGo[stage]
         \/ Selected' = Selected /\ StagesToGo[stage'] = StagesToGo[stage]
              /\ Len(todo') < Len(todo)
         \/ Selected' = Selected /\ StagesToGo[stage'] = StagesToGo[stage]
              /\ Len(todo') = Len(todo) /\ OfCall' < OfCall
  PROVE  Below(Rank', Rank)
<1> DEFINE s == StagesToGo[stage]
           t == StagesToGo[stage']
<1>1. /\ Rank = <<Selected, s, Len(todo), OfCall>>
      /\ Selected \in Nat /\ s \in Nat /\ Len(todo) \in Nat /\ OfCall \in Nat
    BY RankIs
<1>2. /\ Rank' = <<Selected', t, Len(todo'), OfCall'>>
      /\ Selected' \in Nat /\ t \in Nat /\ Len(todo') \in Nat /\ OfCall' \in Nat
    <2>1. (EInv => /\ Rank = <<Selected, StagesToGo[stage], Len(todo), OfCall>>
                   /\ Selected \in Nat /\ StagesToGo[stage] \in Nat /\ Len(todo) \in Nat
                   /\ OfCall \in Nat)'
        BY RankIs, PTL
    <2> QED BY <2>1 DEF StagesToGo
<1> HIDE DEF s, t
<1>3. Rank' \in Ranks
    BY <1>2 DEF Ranks
<1>4. /\ 1..0 = {} /\ 1..1 = {1} /\ 1..2 = {1, 2} /\ 1..3 = {1, 2, 3} /\ 1..4 = {1, 2, 3, 4}
    OBVIOUS
<1>5. \E k \in 1..4 : Rank'[k] < Rank[k] /\ \A j \in 1..(k - 1) : Rank'[j] = Rank[j]
    <2>1. CASE Selected' < Selected
        BY <1>1, <1>2, <1>4, <2>1
    <2>2. CASE Selected' = Selected /\ t < s
        BY <1>1, <1>2, <1>4, <2>2
    <2>3. CASE Selected' = Selected /\ t = s /\ Len(todo') < Len(todo)
        BY <1>1, <1>2, <1>4, <2>3
    <2>4. CASE Selected' = Selected /\ t = s /\ Len(todo') = Len(todo) /\ OfCall' < OfCall
        BY <1>1, <1>2, <1>4, <2>4
    <2> QED BY <2>1, <2>2, <2>3, <2>4 DEF s, t
<1> QED BY <1>3, <1>5 DEF Below

(* While the passes go on there is a selection to go.                      *)
LEMMA SelectionToGo ==
  ASSUME EInv, stage \notin Over
  PROVE  /\ Selected = Len(Selections) + 1 - sel /\ sel <= Len(Selections)
         /\ sel \in Nat /\ Len(Selections) \in Nat /\ 0 < Selected
<1>1. sel \in Nat /\ Len(Selections) \in Nat /\ sel <= Len(Selections)
    BY ProfilingAssumption DEF EInv, TInv, PInv, Within, Over
<1>2. Selected = Len(Selections) + 1 - sel
    BY DEF Selected
<1> DEFINE n == Len(Selections)
<1> HIDE DEF n
<1>3. \A m, k \in Nat : k <= m => 0 < m + 1 - k
    OBVIOUS
<1> QED BY <1>1, <1>2, <1>3

(* The same selection, at a stage nearer its end.                          *)
LEMMA StageFalls ==
  ASSUME EInv, EInv', stage \notin Over, stage' \notin Over, sel' = sel,
         StagesToGo[stage'] < StagesToGo[stage]
  PROVE  Below(Rank', Rank)
<1>1. Selected' = Selected
    BY DEF Selected
<1> QED BY <1>1, RankFalls

(* No selection is left once the passes are over.                          *)
LEMMA OverFalls ==
  ASSUME EInv, EInv', stage \notin Over, stage' \in Over PROVE Below(Rank', Rank)
<1>1. Selected' = 0
    BY DEF Selected
<1> QED BY <1>1, SelectionToGo, RankFalls

(* A pass that is recorded is not run again.                               *)
LEMMA RecordFalls ==
  ASSUME EInv, EInv', stage \in {"next", "tool"}, todo # <<>>, sel' = sel,
         NEW slice, Record(slice)
  PROVE  Below(Rank', Rank)
<1>1. Len(todo') < Len(todo)
    <2>1. todo \in Seq(Sources) /\ todo' = Tail(todo)
        BY DEF EInv, Queued, Record
    <2> QED BY <2>1, HeadTailProperties, LenProperties
<1>2. stage' = "next" /\ StagesToGo[stage'] = 1 /\ StagesToGo[stage] = 1
    BY DEF Record, StagesToGo
<1>3. Selected' = Selected
    BY <1>2 DEF Selected, Over
<1> QED BY <1>1, <1>2, <1>3, RankFalls

LEMMA PassFalls ==
  ASSUME EInv, EInv', Pass PROVE Below(Rank', Rank)
<1>1. CASE Startup
    <2>1. CASE stage' = "refused"
        BY <1>1, <2>1, OverFalls DEF Startup, Over
    <2>2. CASE stage' = "select"
        BY <1>1, <2>2, StageFalls DEF Startup, Over, StagesToGo
    <2> QED BY <1>1, <2>1, <2>2 DEF Startup
<1>2. CASE Select \/ EndSelection
    BY <1>2, StageFalls DEF Select, EndSelection, Over, StagesToGo
<1>3. CASE SkipPass
    BY <1>3, RecordFalls DEF SkipPass
<1>4. CASE StartTool
    <2>1. OfCall' = 6 /\ OfCall = 7
        BY <1>4 DEF StartTool, EInv, TInv, Called, NoCall, OfCall, CallToGo, vars
    <2>2. Selected' = Selected /\ StagesToGo[stage'] = StagesToGo[stage] /\ todo' = todo
        BY <1>4 DEF StartTool, Selected, Over, StagesToGo
    <2> QED BY <2>1, <2>2, RankFalls
<1>5. CASE EndPass
    <2>1. stage = "tool" /\ sel' = sel /\ todo # <<>>
        BY <1>5 DEF EndPass, EInv, TInv, PInv, Divided
    <2> QED BY <1>5, <2>1, RecordFalls DEF EndPass
<1>6. CASE InterruptPass
    BY <1>6, OverFalls DEF InterruptPass, Over
<1>7. CASE NextSelection
    <2>1. CASE stage' = "done"
        BY <1>7, <2>1, OverFalls DEF NextSelection, Over
    <2>2. CASE stage' = "select"
        <3>1. Selected' = Len(Selections) + 1 - (sel + 1)
            BY <1>7, <2>2 DEF NextSelection, Selected, Over
        <3>2. stage \notin Over
            BY <1>7 DEF NextSelection, Over
        <3>3. Selected' < Selected
            BY <3>1, <3>2, SelectionToGo
        <3> QED BY <3>3, RankFalls
    <2> QED BY <1>7, <2>1, <2>2 DEF NextSelection
<1> QED BY <1>1, <1>2, <1>3, <1>4, <1>5, <1>6, <1>7 DEF Pass

(* Every step of a call, and every signal, is a step towards its end.      *)
LEMMA CallFalls ==
  ASSUME EInv, EInv', stage = "tool", UNCHANGED passes, CallToGo[pc'] < CallToGo[pc]
  PROVE  Below(Rank', Rank)
<1>1. OfCall' < OfCall
    BY DEF OfCall, passes
<1>2. Selected' = Selected /\ stage' = stage /\ todo' = todo
    BY DEF Selected, passes
<1> QED BY <1>1, <1>2, RankFalls

LEMMA StepsDescend ==
  ASSUME EInv, Call \/ \E sig \in {"int", "term"} : Interrupt(sig)
  PROVE  CallToGo[pc'] < CallToGo[pc]
<1> USE DEF CallToGo
<1>1. CASE Call
    BY <1>1 DEF Call, Spawn, EnterTry, Communicate, CapReached, KillTree, Reap, ReapTimesOut,
                Exit
<1>2. CASE \E sig \in {"int", "term"} : Interrupt(sig)
    BY <1>2, CappedRunAssumption DEF Interrupt, AfterSignal
<1> QED BY <1>1, <1>2

(* Every step of the passes and of their calls, and every signal, brings   *)
(* the end nearer, and the tool never puts it off: no pass, wait or kill   *)
(* is tried again (run_profiling_passes(), run_capped()).                  *)
THEOREM PassesComeNearer == SpecProfiling => PassesDescend
<1> DEFINE A == Pass \/ Calling \/ Rank' # Rank => Below(Rank', Rank)
<1>1. EInv /\ EInv' /\ [NextProfiling]_allvars => [A]_allvars
    <2> SUFFICES ASSUME EInv, EInv', [NextProfiling]_allvars, ~Pass, ~Calling
                 PROVE  Rank' # Rank => Below(Rank', Rank)
        <3>1. Calling /\ EInv /\ EInv' => Below(Rank', Rank)
            BY CallFalls, StepsDescend DEF Calling
        <3> QED BY <3>1, PassFalls
    <2>1. CASE Tool
        <3>1. CASE \E sig \in {"int", "term"} : Interrupt(sig)
            BY <2>1, <3>1, CallFalls, StepsDescend DEF Tool
        <3>2. CASE Fork \/ ChildExits \/ HelperExits \/ Ended
            <4>1. pc' = pc
                BY <3>2 DEF Fork, ChildExits, HelperExits, Ended, vars
            <4> QED BY <2>1, <4>1 DEF Tool, passes, Rank
        <3> QED BY <2>1, <3>1, <3>2 DEF Tool, Next, Calling
    <2>2. CASE ToolWrites \/ Stopped \/ UNCHANGED allvars
        <3>1. UNCHANGED <<stage, sel, todo, pc>>
            BY <2>2 DEF ToolWrites, Stopped, allvars, vars, passes
        <3> QED BY <3>1 DEF Rank
    <2> QED BY <2>1, <2>2 DEF NextProfiling
<1> QED BY <1>1, EndInductive, PTL DEF SpecProfiling, PassesDescend
=============================================================================
