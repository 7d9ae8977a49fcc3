--------------------------- MODULE RowLife_proofs ---------------------------
(***************************************************************************)
(* Proofs about RowLife for all tensors, graphs and rows and any number of *)
(* replays.  A row goes through its steps in order (Control), a replay has *)
(* what it reads and keeps what is read later (Replayed), and the memory   *)
(* holds at each step what the row put there (Memory): whatever was in the *)
(* memory before is gone when the launch that is compared begins.          *)
(***************************************************************************)
EXTENDS RowLife, TLAPS

-----------------------------------------------------------------------------
(* Control: which row is where, and how far it is.                         *)

RowKinds == {"pytorch", "provider", "hipdnn", "rocke"}
Preparing == {"provide", "prepare", "alloc", "load", "bind", "time", "measured"}
Replaying == {"begin", "op", "sdpa", "unwind"}
AllSteps == Preparing \cup Replaying \cup {"next", "zero", "sync", "collect", "once",
                                           "compare", "cleanup"}

Typed ==
  /\ graph \in GraphsRun /\ rows \in Rows
  /\ r \in Nat \ {0} /\ step \in Nat \ {0} /\ ran \in Nat
  /\ pc \in AllSteps /\ on \in {"own", "replay"}
  /\ pc # "next" => r \in 1..Len(rows)

(* The steps of each kind of row.                                          *)
Placed ==
  pc # "next" =>
    /\ pc \in Replaying \cup {"collect"} => Row \in {"pytorch", "provider"}
    /\ pc = "provide" => Row = "provider"
    /\ pc \in (Preparing \ {"provide"}) \cup {"zero", "sync"} => Row # "provider"
    /\ pc = "bind" => Row = "rocke"
    /\ pc \in {"once", "compare"} => Row \in {"hipdnn", "rocke"}

(* The timed loop comes first, and of the torch rows only it has a map of  *)
(* its own.                                                                *)
Phased ==
  /\ pc \in Preparing \cup {"next"} => ~measured
  /\ pc \in {"once", "compare", "collect"} => measured
  /\ pc \in Replaying => (on = "own" <=> measured)
  /\ on = "replay" => pc \in Replaying \cup {"measured", "cleanup"} /\ Row = "pytorch"
  /\ on = "replay" => ~measured

(* Every replay of this row begins by counting itself.                     *)
Counted ==
  /\ pc \in {"op", "sdpa"} => ran >= 1
  /\ pc \in {"next", "provide", "prepare", "alloc", "load", "bind"} => ran = 0
  /\ pc \in {"zero", "sync"} /\ ~measured => ran = 0
  /\ pc = "time" /\ Row = "pytorch" => ran = 0
  /\ pc = "sdpa" => step <= Len(graph) /\ graph[step].op = "sdpa"

(* No verdict before the row is over, and no reference before the first    *)
(* row is.                                                                 *)
Unjudged ==
  /\ pc # "cleanup" => verdict = NoVerdict
  /\ r = 1 /\ pc # "cleanup" => DOMAIN ref = {}

EngineOK ==
  /\ engine.asked /\ engine.kind \in Kinds
  /\ engine.kind = "scratch" => Row = "hipdnn" /\ scratch = "dirty"
  /\ scratch \in {"none", "dirty"}

Control == Typed /\ Placed /\ Phased /\ Counted /\ Unjudged /\ EngineOK

-----------------------------------------------------------------------------
(* Attention switches.                                                     *)

HasSdpa == \E i \in DOMAIN graph : graph[i].op = "sdpa"
Switches ==
  /\ sdpa \in [active : BOOLEAN, native : BOOLEAN, before : BOOLEAN]
  /\ switched => pc = "sdpa"
  /\ sdpa.active => pc \in {"op", "sdpa", "unwind"}
  /\ sdpa.native \/ sdpa.before => HasSdpa
  /\ (pc = "measured" \/ measured) /\ IsTorchRow /\ strict => HasSdpa

-----------------------------------------------------------------------------
(* Replays.                                                                *)

(* What a replay may need is in its map, or was dropped after its last use.*)
Dropped(u) == \E k \in 1..(step - 1) : u \in VirtualReleases(graph)[k]
Present ==
  /\ pc \in {"begin", "op", "sdpa"} => Inputs \subseteq DOMAIN Tensors
  /\ pc \in {"op", "sdpa"} =>
       \A u \in Stored(graph, step - 1) : u \in DOMAIN Tensors \/ Dropped(u)
  /\ pc \in {"op", "sdpa"} => step <= Len(graph) + 1

(* The virtual tensors of the map are those that a later node names.       *)
Live ==
  /\ pc = "begin" => Virtuals \cap DOMAIN Tensors = {}
  /\ pc \in {"op", "sdpa"} =>
       \A u \in Virtuals \cap DOMAIN Tensors :
         \E j \in step..Len(graph) : u \in ReferencedUids(graph[j])

(* The first timed replay has read every host value the later ones need.   *)
Primed ==
  /\ on = "replay" /\ pc \in {"op", "sdpa"} =>
       \A i \in DOMAIN graph :
         graph[i].op = "scalar" /\ (i < step \/ ran > 1) =>
           ReadUids(graph[i]) \subseteq DOMAIN cache
  /\ on = "replay" /\ pc = "begin" /\ ran >= 1 =>
       \A i \in DOMAIN graph : graph[i].op = "scalar" => ReadUids(graph[i]) \subseteq DOMAIN cache
  /\ reads \subseteq {1}

-----------------------------------------------------------------------------
(* Memory.                                                                 *)

Fine == {"data", "right"}
Good(s) == s \in DOMAIN mem /\ mem[s] \in Fine

(* The buffers a row allocated are its own while it is timed.              *)
Fixed == {"load", "zero", "sync", "time", "bind", "measured", "once", "compare"}
Buffers ==
  /\ pc \in Fixed \/ (on = "replay" /\ pc \in Replaying) =>
       /\ own = [u \in Buffered |-> <<r, u, 0>>]
       /\ Storages(own) \subseteq DOMAIN mem
  /\ pc \in {"next", "provide", "prepare", "alloc"} => DOMAIN own = {}
  /\ on = "own" => DOMAIN replay = {}

(* Every storage is this row's or the reference's.                         *)
Mine ==
  /\ \A u \in DOMAIN own : own[u][1] = r
  /\ \A u \in DOMAIN replay : replay[u][1] = r
  /\ pc # "cleanup" => \A s \in DOMAIN mem : s[1] = r \/ s \in Storages(ref)

(* Its inputs hold what was loaded.                                        *)
Fed ==
  pc \in (Fixed \ {"load"}) \cup {"begin", "op", "sdpa", "collect"} =>
    \A u \in Inputs :
      /\ u \in DOMAIN own /\ own[u] = <<r, u, 0>>
      /\ <<r, u, 0>> \in DOMAIN mem /\ mem[<<r, u, 0>>] = "data"
      /\ on = "replay" /\ pc \in {"begin", "op", "sdpa"} =>
           u \in DOMAIN replay /\ replay[u] = <<r, u, 0>>

(* What earlier rows left on the device is the reference, and right.       *)
Referred ==
  /\ \A u \in DOMAIN ref : Good(ref[u]) /\ ref[u][1] \in Nat
  /\ pc # "cleanup" => \A u \in DOMAIN ref : ref[u][1] < r
  /\ pc = "cleanup" => \A u \in DOMAIN ref : ref[u][1] <= r

(* A replay computes from nothing but inputs and right results.            *)
Computed ==
  /\ pc \in {"op", "sdpa"} =>
       \A u \in (Inputs \cup Stored(graph, step - 1)) \cap DOMAIN Tensors : Good(Tensors[u])
  /\ \A u \in DOMAIN cache : cache[u] \in Fine
  /\ pc = "collect" => \A u \in Outputs \cap DOMAIN own : Good(own[u])

(* The outputs are zero before the launch that is compared.                *)
OutputIs(c) == \A u \in Outputs : mem[<<r, u, 0>>] = c
Zeros ==
  /\ pending # {} => pc = "sync" /\ pending = OutputStorages
  /\ pc = "once" \/ (pc = "sync" /\ pending = {}) => OutputIs("zero")

(* What that launch leaves there.                                          *)
Launches ==
  pc = "compare" =>
    /\ engine.kind \in Correct => OutputIs("right")
    /\ engine.kind \notin Correct /\ Outputs # {} =>
         \E u \in Outputs : mem[<<r, u, 0>>] \notin Fine

Memory == Buffers /\ Mine /\ Fed /\ Referred /\ Computed /\ Zeros /\ Launches

OnlyReference == pc = "next" => DOMAIN mem = Storages(ref)
Replayed == Present /\ Live /\ Primed
IInv == Control /\ Switches /\ Replayed /\ Memory /\ OnlyReference
-----------------------------------------------------------------------------
(* The control of a row.                                                   *)

LEMMA RowIs ==
  ASSUME Typed, pc # "next"
  PROVE  Row \in RowKinds /\ IsTorchRow = (Row = "pytorch")
                          /\ (Row \in {"pytorch", "provider"} => r = 1)
<1>1. r \in 1..Len(rows) /\ rows \in Seq(RowKinds) /\ r \in Nat \ {0}
    BY RowsAssumption DEF Typed, RowKinds
<1>2. Row \in RowKinds
    BY <1>1 DEF Row
<1>3. r # 1 => Row \in {"hipdnn", "rocke"}
    BY <1>1, RowsAssumption DEF Typed, Row
<1> QED BY <1>1, <1>2, <1>3 DEF IsTorchRow, IsTorch

LEMMA GraphIs ==
  ASSUME Typed
  PROVE  /\ graph \in Seq(Nodes) /\ WellFormed(graph)
         /\ Len(graph) \in Nat /\ DOMAIN graph = 1..Len(graph)
BY GraphsAreGraphs DEF Typed, Graphs

LEMMA InitControl == Init => Control
<1> SUFFICES ASSUME Init PROVE Control
    OBVIOUS
<1> USE DEF Init
<1>1. Typed
    BY DEF Typed, AllSteps, Preparing, Replaying
<1>2. Placed /\ Phased /\ Counted /\ Unjudged
    BY DEF Placed, Phased, Counted, Unjudged, Preparing, Replaying, Nothing
<1>3. EngineOK
    BY DEF EngineOK, AnyEngine, Kinds
<1> QED BY <1>1, <1>2, <1>3 DEF Control

LEMMA ControlInv == Control /\ [Next]_vars => Control'
<1> SUFFICES ASSUME Control, [Next]_vars PROVE Control'
    OBVIOUS
<1> USE ReplaysAssumption
        DEF Control, Typed, Placed, Phased, Counted, Unjudged, EngineOK, RowKinds, Preparing,
            Replaying, AllSteps, Goto, Raise, drawn, tensors, replaying, planned, Row, IsTorch
<1>1. pc # "next" => Row \in RowKinds
    BY RowIs
<1>2. CASE StartRow      BY <1>1, <1>2, RowsAssumption DEF StartRow
<1>3. CASE TorchPrepare  BY <1>1, <1>3 DEF TorchPrepare
<1>4. CASE Provide       BY <1>1, <1>4 DEF Provide
<1>5. CASE HipPrepare    BY <1>1, <1>5 DEF HipPrepare, SelectedEngine
<1>6. CASE RockePrepare  BY <1>1, <1>6 DEF RockePrepare
<1>7. CASE Allocate      BY <1>1, <1>7 DEF Allocate
<1>8. CASE Load \/ ZeroOutputs \/ ZeroLands
    BY <1>1, <1>8 DEF Load, ZeroOutputs, ZeroLands
<1>9. CASE Zeroed        BY <1>1, <1>9 DEF Zeroed
<1>10. CASE TorchBenchmark BY <1>1, <1>10 DEF TorchBenchmark
<1>11. CASE BeginReplay  BY <1>1, <1>11 DEF BeginReplay
<1>12. CASE RunOp        BY <1>1, <1>12 DEF RunOp, AtOp
<1>13. CASE RunScalarOp  BY <1>1, <1>13 DEF RunScalarOp, AtOp
<1>14. CASE SdpaEnter    BY <1>1, <1>14 DEF SdpaEnter, AtOp, Node
<1>15. CASE SdpaReturn   BY <1>1, <1>15 DEF SdpaReturn
<1>16. CASE OpFails      BY <1>1, <1>16 DEF OpFails, AtOp
<1>17. CASE EndReplay    BY <1>1, <1>17 DEF EndReplay
<1>18. CASE Unwind       BY <1>1, <1>18 DEF Unwind
<1>19. CASE Measured     BY <1>1, <1>19 DEF Measured
<1>20. CASE Collect      BY <1>1, <1>20 DEF Collect
<1>21. CASE Enqueue      BY <1>1, <1>21 DEF Enqueue
<1>22. CASE EnqueueFails BY <1>1, <1>22 DEF EnqueueFails
<1>23. CASE ExecuteOnce  BY <1>1, <1>23 DEF ExecuteOnce
<1>24. CASE Compare      BY <1>1, <1>24 DEF Compare
<1>25. CASE Cleanup      BY <1>1, <1>25 DEF Cleanup, AnyEngine, Kinds
<1>26. CASE Finished \/ UNCHANGED vars
    BY <1>1, <1>26 DEF Finished, vars
<1> QED BY <1>2, <1>3, <1>4, <1>5, <1>6, <1>7, <1>8, <1>9, <1>10, <1>11, <1>12, <1>13, <1>14,
           <1>15, <1>16, <1>17, <1>18, <1>19, <1>20, <1>21, <1>22, <1>23, <1>24, <1>25, <1>26
        DEF Next

-----------------------------------------------------------------------------
(* Attention switches.                                                     *)

LEMMA SwitchesInv == Control /\ Switches /\ [Next]_vars => Switches'
<1> SUFFICES ASSUME Control, Switches, [Next]_vars PROVE Switches'
    OBVIOUS
<1> USE DEF Switches, HasSdpa, Goto, Raise, drawn, tensors, replaying, planned, IsTorchRow,
            IsTorch, Row
<1>1. CASE StartRow \/ TorchPrepare \/ HipPrepare \/ RockePrepare \/ Allocate
    BY <1>1 DEF StartRow, TorchPrepare, HipPrepare, RockePrepare, Allocate
<1>2. CASE Provide
    BY <1>2 DEF Provide, Control, Placed
<1>3. CASE Load \/ ZeroOutputs \/ ZeroLands \/ Zeroed \/ TorchBenchmark
    BY <1>3 DEF Load, ZeroOutputs, ZeroLands, Zeroed, TorchBenchmark
<1>4. CASE BeginReplay
    BY <1>4 DEF BeginReplay
<1>5. CASE RunOp \/ RunScalarOp \/ OpFails
    BY <1>5 DEF RunOp, RunScalarOp, OpFails, AtOp
<1>6. CASE SdpaEnter
    BY <1>6 DEF SdpaEnter, AtOp, Selected
<1>7. CASE SdpaReturn
    <2>1. step \in DOMAIN graph /\ graph[step].op = "sdpa"
        BY <1>7, GraphIs DEF SdpaReturn, Control, Typed, Counted
    <2> QED BY <1>7, <2>1 DEF SdpaReturn, AfterCall, Selected
<1>8. CASE EndReplay
    BY <1>8 DEF EndReplay, Accumulated, Honoured
<1>9. CASE Unwind
    BY <1>9 DEF Unwind, Accumulated
<1>10. CASE Measured
    BY <1>10 DEF Measured
<1>11. CASE Collect \/ ExecuteOnce \/ Compare \/ EnqueueFails
    BY <1>11 DEF Collect, ExecuteOnce, Compare, EnqueueFails
<1>12. CASE Enqueue
    BY <1>12 DEF Enqueue
<1>13. CASE Cleanup
    BY <1>13 DEF Cleanup, Idle
<1>14. CASE Finished \/ UNCHANGED vars
    BY <1>14 DEF Finished, vars
<1> QED BY <1>1, <1>2, <1>3, <1>4, <1>5, <1>6, <1>7, <1>8, <1>9, <1>10, <1>11, <1>12, <1>13,
           <1>14 DEF Next

-----------------------------------------------------------------------------
(* A replay.                                                               *)

(* What a node reads was not dropped by an earlier one.                    *)
LEMMA ReadsArePresent ==
  ASSUME Control, Present, pc \in {"op", "sdpa"}, step <= Len(graph)
  PROVE  /\ step \in DOMAIN graph /\ Node \in Nodes
         /\ ReadUids(Node) \subseteq DOMAIN Tensors
         /\ ReadUids(Node) \subseteq Inputs \cup Stored(graph, step - 1)
         /\ Node.out \notin Inputs
<1>1. /\ graph \in Seq(Nodes) /\ WellFormed(graph) /\ Len(graph) \in Nat
      /\ DOMAIN graph = 1..Len(graph)
    BY GraphIs DEF Control
<1>2. step \in DOMAIN graph /\ Node \in Nodes
    BY <1>1 DEF Control, Typed, Node
<1>3. ReadUids(Node) \subseteq Inputs \cup Stored(graph, step - 1) /\ Node.out \notin Inputs
    BY <1>1, <1>2 DEF WellFormed, Node
<1>4. ASSUME NEW u \in ReadUids(Node), Dropped(u) PROVE FALSE
    <2>1. PICK k \in 1..(step - 1) : u \in VirtualReleases(graph)[k]
        BY <1>4 DEF Dropped
    <2>2. k \in DOMAIN graph /\ k < step
        BY <1>1, <1>2, <2>1 DEF Control, Typed
    <2>3. IsLastUse(graph, u, k)
        BY <2>1, <2>2 DEF VirtualReleases
    <2>4. step \in Users(graph, u)
        BY <1>2, <1>4 DEF Users, ReferencedUids, ReadUids, Node
    <2>5. step <= k
        BY <2>3, <2>4 DEF IsLastUse
    <2> QED BY <1>1, <1>2, <2>2, <2>5
<1>5. ReadUids(Node) \subseteq DOMAIN Tensors
    BY <1>3, <1>4 DEF Present
<1> QED BY <1>2, <1>3, <1>5

(* The map after a node's store.                                           *)
LEMMA StoredNext ==
  ASSUME NEW map, NEW s
  PROVE  /\ DOMAIN Next_(map, s) = (DOMAIN map \cup {Node.out}) \ VirtualReleases(graph)[step]
         /\ \A u \in DOMAIN Next_(map, s) :
              Next_(map, s)[u] = IF u = Node.out THEN s ELSE map[u]
BY DEF Next_

LEMMA StoreMoves ==
  ASSUME Control, NEW s, Store(s), on' = on
  PROVE  /\ Tensors' = Next_(Tensors, s)
         /\ on = "own" => own' = Tensors' /\ replay' = replay
         /\ on = "replay" => own' = own /\ replay' = Tensors'
BY DEF Store, StoredIn, Tensors, Control, Typed

(* Storing and releasing keep what a later node needs, and only that.      *)
LEMMA StoreKeeps ==
  ASSUME Control, Present, Live, pc \in {"op", "sdpa"}, step <= Len(graph),
         NEW s, Store(s), on' = on, graph' = graph, step' = step + 1,
         pc' \in {"op", "sdpa"}
  PROVE  Present' /\ Live'
<1> DEFINE D == (DOMAIN Tensors \cup {Node.out}) \ VirtualReleases(graph)[step]
<1>1. /\ graph \in Seq(Nodes) /\ Len(graph) \in Nat /\ DOMAIN graph = 1..Len(graph)
      /\ step \in DOMAIN graph /\ step \in Nat /\ Node.out \notin Inputs
    BY GraphIs, ReadsArePresent DEF Control, Typed
<1>2. DOMAIN Tensors' = D
    BY StoreMoves, StoredNext
<1>3. VirtualReleases(graph)[step] = {u \in Virtuals : IsLastUse(graph, u, step)}
    BY <1>1 DEF VirtualReleases
<1>4. Inputs \subseteq D
    BY <1>3, DisjointUids DEF Present
<1>5. ASSUME NEW u \in Stored(graph, step) PROVE u \in D \/ Dropped(u)'
    <2>1. PICK i \in 1..step : u = graph[i].out
        BY <1>5 DEF Stored
    <2>2. u \in DOMAIN Tensors \cup {Node.out} \/ Dropped(u)
        <3>1. CASE i = step
            BY <2>1, <3>1 DEF Node
        <3>2. CASE i # step
            <4>1. i \in 1..(step - 1)
                BY <1>1, <3>2
            <4>2. u \in Stored(graph, step - 1)
                BY <2>1, <4>1 DEF Stored
            <4> QED BY <4>2 DEF Present
        <3> QED BY <3>1, <3>2
    <2>3. Dropped(u) => Dropped(u)'
        <3> SUFFICES ASSUME NEW k \in 1..(step - 1), u \in VirtualReleases(graph)[k]
                     PROVE  \E j \in 1..(step' - 1) : u \in VirtualReleases(graph')[j]
            BY DEF Dropped
        <3> QED BY <1>1
    <2>4. u \in VirtualReleases(graph)[step] => Dropped(u)'
        BY <1>1 DEF Dropped
    <2> QED BY <2>2, <2>3, <2>4
<1>6. Present'
    BY <1>1, <1>2, <1>4, <1>5 DEF Present
<1>7. ASSUME NEW u \in Virtuals \cap D
      PROVE  \E j \in (step + 1)..Len(graph) : u \in ReferencedUids(graph[j])
    <2>1. \E j \in step..Len(graph) : u \in ReferencedUids(graph[j])
        BY <1>1, <1>7 DEF Live, ReferencedUids, Node
    <2>2. ~IsLastUse(graph, u, step)
        BY <1>3, <1>7
    <2>3. CASE step \in Users(graph, u)
        <3>1. PICK j \in Users(graph, u) : ~(j <= step)
            BY <2>2, <2>3 DEF IsLastUse
        <3>2. j \in 1..Len(graph) /\ u \in ReferencedUids(graph[j])
            BY <1>1, <3>1 DEF Users
        <3> QED BY <1>1, <3>1, <3>2
    <2>4. CASE step \notin Users(graph, u)
        BY <1>1, <2>1, <2>4 DEF Users
    <2> QED BY <2>3, <2>4
<1>8. Live'
    BY <1>2, <1>7 DEF Live
<1> QED BY <1>6, <1>8

(* A step that does not lead into a replay, and forgets or keeps what was  *)
(* read.                                                                   *)
Outside == pc' \notin {"begin", "op", "sdpa"} /\ reads' \in {reads, {}}

LEMMA OutsideSteps ==
  ASSUME [Next]_vars
  PROVE  \/ Outside
         \/ UNCHANGED <<graph, pc, own, replay, on, step, ran, cache, reads>>
         \/ Provide \/ Zeroed \/ TorchBenchmark \/ BeginReplay \/ RunOp \/ RunScalarOp
         \/ SdpaEnter \/ SdpaReturn \/ EndReplay
<1> USE DEF Outside, Goto, Raise, drawn, tensors, replaying, planned
<1>1. CASE StartRow \/ TorchPrepare \/ HipPrepare \/ RockePrepare \/ Allocate
    BY <1>1 DEF StartRow, TorchPrepare, HipPrepare, RockePrepare, Allocate
<1>2. CASE Load \/ ZeroOutputs \/ ZeroLands
    BY <1>2 DEF Load, ZeroOutputs, ZeroLands
<1>3. CASE OpFails \/ Unwind \/ Measured \/ Collect
    BY <1>3 DEF OpFails, Unwind, Measured, Collect
<1>4. CASE Enqueue \/ EnqueueFails \/ ExecuteOnce \/ Compare \/ Cleanup
    BY <1>4 DEF Enqueue, EnqueueFails, ExecuteOnce, Compare, Cleanup
<1>5. CASE Finished \/ UNCHANGED vars
    BY <1>5 DEF Finished, vars
<1> QED BY <1>1, <1>2, <1>3, <1>4, <1>5 DEF Next

(* The map a row starts with: its buffers, or the inputs of a provider.    *)
LEMMA ReplayBegins ==
  ASSUME Control, Memory, Provide \/ Zeroed \/ TorchBenchmark, Replayed
  PROVE  Replayed'
<1> USE DisjointUids
        DEF Control, Replayed, Present, Live, Primed, Tensors, Goto, Raise, replaying, drawn,
            Preparing, Replaying
<1>1. CASE Provide
    BY <1>1 DEF Provide, Counted
<1>2. CASE Zeroed
    BY <1>2 DEF Zeroed, Memory, Buffers, Fixed, Buffered
<1>3. CASE TorchBenchmark
    BY <1>3 DEF TorchBenchmark, Memory, Buffers, Fixed, Buffered, Counted, IsTorch
<1> QED BY <1>1, <1>2, <1>3

LEMMA PrimedStep ==
  ASSUME Control, Primed, pc \in {"op", "sdpa"}, step \in DOMAIN graph,
         pc' \in {"op", "sdpa"}, graph' = graph, on' = on, ran' = ran, step' = step + 1,
         cache' = cache, reads' = reads, Node.op # "scalar"
  PROVE  Primed'
<1>1. \A i \in DOMAIN graph : i < step + 1 /\ graph[i].op = "scalar" => i < step
    BY GraphIs DEF Node, Control
<1> QED BY <1>1 DEF Primed

LEMMA ReplayRuns ==
  ASSUME Control, Replayed, RunOp \/ RunScalarOp \/ SdpaReturn
  PROVE  Replayed'
<1>1. pc \in {"op", "sdpa"} /\ step <= Len(graph) /\ step \in DOMAIN graph
    BY GraphIs DEF RunOp, RunScalarOp, AtOp, SdpaReturn, Control, Counted, Typed
<1>2. CASE RunOp
    <2>1. PICK s : Store(s)
        BY <1>2 DEF RunOp
    <2>2. Present' /\ Live'
        BY <1>1, <1>2, <2>1, StoreKeeps DEF RunOp, Replayed, drawn
    <2>3. Node.op # "scalar"
        BY <1>2 DEF RunOp
    <2>4. Primed'
        BY <1>1, <1>2, <2>3, PrimedStep DEF RunOp, Replayed, drawn
    <2> QED BY <2>2, <2>4 DEF Replayed
<1>3. CASE RunScalarOp
    <2>1. Present' /\ Live'
        BY <1>1, <1>3, StoreKeeps DEF RunScalarOp, Replayed, drawn
    <2>2. on = "own" => Primed'
        BY <1>3 DEF RunScalarOp, Replayed, Primed
    <2>3. CASE on = "replay"
        <3>1. /\ DOMAIN cache' = DOMAIN cache \cup ReadUids(Node)
              /\ graph' = graph /\ step' = step + 1 /\ ran' = ran /\ on' = on /\ pc' = pc
              /\ pc = "op"
            BY <1>3, <2>3 DEF RunScalarOp, Memoised, AtOp, drawn
        <3>2. \A i \in DOMAIN graph :
                graph[i].op = "scalar" /\ (i < step + 1 \/ ran > 1)
                  => ReadUids(graph[i]) \subseteq DOMAIN cache'
            <4> SUFFICES ASSUME NEW i \in DOMAIN graph, graph[i].op = "scalar",
                                i < step + 1 \/ ran > 1
                         PROVE  ReadUids(graph[i]) \subseteq DOMAIN cache'
                OBVIOUS
            <4>1. CASE i = step
                BY <3>1, <4>1 DEF Node
            <4>2. CASE i # step
                <5>1. i < step \/ ran > 1
                    BY <4>2, GraphIs DEF Control, Typed
                <5> QED BY <2>3, <3>1, <5>1 DEF Replayed, Primed
            <4> QED BY <4>1, <4>2
        <3>3. reads' \subseteq {1}
            <4>1. CASE ran = 1
                BY <1>3, <4>1 DEF RunScalarOp, Replayed, Primed
            <4>2. CASE ran # 1
                <5>1. ran > 1
                    BY <1>1, <4>2 DEF Control, Counted, Typed
                <5>2. \A u \in ReadUids(Node) : Cached(u)
                    BY <1>1, <1>3, <2>3, <5>1 DEF RunScalarOp, Replayed, Primed, Cached, Node
                <5>3. reads' = reads
                    BY <1>3, <5>2 DEF RunScalarOp
                <5> QED BY <5>3 DEF Replayed, Primed
            <4> QED BY <4>1, <4>2
        <3>4. Primed'
            BY <3>1, <3>2, <3>3 DEF Primed
        <3> QED BY <2>1, <3>4 DEF Replayed
    <2> QED BY <2>1, <2>2, <2>3 DEF Replayed, Control, Typed
<1>4. CASE SdpaReturn
    <2>1. Node.op # "scalar" /\ pc = "sdpa"
        BY <1>4 DEF SdpaReturn, Control, Counted, Node
    <2>2. CASE pc' = "op"
        <3>1. /\ Store(NewStorage) /\ step' = step + 1
              /\ UNCHANGED <<graph, on, ran, cache, reads>>
            BY <1>4, <2>2 DEF SdpaReturn, Goto, drawn
        <3> QED BY <1>1, <2>1, <2>2, <3>1, StoreKeeps, PrimedStep DEF Replayed
    <2>3. CASE pc' # "op"
        <3>1. pc' = "unwind" /\ reads' = reads
            BY <1>4, <2>3 DEF SdpaReturn, Goto
        <3> QED BY <3>1 DEF Replayed, Present, Live, Primed
    <2> QED BY <2>2, <2>3
<1> QED BY <1>2, <1>3, <1>4

LEMMA ReplayedInv ==
  ASSUME Control, Memory, Replayed, [Next]_vars
  PROVE  Replayed'
<1> USE DEF Control, Replayed, Present, Live, Primed
<1>1. CASE Outside
    BY <1>1 DEF Outside
<1>2. CASE UNCHANGED <<graph, pc, own, replay, on, step, ran, cache, reads>>
    BY <1>2 DEF Tensors, Dropped
<1>3. CASE Provide \/ Zeroed \/ TorchBenchmark
    BY <1>3, ReplayBegins
<1>4. CASE RunOp \/ RunScalarOp \/ SdpaReturn
    BY <1>4, ReplayRuns
<1>5. CASE BeginReplay
    <2>1. /\ pc = "begin" /\ pc' = "op" /\ step' = 1 /\ ran' = ran + 1
          /\ UNCHANGED <<graph, own, replay, on, cache, reads>>
        BY <1>5 DEF BeginReplay, Goto, drawn, tensors
    <2>2. Stored(graph, 0) = {}
        BY DEF Stored
    <2>3. Present' /\ Live'
        BY <2>1, <2>2, GraphIs DEF Tensors
    <2>4. Primed'
        BY <2>1, GraphIs DEF Typed
    <2> QED BY <2>3, <2>4
<1>6. CASE SdpaEnter
    BY <1>6 DEF SdpaEnter, AtOp, Goto, Tensors, Dropped, drawn, tensors
<1>7. CASE EndReplay
    <2>1. /\ pc = "op" /\ step > Len(graph) /\ pc' \notin {"op", "sdpa"}
          /\ UNCHANGED <<graph, own, replay, on, step, ran, cache, reads>>
        BY <1>7 DEF EndReplay, Goto, drawn, tensors
    <2>2. Tensors' = Tensors
        BY <2>1 DEF Tensors
    <2>3. Len(graph) \in Nat /\ DOMAIN graph = 1..Len(graph) /\ step \in Nat
        BY GraphIs DEF Typed
    <2>4. Present' /\ Live'
        BY <2>1, <2>2, <2>3
    <2>5. Primed'
        BY <2>1, <2>3
    <2> QED BY <2>4, <2>5
<1> QED BY <1>1, <1>2, <1>3, <1>4, <1>5, <1>6, <1>7, OutsideSteps

-----------------------------------------------------------------------------
(* Memory.                                                                 *)

(* A node that reads only inputs and right results computes a right one.   *)
LEMMA ResultIsRight ==
  ASSUME Control, Present, Computed, pc \in {"op", "sdpa"}, step <= Len(graph)
  PROVE  Result = "right" /\ \A u \in ReadUids(Node) : Value(u) \in Fine /\ Good(Tensors[u])
<1>1. ASSUME NEW u \in ReadUids(Node)
      PROVE  Good(Tensors[u]) /\ Value(u) \in Fine
    <2>1. Good(Tensors[u])
        BY <1>1, ReadsArePresent DEF Computed
    <2>2. Value(u) \in Fine
        BY <2>1 DEF Value, Cached, Computed, Good
    <2> QED BY <2>1, <2>2
<1>2. Result = "right"
    BY <1>1 DEF Result, Fine
<1> QED BY <1>1, <1>2

(* A store leaves the inputs and the results so far as they were, and adds *)
(* a right result; what is not in a map any more is gone.                  *)
LEMMA StoreMemory ==
  ASSUME Control, Present, Memory, pc \in {"op", "sdpa"}, step <= Len(graph),
         NEW s, s = NewStorage \/ \E u \in ReadUids(Node) : s = Tensors[u],
         Store(s), UNCHANGED <<graph, rows, r, on, ref, pending>>, step' = step + 1,
         pc' \in {"op", "sdpa"}, \A u \in DOMAIN cache' : cache'[u] \in Fine
  PROVE  Memory'
<1> DEFINE m == [x \in DOMAIN mem \cup {s} |-> IF x = NewStorage THEN Result ELSE mem[x]]
<1>1. /\ Result = "right" /\ r = 1 /\ DOMAIN ref = {} /\ ran \in Nat \ {0}
      /\ step \in DOMAIN graph /\ step \in Nat /\ Node.out \notin Inputs
    BY ResultIsRight, ReadsArePresent, RowIs
       DEF Control, Typed, Placed, Counted, Unjudged, Replaying, Memory
<1>2. s[1] = r /\ (s = NewStorage \/ Good(s))
    BY ResultIsRight, ReadsArePresent
       DEF Memory, Mine, NewStorage, Tensors, Control, Typed
<1>3. /\ DOMAIN mem' = Storages(own') \cup Storages(replay') \cup Storages(ref)
      /\ \A x \in DOMAIN mem' : mem'[x] = m[x]
    BY DEF Store, Alive
<1>4. Storages(ref) = {}
    BY <1>1 DEF Storages
<1>5. \A x \in DOMAIN mem' : x \in DOMAIN mem \/ x = s =>
        mem'[x] = IF x = NewStorage THEN "right" ELSE mem[x]
    BY <1>1, <1>3
<1>6. /\ Tensors' = Next_(Tensors, s)
      /\ on = "own" => own' = Tensors' /\ replay' = replay
      /\ on = "replay" => own' = own /\ replay' = Tensors'
      /\ on \in {"own", "replay"}
    BY StoreMoves DEF Control, Typed
<1>7. /\ DOMAIN Tensors' \subseteq DOMAIN Tensors \cup {Node.out}
      /\ \A u \in Inputs : u \in DOMAIN Tensors'
      /\ \A u \in DOMAIN Tensors' : Tensors'[u] = IF u = Node.out THEN s ELSE Tensors[u]
    <2>1. VirtualReleases(graph)[step] \subseteq Virtuals
        BY <1>1 DEF VirtualReleases
    <2>2. DOMAIN Tensors' = (DOMAIN Tensors \cup {Node.out}) \ VirtualReleases(graph)[step]
        BY <1>6, StoredNext
    <2>3. \A u \in DOMAIN Next_(Tensors, s) :
            Next_(Tensors, s)[u] = IF u = Node.out THEN s ELSE Tensors[u]
        BY StoredNext
    <2>4. Inputs \subseteq DOMAIN Tensors
        BY DEF Present
    <2> QED BY <1>6, <2>1, <2>2, <2>3, <2>4, DisjointUids
<1>8. Buffers'
    <2>2. on = "replay" => own = [u \in Buffered |-> <<r, u, 0>>]
        BY DEF Memory, Buffers, Replaying
    <2>3. Storages(own') \subseteq DOMAIN mem'
        BY <1>3
    <2>4. on = "own" => DOMAIN replay = {}
        BY DEF Memory, Buffers
    <2>5. on' = "replay" => own' = [u \in Buffered |-> <<r', u, 0>>]
        BY <1>6, <2>2
    <2>6. on' = "own" => DOMAIN replay' = {}
        BY <1>6, <2>4
    <2>7. pc' \notin Fixed \cup {"next", "provide", "prepare", "alloc"}
        BY DEF Fixed
    <2> QED BY <2>3, <2>5, <2>6, <2>7 DEF Buffers
<1>9. Mine'
    <2>1. /\ \A u \in DOMAIN own' : own'[u][1] = r
          /\ \A u \in DOMAIN replay' : replay'[u][1] = r
        BY <1>2, <1>6, <1>7 DEF Memory, Mine, Tensors
    <2>2. \A x \in DOMAIN mem' : x[1] = r
        BY <1>3, <1>4, <2>1 DEF Storages
    <2> QED BY <2>1, <2>2 DEF Mine
<1>10. Fed'
    <2> SUFFICES ASSUME NEW u \in Inputs
                 PROVE  /\ u \in DOMAIN own' /\ own'[u] = <<r, u, 0>>
                        /\ <<r, u, 0>> \in DOMAIN mem' /\ mem'[<<r, u, 0>>] = "data"
                        /\ on = "replay" => u \in DOMAIN replay' /\ replay'[u] = <<r, u, 0>>
        BY DEF Fed
    <2>1. /\ u \in DOMAIN own /\ own[u] = <<r, u, 0>>
          /\ <<r, u, 0>> \in DOMAIN mem /\ mem[<<r, u, 0>>] = "data"
          /\ on = "replay" => u \in DOMAIN replay /\ replay[u] = <<r, u, 0>>
        BY DEF Memory, Fed
    <2>2. u # Node.out /\ u \in DOMAIN Tensors' /\ Tensors'[u] = <<r, u, 0>>
        BY <1>1, <1>6, <1>7, <2>1 DEF Tensors
    <2>3. /\ u \in DOMAIN own' /\ own'[u] = <<r, u, 0>>
          /\ on = "replay" => u \in DOMAIN replay' /\ replay'[u] = <<r, u, 0>>
        BY <1>6, <2>1, <2>2
    <2>4. <<r, u, 0>> \in DOMAIN mem'
        BY <1>3, <2>3 DEF Storages
    <2>5. <<r, u, 0>> # NewStorage
        BY <1>1 DEF NewStorage
    <2> QED BY <1>5, <2>1, <2>3, <2>4, <2>5
<1>11. Referred'
    BY <1>1 DEF Referred
<1>12. Computed'
    <2> SUFFICES ASSUME NEW u \in (Inputs \cup Stored(graph, step)) \cap DOMAIN Tensors'
                 PROVE  Tensors'[u] \in DOMAIN mem' /\ mem'[Tensors'[u]] \in Fine
        BY <1>1 DEF Computed, Good
    <2>1. Tensors'[u] \in DOMAIN mem'
        BY <1>3, <1>6 DEF Storages
    <2>2. CASE u = Node.out
        <3>1. Tensors'[u] = s
            BY <1>7, <2>2
        <3> QED BY <1>2, <1>5, <2>1, <3>1 DEF Good, Fine
    <2>3. CASE u # Node.out
        <3>1. u \in DOMAIN Tensors /\ Tensors'[u] = Tensors[u]
            BY <1>7, <2>3
        <3>2. u \in Inputs \cup Stored(graph, step - 1)
            BY <1>1, <2>3 DEF Stored, Node
        <3>3. Good(Tensors[u])
            BY <3>1, <3>2 DEF Memory, Computed
        <3> QED BY <1>5, <2>1, <3>1, <3>3 DEF Good, Fine
    <2> QED BY <2>2, <2>3
<1>13. Zeros' /\ Launches'
    BY DEF Memory, Zeros, Launches
<1> QED BY <1>8, <1>9, <1>10, <1>11, <1>12, <1>13 DEF Memory

-----------------------------------------------------------------------------
(* What each step does to the memory.                                      *)

SameMem == DOMAIN mem' = DOMAIN mem /\ \A s \in DOMAIN mem : mem'[s] = mem[s]

(* An exception, or a verdict: the row is over and its memory as it was.   *)
LEMMA LeavesMemory ==
  ASSUME Control, Memory, pc # "cleanup", pc # "sync", pc' = "cleanup", SameMem,
         UNCHANGED <<own, replay, on, ref, cache, r, pending>>
  PROVE  Memory'
<1> USE DEF Memory, SameMem
<1>1. Buffers'
    BY DEF Buffers, Fixed, Replaying, Preparing
<1>2. Mine'
    BY DEF Mine
<1>3. Fed'
    BY DEF Fed, Fixed
<1>4. Referred'
    <2>1. \A u \in DOMAIN ref : ref[u][1] \in Nat /\ ref[u][1] < r
        BY DEF Referred
    <2>2. ref' = ref /\ r' = r /\ pc' = "cleanup" /\ r \in Nat
        BY DEF Control, Typed
    <2>3. \A u \in DOMAIN ref : ref[u] \in DOMAIN mem' /\ mem'[ref[u]] \in Fine
        BY DEF Referred, Good
    <2>4. \A u \in DOMAIN ref' : ref'[u][1] \in Nat /\ ref'[u][1] <= r'
        BY <2>1, <2>2
    <2> QED BY <2>2, <2>3, <2>4 DEF Referred, Good
<1>5. Computed' /\ Zeros' /\ Launches'
    BY DEF Computed, Zeros, Launches
<1> QED BY <1>1, <1>2, <1>3, <1>4, <1>5

(* A launch writes the row's outputs and nothing else.                     *)
LEMMA LaunchWrites ==
  ASSUME Control, Memory, pc \in {"bind", "time", "once"}, NEW k, NEW w
  PROVE  /\ DOMAIN Launched(k, w) = DOMAIN mem
         /\ \A s \in DOMAIN mem :
              s \notin {<<r, u, 0>> : u \in Outputs} => Launched(k, w)[s] = mem[s]
<1>1. own = [u \in Buffered |-> <<r, u, 0>>]
    BY DEF Memory, Buffers, Fixed
<1>2. {own[u] : u \in Outputs \cap DOMAIN own} = {<<r, u, 0>> : u \in Outputs}
    BY <1>1 DEF Buffered
<1> QED BY <1>2 DEF Launched

(* Writing only this row's outputs leaves its inputs and the reference.    *)
LEMMA OutputsWritten ==
  ASSUME Control, Memory, pc \in {"bind", "zero", "sync", "time", "once"},
         pc' \in {"bind", "sync", "time", "measured", "once", "compare"},
         DOMAIN mem' = DOMAIN mem,
         \A s \in DOMAIN mem :
           s \notin {<<r, u, 0>> : u \in Outputs} => mem'[s] = mem[s],
         UNCHANGED <<own, replay, on, ref, cache, r>>
  PROVE  Buffers' /\ Mine' /\ Fed' /\ Referred' /\ Computed'
<1> USE DEF Memory
<1>1. Buffers'
    BY DEF Buffers, Fixed, Replaying, Preparing
<1>2. Mine'
    BY DEF Mine
<1>3. on = "own"
    BY DEF Control, Typed, Phased, Replaying
<1>4. Fed'
    <2>1. \A u \in Inputs : /\ u \in DOMAIN own /\ own[u] = <<r, u, 0>>
                            /\ <<r, u, 0>> \in DOMAIN mem /\ mem[<<r, u, 0>>] = "data"
        BY DEF Fed, Fixed
    <2>2. \A u \in Inputs : <<r, u, 0>> \notin {<<r, v, 0>> : v \in Outputs}
        BY DisjointUids
    <2> QED BY <1>3, <2>1, <2>2 DEF Fed
<1>5. Referred'
    <2>1. \A u \in DOMAIN ref : ref[u][1] \in Nat /\ ref[u][1] < r /\ Good(ref[u])
        BY DEF Referred
    <2>2. r \in Nat /\ \A u \in DOMAIN ref : ref[u] \notin {<<r, v, 0>> : v \in Outputs}
        BY <2>1 DEF Control, Typed
    <2>3. \A u \in DOMAIN ref : ref[u] \in DOMAIN mem' /\ mem'[ref[u]] \in Fine
        BY <2>1, <2>2 DEF Good
    <2>4. ref' = ref /\ r' = r
        OBVIOUS
    <2> QED BY <2>1, <2>2, <2>3, <2>4 DEF Referred, Good
<1>6. Computed'
    BY DEF Computed
<1> QED BY <1>1, <1>2, <1>4, <1>5, <1>6

LEMMA PrepareMemory ==
  ASSUME Control, Memory,
         StartRow \/ TorchPrepare \/ HipPrepare \/ Provide
  PROVE  Memory'
<1> USE DEF Goto, Raise, drawn, tensors, replaying, planned
<1>1. CASE StartRow
    <2>1. /\ pc = "next" /\ pc' \in {"provide", "prepare", "alloc"}
          /\ UNCHANGED <<own, replay, on, mem, ref, cache, r, pending>>
        BY <1>1 DEF StartRow
    <2> QED BY <2>1 DEF Memory, Buffers, Mine, Fed, Referred, Computed, Zeros, Launches, Good,
                        Fixed, Replaying
<1>2. CASE pc = "prepare" /\ pc' = "alloc" /\ (TorchPrepare \/ HipPrepare)
    <2>1. UNCHANGED <<own, replay, on, mem, ref, cache, r, pending>>
        BY <1>2 DEF TorchPrepare, HipPrepare
    <2> QED BY <1>2, <2>1 DEF Memory, Buffers, Mine, Fed, Referred, Computed, Zeros, Launches,
                              Good, Fixed, Replaying
<1>3. CASE pc' = "cleanup" /\ ~StartRow
    <2>1. /\ pc \in {"prepare", "provide"}
          /\ UNCHANGED <<own, replay, mem, ref, cache, r, pending>>
        BY <1>3 DEF TorchPrepare, HipPrepare, Provide
    <2>2. on' = on
        BY <1>3, <2>1 DEF TorchPrepare, HipPrepare, Provide, Control, Typed, Phased, Replaying
    <2> QED BY <1>3, <2>1, <2>2, LeavesMemory DEF SameMem
<1>4. CASE Provide /\ pc' # "cleanup"
    <2>1. /\ pc = "provide" /\ pc' = "begin" /\ on' = "own"
          /\ own' = [u \in Inputs |-> <<r, u, 0>>]
          /\ mem' = [s \in {<<r, u, 0>> : u \in Inputs} |-> "data"]
          /\ UNCHANGED <<replay, ref, cache, r, pending>>
        BY <1>4 DEF Provide
    <2>2. DOMAIN ref = {} /\ DOMAIN replay = {} /\ pending = {}
        BY <2>1, RowIs DEF Control, Placed, Unjudged, Typed, Phased, Replaying, Memory, Buffers,
                           Zeros
    <2>3. Buffers' /\ Mine' /\ Fed'
        BY <2>1, <2>2 DEF Buffers, Mine, Fed, Fixed, Replaying
    <2>4. Referred' /\ Computed' /\ Zeros' /\ Launches'
        BY <2>1, <2>2 DEF Memory, Referred, Computed, Zeros, Launches
    <2> QED BY <2>3, <2>4 DEF Memory
<1> QED BY <1>1, <1>2, <1>3, <1>4 DEF TorchPrepare, HipPrepare

LEMMA AllocateMemory ==
  ASSUME Control, Memory, Allocate
  PROVE  Memory'
<1> USE DEF Goto, Raise, drawn, replaying, planned
<1>1. CASE pc' = "cleanup"
    <2>1. /\ pc = "alloc"
          /\ UNCHANGED <<own, replay, mem, ref, cache, r, pending>>
        BY <1>1 DEF Allocate
    <2>2. on' = on
        BY <1>1, <2>1 DEF Allocate, Control, Typed, Phased, Replaying
    <2> QED BY <1>1, <2>1, <2>2, LeavesMemory DEF SameMem
<1>2. CASE pc' # "cleanup"
    <2>1. PICK old \in {"junk", "right"} :
            /\ pc = "alloc" /\ pc' = "load" /\ on' = "own"
            /\ own' = [u \in Buffered |-> <<r, u, 0>>]
            /\ mem' = [s \in {<<r, u, 0>> : u \in Buffered} \cup DOMAIN mem |->
                         IF s \in DOMAIN mem THEN mem[s]
                         ELSE IF s[2] \in Inputs THEN "junk" ELSE old]
            /\ UNCHANGED <<replay, ref, cache, r, pending>>
        BY <1>2 DEF Allocate
    <2>2. DOMAIN replay = {} /\ pending = {}
        BY <2>1 DEF Control, Phased, Typed, Replaying, Memory, Buffers, Zeros
    <2>3. Buffers' /\ Mine' /\ Fed'
        BY <2>1, <2>2 DEF Memory, Buffers, Mine, Fed, Fixed, Replaying, Storages
    <2>4. Referred'
        BY <2>1 DEF Memory, Referred, Good
    <2>5. Computed' /\ Zeros' /\ Launches'
        BY <2>1, <2>2 DEF Memory, Computed, Zeros, Launches
    <2> QED BY <2>3, <2>4, <2>5 DEF Memory
<1> QED BY <1>1, <1>2

LEMMA LoadMemory ==
  ASSUME Control, Memory, Load
  PROVE  Memory'
<1>1. /\ pc = "load" /\ pc' = "zero" /\ DOMAIN mem' = DOMAIN mem
      /\ \A s \in DOMAIN mem :
           mem'[s] = IF \E u \in Inputs : own[u] = s THEN "data" ELSE mem[s]
      /\ UNCHANGED <<own, replay, on, ref, cache, r, pending>>
    BY DEF Load, Goto, replaying
<1>2. own = [u \in Buffered |-> <<r, u, 0>>] /\ Storages(own) \subseteq DOMAIN mem
    BY <1>1 DEF Memory, Buffers, Fixed
<1>3. on = "own" /\ pending = {} /\ r \in Nat
    BY <1>1 DEF Control, Typed, Phased, Replaying, Memory, Zeros
<1>4. Buffers' /\ Mine'
    BY <1>1, <1>2, <1>3 DEF Memory, Buffers, Mine, Fixed
<1>5. Fed'
    <2> SUFFICES ASSUME NEW u \in Inputs
                 PROVE  /\ u \in DOMAIN own /\ own[u] = <<r, u, 0>>
                        /\ <<r, u, 0>> \in DOMAIN mem' /\ mem'[<<r, u, 0>>] = "data"
        BY <1>1 DEF Fed
    <2>1. u \in DOMAIN own /\ own[u] = <<r, u, 0>>
        BY <1>2 DEF Buffered
    <2>2. <<r, u, 0>> \in DOMAIN mem
        BY <1>2, <2>1 DEF Storages
    <2> QED BY <1>1, <2>1, <2>2
<1>6. Referred'
    <2>1. \A u \in DOMAIN ref : ref[u][1] \in Nat /\ ref[u][1] < r /\ Good(ref[u])
        BY <1>1 DEF Memory, Referred
    <2>2. \A u \in DOMAIN ref : ref[u] \in DOMAIN mem' /\ mem'[ref[u]] \in Fine
        BY <1>1, <2>1 DEF Good, Fine
    <2>3. ref' = ref /\ r' = r /\ pc' # "cleanup"
        BY <1>1
    <2> QED BY <2>1, <2>2, <2>3 DEF Referred, Good
<1>7. Computed' /\ Zeros' /\ Launches'
    BY <1>1, <1>3 DEF Memory, Computed, Zeros, Launches
<1> QED BY <1>4, <1>5, <1>6, <1>7 DEF Memory

(* zero_outputs() and the fill that lands later.                           *)
LEMMA ZeroMemory ==
  ASSUME Control, Memory, ZeroOutputs \/ ZeroLands
  PROVE  Memory'
<1>1. /\ pc \in {"zero", "sync"} /\ pc' = "sync"
      /\ UNCHANGED <<own, replay, on, ref, cache, r, rows, measured>>
      /\ ZeroLands => pc = "sync" /\ pending = OutputStorages
      /\ ZeroOutputs => pc = "zero" /\ pending = {}
    BY DEF ZeroOutputs, ZeroLands, Goto, replaying, drawn, Memory, Zeros
<1>2. own = [u \in Buffered |-> <<r, u, 0>>] /\ Storages(own) \subseteq DOMAIN mem
    BY <1>1 DEF Memory, Buffers, Fixed
<1>3. OutputStorages = {<<r, u, 0>> : u \in Outputs} /\ OutputStorages' = OutputStorages
    BY <1>1, <1>2 DEF OutputStorages, Buffered
<1>4. /\ DOMAIN mem' = DOMAIN mem
      /\ \A s \in DOMAIN mem : s \notin OutputStorages => mem'[s] = mem[s]
    BY <1>1 DEF ZeroOutputs, ZeroLands
<1>5. Buffers' /\ Mine' /\ Fed' /\ Referred' /\ Computed'
    BY <1>1, <1>3, <1>4, OutputsWritten
<1>6. \A u \in Outputs : <<r, u, 0>> \in DOMAIN mem
    BY <1>2 DEF Storages, Buffered
<1>7. pending' # {} => pending' = OutputStorages
    BY DEF ZeroOutputs, ZeroLands, Memory, Zeros
<1>8. pending' = {} => \A u \in Outputs : mem'[<<r, u, 0>>] = "zero"
    <2>1. CASE ZeroLands
        BY <1>1, <1>3, <1>6, <2>1 DEF ZeroLands
    <2>2. CASE ZeroOutputs
        BY <1>1, <1>3, <1>6, <2>2 DEF ZeroOutputs
    <2> QED BY <2>1, <2>2
<1>9. Zeros' /\ Launches'
    BY <1>1, <1>3, <1>7, <1>8 DEF Zeros, OutputIs, Launches
<1> QED BY <1>5, <1>9 DEF Memory

LEMMA ZeroedMemory ==
  ASSUME Control, Memory, Zeroed
  PROVE  Memory'
<1>1. /\ pc = "sync" /\ pending = {} /\ pc' \in {"bind", "time", "begin", "once"}
      /\ UNCHANGED <<own, replay, mem, ref, cache, r, pending>>
      /\ on' = "own" /\ on = "own"
    BY DEF Zeroed, StreamIdle, Goto, Control, Typed, Phased, Replaying, replaying
<1> QED BY <1>1 DEF Memory, Buffers, Mine, Fed, Referred, Computed, Zeros, OutputIs, Launches,
                    Good, Fixed, Replaying

LEMMA TimedMemory ==
  ASSUME Control, Memory, TorchBenchmark
  PROVE  Memory'
<1>1. /\ pc = "time" /\ pc' = "begin" /\ replay' = own /\ on' = "replay"
      /\ UNCHANGED <<own, mem, ref, cache, r, pending>>
    BY DEF TorchBenchmark, Goto, replaying
<1> QED BY <1>1 DEF Memory, Buffers, Mine, Fed, Referred, Computed, Zeros, Launches, Good, Fixed,
                    Replaying

LEMMA ReplayMemory ==
  ASSUME Control, Memory, Replayed,
         BeginReplay \/ RunOp \/ RunScalarOp \/ SdpaEnter \/ SdpaReturn
  PROVE  Memory'
<1> USE DEF Goto, Raise, drawn, tensors, planned
<1>1. CASE BeginReplay
    <2>1. /\ pc = "begin" /\ pc' = "op" /\ step' = 1
          /\ UNCHANGED <<graph, own, replay, on, mem, ref, cache, r, pending>>
        BY <1>1 DEF BeginReplay
    <2>2. Stored(graph, step' - 1) = {}
        BY <2>1 DEF Stored
    <2>3. Buffers' /\ Mine' /\ Fed' /\ Referred'
        BY <2>1 DEF Memory, Buffers, Mine, Fed, Referred, Good, Fixed, Replaying
    <2>4. Computed'
        <3> SUFFICES ASSUME NEW u \in Inputs PROVE Good(Tensors[u])'
            BY <2>1, <2>2 DEF Memory, Computed
        <3>1. Good(own[u]) /\ own[u] = <<r, u, 0>> /\ (on = "replay" => replay[u] = own[u])
            BY <2>1 DEF Memory, Fed, Good, Fine
        <3>2. Tensors' = Tensors /\ Tensors[u] = own[u]
            BY <2>1, <3>1 DEF Tensors, Control, Typed
        <3> QED BY <2>1, <3>1, <3>2 DEF Good
    <2>5. Zeros' /\ Launches'
        BY <2>1 DEF Memory, Zeros, Launches
    <2> QED BY <2>3, <2>4, <2>5 DEF Memory
<1>2. CASE SdpaEnter
    <2>1. /\ pc = "op" /\ pc' = "sdpa"
          /\ UNCHANGED <<graph, own, replay, on, mem, step, ref, cache, r, pending>>
        BY <1>2 DEF SdpaEnter, AtOp
    <2> QED BY <2>1 DEF Memory, Buffers, Mine, Fed, Referred, Computed, Zeros, Launches, Good,
                        Fixed, Replaying, Tensors
<1>3. CASE RunOp
    <2>1. /\ pc = "op" /\ pc' = "op" /\ step <= Len(graph) /\ step' = step + 1
          /\ UNCHANGED <<graph, rows, r, on, ref, pending, cache>>
        BY <1>3 DEF RunOp, AtOp
    <2>2. PICK s : /\ Store(s)
                   /\ s = NewStorage \/ \E u \in ReadUids(Node) : s = Tensors[u]
        BY <1>3, Zenon DEF RunOp
    <2>3. \A u \in DOMAIN cache' : cache'[u] \in Fine
        BY <2>1 DEF Memory, Computed
    <2> QED BY <2>1, <2>2, <2>3, StoreMemory DEF Replayed
<1>4. CASE RunScalarOp
    <2>1. /\ pc = "op" /\ pc' = "op" /\ step <= Len(graph) /\ step' = step + 1
          /\ UNCHANGED <<graph, rows, r, on, ref, pending>> /\ Store(NewStorage)
          /\ cache' = (IF on = "replay" THEN Memoised ELSE cache) /\ Node.op = "scalar"
        BY <1>4 DEF RunScalarOp, AtOp
    <2>2. \A u \in ReadUids(Node) : Value(u) \in Fine
        BY <2>1, ResultIsRight DEF Replayed, Memory
    <2>3. \A u \in DOMAIN cache : cache[u] \in Fine
        BY DEF Memory, Computed
    <2>4. \A u \in DOMAIN cache' : cache'[u] \in Fine
        <3>1. on = "replay" => \A u \in DOMAIN cache : Value(u) = cache[u]
            BY <2>1 DEF Value, Cached
        <3> QED BY <2>1, <2>2, <2>3, <3>1 DEF Memoised
    <2> QED BY <2>1, <2>4, StoreMemory DEF Replayed
<1>5. CASE SdpaReturn
    <2>1. pc = "sdpa" /\ UNCHANGED <<graph, rows, r, on, ref, pending, cache>>
        BY <1>5 DEF SdpaReturn
    <2>2. CASE pc' = "op"
        <3>1. Store(NewStorage) /\ step' = step + 1 /\ step <= Len(graph)
            BY <1>5, <2>1, <2>2 DEF SdpaReturn, Control, Counted
        <3>2. \A u \in DOMAIN cache' : cache'[u] \in Fine
            BY <2>1 DEF Memory, Computed
        <3> QED BY <2>1, <2>2, <3>1, <3>2, StoreMemory DEF Replayed
    <2>3. CASE pc' # "op"
        <3>1. pc' = "unwind" /\ UNCHANGED <<own, replay, mem>>
            BY <1>5, <2>3 DEF SdpaReturn
        <3> QED BY <2>1, <3>1 DEF Memory, Buffers, Mine, Fed, Referred, Computed, Zeros,
                                  Launches, Good, Fixed, Replaying
    <2> QED BY <2>2, <2>3
<1> QED BY <1>1, <1>2, <1>3, <1>4, <1>5

LEMMA LeaveReplayMemory ==
  ASSUME Control, Memory, Replayed, OpFails \/ EndReplay \/ Unwind
  PROVE  Memory'
<1> USE DEF Goto, Raise, drawn, tensors, planned, replaying
<1>1. /\ pc \in {"op", "unwind"}
      /\ UNCHANGED <<graph, own, replay, on, mem, step, ref, cache, r, pending>>
    BY DEF OpFails, EndReplay, Unwind, AtOp
<1>2. CASE pc' = "cleanup"
    BY <1>1, <1>2, LeavesMemory DEF SameMem
<1>3. CASE pc' = "unwind"
    BY <1>1, <1>3 DEF Memory, Buffers, Mine, Fed, Referred, Computed, Zeros, Launches, Good,
                      Fixed, Replaying
<1>4. CASE pc' \in {"begin", "measured"}
    <2>1. pc = "op" /\ ~measured /\ on = "replay"
        BY <1>1, <1>4 DEF OpFails, EndReplay, Unwind, Control, Typed, Phased, Replaying
    <2> QED BY <1>1, <1>4, <2>1 DEF Memory, Buffers, Mine, Fed, Referred, Computed, Zeros,
                                    Launches, Good, Fixed, Replaying
<1>5. CASE pc' = "collect"
    <2>1. pc = "op" /\ on = "own" /\ step > Len(graph)
        BY <1>1, <1>5 DEF OpFails, EndReplay, Unwind, Control, Typed, Phased, Replaying
    <2>2. \A u \in Outputs \cap DOMAIN own : Good(own[u])
        <3>1. Outputs \subseteq Stored(graph, Len(graph)) /\ step = Len(graph) + 1
            BY <2>1, GraphIs DEF Control, Typed, Replayed, Present, WellFormed
        <3>2. Stored(graph, step - 1) = Stored(graph, Len(graph))
            BY <3>1, GraphIs DEF Control
        <3> QED BY <2>1, <3>1, <3>2 DEF Memory, Computed, Tensors
    <2> QED BY <1>1, <1>5, <2>1, <2>2 DEF Memory, Buffers, Mine, Fed, Referred, Computed, Zeros,
                                          Launches, Good, Fixed, Replaying
<1> QED BY <1>2, <1>3, <1>4, <1>5 DEF OpFails, EndReplay, Unwind

LEMMA MeasuredMemory ==
  ASSUME Control, Memory, Measured
  PROVE  Memory'
<1>1. /\ pc = "measured" /\ pc' = "zero" /\ replay' = Nothing /\ on' = "own"
      /\ mem' = [s \in Storages(own) \cup Storages(Nothing) \cup Storages(ref) |-> mem[s]]
      /\ UNCHANGED <<own, ref, cache, r, pending>>
    BY DEF Measured, Alive, Goto, replaying
<1>2. /\ own = [u \in Buffered |-> <<r, u, 0>>] /\ Storages(own) \subseteq DOMAIN mem
      /\ pending = {} /\ DOMAIN Nothing = {} /\ r \in Nat
    BY <1>1 DEF Memory, Buffers, Fixed, Zeros, Nothing, Control, Typed
<1>3. /\ DOMAIN mem' = Storages(own) \cup Storages(ref)
      /\ \A s \in DOMAIN mem' : mem'[s] = mem[s]
    BY <1>1, <1>2 DEF Storages
<1>4. Buffers'
    BY <1>1, <1>2, <1>3 DEF Buffers, Fixed
<1>5. Mine'
    BY <1>1, <1>2, <1>3 DEF Mine, Storages
<1>6. Fed'
    <2> SUFFICES ASSUME NEW u \in Inputs
                 PROVE  /\ u \in DOMAIN own /\ own[u] = <<r, u, 0>>
                        /\ <<r, u, 0>> \in DOMAIN mem' /\ mem'[<<r, u, 0>>] = "data"
        BY <1>1 DEF Fed
    <2>1. /\ u \in DOMAIN own /\ own[u] = <<r, u, 0>>
          /\ mem[<<r, u, 0>>] = "data"
        BY <1>1 DEF Memory, Fed, Fixed
    <2>2. <<r, u, 0>> \in DOMAIN mem'
        BY <1>3, <2>1 DEF Storages
    <2> QED BY <1>3, <2>1, <2>2
<1>7. Referred'
    <2>1. \A u \in DOMAIN ref : ref[u][1] \in Nat /\ ref[u][1] < r /\ Good(ref[u])
        BY <1>1 DEF Memory, Referred
    <2>2. \A u \in DOMAIN ref : ref[u] \in DOMAIN mem' /\ mem'[ref[u]] \in Fine
        BY <1>3, <2>1 DEF Good, Storages
    <2>3. ref' = ref /\ r' = r /\ pc' # "cleanup"
        BY <1>1
    <2> QED BY <2>1, <2>2, <2>3 DEF Referred, Good
<1>8. Computed' /\ Zeros' /\ Launches'
    BY <1>1, <1>2 DEF Memory, Computed, Zeros, Launches
<1> QED BY <1>4, <1>5, <1>6, <1>7, <1>8 DEF Memory

LEMMA CollectMemory ==
  ASSUME Control, Memory, Collect
  PROVE  Memory'
<1> DEFINE at == [u \in Outputs \cap DOMAIN own |-> IF keep THEN own[u] ELSE <<0, u, 0>>]
<1>1. /\ pc = "collect" /\ pc' = "cleanup" /\ ref' = at
      /\ mem' = [s \in DOMAIN mem \cup {at[u] : u \in DOMAIN at} |->
                   IF s \in DOMAIN mem THEN mem[s] ELSE mem[own[s[2]]]]
      /\ UNCHANGED <<own, replay, on, cache, r, pending>>
    BY DEF Collect, Goto, replaying
<1>2. r = 1 /\ DOMAIN ref = {} /\ pending = {} /\ on = "own" /\ DOMAIN replay = {}
    BY <1>1, RowIs DEF Control, Placed, Unjudged, Typed, Phased, Replaying, Memory, Zeros,
                       Buffers
<1>3. \A s \in DOMAIN mem : s[1] = 1
    BY <1>1, <1>2 DEF Memory, Mine, Storages
<1>4. \A u \in Outputs : <<0, u, 0>> \notin DOMAIN mem
    BY <1>3
<1>5. \A u \in Outputs \cap DOMAIN own : Good(own[u]) /\ own[u][1] = 1
    BY <1>1, <1>2 DEF Memory, Computed, Mine
<1>6. Referred'
    <2> SUFFICES ASSUME NEW u \in Outputs \cap DOMAIN own
                 PROVE  /\ at[u] \in DOMAIN mem' /\ mem'[at[u]] \in Fine
                        /\ at[u][1] \in Nat /\ at[u][1] <= 1
        BY <1>1, <1>2 DEF Referred, Good
    <2>1. CASE keep
        BY <1>1, <1>5, <2>1 DEF Good
    <2>2. CASE ~keep
        <3>1. at[u] = <<0, u, 0>> /\ at[u][2] = u /\ at[u][1] = 0
            BY <2>2
        <3>2. at[u] \in DOMAIN mem' /\ mem'[at[u]] = mem[own[u]]
            BY <1>1, <1>4, <3>1
        <3> QED BY <1>5, <3>1, <3>2 DEF Good
    <2> QED BY <2>1, <2>2
<1>7. Buffers' /\ Mine' /\ Fed'
    BY <1>1, <1>2 DEF Memory, Buffers, Mine, Fed, Fixed, Replaying
<1>8. Computed' /\ Zeros' /\ Launches'
    BY <1>1, <1>2 DEF Memory, Computed, Zeros, Launches
<1> QED BY <1>6, <1>7, <1>8 DEF Memory

(* Launches that are not compared.                                         *)
LEMMA LaunchMemory ==
  ASSUME Control, Memory, RockePrepare \/ Enqueue \/ EnqueueFails
  PROVE  Memory'
<1> USE DEF Goto, Raise, drawn, replaying, planned, tensors
<1>1. /\ pc \in {"bind", "time", "once"}
      /\ UNCHANGED <<own, replay, on, ref, cache, r, pending>>
      /\ \/ pc' \in {"time", "measured"}
         \/ pc' = "cleanup" /\ mem' = mem
      /\ \/ mem' = mem
         \/ \E k, w : mem' = Launched(k, w)
    <2>1. CASE RockePrepare
        <3>1. CASE pc' = "cleanup" /\ mem' = mem
            BY <2>1, <3>1 DEF RockePrepare
        <3>2. CASE \E k, auto : pc' = "time" /\ mem' = IF auto THEN Launched(k, "none") ELSE mem
            <4>1. pc = "bind" /\ UNCHANGED <<own, replay, on, ref, cache, r, pending>>
                BY <2>1 DEF RockePrepare
            <4>2. PICK k, auto : mem' = IF auto THEN Launched(k, "none") ELSE mem
                BY <3>2
            <4> QED BY <3>2, <4>1, <4>2
        <3> QED BY <2>1, <3>1, <3>2 DEF RockePrepare
    <2>2. CASE Enqueue
        BY <2>2 DEF Enqueue
    <2>3. CASE EnqueueFails
        BY <2>3 DEF EnqueueFails
    <2> QED BY <2>1, <2>2, <2>3
<1>2. /\ DOMAIN mem' = DOMAIN mem
      /\ \A s \in DOMAIN mem :
           s \notin {<<r, u, 0>> : u \in Outputs} => mem'[s] = mem[s]
    BY <1>1, LaunchWrites
<1>3. CASE pc' = "cleanup"
    BY <1>1, <1>3, LeavesMemory DEF SameMem
<1>4. CASE pc' # "cleanup"
    <2>1. Buffers' /\ Mine' /\ Fed' /\ Referred' /\ Computed'
        BY <1>1, <1>2, <1>4, OutputsWritten
    <2>2. Zeros' /\ Launches'
        BY <1>1, <1>4 DEF Memory, Zeros, Launches
    <2> QED BY <2>1, <2>2 DEF Memory
<1> QED BY <1>3, <1>4

(* execute_once(): inputs loaded, outputs and workspace zeroed.            *)
LEMMA OnceMemory ==
  ASSUME Control, Memory, ExecuteOnce
  PROVE  Memory'
<1> DEFINE k == engine.kind
           w == Workspace(scratch)
           at(u) == <<r, u, 0>>
<1>1. /\ pc = "once" /\ pc' = "compare" /\ mem' = Launched(k, w)
      /\ UNCHANGED <<own, replay, on, ref, cache, r, engine, pending>>
    BY DEF ExecuteOnce, Goto, replaying
<1>2. Buffers' /\ Mine' /\ Fed' /\ Referred' /\ Computed'
    BY <1>1, LaunchWrites, OutputsWritten
<1>3. /\ own = [u \in Buffered |-> at(u)]
      /\ \A u \in Buffered : at(u) \in DOMAIN mem
      /\ \A u \in Inputs : u \in DOMAIN own /\ mem[own[u]] = "data"
      /\ \A u \in Outputs : mem[at(u)] = "zero"
    BY <1>1 DEF Memory, Buffers, Fixed, Fed, Zeros, OutputIs, Storages
<1>4. k \in Kinds /\ (k = "scratch" => w = "zero")
    BY DEF Control, EngineOK, Workspace
<1>5. k \in {"right", "wrong", "adds", "scratch", "silent", "partial"}
    BY <1>4 DEF Kinds
<1>6. \A u \in Outputs : u \in DOMAIN own /\ own[u] = at(u) /\ at(u) \in DOMAIN mem
    BY <1>3 DEF Buffered
<1>7. \A u \in Outputs :
        mem'[at(u)] = IF k = "silent" THEN "zero"
                      ELSE IF \/ k \in Correct
                              \/ k = "partial" /\ at(u) = own[CHOOSE v \in Outputs : TRUE]
                      THEN "right" ELSE "wrong"
    <2> SUFFICES ASSUME NEW u \in Outputs
                 PROVE  mem'[at(u)] =
                          IF k = "silent" THEN "zero"
                          ELSE IF \/ k \in Correct
                                  \/ k = "partial" /\ at(u) = own[CHOOSE v \in Outputs : TRUE]
                          THEN "right" ELSE "wrong"
        OBVIOUS
    <2>1. at(u) \in {own[v] : v \in Outputs \cap DOMAIN own}
        BY <1>6
    <2>2. mem[at(u)] = "zero" /\ at(u) \in DOMAIN mem
          /\ \A v \in Inputs \cap DOMAIN own : mem[own[v]] = "data"
        BY <1>3, <1>6
    <2> HIDE DEF at, k, w
    <2>3. Launched(k, w)[at(u)] =
            IF k = "silent" THEN mem[at(u)]
            ELSE IF \/ k = "right"
                    \/ k = "partial" /\ at(u) = own[CHOOSE v \in Outputs : TRUE]
                    \/ k = "adds"
                    \/ k = "scratch" /\ w = "zero"
            THEN "right" ELSE "wrong"
        BY <2>1, <2>2 DEF Launched
    <2> QED BY <1>1, <1>4, <1>5, <2>2, <2>3 DEF Correct
<1>8. Launches'
    <2>1. k \in Correct => \A u \in Outputs : mem'[at(u)] = "right"
        BY <1>5, <1>7 DEF Correct
    <2>2. k \notin Correct /\ Outputs # {} => \E u \in Outputs : mem'[at(u)] \notin Fine
        <3>1. CASE k \in {"wrong", "silent"}
            BY <1>7, <3>1 DEF Correct, Fine
        <3>2. CASE k = "partial"
            <4>1. PICK u, v \in Outputs : u # v
                BY <1>4, <3>2 DEF Kinds
            <4>2. DEFINE c == CHOOSE x \in Outputs : TRUE
            <4>3. c \in Outputs
                BY <4>1
            <4>4. PICK x \in Outputs : x # c
                BY <4>1
            <4> HIDE DEF c
            <4>5. at(x) # own[c]
                <5>1. own[c] = <<r, c, 0>>
                    BY <1>6, <4>3
                <5> QED BY <4>4, <5>1
            <4>6. mem'[at(x)] = "wrong"
                BY <1>7, <3>2, <4>5 DEF Correct, c
            <4> QED BY <4>6 DEF Fine
        <3> QED BY <1>5, <3>1, <3>2 DEF Correct
    <2>3. r' = r /\ engine'.kind = k
        BY <1>1
    <2> QED BY <2>1, <2>2, <2>3 DEF Launches, OutputIs
<1>9. Zeros'
    BY <1>1 DEF Memory, Zeros
<1> QED BY <1>2, <1>8, <1>9 DEF Memory

(* compare() writes nothing it did not convert.                            *)
LEMMA CompareMemory ==
  ASSUME Control, Memory, Compare
  PROVE  SameMem /\ Memory'
<1>1. /\ pc = "compare" /\ pc' = "cleanup"
      /\ UNCHANGED <<own, replay, on, ref, cache, r, pending>>
      /\ \/ mem' = mem
         \/ mem' = [s \in DOMAIN mem |->
                      IF \E u \in Outputs : ref[u] = s
                        THEN ReferenceAfter(CHOOSE u \in Outputs : ref[u] = s)
                        ELSE mem[s]]
    BY DEF Compare, Judge, Goto, replaying
<1>2. SameMem
    BY <1>1 DEF SameMem, ReferenceAfter
<1> QED BY <1>1, <1>2, LeavesMemory

LEMMA CleanupMemory ==
  ASSUME Control, Memory, Cleanup
  PROVE  Memory' /\ DOMAIN mem' = Storages(ref')
<1>1. /\ pc = "cleanup" /\ pc' = "next" /\ own' = Nothing /\ replay' = Nothing /\ on' = "own"
      /\ mem' = [s \in Storages(Nothing) \cup Storages(Nothing) \cup Storages(ref) |-> mem[s]]
      /\ r' = r + 1 /\ pending' = {} /\ cache' = Nothing /\ ref' = ref
    BY DEF Cleanup, Freed, Alive, Goto
<1>2. DOMAIN Nothing = {} /\ Storages(Nothing) = {} /\ r \in Nat
    BY DEF Nothing, Storages, Control, Typed
<1>3. DOMAIN mem' = Storages(ref) /\ \A s \in Storages(ref) : mem'[s] = mem[s]
    BY <1>1, <1>2
<1>4. Referred'
    <2>1. \A u \in DOMAIN ref : ref[u][1] \in Nat /\ ref[u][1] <= r /\ Good(ref[u])
        BY <1>1 DEF Memory, Referred
    <2>2. \A u \in DOMAIN ref : ref[u] \in DOMAIN mem' /\ mem'[ref[u]] \in Fine
        BY <1>3, <2>1 DEF Good, Storages
    <2>3. \A u \in DOMAIN ref : ref[u][1] < r + 1
        BY <1>2, <2>1
    <2>4. ref' = ref /\ r' = r + 1 /\ pc' = "next"
        BY <1>1
    <2> QED BY <2>1, <2>2, <2>3, <2>4 DEF Referred, Good
<1>5. Buffers' /\ Mine' /\ Fed'
    BY <1>1, <1>2, <1>3 DEF Buffers, Mine, Fed, Fixed, Replaying
<1>6. Computed' /\ Zeros' /\ Launches'
    BY <1>1, <1>2 DEF Computed, Zeros, Launches
<1> QED BY <1>1, <1>3, <1>4, <1>5, <1>6 DEF Memory, Storages

LEMMA MemoryInv ==
  ASSUME Control, Replayed, Memory, [Next]_vars
  PROVE  Memory'
<1>1. CASE StartRow \/ TorchPrepare \/ HipPrepare \/ Provide
    BY <1>1, PrepareMemory
<1>2. CASE RockePrepare \/ Enqueue \/ EnqueueFails
    BY <1>2, LaunchMemory
<1>3. CASE Allocate \/ Load
    BY <1>3, AllocateMemory, LoadMemory
<1>4. CASE ZeroOutputs \/ ZeroLands \/ Zeroed
    BY <1>4, ZeroMemory, ZeroedMemory
<1>5. CASE TorchBenchmark
    BY <1>5, TimedMemory
<1>6. CASE BeginReplay \/ RunOp \/ RunScalarOp \/ SdpaEnter \/ SdpaReturn
    BY <1>6, ReplayMemory
<1>7. CASE OpFails \/ EndReplay \/ Unwind
    BY <1>7, LeaveReplayMemory
<1>8. CASE Measured \/ Collect
    BY <1>8, MeasuredMemory, CollectMemory
<1>9. CASE ExecuteOnce \/ Compare
    BY <1>9, OnceMemory, CompareMemory
<1>10. CASE Cleanup
    BY <1>10, CleanupMemory
<1>11. CASE Finished \/ UNCHANGED vars
    <2>1. UNCHANGED <<graph, pc, own, replay, on, mem, step, ref, cache, r, pending, engine>>
        BY <1>11 DEF Finished, vars, drawn, tensors, replaying, planned
    <2> QED BY <2>1 DEF Memory, Buffers, Mine, Fed, Referred, Computed, Zeros, OutputIs,
                        OutputStorages, Launches, Good, Tensors
<1> QED BY <1>1, <1>2, <1>3, <1>4, <1>5, <1>6, <1>7, <1>8, <1>9, <1>10, <1>11 DEF Next

(* Only a row's end leads to the next row.                                 *)
LEMMA OnlyReferenceInv ==
  ASSUME Control, Memory, OnlyReference, [Next]_vars
  PROVE  OnlyReference'
<1>1. CASE pc' # "next"
    BY <1>1 DEF OnlyReference
<1>2. CASE Cleanup
    BY <1>2, CleanupMemory DEF OnlyReference, Storages
<1>3. CASE pc = "next" /\ mem' = mem /\ ref' = ref
    BY <1>3 DEF OnlyReference, Storages
<1>4. \/ pc' # "next" \/ Cleanup
      \/ pc = "next" /\ mem' = mem /\ ref' = ref
    <2> USE DEF Goto, Raise, tensors
    <2>1. CASE StartRow \/ TorchPrepare \/ HipPrepare \/ RockePrepare \/ Provide \/ Allocate
        BY <2>1 DEF StartRow, TorchPrepare, HipPrepare, RockePrepare, Provide, Allocate
    <2>2. CASE Load \/ ZeroOutputs \/ Zeroed \/ TorchBenchmark \/ BeginReplay
        BY <2>2 DEF Load, ZeroOutputs, Zeroed, TorchBenchmark, BeginReplay
    <2>3. CASE ZeroLands
        BY <2>3 DEF ZeroLands, Memory, Zeros
    <2>4. CASE RunOp \/ RunScalarOp \/ SdpaEnter \/ SdpaReturn \/ OpFails
        BY <2>4 DEF RunOp, RunScalarOp, SdpaEnter, SdpaReturn, OpFails, AtOp
    <2>5. CASE EndReplay \/ Unwind \/ Measured \/ Collect
        BY <2>5 DEF EndReplay, Unwind, Measured, Collect
    <2>6. CASE Enqueue \/ EnqueueFails \/ ExecuteOnce \/ Compare \/ Cleanup
        BY <2>6 DEF Enqueue, EnqueueFails, ExecuteOnce, Compare
    <2>7. CASE Finished \/ UNCHANGED vars
        BY <2>7 DEF Finished, vars
    <2> QED BY <2>1, <2>2, <2>3, <2>4, <2>5, <2>6, <2>7 DEF Next
<1> QED BY <1>1, <1>2, <1>3, <1>4

-----------------------------------------------------------------------------
(* The verdict.                                                            *)

(* An engine's outputs against a reference that is right.                  *)
LEMMA CompareIsTrue ==
  ASSUME Outputs # {}, Control, Memory, Compare
  PROVE  VerdictTrue'
<1> SUFFICES ASSUME Outputs \subseteq DOMAIN ref'
             PROVE  /\ engine'.asked
                    /\ verdict'.is = "match" => engine'.kind \in Correct
                    /\ verdict'.is = "mismatch" /\ verdict'.worst # {} =>
                         /\ engine'.kind \notin Correct
                         /\ \A u \in verdict'.worst : ~Passes(u)'
    BY DEF VerdictTrue
<1>1. pc = "compare" /\ SameMem /\ UNCHANGED <<own, ref, r, engine>>
    BY CompareMemory DEF Compare, planned
<1>2. \A u \in Outputs : /\ u \in DOMAIN own /\ own[u] = <<r, u, 0>> /\ own[u] \in DOMAIN mem
                         /\ u \in DOMAIN ref /\ Good(ref[u])
    BY <1>1 DEF Memory, Buffers, Fixed, Buffered, Storages, Referred
<1>3. \A u \in Outputs : Passes(u) <=> mem[own[u]] \in Fine
    BY <1>2 DEF Passes, Good, Fine
<1>4. \A u \in Outputs : Passes(u)' <=> Passes(u)
    BY <1>1, <1>2 DEF Passes, SameMem, Good
<1>5. (\A u \in Outputs : Passes(u)) <=> engine.kind \in Correct
    BY <1>1, <1>2, <1>3 DEF Memory, Launches, OutputIs, Fine
<1>6. CASE Judge
    <2>1. PICK d \in [Outputs -> 0..3], w \in Outputs :
            /\ \A u \in Outputs : ~WorseThan([passed |-> Passes(u), diff |-> d[u]],
                                             [passed |-> Passes(w), diff |-> d[w]])
            /\ verdict' = [is |-> IF \A u \in Outputs : Passes(u) THEN "match" ELSE "mismatch",
                           worst |-> {w}]
        BY <1>6 DEF Judge
    <2>2. verdict'.is = "mismatch" => ~Passes(w)
        <3> SUFFICES ASSUME verdict'.is = "mismatch", Passes(w) PROVE FALSE
            OBVIOUS
        <3>1. PICK u \in Outputs : ~Passes(u)
            BY <2>1
        <3> QED BY <2>1, <3>1 DEF WorseThan
    <2> QED BY <1>1, <1>4, <1>5, <2>1, <2>2 DEF Control, EngineOK
<1>7. CASE verdict' = [is |-> "mismatch", worst |-> {}]
    BY <1>1, <1>7 DEF Control, EngineOK
<1> QED BY <1>6, <1>7 DEF Compare

LEMMA VerdictInv ==
  ASSUME Outputs # {}, Control, Memory, VerdictTrue, [Next]_vars
  PROVE  VerdictTrue'
<1> USE DEF Goto, Raise, NoVerdict, Control, Unjudged, VerdictTrue, Judged
<1>1. CASE StartRow \/ TorchPrepare \/ HipPrepare \/ RockePrepare \/ Provide \/ Allocate
    BY <1>1 DEF StartRow, TorchPrepare, HipPrepare, RockePrepare, Provide, Allocate
<1>2. CASE Load \/ ZeroOutputs \/ Zeroed \/ TorchBenchmark \/ BeginReplay
    BY <1>2 DEF Load, ZeroOutputs, Zeroed, TorchBenchmark, BeginReplay
<1>3. CASE ZeroLands
    BY <1>3 DEF ZeroLands, Memory, Zeros
<1>4. CASE RunOp \/ RunScalarOp \/ SdpaEnter \/ SdpaReturn \/ OpFails
    BY <1>4 DEF RunOp, RunScalarOp, SdpaEnter, SdpaReturn, OpFails, AtOp
<1>5. CASE EndReplay \/ Unwind \/ Measured \/ Collect
    BY <1>5 DEF EndReplay, Unwind, Measured, Collect
<1>6. CASE Enqueue \/ EnqueueFails \/ ExecuteOnce \/ Cleanup
    BY <1>6 DEF Enqueue, EnqueueFails, ExecuteOnce, Cleanup
<1>7. CASE Compare
    BY <1>7, CompareIsTrue
<1>8. CASE Finished \/ UNCHANGED vars
    BY <1>8 DEF Finished, vars, drawn, tensors, planned, Passes
<1> QED BY <1>1, <1>2, <1>3, <1>4, <1>5, <1>6, <1>7, <1>8 DEF Next

-----------------------------------------------------------------------------
(* The theorems.                                                           *)

LEMMA InitInv == Init => IInv /\ VerdictTrue
<1> SUFFICES ASSUME Init PROVE IInv /\ VerdictTrue
    OBVIOUS
<1>1. Control
    BY InitControl
<1>2. Switches /\ Replayed
    BY DEF Init, Switches, Idle, Replayed, Present, Live, Primed
<1>3. Memory
    BY DEF Init, Memory, Buffers, Mine, Fed, Referred, Computed, Zeros, Launches, Fixed,
           Replaying, Nothing
<1>4. OnlyReference /\ VerdictTrue
    BY DEF Init, OnlyReference, Nothing, Storages, VerdictTrue, Judged
<1> QED BY <1>1, <1>2, <1>3, <1>4 DEF IInv

LEMMA StepInv == IInv /\ [Next]_vars => IInv'
BY ControlInv, SwitchesInv, ReplayedInv, MemoryInv, OnlyReferenceInv DEF IInv

(* The inductive invariant of a graph's rows.                              *)
THEOREM Inductive == Spec => []IInv
<1>1. Init => IInv
    BY InitInv
<1> QED BY <1>1, StepInv, PTL DEF Spec

(* A verdict says what one execution of the engine that was asked for does *)
(* (_validate_row(), execute_once(), check_correctness()): with any tensors*)
(* and at least one output, any graphs, rows and replays.                  *)
THEOREM VerdictsAreTrue ==
  ASSUME Outputs # {}
  PROVE  Spec => []VerdictTrue
<1>1. Init => VerdictTrue
    BY InitInv
<1>2. IInv /\ VerdictTrue /\ [Next]_vars => VerdictTrue'
    BY VerdictInv DEF IInv
<1> QED BY <1>1, <1>2, Inductive, PTL DEF Spec

(* Every replay finds its tensors (_virtual_releases(), execute()).        *)
THEOREM ReadsAreFound == Spec => []NeverMissing
<1>1. IInv => NeverMissing
    <2> SUFFICES ASSUME IInv, AtOp PROVE Finds
        BY DEF NeverMissing
    <2> QED BY ReadsArePresent DEF IInv, Replayed, AtOp, Finds
<1> QED BY <1>1, Inductive, PTL

(* Intermediates are dropped after their last use, and a row leaves only   *)
(* the reference (_virtual_releases(), cleanup()).                         *)
THEOREM OnlyTheLiveAreKept == Spec => []OnlyLive
<1>1. IInv => OnlyLive
    BY DEF IInv, Replayed, Live, OnlyReference, OnlyLive
<1> QED BY <1>1, Inductive, PTL

(* Host values are read by the priming replay only (_scalar_value()).      *)
THEOREM OnlyPrimingWaits == Spec => []OnlyPrimingReads
<1>1. IInv => OnlyPrimingReads
    BY DEF IInv, Replayed, Primed, OnlyPrimingReads
<1> QED BY <1>1, Inductive, PTL

(* The attention switches are the default outside a selected call, and a   *)
(* strict row that was timed ran one (use_pytorch_sdpa_backend()).         *)
THEOREM SwitchesAreScoped == Spec => []StrictIsScoped
<1>1. IInv => StrictIsScoped
    BY DEF IInv, Switches, HasSdpa, StrictIsScoped
<1> QED BY <1>1, Inductive, PTL
=============================================================================
