----------------------------- MODULE TorchGraph -----------------------------
(***************************************************************************)
(* How the PyTorch reference compiles a graph                              *)
(* (execution/pytorch_ops/_registry.py and _common.py): which operations   *)
(* it takes, which tensors a node names and where, and after which node    *)
(* each virtual tensor is dropped.  The operators are pure; RowLife runs   *)
(* the compiled graph.                                                     *)
(***************************************************************************)
EXTENDS Naturals, Sequences, FiniteSets

CONSTANTS
  Inputs,    \* UIDs of the tensors a caller supplies
  Virtuals,  \* UIDs of the intermediate tensors
  Outputs    \* UIDs of the graph's results

ASSUME DisjointUids ==
  /\ Inputs \cap Virtuals = {}
  /\ Inputs \cap Outputs = {}
  /\ Virtuals \cap Outputs = {}

Uids == Inputs \cup Virtuals \cup Outputs

\* The handlers, by what tells them apart here: "view" returns a view of the
\* tensor it reads, "scalar" reads a tensor's value on the host, "sdpa" calls
\* torch's attention.  "other" has no handler.
Handlers == {"plain", "view", "scalar", "sdpa"}

\* A node: the UIDs in its "inputs" section, those its handler finds in
\* "attributes" or on the node itself, the UID it stores, and its operation.
Nodes == [ins : SUBSET Uids, attrs : SUBSET Uids, out : Uids,
          op : Handlers \cup {"other"}]
Graphs == Seq(Nodes)

\* _node_uid(): a UID is looked up in the section, in "attributes", on the node.
ReadUids(node) == node.ins \cup node.attrs

\* Seeded bug: only the "inputs" and "outputs" sections are scanned.
ReferencedUids_sections(node) == node.ins \cup {node.out}

\* _referenced_uids(): every UID under any key that says so, in any section.
ReferencedUids(node) == node.ins \cup node.attrs \cup {node.out}

\* last_use: the nodes are walked in order, a later reference overwrites.
Users(g, u) == {i \in DOMAIN g : u \in ReferencedUids(g[i])}
IsLastUse(g, u, i) == i \in Users(g, u) /\ \A j \in Users(g, u) : j <= i

\* Seeded bug: a tensor nothing reads is not released by the node that stores it.
VirtualReleases_readers(g) ==
  [i \in DOMAIN g |->
     {u \in Virtuals : IsLastUse(g, u, i) /\ u # g[i].out}]

\* _virtual_releases()
VirtualReleases(g) ==
  [i \in DOMAIN g |-> {u \in Virtuals : IsLastUse(g, u, i)}]

\* get_unsupported_operations(), supports_graph()
UnsupportedOperations(g) == {g[i].op : i \in DOMAIN g} \ Handlers
SupportsGraph(g) == UnsupportedOperations(g) = {}

\* What hipDNN graphs are: a node reads inputs or what an earlier node
\* stored, and every virtual and output tensor has one producer.
Stored(g, n) == {g[i].out : i \in 1..n}
WellFormed(g) ==
  /\ \A i \in DOMAIN g : ReadUids(g[i]) \subseteq Inputs \cup Stored(g, i - 1)
  /\ \A i, j \in DOMAIN g : i # j => g[i].out # g[j].out
  /\ \A i \in DOMAIN g : g[i].out \notin Inputs
  /\ Outputs \subseteq Stored(g, Len(g))
=============================================================================
