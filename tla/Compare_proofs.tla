--------------------------- MODULE Compare_proofs ---------------------------
(***************************************************************************)
(* Proofs about Compare for every two result documents: the graphs that    *)
(* _match_graphs() pairs, by induction over the graphs of A, and the rows  *)
(* that compare() pairs by engine.                                         *)
(***************************************************************************)
EXTENDS Compare, FiniteSetTheorems, WellFoundedInduction, TLAPS

(* Induction over data: a set of naturals that is not empty has a least    *)
(* element, so a property of every number of turns of a loop is proved by  *)
(* refuting the least number for which it fails.                           *)
LEMMA LeastNatural ==
  ASSUME NEW T \in SUBSET Nat, T # {}
  PROVE  \E x \in T : \A y \in T : x <= y
<1>1. PICK x \in T : \A y \in T : <<y, x>> \notin OpToRel(<, Nat)
    BY NatLessThanWellFounded, WFMin, Zenon
<1>2. \A y \in T : ~(y < x)
    BY <1>1 DEF OpToRel
<1>3. \A u, v \in Nat : ~(v < u) => u <= v
    OBVIOUS
<1> QED BY <1>2, <1>3

LEMMA MinIsLeast ==
  ASSUME NEW T \in SUBSET Nat, T # {}
  PROVE  Min(T) \in T /\ \A y \in T : Min(T) <= y
<1> QED BY LeastNatural, Zenon DEF Min

-----------------------------------------------------------------------------
(* The loop of _match_graphs().                                            *)

IsLoop(a, b, n, f) ==
  f = [i \in 0..n |-> IF i = 0 THEN {} ELSE Take(a, b, f[i - 1], i)]

(* A loop of any number of turns has a result.                             *)
LEMMA LoopExists ==
  ASSUME NEW a, NEW b
  PROVE  \A n \in Nat : \E f : IsLoop(a, b, n, f)
<1> DEFINE Bad == {n \in Nat : ~ \E f : IsLoop(a, b, n, f)}
<1> SUFFICES ASSUME Bad # {} PROVE FALSE
    OBVIOUS
<1>1. PICK n \in Bad : \A m \in Bad : n <= m
    BY LeastNatural
<1>2. CASE n = 0
    <2> DEFINE f == [i \in 0..0 |-> {}]
    <2>1. IsLoop(a, b, 0, f)
        BY DEF IsLoop
    <2> QED BY <1>1, <1>2, <2>1
<1>3. CASE n # 0
    <2>1. n - 1 \in Nat /\ n - 1 \notin Bad
        BY <1>1, <1>3
    <2>2. PICK g : IsLoop(a, b, n - 1, g)
        BY <2>1
    <2> DEFINE f == [i \in 0..n |-> IF i = n THEN Take(a, b, g[n - 1], n) ELSE g[i]]
    <2>3. \A i \in 0..n : i # n => f[i] = IF i = 0 THEN {} ELSE Take(a, b, f[i - 1], i)
        <3> SUFFICES ASSUME NEW i \in 0..n, i # n
                     PROVE  f[i] = IF i = 0 THEN {} ELSE Take(a, b, f[i - 1], i)
            OBVIOUS
        <3>0. i \in 0..(n - 1)
            BY <2>1
        <3>1. g[i] = IF i = 0 THEN {} ELSE Take(a, b, g[i - 1], i)
            BY <2>2, <3>0, Zenon DEF IsLoop
        <3>2. i # 0 => i - 1 \in 0..n /\ i - 1 # n
            BY <2>1
        <3> QED BY <3>1, <3>2
    <2>4. f[n] = Take(a, b, f[n - 1], n)
        BY <2>1
    <2>5. IsLoop(a, b, n, f)
        <3> HIDE DEF f
        <3>1. f = [i \in 0..n |-> f[i]]
            BY DEF f
        <3>2. \A i \in 0..n : f[i] = IF i = 0 THEN {} ELSE Take(a, b, f[i - 1], i)
            BY <1>3, <2>3, <2>4
        <3> QED BY <3>1, <3>2 DEF IsLoop
    <2> QED BY <1>1, <2>5
<1> QED BY <1>2, <1>3

(* The recursive function of MatchGraphs is such a loop.                   *)
LEMMA MatchGraphsIs ==
  ASSUME NEW a, NEW b, Len(a.graphs) \in Nat
  PROVE  \E f : IsLoop(a, b, Len(a.graphs), f) /\ MatchGraphs(a, b) = f[Len(a.graphs)]
<1> DEFINE n == Len(a.graphs)
           f == CHOOSE g : IsLoop(a, b, n, g)
<1>1. IsLoop(a, b, n, f)
    BY LoopExists
<1>2. MatchGraphs(a, b) = f[n]
    BY DEF MatchGraphs, IsLoop
<1> QED BY <1>1, <1>2

-----------------------------------------------------------------------------
(* The matching.                                                           *)

(* Pairs of graphs of one graph_id, each graph in at most one.             *)
Paired(a, b, k, M) ==
  /\ \A m \in M :
       /\ m = <<m[1], m[2]>> /\ m[1] \in 1..k /\ m[2] \in DOMAIN b.graphs
       /\ a.graphs[m[1]].id = b.graphs[m[2]].id /\ a.graphs[m[1]].id # NoId
  /\ \A m, n \in M : m[1] = n[1] \/ m[2] = n[2] => m = n

(* Graphs of one graph_id are taken in the order of either document.       *)
SameOrder(a, M) ==
  \A m, n \in M : a.graphs[m[1]].id = a.graphs[n[1]].id /\ m[1] < n[1] => m[2] < n[2]
FirstTaken(b, M) ==
  \A m \in M, j \in DOMAIN b.graphs :
    b.graphs[j].id = b.graphs[m[2]].id /\ j < m[2] => \E n \in M : n[2] = j

(* None of one graph_id is left over on both sides.                        *)
Exhausted(a, b, k, M) ==
  \A i \in 1..k, j \in DOMAIN b.graphs :
    a.graphs[i].id = b.graphs[j].id /\ a.graphs[i].id # NoId =>
      \E m \in M : m[1] = i \/ m[2] = j

MatchInv(a, b, k, M) ==
  Paired(a, b, k, M) /\ SameOrder(a, M) /\ FirstTaken(b, M) /\ Exhausted(a, b, k, M)

(* One turn: the graph of A finds the queue of its graph_id empty, or      *)
(* takes the first of it.                                                  *)
LEMMA TakeInv ==
  ASSUME NEW a, NEW b, NEW k \in Nat \ {0}, NEW M,
         DOMAIN b.graphs \in SUBSET Nat, MatchInv(a, b, k - 1, M)
  PROVE  MatchInv(a, b, k, Take(a, b, M, k))
<1> DEFINE id == a.graphs[k].id
           queue == {j \in DOMAIN b.graphs : b.graphs[j].id = id} \ {m[2] : m \in M}
<1>0. 1..k = 1..(k - 1) \cup {k} /\ k \notin 1..(k - 1) /\ \A i \in 1..(k - 1) : i < k
    OBVIOUS
<1>1. CASE id = NoId \/ queue = {}
    <2>1. Take(a, b, M, k) = M
        BY <1>1 DEF Take
    <2>2. Paired(a, b, k, M)
        BY <1>0 DEF MatchInv, Paired
    <2>3. Exhausted(a, b, k, M)
        <3> SUFFICES ASSUME NEW i \in 1..k, NEW j \in DOMAIN b.graphs,
                            a.graphs[i].id = b.graphs[j].id, a.graphs[i].id # NoId
                     PROVE  \E m \in M : m[1] = i \/ m[2] = j
            BY DEF Exhausted
        <3>1. CASE i = k
            BY <1>1, <3>1
        <3>2. CASE i # k
            BY <1>0, <3>2 DEF MatchInv, Exhausted
        <3> QED BY <3>1, <3>2
    <2> QED BY <2>1, <2>2, <2>3 DEF MatchInv
<1>2. CASE id # NoId /\ queue # {}
    <2> DEFINE new == <<k, Min(queue)>>
               N == M \cup {new}
    <2>1. Take(a, b, M, k) = N
        BY <1>2 DEF Take
    <2>2. Min(queue) \in queue /\ \A j \in queue : Min(queue) <= j
        BY <1>2, MinIsLeast
    <2> DEFINE first == Min(queue)
    <2>3. /\ first \in DOMAIN b.graphs /\ first \in Nat /\ b.graphs[first].id = id
          /\ \A m \in M : m[2] # first
          /\ \A j \in DOMAIN b.graphs :
               b.graphs[j].id = id /\ j < first => \E m \in M : m[2] = j
        <3>1. first \in Nat /\ first \in queue
            BY <2>2
        <3>2. \A j \in queue : ~(j < first)
            <4>1. \A j \in queue : j \in Nat /\ first <= j
                BY <2>2
            <4>2. \A x, y \in Nat : x <= y => ~(y < x)
                OBVIOUS
            <4> QED BY <3>1, <4>1, <4>2, Zenon
        <3>3. ASSUME NEW j \in DOMAIN b.graphs, b.graphs[j].id = id, j < first
              PROVE  \E m \in M : m[2] = j
            BY <3>2, <3>3, Zenon
        <3> QED BY <3>1, <3>3, Zenon
    <2> HIDE DEF first
    <2>4. new = <<k, first>> /\ new[1] = k /\ new[2] = first /\ new \in N
        BY DEF first
    <2> HIDE DEF new, queue
    <2>5. Paired(a, b, k, N)
        <3>1. \A m \in M :
                /\ m = <<m[1], m[2]>> /\ m[1] \in 1..(k - 1)
                /\ m[2] \in DOMAIN b.graphs /\ a.graphs[m[1]].id = b.graphs[m[2]].id
                /\ a.graphs[m[1]].id # NoId /\ m[1] # k /\ m[2] # first
            BY <1>0, <2>3 DEF MatchInv, Paired
        <3>2. \A m, n \in M : m[1] = n[1] \/ m[2] = n[2] => m = n
            BY DEF MatchInv, Paired
        <3>3. \A m, n \in N : m[1] = n[1] \/ m[2] = n[2] => m = n
            BY <2>4, <3>1, <3>2
        <3> QED BY <1>0, <1>2, <2>3, <2>4, <3>1, <3>3 DEF Paired
    <2>6. \A m \in M :
            /\ m[1] \in 1..(k - 1) /\ m[2] \in DOMAIN b.graphs
            /\ a.graphs[m[1]].id = b.graphs[m[2]].id
        BY DEF MatchInv, Paired
    <2>7. SameOrder(a, N)
        <3> SUFFICES ASSUME NEW m \in N, NEW n \in N,
                            a.graphs[m[1]].id = a.graphs[n[1]].id, m[1] < n[1]
                     PROVE  m[2] < n[2]
            BY DEF SameOrder
        <3>1. CASE m \in M /\ n \in M
            BY <3>1 DEF MatchInv, SameOrder
        <3>2. CASE m = new
            <4>1. n[1] \in 1..k
                BY <1>0, <2>4, <2>6
            <4> QED BY <2>4, <3>2, <4>1
        <3>3. CASE m \in M /\ n = new
            <4>1. m[2] \in DOMAIN b.graphs /\ b.graphs[m[2]].id = id /\ m[2] # first
                BY <2>3, <2>4, <2>6, <3>3
            <4>2. CASE first < m[2]
                <5>1. \E n1 \in M : n1[2] = first
                    BY <2>3, <3>3, <4>1, <4>2 DEF MatchInv, FirstTaken
                <5> QED BY <2>3, <5>1
            <4>3. m[2] < first \/ first < m[2]
                BY <2>3, <4>1
            <4> QED BY <2>4, <3>3, <4>2, <4>3
        <3> QED BY <3>1, <3>2, <3>3
    <2>8. FirstTaken(b, N)
        <3> SUFFICES ASSUME NEW m \in N, NEW j \in DOMAIN b.graphs,
                            b.graphs[j].id = b.graphs[m[2]].id, j < m[2]
                     PROVE  \E n \in N : n[2] = j
            BY DEF FirstTaken
        <3>1. CASE m \in M
            BY <3>1 DEF MatchInv, FirstTaken
        <3>2. CASE m = new
            BY <2>3, <2>4, <3>2
        <3> QED BY <3>1, <3>2
    <2>9. Exhausted(a, b, k, N)
        <3> SUFFICES ASSUME NEW i \in 1..k, NEW j \in DOMAIN b.graphs,
                            a.graphs[i].id = b.graphs[j].id, a.graphs[i].id # NoId
                     PROVE  \E m \in N : m[1] = i \/ m[2] = j
            BY DEF Exhausted
        <3>1. CASE i = k
            BY <2>4, <3>1
        <3>2. CASE i # k
            BY <1>0, <3>2 DEF MatchInv, Exhausted
        <3> QED BY <3>1, <3>2
    <2> QED BY <2>1, <2>5, <2>7, <2>8, <2>9 DEF MatchInv
<1> QED BY <1>1, <1>2

(* After every turn, and so after the last.                                *)
LEMMA LoopInv ==
  ASSUME NEW a, NEW b, NEW n \in Nat, NEW f, IsLoop(a, b, n, f),
         DOMAIN b.graphs \in SUBSET Nat
  PROVE  \A k \in 0..n : MatchInv(a, b, k, f[k])
<1> DEFINE Bad == {k \in 0..n : ~ MatchInv(a, b, k, f[k])}
<1> SUFFICES ASSUME Bad # {} PROVE FALSE
    OBVIOUS
<1>0. Bad \in SUBSET Nat
    <2>1. 0..n \in SUBSET Nat
        OBVIOUS
    <2> QED BY <2>1, Zenon
<1>1. PICK k \in Bad : \A j \in Bad : k <= j
    BY <1>0, LeastNatural, Zenon
<1>2. k = 0 => f[k] = {}
    BY DEF IsLoop
<1>3. MatchInv(a, b, 0, {})
    BY DEF MatchInv, Paired, SameOrder, FirstTaken, Exhausted
<1>4. k \in Nat \ {0} /\ k - 1 \in 0..n /\ ~(k <= k - 1)
    <2>1. k # 0
        BY <1>2, <1>3
    <2> HIDE DEF Bad
    <2>2. k \in 0..n
        BY DEF Bad
    <2> QED BY <2>1, <2>2
<1>5. f[k] = Take(a, b, f[k - 1], k)
    BY <1>4 DEF IsLoop
<1>6. MatchInv(a, b, k - 1, f[k - 1])
    BY <1>1, <1>4
<1> QED BY <1>4, <1>5, <1>6, TakeInv

LEMMA MatchingIs ==
  ASSUME NEW a, NEW b, Len(a.graphs) \in Nat, DOMAIN b.graphs \in SUBSET Nat
  PROVE  MatchInv(a, b, Len(a.graphs), MatchGraphs(a, b))
<1>1. PICK f : IsLoop(a, b, Len(a.graphs), f) /\ MatchGraphs(a, b) = f[Len(a.graphs)]
    BY MatchGraphsIs
<1>2. \A n \in Nat : n \in 0..n
    OBVIOUS
<1> QED BY <1>1, <1>2, LoopInv

-----------------------------------------------------------------------------
(* The rows of a pair of matched graphs.                                   *)

Same(rows, i) ==
  {j \in 1..(i - 1) : rows[j].role = "engine" /\ rows[j].engine = rows[i].engine}

LEMMA KeyIs == \A rows, i : Key(rows, i) = <<rows[i].engine, Cardinality(Same(rows, i))>>
BY DEF Key, Same

(* Of two rows of one engine the later has the higher occurrence index.    *)
LEMMA LaterIsHigher ==
  ASSUME NEW rows, NEW i \in Nat \ {0}, NEW j \in Nat \ {0}, i < j,
         rows[i].role = "engine", rows[i].engine = rows[j].engine
  PROVE  /\ Cardinality(Same(rows, i)) \in Nat /\ Cardinality(Same(rows, j)) \in Nat
         /\ Cardinality(Same(rows, i)) < Cardinality(Same(rows, j))
<1>1. /\ Same(rows, i) \in SUBSET Same(rows, j)
      /\ Same(rows, j) \in SUBSET (1..(j - 1))
      /\ i \in Same(rows, j) /\ i \notin Same(rows, i)
    BY DEF Same
<1>2. IsFiniteSet(1..(j - 1))
    BY FS_Interval
<1>3. IsFiniteSet(Same(rows, j))
    BY <1>1, <1>2, FS_Subset
<1>4. IsFiniteSet(Same(rows, i)) /\ Cardinality(Same(rows, i)) <= Cardinality(Same(rows, j))
      /\ Cardinality(Same(rows, i)) # Cardinality(Same(rows, j))
    BY <1>1, <1>3, FS_Subset
<1>5. Cardinality(Same(rows, i)) \in Nat /\ Cardinality(Same(rows, j)) \in Nat
    BY <1>3, <1>4, FS_CardinalityType
<1> QED BY <1>4, <1>5

(* Rows with a row number: what _keyed() is given.                         *)
Listed(rows) == DOMAIN rows \in SUBSET (Nat \ {0})

LEMMA KeysAreDistinct ==
  ASSUME NEW rows, Listed(rows)
  PROVE  \A i, j \in EngineRows(rows) :
           /\ Key(rows, i) = Key(rows, j) => i = j
           /\ rows[i].engine = rows[j].engine /\ i < j => Key(rows, i)[2] < Key(rows, j)[2]
<1> SUFFICES ASSUME NEW i \in EngineRows(rows), NEW j \in EngineRows(rows)
             PROVE  /\ Key(rows, i) = Key(rows, j) => i = j
                    /\ rows[i].engine = rows[j].engine /\ i < j =>
                         Key(rows, i)[2] < Key(rows, j)[2]
    OBVIOUS
<1>1. /\ i \in Nat \ {0} /\ j \in Nat \ {0}
      /\ rows[i].role = "engine" /\ rows[j].role = "engine"
    BY DEF EngineRows, Listed
<1>2. /\ Key(rows, i) = <<rows[i].engine, Cardinality(Same(rows, i))>>
      /\ Key(rows, j) = <<rows[j].engine, Cardinality(Same(rows, j))>>
    BY KeyIs
<1> DEFINE ci == Cardinality(Same(rows, i))
           cj == Cardinality(Same(rows, j))
<1>3. rows[i].engine = rows[j].engine =>
        (i < j => ci \in Nat /\ cj \in Nat /\ ci < cj)
        /\ (j < i => ci \in Nat /\ cj \in Nat /\ cj < ci)
    BY <1>1, LaterIsHigher
<1> HIDE DEF ci, cj
<1>4. i < j \/ j < i \/ i = j
    BY <1>1
<1>5. Key(rows, i) = <<rows[i].engine, ci>> /\ Key(rows, j) = <<rows[j].engine, cj>>
    BY <1>2 DEF ci, cj
<1> QED BY <1>3, <1>4, <1>5

LEMMA KeyNumbers ==
  ASSUME NEW rows, Listed(rows) PROVE \A i \in EngineRows(rows) : Key(rows, i)[2] \in Nat
<1> SUFFICES ASSUME NEW i \in EngineRows(rows) PROVE Cardinality(Same(rows, i)) \in Nat
    BY KeyIs
<1>1. i \in Nat
    BY DEF EngineRows, Listed
<1>2. Same(rows, i) \in SUBSET (1..(i - 1)) /\ IsFiniteSet(1..(i - 1))
    BY <1>1, FS_Interval DEF Same
<1>3. IsFiniteSet(Same(rows, i))
    BY <1>2, FS_Subset
<1> QED BY <1>3, FS_CardinalityType

LEMMA MaxOfOne == \A n \in Nat : Max({n}) = n
<1> SUFFICES ASSUME NEW n \in Nat PROVE Max({n}) = n
    OBVIOUS
<1>1. n >= n
    OBVIOUS
<1> QED BY <1>1, Zenon DEF Max

(* So each engine row is found under its own key, and no key is reused.    *)
LEMMA KeyedIs ==
  ASSUME NEW rows, Listed(rows)
  PROVE  /\ \A i \in EngineRows(rows) :
              i # NoRow /\ Key(rows, i) \in DOMAIN Keyed(rows) /\ Keyed(rows)[Key(rows, i)] = i
         /\ \A k \in DOMAIN Keyed(rows) :
              Keyed(rows)[k] \in EngineRows(rows) /\ Key(rows, Keyed(rows)[k]) = k
<1>1. DOMAIN Keyed(rows) = {Key(rows, i) : i \in EngineRows(rows)}
    BY DEF Keyed
<1>2. ASSUME NEW i \in EngineRows(rows) PROVE Keyed(rows)[Key(rows, i)] = i
    <2>1. {j \in EngineRows(rows) : Key(rows, j) = Key(rows, i)} = {i}
        BY KeysAreDistinct
    <2>2. Keyed(rows)[Key(rows, i)] = Max({i})
        BY <2>1 DEF Keyed
    <2>3. i \in Nat
        BY DEF EngineRows, Listed
    <2> QED BY <2>2, <2>3, MaxOfOne
<1>3. \A i \in EngineRows(rows) : i # NoRow
    BY DEF EngineRows, Listed, NoRow
<1>4. ASSUME NEW k \in DOMAIN Keyed(rows)
      PROVE  Keyed(rows)[k] \in EngineRows(rows) /\ Key(rows, Keyed(rows)[k]) = k
    <2>1. PICK i \in EngineRows(rows) : k = Key(rows, i)
        BY <1>1
    <2> QED BY <1>2, <2>1
<1> QED BY <1>1, <1>2, <1>3, <1>4

(* compare() by engine: every engine row of either graph in one pair, and  *)
(* a pair of two rows has one key.                                         *)
LEMMA EnginePairsOnce ==
  ASSUME NEW ra, NEW rb, Listed(ra), Listed(rb)
  PROVE  /\ \A i \in EngineRows(ra) : \E p : {q \in EnginePairs(ra, rb) : q[1] = i} = {p}
         /\ \A j \in EngineRows(rb) : \E p : {q \in EnginePairs(ra, rb) : q[2] = j} = {p}
         /\ \A p \in EnginePairs(ra, rb) :
              p[1] # NoRow /\ p[2] # NoRow =>
                /\ p[1] \in EngineRows(ra) /\ p[2] \in EngineRows(rb)
                /\ Key(ra, p[1]) = Key(rb, p[2])
<1> DEFINE ka == Keyed(ra)
           kb == Keyed(rb)
           P1 == {<<ka[k], IF k \in DOMAIN kb THEN kb[k] ELSE NoRow>> : k \in DOMAIN ka}
           P2 == {<<NoRow, kb[k]>> : k \in DOMAIN kb \ DOMAIN ka}
           P == EnginePairs(ra, rb)
<1>1. P = P1 \cup P2
    BY DEF EnginePairs
<1>2. /\ \A i \in EngineRows(ra) : i # NoRow /\ Key(ra, i) \in DOMAIN ka /\ ka[Key(ra, i)] = i
      /\ \A j \in EngineRows(rb) : j # NoRow /\ Key(rb, j) \in DOMAIN kb /\ kb[Key(rb, j)] = j
    BY KeyedIs, Zenon
<1>3. /\ \A k \in DOMAIN ka : ka[k] \in EngineRows(ra) /\ Key(ra, ka[k]) = k
      /\ \A k \in DOMAIN kb : kb[k] \in EngineRows(rb) /\ Key(rb, kb[k]) = k
    BY KeyedIs, Zenon
<1> HIDE DEF ka, kb, P
<1>4. \A q \in P : \/ /\ q[1] \in EngineRows(ra) /\ q[1] = ka[Key(ra, q[1])]
                       /\ q = <<q[1], IF Key(ra, q[1]) \in DOMAIN kb
                                        THEN kb[Key(ra, q[1])] ELSE NoRow>>
                    \/ /\ q[2] \in EngineRows(rb) /\ q = <<NoRow, q[2]>>
                       /\ Key(rb, q[2]) \notin DOMAIN ka
    <2>1. \A k \in DOMAIN ka : \A q :
            q = <<ka[k], IF k \in DOMAIN kb THEN kb[k] ELSE NoRow>> =>
              /\ q[1] \in EngineRows(ra) /\ Key(ra, q[1]) = k
              /\ q = <<q[1], IF k \in DOMAIN kb THEN kb[k] ELSE NoRow>>
              /\ q[1] = ka[k]
        BY <1>3
    <2>2. \A k \in DOMAIN kb : \A q :
            q = <<NoRow, kb[k]>> =>
              q[2] \in EngineRows(rb) /\ Key(rb, q[2]) = k /\ q = <<NoRow, q[2]>>
        BY <1>3
    <2> SUFFICES ASSUME NEW q \in P
                 PROVE  \/ /\ q[1] \in EngineRows(ra) /\ q[1] = ka[Key(ra, q[1])]
                           /\ q = <<q[1], IF Key(ra, q[1]) \in DOMAIN kb
                                            THEN kb[Key(ra, q[1])] ELSE NoRow>>
                        \/ /\ q[2] \in EngineRows(rb) /\ q = <<NoRow, q[2]>>
                           /\ Key(rb, q[2]) \notin DOMAIN ka
        OBVIOUS
    <2>3. CASE q \in P1
        <3>1. PICK k \in DOMAIN ka : q = <<ka[k], IF k \in DOMAIN kb THEN kb[k] ELSE NoRow>>
            BY <2>3
        <3> QED BY <2>1, <3>1
    <2>4. CASE q \in P2
        <3>1. PICK k \in DOMAIN kb \ DOMAIN ka : q = <<NoRow, kb[k]>>
            BY <2>4
        <3> QED BY <2>2, <3>1
    <2> QED BY <1>1, <2>3, <2>4
<1>5. \A i \in EngineRows(ra) :
        <<i, IF Key(ra, i) \in DOMAIN kb THEN kb[Key(ra, i)] ELSE NoRow>> \in P
    <2> TAKE i \in EngineRows(ra)
    <2> DEFINE k == Key(ra, i)
    <2>1. k \in DOMAIN ka /\ ka[k] = i
        BY <1>2
    <2> HIDE DEF k
    <2>2. <<ka[k], IF k \in DOMAIN kb THEN kb[k] ELSE NoRow>> \in P1
        BY <2>1
    <2> QED BY <1>1, <2>1, <2>2 DEF k
<1>6. \A j \in EngineRows(rb) : Key(rb, j) \notin DOMAIN ka => <<NoRow, j>> \in P
    BY <1>1, <1>2
<1>7. ASSUME NEW i \in EngineRows(ra) PROVE \E p : {q \in P : q[1] = i} = {p}
    <2> DEFINE p == <<i, IF Key(ra, i) \in DOMAIN kb THEN kb[Key(ra, i)] ELSE NoRow>>
    <2>1. \A q \in P : q[1] = i => q = p
        BY <1>2, <1>4
    <2>2. p \in P /\ p[1] = i
        BY <1>5
    <2> HIDE DEF p
    <2>3. {q \in P : q[1] = i} = {p}
        BY <2>1, <2>2
    <2> QED BY <2>3
<1>8. ASSUME NEW j \in EngineRows(rb) PROVE \E p : {q \in P : q[2] = j} = {p}
    <2>1. CASE Key(rb, j) \in DOMAIN ka
        <3> DEFINE i == ka[Key(rb, j)]
                   p == <<i, j>>
        <3>1. i \in EngineRows(ra) /\ Key(ra, i) = Key(rb, j)
            BY <1>3, <2>1
        <3>2. p \in P /\ p[2] = j
            BY <1>2, <1>5, <3>1
        <3>3. ASSUME NEW q \in P, q[2] = j PROVE q = p
            <4>1. CASE q[1] \in EngineRows(ra) /\ q[1] = ka[Key(ra, q[1])]
                       /\ q = <<q[1], IF Key(ra, q[1]) \in DOMAIN kb
                                        THEN kb[Key(ra, q[1])] ELSE NoRow>>
                <5>1. Key(ra, q[1]) \in DOMAIN kb /\ kb[Key(ra, q[1])] = j
                    BY <1>2, <3>3, <4>1
                <5>2. Key(ra, q[1]) = Key(rb, j)
                    BY <1>3, <5>1
                <5> QED BY <3>3, <4>1, <5>2
            <4>2. CASE q[2] \in EngineRows(rb) /\ q = <<NoRow, q[2]>>
                       /\ Key(rb, q[2]) \notin DOMAIN ka
                BY <2>1, <3>3, <4>2
            <4> QED BY <1>4, <4>1, <4>2
        <3> HIDE DEF p
        <3>4. {q \in P : q[2] = j} = {p}
            BY <3>2, <3>3
        <3> QED BY <3>4
    <2>2. CASE Key(rb, j) \notin DOMAIN ka
        <3> DEFINE p == <<NoRow, j>>
        <3>1. p \in P /\ p[2] = j
            BY <1>6, <2>2
        <3>2. ASSUME NEW q \in P, q[2] = j PROVE q = p
            <4>1. CASE q[1] \in EngineRows(ra) /\ q[1] = ka[Key(ra, q[1])]
                       /\ q = <<q[1], IF Key(ra, q[1]) \in DOMAIN kb
                                        THEN kb[Key(ra, q[1])] ELSE NoRow>>
                <5>1. Key(ra, q[1]) \in DOMAIN kb /\ kb[Key(ra, q[1])] = j
                    BY <1>2, <3>2, <4>1
                <5>2. Key(ra, q[1]) = Key(rb, j) /\ Key(ra, q[1]) \in DOMAIN ka
                    BY <1>2, <1>3, <4>1, <5>1
                <5> QED BY <2>2, <5>2
            <4>2. CASE q[2] \in EngineRows(rb) /\ q = <<NoRow, q[2]>>
                       /\ Key(rb, q[2]) \notin DOMAIN ka
                BY <3>2, <4>2
            <4> QED BY <1>4, <4>1, <4>2
        <3> HIDE DEF p
        <3>3. {q \in P : q[2] = j} = {p}
            BY <3>1, <3>2
        <3> QED BY <3>3
    <2> QED BY <2>1, <2>2
<1>9. ASSUME NEW p \in P, p[1] # NoRow, p[2] # NoRow
      PROVE  /\ p[1] \in EngineRows(ra) /\ p[2] \in EngineRows(rb)
             /\ Key(ra, p[1]) = Key(rb, p[2])
    <2>1. p[1] \in EngineRows(ra) /\ Key(ra, p[1]) \in DOMAIN kb /\ p[2] = kb[Key(ra, p[1])]
        BY <1>4, <1>9
    <2> QED BY <1>3, <2>1
<1> QED BY <1>7, <1>8, <1>9 DEF P

-----------------------------------------------------------------------------
(* What a comparison reports.                                              *)

(* A document as the JSON parser returns it: lists of graphs and of rows.  *)
IsDocument(d) ==
  /\ Len(d.graphs) \in Nat /\ DOMAIN d.graphs = 1..Len(d.graphs)
  /\ \A i \in DOMAIN d.graphs : Listed(d.graphs[i].rows)

(* The pairs of compare() come from matched graphs, and every matched pair *)
(* of graphs shows, by engine if either graph has an engine row.           *)
LEMMA Reports ==
  ASSUME NEW a, NEW b, NEW by, IsDocument(a), IsDocument(b)
  PROVE  /\ \A p \in ComparePairs(a, b, by) : p.graphs \in MatchGraphs(a, b)
         /\ \A m \in MatchGraphs(a, b) :
              /\ {p.rows : p \in {q \in ComparePairs(a, b, by) : q.graphs = m}} =
                   RowPairs(a.graphs[m[1]], b.graphs[m[2]], by)
              /\ \/ by # "engine"
                 \/ EngineRows(a.graphs[m[1]].rows) # {}
                 \/ EngineRows(b.graphs[m[2]].rows) # {}
                 => \E p \in ComparePairs(a, b, by) : p.graphs = m
<1> DEFINE Of(m) == RowPairs(a.graphs[m[1]], b.graphs[m[2]], by)
           P == ComparePairs(a, b, by)
           M == MatchGraphs(a, b)
<1>1. P = UNION {{[graphs |-> m, rows |-> p] : p \in Of(m)} : m \in M}
    BY DEF ComparePairs
<1>2. \A x \in P : \E m \in M : \E p \in Of(m) : x = [graphs |-> m, rows |-> p]
    <2> HIDE DEF P, M, Of
    <2> QED BY <1>1
<1>3. \A m \in M : \A p \in Of(m) : [graphs |-> m, rows |-> p] \in P
    <2> HIDE DEF P, M, Of
    <2> QED BY <1>1
<1>4. MatchInv(a, b, Len(a.graphs), M)
    BY MatchingIs DEF IsDocument
<1>5. ASSUME NEW m \in M, \/ by # "engine"
                          \/ EngineRows(a.graphs[m[1]].rows) # {}
                          \/ EngineRows(b.graphs[m[2]].rows) # {}
      PROVE  Of(m) # {}
    <2>1. CASE by # "engine"
        BY <2>1 DEF RowPairs
    <2>2. CASE by = "engine"
        <3> DEFINE ra == a.graphs[m[1]].rows
                   rb == b.graphs[m[2]].rows
        <3>1. Listed(ra) /\ Listed(rb)
            BY <1>4 DEF MatchInv, Paired, IsDocument
        <3>2. Of(m) = EnginePairs(ra, rb)
            BY <2>2 DEF RowPairs
        <3> HIDE DEF ra, rb
        <3>3. /\ \A i \in EngineRows(ra) : EnginePairs(ra, rb) # {}
              /\ \A j \in EngineRows(rb) : EnginePairs(ra, rb) # {}
            BY <3>1, EnginePairsOnce
        <3> QED BY <1>5, <2>2, <3>2, <3>3 DEF ra, rb
    <2> QED BY <2>1, <2>2
<1> HIDE DEF P, M, Of
<1>6. \A p \in P : p.graphs \in M
    BY <1>2
<1>7. ASSUME NEW m \in M PROVE {p.rows : p \in {q \in P : q.graphs = m}} = Of(m)
    <2>1. \A q \in P : q.graphs = m => q.rows \in Of(m)
        BY <1>2
    <2>2. \A p \in Of(m) : \E q \in P : q.graphs = m /\ q.rows = p
        BY <1>3
    <2> QED BY <2>1, <2>2
<1>8. \A m \in M : Of(m) # {} => \E p \in P : p.graphs = m
    BY <1>3
<1> QED BY <1>5, <1>6, <1>7, <1>8 DEF P, M, Of

-----------------------------------------------------------------------------
(* A document compared with itself.                                        *)

Itself(a, k) == {<<i, i>> : i \in {j \in 1..k : a.graphs[j].id # NoId}}

(* The first graph of its graph_id that none before it took is itself.     *)
LEMMA TakesItself ==
  ASSUME NEW a, NEW n \in Nat, DOMAIN a.graphs = 1..n, NEW k \in 1..n
  PROVE  Take(a, a, Itself(a, k - 1), k) = Itself(a, k)
<1> DEFINE id == a.graphs[k].id
           M == Itself(a, k - 1)
           taken == {m[2] : m \in M}
           queue == {j \in DOMAIN a.graphs : a.graphs[j].id = id} \ taken
<1>0. 1..k = 1..(k - 1) \cup {k} /\ k \notin 1..(k - 1) /\ 1..(k - 1) \subseteq 1..n
    OBVIOUS
<1>1. taken = {j \in 1..(k - 1) : a.graphs[j].id # NoId}
    <2> DEFINE named == {j \in 1..(k - 1) : a.graphs[j].id # NoId}
    <2>1. M = {<<i, i>> : i \in named}
        BY DEF Itself
    <2>2. \A i : <<i, i>>[2] = i
        OBVIOUS
    <2> HIDE DEF M, named
    <2>3. \A m \in M : m[2] \in named
        BY <2>1
    <2>4. \A i \in named : \E m \in M : m[2] = i
        BY <2>1, <2>2
    <2>5. {m[2] : m \in M} = named
        BY <2>3, <2>4
    <2> QED BY <2>5 DEF named
<1>2. CASE id = NoId
    <2>1. Take(a, a, M, k) = M
        BY <1>2 DEF Take
    <2>2. Itself(a, k) = M
        BY <1>0, <1>2 DEF Itself
    <2> QED BY <2>1, <2>2
<1>3. CASE id # NoId
    <2>1. k \in queue /\ queue \in SUBSET Nat
        <3>1. k \in DOMAIN a.graphs /\ k \notin taken
            BY <1>0, <1>1
        <3>2. \A j \in 1..n : j \in Nat
            OBVIOUS
        <3> QED BY <3>1, <3>2
    <2>2. \A j \in queue : k <= j
        <3>1. \A j \in queue : j \in 1..n /\ ~(j \in 1..(k - 1))
            BY <1>1, <1>3
        <3>2. \A j \in 1..n : ~(j \in 1..(k - 1)) => k <= j
            OBVIOUS
        <3> QED BY <3>1, <3>2
    <2> HIDE DEF queue
    <2>3. Min(queue) = k
        <3>1. Min(queue) \in queue /\ \A j \in queue : Min(queue) <= j
            BY <2>1, MinIsLeast
        <3>2. \A x, y \in Nat : x <= y /\ y <= x => x = y
            OBVIOUS
        <3>3. Min(queue) <= k /\ k <= Min(queue) /\ Min(queue) \in Nat /\ k \in Nat
            BY <2>1, <2>2, <3>1, Zenon
        <3> QED BY <3>2, <3>3
    <2>4. Take(a, a, M, k) = M \cup {<<k, Min(queue)>>}
        BY <1>3, <2>1 DEF Take, queue
    <2>5. Itself(a, k) = M \cup {<<k, k>>}
        BY <1>0, <1>3 DEF Itself
    <2> QED BY <2>3, <2>4, <2>5
<1> QED BY <1>2, <1>3

LEMMA MatchesItself ==
  ASSUME NEW a, Len(a.graphs) \in Nat, DOMAIN a.graphs = 1..Len(a.graphs)
  PROVE  \A m \in MatchGraphs(a, a) : m[1] = m[2]
<1> DEFINE n == Len(a.graphs)
<1>1. PICK f : IsLoop(a, a, n, f) /\ MatchGraphs(a, a) = f[n]
    BY MatchGraphsIs
<1> DEFINE Bad == {k \in 0..n : f[k] # Itself(a, k)}
<1>2. Bad = {}
    <2> SUFFICES ASSUME Bad # {} PROVE FALSE
        OBVIOUS
    <2>0. Bad \in SUBSET Nat
        <3>1. 0..n \in SUBSET Nat
            OBVIOUS
        <3> QED BY <3>1, Zenon
    <2>1. PICK k \in Bad : \A j \in Bad : k <= j
        BY <2>0, LeastNatural, Zenon
    <2>2. k \in 0..n /\ f[k] # Itself(a, k)
        BY <2>1
    <2>3. CASE k = 0
        <3>1. f[0] = {}
            BY <1>1, <2>2, <2>3 DEF IsLoop
        <3>2. Itself(a, 0) = {}
            BY DEF Itself
        <3> QED BY <2>2, <2>3, <3>1, <3>2
    <2>4. CASE k # 0
        <3>1. k \in 1..n /\ k - 1 \in 0..n /\ ~(k <= k - 1)
            BY <2>2, <2>4
        <3>2. f[k] = Take(a, a, f[k - 1], k)
            BY <1>1, <2>4, <3>1 DEF IsLoop
        <3>3. f[k - 1] = Itself(a, k - 1)
            BY <2>1, <3>1
        <3> QED BY <2>2, <3>1, <3>2, <3>3, TakesItself
    <2> QED BY <2>3, <2>4
<1>3. n \in 0..n
    OBVIOUS
<1>4. f[n] = Itself(a, n)
    BY <1>2, <1>3
<1> QED BY <1>1, <1>4 DEF Itself

LEMMA RowMeetsItself ==
  ASSUME NEW g, NEW by, NEW p \in RowPairs(g, g, by)
  PROVE  p = <<p[1], p[1]>>
<1>1. CASE by = "engine"
    <2> DEFINE k == Keyed(g.rows)
    <2>1. p \in {<<k[x], IF x \in DOMAIN k THEN k[x] ELSE NoRow>> : x \in DOMAIN k}
                  \cup {<<NoRow, k[x]>> : x \in DOMAIN k \ DOMAIN k}
        BY <1>1 DEF RowPairs, EnginePairs
    <2> HIDE DEF k
    <2>2. PICK x \in DOMAIN k : p = <<k[x], k[x]>>
        BY <2>1
    <2> QED BY <2>2
<1>2. CASE by = "ref"
    BY <1>2 DEF RowPairs
<1>3. CASE by \notin {"engine", "ref"}
    BY <1>3 DEF RowPairs
<1> QED BY <1>1, <1>2, <1>3

LEMMA PairsAreOfRows ==
  ASSUME NEW ga, NEW gb, NEW by, NEW p \in RowPairs(ga, gb, by), Listed(ga.rows)
  PROVE  p[1] # NoRow => p[1] \in DOMAIN ga.rows
<1>1. \A role : Pick(ga.rows, role) = NoRow \/ Pick(ga.rows, role) \in DOMAIN ga.rows
    <2> TAKE role
    <2> DEFINE usable == {i \in DOMAIN ga.rows :
                            /\ ga.rows[i].role = role /\ ga.rows[i].verdict \in Usable
                            /\ HasTime(ga.rows[i])}
               best == {i \in usable : \A j \in usable : Stat(ga.rows[i]) <= Stat(ga.rows[j])}
    <2>1. best \in SUBSET DOMAIN ga.rows /\ best \in SUBSET Nat
        BY DEF Listed
    <2>2. Pick(ga.rows, role) = IF best = {} THEN NoRow ELSE Min(best)
        BY DEF Pick
    <2> HIDE DEF best
    <2>3. best # {} => Min(best) \in best
        BY <2>1, MinIsLeast
    <2> QED BY <2>1, <2>2, <2>3
<1>2. CASE by = "engine"
    <2> DEFINE ka == Keyed(ga.rows)
               kb == Keyed(gb.rows)
    <2>1. p \in {<<ka[x], IF x \in DOMAIN kb THEN kb[x] ELSE NoRow>> : x \in DOMAIN ka}
                  \cup {<<NoRow, kb[x]>> : x \in DOMAIN kb \ DOMAIN ka}
        BY <1>2 DEF RowPairs, EnginePairs
    <2>2. \A x \in DOMAIN ka : ka[x] \in DOMAIN ga.rows
        BY KeyedIs DEF EngineRows
    <2> HIDE DEF ka, kb
    <2> QED BY <2>1, <2>2
<1>3. CASE by # "engine"
    <2>1. p[1] \in {Pick(ga.rows, "reference"), Pick(ga.rows, "engine")}
        BY <1>3 DEF RowPairs
    <2> QED BY <1>1, <2>1
<1> QED BY <1>2, <1>3

(* A row of numbers.                                                       *)
Timed(row) == row.ms \in Nat /\ row.iqr \in Nat

LEMMA NatProduct == \A x, y \in Nat : x * y \in Nat
OBVIOUS

(* _pair() of a row and itself is inside every threshold.                  *)
LEMMA LabelOfItself ==
  ASSUME NEW g, NEW r, NEW threshold \in Nat, r # NoRow => Timed(g.rows[r])
  PROVE  Label(g, g, <<r, r>>, threshold) \notin {"REGRESSION", "faster"}
<1> DEFINE a == g.rows[r]
           band == {Square(threshold), 4 * (Square(a.iqr) + Square(a.iqr))}
<1>1. CASE r = NoRow \/ Stat(a) = 0 \/ a.verdict = "failed"
    BY <1>1 DEF Label
<1>2. CASE ~(r = NoRow \/ Stat(a) = 0 \/ a.verdict = "failed")
    <2>1. Stat(a) \in Nat /\ a.iqr \in Nat
        BY <1>2 DEF Stat, Timed
    <2>2. Square(Stat(a)) \in Nat /\ Square(threshold) \in Nat /\ Square(a.iqr) \in Nat
        BY <2>1, NatProduct DEF Square
    <2>3. Square(threshold) \in band /\ Max(band) \in Nat
        <3> DEFINE u == Square(threshold)
                   v == 4 * (Square(a.iqr) + Square(a.iqr))
        <3>1. u \in Nat /\ v \in Nat
            BY <2>2
        <3> HIDE DEF u, v
        <3>2. u >= v \/ v >= u
            BY <3>1
        <3>3. u >= u /\ v >= v
            BY <3>1
        <3>4. Max({u, v}) \in {u, v}
            BY <3>2, <3>3, Zenon DEF Max
        <3> QED BY <3>1, <3>4 DEF u, v
    <2>4. Square(100 * Difference(Stat(a), Stat(a))) = 0
        BY <2>1 DEF Square, Difference
    <2> HIDE DEF band
    <2>5. Square(Stat(a)) * Max(band) \in Nat
        BY <2>2, <2>3, NatProduct
    <2>6. Square(100 * Difference(Stat(a), Stat(a))) <= Square(Stat(a)) * Max(band)
        BY <2>4, <2>5
    <2>7. Label(g, g, <<r, r>>, threshold) = "within noise"
        BY <1>2, <2>6 DEF Label, band
    <2> QED BY <2>7
<1> QED BY <1>1, <1>2

(* Every pair of a self-comparison is a row with itself.                   *)
LEMMA ComparedWithItself ==
  ASSUME NEW a, NEW by, IsDocument(a), NEW p \in ComparePairs(a, a, by)
  PROVE  /\ p.graphs \in MatchGraphs(a, a) /\ p.graphs[1] = p.graphs[2]
         /\ p.rows \in RowPairs(a.graphs[p.graphs[1]], a.graphs[p.graphs[2]], by)
         /\ p.rows = <<p.rows[1], p.rows[1]>>
<1>1. PICK m \in MatchGraphs(a, a) :
        \E q \in RowPairs(a.graphs[m[1]], a.graphs[m[2]], by) : p = [graphs |-> m, rows |-> q]
    BY DEF ComparePairs
<1>2. m[1] = m[2]
    BY MatchesItself DEF IsDocument
<1> QED BY <1>1, <1>2, RowMeetsItself
=============================================================================
