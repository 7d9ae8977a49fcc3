------------------------------ MODULE Compare ------------------------------
(***************************************************************************)
(* reporting/compare.py: two result documents, joined graph by graph and   *)
(* row by row.  A document is [gates, graphs]; a graph is [id, rows] (id   *)
(* NoId when it failed to load); a row is [role, engine, verdict, timed,   *)
(* ms, iqr]: whether it has a median (not null), the median, and IQR /     *)
(* median in percent.                                                      *)
(***************************************************************************)
EXTENDS Naturals, Sequences, FiniteSets, FiniteSetsExt

NoId == "no id"
NoRow == 0
Usable == {"passed", "unchecked", "reference"}

\* _stat(): the time of a row; _pair() has no use for 0 or for none.
HasTime(row) == row.timed /\ row.verdict \notin {"error", "skipped"}
Stat(row) == IF HasTime(row) THEN row.ms ELSE 0

\* _pick(): the fastest usable row of the role, the first of equals; a median
\* of 0 is the fastest.
Pick(rows, role) ==
  LET usable == {i \in DOMAIN rows :
                   rows[i].role = role /\ rows[i].verdict \in Usable /\ HasTime(rows[i])}
      best == {i \in usable : \A j \in usable : Stat(rows[i]) <= Stat(rows[j])}
  IN  IF best = {} THEN NoRow ELSE Min(best)

\* Seeded bug: a row's identity alone is its key.
Key_identity(rows, i) == <<rows[i].engine, 0>>

\* _keyed(): identity plus occurrence index.
Key(rows, i) ==
  <<rows[i].engine,
    Cardinality({j \in 1..(i - 1) : rows[j].role = "engine" /\ rows[j].engine = rows[i].engine})>>

EngineRows(rows) == {i \in DOMAIN rows : rows[i].role = "engine"}

\* A later row replaces an earlier one of the same key.
Keyed(rows) ==
  [k \in {Key(rows, i) : i \in EngineRows(rows)} |->
     Max({i \in EngineRows(rows) : Key(rows, i) = k})]

\* The pairs of row numbers of two matched graphs, NoRow for a side without.
EnginePairs(ra, rb) ==
  LET ka == Keyed(ra)
      kb == Keyed(rb)
  IN  {<<ka[k], IF k \in DOMAIN kb THEN kb[k] ELSE NoRow>> : k \in DOMAIN ka}
        \cup {<<NoRow, kb[k]>> : k \in DOMAIN kb \ DOMAIN ka}

RowPairs(ga, gb, by) ==
  CASE by = "engine" -> EnginePairs(ga.rows, gb.rows)
    [] by = "ref"    -> {<<Pick(ga.rows, "reference"), Pick(gb.rows, "reference")>>}
    [] OTHER         -> {<<Pick(ga.rows, "engine"), Pick(gb.rows, "engine")>>}

\* _pair(): no time on either side, or a failed row, is never a regression;
\* a change inside the threshold or twice the combined spread is noise.
Square(x) == x * x
Difference(x, y) == IF x > y THEN x - y ELSE y - x
Label(ga, gb, pair, threshold) ==
  IF NoRow \in {pair[1], pair[2]} THEN "no row" ELSE
  LET a == ga.rows[pair[1]]
      b == gb.rows[pair[2]]
  IN  IF Stat(a) = 0 \/ Stat(b) = 0 THEN "no time"
      ELSE IF "failed" \in {a.verdict, b.verdict} THEN "failed"
      ELSE IF Square(100 * Difference(Stat(a), Stat(b)))
                <= Square(Stat(a)) * Max({Square(threshold), 4 * (Square(a.iqr) + Square(b.iqr))})
        THEN "within noise"
      ELSE IF Stat(b) > Stat(a) THEN "REGRESSION" ELSE "faster"

\* Seeded bug: the last graph of the queue is popped.
Take_last(a, b, matched, i) ==
  LET id == a.graphs[i].id
      queue == {j \in DOMAIN b.graphs : b.graphs[j].id = id} \ {m[2] : m \in matched}
  IN  IF id = NoId \/ queue = {} THEN matched ELSE matched \cup {<<i, Max(queue)>>}

\* The loop body of _match_graphs(): a graph of A takes the first graph of its
\* graph_id in B that none before it took; one without rows has no graph_id.
Take(a, b, matched, i) ==
  LET id == a.graphs[i].id
      queue == {j \in DOMAIN b.graphs : b.graphs[j].id = id} \ {m[2] : m \in matched}
  IN  IF id = NoId \/ queue = {} THEN matched ELSE matched \cup {<<i, Min(queue)>>}

\* _match_graphs(): the pairs of graph numbers after the last graph of A.
MatchGraphs(a, b) ==
  LET matched[i \in 0..Len(a.graphs)] ==
        IF i = 0 THEN {} ELSE Take(a, b, matched[i - 1], i)
  IN  matched[Len(a.graphs)]

\* compare(): every pair of rows of every matched pair of graphs.
ComparePairs(a, b, by) ==
  UNION {{[graphs |-> m, rows |-> p] : p \in RowPairs(a.graphs[m[1]], b.graphs[m[2]], by)} :
         m \in MatchGraphs(a, b)}

\* main(): documents timed differently are refused unless the user insists.
CompareExit(a, b, by, threshold, allow) ==
  IF a.gates # b.gates /\ ~allow THEN 2 ELSE
  IF \E p \in ComparePairs(a, b, by) :
       Label(a.graphs[p.graphs[1]], b.graphs[p.graphs[2]], p.rows, threshold) = "REGRESSION"
    THEN 1 ELSE 0
=============================================================================
