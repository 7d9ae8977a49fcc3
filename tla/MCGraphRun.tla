----------------------------- MODULE MCGraphRun -----------------------------
(***************************************************************************)
(* A small instance of GraphRun.  The configurations are ones SuiteConfig  *)
(* accepts; between them they reach every branch of run_graph().           *)
(***************************************************************************)
EXTENDS GraphRun

Lists == {<<>>, <<1, 2>>, <<1, 1>>}

Of(runtimes, on) ==
  [runtimes |-> runtimes, oracle |-> "oracle" \in on, validate |-> "validate" \in on,
   strict |-> "strict" \in on, float64 |-> "float64" \in on,
   profile |-> "profile" \in on, stall |-> "stall" \in on]

Several ==
  {Of(<<"hipdnn">>, {"oracle", "stall"}),
   Of(<<"hipdnn">>, {"validate", "float64", "stall"}),
   Of(<<"hipdnn">>, {"oracle", "validate", "strict", "profile", "stall"}),
   Of(<<"hipdnn", "rocke">>, {"validate", "stall"}),
   Of(<<"hipdnn", "pytorch">>, {"oracle", "profile"}),
   Of(<<"pytorch">>, {"oracle", "strict", "stall"})}

Modes == {Of(<<"hipdnn">>, {"validate", "stall"})}
=============================================================================
