---------------------------- MODULE MCMeasureLoop ----------------------------
(* Small policies: every warmup count around the number of priming enqueues *)
(* (1, 2 or 3), budgets that are met at once, late or never, and caps at,   *)
(* above and below what the budget needs.                                   *)
EXTENDS MeasureLoop

MCElapsed == {0, 1, 2}

MCPolicies ==
  { p \in [warmup_iters : 0..4, iters : 1..2, min_time_ms : {0, 3},
           max_iters : 1..3, cold : BOOLEAN, timing_block : 1..2,
           stall_gate : BOOLEAN] : p \in Policy }
=============================================================================
