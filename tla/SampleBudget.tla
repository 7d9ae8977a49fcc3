---------------------------- MODULE SampleBudget ----------------------------
(***************************************************************************)
(* What one timed loop promises its caller, whatever the timing mode: it   *)
(* collects samples one at a time while the policy's sample count or its   *)
(* device-time budget is unmet, never more than max_iters of them, and it  *)
(* says "capped" exactly when it stopped with the budget unmet.            *)
(***************************************************************************)
EXTENDS Integers

CONSTANTS Policies,   \* records with iters, min_time_ms and max_iters
          Elapsed     \* the device times a sample can take

VARIABLES policy,     \* the policy of this loop; it never changes
          samples,    \* samples recorded so far
          total,      \* their summed device time
          status      \* "sampling", "met", "capped" or "failed"

vars == <<policy, samples, total, status>>

Met == samples >= policy.iters /\ total >= policy.min_time_ms

Init == /\ policy \in Policies
        /\ samples = 0 /\ total = 0 /\ status = "sampling"

Sample == /\ status = "sampling"
          /\ ~Met
          /\ samples < policy.max_iters
          /\ \E e \in Elapsed : total' = total + e
          /\ samples' = samples + 1
          /\ UNCHANGED <<policy, status>>

Stop == /\ status = "sampling"
        /\ \/ Met /\ status' = "met"
           \/ ~Met /\ samples >= policy.max_iters /\ status' = "capped"
        /\ UNCHANGED <<policy, samples, total>>

Fail == /\ status = "sampling"
        /\ status' = "failed"
        /\ UNCHANGED <<policy, samples, total>>

Next == Sample \/ Stop \/ Fail

Spec == Init /\ [][Next]_vars
=============================================================================
