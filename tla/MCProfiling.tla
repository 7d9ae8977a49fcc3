---------------------------- MODULE MCProfiling -----------------------------
\* Two selections, and two passes for each.
EXTENDS Profiling

MCRequests == {{"pmc", "roofline"}, {"trace", "perf"}, {"perf", "roofline"}}
MCSelections == <<"A", "B">>

\* A fresh output directory, or one where an earlier run left everything.
MCLeftovers == {{}, Dirs}

\* One arch with wheels and everything, and for each way a tool may be
\* elsewhere or missing a host that has it so.
Everywhere == [b \in Binaries |-> {"shim", "prefix", "path"}]
MCHosts ==
  {[cdna |-> TRUE, wheel |-> TRUE, installed |-> Everywhere],
   [cdna |-> FALSE, wheel |-> FALSE, installed |-> [b \in Binaries |-> {"path"}]]}
  \cup {[cdna |-> TRUE, wheel |-> TRUE, installed |-> [Everywhere EXCEPT ![b] = p]] :
          b \in Binaries \ {"perf"}, p \in {{}, {"prefix"}}}
=============================================================================
