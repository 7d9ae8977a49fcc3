------------------------------ MODULE MCWorkspace ------------------------------
(* Setup runs, benchmark commands and comparisons on one machine.             *)
EXTENDS Launch

Request(m, i, a) == [NoJob EXCEPT !.mode = m, !.index = i, !.gpu_arch = a, !.yes = TRUE]

MCRequests ==
  {Request(m, None, None) : m \in {"rocm", "cpu", "cuda", "existing", "none"}}
  \cup {[Request("rocm", None, "gfx942") EXCEPT !.yes = FALSE],
        [Request("rocm", "nightly", None) EXCEPT !.clean = TRUE],
        [Request("rocm", "nightly", "gfx90a") EXCEPT !.reuse = TRUE],
        [Request("existing", None, None) EXCEPT !.reuse = TRUE, !.prefix = "system"],
        [Request("existing", None, None) EXCEPT !.clean = TRUE]}

Brings(wheel, system) == [wheel |-> wheel, system |-> system]
MCHosts ==
  {[archs |-> {"gfx90a"}, tools |-> TRUE, terminal |-> TRUE, checkout |-> "foreign",
    prepared |-> FALSE, brings |-> Brings({"configs"}, {"configs", "bin"})],
   [archs |-> {"gfx90a", "gfx942"}, tools |-> TRUE, terminal |-> FALSE, checkout |-> "old",
    prepared |-> FALSE, brings |-> Brings({"configs", "lib"}, {})],
   [archs |-> {}, tools |-> FALSE, terminal |-> FALSE, checkout |-> "absent",
    prepared |-> TRUE, brings |-> Brings({}, {"configs", "lib"})]}
MCInherited == {None, "system"}

Cli(cli) == [cli |-> cli, config |-> NoConfig]

MCDefaultIndex == [cpu |-> "cpu", cuda |-> "pypi", rocm |-> "multi-arch"]

MCPluginDirs == [p |-> {"E", "F"}, q |-> {"F"}]

Entry(e, p) == [id |-> e, plugin_path |-> p]
Table(options, engines) == [options |-> options, engines |-> engines]

Pairs == Table(<<>>, <<Entry("E", "p"), Entry("F", "q")>>)
SameDir == Table(<<>>, <<Entry("E", "p"), Entry("F", "p")>>)
Default == Table(<<>>, <<Entry("E", "wheel")>>)
Names == Table(<<>>, <<Entry("F", None)>>)
Shared == Table("plugin_path" :> <<"p">>, <<Entry("E", None)>>)
Twice == Table("plugin_path" :> <<"p">>, <<Entry("E", "p")>>)
MCCommands ==
  {Cli(<<>>), Cli("validate" :> TRUE), Cli("plugin_path" :> <<"moved">>),
   Cli("engine" :> <<"E">> @@ "plugin_path" :> <<"q">>),
   Cli("runtime" :> {"pytorch"}), Cli("runtime" :> {"hipdnn", "rocke"}),
   Cli("flags" :> {"--oracle", "--autotune"}),
   Cli("runtime" :> {"hipdnn", "pytorch"} @@ "validate" :> TRUE)}
  \cup {[cli |-> c, config |-> Pairs] :
           c \in {<<>>, "engine" :> <<"F">>, "plugin_path" :> <<"p">>,
                  "engine" :> <<"F">> @@ "plugin_path" :> <<"p">>,
                  "engine" :> <<"F", "E">> @@ "plugin_path" :> <<"q", "p">>}}
  \cup {[cli |-> c, config |-> t] : c \in {<<>>, "engine" :> <<"F">>}, t \in {Names, Shared}}
  \cup {[cli |-> <<>>, config |-> t] : t \in {Twice, SameDir}}
  \cup {[cli |-> "engine" :> <<"F">>, config |-> Default]}

Row(e, v, ms, iqr) == [role |-> IF v = "reference" THEN "reference" ELSE "engine",
                       engine |-> e, verdict |-> v, timed |-> v # "error",
                       ms |-> ms, iqr |-> iqr]
RowLists == {<<>>, <<Row("E", "passed", 20, 1)>>,
             <<Row("T", "reference", 30, 1), Row("E", "passed", 10, 1), Row("E", "failed", 20, 1)>>,
             <<Row("E", "passed", 0, 0), Row("F", "passed", 20, 1)>>,
             <<Row("F", "error", 0, 0), Row("E", "unchecked", 20, 9)>>}
MCGraphs == {[id |-> i, rows |-> r] : i \in {"g", "h"}, r \in RowLists}
              \cup {[id |-> NoId, rows |-> <<>>]}
MCDocuments == {[gates |-> "warm", graphs |-> s] :
                  s \in {<<g, h>> : g, h \in MCGraphs} \cup {<<g>> : g \in MCGraphs}}
                 \cup {[gates |-> "cold", graphs |-> <<>>]}
MCComparisons ==
  {[by |-> b, threshold |-> 5, allow |-> b = "ref"] : b \in {"best", "ref", "engine"}}
=============================================================================
