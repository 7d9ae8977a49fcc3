----------------------------- MODULE MCRowLife ------------------------------
\* Small graphs and row sequences for RowLife.
EXTENDS RowLife, SequencesExt

In == {"x"}
Virt == {"u"}
Out == {"y", "z"}

Plain(ins, out) == [ins |-> ins, attrs |-> {}, out |-> out, op |-> "plain"]

\* Shared by both outputs, read once, read twice, never read; no
\* intermediate, but an output that is read again.
Shapes ==
  {<<Plain({"x"}, "u"), Plain({"u"}, "y"), Plain({"u"}, "z")>>,
   <<Plain({"x"}, "u"), Plain({"x", "u"}, "y"), Plain({"x"}, "z")>>,
   <<Plain({"x"}, "u"), Plain({"x"}, "y"), Plain({"y"}, "z")>>,
   <<Plain({"x"}, "y"), Plain({"y"}, "u"), Plain({"u"}, "z")>>,
   <<Plain({"x"}, "y"), Plain({"x", "y"}, "z")>>}

\* At most one node is not plain, or finds its tensors in "attributes".
InAttributes(n) == [n EXCEPT !.ins = {}, !.attrs = n.ins]
MCGraphs ==
  UNION {UNION {{[g EXCEPT ![i].op = op] : op \in Handlers \cup {"other"}}
                \cup {[g EXCEPT ![i] = InAttributes(@)]} : i \in DOMAIN g}
         : g \in Shapes}
MCRows == {<<"pytorch", "hipdnn", "rocke">>, <<"provider", "hipdnn", "hipdnn">>}
=============================================================================
