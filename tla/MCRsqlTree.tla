----------------------------- MODULE MCRsqlTree -----------------------------
(***************************************************************************)
(* Three comparisons; filters of up to three levels, nested groups of one  *)
(* kind, as redundant parentheses leave them, among them.                  *)
(***************************************************************************)
EXTENDS RsqlTree

MCNames == {"a", "b", "c"}

MCPairs == {Group(k, <<Leaf("a"), Leaf(y)>>) : k \in {";", ","}, y \in {"b", "a"}}

MCBounds ==
    {Nil} \cup {Leaf(x) : x \in MCNames} \cup MCPairs \cup
    {Group(k, <<p, Leaf("c")>>) : k \in {";", ","}, p \in MCPairs} \cup
    {Group(";", <<Leaf("c"), Group(";", <<Leaf("b"), p>>)>>) : p \in MCPairs}

MCPredicates == {Nil, Leaf("b"), Group(";", <<Leaf("a"), Leaf("b")>>),
                 Group(",", <<Leaf("a"), Group(";", <<Leaf("b"), Leaf("c")>>)>>)}

\* Rewriters of b and c, a being dropped or kept.
MCRewriters == {fn \in [MCNames -> MCNames \cup {"drop"}] : fn["a"] \in {"a", "drop"}}

=============================================================================
