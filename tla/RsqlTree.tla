------------------------------ MODULE RsqlTree ------------------------------
(***************************************************************************)
(* What a service does with a filter once it is bound (rsql/tree.go): it   *)
(* joins it with predicates of its own through All and Any, and rewrites   *)
(* it with Rewrite.  The state is the filter and, beside it, the documents *)
(* the calls made so far ask for, told from the calls alone.  A comparison *)
(* is known by a name, and a document by the comparisons it meets.         *)
(***************************************************************************)
EXTENDS RsqlTerms

CONSTANTS
    Names,      \* the comparisons
    Bounds,     \* the filters Bind may have returned
    Predicates, \* the filters a service joins it with
    Rewriters,  \* the functions given to Rewrite: Names -> Names \cup {"drop"}
    MaxCalls    \* bound: the number of calls

Leaf(x) == [k |-> "cmp", sel |-> x]

\* The trees with at most n levels of groups.
TreesTo(n) == TreesOf([k : {"cmp"}, sel : Names], Separators, n)

\* A call adds at most one level.
Trees == TreesTo(Levels + MaxCalls)

\* The groups of a tree, the root included.
Groups(b) ==
    LET G[c \in Trees] ==
          IF IsGroup(c) THEN {c} \cup UNION {G[c.nodes[i]] : i \in DOMAIN c.nodes} ELSE {}
    IN  IF b = Nil THEN {} ELSE G[b]

\* The parser and the binder build no group of one operand (parse.go:44-64).
Joins(b) == \A g \in Groups(b) : Len(g.nodes) >= 2

ASSUME NamesAssumption == Names \cap {"drop", "no filter"} = {}

ASSUME TreesAssumption ==
    /\ Levels \in Nat /\ MaxCalls \in Nat
    /\ \A b \in Bounds \cup Predicates : b \in TreesTo(Levels) \cup {Nil} /\ Joins(b)

ASSUME RewritersAssumption == Rewriters \subseteq [Names -> Names \cup {"drop"}]

-----------------------------------------------------------------------------
\* A combine that flattens groups of either kind.
FlatMixed(nodes, k) ==
    FlattenSeq([i \in DOMAIN nodes |-> IF nodes[i] = Nil THEN <<>>
                                       ELSE IF IsGroup(nodes[i]) THEN nodes[i].nodes
                                       ELSE <<nodes[i]>>])

\* combine: nils are dropped, the operands of a group of the kind being built
\* take its place,
Flat(nodes, k) ==
    FlattenSeq([i \in DOMAIN nodes |-> IF nodes[i] = Nil THEN <<>>
                                       ELSE IF nodes[i].k = k THEN nodes[i].nodes
                                       ELSE <<nodes[i]>>])

\* A combine that builds a group of whatever is left.
CollapsedLoose(flat, k) == IF flat = <<>> THEN Nil ELSE Group(k, flat)

\* and what is left collapses if it is one or none.
Collapsed(flat, k) ==
    IF flat = <<>> THEN Nil ELSE IF Len(flat) = 1 THEN flat[1] ELSE Group(k, flat)

Combine(nodes, k) == Collapsed(Flat(nodes, k), k)

\* All and Any (TLC has an operator Any of its own).
AllOf(nodes) == Combine(nodes, ";")

AnyOf(nodes) == Combine(nodes, ",")

\* The function a service gives to Rewrite: it looks at comparisons and
\* returns everything else, a nil too, as it is.
Apply(fn, b) ==
    IF b.k # "cmp" THEN b
    ELSE IF fn[b.sel] = "drop" THEN Nil ELSE Leaf(fn[b.sel])

\* Rewrite and rewriteAll.  fn is applied to what All and Any return, which
\* may be an operand it was applied to before, or nil.
Rewrite(b, fn) ==
    LET R[c \in Trees] ==
          IF IsGroup(c)
          THEN Apply(fn, Combine([i \in DOMAIN c.nodes |-> R[c.nodes[i]]], c.k))
          ELSE Apply(fn, c)
    IN  IF b = Nil THEN Nil ELSE R[b]

-----------------------------------------------------------------------------
VARIABLES
    filter,  \* the filter the service holds
    asked,   \* the documents it should select, NoFilter if there is no filter
    last,    \* the last call
    settled, \* whether every rewriter so far leaves its own results alone
    calls    \* bound: the calls made

treeVars == <<filter, asked, last, settled, calls>>

Documents == SUBSET Names

NoFilter == {{"no filter"}}

Meets(x) == {d \in Documents : x \in d}

\* Sets of documents combined as the operands of a k are, an absent one being
\* no operand at all.
Mixed(k, S) ==
    IF S \subseteq {NoFilter} THEN NoFilter ELSE Combined(k, S \ {NoFilter})

\* What b selects once each of its comparisons is replaced by fn's result.
Replaced(b, fn) ==
    LET R[c \in Trees] ==
          IF IsGroup(c) THEN Mixed(c.k, {R[c.nodes[i]] : i \in DOMAIN c.nodes})
          ELSE IF fn[c.sel] = "drop" THEN NoFilter ELSE Meets(fn[c.sel])
    IN  IF b = Nil THEN NoFilter ELSE R[b]

\* What b selects.
Meaning(b) == Replaced(b, [x \in Names |-> x])

\* fn leaves its own results alone.
Settled(fn) ==
    \A x \in Names : fn[x] # "drop" => fn[fn[x]] = fn[x]

TreeInit ==
    /\ filter \in Bounds
    /\ asked = Meaning(filter)
    /\ last = "Bind"
    /\ settled = TRUE
    /\ calls = 0

Call(name, b, docs) ==
    /\ calls < MaxCalls
    /\ filter' = b
    /\ asked' = docs
    /\ last' = name
    /\ calls' = calls + 1

CallAll(n) ==
    /\ Call("All", AllOf(<<filter, n>>), Mixed(";", {asked, Meaning(n)}))
    /\ UNCHANGED settled

CallAny(n) ==
    /\ Call("Any", AnyOf(<<filter, n>>), Mixed(",", {asked, Meaning(n)}))
    /\ UNCHANGED settled

CallRewrite(fn) ==
    /\ Call("Rewrite", Rewrite(filter, fn), Replaced(filter, fn))
    /\ settled' = (settled /\ Settled(fn))

TreeNext ==
    \/ \E n \in Predicates : CallAll(n) \/ CallAny(n)
    \/ \E fn \in Rewriters : CallRewrite(fn)

TreeSpec == TreeInit /\ [][TreeNext]_treeVars

-----------------------------------------------------------------------------
(* Whatever calls a service makes, the filter selects what they ask for:   *)
(* flattening, dropping and collapsing (tree.go:11-42) move no operand     *)
(* into a group of the other kind and lose none, and a filter is nil only  *)
(* when there is nothing left to ask for.  A group that collapses hands a  *)
(* result to the rewriter again (tree.go:52-61), so the rewriters have to  *)
(* leave their own results alone.                                          *)
MeaningKept == settled => Meaning(filter) = asked

(* After any sequence of calls no group a datastore adapter receives has   *)
(* fewer than two operands or a nil one (tree.go:3-5, 44-46), and after    *)
(* Rewrite none is an operand of a group of its own kind, whatever the     *)
(* parentheses of the expression were (tree.go:47-66).                     *)
WellShaped ==
    /\ Joins(filter)
    /\ \A g \in Groups(filter) :
          /\ Nil \notin ToSet(g.nodes)
          /\ last = "Rewrite" => \A i \in DOMAIN g.nodes : g.nodes[i].k # g.k

=============================================================================
