----------------------------- MODULE RsqlTerms -----------------------------
(***************************************************************************)
(* Filter trees (rsql/ast.go, the Bound types of rsql/schema.go) and what  *)
(* they mean: the set of documents they select.  A node is a record, its   *)
(* field k "cmp" for a comparison and the separator of the operands, ";"   *)
(* or ",", for a conjunction or a disjunction.  The meaning is the         *)
(* reference the parser, the binder, the canonical form, the tree          *)
(* operations and the MongoDB translation are compared with; no code       *)
(* computes it.                                                            *)
(***************************************************************************)
EXTENDS Naturals, Sequences, FiniteSets, SequencesExt

CONSTANT Levels \* the levels of groups in an expression, at most

Comparison(sel, op, args) == [k |-> "cmp", sel |-> sel, op |-> op, args |-> args]

Group(k, nodes) == [k |-> k, nodes |-> nodes]

Separators == {";", ","}

IsGroup(n) == n.k \in Separators

\* The trees with leaves in L and at most n levels of groups of the kinds K.
TreesOf(L, K, n) ==
    LET T[m \in Nat] ==
          IF m = 0 THEN L ELSE [k : K, nodes : Seq(T[m - 1]) \ {<<>>}] \cup T[m - 1]
    IN  T[n]

\* Nil is the nil Bound, a filter that is not there.
Nil == [k |-> "nil"]

\* The documents a group of the kind k selects, S holding a set of documents
\* for each of its operands.
Combined(k, S) ==
    IF k = ";" THEN {d \in UNION S : \A s \in S : d \in s} ELSE UNION S

=============================================================================
