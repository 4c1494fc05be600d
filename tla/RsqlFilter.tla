----------------------------- MODULE RsqlFilter -----------------------------
(***************************************************************************)
(* A filter on its way from a query string to the datastore: the parser    *)
(* (rsql/parse.go), the binder with its schema and limits                  *)
(* (rsql/schema.go), the canonical form (rsql/canonical.go) and the        *)
(* MongoDB document (rsql/mongox/mongox.go).                               *)
(*                                                                         *)
(* The state is the expression, typed token by token, the limits it is     *)
(* bound under and what it is bound to; every stage is a function, and the *)
(* properties compare the stages with each other and with what the tokens  *)
(* say.  How runes become tokens and values are quoted is RsqlLexer.  An   *)
(* error is the position of the token it is about; its words are left out. *)
(***************************************************************************)
EXTENDS RsqlTerms

CONSTANTS
    Schema,       \* selector -> [column, kind, ops, enum]
    Spellings,    \* the words an expression may hold, selectors among them
    Parsed,       \* kind -> spelling -> the value's own spelling, or "invalid"
    Rank,         \* token -> its place in the order of values and of texts
    Stored,       \* the values documents hold, of those the spellings stand for
    Keyboards     \* what expressions are typed of: records of the tokens, of max,
                  \* the bound on an expression's length, and of limits, the
                  \* Limits to bind them under

OperatorTokens ==
    {"==", "=eq=", "!=", "=ne=", ">", "=gt=", ">=", "=ge=", "<", "=lt=", "<=", "=le=",
     "=in=", "=out=", "=nin="}

Operators ==
    [t \in OperatorTokens |->
       CASE t = "=eq=" -> "==" [] t = "=ne=" -> "!="
         [] t = ">" -> "=gt="  [] t = ">=" -> "=ge="
         [] t = "<" -> "=lt="  [] t = "<=" -> "=le="
         [] t = "=nin=" -> "=out="
         [] OTHER -> t]

Equalities == {"==", "!="}

Orderings == {"=gt=", "=ge=", "=lt=", "=le="}

Memberships == {"=in=", "=out="}

\* Kind.ops
KindOps(kind) ==
    IF kind = "bool" THEN Equalities
    ELSE IF kind = "string" THEN Equalities \cup Memberships
    ELSE Equalities \cup Orderings \cup Memberships

\* A comparison, as it is written or bound.
Conditions ==
    [k : {"cmp"}, sel : Spellings, op : Equalities \cup Orderings \cup Memberships,
     args : Seq(Spellings) \ {<<>>}]

Nodes == TreesOf(Conditions, Separators, Levels)

\* The comparisons of n from left to right.
Leaves(n) ==
    LET L[c \in Nodes] ==
          IF IsGroup(c) THEN FlattenSeq([i \in DOMAIN c.nodes |-> L[c.nodes[i]]]) ELSE <<c>>
    IN  L[n]

\* The number of groups and comparisons on the longest way down.
Depth(n) ==
    LET D[c \in Nodes] ==
          IF IsGroup(c) THEN 1 + Max({D[c.nodes[i]] : i \in DOMAIN c.nodes}) ELSE 1
    IN  D[n]

IsValue(t) == t \in Spellings

ASSUME SchemaAssumption ==
    /\ \A s \in DOMAIN Schema : \A f \in {Schema[s]} :
          /\ f.ops \subseteq {Operators[o] : o \in OperatorTokens}
          /\ f.enum \subseteq Spellings
          /\ Parsed[f.kind] \in [Spellings -> Spellings \cup {"invalid"}]
    /\ DOMAIN Schema \cup Stored \subseteq Spellings
    /\ Spellings \cap (OperatorTokens \cup {"(", ")", ",", ";", "EOF", "invalid"}) = {}

\* A group takes four tokens more than its deepest operand: a separator and
\* another operand.
ASSUME KeyboardsAssumption ==
    /\ Levels \in Nat
    /\ \A k \in Keyboards :
          k.tokens \subseteq DOMAIN Rank /\ k.max \in Nat /\ k.max =< 4 * Levels + 6

-----------------------------------------------------------------------------
(* The parser.  What it expects at a place of the tokens is the rest of an *)
(* argument list or the operands of a separator; f says for each what it   *)
(* is read as, and where reading stopped.                                  *)

At(s, i) == IF i <= Len(s) THEN s[i] ELSE "EOF"

Got(i, n) == [ok |-> TRUE, at |-> i, node |-> n]

Unexpected(i) == [ok |-> FALSE, at |-> i, node |-> Nil]

FollowedBy(n, rest) == IF rest.ok THEN Got(rest.at, <<n>> \o rest.node) ELSE rest

MoreArguments(s, f, i) ==
    IF ~IsValue(At(s, i)) THEN Unexpected(i)
    ELSE IF At(s, i + 1) = "," THEN FollowedBy(s[i], f[<<"args", i + 2>>])
    ELSE IF At(s, i + 1) = ")" THEN Got(i + 2, <<s[i]>>)
    ELSE Unexpected(i + 1)

\* parseArguments: one value, or values between parentheses.
Arguments(s, f, i) ==
    IF At(s, i) = "(" THEN f[<<"args", i + 1>>]
    ELSE IF IsValue(At(s, i)) THEN Got(i + 1, <<s[i]>>)
    ELSE Unexpected(i)

\* parseComparison
ParseComparison(s, f, i) ==
    IF ~IsValue(At(s, i)) THEN Unexpected(i)
    ELSE IF At(s, i + 1) \notin OperatorTokens THEN Unexpected(i + 1)
    ELSE LET a == Arguments(s, f, i + 2)
         IN  IF a.ok THEN Got(a.at, Comparison(s[i], Operators[s[i + 1]], a.node))
             ELSE a

\* parseBinary; parseOr for sep ",", parseAnd for sep ";".
ParseBinary(f, sep, i) ==
    LET r == f[<<sep, i>>]
    IN  IF ~r.ok THEN r
        ELSE Got(r.at, IF Len(r.node) = 1 THEN r.node[1] ELSE Group(sep, r.node))

\* parseConstraint: a parenthesis opens a group here, never a list.
ParseConstraint(s, f, i) ==
    IF At(s, i) # "(" THEN ParseComparison(s, f, i)
    ELSE LET r == ParseBinary(f, ",", i + 1)
         IN  IF ~r.ok THEN r
             ELSE IF At(s, r.at) = ")" THEN Got(r.at + 1, r.node)
             ELSE Unexpected(r.at)

\* An "or" of constraints.
OperandTight(s, f, sep, i) == ParseConstraint(s, f, i)

\* The operands of an "or" are "and"s, those of an "and" constraints.
Operand(s, f, sep, i) ==
    IF sep = "," THEN ParseBinary(f, ";", i) ELSE ParseConstraint(s, f, i)

\* The loop of parseBinary.
Operands(s, f, sep, i) ==
    LET r == Operand(s, f, sep, i)
    IN  IF ~r.ok THEN r
        ELSE IF At(s, r.at) = sep THEN FollowedBy(r.node, f[<<sep, r.at + 1>>])
        ELSE Got(r.at, <<r.node>>)

Goals(s) == {"args", ",", ";"} \X (1 .. Len(s) + 1)

Production(s, f, e) ==
    IF e[1] = "args" THEN MoreArguments(s, f, e[2]) ELSE Operands(s, f, e[1], e[2])

\* parse
Parse(s) ==
    LET f[e \in Goals(s)] == Production(s, f, e)
        r == ParseBinary(f, ",", 1)
    IN  IF r.ok /\ r.at # Len(s) + 1 THEN Unexpected(r.at) ELSE r

-----------------------------------------------------------------------------
(* The binder. *)

Refused == [k |-> "refused"]

\* coerce: the value a spelling stands for, by its own spelling; the
\* enumeration is compared with the spelling as it was written.
Coerce(raw, f) ==
    IF f.enum # {} /\ raw \notin f.enum THEN "invalid" ELSE Parsed[f.kind][raw]

\* binder.comparison
BindComparison(c) ==
    IF c.sel \notin DOMAIN Schema THEN Refused
    ELSE LET f == Schema[c.sel]
             allowed == IF f.ops = {} THEN KindOps(f.kind) ELSE f.ops
             values == [i \in DOMAIN c.args |-> Coerce(c.args[i], f)]
         IN  IF \/ c.op \notin allowed
                \/ c.op \notin Memberships /\ Len(c.args) # 1
                \/ "invalid" \in ToSet(values)
             THEN Refused
             ELSE Comparison(c.sel, c.op, values)

\* binder.walk and walkAll, without the counters
Walk(n, depth, lim) ==
    LET W[c \in Nodes] ==
          [d \in Nat |->
             IF lim.depth > 0 /\ d > lim.depth THEN Refused
             ELSE IF ~IsGroup(c) THEN BindComparison(c)
             ELSE LET ns == [i \in DOMAIN c.nodes |-> W[c.nodes[i]][d + 1]]
                  IN  IF Refused \in ToSet(ns) THEN Refused ELSE Group(c.k, ns)]
    IN  W[n][depth]

\* Equal comparisons counted once.
ComparisonsDistinct(n) == Cardinality(ToSet(Leaves(n)))

\* The counters of a walk that was not refused.
Comparisons(n) == Len(Leaves(n))

Disjunctions(n) ==
    LET D[c \in Nodes] ==
          IF ~IsGroup(c) THEN 0
          ELSE (IF c.k = "," THEN Len(c.nodes) - 1 ELSE 0)
                 + FoldSeq(LAMBDA m, sum : D[m] + sum, 0, c.nodes)
    IN  D[n]

\* Bind
Bind(s, lim) ==
    LET p == Parse(s)
        b == Walk(p.node, 1, lim)
    IN  IF \/ ~p.ok
           \/ b = Refused
           \/ lim.comparisons > 0 /\ Comparisons(p.node) > lim.comparisons
           \/ lim.disjunctions > 0 /\ Disjunctions(p.node) > lim.disjunctions
        THEN Refused
        ELSE b

-----------------------------------------------------------------------------
(* The canonical form, as the tokens it is lexed into. *)

\* One separator for both kinds of group.
JoinedComma(parts, sep) ==
    FoldLeft(LAMBDA acc, part : acc \o <<",">> \o part, Head(parts), Tail(parts))

Joined(parts, sep) ==
    FoldLeft(LAMBDA acc, part : acc \o <<sep>> \o part, Head(parts), Tail(parts))

\* sort.Strings on rendered texts: any total order that only equal texts tie
\* in; this one compares the tokens' ranks from the left.
Before(a, b) ==
    \/ \E n \in 1 .. Len(b) :
         /\ n <= Len(a)
         /\ Rank[a[n]] < Rank[b[n]]
         /\ \A m \in 1 .. n - 1 : a[m] = b[m]
    \/ Len(a) < Len(b) /\ \A m \in 1 .. Len(a) : a[m] = b[m]

Sorted(parts) == SortSeq(parts, Before)

\* Canonical, writeCanonical and writeGroup
Canonical(b) ==
    LET C[c \in Nodes] ==
          IF IsGroup(c)
          THEN <<"(">> \o Joined(Sorted([i \in DOMAIN c.nodes |-> C[c.nodes[i]]]), c.k)
                 \o <<")">>
          ELSE <<c.sel, c.op>> \o
               IF Len(c.args) = 1 THEN c.args
               ELSE <<"(">> \o Joined(Sorted([i \in DOMAIN c.args |-> <<c.args[i]>>]), ",")
                      \o <<")">>
    IN  C[b]

-----------------------------------------------------------------------------
(* The MongoDB document: a clause, which is an operator with the column    *)
(* and the values it applies to, or a group of documents.                  *)

\* Ordered operators off by the bound itself.
MongoOperatorsLoose ==
    [op \in Equalities \cup Orderings \cup Memberships |->
       CASE op = "=="   -> "$eq"  [] op = "!="   -> "$ne"
         [] op = "=gt=" -> "$gte" [] op = "=ge=" -> "$gte"
         [] op = "=lt=" -> "$lte" [] op = "=le=" -> "$lte"
         [] op = "=in=" -> "$in"  [] op = "=out=" -> "$nin"]

MongoOperators ==
    [op \in Equalities \cup Orderings \cup Memberships |->
       CASE op = "=="   -> "$eq" [] op = "!="   -> "$ne"
         [] op = "=gt=" -> "$gt" [] op = "=ge=" -> "$gte"
         [] op = "=lt=" -> "$lt" [] op = "=le=" -> "$lte"
         [] op = "=in=" -> "$in" [] op = "=out=" -> "$nin"]

\* mongox.ToFilter, each and comparison
ToFilter(b) ==
    LET M[c \in Nodes] ==
          IF IsGroup(c)
          THEN Group(IF c.k = ";" THEN "$and" ELSE "$or",
                     [i \in DOMAIN c.nodes |-> M[c.nodes[i]]])
          ELSE [k |-> MongoOperators[c.op], column |-> Schema[c.sel].column,
                values |-> IF c.op \in Memberships THEN ToSet(c.args) ELSE {c.args[1]}]
    IN  M[b]

Columns == {Schema[s].column : s \in DOMAIN Schema}

Clauses ==
    [k : {"$eq", "$ne", "$gt", "$gte", "$lt", "$lte", "$in", "$nin"}, column : Columns,
     values : SUBSET Spellings]

MongoFilters == TreesOf(Clauses, {"$and", "$or"}, Levels)

\* A record holds any number of values in a column.
Records == [Columns -> SUBSET Stored]

\* What the server makes of a filter: a condition on a column holds of a
\* record some value of which meets it, $ne and $nin negate that of $eq
\* and $in.
MongoFinds(f) ==
    LET Satisfies(x, c) ==
          \E v \in c.values :
             CASE c.k \in {"$eq", "$ne", "$in", "$nin"} -> x = v
               [] c.k = "$gt"  -> Rank[x] > Rank[v]
               [] c.k = "$gte" -> Rank[x] >= Rank[v]
               [] c.k = "$lt"  -> Rank[x] < Rank[v]
               [] c.k = "$lte" -> Rank[x] <= Rank[v]
        F[c \in MongoFilters] ==
          IF c.k \in {"$and", "$or"}
          THEN Combined(IF c.k = "$and" THEN ";" ELSE ",", {F[c.nodes[i]] : i \in DOMAIN c.nodes})
          ELSE {d \in Records :
                  (\E x \in d[c.column] : Satisfies(x, c)) <=> c.k \notin {"$ne", "$nin"}}
    IN  F[f]

-----------------------------------------------------------------------------
(* What an expression means, told from its tokens alone. *)

\* The places of token t in s that are inside no parentheses.
TopLevel(s, t) ==
    {i \in DOMAIN s :
        /\ s[i] = t
        /\ Cardinality({j \in 1 .. i : s[j] = "("})
             = Cardinality({j \in 1 .. i : s[j] = ")"})}

\* s cut at the places in cuts.
Cut(s, cuts) ==
    LET ends == SelectSeq([i \in 1 .. Len(s) + 2 |-> i - 1],
                          LAMBDA i : i \in cuts \cup {0, Len(s) + 1})
    IN  [i \in 1 .. Len(ends) - 1 |-> SubSeq(s, ends[i] + 1, ends[i + 1] - 1)]

List(s) == IF s[1] = "(" THEN Cut(SubSeq(s, 2, Len(s) - 1),
                                     TopLevel(SubSeq(s, 2, Len(s) - 1), ","))
                         ELSE <<s>>

\* selector op value, or selector op (value, ...).
IsComparison(s) ==
    /\ Len(s) >= 3 /\ IsValue(s[1]) /\ s[2] \in OperatorTokens
    /\ Len(s) > 3 => s[3] = "(" /\ s[Len(s)] = ")"
    /\ \A a \in ToSet(List(SubSeq(s, 3, Len(s)))) : Len(a) = 1 /\ IsValue(a[1])

\* The tree of an expression, Nil if it has none: cut at the commas outside
\* parentheses, or else at the semicolons, or else a group or a comparison.
Grammar(expression) ==
    LET G[s \in Seq(DOMAIN Rank)] ==
          LET k == IF TopLevel(s, ",") # {} THEN "," ELSE ";"
              nodes == [i \in 1 .. Cardinality(TopLevel(s, k)) + 1 |->
                          G[Cut(s, TopLevel(s, k))[i]]]
          IN  IF TopLevel(s, k) # {}
              THEN IF Nil \in ToSet(nodes) THEN Nil ELSE Group(k, nodes)
              ELSE IF Len(s) > 2 /\ s[1] = "(" /\ s[Len(s)] = ")"
              THEN G[SubSeq(s, 2, Len(s) - 1)]
              ELSE IF IsComparison(s)
              THEN Comparison(s[1], Operators[s[2]],
                              [i \in DOMAIN List(SubSeq(s, 3, Len(s))) |->
                                 List(SubSeq(s, 3, Len(s)))[i][1]])
              ELSE Nil
    IN  G[expression]

\* The records a comparison asks for: a repeated column has a value if it
\* has it among others.
Asks(c) ==
    LET vs == ToSet(c.args)
        col == Schema[c.sel].column
        Holds(d) ==
          CASE c.op \in {"==", "=in="} -> d[col] \cap vs # {}
            [] c.op \in {"!=", "=out="} -> d[col] \cap vs = {}
            [] c.op = "=gt=" -> \E x \in d[col], v \in vs : Rank[x] > Rank[v]
            [] c.op = "=ge=" -> \E x \in d[col], v \in vs : Rank[x] >= Rank[v]
            [] c.op = "=lt=" -> \E x \in d[col], v \in vs : Rank[x] < Rank[v]
            [] c.op = "=le=" -> \E x \in d[col], v \in vs : Rank[x] <= Rank[v]
    IN  {d \in Records : Holds(d)}

\* The records a filter asks for.
Sought(b) ==
    LET S[c \in Nodes] ==
          IF IsGroup(c) THEN Combined(c.k, {S[c.nodes[i]] : i \in DOMAIN c.nodes})
          ELSE Asks(c)
    IN  S[b]

\* The tree with the operands of every group, and the values of every list,
\* the other way round.
Mirror(b) ==
    LET M[c \in Nodes] ==
          IF IsGroup(c) THEN Group(c.k, Reverse([i \in DOMAIN c.nodes |-> M[c.nodes[i]]]))
          ELSE [c EXCEPT !.args = Reverse(@)]
    IN  M[b]

-----------------------------------------------------------------------------
(* An expression is typed token by token, as long as it can still become   *)
(* one of the grammar; so the rejected ones are those that are not         *)
(* finished or whose last token is wrong.  Nothing is typed behind that:   *)
(* the parser reads from the left and has stopped by then.                 *)

VARIABLES
    expr,     \* the expression
    keyboard, \* what it is typed of (never changes)
    limits,   \* the Limits of the service (never changes)
    bound     \* what Bind makes of the expression under them

filterVars == <<expr, keyboard, limits, bound>>

Unbounded == [depth |-> 0, disjunctions |-> 0, comparisons |-> 0]

FilterInit ==
    /\ expr = <<>> /\ keyboard \in Keyboards /\ limits \in keyboard.limits
    /\ bound = Bind(expr, limits)

\* What is missing at most: the rest of a comparison, and parentheses.
Open ==
    LET word == CHOOSE w \in Spellings : TRUE
        Count(t) == Len(SelectSeq(expr, LAMBDA x : x = t))
        closing == [i \in 1 .. Count("(") - Count(")") |-> ")"]
    IN  /\ Len(expr) < keyboard.max
        /\ \E rest \in {<<>>, <<word>>, <<"==", word>>, <<word, "==", word>>} :
              Grammar(expr \o rest \o closing) # Nil

Type(t) ==
    /\ expr' = Append(expr, t)
    /\ bound' = Bind(expr', limits)
    /\ UNCHANGED <<keyboard, limits>>

FilterNext == Open /\ \E t \in keyboard.tokens : Type(t)

FilterSpec == FilterInit /\ [][FilterNext]_filterVars

-----------------------------------------------------------------------------
(* The recursive descent (parse.go:36-152) accepts exactly the expressions *)
(* of the grammar and gives each its tree: ";" binds tighter than ",", a   *)
(* parenthesis is a group before a comparison and a list behind an         *)
(* operator, and nothing is left over.                                     *)
GrammarKept ==
    Parse(expr).node = Grammar(expr) /\ (Parse(expr).ok <=> Grammar(expr) # Nil)

(* A filter is accepted (schema.go:81-142) exactly when all of its         *)
(* comparisons are, and the numbers of operators, of alternatives and of   *)
(* levels it is written with are within the limits, a limit of zero        *)
(* allowing any number.  Commas in an argument list are no alternatives,   *)
(* and parentheses around one operand are no level.                        *)
WithinLimits ==
    LET tree == Grammar(expr)
        Allowed(n, max) == max = 0 \/ n <= max
        listCommas == FoldSeq(LAMBDA c, sum : Len(c.args) - 1 + sum, 0, Leaves(tree))
    IN  bound # Refused <=>
          /\ tree # Nil
          /\ \A c \in ToSet(Leaves(tree)) : BindComparison(c) # Refused
          /\ Allowed(Cardinality({i \in DOMAIN expr : expr[i] \in OperatorTokens}),
                     limits.comparisons)
          /\ Allowed(Cardinality({i \in DOMAIN expr : expr[i] = ","}) - listCommas,
                     limits.disjunctions)
          /\ Allowed(Depth(tree), limits.depth)

(* The canonical form (canonical.go:10-52) is a filter the service accepts *)
(* under the same limits, it selects the same documents, it is its own     *)
(* canonical form and does not tell the order of operands and of listed    *)
(* values.  So two filters that share a cache key select the same          *)
(* documents, and filters that differ in order share theirs.               *)
CanonicalStable ==
    bound # Refused =>
        LET again == Bind(Canonical(bound), limits)
        IN  /\ again # Refused
            /\ Sought(again) = Sought(bound)
            /\ Canonical(again) = Canonical(bound)
            /\ Canonical(Mirror(bound)) = Canonical(bound)

(* MongoDB finds, with the filter it is given (mongox.go:20-76), the       *)
(* documents the expression asks for, repeated columns included.           *)
MongoAgrees == bound # Refused => MongoFinds(ToFilter(bound)) = Sought(bound)

=============================================================================
