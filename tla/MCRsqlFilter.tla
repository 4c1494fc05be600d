---------------------------- MODULE MCRsqlFilter ----------------------------
(* A repeated string field and a numeric one whose column has another name; *)
(* two spellings of one number, and words that are no number.               *)
EXTENDS RsqlFilter

MCOrder == <<"price", "tag", "05", "5", "9", "(", ")", ",", ";", "!=", "<", "=", ">=",
             "==", "=gt=", "=ge=", "=lt=", "=le=", "=in=", "=nin=", "=out=">>

MCRank == [t \in ToSet(MCOrder) |-> CHOOSE i \in DOMAIN MCOrder : MCOrder[i] = t]

MCSpellings == {"tag", "price", "05", "5", "9"}

MCStored == {"05", "5", "9"}

MCParsed ==
    ("string" :> [w \in MCSpellings |-> w]) @@
    ("int" :> [w \in MCSpellings |-> CASE w \in {"05", "5"} -> "5"
                                       [] w = "9" -> "9"
                                       [] OTHER -> "invalid"])

Signs == {"(", ")", ",", ";"}

Limits(depth, disjunctions, comparisons) ==
    [depth |-> depth, disjunctions |-> disjunctions, comparisons |-> comparisons]

\* Every word and most operators, for two comparisons or a list; one comparison,
\* for four of them, nested, and for each limit.
MCKeyboards ==
    {[tokens |-> Signs \cup MCSpellings \cup {"!=", "==", "<", "=", "=in=", "=nin="},
      max |-> 7, limits |-> {Unbounded}],
     [tokens |-> Signs \cup {"tag", "=in="},
      max |-> 15, limits |-> {Limits(2, 1, 0), Limits(0, 0, 2)}]}

Plain(column, kind) == [column |-> column, kind |-> kind, ops |-> {}, enum |-> {}]

MCSchema == ("tag" :> [Plain("tags", "string") EXCEPT !.enum = {"tag", "05", "9"}]) @@
            ("price" :> Plain("amount", "int"))

=============================================================================
