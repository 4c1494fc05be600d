------------------------------- MODULE Redaction -------------------------------
(***************************************************************************)
(* What of a request the log shows: httpx's Record and LoggerTransport and *)
(* fiberx's Record keep credentials in queries and headers out of their    *)
(* lines, fiberx's also those in bodies; and httpx's holds back the        *)
(* requests and bodies of the paths a service names.                       *)
(*                                                                         *)
(* A request is put together piece by piece.  A value is known by its      *)
(* place, so that a line shows which it holds.  A name is known in its     *)
(* normal form and comes in spellings: in another case, with separators,   *)
(* escaped.  Parsing of URLs, headers and JSON is net/http's and fiber's.  *)
(***************************************************************************)
EXTENDS Integers, Sequences, FiniteSets, SequencesExt

CONSTANTS
    Names,       \* of parameters, header fields and JSON keys, in normal form
    Listed,      \* the names that are redacted by default or by the service
    Forms,       \* of a name: "plain", "cased", "separated", "escaped"
    ExactKeys,   \* what RedactQuery of a LoggerTransport lists: sets of keys
    Docs,        \* JSON bodies
    Levels,      \* the levels of objects and arrays in a body, at most
    Words,       \* what stands between the slashes of a path
    SkipRules,   \* a service's rules: [paths, prefixes, routes]
    Methods,     \* as sent: "GET", "get", "POST"
    MaxPieces    \* bound: parameters, field lines or pieces of a path

Key(name, spelled) == [name |-> name, spelled |-> spelled]

Keys == [name : Names, spelled : Forms]

\* The pieces of a path.
Pieces == Words \cup {"/", ".", ".."}

-----------------------------------------------------------------------------
(***************************************************************************)
(* JSON values: leaves, objects and arrays.                                *)
(***************************************************************************)
Leaf(v) == [t |-> "leaf", v |-> v]

\* What f holds, each part with its key or position.
Parts(f)  == {[at |-> k, v |-> f[k]] : k \in DOMAIN f}
Object(f) == [t |-> "object", parts |-> Parts(f)]
Array(s)  == [t |-> "array", parts |-> Parts(s)]

\* Objects and arrays of members of T.
Over(T) == [t : {"object"}, parts : SUBSET [at : Keys, v : T]]
           \cup [t : {"array"}, parts : SUBSET [at : Nat, v : T]]

JsonTo[n \in Nat] ==
    IF n = 0 THEN [t : {"leaf"}, v : Nat] ELSE Over(JsonTo[n - 1]) \cup JsonTo[n - 1]

Json == JsonTo[Levels]

ASSUME NamesAssumption  == Listed \subseteq Names /\ "plain" \in Forms
ASSUME KeysAssumption   == \A ks \in ExactKeys : ks \subseteq Keys
ASSUME DocsAssumption   == Levels \in Nat /\ Docs \subseteq Json
ASSUME RulesAssumption  == \A r \in SkipRules : r.prefixes \subseteq Seq(Pieces)
ASSUME PiecesAssumption == MaxPieces \in Nat /\ "/" \notin Words

VARIABLES
    part,       \* the part of the request looked at
    exact,      \* the keys the LoggerTransport lists (never changes)
    rules,      \* the requests and bodies httpx's Record holds back (never changes)
    query,      \* the parameters of the URL, in order
    uriParses,  \* whether the rest of the URL parses
    fields,     \* the header field lines, in order
    doc,        \* the body: a tree, and how it comes
    method, path

redactionVars == <<part, exact, rules, query, uriParses, fields, doc, method, path>>

Redacted == 0

\* The places among the first n, in order.
InOrder(places, n) ==
    FlattenSeq([i \in 1..n |-> IF i \in places THEN <<i>> ELSE <<>>])

-----------------------------------------------------------------------------
(***************************************************************************)
(* Names.                                                                  *)
(***************************************************************************)
\* RedactKeys.IsRedacted: case and separators do not matter.
IsRedacted(key) == key.name \in Listed

\* url.ParseQuery: escapes are resolved, a pair that does not parse is left out.
Unescaped(p) == Key(p.name, IF p.spelled = "escaped" THEN "plain" ELSE p.spelled)

ParseQuery(q) ==
    LET parsed == {i \in DOMAIN q : q[i].parses}
        keys   == {Unescaped(q[i]) : i \in parsed}
    IN [k \in keys |->
          InOrder({i \in parsed : Unescaped(q[i]) = k}, Len(q))]

WellFormed(q) == \A i \in DOMAIN q : q[i].parses

-----------------------------------------------------------------------------
(***************************************************************************)
(* Queries as a line shows them: the values under each key, the values of  *)
(* pairs that do not parse, and whether they are as they were sent.        *)
(***************************************************************************)
AsSent(q) == [values |-> ParseQuery(q), raw |-> TRUE,
              loose  |-> {i \in DOMAIN q : ~q[i].parses}]

Encoded(values) == [values |-> values, raw |-> FALSE, loose |-> {}]

\* RedactQuery that looks only at queries that parse.
RedactQueryStrict(q) ==
    LET values == ParseQuery(q)
    IN IF ~WellFormed(q) \/ \A k \in DOMAIN values : ~IsRedacted(k) THEN AsSent(q)
       ELSE Encoded([k \in DOMAIN values |-> IF IsRedacted(k) THEN <<Redacted>> ELSE values[k]])

\* RedactKeys.RedactQuery: q.Set leaves one value under a redacted key.
RedactQuery(q) ==
    LET values == ParseQuery(q)
    IN IF WellFormed(q) /\ \A k \in DOMAIN values : ~IsRedacted(k) THEN AsSent(q)
       ELSE Encoded([k \in DOMAIN values |-> IF IsRedacted(k) THEN <<Redacted>> ELSE values[k]])

\* redactedURL of httpx, on a URL the server parsed, and of fiberx, which logs
\* one that does not parse as it is.
HttpxURL(q) == RedactQuery(q)

FiberURL(q) == IF uriParses THEN RedactQuery(q) ELSE AsSent(q)

\* outboundURL: the keys as the service spells them, nothing by default; once
\* there are any, the query is encoded anew.
OutboundURL(q) ==
    LET values == ParseQuery(q)
    IN IF exact = {} \/ q = <<>> THEN AsSent(q)
       ELSE Encoded([k \in DOMAIN values |-> IF k \in exact THEN <<Redacted>> ELSE values[k]])

-----------------------------------------------------------------------------
(***************************************************************************)
(* Headers.                                                                *)
(***************************************************************************)
\* http.CanonicalHeaderKey: case does not matter, separators do.
Canonical(f) == Key(f.name, IF f.spelled = "separated" THEN "separated" ELSE "plain")

HeaderListed(k) == k.name \in Listed /\ k.spelled = "plain"

\* Of repeated fields the last, as an assignment to a map leaves it.
HeadersLast(fs) ==
    LET at(k) == InOrder({i \in DOMAIN fs : Canonical(fs[i]) = k}, Len(fs))
    IN [k \in {Canonical(fs[i]) : i \in DOMAIN fs} |->
          IF HeaderListed(k) THEN <<Redacted>> ELSE <<Last(at(k))>>]

\* headers of httpx, and fiberx's visit of every field line: repeats are joined.
Headers(fs) ==
    LET at(k) == InOrder({i \in DOMAIN fs : Canonical(fs[i]) = k}, Len(fs))
    IN [k \in {Canonical(fs[i]) : i \in DOMAIN fs} |->
          IF HeaderListed(k) THEN <<Redacted>> ELSE at(k)]

-----------------------------------------------------------------------------
(***************************************************************************)
(* Bodies, of requests and of responses.                                   *)
(***************************************************************************)
\* Whether part p of v stands under a listed key.
Under(v, p) == v.t = "object" /\ IsRedacted(p.at)

\* redactKeys.
RedactTree(v) ==
    LET R[c \in Json] ==
          IF c.t = "leaf" THEN c
          ELSE [t |-> c.t,
                parts |-> {[at |-> p.at, v |-> IF Under(c, p) THEN Leaf(Redacted) ELSE R[p.v]]
                             : p \in c.parts}]
    IN  R[v]

Omitted == Leaf(Redacted)

\* redactedBody: a body over the limit, or that is not one JSON value, is logged
\* as its size.
RedactedBody(d) == IF d.comes = "whole" THEN RedactTree(d.tree) ELSE Omitted

\* decodeBody of httpx: no key is redacted.  JSON and any other text are logged as
\* they came, of a body over the limit the beginning.
DecodedBody(d) == d.tree

\* The body on a line of either package.
LoggedBody(package, d) == IF package = "httpx" THEN DecodedBody(d) ELSE RedactedBody(d)

-----------------------------------------------------------------------------
(***************************************************************************)
(* Requests and bodies that httpx holds back.  A path is its words and     *)
(* slashes.                                                                *)
(***************************************************************************)
Join(words) == IF words = <<>> THEN <<"/">>
               ELSE FlattenSeq([i \in DOMAIN words |-> <<"/", words[i]>>])

\* The words kept, after one more piece.
Onto(words, piece) ==
    IF piece \in {"/", "."} \/ (piece = ".." /\ words = <<>>) THEN words
    ELSE IF piece = ".." THEN Front(words) ELSE Append(words, piece)

\* path.Clean of a path that starts with a slash.
Clean(p) ==
    LET kept[i \in 0..Len(p)] == IF i = 0 THEN <<>> ELSE Onto(kept[i - 1], p[i])
    IN  Join(kept[Len(p)])

MethodOf(route) == IF route.method = "" THEN "GET" ELSE route.method
Folded(m)       == IF m = "get" THEN "GET" ELSE m

\* hasPrefix and Route.matches.
Matches(m, p) ==
    \/ \E prefix \in rules.prefixes : IsPrefix(prefix, p)
    \/ \E route \in rules.routes : route.path = p /\ MethodOf(route) = Folded(m)

\* Only the cleaned path.
SpellingsCleaned(p) == {Clean(p)}

\* spellings: the path as sent, and cleaned.
SpellingsOf(p) == {p, Clean(p)}

\* RecordConfig.LogsBody.
LogsBody(m, p) == \A s \in SpellingsOf(p) : ~Matches(m, s)

\* isSkipped: no line at all.
IsSkipped(p) == \E s \in SpellingsOf(p) : s \in rules.paths

-----------------------------------------------------------------------------
NoRules == [paths |-> {}, prefixes |-> {}, routes |-> {}]

RedactionInit ==
    /\ part \in {"query", "headers", "body", "path"}
    /\ exact \in (IF part = "query" THEN ExactKeys ELSE {{}})
    /\ uriParses \in (IF part = "query" THEN BOOLEAN ELSE {TRUE})
    /\ rules \in (IF part = "path" THEN SkipRules ELSE {NoRules})
    /\ query = <<>> /\ fields = <<>> /\ path = <<"/">>
    /\ doc = [comes |-> "none", tree |-> Omitted]
    /\ method \in (IF part = "path" THEN Methods ELSE {"GET"})

AddParameter(name, spelled, parses) ==
    /\ part = "query" /\ Len(query) < MaxPieces
    /\ query' = Append(query, [name |-> name, spelled |-> spelled, parses |-> parses])
    /\ UNCHANGED <<part, exact, rules, uriParses, fields, doc, method, path>>

AddField(name, spelled) ==
    /\ part = "headers" /\ Len(fields) < MaxPieces
    /\ fields' = Append(fields, Key(name, spelled))
    /\ UNCHANGED <<part, exact, rules, query, uriParses, doc, method, path>>

\* A body comes whole, over the limit, or as something else than one JSON value.
SetBody(tree, comes) ==
    /\ part = "body" /\ doc.comes = "none"
    /\ doc' = [comes |-> comes, tree |-> tree]
    /\ UNCHANGED <<part, exact, rules, query, uriParses, fields, method, path>>

AddToPath(piece) ==
    /\ part = "path" /\ Len(path) < 2 * MaxPieces
    /\ piece = "/" \/ Last(path) = "/"
    /\ path' = Append(path, piece)
    /\ UNCHANGED <<part, exact, rules, query, uriParses, fields, doc, method>>

RedactionNext ==
    \/ \E name \in Names, spelled \in Forms, parses \in BOOLEAN :
          AddParameter(name, spelled, parses)
    \/ \E name \in Names, spelled \in Forms \ {"escaped"} : AddField(name, spelled)
    \/ \E tree \in Docs, comes \in {"whole", "long", "other"} : SetBody(tree, comes)
    \/ \E piece \in Pieces : AddToPath(piece)

RedactionSpec == RedactionInit /\ [][RedactionNext]_redactionVars

-----------------------------------------------------------------------------
\* The places of values a line shows.
ShownQuery(l)   == l.loose \cup UNION {ToSet(l.values[k]) : k \in DOMAIN l.values}
ShownHeaders(h) == UNION {ToSet(h[k]) : k \in DOMAIN h}

\* A leaf of part p of v, as a leaf of v.
Within(v, p, leaf) ==
    [way |-> <<p.at>> \o leaf.way, v |-> leaf.v, hidden |-> leaf.hidden \/ Under(v, p)]

\* The leaves of a body, each with the way to it and whether that goes through a
\* listed key.
Leaves(v) ==
    LET L[c \in Json] ==
          IF c.t = "leaf" THEN {[way |-> <<>>, v |-> c.v, hidden |-> FALSE]}
          ELSE UNION {{Within(c, p, leaf) : leaf \in L[p.v]} : p \in c.parts}
    IN  L[v]

\* No line holds what stands under a listed name: in a query, however the name is
\* spelled and escaped, repeated or beside pairs that do not parse (fiberx: of a URL
\* that parses; LoggerTransport: the keys as the service listed them); in a header,
\* in any case; in a body, at any depth, on fiberx's lines.  Only httpx's lines have
\* it, in a body that is logged as it came, though the default keys are "always
\* redacted from bodies" (record.go:49).
ListedNeverLogged ==
    /\ \A i \in DOMAIN query :
         /\ query[i].name \in Listed =>
              /\ i \notin ShownQuery(HttpxURL(query))
              /\ uriParses => i \notin ShownQuery(FiberURL(query))
         /\ Unescaped(query[i]) \in exact => i \notin ShownQuery(OutboundURL(query))
    /\ \A i \in DOMAIN fields :
         (fields[i].name \in Listed /\ fields[i].spelled # "separated")
            => i \notin ShownHeaders(Headers(fields))
    /\ \A package \in {"httpx", "fiberx"} : \A leaf \in Leaves(LoggedBody(package, doc)) :
         (leaf.hidden /\ leaf.v # Redacted) => package = "httpx" /\ leaf \in Leaves(doc.tree)

\* Everything else is on the line: parameters under other names in their order,
\* a query without a listed name as it was sent, all values of a repeated field,
\* every other leaf of a JSON body up to the limit, in its place.
RestKept ==
    /\ \A l \in {HttpxURL(query), FiberURL(query)} :
         /\ \A k \in DOMAIN ParseQuery(query) :
              k.name \notin Listed => l.values[k] = ParseQuery(query)[k]
         /\ (WellFormed(query) /\ \A i \in DOMAIN query : query[i].name \notin Listed) => l.raw
    /\ \A i \in DOMAIN query :
         (query[i].parses /\ Unescaped(query[i]) \notin exact)
            => i \in ShownQuery(OutboundURL(query))
    /\ \A i \in DOMAIN fields :
         fields[i].name \notin Listed =>
            LET at == Headers(fields)[Canonical(fields[i])]
            IN i \in ToSet(at) /\ \A m, n \in DOMAIN at : m < n => at[m] < at[n]
    /\ doc.comes = "whole" => \A package \in {"httpx", "fiberx"} :
         {leaf \in Leaves(doc.tree) : ~leaf.hidden} \subseteq Leaves(LoggedBody(package, doc))

\* ServeMux's cleaning of a path keeps its last slash.
Routed(p) == IF Last(p) = "/" /\ Clean(p) # <<"/">> THEN Append(Clean(p), "/") ELSE Clean(p)

\* A rule names the path itself, with the slash at its end.
EndsRule(p) ==
    /\ Last(p) = "/"
    /\ p \in rules.paths \cup rules.prefixes \cup {route.path : route \in rules.routes}

\* A request that ServeMux routes, or redirects, to a path that is held back leaves no
\* line of httpx's Record, or no body on its lines, however it spells the path - but
\* for a path that is not clean and whose last slash is the last of the rule.
HeldBack ==
    (path # Routed(path) => ~EndsRule(Routed(path)))
      => /\ Matches(method, Routed(path)) => ~LogsBody(method, path)
         /\ Routed(path) \in rules.paths => IsSkipped(path)
=============================================================================
