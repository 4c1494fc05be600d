# servicekit in TLA+

servicekit-go is a library of the parts that the services of one platform
share: net/http and fiber middleware, outbound transports, event handlers'
middleware, and a filter language for list endpoints. It has no process of its
own. Its hard behaviour is what its layers do to each other: who may still
answer a request after a panic, what a logged body does to the body, where a
correlation id comes from on each kind of hop, what of a request
ends up in a log, and whether the stages a filter goes through agree about what
it means. That is what is modelled here.

All line numbers are of the commit in `src/`. `PROJECT.json` maps each
definition to the lines it stands for and lists the hazards, each at its line.

## The system

| Component | State | Operations | What must hold |
|---|---|---|---|
| `httpx` exchange: `Chain`, `Recover`, `Record`, `MaxBody`, `CorrelationID`, `IdempotencyKey`, `JSON`, `Error` | per request: `commitWriter.committed`, the recorder's status, captured body and `hijacked`, the response header map | the middleware's way down and up, the handler's calls on the wrapped `ResponseWriter`, a panic on its way out | one author per response; a contained panic is answered; `http.ErrAbortHandler` is untouched; lines are paired and say what the client got |
| `httpx` bodies: `readAndRestoreBody`, `MaxBody`'s `MaxBytesReader` | bytes read ahead, the limit's count and sticky error | one read at a time, through stacked readers | no byte lost or reordered, limits hold in either order, the reader is not held up |
| propagation: `httpx/{correlation,caller}.go`, `fiberx`, `emberx/{caller,emberx}.go`, `caller` | headers of requests, values of contexts, metadata of events | lift to the context, put on an outgoing request, stamp an event, restore from it | one correlation id per flow, a caller of one request and not of two, a command once per key |
| client address: `httpx/ip.go`, `fiberx.TrustedProxyConfig` | the trusted prefixes | `ClientIP`, `c.IP()` | the nearest untrusted hop, whatever was forged; fiber agrees where it can |
| `rsql` lexer and quoting: `lex.go`, `literal` | the position in the runes | `next` and the readers below it | rendered values are read back, nothing lost |
| `rsql` filters: `parse.go`, `schema.go`, `canonical.go`, `mongox` | none: functions of the expression | parse, bind, `Canonical`, `ToFilter` | all stages agree on what is selected; limits; cache keys |
| `rsql` tree operations: `tree.go` | a service's filter | `All`, `Any`, `Rewrite` | the filter selects what was asked for |
| `httpx` outbound logging: `logger.go` | the request's body, replaced | `RoundTrip` | the peer gets what the client gave, on every attempt, and where it does not; two lines per attempt, errors included |
| redaction: `httpx/{record,logger}.go`, `fiberx` | none: functions of the request | headers, query, body, held-back paths | no listed key's value in a line, but for bodies in `httpx`; everything else is |
| `fiberx` record and replies | fiber's request buffers, `Locals`, the user context | `Record`, `JSON`, `Error`, `CorrelationID`, `Caller`, `IdempotencyKey` | the client gets what it would without `Record`; lines say what it got; no string of a reused buffer is relied on |
| `log`, `errorsx` | none | stamping of lines, the code of an error | stamps are the request's |
| `emberx` codec, `money`, `uuid` | none | small helpers | |

How they interact. Middleware wraps handlers (callbacks) and the
`ResponseWriter` (calls back down through the wrappers). `Record`, `MaxBody`
and `LoggerTransport` share a request body as stacked readers. The context
carries values from the middleware to transports and to publishers of events,
and `log` stamps two of them on each line. Filters are handed from parser to
binder to canonical form (a cache key) and to the MongoDB adapter.

What is hard about it. Panics and hijacks at any point of an exchange; bytes
that arrive, stop or break while a body is read ahead; retries, redeliveries
and handlers that stop half way; forged headers; limits at their boundary;
sequences of tree operations whose results collapse. Most of the unit tests
drive one layer at a time; none of these crosses one layer only.

## The modules

**`HttpExchange`** (over `NetHttp`) is one request through
`Chain(h, ms...)`. `mode` and `at` are the control: down through the layers,
the handler, up, or a panic unwinding. `live` holds the layers whose wrapper
is on the path of the handler's calls; `PassHeader`, `PassWrite` and
`PassHijack` are what the wrappers on that path note of a call made at some
depth, which is how an envelope written by an inner layer is seen by the outer
ones only. `committed` is the set of layers whose `commitWriter` believes
that the response is out, `rec` the recorders. `resp` is net/http's own view.
The handler makes any `MaxOps` calls, in any order: a length, a header, a
write, a JSON or error reply whose value marshals or not, a flush, a hijack;
then it returns or panics. What the writer supports (`supports`) varies, as it
does between HTTP/1, HTTP/2 and test recorders.
`NetHttp` is external: the part of net/http's contract that httpx relies on
(a second `WriteHeader` is superfluous, 1xx commits nothing, an invalid code
panics, a declared length refuses what is over it, a connection is hijacked
once). `ResponseOwnership` is the abstract promise: a response has an owner,
who is chosen once; only the owner's bytes are added; nothing after the end.

**`BodyRelay`** is a body on its way from the peer to its reader. `pipe` is
the stack of layers; `head[i]` what layer `i` put back. A layer is set up by
`Buffer` (one byte of `io.ReadAll(io.LimitReader(...))`) and `Restore`, which
also drops a read error as the code does, or by `CapBody`/`RejectBody`.
Reading through the first `k` layers takes the topmost head first, then what
is below, and counts against a cap it passes. `BodyStream` is the abstract
promise: a reader gets the peer's bytes in order, up to MaxBody's limit, and
an end that is the peer's or the limit's.

**`Propagation`** has requests in flight, handler executions (which keep their
context), events, and spark's stores. Hops are: a client's request (retried at
will), a new outgoing request through the transports, a reverse proxy (which
forwards the headers it got), a published event, a delivery. `flow` is a
history value: what the flow entered the system with. A client begins with
headers of its own (`Roots`). A handler may have set some on a new outgoing
request (`Presets`); the transports keep those, and the flow goes on with them
(`Restarted`). An `X-Client` set without an `X-Caller` is overwritten by the
context's, or kept beside the context's caller if that one has no Client
(`lent` in `flow`). spark (a command runs once per key) and ember (an event is
delivered until a handler returned) are external, modelled from how `emberx` and
`httpx` use them.

**`ClientIP`** builds a real route and the header it produces: the client
forges field lines, proxies append or add a line, the service resolves. Beside
the walk of `httpx` (`Walk`, from the right) stands what fiber reports under
`TrustedProxyConfig` (`FiberIP`, from the left of the first line).

**`FiberExchange`** is requests on one connection of a fiber app. `mode` and
`at` are the control, `err` is what `c.Next()` returns, which is how failure
travels here. `Record` on its way up (`LeaveRecord`) runs the app's error
handler, falls back to a 500 when that fails, writes its line and swallows the
error. The same events are carried along for the app without `Record`
(`plain.resp`, `plain.err`), which is what `Transparent` compares with. A
string `c.Get` returned is a view of the header buffer (`View`): it is good
while the request it names is the one in the buffer. Handlers start work that
keeps the user context (`tasks`), and the next `Arrive` overwrites the buffer.
A response may be a stream, which goes on after the handler returned; reading
its body waits for its end. fiber's chain, error handler and recover
middleware, fasthttp's streams, and a service's own middleware (`Gate` refuses
a request or fails after the handler did not, `Guard` answers errors) are
external. The replies, the middleware that stores values, and the stamping of
lines in `log` are translated here as well.

**`OutboundExchange`** is a client's request through a stack of transports and
its retries. A body is a reader; `LoggerTransport` reads ahead and puts a
reader of its own in the body of the request it was given (`Restored`), so
readers are numbered and reader `k` is its head and then reader `k - 1`. It is
an `io.MultiReader`, which lets go of the reader below where that ends, for
good: `drained` says up to which reader that has happened. The transports that
add headers clone the request, which shares the reader. The client sends again
with a fresh body, or rewinds the one it holds, below the logger's reader
(`SendSeek`). `given` is a history variable: what the client's request yields
when it is sent.
It complements `BodyRelay`, which looks at one body read piecemeal through
such layers; here bodies are whole and requests share them.

**`Redaction`** puts a request together piece by piece and applies the
redaction functions of both packages to it. A value is known by its place, so
that a line shows which values it holds; a name comes in spellings. A body is a
tree of objects and arrays, each a set of parts with their keys or positions;
a line of fiberx shows it redacted (`RedactedBody`), one of httpx as it came
(`DecodedBody`). Held-back paths are those of httpx, behind `ServeMux`.

**`RsqlLexer`** steps through the runes, one action per branch of `next`,
`readOp`, `readQuoted` and `readBare`; inputs are raw expressions, and values
as `literal` renders them with each separator `Canonical` can put behind.
**`RsqlFilter`** types an expression token by token; the parser, binder,
canonical form and MongoDB document are functions of it, written after the
code, and the properties compare them with a reference grammar and a reference
semantics over documents. **`RsqlTree`** calls `All`, `Any` and `Rewrite` on
a service's filter in any order; `settled` remembers whether every rewriter so
far left its own results alone. `RsqlTerms` holds what both say of trees.

The `...Claims` modules state sentences of the repository's comments as they
stand, which a run refutes. The `MC...` modules give the constants values. The
`...Proofs` modules hold the theorems about the module they are named for:
`RequestProofs` those about `ClientIP` and `Redaction`, `RsqlProofs` those about
the three modules of rsql. `Flattening` has what they need of sequences of
sequences.

## The runs

| Run | Question | States |
|---|---|---|
| `exchange` | Who answers, what is logged, what the client gets: for seven chains and every sequence of up to three calls of a handler | 1.2 million |
| `body_relay` | Do layers that log and limit stay transparent, in seven stacks, with peers that send, wait, end or break? Does the reader start, and get to the end? | 3 400 |
| `propagation` | Do ids, callers and keys follow a flow over httpx and fiberx services, proxies, events, retries and redelivery? | 1.8 million |
| `client_ip` | Is the reported address right whatever was forged, and fiber's when nothing was? | 795 000 |
| `rsql_lexer` | Does the lexer read back what `literal` renders, and lose nothing? | 73 000 |
| `rsql_filter` | Do the parser, the limits, the canonical form and MongoDB agree with the grammar and the meaning of an expression? | 296 000 |
| `rsql_tree` | Does a filter select what a sequence of calls asked for? | 28 000 |
| `fiber_exchange` | Is `Record` of fiberx transparent, do its lines tell, does the context hold, do streams get through? | 635 000 |
| `outbound_exchange` | Does the peer get what the client gave on every attempt, when does it not, and do the lines say so? | 157 000 |
| `redaction` | What of a query, a header, a body and a path is on a line? | 29 000 |
| `claim_caller_receives`, `claim_every_value_readable` | One sentence of a comment each, refuted: see below | |

### Properties

`exchange`. `CommitTracking`: when the response is taken, every
`commitWriter` still on the path knows. `SingleAuthor`, `OwnershipSpec`: no
envelope behind a handler's bytes, nor the reverse, and nothing after the end.
`PanicAnswered`, `PanicFate`: what becomes of a panic. `LinesPaired`: a
request line has its response line unless a panic passed that `Record`.
`StatusFaithful`, `BodyFaithful`: what a line says is what the client got, also
behind a hijack. `EchoedOnResponse`: the correlation id is on every response.

`body_relay`. `NothingLost`: every byte taken off the wire was received, is
held in a head or a log, or is the one over MaxBody's limit. `CapHolds` counts
the limits, `LogIsWhole` compares the lines with what the reader gets;
`StreamSpec` is the refinement of `BodyStream`. `StartsEarly`: the reader
starts once the logs' limits have arrived. `ReadsToTheEnd`: the body ends for
a reader who goes on.

`propagation`. `CorrelationFollows`, `CallerIsOriginal`, `CallerCarried`,
`OncePerKey`; a caller's Client is the flow's, or for one who has none the first
that a handler set alone (`Known`). `client_ip`. `NearestUntrusted`; `FiberClient`: fiber reports the
peer when it is not trusted, and the client when the client sent no header of
its own, which is then also what `httpx` reports if all proxies are trusted.
`rsql_lexer`. `OrdinaryReadable`, `Verbatim`. `rsql_filter`. `GrammarKept`,
`WithinLimits`, `CanonicalStable` (which includes that operand order does not
matter), `MongoAgrees`. `rsql_tree`. `MeaningKept`, `WellShaped`.

`fiber_exchange`. `Transparent`: status, body and id are those of the app
without `Record`, whatever fails. `LinesTell`: each `Record` that saw the
request has one response line with what the client gets, inner ones first.
`Stamped`: id and caller on a line are the request's, for lines written behind
the middleware. `ContextHolds`: work that outlives a handler sees its own
request's values until the next request is parsed, and a generated id always.
`StreamsThrough`: a stream reaches the client while it is being made, unless a
`Record` logs it, and is finished once it ended.

`outbound_exchange`. `WireAsGiven`: what the peer has in any attempt is what
the client's request yields, as far as it was sent, framed as declared, and that
is the client's payload unless the client rewound it below a logger's reader;
the property says what it is then. `AttemptLogged`: each logger has two lines per
attempt, nested, with what the request yields and the outcome. `redaction`.
`ListedNeverLogged`, `RestKept`: values of listed names are not on a line, but
for bodies on those of httpx; all others are. `HeldBack`: no spelling of a path
gets a line of httpx, or a body on one, that its rule keeps back.

Type invariants are checked by `exchange` and are otherwise conjuncts of the
inductive invariants of the proofs, which say them for all values.

### Bounds, and why they are enough

- `HttpExchange`: `MaxOps = 3`. What distinguishes states is which of header,
  body, length, flush and hijack came first and whether something came after;
  three calls give a call, one that contradicts it and one after that. Chains
  hold each relative order of the layers that answer, record, or set a header,
  two Recovers, two Records, and none. `BodyLimit = 3` lies inside what two
  writes of 0, 1 or 2 bytes and an envelope of 2 can add up to. Codes: an
  invalid one, 101, 103, a status without a body, two with one.
- `BodyRelay`: `MaxSent = 5` is more than every limit but one by one or more,
  and the limits lie on both sides of each other. At most one cap per
  stack: a second `MaxBody` on one route is not modelled.
- `Propagation`: three executions are an origin, a hop and a hop of the hop, or
  an origin, an event and its redelivery. Two clients, one
  without a correlation id and one without a caller; three kinds of calls, with no
  header set, with a caller who has no Client, with an `X-Client` alone - where
  the last follows the one before it, the two are combined. One call in flight and one event, because hops do not interact
  other than by the stores.
- `FiberExchange`: two requests, because a buffer is reused by the next one; one
  piece of work kept beyond its request; streams of one chunk, which tell
  "before its end" from "at its end". Five apps hold `Record` outside and
  inside of what refuses, fails late, recovers and answers errors, twice in
  two of them; three error handlers; two header sets, with all and with none.
- `OutboundExchange`: `Limit = 2` with payloads of 0 to 4 bytes, which is below,
  at, above and twice the limit; up to two loggers with clones around and
  between them; three attempts, so that a body is replaced twice. A rewound body
  is met behind a reader that holds some of it, that holds a rest without a
  payload, and that holds nothing at all.
- `Redaction`: three parameters, field lines or path words, of one listed and
  one unlisted name: two that interact and one beside them. Bodies of three
  levels.
- `ClientIP`: three addresses, every subset trusted; a forged header of two
  hops and two proxies, in any arrangement of field lines.
- `RsqlLexer`: raw expressions of up to four runes, values of up to three. The
  lexer looks one rune ahead, and an operator is at most two runes besides its
  word.
- `RsqlFilter`: two keyboards. Every word and most operators for up to 7
  tokens, which is two comparisons or a list and a group; one comparison's
  tokens for up to 15, which is four of them, nested, with each limit at its
  boundary. Only what the reference grammar can still complete is typed on, so
  each expression with one wrong token, its last, is among them. `Levels` bounds
  the nodes its recursive functions are over: a group that is parsed to a node
  of its own takes four tokens more than its deepest operand, so 3 are enough
  for 15 (`KeyboardsAssumption`; for any length there is such a number).
- `RsqlTree`: three calls, on filters of up to three levels. A collapse needs
  one call, a collapse of a collapse two. `Levels` and `MaxCalls` also bound the
  set its recursive functions are over (a call adds at most one level), here
  as in `Redaction`; the theorems hold for all of them.

### Fairness

`Spec` has none anywhere. `ServedSpec` of `BodyRelay` adds weak fairness of
`Middleware`: it is the goroutine that serves the request, which runs
`readAndRestoreBody` unless a read blocks, and a blocked read is not enabled.
Nothing is assumed of peers. `ReadsToTheEnd` names in its antecedent what else
it needs: a reader that goes on reading, and a peer that ends its body or is
timed out. `ServedSpec` of `FiberExchange` adds weak fairness of `Serve`: the
goroutine that serves the connection, a client that accepts bytes included. It
stops while it waits for a stream, and nothing is assumed of handlers, of a
service's middleware or of what makes the stream; `StreamsThrough` names the
end of the stream in its antecedent. `TalkingSpec`, for the claim alone, adds a
peer that keeps sending as long as it is answered, so that the counterexample
is not a peer that merely stopped.

### What the claims show

- `CallerReceives`: "the caller still receives every byte" (record.go:268).
  With a peer that waits for an answer to its first bytes, both wait for ever.
- `EveryValueReadable`: "literal quotes anything that could not be lexed bare"
  (canonical.go:54). Not the empty string, a backslash or other white space.

Smaller disagreements, and limits of what the code promises, are exceptions in
the properties and have no run:

- An informational header (103) sets `committed` and commits nothing, so a panic
  behind it leaves an empty 200, though "Recover converts a panic into a 500
  envelope, but only while the response is still uncommitted"
  (middleware.go:62, 110; in `PanicAnswered`).
- A `Content-Length` the handler had set stays in the header map and cuts or
  refuses the envelope (httpx.go:42; the model follows the code).
- The recorder keeps the last status it was given, net/http the first final one
  (record.go:246; in `StatusFaithful`).
- A response line is missing when a panic passes `Record`, which defers nothing
  (record.go:192, fiberx.go:227; in `LinesPaired` and `LinesTell`).
- A service's layer outside fiberx's `Record` sees no error that `Record`
  answered, and one that fails later is not on the line (fiberx.go:227; in
  `Transparent` and `LinesTell`).
- A streamed response that breaks while it is being logged is replaced by the
  text of its error (fiberx.go:238; in `Transparent`).
- Strings lifted from headers to the user context are views of fiber's buffer,
  and change when the next request is parsed (fiberx.go:59, 79, 92; in
  `ContextHolds`).
- fiber takes the leftmost address of the first field line, so a client who
  fills the header chooses what a service behind trusted proxies reports
  (fiberx.go:44; `FiberClient` is of clients who do not).
- `LoggerTransport` replaces the body of the request it was given
  (logger.go:65), though "A RoundTripper must not change the request it was
  given" (correlation.go:35). A client that rewinds its own body and sends the
  request again has what the logger's reader still held in front of it; and if
  a reader had seen the body end, nothing of the body follows, since an
  `io.MultiReader` (record.go:282) lets go of a reader that ended. A body that was
  read out is sent again, and logged, as an empty one. A `NoBody` is framed
  as a body of unknown length (all in `WireAsGiven`).
- Bodies on lines of `httpx.Record` and `LoggerTransport` have no key redacted
  (record.go:179, 202, 285; logger.go:71, 95), though the default keys are "always
  redacted from bodies and queries" (record.go:49); fiberx redacts them (in
  `ListedNeverLogged`).
- `fiberx.Record` compares `c.Path()` as it was sent with `SkipPaths`,
  `SkipBodyPaths` and `SkipBodyRoutes` (fiberx.go:138-158, 185-190). fiber routes a
  path in another case, or with a slash more at its end, to the same handler
  unless an app says otherwise, so `/AUTH/login` reaches a route whose bodies are
  held back as `/auth/login` and is logged with its body.
- A URL that does not parse is logged by fiberx as it was sent (fiberx.go:292;
  in `ListedNeverLogged`).
- A rule that ends in a slash does not match an unclean path to the same place,
  because cleaning drops the slash (record.go:316; in `HeldBack`).
- `Rewrite` hands a result to `fn` again when a group collapses (tree.go:53),
  though it is "replacing each node with fn's result" (tree.go:44;
  `MeaningKept` is of rewriters that leave their results alone).
- `CallerTransport` keeps an `X-Caller` that is set, but not an `X-Client` set
  without one: the context's caller gets in front of it, and its Client replaces
  it or, where there is none, the two are combined (httpx/caller.go:28-37), though
  "Headers the caller set are kept" (httpx/caller.go:11; in `CallerIsOriginal`).
- `Field.Ops` replaces the kind's operators rather than narrowing them
  (schema.go:28; the model follows the code).
- An `Enum` is compared with the raw spelling, so a canonical form can fail to
  bind again if the enumeration lists a spelling that is not canonical (the
  run's schema enumerates a string field).

## The proofs

Each holds for every value of the constants that the module's assumptions
allow: all chains, stacks and routes, codes, lengths and limits, any number of
calls, hops, requests and attempts. The bounds of the runs do not matter to
them. `PROJECT.json` lists the theorems, each with the property it states.

All follow one argument. A safety property is seldom inductive, so each module
of proofs has an invariant that is - checked by TLC before it was proved -, a
lemma for `Init`, one for each action of `Next`, and theorems
`Spec => []Property` that follow from it.

| Module | Theorems | Invariant |
|---|---|---|
| `HttpExchangeProofs` | `TypeOK`, `CommitTracking`, `SingleAuthor`; `OwnershipSpec` (refinement) | `TypeOK`, `PathShape`, `OwnerByMode`, `CommitTracking`, `SingleAuthor` |
| the same | `PanicFate`, `PanicAnswered`, `LinesPaired`, `StatusFaithful`, `BodyFaithful`, `EchoedOnResponse` | that one and `RecoversLive`, `PanicKnown`, `Correlations`, `LinesKnown`, `CommitReasons`, `RecordersTrack`, `LinesTrack` |
| `PropagationProofs` | `CorrelationFollows`, `CallerIsOriginal`, `CallerCarried`, `OncePerKey` | `Numbered`, `Types`, `Sound`, `Keyed` |
| `BodyRelayProofs` | `NothingLost`, `CapHolds`, `LogIsWhole`; `StreamSpec` (refinement) | `TypeOK`, `Stages`, `Readings`, `Endings`, `Flows` |
| `FiberExchangeProofs` | `Transparent`, `LinesTell`, `Stamped`, `ContextHolds` | `Types`, `Stages`, `Values`, `Kept`, `Stamps`, `Written`, `Matched` |
| `RequestProofs` | `NearestUntrusted`, `FiberClient` | `TypeOK`, `Carried`, `NearestUntrusted` |
| the same | `ListedNeverLogged`, `RestKept`, `HeldBack` | `Request` |
| `OutboundExchangeProofs` | `WireAsGiven`, `AttemptLogged` | `Types`, `Readers`, `Excused`, `Whole`, `Logged` |
| `RsqlProofs` | `Verbatim`, `OrdinaryReadable` | `Types`, `Kept`, `Known`, `ReadBack` |
| the same | `MeaningKept`, `WellShaped` | `Held`, `Joins`, `Alternates`, `MeaningKept` |
| the same | `MongoAgrees` | `FilterInv` |

`exchange`, authors. Recover writes an envelope when its layer is not in
`committed`; that nobody has written then is `CommitTracking`. That one says
something of live Recovers only, so `PathShape` places the live layers below
`at`, and a Recover that is entered later must be entered before anything was
sent, which is a part of `OwnerByMode`. `OwnerByMode` also says that an
envelope ends the handler's part, so no handler's byte follows one.
`RefinesOwnership` takes the same cases and shows that each step is one of
`ResponseOwnership` or a stutter.

`exchange`, panics and lines. A panic in flight has passed no Recover unless
it is an abort (`PanicKnown`), because those ahead are live (`RecoversLive`).
`LinesPaired` needs to know who still owes a line: a `Record` on the path, or
one inside the Recover that contained a panic (`LinesKnown`). That a contained
panic is answered needs the reason why a `commitWriter` believes in a commit
(`CommitReasons`). A line is written when `Record` returns, so what it says is
first said of the recorder (`RecordersTrack`) and stays true of the line
while outer layers go on (`LinesTrack`).

`propagation`. The properties speak of what is on a hop; an id gets there by
way of a context or an event, so `Sound` says of every request in flight, run
and event whose caller and whose id it holds, and where the middleware
promises to hold one. A caller is compared with `Known`: what `CallerTransport`
makes of an `X-Client` set alone depends on the context it meets, and `Known` on
the flow, so that `CallInvariant` shows the two to agree (`RestartedLemma`).
`Keyed` relates spark's store to the commands that
ran; with `FreshAssumption` a generated key is nobody else's.

`body_relay`. The invariant gives each layer a number, the byte that comes out
of it next (`Flows`): these numbers descend without a gap from the wire to the
reader, each head is the piece between two of them, and MaxBody's count is
what its number says it is. `Endings` is why an error that `readAndRestoreBody`
dropped is met again: it is still there in what is below.

`fiber_exchange`. `Values` is what each middleware has stored by the time a
request is at some layer, `Kept` that work took it along, as views of a buffer
that names its request. `Matched` runs the app without `Record` beside the
other and says in which of three ways they can differ on the way up: not at
all, by a stream that was read, or by a `Record` that has answered. `Written`
is when which line is there and how long it stays true.

`client_ip`. The header ends with what the proxies wrote, whatever is before
it (`Carried`): each proxy appends the address it saw. The walk from the right
therefore stays on the real route until it stops; where that is, is found as
the least position it reaches. What is forged is never looked at unless all
of the route is trusted. The proof showed that "garbage" must not be a
spelling nor "none" an address: that is how the module writes what does not
parse and what is missing, and `AddressesAssumption` now says so.

`outbound_exchange`. On the way down the newest reader yields what the client's
request held when it was sent (`Whole`): `LoggerTransport` takes bytes off the
readers and puts them in front again. What a reader yields is in `Held`: its
heads, and the payload unless a reader has let go of it. That taking bytes is
exact, however they lie in the heads, is `ReadsLemma`; that putting them back
undoes it, `HeldPut`; and that a reader sees the end only when nothing is left,
so that letting go then loses nothing, `HeldRead`. `Readers` says that the request
at hand holds the newest reader, also behind clones that share it. `Logged` is
the stack discipline of the lines: on the way down a logger has one line and
those inside it all that follow, on the way up its second one closes them in.
`Excused` says where the request does not yield the payload: a rewinding leaves
the heads of the reader it is under as they are, so what is given is these and
then the payload, or these alone.

`rsql_lexer`. `Kept` says that the tokens and the text being read are the runes
behind `pos` without white space, with the `=` a word starts with, which is in
no token yet. `ReadBack` says how far a rendered value has been read: not at
all, its first `k` runes in quotes or bare, all of it, all that follows too. In
quotes `pos` is then behind what `literal` writes for those `k` runes, so the
rune the lexer looks at is the next one or the backslash before it
(`EscapedAt`). That what is written first stays a prefix of the whole is
`EscapedPrefix`. An invariant for the values left out of `Ordinary` does not
exist: `claim_every_value_readable` shows what happens to them.

`rsql_tree`. What a combine selects is what its operands select together
(`CombineMeaning`): a group that is flattened is of the kind being built, and
`and` and `or` do not tell how their operands are grouped (`MixedInParts`); one
that collapses is its only operand. For `Rewrite` the operands' results must
not change when the rewriter is applied once more, as it is to a result that
is left alone in its group, so `TreesRewrite` carries three things up from the
parts of a tree: the result selects what was asked for, no comparison in it
would be rewritten again, and its groups alternate and have two operands.
`MeaningKept` is then an invariant while every rewriter leaves its results
alone. That a filter has no group of one operand (`Joins`) is needed: the
binder builds none, and `All` with a nil returns its operand as it is.

`rsql_filter`. What is bound is a function of the expression (`FilterInv` adds
its length), so the work is in the stages. The parser is one function over
places and what is expected there; that it exists, and that what it reads is a
node of few levels, is shown by weight: an operand is read from the same place
as its "and", and an "and" as its "or", everything else from a later one
(`ProductionProper`, `ReadsExist`, `ParseIs`). The binder then refuses, or leaves
a filter that is bound throughout: known selectors, parsed values, one value
unless the operator is a membership (`WalkBinds`). On such a filter the clause of
a comparison finds what it asks for, operator by operator (`ClauseIs`), and a
group what its operands do together (`DocumentIs`). Without the binder's check
of the number of values this fails, since the document has only the first.

`redaction`. A line is computed from the request alone, so the properties
follow from what a request can be (`Request`), and the work is in the operators.
Of queries and headers: which places stand under a key, in which order
(`InOrderIs`, `ParseIs`, `HeadersIs`), and what becomes of them when a key is
redacted. Of bodies on fiberx's lines: `RedactLeaves` says for every value that redaction leaves
no leaf under a listed key and every other leaf where it was, from the parts to
the whole; a listed key drops all that is below it, so nothing need be known of
that. Of paths: what is routed is the cleaned path or that with a slash at its
end, and a prefix of the latter is one of the former unless it is all of it
(`PrefixWithoutSlash`). This is where `EndsRule` excepts what it does.

Where a recursion is over data - a sequence of layers, heads, lines or hops, a
tree of groups or a JSON value - the proofs use the least or highest place, or
the lowest level, at which a fact fails, since the prover cannot instantiate
the induction theorems. A recursive function is shown to exist that way before
anything is said of what it gives (`ComputesExists`). `Flattening` has what
`FlattenSeq` does to its last or first piece and which members it has.

Only model-checked:

- `StartsEarly`, `ReadsToTheEnd`, `StreamsThrough`: liveness, which the prover
  does not reach.
- `GrammarKept`, `WithinLimits`, `CanonicalStable` of `rsql_filter`. The first
  two compare a recursive descent, and what is counted on its result, with a
  grammar that cuts an expression at its separators: by the cardinality of sets
  of parentheses, wherever they are. The third needs that sorting rendered
  operands gives one result for all their orders, and that what is rendered is
  parsed again. Both are inductions over data of which the prover would have to
  be led through every step; they hold up to the bounds of the run.

## Not modelled

- The body of a 101 response is a connection, and the reader `LoggerTransport`
  puts in its place has no `Write` (logger.go:87). That is a fact of the types
  as written; there is no behaviour to explore.
- `http.Transport`'s own retries through `GetBody`, which the code does not
  touch; the masking of userinfo, which is net/url's `Redacted`.
- What a line says of durations; levels; health routes beyond being handlers.
- Which requests fiberx's `Record` holds back: its rules are compared with the
  path as sent, and what fiber routes to the same handler is fiber's (see above).
- `emberx`'s codec: whether a result survives is decided by an entity's
  marshaler and `encoding/json`; of its own the code has a type assertion and a
  loop that stops at the first error.
- `money`, `uuid`: stateless helpers whose unit tests cover their inputs.
- Inside the models: wording of messages, positions in errors, JSON, the
  address grammar (a hop is an address in a spelling, or garbage).

## Plan

Written in this order, the most important behaviour first.

1. `NetHttp`, `ResponseOwnership`, `HttpExchange` and its proofs. Done, with
   every safety property of the run proved.
2. `BodyStream`, `BodyRelay`. Done; safety and the refinement are proved.
3. `Propagation`. Done and proved.
4. `ClientIP`. Done and proved.
5. `RsqlLexer`, `RsqlTree`. Done and proved. `RsqlFilter`. Done; of its
   properties `MongoAgrees` is proved, the others stay with TLC.
6. `FiberExchange`, `OutboundExchange`, `Redaction`. Done and proved.
