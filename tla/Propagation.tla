------------------------------ MODULE Propagation ------------------------------
(***************************************************************************)
(* Who made a request, under which correlation id and with which           *)
(* idempotency key, as it travels between services: headers are lifted to  *)
(* the context (httpx, fiberx), put on outgoing requests by the transports *)
(* of httpx, stamped on events and restored from them (emberx).            *)
(*                                                                         *)
(* Clients retry requests, events are delivered at least once, and a       *)
(* handler can stop anywhere.  spark (external) runs a command once per    *)
(* idempotency key; ember (external) delivers an event until a handler has *)
(* returned and restores its correlation id.                               *)
(***************************************************************************)
EXTENDS Integers, FiniteSets

CONSTANTS
    Services,   \* who serves requests
    Stack,      \* [Services -> {"httpx", "fiberx"}]: whose middleware it installs
    Roots,      \* the requests clients send, each retried at will: header records
    Presets,    \* headers a handler sets itself on a new outgoing request
    MaxCalls,   \* bound: requests in flight between services
    MaxRuns,    \* bound: handler executions
    MaxEvents   \* bound: published events

None == 0

\* A request's headers, and the values of a context: the correlation id, the
\* caller's ID and Client, the idempotency key.
Values  == [cid : Nat, caller : Nat, client : Nat, key : Nat]
NoValues == [cid |-> None, caller |-> None, client |-> None, key |-> None]

ASSUME ServicesAssumption == Stack \in [Services -> {"httpx", "fiberx"}]
ASSUME HeadersAssumption  == Roots \subseteq Values /\ Presets \subseteq Values
ASSUME BoundsAssumption   == MaxCalls \in Nat /\ MaxRuns \in Nat /\ MaxEvents \in Nat

\* Ids below it are the clients' own; generated ones are fresh.
FirstFresh == 1000
ASSUME FreshAssumption == \A h \in Roots \cup Presets : h.cid < FirstFresh /\ h.key < FirstFresh

VARIABLES
    calls,     \* requests in flight between services
    runs,      \* handler executions, by number; "ended" ones keep their context
    events,    \* the events published, by number
    unacked,   \* events no handler has returned for
    executed,  \* spark's stores: the keys a command ran under, per service
    effects    \* the runs whose command was executed

vars == <<calls, runs, events, unacked, executed, effects>>

\* What the history knows of a message: the values its flow entered the system
\* with, the first X-Client that a handler set on the way on a request without an
\* X-Caller, and whether a hop that does not promise to carry the caller was taken.
Flows == [cid : Nat, caller : Nat, client : Nat, lent : Nat, lossy : BOOLEAN]

Run(n)     == runs[n]
RunIds     == DOMAIN runs
Running    == {n \in RunIds : ~runs[n].ended}
NextRun    == Cardinality(RunIds) + 1
NextEvent  == Cardinality(DOMAIN events) + 1

Init ==
    /\ calls = {} /\ runs = <<>> /\ events = <<>>
    /\ unacked = {} /\ executed = {} /\ effects = {}

-----------------------------------------------------------------------------
(***************************************************************************)
(* The middleware: what of the headers a handler finds on its context.     *)
(***************************************************************************)

\* CorrelationID of both packages: the header, or a generated id.
Correlated(h) == [h EXCEPT !.cid = IF @ = None THEN FirstFresh + NextRun ELSE @]

\* httpx: CorrelationID and IdempotencyKey; it has no Caller.
HttpxContext(h) == [Correlated(h) EXCEPT !.caller = None, !.client = None]

\* A Caller that takes the X-Client whether there is an X-Caller or not.
FiberxContextLoose(h) == Correlated(h)

\* fiberx: Caller too; without an X-Caller the X-Client is not looked at.
FiberxContext(h) ==
    IF h.caller # None THEN Correlated(h)
    ELSE [Correlated(h) EXCEPT !.client = None]

Context(s, h) == IF Stack[s] = "httpx" THEN HttpxContext(h) ELSE FiberxContext(h)

\* The id only on the context.
Unnormalized(s, h) == h

\* httpx.CorrelationID normalizes the request's own header as well.
Normalized(s, h) == IF Stack[s] = "httpx" THEN Correlated(h) ELSE h

-----------------------------------------------------------------------------
(***************************************************************************)
(* The transports: what a request with headers h carries when it is sent   *)
(* with context ctx.                                                       *)
(***************************************************************************)
CorrelationTransport(ctx, h) ==
    IF h.cid # None \/ ctx.cid = None THEN h ELSE [h EXCEPT !.cid = ctx.cid]

CallerTransport(ctx, h) ==
    IF ctx.caller = None \/ h.caller # None THEN h
    ELSE [h EXCEPT !.caller = ctx.caller,
                   !.client = IF ctx.client # None THEN ctx.client ELSE @]

InternalTransport(ctx, h) == CallerTransport(ctx, CorrelationTransport(ctx, h))

-----------------------------------------------------------------------------
(***************************************************************************)
(* Requests.                                                               *)
(***************************************************************************)
NewRun(r) == runs' = [n \in RunIds \cup {NextRun} |-> IF n = NextRun THEN r ELSE runs[n]]

Handling(s, h, flow, event) ==
    [service |-> s, ctx |-> Context(s, h), headers |-> Normalized(s, h), flow |-> flow,
     event |-> event, ended |-> FALSE]

\* A client sends a request, or sends it again.  Its flow starts here.
Enter(s, h) ==
    /\ NextRun =< MaxRuns
    /\ NewRun(Handling(s, h, [cid    |-> Correlated(h).cid, caller |-> h.caller,
                              client |-> IF h.caller = None THEN None ELSE h.client,
                              lent   |-> None, lossy |-> FALSE], None))
    /\ UNCHANGED <<calls, events, unacked, executed, effects>>

\* A call arrives; lost or late ones stay in flight.
Receive(c) ==
    /\ NextRun =< MaxRuns
    /\ NewRun(Handling(c.to, c.headers, c.flow, None))
    /\ calls' = calls \ {c}
    /\ UNCHANGED <<events, unacked, executed, effects>>

\* A request handler on httpx has no caller on its context to pass on.
Passed(r) ==
    [r.flow EXCEPT !.lossy = @ \/ (r.event = None /\ Stack[r.service] = "httpx")]

\* The transports keep an X-Caller the handler set: what follows such a call has
\* started with the values the handler gave it.  An X-Client set alone is lent to
\* the flow's caller, if there is one.
Restarted(flow, h) ==
    LET f == [flow EXCEPT !.cid = IF h.cid = None THEN @ ELSE h.cid]
    IN  IF h.caller # None
        THEN [f EXCEPT !.caller = h.caller, !.client = h.client, !.lent = None, !.lossy = FALSE]
        ELSE [f EXCEPT !.lent = IF f.caller = None \/ @ # None THEN @ ELSE h.client]

\* A new request of the handler's own, through NewInternalTransport.
Call(n, to, preset) ==
    LET r == Run(n) IN
    /\ Cardinality(calls) < MaxCalls
    /\ calls' = calls \cup
         {[to |-> to, headers |-> InternalTransport(r.ctx, preset),
           flow |-> Restarted(Passed(r), preset)]}
    /\ UNCHANGED <<runs, events, unacked, executed, effects>>

\* The incoming request sent on by a reverse proxy, on any transport.
Proxy(n, to, internal) ==
    LET r == Run(n) IN
    /\ r.event = None /\ Stack[r.service] = "httpx"
    /\ Cardinality(calls) < MaxCalls
    /\ calls' = calls \cup
         {[to |-> to, flow |-> r.flow,
           headers |-> IF internal THEN InternalTransport(r.ctx, r.headers) ELSE r.headers]}
    /\ UNCHANGED <<runs, events, unacked, executed, effects>>

-----------------------------------------------------------------------------
(***************************************************************************)
(* Events.                                                                 *)
(***************************************************************************)

\* ember's own MetadataGetter.
MetadataCallerless(ctx) == [cid |-> ctx.cid, caller |-> None, client |-> None]

\* MetadataGetter: refused without a correlation id.
Metadata(ctx) == [cid |-> ctx.cid, caller |-> ctx.caller,
                  client |-> IF ctx.caller = None THEN None ELSE ctx.client]

Publish(n) ==
    LET r == Run(n) IN
    /\ NextEvent =< MaxEvents
    /\ r.ctx.cid # None
    /\ events' = [e \in DOMAIN events \cup {NextEvent} |->
                    IF e = NextEvent THEN [md |-> Metadata(r.ctx), flow |-> Passed(r)] ELSE events[e]]
    /\ unacked' = unacked \cup {NextEvent}
    /\ UNCHANGED <<calls, runs, executed, effects>>

\* An event's ID as an idempotency key: no client chose it.
EventKey(e) == FirstFresh + e

\* Events handled without emberx.IdempotencyKey.
EventContextKeyless(e) ==
    [cid    |-> events[e].md.cid,
     caller |-> events[e].md.caller,
     client |-> IF events[e].md.caller # None THEN events[e].md.client ELSE None,
     key    |-> None]

\* Caller and IdempotencyKey of emberx.
EventContext(e) ==
    [cid    |-> events[e].md.cid,
     caller |-> events[e].md.caller,
     client |-> IF events[e].md.caller # None THEN events[e].md.client ELSE None,
     key    |-> EventKey(e)]

\* Delivered, possibly while another handler runs or after one stopped.
Deliver(e, s) ==
    /\ NextRun =< MaxRuns
    /\ e \in unacked
    /\ NewRun([service |-> s, ctx |-> EventContext(e), headers |-> NoValues,
               flow |-> events[e].flow, event |-> e, ended |-> FALSE])
    /\ UNCHANGED <<calls, events, unacked, executed, effects>>

-----------------------------------------------------------------------------
\* The handler dispatches its command.  spark runs it unless it ran under the
\* key before; without a key it always runs.
Dispatch(n) ==
    LET r == Run(n) IN
    /\ r.ctx.key = None \/ <<r.service, r.ctx.key>> \notin executed
    /\ executed' = IF r.ctx.key = None THEN executed
                   ELSE executed \cup {<<r.service, r.ctx.key>>}
    /\ effects' = effects \cup {n}
    /\ UNCHANGED <<calls, runs, events, unacked>>

\* The handler returned: ember acknowledges the event.
Return(n) ==
    /\ runs' = [runs EXCEPT ![n].ended = TRUE]
    /\ unacked' = unacked \ {Run(n).event}
    /\ UNCHANGED <<calls, events, executed, effects>>

\* It failed, or its process died: nothing is acknowledged.
Stop(n) ==
    /\ runs' = [runs EXCEPT ![n].ended = TRUE]
    /\ UNCHANGED <<calls, events, unacked, executed, effects>>

Handler(n) ==
    \/ \E to \in Services, h \in Presets : Call(n, to, h)
    \/ \E to \in Services, internal \in BOOLEAN : Proxy(n, to, internal)
    \/ Publish(n)
    \/ Dispatch(n)
    \/ Return(n)
    \/ Stop(n)

Next ==
    \/ \E s \in Services, h \in Roots : Enter(s, h)
    \/ \E c \in calls : Receive(c)
    \/ \E e \in unacked, s \in Services : Deliver(e, s)
    \/ \E n \in Running : Handler(n)

Spec == Init /\ [][Next]_vars

-----------------------------------------------------------------------------
(***************************************************************************)
(* What must be true of every flow.                                        *)
(***************************************************************************)
\* The values of the variables; only a stored event is delivered.
TypeOK ==
    /\ \A c \in calls : c.to \in Services /\ c.headers \in Values /\ c.flow \in Flows
    /\ \A n \in RunIds : /\ runs[n].service \in Services /\ runs[n].ctx \in Values
                         /\ runs[n].headers \in Values /\ runs[n].flow \in Flows
                         /\ runs[n].event \in {None} \cup DOMAIN events
    /\ \A e \in DOMAIN events : events[e].flow \in Flows
    /\ unacked \subseteq DOMAIN events /\ effects \subseteq RunIds

\* Every handler and every event of a flow has the correlation id its first
\* service settled on, over calls, reverse proxies and events, also when that
\* id was generated there.
CorrelationFollows ==
    /\ \A n \in RunIds : runs[n].ctx.cid = runs[n].flow.cid
    /\ \A e \in DOMAIN events : events[e].md.cid = events[e].flow.cid

Who(v) == <<v.caller, v.client>>
Nobody == <<None, None>>

\* The flow's caller, with the Client it had, or else the one it was lent.
Known(flow) ==
    <<flow.caller, IF flow.client = None THEN flow.lent ELSE flow.client>>

\* A caller is never another request's, nor a mix of two, with one exception: the ID
\* on a context or on an event is the one the flow started with, and so is the
\* Client, whatever X-Client a handler sets - but a caller who has none gets the
\* X-Client that a handler set without an X-Caller (httpx/caller.go:28-37), and keeps it.
CallerIsOriginal ==
    /\ \A n \in RunIds : Who(runs[n].ctx) \in {Nobody, Known(runs[n].flow)}
    /\ \A e \in DOMAIN events : Who(events[e].md) \in {Nobody, Known(events[e].flow)}

\* Along fiberx services, reverse proxies, internal calls and events the caller
\* is never lost: only a new request or an event of an httpx request handler drops it.
CallerCarried ==
    \A n \in RunIds :
        LET r == runs[n] IN
        (~r.flow.lossy /\ (r.event # None \/ Stack[r.service] = "fiberx"))
            => Who(r.ctx) = Known(r.flow)

\* A service runs the command of one event once, and of one Idempotency-Key of
\* a client once, whatever is redelivered, retried or stopped in the middle.
OncePerKey ==
    \A m, n \in effects :
        (/\ m # n /\ runs[m].service = runs[n].service
         /\ runs[m].event = runs[n].event)
            => runs[m].event = None /\ (runs[m].headers.key # runs[n].headers.key
                                        \/ runs[m].headers.key = None)

=============================================================================
