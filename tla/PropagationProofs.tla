--------------------------- MODULE PropagationProofs ---------------------------
(***************************************************************************)
(* Proofs about Propagation, for every set of services, client requests    *)
(* and preset headers and for every bound: the correlation id, the caller  *)
(* and the idempotency key along any sequence of calls, proxies and events.*)
(***************************************************************************)
EXTENDS Propagation, FiniteSetTheorems, TLAPS

-----------------------------------------------------------------------------
(***************************************************************************)
(* The inductive invariant.                                                *)
(***************************************************************************)

\* Runs and events are numbered from 1, so the next number is a new one.
Numbered ==
    /\ \E k \in Nat : RunIds = 1..k
    /\ \E k \in Nat : DOMAIN events = 1..k

Metadatas == [cid : Nat, caller : Nat, client : Nat]

\* The parts of a state, one by one: a call, a run, an event.
CallType(c)  == c.to \in Services /\ c.headers \in Values /\ c.flow \in Flows
RunType(r)   == /\ r.service \in Services /\ r.ctx \in Values /\ r.headers \in Values
                /\ r.flow \in Flows /\ r.event \in {None} \cup DOMAIN events
EventType(e) == e.md \in Metadatas /\ e.flow \in Flows

Types ==
    /\ \A c \in calls : CallType(c)
    /\ \A n \in RunIds : RunType(runs[n])
    /\ \A e \in DOMAIN events : EventType(events[e])
    /\ unacked \subseteq DOMAIN events /\ effects \subseteq RunIds

\* A flow has a correlation id, and a client of its own or a lent one only with a caller.
FlowSound(f) == f.cid # None /\ (f.caller = None => Known(f) = Nobody)

\* v names the flow's caller or nobody; it names him where promised holds and the
\* flow took no hop that drops him.
Faithful(v, f, promised) ==
    /\ v.caller # None => Who(v) = Known(f)
    /\ (promised /\ ~f.lossy) => v.caller = f.caller

\* What a request carries: an X-Client without an X-Caller can be left over.
CallSound(c) ==
    /\ FlowSound(c.flow)
    /\ c.headers.cid = c.flow.cid
    /\ Faithful(c.headers, c.flow, TRUE)

\* Where the middleware promises the caller.
Promised(r) == r.event # None \/ Stack[r.service] = "fiberx"

RunSound(r) ==
    /\ FlowSound(r.flow)
    /\ r.ctx.cid = r.flow.cid
    /\ r.ctx.caller = None => r.ctx.client = None
    /\ Faithful(r.ctx, r.flow, Promised(r))
    /\ r.event = None =>
         /\ r.ctx.key = r.headers.key
         /\ Stack[r.service] = "httpx" =>
              /\ r.ctx.caller = None
              /\ r.headers.cid = r.flow.cid
              /\ Faithful(r.headers, r.flow, TRUE)
    /\ r.event # None => r.ctx.key = EventKey(r.event)

EventSound(e) ==
    /\ FlowSound(e.flow)
    /\ e.md.cid = e.flow.cid
    /\ e.md.caller = None => e.md.client = None
    /\ Faithful(e.md, e.flow, TRUE)

Sound ==
    /\ \A c \in calls : CallSound(c)
    /\ \A n \in RunIds : RunSound(runs[n])
    /\ \A e \in DOMAIN events : EventSound(events[e])

\* spark's store has the key of every command that ran under one, and no two runs
\* of a service executed theirs under the same.
Keyed ==
    /\ \A n \in effects : runs[n].ctx.key # None
                            => <<runs[n].service, runs[n].ctx.key>> \in executed
    /\ \A m, n \in effects :
          (m # n /\ runs[m].service = runs[n].service /\ runs[m].ctx.key = runs[n].ctx.key)
              => runs[m].ctx.key = None

IInv == Numbered /\ Types /\ Sound /\ Keyed

-----------------------------------------------------------------------------
(***************************************************************************)
(* The numbers.                                                            *)
(***************************************************************************)

\* Counting an initial segment of the numbers gives its last.
LEMMA SegmentLemma ==
    ASSUME NEW S, \E k \in Nat : S = 1..k
    PROVE  LET next == Cardinality(S) + 1
           IN  /\ next \in Nat \ {0} /\ next \notin S
               /\ \E k \in Nat : S \cup {next} = 1..k
<1>1. PICK k \in Nat : S = 1..k
  OBVIOUS
<1>2. Cardinality(S) = k
  BY <1>1, FS_Interval
<1>3. k + 1 \in Nat /\ S \cup {k + 1} = 1..(k + 1)
  BY <1>1
<1> QED BY <1>1, <1>2, <1>3

-----------------------------------------------------------------------------
(***************************************************************************)
(* The middleware and the transports.                                      *)
(***************************************************************************)

\* The correlation id is the header's or a new one; nothing else changes.
LEMMA CorrelatedLemma ==
    ASSUME NEW h \in Values, NextRun \in Nat
    PROVE  /\ Correlated(h) \in Values
           /\ Correlated(h).cid # None
           /\ h.cid # None => Correlated(h).cid = h.cid
           /\ Who(Correlated(h)) = Who(h)
           /\ Correlated(h).key = h.key
<1> DEFINE id == IF h.cid = None THEN FirstFresh + NextRun ELSE h.cid
<1>1. Correlated(h) = [h EXCEPT !.cid = id]
  BY DEF Correlated
<1>2. id \in Nat /\ id # None
  BY DEF Values, FirstFresh, None
<1> HIDE DEF id
<1>3. /\ Correlated(h) \in Values /\ Correlated(h).cid = id
      /\ Correlated(h).caller = h.caller /\ Correlated(h).client = h.client
      /\ Correlated(h).key = h.key
  BY <1>1, <1>2 DEF Values
<1> QED BY <1>2, <1>3 DEF id, Who

\* What a handler finds on its context of the headers of its request.
LEMMA ContextLemma ==
    ASSUME NEW s \in Services, NEW h \in Values, NextRun \in Nat
    PROVE  LET ctx == Context(s, h)
           IN  /\ ctx \in Values
               /\ ctx.cid = Correlated(h).cid
               /\ ctx.key = h.key
               /\ Stack[s] = "httpx" => Who(ctx) = Nobody
               /\ Stack[s] # "httpx" =>
                     Who(ctx) = IF h.caller = None THEN Nobody ELSE Who(h)
<1> DEFINE g == Correlated(h)
<1>1. /\ g \in Values /\ g.caller = h.caller /\ g.client = h.client /\ g.key = h.key
  BY CorrelatedLemma DEF Who
<1> HIDE DEF g
<1>2. CASE Stack[s] = "httpx"
  <2>1. Context(s, h) = [g EXCEPT !.caller = None, !.client = None]
    BY <1>2 DEF Context, HttpxContext, g
  <2>2. /\ Context(s, h) \in Values /\ Context(s, h).cid = g.cid
        /\ Context(s, h).caller = None /\ Context(s, h).client = None
        /\ Context(s, h).key = g.key
    <3> DEFINE c == [g EXCEPT !.caller = None]
    <3>1. c \in Values /\ c.cid = g.cid /\ c.caller = None /\ c.key = g.key
      BY <1>1 DEF Values, None
    <3>2. Context(s, h) = [c EXCEPT !.client = None]
      BY <2>1
    <3> HIDE DEF c
    <3> QED BY <3>1, <3>2 DEF Values, None
  <2> QED BY <1>1, <1>2, <2>2 DEF Who, Nobody, g
<1>3. CASE Stack[s] # "httpx"
  <2>1. Context(s, h) = IF h.caller # None THEN g ELSE [g EXCEPT !.client = None]
    BY <1>3 DEF Context, FiberxContext, g
  <2>2. /\ Context(s, h) \in Values /\ Context(s, h).cid = g.cid
        /\ Context(s, h).caller = g.caller /\ Context(s, h).key = g.key
        /\ Context(s, h).client = IF h.caller = None THEN None ELSE g.client
    BY <1>1, <2>1 DEF Values, None
  <2> QED BY <1>1, <1>3, <2>2 DEF Who, Nobody, g
<1> QED BY <1>2, <1>3

\* The transports together: a header that is set stays, the rest is the context's.
LEMMA TransportLemma ==
    ASSUME NEW ctx \in Values, NEW h \in Values
    PROVE  LET t == InternalTransport(ctx, h)
           IN  /\ t \in Values
               /\ t.cid = IF h.cid # None THEN h.cid ELSE ctx.cid
               /\ t.caller = IF h.caller # None THEN h.caller ELSE ctx.caller
               /\ t.client = IF h.caller = None /\ ctx.caller # None /\ ctx.client # None
                             THEN ctx.client ELSE h.client
<1> DEFINE c == CorrelationTransport(ctx, h)
           t == CallerTransport(ctx, c)
<1>1. /\ c \in Values /\ c.cid = IF h.cid # None THEN h.cid ELSE ctx.cid
      /\ c.caller = h.caller /\ c.client = h.client
  BY DEF CorrelationTransport, Values
<1> HIDE DEF c
<1>2. /\ t \in Values /\ t.cid = c.cid
      /\ t.caller = IF c.caller # None THEN c.caller ELSE ctx.caller
      /\ t.client = IF c.caller = None /\ ctx.caller # None /\ ctx.client # None
                    THEN ctx.client ELSE c.client
  BY <1>1 DEF CallerTransport, Values
<1> QED BY <1>1, <1>2 DEF InternalTransport, c

-----------------------------------------------------------------------------
(***************************************************************************)
(* What one new run, call or event does to the invariant.                  *)
(***************************************************************************)

\* A sound run under a new number disturbs no earlier one.
LEMMA NewRunInvariant ==
    ASSUME IInv, NEW r, RunType(r), RunSound(r), NewRun(r),
           calls' \subseteq calls, UNCHANGED <<events, unacked, executed, effects>>
    PROVE  IInv'
<1>1. /\ NextRun \notin RunIds /\ RunIds' = RunIds \cup {NextRun}
      /\ \E k \in Nat : RunIds' = 1..k
      /\ runs'[NextRun] = r /\ \A n \in RunIds : runs'[n] = runs[n]
  <2>1. \E k \in Nat : RunIds = 1..k
    BY DEF IInv, Numbered
  <2>2. NextRun \notin RunIds /\ \E k \in Nat : RunIds \cup {NextRun} = 1..k
    BY <2>1, SegmentLemma DEF NextRun
  <2>3. runs' = [n \in RunIds \cup {NextRun} |-> IF n = NextRun THEN r ELSE runs[n]]
    BY DEF NewRun
  <2> HIDE DEF NextRun
  <2>4. RunIds' = RunIds \cup {NextRun}
    BY <2>3 DEF RunIds
  <2> QED BY <2>2, <2>3, <2>4
<1>2. \A n \in RunIds' : n \in RunIds \/ runs'[n] = r
  BY <1>1
<1>3. Numbered'
  BY <1>1 DEF IInv, Numbered
<1>4. Types'
  <2>1. \A n \in RunIds' : RunType(runs'[n])
    BY <1>1, <1>2 DEF IInv, Types
  <2> QED BY <1>1, <2>1 DEF IInv, Types, CallType, RunType, EventType
<1>5. Sound'
  <2>1. \A n \in RunIds' : RunSound(runs'[n])
    BY <1>1, <1>2 DEF IInv, Sound
  <2> QED BY <2>1 DEF IInv, Sound
<1>6. Keyed'
  <2>1. effects \subseteq RunIds
    BY DEF IInv, Types
  <2> QED BY <1>1, <2>1 DEF IInv, Keyed
<1> QED BY <1>3, <1>4, <1>5, <1>6 DEF IInv

\* A sound call joins those in flight.
LEMMA NewCallInvariant ==
    ASSUME IInv, NEW c, CallType(c), CallSound(c), calls' = calls \cup {c},
           UNCHANGED <<runs, events, unacked, executed, effects>>
    PROVE  IInv'
<1>1. Numbered' /\ Keyed'
  BY DEF IInv, Numbered, Keyed, RunIds
<1>2. Types'
  BY DEF IInv, Types, CallType, RunType, EventType, RunIds
<1>3. Sound'
  BY DEF IInv, Sound, RunIds
<1> QED BY <1>1, <1>2, <1>3 DEF IInv

\* A sound event under a new number disturbs no earlier one.
LEMMA NewEventInvariant ==
    ASSUME IInv, NEW e, EventType(e), EventSound(e),
           events' = [i \in DOMAIN events \cup {NextEvent} |->
                        IF i = NextEvent THEN e ELSE events[i]],
           unacked' = unacked \cup {NextEvent},
           UNCHANGED <<calls, runs, executed, effects>>
    PROVE  IInv'
<1>1. /\ NextEvent \notin DOMAIN events /\ DOMAIN events' = DOMAIN events \cup {NextEvent}
      /\ \E k \in Nat : DOMAIN events' = 1..k
      /\ events'[NextEvent] = e /\ \A i \in DOMAIN events : events'[i] = events[i]
  <2>1. \E k \in Nat : DOMAIN events = 1..k
    BY DEF IInv, Numbered
  <2>2. NextEvent \notin DOMAIN events /\ \E k \in Nat : DOMAIN events \cup {NextEvent} = 1..k
    BY <2>1, SegmentLemma DEF NextEvent
  <2> HIDE DEF NextEvent
  <2> QED BY <2>2
<1>2. \A i \in DOMAIN events' : i \in DOMAIN events \/ events'[i] = e
  BY <1>1
<1>3. Numbered' /\ Keyed'
  BY <1>1 DEF IInv, Numbered, Keyed, RunIds
<1>4. Types'
  <2>1. \A i \in DOMAIN events' : EventType(events'[i])
    BY <1>1, <1>2 DEF IInv, Types
  <2>2. unacked' \subseteq DOMAIN events'
    BY <1>1 DEF IInv, Types
  <2> QED BY <1>1, <2>1, <2>2 DEF IInv, Types, CallType, RunType, EventType, RunIds
<1>5. Sound'
  <2>1. \A i \in DOMAIN events' : EventSound(events'[i])
    BY <1>1, <1>2 DEF IInv, Sound
  <2> QED BY <2>1 DEF IInv, Sound, RunIds
<1> QED BY <1>3, <1>4, <1>5 DEF IInv

-----------------------------------------------------------------------------
(***************************************************************************)
(* The actions.                                                            *)
(***************************************************************************)

\* Numbers are numbers: what the other lemmas need of the invariant.
LEMMA NumberLemma == IInv => NextRun \in Nat /\ NextEvent \in Nat
BY SegmentLemma DEF IInv, Numbered, NextRun, NextEvent

\* A request with the values of its flow starts a sound run.
LEMMA HandlingLemma ==
    ASSUME NextRun \in Nat, NEW s \in Services, NEW h \in Values, NEW f \in Flows,
           FlowSound(f), Correlated(h).cid = f.cid, Faithful(h, f, TRUE)
    PROVE  RunType(Handling(s, h, f, None)) /\ RunSound(Handling(s, h, f, None))
<1> DEFINE r == Handling(s, h, f, None)
           ctx == Context(s, h)
           g == Normalized(s, h)
<1>1. /\ r.service = s /\ r.ctx = ctx /\ r.headers = g /\ r.flow = f /\ r.event = None
  BY DEF Handling
<1>2. /\ ctx \in Values /\ ctx.cid = f.cid /\ ctx.key = h.key
      /\ Stack[s] = "httpx" => ctx.caller = None /\ ctx.client = None
      /\ Stack[s] # "httpx" => /\ ctx.caller = h.caller
                               /\ ctx.client = IF h.caller = None THEN None ELSE h.client
  BY ContextLemma, ZenonT(40) DEF Who, Nobody
<1>3. /\ g \in Values /\ g.key = h.key /\ g.caller = h.caller /\ g.client = h.client
      /\ Stack[s] = "httpx" => g.cid = f.cid
  BY CorrelatedLemma DEF Normalized, Who
<1> HIDE DEF r, ctx, g
<1>4. RunType(r)
  BY <1>1, <1>2, <1>3 DEF RunType
<1>5. Faithful(r.ctx, f, Promised(r)) /\ Faithful(g, f, TRUE)
  BY <1>1, <1>2, <1>3, ServicesAssumption DEF Faithful, Promised, Who, Known
<1>6. RunSound(r)
  BY <1>1, <1>2, <1>3, <1>5 DEF RunSound
<1> QED BY <1>4, <1>6 DEF r

LEMMA EnterInvariant ==
    ASSUME IInv, NEW s \in Services, NEW h \in Roots, Enter(s, h)
    PROVE  IInv'
<1> DEFINE f == [cid    |-> Correlated(h).cid, caller |-> h.caller,
                 client |-> IF h.caller = None THEN None ELSE h.client,
                 lent   |-> None, lossy |-> FALSE]
<1>1. h \in Values /\ NextRun \in Nat
  BY HeadersAssumption, NumberLemma
<1>2. Correlated(h).cid \in Nat /\ Correlated(h).cid # None
  BY <1>1, CorrelatedLemma DEF Values
<1>3. /\ f \in Flows /\ FlowSound(f) /\ Correlated(h).cid = f.cid
      /\ Faithful(h, f, TRUE)
  BY <1>1, <1>2 DEF Values, Flows, FlowSound, Faithful, Known, Who, Nobody, None
<1>4. NewRun(Handling(s, h, f, None)) /\ UNCHANGED <<calls, events, unacked, executed, effects>>
  BY DEF Enter
<1> HIDE DEF f
<1>5. RunType(Handling(s, h, f, None)) /\ RunSound(Handling(s, h, f, None))
  BY <1>1, <1>3, HandlingLemma
<1> QED BY <1>4, <1>5, NewRunInvariant

LEMMA ReceiveInvariant ==
    ASSUME IInv, NEW c \in calls, Receive(c)
    PROVE  IInv'
<1>1. CallType(c) /\ CallSound(c) /\ NextRun \in Nat
  BY NumberLemma DEF IInv, Types, Sound
<1>2. Correlated(c.headers).cid = c.flow.cid
  BY <1>1, CorrelatedLemma DEF CallType, CallSound, FlowSound
<1>3. /\ RunType(Handling(c.to, c.headers, c.flow, None))
      /\ RunSound(Handling(c.to, c.headers, c.flow, None))
  BY <1>1, <1>2, HandlingLemma DEF CallType, CallSound
<1> QED BY <1>3, NewRunInvariant DEF Receive

\* A delivery restores the values the event was stamped with.
LEMMA DeliverInvariant ==
    ASSUME IInv, NEW e \in unacked, NEW s \in Services, Deliver(e, s)
    PROVE  IInv'
<1> DEFINE ctx == EventContext(e)
           r == [service |-> s, ctx |-> ctx, headers |-> NoValues,
                 flow |-> events[e].flow, event |-> e, ended |-> FALSE]
<1>1. /\ e \in DOMAIN events /\ e \in Nat \ {0}
      /\ EventType(events[e]) /\ EventSound(events[e])
  BY DEF IInv, Types, Sound, Numbered
<1>2. /\ ctx.cid = events[e].md.cid /\ ctx.caller = events[e].md.caller
      /\ ctx.client = events[e].md.client /\ ctx.key = EventKey(e)
      /\ ctx \in Values
  BY <1>1 DEF EventContext, EventType, EventSound, Metadatas, Values, EventKey, FirstFresh, None
<1>3. NoValues \in Values
  BY DEF NoValues, Values, None
<1> HIDE DEF ctx
<1>4. RunType(r)
  BY <1>1, <1>2, <1>3 DEF RunType, EventType
<1>5. RunSound(r)
  BY <1>1, <1>2 DEF RunSound, EventSound, Faithful, Promised, Who, Known, None
<1> QED BY <1>4, <1>5, NewRunInvariant DEF Deliver, ctx

\* What a handler's flow is called with when it hands it on.
LEMMA PassedLemma ==
    ASSUME NEW r, r.flow \in Flows
    PROVE  /\ Passed(r) \in Flows
           /\ Passed(r).cid = r.flow.cid /\ Passed(r).caller = r.flow.caller
           /\ Passed(r).client = r.flow.client /\ Passed(r).lent = r.flow.lent
           /\ Passed(r).lossy = (r.flow.lossy \/ (r.event = None /\ Stack[r.service] = "httpx"))
<1> DEFINE l == r.flow.lossy \/ (r.event = None /\ Stack[r.service] = "httpx")
<1>1. Passed(r) = [r.flow EXCEPT !.lossy = l]
  BY DEF Passed
<1>2. l \in BOOLEAN
  OBVIOUS
<1> HIDE DEF l
<1>3. /\ Passed(r) \in Flows /\ Passed(r).cid = r.flow.cid /\ Passed(r).lossy = l
      /\ Passed(r).caller = r.flow.caller /\ Passed(r).client = r.flow.client
      /\ Passed(r).lent = r.flow.lent
  BY <1>1, <1>2 DEF Flows
<1> QED BY <1>3 DEF l

\* What follows a call has the caller the handler set, or else the flow's, who may be
\* lent a client.
LEMMA RestartedLemma ==
    ASSUME NEW f \in Flows, NEW h \in Values
    PROVE  LET g == Restarted(f, h)
           IN  /\ g \in Flows
               /\ g.cid = IF h.cid # None THEN h.cid ELSE f.cid
               /\ h.caller # None => g.caller = h.caller /\ g.client = h.client /\ g.lent = None
               /\ h.caller = None =>
                    /\ g.caller = f.caller /\ g.client = f.client /\ g.lossy = f.lossy
                    /\ g.lent = IF f.caller = None \/ f.lent # None THEN f.lent ELSE h.client
<1> DEFINE id == IF h.cid = None THEN f.cid ELSE h.cid
           e  == [f EXCEPT !.cid = id]
           g  == Restarted(f, h)
<1>1. /\ e \in Flows /\ e.cid = id /\ e.caller = f.caller /\ e.client = f.client
      /\ e.lent = f.lent /\ e.lossy = f.lossy
  BY DEF Flows, Values
<1>2. g = IF h.caller # None
          THEN [e EXCEPT !.caller = h.caller, !.client = h.client, !.lent = None, !.lossy = FALSE]
          ELSE [e EXCEPT !.lent = IF e.caller = None \/ @ # None THEN @ ELSE h.client]
  BY DEF Restarted
<1> HIDE DEF e, g
<1>3. CASE h.caller # None
  <2>1. g = [e EXCEPT !.caller = h.caller, !.client = h.client, !.lent = None, !.lossy = FALSE]
    BY <1>2, <1>3
  <2>2. /\ g \in Flows /\ g.cid = id
        /\ g.caller = h.caller /\ g.client = h.client /\ g.lent = None
    BY <1>1, <2>1 DEF Flows, Values, None
  <2> QED BY <1>3, <2>2 DEF g
<1>4. CASE h.caller = None
  <2> DEFINE n == IF e.caller = None \/ e.lent # None THEN e.lent ELSE h.client
  <2>1. g = [e EXCEPT !.lent = n]
    BY <1>2, <1>4
  <2>2. n \in Nat
    BY <1>1 DEF Flows, Values
  <2> HIDE DEF n
  <2>3. /\ g \in Flows /\ g.cid = id /\ g.caller = f.caller /\ g.client = f.client
        /\ g.lossy = f.lossy /\ g.lent = n
    BY <1>1, <2>1, <2>2 DEF Flows
  <2> QED BY <1>1, <1>4, <2>3 DEF g, n
<1> QED BY <1>3, <1>4

\* A new request carries its handler's context, but for what the handler set.
LEMMA CallInvariant ==
    ASSUME IInv, NEW n \in Running, NEW to \in Services, NEW h \in Presets, Call(n, to, h)
    PROVE  IInv'
<1> DEFINE r == Run(n)
           f == Passed(r)
           g == Restarted(f, h)
           t == InternalTransport(r.ctx, h)
           c == [to |-> to, headers |-> t, flow |-> g]
<1>1. RunType(r) /\ RunSound(r) /\ h \in Values
  BY HeadersAssumption DEF IInv, Types, Sound, Running, Run
<1>2. calls' = calls \cup {c} /\ UNCHANGED <<runs, events, unacked, executed, effects>>
  BY DEF Call
<1> HIDE DEF r
<1>3. /\ f \in Flows /\ f.cid = r.flow.cid
      /\ f.caller = r.flow.caller /\ f.client = r.flow.client /\ f.lent = r.flow.lent
      /\ f.lossy = (r.flow.lossy \/ (r.event = None /\ Stack[r.service] = "httpx"))
  BY <1>1, PassedLemma DEF RunType
<1>4. /\ t \in Values
      /\ t.cid = IF h.cid # None THEN h.cid ELSE r.ctx.cid
      /\ t.caller = IF h.caller # None THEN h.caller ELSE r.ctx.caller
      /\ t.client = IF h.caller = None /\ r.ctx.caller # None /\ r.ctx.client # None
                    THEN r.ctx.client ELSE h.client
  BY <1>1, TransportLemma DEF RunType
<1>5. Promised(r) <=> ~(r.event = None /\ Stack[r.service] = "httpx")
  BY <1>1, ServicesAssumption DEF Promised, RunType
<1> HIDE DEF f, t
<1>6. /\ g \in Flows
      /\ g.cid = IF h.cid # None THEN h.cid ELSE f.cid
      /\ h.caller # None => g.caller = h.caller /\ g.client = h.client /\ g.lent = None
      /\ h.caller = None =>
           /\ g.caller = f.caller /\ g.client = f.client /\ g.lossy = f.lossy
           /\ g.lent = IF f.caller = None \/ f.lent # None THEN f.lent ELSE h.client
  BY <1>1, <1>3, RestartedLemma DEF RunType
<1> HIDE DEF g
<1>7. CallType(c)
  BY <1>4, <1>6 DEF CallType
<1>8. FlowSound(g) /\ t.cid = g.cid
  <2>1. FlowSound(r.flow) /\ r.ctx.cid = r.flow.cid
    BY <1>1 DEF RunSound
  <2>2. t.cid = g.cid /\ g.cid # None
    BY <1>3, <1>4, <1>6, <2>1 DEF FlowSound
  <2>3. g.caller = None => Known(g) = Nobody
    BY <1>3, <1>6, <2>1 DEF FlowSound, Known, Nobody
  <2> QED BY <2>2, <2>3 DEF FlowSound
<1>9. Faithful(t, g, TRUE)
  <2>1. CASE h.caller # None
    BY <1>4, <1>6, <2>1 DEF Faithful, Known, Who
  <2>2. CASE h.caller = None
    <3>1. t.caller = r.ctx.caller /\ g.caller = r.flow.caller /\ g.client = r.flow.client
      BY <1>3, <1>4, <1>6, <2>2
    <3>2. ASSUME r.ctx.caller # None
          PROVE  Who(t) = Known(g)
      <4>1. r.ctx.caller = r.flow.caller
            /\ r.ctx.client = IF r.flow.client = None THEN r.flow.lent ELSE r.flow.client
        BY <1>1, <3>2 DEF RunSound, Faithful, Who, Known
      <4>2. t.client = IF r.ctx.client # None THEN r.ctx.client ELSE h.client
        BY <1>4, <2>2, <3>2
      <4>3. g.lent = IF r.flow.lent # None THEN r.flow.lent ELSE h.client
        BY <1>3, <1>6, <2>2, <3>2, <4>1
      <4> QED BY <3>1, <4>1, <4>2, <4>3 DEF Who, Known
    <3>3. ~g.lossy => ~r.flow.lossy /\ Promised(r)
      BY <1>3, <1>5, <1>6, <2>2
    <3> QED BY <1>1, <3>1, <3>2, <3>3 DEF RunSound, Faithful
  <2> QED BY <2>1, <2>2
<1>10. CallSound(c)
  BY <1>8, <1>9 DEF CallSound
<1> QED BY <1>2, <1>7, <1>10, NewCallInvariant

\* A proxied request carries the headers it came with: its correlation id is
\* normalized, and there is no caller on the context to overwrite its own.
LEMMA ProxyInvariant ==
    ASSUME IInv, NEW n \in Running, NEW to \in Services, NEW internal \in BOOLEAN,
           Proxy(n, to, internal)
    PROVE  IInv'
<1> DEFINE r == Run(n)
           t == IF internal THEN InternalTransport(r.ctx, r.headers) ELSE r.headers
           c == [to |-> to, flow |-> r.flow, headers |-> t]
<1>1. /\ RunType(r) /\ RunSound(r) /\ r.event = None /\ Stack[r.service] = "httpx"
  BY DEF IInv, Types, Sound, Running, Run, Proxy
<1>2. calls' = calls \cup {c} /\ UNCHANGED <<runs, events, unacked, executed, effects>>
  BY DEF Proxy
<1> HIDE DEF r
<1>3. r.ctx.caller = None /\ r.headers.cid = r.flow.cid /\ r.flow.cid # None
  BY <1>1 DEF RunSound, FlowSound
<1>4. /\ t \in Values /\ t.cid = r.headers.cid
      /\ t.caller = r.headers.caller /\ t.client = r.headers.client
  BY <1>1, <1>3, TransportLemma DEF RunType
<1> HIDE DEF t
<1>5. CallType(c) /\ CallSound(c)
  BY <1>1, <1>3, <1>4 DEF CallType, CallSound, RunType, RunSound, Faithful, Who, Known
<1> QED BY <1>2, <1>5, NewCallInvariant

\* An event is stamped with its handler's context.
LEMMA PublishInvariant ==
    ASSUME IInv, NEW n \in Running, Publish(n)
    PROVE  IInv'
<1> DEFINE r == Run(n)
           md == Metadata(r.ctx)
           f == Passed(r)
           e == [md |-> md, flow |-> f]
<1>1. RunType(r) /\ RunSound(r)
  BY DEF IInv, Types, Sound, Running, Run
<1>2. /\ events' = [i \in DOMAIN events \cup {NextEvent} |->
                      IF i = NextEvent THEN e ELSE events[i]]
      /\ unacked' = unacked \cup {NextEvent}
      /\ UNCHANGED <<calls, runs, executed, effects>>
  BY DEF Publish
<1> HIDE DEF r
<1>3. /\ f \in Flows /\ f.cid = r.flow.cid
      /\ f.caller = r.flow.caller /\ f.client = r.flow.client /\ f.lent = r.flow.lent
      /\ f.lossy = (r.flow.lossy \/ (r.event = None /\ Stack[r.service] = "httpx"))
  BY <1>1, PassedLemma DEF RunType
<1>4. /\ md \in Metadatas /\ md.cid = r.ctx.cid /\ md.caller = r.ctx.caller
      /\ md.client = r.ctx.client
  BY <1>1 DEF Metadata, Metadatas, RunType, RunSound, Values, None
<1>5. Promised(r) <=> ~(r.event = None /\ Stack[r.service] = "httpx")
  BY <1>1, ServicesAssumption DEF Promised, RunType
<1> HIDE DEF md, f
<1>6. EventType(e)
  BY <1>3, <1>4 DEF EventType
<1>7. EventSound(e)
  BY <1>1, <1>3, <1>4, <1>5 DEF EventSound, RunSound, FlowSound, Faithful, Who, Known
<1> HIDE DEF e
<1> QED BY <1>2, <1>6, <1>7, NewEventInvariant

\* spark runs a command only under a key that its store does not have.
LEMMA DispatchInvariant ==
    ASSUME IInv, NEW n \in Running, Dispatch(n)
    PROVE  IInv'
<1>1. /\ n \in RunIds /\ effects' = effects \cup {n}
      /\ UNCHANGED <<calls, runs, events, unacked>>
      /\ \/ runs[n].ctx.key = None /\ executed' = executed
         \/ /\ <<runs[n].service, runs[n].ctx.key>> \notin executed
            /\ executed' = executed \cup {<<runs[n].service, runs[n].ctx.key>>}
  BY DEF Dispatch, Running, Run
<1>2. Numbered' /\ Sound'
  BY <1>1 DEF IInv, Numbered, Sound, RunIds
<1>3. Types'
  BY <1>1 DEF IInv, Types, CallType, RunType, EventType, RunIds
<1>4. Keyed'
  <2>1. \A m \in effects' : runs[m].ctx.key # None
                              => <<runs[m].service, runs[m].ctx.key>> \in executed'
    BY <1>1 DEF IInv, Keyed
  <2>2. ASSUME NEW m \in effects, m # n, runs[m].service = runs[n].service,
               runs[m].ctx.key = runs[n].ctx.key
        PROVE  runs[m].ctx.key = None
    BY <1>1, <2>2 DEF IInv, Keyed
  <2>3. \A m, k \in effects' :
          (m # k /\ runs[m].service = runs[k].service /\ runs[m].ctx.key = runs[k].ctx.key)
              => runs[m].ctx.key = None
    BY <1>1, <2>2 DEF IInv, Keyed
  <2> QED BY <1>1, <2>1, <2>3 DEF Keyed
<1> QED BY <1>2, <1>3, <1>4 DEF IInv

\* A handler that ends keeps what the invariant says of it.
LEMMA EndInvariant ==
    ASSUME IInv, NEW n \in Running, Return(n) \/ Stop(n)
    PROVE  IInv'
<1>1. /\ n \in RunIds /\ runs' = [runs EXCEPT ![n].ended = TRUE]
      /\ unacked' \subseteq unacked /\ UNCHANGED <<calls, events, executed, effects>>
  BY DEF Return, Stop, Running
<1>2. /\ RunIds' = RunIds
      /\ \A m \in RunIds : /\ runs'[m].service = runs[m].service /\ runs'[m].ctx = runs[m].ctx
                           /\ runs'[m].headers = runs[m].headers
                           /\ runs'[m].flow = runs[m].flow /\ runs'[m].event = runs[m].event
  BY <1>1 DEF RunIds
<1>3. Numbered'
  BY <1>1, <1>2 DEF IInv, Numbered
<1>4. Types'
  BY <1>1, <1>2 DEF IInv, Types, CallType, RunType, EventType
<1>5. Sound'
  <2>1. ASSUME NEW m \in RunIds'
        PROVE  RunSound(runs'[m])
    <3>1. m \in RunIds /\ RunSound(runs[m])
      BY <1>2 DEF IInv, Sound
    <3>2. Promised(runs'[m]) = Promised(runs[m])
      BY <1>2, <3>1 DEF Promised
    <3> QED BY <1>2, <3>1, <3>2 DEF RunSound
  <2> QED BY <1>1, <2>1 DEF IInv, Sound
<1>6. Keyed'
  BY <1>1, <1>2 DEF IInv, Types, Keyed
<1> QED BY <1>3, <1>4, <1>5, <1>6 DEF IInv

-----------------------------------------------------------------------------
(***************************************************************************)
(* The invariant and what follows from it.                                 *)
(***************************************************************************)
LEMMA InitInvariant == Init => IInv
<1> SUFFICES ASSUME Init PROVE IInv
  OBVIOUS
<1>1. /\ RunIds = {} /\ DOMAIN events = {} /\ calls = {} /\ effects = {} /\ unacked = {}
  BY DEF Init, RunIds
<1>2. {} = 1..0 /\ 0 \in Nat
  OBVIOUS
<1> QED BY <1>1, <1>2 DEF IInv, Numbered, Types, Sound, Keyed

LEMMA NextInvariant ==
    ASSUME IInv, [Next]_vars
    PROVE  IInv'
<1>1. ASSUME NEW n \in Running, Handler(n)
      PROVE  IInv'
  BY <1>1, CallInvariant, ProxyInvariant, PublishInvariant, DispatchInvariant, EndInvariant
  DEF Handler
<1>2. CASE UNCHANGED vars
  BY <1>2 DEF vars, IInv, Numbered, Types, Sound, Keyed, CallType, RunType, EventType, RunIds
<1> QED BY <1>1, <1>2, EnterInvariant, ReceiveInvariant, DeliverInvariant DEF Next

\* In every system of services the runs and events are numbered apart, have their
\* types, agree with their flows, and ran their commands under keys that differ.
THEOREM Invariance == Spec => []IInv
<1>1. IInv /\ [Next]_vars => IInv'
  BY NextInvariant
<1> QED BY <1>1, InitInvariant, PTL DEF Spec

\* The variables keep their types: only an event that was stored is delivered, and
\* only a handler that ran has executed its command.
THEOREM TypeCorrectness == Spec => []TypeOK
<1>1. IInv => TypeOK
  BY DEF IInv, Types, CallType, RunType, EventType, TypeOK
<1> QED BY <1>1, Invariance, PTL

\* Whatever the services and the way a flow takes through them, every handler and
\* every event of it has the one correlation id it was settled on.
THEOREM CorrelationIsOne == Spec => []CorrelationFollows
<1>1. IInv => CorrelationFollows
  BY DEF IInv, Sound, RunSound, EventSound, CorrelationFollows
<1> QED BY <1>1, Invariance, PTL

\* No order of calls, proxies, events and retries gives a handler or an event another
\* flow's caller, or a Client that is not its caller's - but for a caller without a
\* Client, who gets the first X-Client that a handler sets on a request without an
\* X-Caller.
THEOREM CallerIsNobodyElse == Spec => []CallerIsOriginal
<1>1. ASSUME IInv
      PROVE  CallerIsOriginal
  <2>1. ASSUME NEW n \in RunIds
        PROVE  Who(runs[n].ctx) \in {Nobody, Known(runs[n].flow)}
    BY <1>1 DEF IInv, Sound, RunSound, Faithful, Who, Nobody
  <2>2. ASSUME NEW e \in DOMAIN events
        PROVE  Who(events[e].md) \in {Nobody, Known(events[e].flow)}
    BY <1>1 DEF IInv, Sound, EventSound, Faithful, Who, Nobody
  <2> QED BY <2>1, <2>2 DEF CallerIsOriginal
<1> QED BY <1>1, Invariance, PTL

\* Through fiberx services, reverse proxies, internal calls and events the caller
\* arrives, however long the way.
THEOREM CallerArrives == Spec => []CallerCarried
<1>1. ASSUME IInv
      PROVE  CallerCarried
  <2> SUFFICES ASSUME NEW n \in RunIds, ~runs[n].flow.lossy, Promised(runs[n])
               PROVE  Who(runs[n].ctx) = Known(runs[n].flow)
    BY DEF CallerCarried, Promised
  <2>1. RunSound(runs[n])
    BY <1>1 DEF IInv, Sound
  <2>2. runs[n].ctx.caller = runs[n].flow.caller
    BY <2>1 DEF RunSound, Faithful
  <2>3. CASE runs[n].ctx.caller = None
    BY <2>1, <2>2, <2>3 DEF RunSound, FlowSound, Who, Nobody
  <2>4. CASE runs[n].ctx.caller # None
    BY <2>1, <2>4 DEF RunSound, Faithful
  <2> QED BY <2>3, <2>4
<1> QED BY <1>1, Invariance, PTL

\* However often an event is delivered and a client sends a request again, a
\* service runs the command of one key at most once.
THEOREM CommandOnce == Spec => []OncePerKey
<1>1. ASSUME IInv
      PROVE  OncePerKey
  <2> SUFFICES ASSUME NEW m \in effects, NEW n \in effects, m # n,
                      runs[m].service = runs[n].service, runs[m].event = runs[n].event
               PROVE  runs[m].event = None /\ (runs[m].headers.key # runs[n].headers.key
                                                \/ runs[m].headers.key = None)
    BY DEF OncePerKey
  <2>1. /\ RunType(runs[m]) /\ RunSound(runs[m]) /\ RunSound(runs[n])
        /\ runs[m].ctx.key = runs[n].ctx.key => runs[m].ctx.key = None
    BY <1>1 DEF IInv, Types, Sound, Keyed
  <2>2. CASE runs[m].event # None
    <3>1. /\ runs[m].ctx.key = EventKey(runs[m].event)
          /\ runs[n].ctx.key = EventKey(runs[m].event)
      BY <2>1, <2>2 DEF RunSound
    <3>2. runs[m].event \in Nat
      BY <1>1, <2>1, <2>2 DEF RunType, IInv, Numbered
    <3> QED BY <2>1, <3>1, <3>2 DEF EventKey, FirstFresh, None
  <2>3. CASE runs[m].event = None
    BY <2>1, <2>3 DEF RunSound
  <2> QED BY <2>2, <2>3
<1> QED BY <1>1, Invariance, PTL

==============================================================================
