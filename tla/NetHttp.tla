------------------------------- MODULE NetHttp -------------------------------
(***************************************************************************)
(* What net/http's server does with one response, as far as the httpx      *)
(* middleware depends on it.  The library is not part of the repository:   *)
(* these operators model the ResponseWriter that httpx hands its calls to  *)
(* (external in the source map).  They are pure: each maps the server's    *)
(* record of a response to the next one.                                   *)
(*                                                                         *)
(*   declared     the Content-Length in the header map, NoLength if unset  *)
(*   correlation  the Correlation-ID is in the header map                  *)
(*   committed    the final status line is out of the handler's hands      *)
(*   status       that status, 0 before                                    *)
(*   length       the Content-Length the header went out with              *)
(*   correlated   the header went out with the Correlation-ID              *)
(*   author       whose call committed it (see Authors)                    *)
(*   sent         body bytes accepted for the client, per author           *)
(*   written      body bytes offered, refused ones included                *)
(*   hijacked     the connection was taken over                            *)
(*   early        an informational (1xx) header went out                   *)
(*   superfluous  WriteHeader was called again after the commit            *)
(*   rejected     a Write was refused                                      *)
(***************************************************************************)
EXTENDS Integers

\* The application's handler, servicekit's own envelopes, net/http itself.
Authors == {"app", "kit", "server"}

NoLength == -1

NewResponse ==
    [declared |-> NoLength, correlation |-> FALSE,
     committed |-> FALSE, status |-> 0, length |-> NoLength, correlated |-> FALSE,
     author |-> "nobody", sent |-> [a \in Authors |-> 0], written |-> 0,
     hijacked |-> FALSE, early |-> FALSE, superfluous |-> FALSE, rejected |-> FALSE]

Responses ==
    [declared : Int, correlation : BOOLEAN,
     committed : BOOLEAN, status : Nat, length : Int, correlated : BOOLEAN,
     author : Authors \cup {"nobody"}, sent : [Authors -> Nat], written : Nat,
     hijacked : BOOLEAN, early : BOOLEAN, superfluous : BOOLEAN, rejected : BOOLEAN]

\* Nobody can change who answers any more.
Taken(r) == r.committed \/ r.hijacked

ValidCode(code)     == code \in 100..999
Informational(code) == code \in 100..199 /\ code # 101
BodyAllowed(code)   == code \notin 100..199 /\ code # 204 /\ code # 304

\* WriteHeader panics on a code net/http cannot put on the status line, but
\* only when it would have written one.
HeaderPanics(r, code) == ~Taken(r) /\ ~ValidCode(code)

\* WriteHeader(code) called on behalf of author a, with a valid code.
HeaderWritten(r, code, a) ==
    IF r.hijacked THEN r
    ELSE IF r.committed THEN [r EXCEPT !.superfluous = TRUE]
    ELSE IF Informational(code) THEN [r EXCEPT !.early = TRUE]
    ELSE [r EXCEPT !.committed = TRUE, !.status = code, !.author = a,
                   !.length = r.declared, !.correlated = r.correlation]

\* The status line a Write or a Flush sends first when there is none yet.
ImplicitHeader(r, a) == IF Taken(r) THEN r ELSE HeaderWritten(r, 200, a)

\* Whether n more bytes fit the status and the declared length.
Accepts(r, n) ==
    /\ ~r.hijacked
    /\ BodyAllowed(r.status)
    /\ r.length = NoLength \/ r.written + n =< r.length

\* Write of n bytes on behalf of author a.  The bytes count as written even
\* when the declared length refuses them, so every later Write is refused too.
BodyWritten(r, n, a) ==
    LET h     == ImplicitHeader(r, a)
        taken == n > 0 /\ Accepts(h, n)
        count == n > 0 /\ ~h.hijacked /\ BodyAllowed(h.status)
    IN [h EXCEPT !.sent[a]  = IF taken THEN @ + n ELSE @,
                 !.written  = IF count THEN @ + n ELSE @,
                 !.rejected = @ \/ (IF n > 0 THEN ~taken ELSE h.hijacked)]

\* A connection can be hijacked once, before or after a header was written.
HijackAccepted(r) == ~r.hijacked

Hijacked(r) ==
    [r EXCEPT !.hijacked = TRUE,
              !.author   = IF r.committed THEN @ ELSE "app"]

\* The handler has returned: net/http sends the header nobody sent.
Finished(r) == ImplicitHeader(r, "server")
=============================================================================
