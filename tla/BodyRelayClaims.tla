--------------------------- MODULE BodyRelayClaims ---------------------------
(***************************************************************************)
(* What the comments say of a logged body without the exceptions that      *)
(* BodyRelay's properties carry, refuted by a run.                         *)
(***************************************************************************)
EXTENDS BodyRelay

\* record.go:268 "readAndRestoreBody reads at most limit bytes for logging and
\* stitches the rest back unread, so a large payload is never fully buffered
\* here and the caller still receives every byte": every byte that arrives
\* reaches the reader, if the peer goes on as long as it is answered.  io.ReadAll
\* waits for the limit or the end of the body, so a peer that waits for an answer
\* to its first bytes and the layer wait for each other.
CallerReceives ==
    \A n \in 1..MaxSent : (sent = n) ~> (Len(got) >= n)
=============================================================================
