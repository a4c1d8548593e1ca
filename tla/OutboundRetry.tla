--------------------------- MODULE OutboundRetry ---------------------------
(***************************************************************************)
(* The retry decision of the outbound worker: which provider errors are    *)
(* worth another attempt and how many attempts each category is given.     *)
(*                                                                         *)
(* An error is a record: `axios` tells an HTTP client error from any other *)
(* exception, `status` is the HTTP status (0: the provider never           *)
(* answered), `body` is what the answer's text says, as far as the code    *)
(* looks at it, and `code` tells a socket error.                           *)
(***************************************************************************)
EXTENDS Naturals

Error == [axios  : BOOLEAN,
          status : {0, 400, 401, 403, 404, 405, 408, 409, 422, 425, 429,
                    500, 502, 503, 504},
          body   : {"connection", "invalid", "other"},
          code   : {"reset", "other"}]

\* Any exception that is not an HTTP client error: a missing setting, a
\* database or Redis failure after the provider call.
Internal == [axios |-> FALSE, status |-> 0, body |-> "other", code |-> "other"]

Transient(e) ==
  \/ e.body = "connection"
  \/ e.code = "reset"
  \/ e.status \in {408, 425, 502, 503, 504}

Unrecoverable(e) ==
  \/ e.status \in {401, 403, 404, 405}
  \/ e.status \in {400, 422} /\ e.body = "invalid"

Decision(retryable, max) == [retryable |-> retryable, max |-> max]

\* The order of the tests is the code's: a transient connection error wins
\* over a status that would otherwise be final.
RetryDecision(e, maxAttempts) ==
  CASE ~e.axios         -> Decision(TRUE, 2)
    [] OTHER            ->
       IF Transient(e)          THEN Decision(TRUE, maxAttempts)
       ELSE IF Unrecoverable(e) THEN Decision(FALSE, 1)
       ELSE IF e.status = 429   THEN Decision(TRUE, 5)
       ELSE IF e.status >= 500  THEN Decision(TRUE, 4)
       ELSE IF e.status = 0     THEN Decision(TRUE, 4)
       ELSE Decision(TRUE, 3)

AllowedAttempts(d, configured) ==
  IF d.max < configured THEN d.max ELSE configured

\* Seeded fault: the attempt that has just failed is not counted.
CanRetryOnceMore(attempt, d, configured) ==
  /\ d.retryable
  /\ attempt <= AllowedAttempts(d, configured)

CanRetry(attempt, d, configured) ==
  /\ d.retryable
  /\ attempt < AllowedAttempts(d, configured)

\* The provider may have accepted the message although the worker sees an
\* error: it timed out, or answered with a server or gateway error.
AcceptanceUnknown(e) == e.axios /\ (e.status = 0 \/ e.status = 408 \/ e.status >= 500)

\* The worker itself sends again, within the same attempt, through the
\* generic media endpoint: a sticker after any error at all, an audio after a
\* rejection of its format.
FallsBack(kind, e) ==
  \/ kind = "sticker"
  \/ kind = "audio" /\ e.axios /\ e.status \in {400, 404, 405, 422}
=============================================================================
