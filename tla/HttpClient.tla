----------------------------- MODULE HttpClient ------------------------------
(***************************************************************************)
(* The HTTP client (src/relayer/rpc/http-client.ts): one GET with retries. *)
(* A failed try is followed by a wait and another try; the wait is what    *)
(* the server's Retry-After asks for, or a backoff.                        *)
(*                                                                         *)
(* Modules that make requests EXTEND this one: they add the moment Get is  *)
(* called and what becomes of the outcome.  Delays are in milliseconds.    *)
(***************************************************************************)
EXTENDS Integers

CONSTANTS
  Request,    \* calls of get
  Body,       \* what a good answer may carry
  RetryAfter, \* Retry-After headers of the server, in seconds; may hold None, NaN
  None,       \* no header, no answer
  NaN         \* parseInt of a header that is no number (an HTTP date)

ASSUME HeadersAssumption == RetryAfter \subseteq Nat \cup {None, NaN}

VARIABLE http \* per request: state, settings of the client, tries, wait, answer

\* Answers of the server to one try: a good one, an error status with a JSON body,
\* no answer (connection, timeout), or a body that is cut short or not the JSON
\* expected.
Answers == [kind : {"ok"}, body : Body]
             \cup [kind : {"status"}, retryAfter : RetryAfter]
             \cup [kind : {"connection", "malformed"}]

NotCalled == [state |-> "idle", settings |-> None, retries |-> 0, wait |-> 0,
              answer |-> None]
Ended(outcome) == [NotCalled EXCEPT !.state = outcome]

-----------------------------------------------------------------------------
\* `options?.retries && ...`: zero and undefined leave the default.  (With a
\* negative number of retries get would only throw; it is not an option here.)
Settings(o) ==
  [retries      |-> IF o.retries      \in {0, None} THEN 0     ELSE o.retries,
   initialDelay |-> IF o.initialDelay \in {0, None} THEN 1000  ELSE o.initialDelay,
   maxDelay     |-> IF o.maxDelay     \in {0, None} THEN 60000 ELSE o.maxDelay]

\* The exponent is the number of retries allowed, not of those made.
Backoff(s) ==
  LET delay == s.initialDelay * 2 ^ s.retries
  IN  IF delay < s.maxDelay THEN delay ELSE s.maxDelay

\* getRetryAfter throws unless the value is at most the greatest delay.
WaitsTooLong(h, s) == h # None /\ (h = NaN \/ h * 1000 > s.maxDelay)

\* `if (retryAfter)`: a header of 0 counts as none.
WaitFor(h, s) == IF h \in {None, 0} THEN Backoff(s) ELSE h * 1000

Header(a) == IF a.kind = "status" THEN a.retryAfter ELSE None

\* Mutant: one try too many.
RetriedOnceMore(r, s) ==
  /\ http[r].answer.kind \in {"status", "connection"}
  /\ http[r].retries <= s.retries
  /\ ~WaitsTooLong(Header(http[r].answer), s)

\* The catch clause of executeWithRetry: only an HttpClientError is retried.  A
\* malformed body throws another error, from response.json().
Retried(r, s) ==
  LET a == http[r].answer
  IN  /\ a.kind \in {"status", "connection"}
      /\ http[r].retries < s.retries
      /\ ~WaitsTooLong(Header(a), s)

-----------------------------------------------------------------------------
\* get, with the settings of the client's constructor.
Get(r, s) ==
  /\ http[r].state = "idle"
  /\ http' = [http EXCEPT ![r].settings = s, ![r].state = "sent"]

\* The server answers, or the connection fails, or the timeout goes off.
Serve(r, a) ==
  /\ http[r].state = "sent"
  /\ http' = [http EXCEPT ![r].state = "answered", ![r].answer = a]

Succeeds(r) ==
  /\ http[r].state = "answered" /\ http[r].answer.kind = "ok"
  /\ http' = [http EXCEPT ![r] = Ended("done")]

Retries(r) ==
  LET s == http[r].settings
  IN  /\ http[r].state = "answered" /\ Retried(r, s)
      /\ http' = [http EXCEPT ![r].state = "waiting", ![r].answer = None,
                              ![r].wait = WaitFor(Header(http[r].answer), s)]

Fails(r) ==
  /\ http[r].state = "answered" /\ http[r].answer.kind # "ok"
  /\ ~Retried(r, http[r].settings)
  /\ http' = [http EXCEPT ![r] = Ended("failed")]

\* The timer goes off: retries++ and the next try.
TriesAgain(r) ==
  /\ http[r].state = "waiting"
  /\ http' = [http EXCEPT ![r].state = "sent", ![r].retries = @ + 1]

=============================================================================
