------------------------------ MODULE ApiRetry ------------------------------
(***************************************************************************)
(* The client of the mail API (internal/api/do.go, errors.go): a request   *)
(* is attempted up to maxAttempts times, only where its method can be sent *)
(* twice and the failure may pass.  An attempt may be carried out although *)
(* its answer is lost, cut short, or a gateway's.  A call is the requests  *)
(* one method of Client makes; calls share nothing but the account, where  *)
(* what a DELETE removes may also be removed by another client.            *)
(***************************************************************************)
EXTENDS Naturals

CONSTANTS
  Call,
  Method,       \* the HTTP method of each call
  MaxAttempts   \* maxAttempts

ASSUME ApiRetryAssumption ==
  /\ Method \in [Call -> {"GET", "HEAD", "PUT", "DELETE", "OPTIONS",
                          "POST", "PATCH"}]
  /\ MaxAttempts \in Nat \ {0}

VARIABLES
  at,         \* where each call is
  attempt,    \* the attempts it has made, the current one included
  last,       \* what the last attempt came to
  cancelled,  \* whether its context is cancelled
  hits,       \* the attempts the API carried out
  present     \* what a DELETE removes is there

vars == <<at, attempt, last, cancelled, hits, present>>

\* What an attempt comes to: a 2xx answer read, or whose body could not be read;
\* a transient error, 429 or 502 to 504; any other error; or no answer at all.
Outcome == {"ok", "cut", "transient", "refused", "none"}

TypeOK ==
  /\ at \in [Call -> {"idle", "request", "decide", "backoff", "ok", "error"}]
  /\ attempt \in [Call -> 0 .. MaxAttempts]
  /\ last \in [Call -> Outcome]
  /\ cancelled \in [Call -> BOOLEAN] /\ present \in [Call -> BOOLEAN]
  /\ hits \in [Call -> Nat]

Init ==
  /\ at = [c \in Call |-> "idle"]
  /\ attempt = [c \in Call |-> 0]
  /\ last = [c \in Call |-> "none"]
  /\ cancelled = [c \in Call |-> FALSE]
  /\ hits = [c \in Call |-> 0]
  /\ present = [c \in Call |-> TRUE]

-----------------------------------------------------------------------------

\* The payload is encoded once, for every attempt.
Start(c) ==
  /\ at[c] = "idle"
  /\ at' = [at EXCEPT ![c] = "request"]
  /\ attempt' = [attempt EXCEPT ![c] = 1]
  /\ UNCHANGED <<last, cancelled, hits, present>>

\* What the API can answer a request it carried out, and one it did not.
Answers(carriedOut) ==
  IF carriedOut THEN {"ok", "cut", "transient", "none"}
                ELSE {"transient", "refused", "none"}

\* One request and its answer; without one after 30 seconds, none.  A DELETE of
\* what is gone is answered 404.
Attempt(c) ==
  /\ at[c] = "request"
  /\ \E carriedOut \in BOOLEAN :
       /\ carriedOut => Method[c] # "DELETE" \/ present[c]
       /\ last' \in {[last EXCEPT ![c] = o] : o \in Answers(carriedOut)}
       /\ hits' = [hits EXCEPT ![c] = IF carriedOut THEN @ + 1 ELSE @]
       /\ present' = [present EXCEPT ![c] =
                        @ /\ ~(carriedOut /\ Method[c] = "DELETE")]
  /\ at' = [at EXCEPT ![c] = "decide"]
  /\ UNCHANGED <<attempt, cancelled>>

\* Bug: every method is retried.
AnyMethod(m) == TRUE

IsIdempotent(m) == m \in {"GET", "HEAD", "PUT", "DELETE", "OPTIONS"}

\* A status of 0, no answer, or one that isRetryableStatus.
IsRetryable(outcome) == outcome \in {"none", "transient"}

AnotherLeft(c) == attempt[c] < MaxAttempts

Retries(c) ==
  /\ IsIdempotent(Method[c]) /\ IsRetryable(last[c])
  /\ AnotherLeft(c) /\ ~cancelled[c]

\* doRaw returns the answer; do may still not be able to decode it.
Answered(c) ==
  /\ at[c] = "decide" /\ last[c] = "ok"
  /\ \E o \in {"ok", "error"} : at' = [at EXCEPT ![c] = o]
  /\ UNCHANGED <<attempt, last, cancelled, hits, present>>

\* Bug: the last error is lost, and the call returns none.
ForgetsTheError(c) ==
  /\ at[c] = "decide" /\ last[c] # "ok" /\ ~Retries(c)
  /\ at' = [at EXCEPT ![c] = "ok"]
  /\ UNCHANGED <<attempt, last, cancelled, hits, present>>

GivesUp(c) ==
  /\ at[c] = "decide" /\ last[c] # "ok" /\ ~Retries(c)
  /\ at' = [at EXCEPT ![c] = "error"]
  /\ UNCHANGED <<attempt, last, cancelled, hits, present>>

TriesAgain(c) ==
  /\ at[c] = "decide" /\ last[c] # "ok" /\ Retries(c)
  /\ at' = [at EXCEPT ![c] = "backoff"]
  /\ UNCHANGED <<attempt, last, cancelled, hits, present>>

\* Bug: the attempts are not counted.
SleepUncounted(c) ==
  /\ at[c] = "backoff"
  /\ at' = [at EXCEPT ![c] = "request"]
  /\ UNCHANGED <<attempt, last, cancelled, hits, present>>

\* The back-off ends by its timer, of at most maxBackoff and half as much again,
\* or by the context.
Sleep(c) ==
  /\ at[c] = "backoff"
  /\ \/ /\ at' = [at EXCEPT ![c] = "request"]
        /\ attempt' = [attempt EXCEPT ![c] = @ + 1]
     \/ /\ cancelled[c]
        /\ at' = [at EXCEPT ![c] = "error"]
        /\ UNCHANGED attempt
  /\ UNCHANGED <<last, cancelled, hits, present>>

Step(c) ==
  Attempt(c) \/ Answered(c) \/ GivesUp(c) \/ TriesAgain(c) \/ Sleep(c)

Returned(c) == at[c] \in {"ok", "error"}

\* The caller's context ends: the bridge shuts down.
Cancel(c) ==
  /\ at[c] # "idle" /\ ~Returned(c) /\ ~cancelled[c]
  /\ cancelled' = [cancelled EXCEPT ![c] = TRUE]
  /\ UNCHANGED <<at, attempt, last, hits, present>>

\* Another client of the account removes what a DELETE is about.
RemovedElsewhere(c) ==
  /\ Method[c] = "DELETE" /\ present[c]
  /\ present' = [present EXCEPT ![c] = FALSE]
  /\ UNCHANGED <<at, attempt, last, cancelled, hits>>

Next ==
  \E c \in Call : Start(c) \/ Step(c) \/ Cancel(c) \/ RemovedElsewhere(c)

Spec == Init /\ [][Next]_vars

\* The HTTP client gives up on an answer after 30 seconds, a back-off is timed,
\* and nothing else is waited for.
FairSpec == Spec /\ \A c \in Call : WF_vars(Step(c))

-----------------------------------------------------------------------------
(* Properties.                                                             *)

\* A request that is not idempotent is carried out at most once by a call,
\* whatever becomes of its answers: "retrying email/send would deliver the
\* message twice" (errors.go:77-88).
OnceUnlessIdempotent ==
  \A c \in Call : ~(Method[c] \in {"GET", "HEAD", "PUT", "DELETE", "OPTIONS"})
                    => hits[c] <= 1

\* The call is what its callers take it for: carried out at most once, as far as
\* the account shows, and carried out where no error is returned (do.go:36-96).
AsOneCall ==
  INSTANCE ApiCall WITH
    state <- [c \in Call |-> IF at[c] \in {"idle", "ok", "error"} THEN at[c]
                             ELSE "pending"],
    effect <- [c \in Call |-> hits[c] > 0]

Implements == AsOneCall!Spec

\* Every call returns: the attempts are bounded, and so is the wait for each and
\* between them (do.go:74-96, 149-167), whatever the account answers.
EveryCallReturns == \A c \in Call : at[c] = "request" ~> Returned(c)

-----------------------------------------------------------------------------
(* What a comment says, and the code does not do.                          *)

\* "isIdempotent reports whether a method can safely be sent twice"
\* (errors.go:76): the answer to a request sent twice is that to the request.
ErrorMeansUndone ==
  \A c \in Call : at[c] = "error" /\ last[c] = "refused" => hits[c] = 0

=============================================================================
