------------------------------ MODULE HttpClient ------------------------------
(***************************************************************************)
(* persista.http.httpx: send_request and its wrappers, which retry a       *)
(* request until it succeeds, fails for good or has used up its retries,   *)
(* and HttpClient, which looks a request up in a Cache first and stores    *)
(* what it got.  Several threads (or tasks, in the async twins) share one  *)
(* httpx client and one cache.                                             *)
(*                                                                         *)
(* External: the server and the network, which answer an attempt in any    *)
(* way at all, and the cache, of which only the contract is used (TTLMap): *)
(* a stored response may be gone at the next lookup.                       *)
(***************************************************************************)
EXTENDS Integers

CONSTANTS Threads, Urls, Requests,
          NoHeader,  \* no Retry-After header, or one float() does not accept
          Inf, NaN   \* the ones it accepts that are no numbers of seconds

ASSUME HeadersAssumption ==
    /\ \A h \in {NoHeader, Inf, NaN} : h \notin Int
    /\ Inf # NaN /\ NoHeader \notin {Inf, NaN}

\* What an attempt may end with.  A response, with what its Retry-After header
\* says, is a success (2xx), an error (any other status), or has a status that is
\* listed in retry_status_codes: an error ("retryable") or a 2xx ("accepted").
\* No response: a TransportError, or another exception of httpx ("other":
\* DecodingError, TooManyRedirects, InvalidURL...).
Outcome == [kind : {"success", "error", "retryable", "accepted"},
            after : {NoHeader, Inf, NaN} \cup Int]
           \cup [kind : {"transport", "other"}, after : {NoHeader}]

CONSTANT Outcomes  \* the ones the network and the server come up with

NoOutcome == [kind |-> "none", after |-> NoHeader]

\* One call: through HttpClient, or straight to send_request with the caller's
\* httpx client or without one.  "cached": HttpClient has a cache, and the
\* method is one of its cacheable_methods.
Request == [url : Urls, cached : BOOLEAN, own_client : BOOLEAN, is_async : BOOLEAN,
            max_retries : Nat]

ASSUME RequestsAssumption ==
    Requests \subseteq {r \in Request : r.cached => ~r.own_client}
ASSUME OutcomesAssumption == Outcomes \subseteq Outcome

VARIABLES cached,       \* the urls whose response is in the cache
          shared_open,  \* the httpx client the callers share is open
          pc, call, answer,
          attempt,      \* attempt[t]: the retries counted so far
          sent,         \* sent[t]: the times t's request was sent
          last,         \* last[t]: what the last attempt ended with
          delay,        \* delay[t]: the seconds t sleeps before the next one
          own           \* own[t]: t's own client is open

loop == <<attempt, delay>>
vars == <<cached, shared_open, pc, call, answer, loop, sent, last, own>>

NoCall == [url |-> CHOOSE u \in Urls : TRUE, cached |-> FALSE, own_client |-> FALSE,
           is_async |-> FALSE, max_retries |-> 0]

NoAnswer    == [kind |-> "none"]
Response    == [kind |-> "response"]
Raises(e)   == [kind |-> e]

Init ==
    /\ cached = {}
    /\ shared_open = TRUE
    /\ pc = [t \in Threads |-> "idle"]
    /\ call = [t \in Threads |-> NoCall]
    /\ answer = [t \in Threads |-> Raises("nothing")]
    /\ attempt = [t \in Threads |-> 0]
    /\ sent = [t \in Threads |-> 0]
    /\ last = [t \in Threads |-> NoOutcome]
    /\ delay = [t \in Threads |-> 0]
    /\ own = [t \in Threads |-> FALSE]

-----------------------------------------------------------------------------
Begin(t) ==
    /\ pc[t] = "idle"
    /\ \E r \in Requests :
        /\ call' = [call EXCEPT ![t] = r]
        /\ pc' = [pc EXCEPT ![t] = IF r.cached THEN "lookup" ELSE "open"]
    /\ answer' = [answer EXCEPT ![t] = NoAnswer]
    /\ sent' = [sent EXCEPT ![t] = 0]
    /\ last' = [last EXCEPT ![t] = NoOutcome]
    /\ UNCHANGED <<cached, shared_open, loop, own>>

\* Mutant of End: the caller is left without an answer.
EndSilent(t, a) == pc' = [pc EXCEPT ![t] = "idle"] /\ UNCHANGED <<answer, call, loop, sent, last>>

End(t, a) ==
    /\ pc' = [pc EXCEPT ![t] = "idle"]
    /\ answer' = [answer EXCEPT ![t] = a]
    /\ attempt' = [attempt EXCEPT ![t] = 0]
    /\ delay' = [delay EXCEPT ![t] = 0]
    /\ UNCHANGED <<call, sent, last>>

GoTo(t, phase) == pc' = [pc EXCEPT ![t] = phase] /\ UNCHANGED <<call, answer, sent, last>>

\* HttpClient.request: a hit is answered without sending anything.
Lookup(t) ==
    /\ pc[t] = "lookup"
    /\ IF call[t].url \in cached
       THEN End(t, Response)
       ELSE GoTo(t, "open") /\ UNCHANGED loop
    /\ UNCHANGED <<cached, shared_open, own>>

\* send_request: a client of its own unless it is given one.
Open(t) ==
    /\ pc[t] = "open"
    /\ own' = [own EXCEPT ![t] = call[t].own_client]
    /\ GoTo(t, "send")
    /\ UNCHANGED <<cached, shared_open, loop>>

\* Bound: sent counts up to one more than a call may use.
MaxSent(r) == r.max_retries + 2

\* active_client.request(...)
Send(t) ==
    /\ pc[t] = "send"
    /\ sent' = [sent EXCEPT ![t] = IF @ < MaxSent(call[t]) THEN @ + 1 ELSE @]
    /\ pc' = [pc EXCEPT ![t] = "wait"]
    /\ UNCHANGED <<cached, shared_open, call, answer, loop, last, own>>

\* The attempt ends: with a response, an error of the network, or a timeout.
Deliver(t) ==
    /\ pc[t] = "wait"
    /\ \E o \in Outcomes : last' = [last EXCEPT ![t] = o]
    /\ pc' = [pc EXCEPT ![t] = "received"]
    /\ UNCHANGED <<cached, shared_open, call, answer, loop, sent, own>>

-----------------------------------------------------------------------------
\* Mutant of Leave: whichever client was used is closed.
LeaveClosed(t) == own' = [own EXCEPT ![t] = FALSE] /\ shared_open' = call[t].own_client

\* Leaving send_request, by return or by exception: finally closes the client
\* it has opened.
Leave(t) == own' = [own EXCEPT ![t] = FALSE] /\ UNCHANGED shared_open

\* _get_retry_delay, after the retry has been counted.
RetryDelay(t, n) == IF last[t].after # NoHeader THEN last[t].after ELSE 2^(n - 1)

\* time.sleep() refuses a negative delay or NaN (ValueError) and an infinite one
\* (OverflowError).  asyncio.sleep() takes a negative delay for none and sleeps
\* for ever on an infinite one; Python 3.13 refuses NaN, and 3.11 goes on.
Refuses(t, d) == d = NaN \/ (~call[t].is_async /\ (d = Inf \/ (d \in Int /\ d < 0)))
Sleeps(t, d)  == d \in Nat \/ call[t].is_async

SleepError(d) == Raises(IF d = Inf THEN "OverflowError" ELSE "ValueError")

\* A status of retry_status_codes with retries left.
RetryStatus(t) ==
    LET n == attempt[t] + 1
        d == RetryDelay(t, n)
    IN
    /\ pc[t] = "received" /\ last[t].kind \in {"retryable", "accepted"}
    /\ attempt[t] < call[t].max_retries
    /\ \/ /\ Refuses(t, d)
          /\ End(t, SleepError(d))
          /\ Leave(t)
       \/ /\ Sleeps(t, d)
          /\ attempt' = [attempt EXCEPT ![t] = n]
          /\ delay' = [delay EXCEPT ![t] = d]
          /\ GoTo(t, "sleep")
          /\ UNCHANGED <<shared_open, own>>
    /\ UNCHANGED cached

\* Mutant of RetryTransport: the retry is counted before the delay is computed.
RetryCounted(t) ==
    /\ pc[t] = "received" /\ last[t].kind = "transport"
    /\ attempt[t] < call[t].max_retries
    /\ attempt' = [attempt EXCEPT ![t] = @ + 1]
    /\ delay' = [delay EXCEPT ![t] = 2^attempt'[t]]
    /\ GoTo(t, "sleep")
    /\ UNCHANGED <<cached, shared_open, own>>

\* Mutant of RetryTransport: only responses count as attempts.
RetryUncounted(t) ==
    /\ pc[t] = "received" /\ last[t].kind = "transport"
    /\ attempt[t] < call[t].max_retries
    /\ delay' = [delay EXCEPT ![t] = 2^attempt[t]]
    /\ GoTo(t, "sleep")
    /\ UNCHANGED <<cached, shared_open, own, attempt>>

\* except httpx.TransportError
RetryTransport(t) ==
    /\ pc[t] = "received" /\ last[t].kind = "transport"
    /\ attempt[t] < call[t].max_retries
    /\ delay' = [delay EXCEPT ![t] = 2^attempt[t]]
    /\ attempt' = [attempt EXCEPT ![t] = @ + 1]
    /\ GoTo(t, "sleep")
    /\ UNCHANGED <<cached, shared_open, own>>

\* Mutant of GiveUp: a retryable status is an error like another.
GiveUpEarly(t) ==
    /\ pc[t] = "received"
    /\ \/ /\ last[t].kind = "transport" /\ attempt[t] >= call[t].max_retries
          /\ End(t, Raises("TransportError"))
       \/ /\ last[t].kind \in {"error", "retryable"}
          /\ End(t, Raises("HTTPStatusError"))
    /\ Leave(t)
    /\ UNCHANGED cached

\* The exception of the last attempt, which is retried if it is a TransportError
\* only, or the one of raise_for_status().
GiveUp(t) ==
    /\ pc[t] = "received"
    /\ \/ /\ last[t].kind = "transport" /\ attempt[t] >= call[t].max_retries
          /\ End(t, Raises("TransportError"))
       \/ /\ \/ last[t].kind = "error"
             \/ last[t].kind = "retryable" /\ attempt[t] >= call[t].max_retries
          /\ End(t, Raises("HTTPStatusError"))
       \/ last[t].kind = "other" /\ End(t, Raises("RequestError"))
    /\ Leave(t)
    /\ UNCHANGED cached

\* raise_for_status() returns on any 2xx, also on one that is listed in
\* retry_status_codes and has no retry left.
Succeed(t) ==
    /\ pc[t] = "received"
    /\ \/ last[t].kind = "success"
       \/ last[t].kind = "accepted" /\ attempt[t] >= call[t].max_retries
    /\ IF call[t].cached
       THEN GoTo(t, "store") /\ UNCHANGED loop
       ELSE End(t, Response)
    /\ Leave(t)
    /\ UNCHANGED cached

\* The sleep is over: an infinite one never is.  Of the last attempt nothing
\* but its count is used any more.
Wake(t) ==
    /\ pc[t] = "sleep" /\ delay[t] # Inf
    /\ pc' = [pc EXCEPT ![t] = "send"]
    /\ last' = [last EXCEPT ![t] = NoOutcome]
    /\ delay' = [delay EXCEPT ![t] = 0]
    /\ UNCHANGED <<cached, shared_open, call, answer, attempt, sent, own>>

\* cache.set(key, _response_to_entry(response))
Store(t) ==
    /\ pc[t] = "store"
    /\ cached' = cached \cup {call[t].url}
    /\ End(t, Response)
    /\ UNCHANGED <<shared_open, own>>

\* The response of u expires or is evicted.
Forget(u) ==
    /\ u \in cached
    /\ cached' = cached \ {u}
    /\ UNCHANGED <<shared_open, pc, call, answer, loop, sent, last, own>>

\* The steps of the code: Deliver is the network's.
Proceed(t) ==
    \/ Lookup(t) \/ Open(t) \/ Send(t)
    \/ RetryStatus(t) \/ RetryTransport(t) \/ GiveUp(t) \/ Succeed(t)
    \/ Wake(t) \/ Store(t)

Step(t) == Proceed(t) \/ Deliver(t)

Next ==
    \/ \E t \in Threads : Begin(t) \/ Step(t)
    \/ \E u \in Urls : Forget(u)

Spec == Init /\ [][Next]_vars

\* A thread goes on with its call.  Nothing makes a request end: the timeouts of
\* httpx bound a connect and each read, and a client may be given none.
FairSpec == Spec /\ \A t \in Threads : WF_vars(Proceed(t))
-----------------------------------------------------------------------------
\* The state has its types.
TypeOK ==
    /\ cached \subseteq Urls
    /\ shared_open \in BOOLEAN
    /\ pc \in [Threads -> {"idle", "lookup", "open", "send", "wait", "received",
                          "sleep", "store"}]
    /\ call \in [Threads -> Requests \cup {NoCall}]
    /\ \A t \in Threads : answer[t] = NoAnswer <=> pc[t] # "idle"
    /\ attempt \in [Threads -> Nat] /\ sent \in [Threads -> Nat]
    /\ last \in [Threads -> Outcome \cup {NoOutcome}]
    /\ delay \in [Threads -> {Inf, NaN} \cup Int]
    /\ own \in [Threads -> BOOLEAN]

\* Successive delays are 1, 2, 4, ... seconds however responses and transport
\* errors alternate, unless the last response asked for another delay: the two
\* branches count and compute in opposite orders (method.py:425 and 440).
BackoffDoubles ==
    \A t \in Threads :
        pc[t] = "sleep" /\ last[t].after = NoHeader => delay[t] = 2^(sent[t] - 1)

\* A request is sent at most max_retries + 1 times.  A call that raises has
\* either met a failure that is not retried, or has sent it that many times; a
\* call that answers has got a success or has sent nothing, unless the caller
\* listed a 2xx status and got it that many times.
RetryBudget ==
    \A t \in Threads :
        /\ sent[t] <= call[t].max_retries + 1
        /\ answer[t] = Raises("TransportError") => sent[t] = call[t].max_retries + 1
        /\ answer[t] = Raises("HTTPStatusError") =>
            last[t].kind = "error" \/ sent[t] = call[t].max_retries + 1
        /\ answer[t] = Response =>
            \/ sent[t] = 0 \/ last[t].kind = "success"
            \/ last[t].kind = "accepted" /\ sent[t] = call[t].max_retries + 1

\* A client send_request was given stays open for its other users, and one it
\* opened itself is open exactly while it runs, whatever ends the call.
ClientsClosed ==
    /\ shared_open
    /\ \A t \in Threads : own[t] <=>
        call[t].own_client /\ pc[t] \in {"send", "wait", "received", "sleep"}

\* Whatever the server answers, and in whatever order failures come, a call whose
\* requests all end ends itself, or is asleep on an infinite Retry-After.  That a
\* request ends is the server's and the timeouts' affair, not this code's.
CallsEnd ==
    \A t \in Threads :
        (pc[t] = "wait" ~> pc[t] # "wait") =>
            (pc[t] # "idle" ~> pc[t] = "idle" \/ (pc[t] = "sleep" /\ delay[t] = Inf))

\* After its delay comes the next attempt: _get_retry_delay returns "The delay in
\* seconds before the next attempt" (method.py:923).
DelaysEnd == \A t \in Threads : pc[t] = "sleep" ~> pc[t] = "send"
=============================================================================
