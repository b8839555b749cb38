----------------------------- MODULE MCHttpClient -----------------------------
(***************************************************************************)
(* A small instance of HttpClient: cached GETs, uncached requests through  *)
(* the shared client, and requests with a client of their own.             *)
(***************************************************************************)
EXTENDS HttpClient

Get  == [NoCall EXCEPT !.cached = TRUE]
Post == [NoCall EXCEPT !.max_retries = 1]
Own  == [NoCall EXCEPT !.own_client = TRUE, !.max_retries = 1]

MCRequests == {Get, Post, Own, [Own EXCEPT !.is_async = TRUE, !.max_retries = 2]}

\* Every kind of outcome, and every kind of header on a status that is retried.
MCOutcomes ==
    [kind : {"success", "error", "accepted", "transport", "other"}, after : {NoHeader}]
    \cup [kind : {"retryable"}, after : {NoHeader, 5, -1, Inf, NaN}]
=============================================================================
