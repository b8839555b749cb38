--------------------------- MODULE HttpClient_proofs ---------------------------
(***************************************************************************)
(* Theorems about HttpClient for every set of threads, urls, requests and  *)
(* outcomes, hence for every budget of retries.                            *)
(*                                                                         *)
(* The argument: attempt counts the retries and sent the requests, and the *)
(* two agree wherever a call stands in the loop of send_request            *)
(* (BudgetOf), although a response and a transport error count and compute *)
(* the delay in opposite orders.                                           *)
(***************************************************************************)
EXTENDS HttpClient, TLAPS

(* What a caller has been given.                                           *)
Answers == {NoAnswer, Response, Raises("nothing"), Raises("ValueError"),
            Raises("OverflowError"), Raises("RequestError"),
            Raises("TransportError"), Raises("HTTPStatusError")}

AnswerInv == answer \in [Threads -> Answers]

(* What raise_for_status() lets through: a success, or a 2xx status that    *)
(* was to be retried and has been sent max_retries + 1 times.              *)
Succeeded(t) ==
    \/ last[t].kind = "success"
    \/ last[t].kind = "accepted" /\ sent[t] = call[t].max_retries + 1

(* The retries counted, the requests sent and the delay, by phase.         *)
BudgetOf(t) ==
    LET r == call[t] IN
    /\ pc[t] \in {"lookup", "store"} => r.cached
    /\ pc[t] # "idle" => r \in Requests
    /\ pc[t] \in {"idle", "lookup", "open"} => attempt[t] = 0
    /\ pc[t] \in {"lookup", "open"} => sent[t] = 0
    /\ pc[t] \in {"send", "sleep"} => sent[t] = attempt[t] /\ attempt[t] <= r.max_retries
    /\ pc[t] \in {"wait", "received"} =>
        sent[t] = attempt[t] + 1 /\ attempt[t] <= r.max_retries
    /\ pc[t] = "store" => Succeeded(t)
    /\ pc[t] = "sleep" /\ last[t].after = NoHeader => delay[t] = 2^(sent[t] - 1)

BudgetInv == \A t \in Threads : BudgetOf(t)

Inv == TypeOK /\ AnswerInv /\ BudgetInv /\ RetryBudget /\ ClientsClosed

-----------------------------------------------------------------------------
\* A call that a thread is at is one of the requests or none, and its budget
\* is a number either way.
LEMMA CallTypes ==
    ASSUME TypeOK, NEW t \in Threads
    PROVE  /\ call[t].max_retries \in Nat
           /\ call[t].own_client \in BOOLEAN
           /\ call[t].cached \in BOOLEAN
           /\ call[t] \in Requests => call[t].url \in Urls
           /\ call[t].cached => ~call[t].own_client
  <1>1. call[t] \in Requests \cup {NoCall}
    BY DEF TypeOK
  <1>2. CASE call[t] \in Requests
    BY <1>2, RequestsAssumption DEF Request
  <1>3. CASE call[t] = NoCall
    <2>1. /\ NoCall.max_retries = 0 /\ NoCall.own_client = FALSE /\ NoCall.cached = FALSE
      BY DEF NoCall
    <2>2. call[t] \in Requests => call[t].url \in Urls
      BY RequestsAssumption DEF Request
    <2>3. call[t].max_retries \in Nat /\ call[t].own_client = FALSE /\ call[t].cached = FALSE
      BY <1>3, <2>1
    <2>4. QED
      BY <2>2, <2>3
  <1>4. QED
    BY <1>1, <1>2, <1>3

(* The errors of which RetryBudget says nothing.                           *)
Others == {Raises("ValueError"), Raises("OverflowError"), Raises("RequestError")}

\* The answers a caller can tell apart.
LEMMA AnswersDiffer ==
    /\ NoAnswer \notin {Response, Raises("nothing")} \cup Others
    /\ NoAnswer \notin {Raises("TransportError"), Raises("HTTPStatusError")}
    /\ Response \notin {Raises("nothing")} \cup Others
    /\ Response \notin {Raises("TransportError"), Raises("HTTPStatusError")}
    /\ Raises("TransportError") # Raises("HTTPStatusError")
    /\ Raises("TransportError") \notin {Raises("nothing")} \cup Others
    /\ Raises("HTTPStatusError") \notin {Raises("nothing")} \cup Others
  <1>1. /\ NoAnswer.kind = "none" /\ Response.kind = "response"
        /\ \A e : Raises(e).kind = e
    BY DEF NoAnswer, Response, Raises
  <1>2. QED
    BY <1>1 DEF Others

LEMMA InitCorrect == Init => Inv
  <1> SUFFICES ASSUME Init PROVE Inv
    OBVIOUS
  <1>1. TypeOK
    BY AnswersDiffer DEF Init, TypeOK
  <1>2. AnswerInv
    BY DEF Init, AnswerInv, Answers
  <1>3. BudgetInv
    BY DEF Init, BudgetInv, BudgetOf
  <1>4. RetryBudget
    <2> SUFFICES ASSUME NEW t \in Threads
                 PROVE  /\ sent[t] <= call[t].max_retries + 1
                        /\ answer[t] \notin {Raises("TransportError"), Raises("HTTPStatusError"),
                                             Response}
      BY DEF RetryBudget
    <2>1. sent[t] = 0 /\ call[t].max_retries = 0 /\ answer[t] = Raises("nothing")
      BY DEF Init, NoCall
    <2>2. QED
      BY <2>1, AnswersDiffer
  <1>5. ClientsClosed
    BY DEF Init, ClientsClosed
  <1>6. QED
    BY <1>1, <1>2, <1>3, <1>4, <1>5 DEF Inv

-----------------------------------------------------------------------------
Phases == {"idle", "lookup", "open", "send", "wait", "received", "sleep", "store"}

Ending == {Response, Raises("TransportError"), Raises("HTTPStatusError")} \cup Others

(* The half of TypeOK and AnswerInv that the end of a call and a change of *)
(* phase decide.                                                           *)
CallTypeOK ==
    /\ pc \in [Threads -> Phases]
    /\ call \in [Threads -> Requests \cup {NoCall}]
    /\ \A t \in Threads : answer[t] = NoAnswer <=> pc[t] # "idle"
    /\ answer \in [Threads -> Answers]
    /\ sent \in [Threads -> Nat]
    /\ last \in [Threads -> Outcome \cup {NoOutcome}]

LoopTypeOK == attempt \in [Threads -> Nat] /\ delay \in [Threads -> {Inf, NaN} \cup Int]

LEMMA TypeParts ==
    TypeOK /\ AnswerInv <=>
        /\ CallTypeOK /\ LoopTypeOK
        /\ cached \subseteq Urls /\ shared_open \in BOOLEAN /\ own \in [Threads -> BOOLEAN]
  BY DEF TypeOK, AnswerInv, CallTypeOK, LoopTypeOK, Phases

LEMMA TypePartsPrime ==
    TypeOK' /\ AnswerInv' <=>
        /\ CallTypeOK' /\ LoopTypeOK'
        /\ cached' \subseteq Urls /\ shared_open' \in BOOLEAN /\ own' \in [Threads -> BOOLEAN]
  BY DEF TypeOK, AnswerInv, CallTypeOK, LoopTypeOK, Phases

LEMMA EndTypes ==
    ASSUME CallTypeOK, LoopTypeOK, NEW t \in Threads, NEW a \in Ending, End(t, a)
    PROVE  CallTypeOK' /\ LoopTypeOK'
  <1>1. a # NoAnswer /\ a \in Answers
    BY AnswersDiffer DEF Ending, Answers, Others
  <1>2. \A u \in Threads : answer'[u] = NoAnswer <=> pc'[u] # "idle"
    BY <1>1 DEF CallTypeOK, End
  <1>3. QED
    BY <1>1, <1>2 DEF CallTypeOK, LoopTypeOK, End, Phases

LEMMA GoToTypes ==
    ASSUME CallTypeOK, NEW t \in Threads, pc[t] # "idle",
           NEW phase \in Phases \ {"idle"}, GoTo(t, phase)
    PROVE  CallTypeOK'
  BY DEF CallTypeOK, GoTo, Phases

LEMMA LeaveTypes ==
    ASSUME shared_open \in BOOLEAN, own \in [Threads -> BOOLEAN], NEW t \in Threads, Leave(t)
    PROVE  shared_open' \in BOOLEAN /\ own' \in [Threads -> BOOLEAN]
  BY DEF Leave

LEMMA LoopTypes ==
    ASSUME LoopTypeOK, UNCHANGED loop
    PROVE  LoopTypeOK'
  BY DEF LoopTypeOK, loop

LEMMA TypeCorrect ==
    ASSUME TypeOK, AnswerInv, BudgetInv, [Next]_vars
    PROVE  TypeOK' /\ AnswerInv'
  <1> DEFINE Rest == cached \subseteq Urls /\ shared_open \in BOOLEAN /\ own \in [Threads -> BOOLEAN]
  <1>0. CallTypeOK /\ LoopTypeOK /\ Rest
    BY TypeParts
  <1> SUFFICES CallTypeOK' /\ LoopTypeOK' /\ Rest'
    BY TypePartsPrime
  <1>1. ASSUME NEW t \in Threads, Begin(t)
        PROVE  CallTypeOK' /\ LoopTypeOK' /\ Rest'
    <2>1. PICK r \in Requests :
            /\ call' = [call EXCEPT ![t] = r]
            /\ pc' = [pc EXCEPT ![t] = IF r.cached THEN "lookup" ELSE "open"]
      BY <1>1 DEF Begin
    <2>2. /\ answer' = [answer EXCEPT ![t] = NoAnswer]
          /\ sent' = [sent EXCEPT ![t] = 0] /\ last' = [last EXCEPT ![t] = NoOutcome]
          /\ UNCHANGED <<cached, shared_open, loop, own>>
      BY <1>1 DEF Begin
    <2>3. CallTypeOK'
      BY <1>0, <2>1, <2>2 DEF CallTypeOK, Phases, Answers
    <2>4. QED
      BY <1>0, <2>2, <2>3, LoopTypes
  <1>2. ASSUME NEW t \in Threads, Lookup(t)
        PROVE  CallTypeOK' /\ LoopTypeOK' /\ Rest'
    <2>1. Rest'
      BY <1>0, <1>2 DEF Lookup
    <2>2. CASE call[t].url \in cached
      BY <1>0, <1>2, <2>1, <2>2, EndTypes DEF Lookup, Ending
    <2>3. CASE call[t].url \notin cached
      BY <1>0, <1>2, <2>1, <2>3, GoToTypes, LoopTypes DEF Lookup, Phases
    <2>4. QED
      BY <2>2, <2>3
  <1>3. ASSUME NEW t \in Threads, Open(t)
        PROVE  CallTypeOK' /\ LoopTypeOK' /\ Rest'
    <2>1. Rest'
      BY <1>0, <1>3, CallTypes DEF Open
    <2>2. QED
      BY <1>0, <1>3, <2>1, GoToTypes, LoopTypes DEF Open, Phases
  <1>4. ASSUME NEW t \in Threads, Send(t)
        PROVE  CallTypeOK' /\ LoopTypeOK' /\ Rest'
    <2>1. sent' \in [Threads -> Nat]
      BY <1>0, <1>4 DEF Send, CallTypeOK
    <2>2. CallTypeOK'
      BY <1>0, <1>4, <2>1 DEF Send, CallTypeOK, Phases
    <2>3. QED
      BY <1>0, <1>4, <2>2, LoopTypes DEF Send
  <1>5. ASSUME NEW t \in Threads, Deliver(t)
        PROVE  CallTypeOK' /\ LoopTypeOK' /\ Rest'
    <2>1. last' \in [Threads -> Outcome \cup {NoOutcome}]
      BY <1>0, <1>5, OutcomesAssumption DEF Deliver, CallTypeOK
    <2>2. CallTypeOK'
      BY <1>0, <1>5, <2>1 DEF Deliver, CallTypeOK, Phases
    <2>3. QED
      BY <1>0, <1>5, <2>2, LoopTypes DEF Deliver
  <1>6. ASSUME NEW t \in Threads, RetryStatus(t)
        PROVE  CallTypeOK' /\ LoopTypeOK' /\ Rest'
    <2>1. CASE End(t, SleepError(RetryDelay(t, attempt[t] + 1))) /\ Leave(t)
      <3>1. SleepError(RetryDelay(t, attempt[t] + 1)) \in Ending
        BY DEF SleepError, Ending, Others
      <3>2. QED
        BY <1>0, <1>6, <2>1, <3>1, EndTypes, LeaveTypes DEF RetryStatus
    <2>2. CASE /\ attempt' = [attempt EXCEPT ![t] = attempt[t] + 1]
               /\ delay' = [delay EXCEPT ![t] = RetryDelay(t, attempt[t] + 1)]
               /\ GoTo(t, "sleep") /\ UNCHANGED <<shared_open, own>>
      <3>1. /\ attempt[t] \in Nat
            /\ last[t].after # NoHeader => last[t].after \in {Inf, NaN} \cup Int
        BY <1>0 DEF LoopTypeOK, CallTypeOK, Outcome, NoOutcome
      <3>2. RetryDelay(t, attempt[t] + 1) \in {Inf, NaN} \cup Int
        BY <3>1 DEF RetryDelay
      <3>3. LoopTypeOK'
        BY <1>0, <2>2, <3>2 DEF LoopTypeOK
      <3>4. QED
        BY <1>0, <1>6, <2>2, <3>3, GoToTypes DEF RetryStatus, Phases
    <2>3. QED
      BY <1>6, <2>1, <2>2 DEF RetryStatus
  <1>7. ASSUME NEW t \in Threads, RetryTransport(t)
        PROVE  CallTypeOK' /\ LoopTypeOK' /\ Rest'
    <2>1. attempt[t] \in Nat /\ 2^attempt[t] \in Int
      BY <1>0 DEF LoopTypeOK
    <2>2. LoopTypeOK'
      BY <1>0, <1>7, <2>1 DEF RetryTransport, LoopTypeOK
    <2>3. QED
      BY <1>0, <1>7, <2>2, GoToTypes DEF RetryTransport, Phases
  <1>8. ASSUME NEW t \in Threads, GiveUp(t)
        PROVE  CallTypeOK' /\ LoopTypeOK' /\ Rest'
    <2>1. /\ \/ End(t, Raises("TransportError")) \/ End(t, Raises("HTTPStatusError"))
             \/ End(t, Raises("RequestError"))
          /\ Leave(t) /\ UNCHANGED cached
      BY <1>8 DEF GiveUp
    <2>2. QED
      BY <1>0, <2>1, EndTypes, LeaveTypes DEF Ending, Others
  <1>9. ASSUME NEW t \in Threads, Succeed(t)
        PROVE  CallTypeOK' /\ LoopTypeOK' /\ Rest'
    <2>1. /\ (GoTo(t, "store") /\ UNCHANGED loop) \/ End(t, Response)
          /\ Leave(t) /\ UNCHANGED cached /\ pc[t] # "idle"
      BY <1>9 DEF Succeed
    <2>2. QED
      BY <1>0, <2>1, EndTypes, GoToTypes, LoopTypes, LeaveTypes DEF Ending, Phases
  <1>10. ASSUME NEW t \in Threads, Wake(t)
         PROVE  CallTypeOK' /\ LoopTypeOK' /\ Rest'
    <2>1. last' \in [Threads -> Outcome \cup {NoOutcome}]
      BY <1>0, <1>10 DEF Wake, CallTypeOK
    <2>2. CallTypeOK'
      BY <1>0, <1>10, <2>1 DEF Wake, CallTypeOK, Phases
    <2>3. delay' \in [Threads -> {Inf, NaN} \cup Int]
      BY <1>0, <1>10 DEF Wake, LoopTypeOK
    <2>4. LoopTypeOK'
      BY <1>0, <1>10, <2>3 DEF Wake, LoopTypeOK
    <2>5. QED
      BY <1>0, <1>10, <2>2, <2>4 DEF Wake
  <1>11. ASSUME NEW t \in Threads, Store(t)
         PROVE  CallTypeOK' /\ LoopTypeOK' /\ Rest'
    <2>1. call[t].url \in Urls
      BY <1>11, CallTypes DEF Store, BudgetInv, BudgetOf
    <2>2. QED
      BY <1>0, <1>11, <2>1, EndTypes DEF Store, Ending
  <1>12. ASSUME NEW u \in Urls, Forget(u)
         PROVE  CallTypeOK' /\ LoopTypeOK' /\ Rest'
    BY <1>0, <1>12 DEF Forget, CallTypeOK, LoopTypeOK, loop
  <1>13. CASE UNCHANGED vars
    BY <1>0, <1>13 DEF vars, CallTypeOK, LoopTypeOK, loop
  <1>14. QED
    BY <1>1, <1>2, <1>3, <1>4, <1>5, <1>6, <1>7, <1>8, <1>9, <1>10, <1>11, <1>12, <1>13
       DEF Next, Step, Proceed

-----------------------------------------------------------------------------
Local(t) == <<pc[t], call[t], answer[t], attempt[t], sent[t], last[t], delay[t], own[t]>>

\* A step of t leaves the calls of the other threads alone.
LEMMA OthersKeep ==
    ASSUME TypeOK, AnswerInv, NEW t \in Threads, Begin(t) \/ Step(t),
           NEW u \in Threads, u # t
    PROVE  UNCHANGED Local(u)
  <1>1. CASE Begin(t) \/ Lookup(t) \/ Open(t) \/ Send(t) \/ Deliver(t) \/ Wake(t) \/ Store(t)
    BY <1>1 DEF Begin, Lookup, Open, Send, Deliver, Wake, Store, End, GoTo, loop,
                TypeOK, AnswerInv, Local
  <1>2. CASE RetryStatus(t) \/ RetryTransport(t)
    BY <1>2 DEF RetryStatus, RetryTransport, End, GoTo, Leave, TypeOK, AnswerInv, Local
  <1>3. CASE GiveUp(t) \/ Succeed(t)
    BY <1>3 DEF GiveUp, Succeed, End, GoTo, Leave, loop, TypeOK, AnswerInv, Local
  <1>4. QED
    BY <1>1, <1>2, <1>3 DEF Step, Proceed

\* What the end of a call, and a change of phase, leave t with.
LEMMA EndLocal ==
    ASSUME TypeOK, AnswerInv, NEW t \in Threads, NEW a, End(t, a)
    PROVE  /\ pc'[t] = "idle" /\ answer'[t] = a /\ attempt'[t] = 0 /\ delay'[t] = 0
           /\ call'[t] = call[t] /\ sent'[t] = sent[t] /\ last'[t] = last[t]
  BY DEF End, TypeOK, AnswerInv

LEMMA GoToLocal ==
    ASSUME TypeOK, AnswerInv, NEW t \in Threads, NEW phase, GoTo(t, phase)
    PROVE  /\ pc'[t] = phase /\ answer'[t] = answer[t]
           /\ call'[t] = call[t] /\ sent'[t] = sent[t] /\ last'[t] = last[t]
  BY DEF GoTo, TypeOK, AnswerInv

LEMMA TypesOf ==
    ASSUME TypeOK, NEW t \in Threads
    PROVE  attempt[t] \in Nat /\ sent[t] \in Nat /\ pc[t] \in Phases
  BY DEF TypeOK, Phases

(* RetryBudget, of one thread.                                             *)
SpentOf(t) ==
    /\ sent[t] <= call[t].max_retries + 1
    /\ answer[t] = Raises("TransportError") => sent[t] = call[t].max_retries + 1
    /\ answer[t] = Raises("HTTPStatusError") =>
        last[t].kind = "error" \/ sent[t] = call[t].max_retries + 1
    /\ answer[t] = Response => sent[t] = 0 \/ Succeeded(t)

\* Until a call ends, its caller has no answer.
LEMMA Unanswered ==
    ASSUME TypeOK', NEW t \in Threads, pc'[t] # "idle"
    PROVE  answer'[t] \notin Ending
  BY AnswersDiffer DEF TypeOK, Ending

LEMMA SpentWhileRunning ==
    ASSUME TypeOK', NEW t \in Threads, pc'[t] # "idle",
           sent'[t] <= call'[t].max_retries + 1
    PROVE  SpentOf(t)'
  BY Unanswered DEF SpentOf, Ending

\* One step of a thread keeps its own budget.
LEMMA BudgetStep ==
    ASSUME Inv, TypeOK', NEW t \in Threads, Begin(t) \/ Step(t)
    PROVE  BudgetOf(t)' /\ SpentOf(t)'
  <1>0. /\ TypeOK /\ AnswerInv /\ BudgetOf(t) /\ SpentOf(t)
        /\ attempt[t] \in Nat /\ sent[t] \in Nat
        /\ call[t].max_retries \in Nat
    BY TypesOf, CallTypes DEF Inv, BudgetInv, RetryBudget, SpentOf, Succeeded
  <1>1. CASE Begin(t)
    <2>1. PICK r \in Requests :
            /\ call' = [call EXCEPT ![t] = r]
            /\ pc' = [pc EXCEPT ![t] = IF r.cached THEN "lookup" ELSE "open"]
      BY <1>1 DEF Begin
    <2>2. /\ call'[t] = r /\ pc'[t] \in {"lookup", "open"}
          /\ pc'[t] = "lookup" => r.cached
          /\ sent'[t] = 0 /\ attempt'[t] = 0 /\ r.max_retries \in Nat
      BY <1>0, <1>1, <2>1, RequestsAssumption DEF Begin, TypeOK, BudgetOf, loop, Request
    <2>3. BudgetOf(t)'
      BY <2>2 DEF BudgetOf
    <2>4. SpentOf(t)'
      BY <2>2, SpentWhileRunning
    <2>5. QED
      BY <2>3, <2>4
  <1>2. CASE Lookup(t)
    <2>1. CASE call[t].url \in cached
      <3>1. End(t, Response)
        BY <1>2, <2>1 DEF Lookup
      <3>2. sent[t] = 0
        BY <1>0, <1>2 DEF Lookup, BudgetOf
      <3>3. QED
        BY <1>0, <3>1, <3>2, EndLocal, AnswersDiffer DEF BudgetOf, SpentOf
    <2>2. CASE call[t].url \notin cached
      <3>1. GoTo(t, "open") /\ attempt'[t] = 0 /\ sent[t] = 0 /\ call[t] \in Requests
        BY <1>0, <1>2, <2>2 DEF Lookup, BudgetOf, loop
      <3>2. QED
        BY <1>0, <3>1, GoToLocal, SpentWhileRunning DEF BudgetOf
    <2>3. QED
      BY <2>1, <2>2
  <1>3. CASE Open(t)
    <2>1. /\ GoTo(t, "send") /\ attempt'[t] = 0 /\ sent[t] = 0 /\ call[t] \in Requests
      BY <1>0, <1>3 DEF Open, BudgetOf, loop
    <2>2. QED
      BY <1>0, <2>1, GoToLocal, SpentWhileRunning DEF BudgetOf
  <1>4. CASE Send(t)
    <2>1. /\ sent[t] = attempt[t] /\ attempt[t] <= call[t].max_retries /\ call[t] \in Requests
      BY <1>0, <1>4 DEF Send, BudgetOf
    <2>2. /\ sent'[t] = sent[t] + 1 /\ attempt'[t] = attempt[t]
          /\ call'[t] = call[t] /\ pc'[t] = "wait"
      BY <1>0, <1>4, <2>1 DEF Send, MaxSent, TypeOK, loop
    <2>3. QED
      BY <1>0, <2>1, <2>2, SpentWhileRunning DEF BudgetOf
  <1>5. CASE Deliver(t)
    <2>1. /\ sent[t] = attempt[t] + 1 /\ attempt[t] <= call[t].max_retries /\ call[t] \in Requests
      BY <1>0, <1>5 DEF Deliver, BudgetOf
    <2>2. /\ sent'[t] = sent[t] /\ attempt'[t] = attempt[t]
          /\ call'[t] = call[t] /\ pc'[t] = "received"
      BY <1>0, <1>5 DEF Deliver, TypeOK, loop
    <2>3. QED
      BY <1>0, <2>1, <2>2, SpentWhileRunning DEF BudgetOf
  <1>6. CASE RetryStatus(t)
    <2>0. /\ sent[t] = attempt[t] + 1 /\ attempt[t] < call[t].max_retries /\ call[t] \in Requests
      BY <1>0, <1>6 DEF RetryStatus, BudgetOf
    <2>1. CASE End(t, SleepError(RetryDelay(t, attempt[t] + 1)))
      <3>1. SleepError(RetryDelay(t, attempt[t] + 1)) \in Others
        BY DEF SleepError, Others
      <3>2. QED
        BY <1>0, <2>1, <3>1, EndLocal, AnswersDiffer DEF BudgetOf, SpentOf
    <2>2. CASE /\ attempt' = [attempt EXCEPT ![t] = attempt[t] + 1]
               /\ delay' = [delay EXCEPT ![t] = RetryDelay(t, attempt[t] + 1)]
               /\ GoTo(t, "sleep")
      <3>1. /\ attempt'[t] = attempt[t] + 1 /\ delay'[t] = RetryDelay(t, attempt[t] + 1)
            /\ pc'[t] = "sleep" /\ call'[t] = call[t] /\ sent'[t] = sent[t] /\ last'[t] = last[t]
        BY <1>0, <2>2, GoToLocal DEF TypeOK
      <3>2. last[t].after = NoHeader => delay'[t] = 2^(sent'[t] - 1)
        BY <2>0, <3>1 DEF RetryDelay
      <3>3. QED
        BY <1>0, <2>0, <3>1, <3>2, SpentWhileRunning DEF BudgetOf
    <2>3. QED
      BY <1>6, <2>1, <2>2 DEF RetryStatus
  <1>7. CASE RetryTransport(t)
    <2>0. /\ sent[t] = attempt[t] + 1 /\ attempt[t] < call[t].max_retries /\ call[t] \in Requests
      BY <1>0, <1>7 DEF RetryTransport, BudgetOf
    <2>1. /\ attempt'[t] = attempt[t] + 1 /\ delay'[t] = 2^attempt[t]
          /\ pc'[t] = "sleep" /\ call'[t] = call[t] /\ sent'[t] = sent[t]
      BY <1>0, <1>7, GoToLocal DEF RetryTransport, TypeOK
    <2>2. sent[t] - 1 = attempt[t]
      BY <1>0, <2>0
    <2>3. QED
      BY <1>0, <2>0, <2>1, <2>2, SpentWhileRunning DEF BudgetOf
  <1>8. CASE GiveUp(t)
    <2>0. /\ sent[t] = attempt[t] + 1 /\ attempt[t] <= call[t].max_retries
      BY <1>0, <1>8 DEF GiveUp, BudgetOf
    <2>1. CASE attempt[t] >= call[t].max_retries /\ End(t, Raises("TransportError"))
      <3>1. sent[t] = call[t].max_retries + 1
        BY <1>0, <2>0, <2>1
      <3>2. QED
        BY <1>0, <2>1, <3>1, EndLocal, AnswersDiffer DEF BudgetOf, SpentOf
    <2>2. CASE /\ last[t].kind = "error" \/ attempt[t] >= call[t].max_retries
               /\ End(t, Raises("HTTPStatusError"))
      <3>1. last[t].kind = "error" \/ sent[t] = call[t].max_retries + 1
        BY <1>0, <2>0, <2>2
      <3>2. QED
        BY <1>0, <2>2, <3>1, EndLocal, AnswersDiffer DEF BudgetOf, SpentOf
    <2>3. CASE End(t, Raises("RequestError"))
      BY <1>0, <2>0, <2>3, EndLocal, AnswersDiffer DEF BudgetOf, SpentOf, Others
    <2>4. QED
      BY <1>8, <2>1, <2>2, <2>3 DEF GiveUp
  <1>9. CASE Succeed(t)
    <2>0. /\ sent[t] = attempt[t] + 1 /\ attempt[t] <= call[t].max_retries
          /\ call[t] \in Requests
          /\ \/ last[t].kind = "success"
             \/ last[t].kind = "accepted" /\ attempt[t] >= call[t].max_retries
      BY <1>0, <1>9 DEF Succeed, BudgetOf
    <2>. Succeeded(t)
      BY <1>0, <2>0 DEF Succeeded
    <2>1. CASE call[t].cached /\ GoTo(t, "store")
      BY <1>0, <2>0, <2>1, GoToLocal, SpentWhileRunning DEF BudgetOf, Succeeded
    <2>2. CASE End(t, Response)
      BY <1>0, <2>0, <2>2, EndLocal, AnswersDiffer DEF BudgetOf, SpentOf, Succeeded
    <2>3. QED
      BY <1>9, <2>1, <2>2 DEF Succeed
  <1>10. CASE Wake(t)
    <2>1. /\ pc'[t] = "send" /\ attempt'[t] = attempt[t] /\ sent[t] = attempt[t]
          /\ sent'[t] = sent[t] /\ call'[t] = call[t]
          /\ attempt[t] <= call[t].max_retries /\ call[t] \in Requests
      BY <1>0, <1>10 DEF Wake, BudgetOf, TypeOK
    <2>2. QED
      BY <1>0, <2>1, SpentWhileRunning DEF BudgetOf
  <1>11. CASE Store(t)
    <2>1. End(t, Response) /\ Succeeded(t)
      BY <1>0, <1>11 DEF Store, BudgetOf
    <2>2. QED
      BY <1>0, <2>1, EndLocal, AnswersDiffer DEF BudgetOf, SpentOf, Succeeded
  <1>12. QED
    BY <1>1, <1>2, <1>3, <1>4, <1>5, <1>6, <1>7, <1>8, <1>9, <1>10, <1>11
       DEF Step, Proceed

LEMMA BudgetCorrect ==
    ASSUME Inv, TypeOK', [Next]_vars
    PROVE  BudgetInv' /\ RetryBudget'
  <1> SUFFICES ASSUME NEW u \in Threads PROVE BudgetOf(u)' /\ SpentOf(u)'
    BY DEF BudgetInv, RetryBudget, SpentOf, Succeeded
  <1>0. TypeOK /\ AnswerInv /\ BudgetOf(u) /\ SpentOf(u)
    BY DEF Inv, BudgetInv, RetryBudget, SpentOf, Succeeded
  <1>1. ASSUME UNCHANGED Local(u)
        PROVE  BudgetOf(u)' /\ SpentOf(u)'
    BY <1>0, <1>1 DEF Local, BudgetOf, SpentOf, Succeeded
  <1>2. ASSUME NEW t \in Threads, Begin(t) \/ Step(t)
        PROVE  BudgetOf(u)' /\ SpentOf(u)'
    BY <1>0, <1>1, <1>2, BudgetStep, OthersKeep
  <1>3. ASSUME NEW v \in Urls, Forget(v)
        PROVE  BudgetOf(u)' /\ SpentOf(u)'
    BY <1>1, <1>3 DEF Forget, loop, Local
  <1>4. CASE UNCHANGED vars
    BY <1>1, <1>4 DEF vars, loop, Local
  <1>5. QED
    BY <1>2, <1>3, <1>4 DEF Next

-----------------------------------------------------------------------------
(* ClientsClosed, of one thread: the phases in which send_request runs.    *)
Running == {"send", "wait", "received", "sleep"}

OwnOf(t) == own[t] <=> call[t].own_client /\ pc[t] \in Running

\* A call that gets past the lookup with a client of its own is not cached, so
\* that nothing is open while it stores.
LEMMA OwnStep ==
    ASSUME Inv, NEW t \in Threads, Begin(t) \/ Step(t)
    PROVE  shared_open' /\ OwnOf(t)'
  <1>0. /\ TypeOK /\ AnswerInv /\ shared_open /\ OwnOf(t)
        /\ own \in [Threads -> BOOLEAN] /\ call[t].own_client \in BOOLEAN
    BY CallTypes DEF Inv, ClientsClosed, OwnOf, Running, TypeOK
  <1>1. CASE Begin(t)
    <2>1. pc'[t] \in {"lookup", "open"} /\ own'[t] = own[t] /\ shared_open' /\ pc[t] = "idle"
      BY <1>0, <1>1 DEF Begin, TypeOK
    <2>2. QED
      BY <1>0, <2>1 DEF OwnOf, Running
  <1>2. CASE Lookup(t)
    <2>1. End(t, Response) \/ GoTo(t, "open")
      BY <1>2 DEF Lookup
    <2>2. pc[t] \notin Running /\ own'[t] = own[t] /\ shared_open'
      BY <1>0, <1>2 DEF Lookup, Running
    <2>3. pc'[t] \in {"idle", "open"}
      BY <1>0, <2>1, EndLocal, GoToLocal
    <2>4. QED
      BY <1>0, <2>2, <2>3 DEF OwnOf, Running
  <1>3. CASE Open(t)
    <2>1. own'[t] = call[t].own_client /\ shared_open' /\ pc'[t] = "send" /\ call'[t] = call[t]
      BY <1>0, <1>3, GoToLocal DEF Open
    <2>2. QED
      BY <2>1 DEF OwnOf, Running
  <1>4. CASE Send(t) \/ Deliver(t) \/ Wake(t)
    <2>1. /\ pc[t] \in Running /\ pc'[t] \in Running
          /\ own'[t] = own[t] /\ call'[t] = call[t] /\ shared_open'
      BY <1>0, <1>4, GoToLocal DEF Send, Deliver, Wake, TypeOK, Running
    <2>2. QED
      BY <1>0, <2>1 DEF OwnOf
  <1>5. CASE RetryTransport(t) \/ (GoTo(t, "sleep") /\ pc[t] = "received" /\ UNCHANGED <<shared_open, own>>)
    <2>1. /\ pc[t] \in Running /\ pc'[t] \in Running
          /\ own'[t] = own[t] /\ call'[t] = call[t] /\ shared_open'
      BY <1>0, <1>5, GoToLocal DEF RetryTransport, Running
    <2>2. QED
      BY <1>0, <2>1 DEF OwnOf
  <1>6. ASSUME Leave(t), pc'[t] \in {"idle", "store"}
        PROVE  shared_open' /\ OwnOf(t)'
    BY <1>0, <1>6 DEF Leave, OwnOf, Running
  <1>7. CASE RetryStatus(t)
    <2>1. CASE End(t, SleepError(RetryDelay(t, attempt[t] + 1))) /\ Leave(t)
      BY <1>0, <1>6, <2>1, EndLocal
    <2>2. CASE GoTo(t, "sleep") /\ pc[t] = "received" /\ UNCHANGED <<shared_open, own>>
      BY <1>5, <2>2
    <2>3. QED
      BY <1>7, <2>1, <2>2 DEF RetryStatus
  <1>8. CASE GiveUp(t) \/ Succeed(t)
    <2>1. Leave(t) /\ (GoTo(t, "store") \/ \E a : End(t, a))
      BY <1>8 DEF GiveUp, Succeed
    <2>2. QED
      BY <1>0, <1>6, <2>1, EndLocal, GoToLocal
  <1>9. CASE Store(t)
    <2>1. pc'[t] = "idle" /\ own'[t] = own[t] /\ shared_open' /\ pc[t] = "store"
      BY <1>0, <1>9, EndLocal DEF Store
    <2>2. QED
      BY <1>0, <2>1 DEF OwnOf, Running
  <1>10. QED
    BY <1>1, <1>2, <1>3, <1>4, <1>5, <1>7, <1>8, <1>9
       DEF Step, Proceed

LEMMA OwnCorrect ==
    ASSUME Inv, [Next]_vars
    PROVE  ClientsClosed'
  <1>0. TypeOK /\ AnswerInv /\ shared_open /\ \A u \in Threads : OwnOf(u)
    BY DEF Inv, ClientsClosed, OwnOf, Running
  <1>1. ASSUME NEW u \in Threads, UNCHANGED Local(u)
        PROVE  OwnOf(u)'
    BY <1>0, <1>1 DEF Local, OwnOf
  <1> SUFFICES shared_open' /\ \A u \in Threads : OwnOf(u)'
    BY DEF ClientsClosed, OwnOf, Running
  <1>2. ASSUME NEW t \in Threads, Begin(t) \/ Step(t)
        PROVE  shared_open' /\ \A u \in Threads : OwnOf(u)'
    BY <1>0, <1>1, <1>2, OwnStep, OthersKeep
  <1>3. ASSUME NEW v \in Urls, Forget(v)
        PROVE  shared_open' /\ \A u \in Threads : OwnOf(u)'
    BY <1>0, <1>1, <1>3 DEF Forget, loop, Local
  <1>4. CASE UNCHANGED vars
    BY <1>0, <1>1, <1>4 DEF vars, loop, Local
  <1>5. QED
    BY <1>2, <1>3, <1>4 DEF Next

-----------------------------------------------------------------------------
LEMMA InvCorrect == Inv /\ [Next]_vars => Inv'
  <1> SUFFICES ASSUME Inv, [Next]_vars PROVE Inv'
    OBVIOUS
  <1>1. TypeOK' /\ AnswerInv'
    BY TypeCorrect DEF Inv
  <1>2. BudgetInv' /\ RetryBudget'
    BY <1>1, BudgetCorrect
  <1>3. ClientsClosed'
    BY OwnCorrect
  <1>4. QED
    BY <1>1, <1>2, <1>3 DEF Inv

LEMMA InvHolds == Spec => []Inv
  <1>1. Init => Inv
    BY InitCorrect
  <1>2. Inv /\ [Next]_vars => Inv'
    BY InvCorrect
  <1>3. QED
    BY <1>1, <1>2, PTL DEF Spec

\* The state has its types, and a caller has an answer exactly when its call is
\* over.
THEOREM TypeSafety == Spec => []TypeOK
  <1>1. Inv => TypeOK
    BY DEF Inv
  <1>2. QED
    BY <1>1, InvHolds, PTL

\* Delays double with every attempt, through whichever branch it is counted:
\* the handler of transport errors computes before it counts, and the one of
\* statuses after.
THEOREM DelaysDouble == Spec => []BackoffDoubles
  <1>1. Inv => BackoffDoubles
    BY DEF Inv, BudgetInv, BudgetOf, BackoffDoubles
  <1>2. QED
    BY <1>1, InvHolds, PTL

\* A request is sent max_retries + 1 times at the most, and a caller is told of
\* a failure that is worth a retry only when they are used up.
THEOREM BudgetIsKept == Spec => []RetryBudget
  <1>1. Inv => RetryBudget
    BY DEF Inv
  <1>2. QED
    BY <1>1, InvHolds, PTL

\* However a call ends, the client it opened is closed and the client it was
\* given is not.
THEOREM NoClientLeaks == Spec => []ClientsClosed
  <1>1. Inv => ClientsClosed
    BY DEF Inv
  <1>2. QED
    BY <1>1, InvHolds, PTL
=============================================================================
