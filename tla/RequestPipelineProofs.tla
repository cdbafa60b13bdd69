----------------------- MODULE RequestPipelineProofs -----------------------
(***************************************************************************)
(* For any number of middleware, guards and interceptors: the pipeline     *)
(* starts one response at most, a refused request does not reach the       *)
(* endpoint, no request but one that a middleware drops is left without an *)
(* answer, and every step is a step of the ASGI exchange or leaves it      *)
(* alone.                                                                  *)
(***************************************************************************)
EXTENDS RequestPipeline, TLAPS

\* Nothing was sent before the endpoint runs.
Unanswered == BeforeHandlers \union {"router", "guards", "interceptors", "endpoint"}

\* The three "response started" flags against the messages the server got.
\* ExceptionMiddleware's is exact for the layers inside it, the server error
\* layer's until that layer answers itself.
FlagsAgree ==
  /\ starts \in {0, 1}
  /\ flag <=> starts = 1
  /\ stage \in InsideHandlers => (seen <=> starts = 1)
  /\ \/ stage \in {"closing", "done"}
     \/ stage = "sending" /\ origin = "server"
     \/ serverSeen <=> starts = 1

\* What is known of the response at each place of the pipeline.
Progress ==
  /\ stage \in Unanswered => starts = 0
  /\ stage = "sending" => starts = 1 /\ ~complete /\ origin # "nobody"
  /\ stage = "sending" /\ origin \in {"endpoint", "route", "exceptions"} => seen
  /\ stage = "sending" /\ origin = "middleware" => level \in 0 .. NMiddleware
  /\ starts = 0 => ~complete /\ ~seen
  /\ stage \in {"leaving", "respond"} /\ starts = 1 => complete \/ abandoned
  /\ stage = "catching" => exc # "none"

\* A refused request has left the route, and a handled one does not enter it
\* again.
Refusal ==
  /\ refused => stage \notin Unanswered \union {"leaving", "respond"}
  /\ refused /\ stage = "sending" => origin # "endpoint"
  /\ handled => stage \notin Unanswered
  /\ refused => ~handled

\* On the way out an exception, an answer, a failed 500 handler or a silent
\* middleware accounts for the request.
Accounted ==
  /\ stage \in {"unwinding", "failing"} /\ exc = "none" => starts = 1 \/ muted
  /\ stage = "closing" => starts = 1 \/ (exc # "none" /\ failed500) \/ muted
  /\ stage = "done" => starts = 1 \/ (raised /\ failed500) \/ muted
  /\ stage \in {"unwinding", "failing", "closing", "catching"} /\ starts = 1
       => complete \/ abandoned \/ exc # "none"
  /\ stage = "done" /\ starts = 1 => complete \/ abandoned \/ raised

IInv == TypeOK /\ FlagsAgree /\ Progress /\ Refusal /\ Accounted

\* Answering a request that is unanswered so far.
LEMMA StartLemma ==
  ASSUME TypeOK, starts = 0, NEW o \in Origins, StartFrom(o)
  PROVE  /\ starts' = 1 /\ flag' = TRUE /\ complete' = complete
         /\ seen' \in BOOLEAN /\ serverSeen' \in BOOLEAN
         /\ o \in {"endpoint", "route", "exceptions"} => seen' = TRUE
         /\ o \notin {"endpoint", "route", "exceptions"} => seen' = seen
         /\ o # "server" => serverSeen' = TRUE
<1>1. starts' = 1 /\ flag' = TRUE /\ complete' = complete
  BY DEF StartFrom
<1>2. seen \in BOOLEAN /\ serverSeen \in BOOLEAN
  BY DEF TypeOK
<1>3. seen' \in BOOLEAN /\ serverSeen' \in BOOLEAN
  BY <1>2, Zenon DEF StartFrom
<1>4. o \in {"endpoint", "route", "exceptions"} => seen' = TRUE
  BY <1>2, Zenon DEF StartFrom
<1>5. o \notin {"endpoint", "route", "exceptions"} => seen' = seen
  BY <1>2, Zenon DEF StartFrom
<1>6. o # "server" => serverSeen' = TRUE
  BY <1>2, Zenon DEF StartFrom
<1> QED BY <1>1, <1>3, <1>4, <1>5, <1>6

\* The way in keeps the invariant: nothing is sent but by a middleware.
LEMMA InwardInv == ASSUME IInv, Inward PROVE IInv'
<1> USE LayersAssumption DEF IInv, TypeOK, FlagsAgree, Progress, Refusal, Accounted,
       BeforeHandlers, InsideHandlers, Stages, Exceptions, Origins, Unanswered,
       Goto, sent, history
<1>1. CASE Enter
  <2>1. starts = 0 /\ flag = FALSE
    BY <1>1 DEF Enter
  <2>2. stage' = "versioning" /\ level' = 0 /\ flag' = flag
    BY <1>1, <2>1 DEF Enter
  <2>3. UNCHANGED <<exc, origin, sent, history, raised>>
    BY <1>1, <2>2 DEF Enter
  <2> QED BY <1>1, <2>1, <2>2, <2>3 DEF Enter
<1>2. CASE Versioning
  BY <1>2 DEF Versioning, RaiseOutside
<1>3. CASE Session
  BY <1>3 DEF Session, RaiseOutside
<1>4. CASE Identity
  <2>1. CASE RaiseOutside(Exceptions)
    BY <1>4, <2>1 DEF Identity, RaiseOutside
  <2>2. CASE Pass("middleware", 0, NMiddleware, "router") /\ UNCHANGED <<exc, origin, sent, history, raised>>
    <3>1. starts = 0 /\ ~flag /\ ~seen /\ ~serverSeen
      BY <1>4 DEF Identity
    <3>2. CASE 0 < NMiddleware
      BY <1>4, <2>2, <3>1, <3>2 DEF Identity, Pass
    <3>3. CASE ~(0 < NMiddleware)
      BY <1>4, <2>2, <3>1, <3>3 DEF Identity, Pass
    <3> QED BY <3>2, <3>3
  <2> QED BY <1>4, <2>1, <2>2 DEF Identity
<1>5. CASE MiddlewareCallsNext
  <2>1. CASE level < NMiddleware
    BY <1>5, <2>1 DEF MiddlewareCallsNext, Pass
  <2>2. CASE ~(level < NMiddleware)
    BY <1>5, <2>2 DEF MiddlewareCallsNext, Pass
  <2> QED BY <2>1, <2>2
<1>6. CASE MiddlewareAnswers
  <2>1. starts = 0 /\ StartFrom("middleware")
    BY <1>6 DEF MiddlewareAnswers, Send
  <2>2. /\ starts' = 1 /\ flag' = TRUE /\ complete' = complete
        /\ seen' \in BOOLEAN /\ serverSeen' = TRUE
    BY <2>1, StartLemma
  <2> QED BY <1>6, <2>1, <2>2 DEF MiddlewareAnswers, Send
<1>7. CASE MiddlewareRaises
  BY <1>7 DEF MiddlewareRaises, BackTo
<1>8. CASE MiddlewareIsSilent
  BY <1>8 DEF MiddlewareIsSilent, BackTo
<1> QED BY <1>1, <1>2, <1>3, <1>4, <1>5, <1>6, <1>7, <1>8 DEF Inward

\* The layers inside ExceptionMiddleware keep the invariant.
LEMMA RouteInv == ASSUME IInv, Route PROVE IInv'
<1> USE LayersAssumption DEF IInv, TypeOK, FlagsAgree, Progress, Refusal, Accounted,
       BeforeHandlers, InsideHandlers, Stages, Exceptions, Origins, Unanswered,
       Goto, sent, history
<1>1. CASE RouteMatches
  BY <1>1 DEF RouteMatches, Pass
<1>2. CASE RouteMissing
  BY <1>2 DEF RouteMissing, RaiseInside
<1>3. CASE MountAnswers
  <2>1. starts = 0 /\ StartFrom("route")
    BY <1>3 DEF MountAnswers, Send
  <2>2. /\ starts' = 1 /\ flag' = TRUE /\ complete' = complete
        /\ seen' \in BOOLEAN /\ serverSeen' = TRUE /\ seen' = TRUE
    BY <2>1, StartLemma
  <2> QED BY <1>3, <2>1, <2>2 DEF MountAnswers, Send
<1>4. CASE GuardPasses
  BY <1>4 DEF GuardPasses, Pass
<1>5. CASE GuardRefuses
  BY <1>5 DEF GuardRefuses, RaiseInside
<1>6. CASE InterceptorCallsNext
  BY <1>6 DEF InterceptorCallsNext, Pass
<1>7. CASE InterceptorStops
  BY <1>7 DEF InterceptorStops
<1>8. CASE EndpointEnds
  BY <1>8 DEF EndpointEnds
<1>9. CASE EndpointSends
  <2>1. starts = 0 /\ StartFrom("endpoint")
    BY <1>9 DEF EndpointSends
  <2>2. /\ starts' = 1 /\ flag' = TRUE /\ complete' = complete
        /\ seen' \in BOOLEAN /\ serverSeen' = TRUE /\ seen' = TRUE
    BY <2>1, StartLemma
  <2> QED BY <1>9, <2>1, <2>2 DEF EndpointSends
<1>10. CASE InterceptorReturns
  BY <1>10 DEF InterceptorReturns
<1>11. CASE ChainRaises
  BY <1>11 DEF ChainRaises
<1>12. CASE ChainReturns
  BY <1>12 DEF ChainReturns
<1>13. CASE SkipResponse
  BY <1>13 DEF SkipResponse, AlreadyResponded, BackTo
<1>14. CASE Respond
  <2>1. starts = 0 /\ StartFrom("route")
    BY <1>14 DEF Respond, AlreadyResponded, Send
  <2>2. /\ starts' = 1 /\ flag' = TRUE /\ complete' = complete
        /\ seen' \in BOOLEAN /\ serverSeen' = TRUE /\ seen' = TRUE
    BY <2>1, StartLemma
  <2> QED BY <1>14, <2>1, <2>2 DEF Respond, AlreadyResponded, Send
<1>15. CASE ResponseInvalid
  BY <1>15 DEF ResponseInvalid, AlreadyResponded, RaiseInside
<1> QED BY <1>1, <1>2, <1>3, <1>4, <1>5, <1>6, <1>7, <1>8, <1>9, <1>10, <1>11, <1>12, <1>13, <1>14, <1>15 DEF Route

\* The end of a response, or its breaking off, keeps the invariant.
LEMMA SendingInv == ASSUME IInv, SendBody \/ SendBreaks PROVE IInv'
<1> USE LayersAssumption DEF IInv, TypeOK, FlagsAgree, Progress, Refusal, Accounted,
       BeforeHandlers, InsideHandlers, Stages, Exceptions, Origins, Unanswered,
       Goto, sent, history
<1>1. CASE SendBody
  <2>1. /\ stage = "sending" /\ starts = 1 /\ complete' = TRUE
        /\ UNCHANGED <<exc, origin, starts, flag, seen, serverSeen, history, raised>>
    BY <1>1 DEF SendBody
  <2>2. CASE origin = "endpoint"
    BY <1>1, <2>1, <2>2 DEF SendBody, AfterSending
  <2>3. CASE origin \in {"route", "exceptions"}
    BY <1>1, <2>1, <2>3 DEF SendBody, AfterSending, BackTo
  <2>4. CASE origin = "middleware"
    BY <1>1, <2>1, <2>4 DEF SendBody, AfterSending, BackTo
  <2>5. CASE origin = "server"
    BY <1>1, <2>1, <2>5 DEF SendBody, AfterSending
  <2> QED BY <2>1, <2>2, <2>3, <2>4, <2>5
<1>2. CASE SendBreaks
  <2>1. /\ stage = "sending" /\ starts = 1 /\ complete' \in BOOLEAN /\ exc' \in Exceptions
        /\ UNCHANGED <<origin, starts, flag, seen, serverSeen, refused, handled, failed500, muted, raised>>
    BY <1>2 DEF SendBreaks
  <2>2. abandoned' \in BOOLEAN /\ (origin = "endpoint" /\ ~complete' => abandoned' = TRUE)
    BY <1>2, <2>1, Zenon DEF SendBreaks
  <2>3. AfterBreaking
    BY <1>2 DEF SendBreaks
  <2>4. CASE origin = "endpoint"
    BY <2>1, <2>2, <2>3, <2>4 DEF AfterBreaking, AfterSending
  <2>5. CASE origin = "route"
    BY <2>1, <2>2, <2>3, <2>5 DEF AfterBreaking
  <2>6. CASE origin \in {"exceptions", "middleware"}
    BY <2>1, <2>2, <2>3, <2>6 DEF AfterBreaking, AfterSending, BackTo
  <2>7. CASE origin = "server"
    BY <2>1, <2>2, <2>3, <2>7 DEF AfterBreaking, AfterSending
  <2> QED BY <2>1, <2>4, <2>5, <2>6, <2>7
<1> QED BY <1>1, <1>2

\* The way out keeps the invariant.
LEMMA OutwardInv == ASSUME IInv, Outward PROVE IInv'
<1> USE LayersAssumption DEF IInv, TypeOK, FlagsAgree, Progress, Refusal, Accounted,
       BeforeHandlers, InsideHandlers, Stages, Exceptions, Origins, Unanswered,
       Goto, sent, history
<1>1. CASE NoHandler
  BY <1>1 DEF NoHandler, BackTo
<1>2. CASE HandlerTooLate
  BY <1>2 DEF HandlerTooLate, TooLate, BackTo
<1>3. CASE HandlerAnswers
  <2>1. starts = 0 /\ StartFrom("exceptions")
    BY <1>3 DEF HandlerAnswers, TooLate, Send
  <2>2. /\ starts' = 1 /\ flag' = TRUE /\ complete' = complete
        /\ seen' \in BOOLEAN /\ serverSeen' = TRUE /\ seen' = TRUE
    BY <2>1, StartLemma
  <2> QED BY <1>3, <2>1, <2>2 DEF HandlerAnswers, TooLate, Send
<1>4. CASE HandlerFails
  BY <1>4 DEF HandlerFails, TooLate, BackTo
<1>5. CASE MiddlewareReturns
  BY <1>5 DEF MiddlewareReturns, BackTo
<1>6. CASE MiddlewareRecovers
  <2>1. starts = 0 /\ StartFrom("middleware")
    BY <1>6 DEF MiddlewareRecovers, Send
  <2>2. /\ starts' = 1 /\ flag' = TRUE /\ complete' = complete
        /\ seen' \in BOOLEAN /\ serverSeen' = TRUE
    BY <2>1, StartLemma
  <2> QED BY <1>6, <2>1, <2>2 DEF MiddlewareRecovers, Send
<1>7. CASE NothingFailed
  BY <1>7 DEF NothingFailed
<1>8. CASE Answer500
  <2>1. stage = "failing" /\ exc # "none" /\ exc' = exc
    BY <1>8 DEF Answer500
  <2>2. CASE serverSeen
    BY <1>8, <2>1, <2>2 DEF Answer500, TooLateFor500
  <2>3. CASE ~serverSeen
    <3>1. starts = 0 /\ Send("server", 0)
      BY <1>8, <2>1, <2>3 DEF Answer500, TooLateFor500
    <3>2. /\ starts' = 1 /\ flag' = TRUE /\ complete' = complete
          /\ seen' \in BOOLEAN /\ serverSeen' \in BOOLEAN
      BY <3>1, StartLemma DEF Send
    <3> QED BY <2>1, <3>1, <3>2 DEF Send
  <2> QED BY <2>2, <2>3
<1>9. CASE Fail500
  BY <1>9 DEF Fail500
<1>10. CASE Close
  BY <1>10 DEF Close
<1>11. CASE MiddlewareHides
  BY <1>11 DEF MiddlewareHides, BackTo
<1> QED BY <1>1, <1>2, <1>3, <1>4, <1>5, <1>6, <1>7, <1>8, <1>9, <1>10, <1>11 DEF Outward

\* A request that has just arrived satisfies the invariant.
LEMMA InitInv == Init => IInv
<1> SUFFICES ASSUME Init PROVE IInv
  OBVIOUS
<1> USE DEF Init, Stages, BeforeHandlers, InsideHandlers, Unanswered, Exceptions, Origins
<1>1. TypeOK
  BY DEF TypeOK
<1>2. FlagsAgree
  BY DEF FlagsAgree
<1>3. Progress /\ Refusal /\ Accounted
  BY DEF Progress, Refusal, Accounted
<1> QED BY <1>1, <1>2, <1>3 DEF IInv

\* Every step of the pipeline keeps the invariant.
LEMMA NextInv == IInv /\ [Next]_vars => IInv'
<1> SUFFICES ASSUME IInv, [Next]_vars PROVE IInv'
  OBVIOUS
<1>1. CASE Inward
  BY <1>1, InwardInv
<1>2. CASE Route
  BY <1>2, RouteInv
<1>3. CASE SendBody \/ SendBreaks
  BY <1>3, SendingInv
<1>4. CASE Outward
  BY <1>4, OutwardInv
<1>5. CASE UNCHANGED vars
  BY <1>5 DEF vars, sent, history, IInv, TypeOK, FlagsAgree, Progress, Refusal, Accounted
<1> QED BY <1>1, <1>2, <1>3, <1>4, <1>5 DEF Next

\* The inductive invariant holds of every request: the three flags agree with
\* what the server received, and every way out is accounted for.
THEOREM Invariance == Spec => []IInv
BY InitInv, NextInv, PTL DEF Spec

\* Type correctness of the pipeline.
THEOREM Typing == Spec => []TypeOK
<1>1. IInv => TypeOK
  BY DEF IInv
<1> QED BY <1>1, Invariance, PTL

\* The server receives at most one http.response.start per request.
THEOREM OneResponse == Spec => []OneStart
<1>1. IInv => OneStart
  BY DEF IInv, FlagsAgree, OneStart
<1> QED BY <1>1, Invariance, PTL

\* A guard's refusal is final: the endpoint of a refused request is not called.
THEOREM RefusalIsFinal == Spec => []GuardsDecide
<1>1. IInv => GuardsDecide
  BY DEF IInv, Refusal, GuardsDecide
<1> QED BY <1>1, Invariance, PTL

\* No request ends without an answer or an exception for the server, unless a
\* function middleware ended it so.
THEOREM EveryRequestAccounted == Spec => []Answered
<1>1. IInv => Answered
  BY DEF IInv, Accounted, FlagsAgree, Answered
<1> QED BY <1>1, Invariance, PTL

\* No response is cut off without an exception that says so, unless it was the
\* endpoint's own and an interceptor hid it.
THEOREM CutOffIsReported == Spec => []CutOffReported
<1>1. IInv => CutOffReported
  BY DEF IInv, Accounted, FlagsAgree, CutOffReported
<1> QED BY <1>1, Invariance, PTL

-----------------------------------------------------------------------------
\* What a step does to the exchange with the server.
Silent == stage # "done" /\ stage' # "done" /\ starts' = starts /\ complete' = complete
Starts == /\ stage # "done" /\ stage' # "done"
          /\ starts = 0 /\ starts' = 1 /\ ~complete /\ ~complete'
Completes == /\ stage # "done" /\ stage' # "done"
             /\ starts = 1 /\ starts' = 1 /\ ~complete /\ complete'

\* A layer inside the user middleware, or one of them, sends nothing or starts
\* the response.
LEMMA InwardEffect == ASSUME IInv, Inward \/ Route PROVE Silent \/ Starts
<1> USE DEF Silent, Starts, Goto, sent
<1>1. CASE Enter
  BY <1>1 DEF Enter
<1>2. CASE Versioning
  BY <1>2 DEF Versioning, RaiseOutside
<1>3. CASE Session
  BY <1>3 DEF Session, RaiseOutside
<1>4. CASE Identity
  BY <1>4 DEF Identity, Pass, RaiseOutside
<1>5. CASE MiddlewareCallsNext
  BY <1>5 DEF MiddlewareCallsNext, Pass
<1>6. CASE MiddlewareAnswers
  BY <1>6 DEF MiddlewareAnswers, Send, StartFrom, IInv, Progress, FlagsAgree, Unanswered, BeforeHandlers, InsideHandlers
<1>7. CASE MiddlewareRaises
  BY <1>7 DEF MiddlewareRaises, BackTo
<1>8. CASE RouteMatches
  BY <1>8 DEF RouteMatches, Pass
<1>9. CASE RouteMissing
  BY <1>9 DEF RouteMissing, RaiseInside
<1>10. CASE MountAnswers
  BY <1>10 DEF MountAnswers, Send, StartFrom, IInv, Progress, FlagsAgree, Unanswered, BeforeHandlers, InsideHandlers
<1>11. CASE GuardPasses
  BY <1>11 DEF GuardPasses, Pass
<1>12. CASE GuardRefuses
  BY <1>12 DEF GuardRefuses, RaiseInside
<1>13. CASE InterceptorCallsNext
  BY <1>13 DEF InterceptorCallsNext, Pass
<1>14. CASE InterceptorStops
  BY <1>14 DEF InterceptorStops
<1>15. CASE EndpointEnds
  BY <1>15 DEF EndpointEnds
<1>16. CASE EndpointSends
  BY <1>16 DEF EndpointSends, StartFrom, IInv, Progress, FlagsAgree, Unanswered, BeforeHandlers, InsideHandlers
<1>17. CASE InterceptorReturns
  BY <1>17 DEF InterceptorReturns
<1>18. CASE ChainRaises
  BY <1>18 DEF ChainRaises
<1>19. CASE ChainReturns
  BY <1>19 DEF ChainReturns
<1>20. CASE SkipResponse
  BY <1>20 DEF SkipResponse, AlreadyResponded, BackTo
<1>21. CASE Respond
  BY <1>21 DEF Respond, AlreadyResponded, Send, StartFrom, IInv, Progress, FlagsAgree, Unanswered, BeforeHandlers, InsideHandlers
<1>22. CASE ResponseInvalid
  BY <1>22 DEF ResponseInvalid, AlreadyResponded, RaiseInside
<1>23. CASE MiddlewareIsSilent
  BY <1>23 DEF MiddlewareIsSilent, BackTo
<1> QED BY <1>1, <1>2, <1>3, <1>4, <1>5, <1>6, <1>7, <1>8, <1>9, <1>10, <1>11, <1>12, <1>13, <1>14, <1>15, <1>16, <1>17, <1>18, <1>19, <1>20, <1>21, <1>22, <1>23 DEF Inward, Route

\* The way out sends nothing, starts the one response, or closes the exchange.
LEMMA OutwardEffect == ASSUME IInv, Outward PROVE Silent \/ Starts \/ Close
<1> USE DEF Silent, Starts, Goto, sent
<1>1. CASE NoHandler
  BY <1>1 DEF NoHandler, BackTo
<1>2. CASE HandlerTooLate
  BY <1>2 DEF HandlerTooLate, TooLate, BackTo
<1>3. CASE HandlerAnswers
  BY <1>3 DEF HandlerAnswers, TooLate, Send, StartFrom, IInv, Progress, FlagsAgree, InsideHandlers
<1>4. CASE HandlerFails
  BY <1>4 DEF HandlerFails, TooLate, BackTo
<1>5. CASE MiddlewareReturns
  BY <1>5 DEF MiddlewareReturns, BackTo
<1>6. CASE MiddlewareRecovers
  BY <1>6 DEF MiddlewareRecovers, Send, StartFrom, IInv, Progress, FlagsAgree, InsideHandlers
<1>7. CASE NothingFailed
  BY <1>7 DEF NothingFailed
<1>8. CASE Answer500
  BY <1>8 DEF Answer500, TooLateFor500, Send, StartFrom, IInv, Progress, FlagsAgree, InsideHandlers
<1>9. CASE Fail500
  BY <1>9 DEF Fail500
<1>10. CASE Close
  BY <1>10
<1>11. CASE MiddlewareHides
  BY <1>11 DEF MiddlewareHides, BackTo
<1> QED BY <1>1, <1>2, <1>3, <1>4, <1>5, <1>6, <1>7, <1>8, <1>9, <1>10, <1>11 DEF Outward

\* The end of a response is its last message, or breaks it off.
LEMMA SendingEffect == ASSUME IInv, SendBody \/ SendBreaks PROVE Silent \/ Completes
<1>1. stage = "sending" /\ starts = 1 /\ starts' = starts /\ ~complete /\ complete' \in BOOLEAN
  BY DEF SendBody, SendBreaks, IInv, Progress
<1>2. stage' # "done"
  BY DEF SendBody, SendBreaks, AfterBreaking, AfterSending, BackTo, Goto
<1>3. CASE complete' = TRUE
  BY <1>1, <1>2, <1>3 DEF Completes
<1>4. CASE complete' = FALSE
  BY <1>1, <1>2, <1>4, IInv DEF Silent, IInv, TypeOK
<1> QED BY <1>1, <1>3, <1>4

\* Every step of the pipeline is a step of the ASGI exchange, or none of its
\* business.
LEMMA StepRefines == ASSUME IInv, [Next]_vars PROVE [Exchange!Next]_(Exchange!vars)
<1> USE DEF Exchange!vars
<1>1. CASE Silent
  BY <1>1 DEF Silent
<1>2. CASE Starts
  BY <1>2 DEF Starts, Exchange!Next, Exchange!Start
<1>3. CASE Completes
  BY <1>3 DEF Completes, Exchange!Next, Exchange!Complete
<1>4. CASE Close
  <2>1. /\ stage = "closing" /\ stage' = "done" /\ starts' = starts /\ complete' = complete
        /\ raised' = (exc # "none")
    BY <1>4 DEF Close, Goto, sent
  <2>2. starts \in {0, 1} /\ (starts = 1 \/ exc # "none" \/ muted = TRUE) /\ muted' = muted
    BY <2>1, <1>4 DEF IInv, TypeOK, FlagsAgree, Accounted, Close, history
  <2>3. CASE exc # "none"
    BY <2>1, <2>3 DEF Exchange!Next, Exchange!Raise
  <2>4. CASE exc = "none" /\ starts = 0
    <3>1. ~raised'
      BY <2>1, <2>4
    <3>2. stage = "closing" /\ stage' = "done" /\ starts = 0 /\ starts' = 0
      BY <2>1, <2>4
    <3>3. muted' = TRUE
      BY <2>2, <2>4
    <3> QED BY <3>1, <3>2, <3>3 DEF Exchange!Next, Exchange!Drop
  <2>5. CASE exc = "none" /\ starts = 1
    <3>1. starts = 1 /\ starts' = 1 /\ complete' = complete
      BY <2>1, <2>2, <2>5
    <3>2. ~raised'
      BY <2>1, <2>5
    <3>3. stage = "closing" /\ stage' = "done"
      BY <2>1
    <3> QED BY <3>1, <3>2, <3>3 DEF Exchange!Next, Exchange!Return
  <2> QED BY <2>2, <2>3, <2>4, <2>5
<1>5. CASE UNCHANGED vars
  BY <1>5 DEF vars, sent, history
<1> QED BY <1>1, <1>2, <1>3, <1>4, <1>5, InwardEffect, OutwardEffect, SendingEffect DEF Next

\* The safety part of KeepsContract: a request's messages are those of one
\* ASGI exchange.
THEOREM Contract == Spec => Exchange!Init /\ [][Exchange!Next]_(Exchange!vars)
<1>1. Init => Exchange!Init
  BY DEF Init, Exchange!Init
<1>2. IInv /\ [Next]_vars => [Exchange!Next]_(Exchange!vars)
  BY StepRefines
<1> QED BY <1>1, <1>2, Invariance, PTL DEF Spec
=============================================================================
