-------------------------- MODULE RequestPipeline --------------------------
(***************************************************************************)
(* One HTTP request on its way through an ellar application: the layers of *)
(* the middleware stack that App.build_middleware_stack puts together, the *)
(* route operation with its guards, interceptors and endpoint, and the two *)
(* layers that turn exceptions into responses.                             *)
(*                                                                         *)
(*   RequestServiceProviderMiddleware   resets the flag, answers 500       *)
(*     versioning, session, identity                                       *)
(*       user middleware 1 .. NMiddleware                                  *)
(*         ExceptionMiddleware          answers exceptions with a handler  *)
(*           router, guards 1 .. NGuards, interceptors 1 .. NInterceptors, *)
(*           endpoint, response                                            *)
(*                                                                         *)
(* What application code does in a guard, an interceptor, an endpoint, an  *)
(* exception handler or a middleware is a nondeterministic choice.  Its    *)
(* contract: a user middleware does not answer a request that is answered  *)
(* already, and hides no exception after that; an interceptor calls the    *)
(* next one at most once.                                                  *)
(***************************************************************************)
EXTENDS Integers

CONSTANTS NMiddleware,   \* user middleware
          NGuards,       \* guards of the route
          NInterceptors  \* interceptors of the route

ASSUME LayersAssumption ==
  NMiddleware \in Nat /\ NGuards \in Nat /\ NInterceptors \in Nat

VARIABLES stage,      \* where the request is
          level,      \* the middleware, guard or interceptor whose turn it is
          exc,        \* exception on its way out: "none", "known" or "unknown"
          origin,     \* the layer that sent a response last
          starts,     \* http.response.start messages the server received
          complete,   \* the server received the last message of a response
          flag,       \* scope[SCOPE_RESPONSE_STARTED]
          seen,       \* response_started of ExceptionMiddleware
          serverSeen, \* response_started of ServerErrorMiddleware
          refused,    \* history: a guard refused the request
          handled,    \* history: the endpoint was called
          abandoned,  \* history: the endpoint left a response of its own unfinished
          failed500,  \* history: the application's 500 handler gave no response
          muted,      \* history: a middleware ended the call with no answer and no exception
          raised      \* an exception reached the server

sent    == <<starts, complete, flag, seen, serverSeen>>
history == <<refused, handled, abandoned, failed500, muted>>
vars    == <<stage, level, exc, origin, sent, history, raised>>

BeforeHandlers == {"arrived", "versioning", "session", "identity", "middleware"}

InsideHandlers ==
  {"router", "guards", "interceptors", "endpoint", "leaving", "respond", "catching"}

Stages == BeforeHandlers \union InsideHandlers \union
            {"sending", "unwinding", "failing", "closing", "done"}

\* "known" has an exception handler for its class or its status code.
Exceptions == {"known", "unknown"}

\* The layers that send responses, seen from the outside.
Origins == {"nobody", "server", "middleware", "exceptions", "route", "endpoint"}

Init ==
  /\ stage = "arrived" /\ level = 0 /\ exc = "none" /\ origin = "nobody"
  /\ starts = 0 /\ complete = FALSE
  /\ flag = FALSE /\ seen = FALSE /\ serverSeen = FALSE
  /\ refused = FALSE /\ handled = FALSE /\ abandoned = FALSE /\ failed500 = FALSE
  /\ muted = FALSE
  /\ raised = FALSE

-----------------------------------------------------------------------------
(***************************************************************************)
(* Moving between the layers.                                              *)
(***************************************************************************)
Goto(s, n) == stage' = s /\ level' = n

\* Middleware n gets control back from the layers inside it.
BackTo(n) == IF n = 0 THEN Goto("failing", 0) ELSE Goto("unwinding", n)

\* The layers outside the user middleware let every exception pass.
RaiseOutside(E) ==
  /\ exc' \in E
  /\ Goto("failing", 0)
  /\ UNCHANGED <<origin, sent, history, raised>>

\* An exception of the router, a guard or the response ends in
\* ExceptionMiddleware.
RaiseInside ==
  /\ exc' \in Exceptions
  /\ Goto("catching", 0)

\* Mutant: the chain is one level longer.
BugPass(s, n, size, last) == IF n <= size THEN Goto(s, n + 1) ELSE Goto(last, 0)

\* Level n of a chain of size layers lets the request pass; last comes after
\* the chain.
Pass(s, n, size, last) == IF n < size THEN Goto(s, n + 1) ELSE Goto(last, 0)

-----------------------------------------------------------------------------
(***************************************************************************)
(* Sending.  The start message passes the wrappers of the layers that      *)
(* enclose its origin, and each records it: ExceptionMiddleware's own      *)
(* responses go through its wrapper, the 500 response of the server error  *)
(* layer goes around its own.                                              *)
(***************************************************************************)
StartFrom(o) ==
  /\ starts' = starts + 1
  /\ flag' = TRUE
  /\ seen' = (seen \/ o \in {"endpoint", "route", "exceptions"})
  /\ serverSeen' = (serverSeen \/ o # "server")
  /\ UNCHANGED complete

\* Layer o, inside middleware n, calls a response object.
Send(o, n) ==
  /\ Goto("sending", n)
  /\ origin' = o
  /\ StartFrom(o)
  /\ UNCHANGED <<history, raised>>

\* The layer that gets control once the response is out.
AfterSending ==
  CASE origin = "endpoint"                -> Goto("leaving", NInterceptors)
    [] origin \in {"route", "exceptions"} -> BackTo(NMiddleware)
    [] origin = "middleware"              -> BackTo(level)
    [] OTHER                              -> Goto("closing", 0)

\* The layer that gets an exception which cuts the response off.
AfterBreaking ==
  IF origin = "route" THEN Goto("catching", 0) ELSE AfterSending

SendBody ==
  /\ stage = "sending"
  /\ complete' = TRUE
  /\ AfterSending
  /\ UNCHANGED <<exc, origin, starts, flag, seen, serverSeen, history, raised>>

\* A streaming body raises before the response is complete, or a background
\* task after it.
SendBreaks ==
  /\ stage = "sending"
  /\ complete' \in BOOLEAN
  /\ exc' \in Exceptions
  /\ AfterBreaking
  /\ abandoned' = (abandoned \/ (origin = "endpoint" /\ ~complete'))
  /\ UNCHANGED <<origin, starts, flag, seen, serverSeen, refused, handled, failed500, muted, raised>>

-----------------------------------------------------------------------------
(***************************************************************************)
(* The way in.                                                             *)
(***************************************************************************)
\* RequestServiceProviderMiddleware: a fresh flag for this request.
Enter ==
  /\ stage = "arrived"
  /\ flag' = FALSE
  /\ Goto("versioning", 0)
  /\ UNCHANGED <<exc, origin, starts, complete, seen, serverSeen, history, raised>>

\* The version resolver parses the scope; then a session strategy of the
\* application's own reads its cookie.
Versioning ==
  /\ stage = "versioning"
  /\ \/ Goto("session", 0) /\ UNCHANGED <<exc, origin, sent, history, raised>>
     \/ RaiseOutside({"unknown"})

Session ==
  /\ stage = "session"
  /\ \/ Goto("identity", 0) /\ UNCHANGED <<exc, origin, sent, history, raised>>
     \/ RaiseOutside({"unknown"})

\* Authentication handlers raise API exceptions too: HttpBearerAuth does for a
\* header with another scheme.
Identity ==
  /\ stage = "identity"
  /\ \/ /\ Pass("middleware", 0, NMiddleware, "router")
        /\ UNCHANGED <<exc, origin, sent, history, raised>>
     \/ RaiseOutside(Exceptions)

\* FunctionBasedMiddleware awaits call_next.
MiddlewareCallsNext ==
  /\ stage = "middleware"
  /\ Pass("middleware", level, NMiddleware, "router")
  /\ UNCHANGED <<exc, origin, sent, history, raised>>

\* It returns a response without calling call_next.
MiddlewareAnswers ==
  /\ stage = "middleware"
  /\ Send("middleware", level - 1)
  /\ UNCHANGED exc

\* It neither calls call_next nor returns a Response: the wrapper sends nothing.
MiddlewareIsSilent ==
  /\ stage = "middleware"
  /\ muted' = TRUE
  /\ BackTo(level - 1)
  /\ UNCHANGED <<exc, origin, sent, refused, handled, abandoned, failed500, raised>>

MiddlewareRaises ==
  /\ stage = "middleware"
  /\ exc' \in Exceptions
  /\ BackTo(level - 1)
  /\ UNCHANGED <<origin, sent, history, raised>>

-----------------------------------------------------------------------------
(***************************************************************************)
(* Inside ExceptionMiddleware: the router and the route operation.         *)
(***************************************************************************)
\* A route operation matches.
RouteMatches ==
  /\ stage = "router"
  /\ Pass("guards", 0, NGuards, "interceptors")
  /\ UNCHANGED <<exc, origin, sent, history, raised>>

\* No route, no route for the method or the version, or a route that raises.
RouteMissing ==
  /\ stage = "router"
  /\ RaiseInside
  /\ UNCHANGED <<origin, sent, history, raised>>

\* A static file, a redirect or a mounted application.
MountAnswers ==
  /\ stage = "router"
  /\ Send("route", 0)
  /\ UNCHANGED exc

GuardPasses ==
  /\ stage = "guards"
  /\ Pass("guards", level, NGuards, "interceptors")
  /\ UNCHANGED <<exc, origin, sent, history, raised>>

\* Mutant: the result of a guard is not looked at.
BugGuardRefuses ==
  /\ stage = "guards"
  /\ Pass("guards", level, NGuards, "interceptors")
  /\ refused' = TRUE
  /\ UNCHANGED <<exc, origin, sent, handled, abandoned, failed500, muted, raised>>

GuardRefuses ==
  /\ stage = "guards"
  /\ RaiseInside
  /\ refused' = TRUE
  /\ UNCHANGED <<origin, sent, handled, abandoned, failed500, muted, raised>>

\* level counts the interceptors that were entered: handler(0) comes first.
InterceptorCallsNext ==
  /\ stage = "interceptors"
  /\ Pass("interceptors", level, NInterceptors, "endpoint")
  /\ UNCHANGED <<exc, origin, sent, history, raised>>

\* An entered interceptor returns a value or raises instead of calling next.
InterceptorStops ==
  /\ stage = "interceptors" /\ level > 0
  /\ exc' \in Exceptions \union {"none"}
  /\ Goto("leaving", level - 1)
  /\ UNCHANGED <<origin, sent, history, raised>>

\* The endpoint, or the resolution of its parameters, returns or raises.
EndpointEnds ==
  /\ stage = "endpoint"
  /\ handled' = TRUE
  /\ exc' \in Exceptions \union {"none"}
  /\ Goto("leaving", NInterceptors)
  /\ UNCHANGED <<origin, sent, refused, abandoned, failed500, muted, raised>>

\* The endpoint calls a response of its own with the context's send.
EndpointSends ==
  /\ stage = "endpoint"
  /\ Goto("sending", 0)
  /\ origin' = "endpoint"
  /\ StartFrom("endpoint")
  /\ handled' = TRUE
  /\ UNCHANGED <<exc, refused, abandoned, failed500, muted, raised>>

\* Interceptor level gets a value or an exception from the one inside it, and
\* passes it on, replaces it or swallows it.
InterceptorReturns ==
  /\ stage = "leaving" /\ level > 0
  /\ exc' \in Exceptions \union {"none"}
  /\ Goto("leaving", level - 1)
  /\ UNCHANGED <<origin, sent, history, raised>>

\* The chain is left with an exception.
ChainRaises ==
  /\ stage = "leaving" /\ level = 0 /\ exc # "none"
  /\ Goto("catching", 0)
  /\ UNCHANGED <<exc, origin, sent, history, raised>>

ChainReturns ==
  /\ stage = "leaving" /\ level = 0 /\ exc = "none"
  /\ Goto("respond", 0)
  /\ UNCHANGED <<exc, origin, sent, history, raised>>

\* Mutant: the flag is not looked at.
BugAlreadyResponded == FALSE

\* EllarInterceptorConsumer stops when a response was started.
AlreadyResponded == flag

SkipResponse ==
  /\ stage = "respond" /\ AlreadyResponded
  /\ BackTo(NMiddleware)
  /\ UNCHANGED <<exc, origin, sent, history, raised>>

\* The value becomes a response, which is called with the context's send.
Respond ==
  /\ stage = "respond" /\ ~AlreadyResponded
  /\ Send("route", 0)
  /\ UNCHANGED exc

\* The value does not fit the response model.
ResponseInvalid ==
  /\ stage = "respond" /\ ~AlreadyResponded
  /\ RaiseInside
  /\ UNCHANGED <<origin, sent, history, raised>>

-----------------------------------------------------------------------------
(***************************************************************************)
(* ExceptionMiddleware and the way out.                                    *)
(***************************************************************************)
\* No handler: the exception goes on.
NoHandler ==
  /\ stage = "catching" /\ exc = "unknown"
  /\ BackTo(NMiddleware)
  /\ UNCHANGED <<exc, origin, sent, history, raised>>

TooLate == seen

\* Mutant: the late exception is dropped.
BugHandlerTooLate ==
  /\ stage = "catching" /\ exc = "known" /\ TooLate
  /\ exc' = "none"
  /\ BackTo(NMiddleware)
  /\ UNCHANGED <<origin, sent, history, raised>>

\* RuntimeError("Caught handled exception, but response already started.")
HandlerTooLate ==
  /\ stage = "catching" /\ exc = "known" /\ TooLate
  /\ exc' = "unknown"
  /\ BackTo(NMiddleware)
  /\ UNCHANGED <<origin, sent, history, raised>>

HandlerAnswers ==
  /\ stage = "catching" /\ exc = "known" /\ ~TooLate
  /\ exc' = "none"
  /\ Send("exceptions", 0)

\* Mutant: a handler without a response is let pass.
BugHandlerFails ==
  /\ stage = "catching" /\ exc = "known" /\ ~TooLate
  /\ exc' \in Exceptions \union {"none"}
  /\ BackTo(NMiddleware)
  /\ UNCHANGED <<origin, sent, history, raised>>

\* The handler raises, or returns no response: RuntimeError.
HandlerFails ==
  /\ stage = "catching" /\ exc = "known" /\ ~TooLate
  /\ exc' \in Exceptions
  /\ BackTo(NMiddleware)
  /\ UNCHANGED <<origin, sent, history, raised>>

\* User middleware level gets control back: it passes on what it got, or
\* raises.
MiddlewareReturns ==
  /\ stage = "unwinding"
  /\ exc' \in Exceptions \union {exc}
  /\ BackTo(level - 1)
  /\ UNCHANGED <<origin, sent, history, raised>>

\* It hides the exception of an unanswered request and returns no Response.
MiddlewareHides ==
  /\ stage = "unwinding" /\ exc # "none" /\ starts = 0
  /\ exc' = "none"
  /\ muted' = TRUE
  /\ BackTo(level - 1)
  /\ UNCHANGED <<origin, sent, refused, handled, abandoned, failed500, raised>>

\* It answers a request that is unanswered, after an exception, which it hides,
\* or after a middleware that was silent.
MiddlewareRecovers ==
  /\ stage = "unwinding" /\ starts = 0
  /\ exc' = "none"
  /\ Send("middleware", level - 1)

\* The server error layer got no exception.
NothingFailed ==
  /\ stage = "failing" /\ exc = "none"
  /\ Goto("closing", 0)
  /\ UNCHANGED <<exc, origin, sent, history, raised>>

\* Mutant: only a complete response counts.
BugTooLateFor500 == complete

TooLateFor500 == serverSeen

\* It sends the 500 response of the handler unless a response was started.
Answer500 ==
  /\ stage = "failing" /\ exc # "none"
  /\ IF TooLateFor500
     THEN Goto("closing", 0) /\ UNCHANGED <<origin, sent, history, raised>>
     ELSE Send("server", 0)
  /\ UNCHANGED exc

\* The application's handler for 500 raises or returns no response.
Fail500 ==
  /\ stage = "failing" /\ exc # "none"
  /\ failed500' = TRUE
  /\ Goto("closing", 0)
  /\ UNCHANGED <<exc, origin, sent, refused, handled, abandoned, muted, raised>>

\* The call returns to the server, or raises the exception again.
Close ==
  /\ stage = "closing"
  /\ raised' = (exc # "none")
  /\ Goto("done", 0)
  /\ UNCHANGED <<exc, origin, sent, history>>

Inward ==
  \/ Enter \/ Versioning \/ Session \/ Identity
  \/ MiddlewareCallsNext \/ MiddlewareAnswers \/ MiddlewareIsSilent \/ MiddlewareRaises

Route ==
  \/ RouteMatches \/ RouteMissing \/ MountAnswers
  \/ GuardPasses \/ GuardRefuses
  \/ InterceptorCallsNext \/ InterceptorStops
  \/ EndpointEnds \/ EndpointSends
  \/ InterceptorReturns \/ ChainRaises \/ ChainReturns
  \/ SkipResponse \/ Respond \/ ResponseInvalid

Outward ==
  \/ NoHandler \/ HandlerTooLate \/ HandlerAnswers \/ HandlerFails
  \/ MiddlewareReturns \/ MiddlewareHides \/ MiddlewareRecovers
  \/ NothingFailed \/ Answer500 \/ Fail500 \/ Close

Next == Inward \/ Route \/ SendBody \/ SendBreaks \/ Outward

\* The event loop resumes a request that can go on: application code returns.
Spec == Init /\ [][Next]_vars /\ WF_vars(Next)

-----------------------------------------------------------------------------
\* The variables have their types: the request is at a known place of the
\* pipeline, and the level is one of that place's chain.
TypeOK ==
  /\ stage \in Stages
  /\ level \in Nat
  /\ stage \in {"middleware", "unwinding"} => level \in 1 .. NMiddleware
  /\ stage = "guards" => level \in 1 .. NGuards
  /\ stage \in {"interceptors", "leaving"} => level \in 0 .. NInterceptors
  /\ exc \in Exceptions \union {"none"}
  /\ origin \in Origins
  /\ starts \in Nat
  /\ complete \in BOOLEAN /\ flag \in BOOLEAN /\ seen \in BOOLEAN /\ serverSeen \in BOOLEAN
  /\ refused \in BOOLEAN /\ handled \in BOOLEAN /\ abandoned \in BOOLEAN
  /\ failed500 \in BOOLEAN /\ muted \in BOOLEAN /\ raised \in BOOLEAN

\* The server never gets a second http.response.start, whichever of the four
\* layers that can answer (middleware, route, exception handlers, 500 handler)
\* does so, and whatever raises in between.
OneStart == starts <= 1

\* A request that a guard refused never reaches the endpoint, not even when
\* something further out hides the exception the guard raised.
GuardsDecide == refused => ~handled

\* No request is forgotten by the framework: a call that has ended has started a
\* response, unless the application's own 500 handler failed, which the server is
\* told, or a function middleware returned no Response for a request that it did
\* not pass on or whose exception it hid.
Answered == stage = "done" => starts = 1 \/ (raised /\ failed500) \/ muted

\* A response that is cut off is reported to the server as an exception,
\* except where the endpoint's own half-sent response was hidden by an
\* interceptor.
CutOffReported == stage = "done" /\ starts = 1 /\ ~complete => raised \/ abandoned

Exchange == INSTANCE AsgiExchange WITH
  response <- CASE starts = 0 -> "none"
                [] starts = 1 -> (IF complete THEN "complete" ELSE "started")
                [] OTHER      -> "twice",
  call     <- IF stage # "done" THEN "running" ELSE IF raised THEN "raised"
              ELSE IF muted /\ starts = 0 THEN "dropped" ELSE "returned"

\* The pipeline keeps the ASGI server's contract for one HTTP request, and drops
\* only a request that a function middleware left without a response.
KeepsContract == Exchange!Spec
=============================================================================
