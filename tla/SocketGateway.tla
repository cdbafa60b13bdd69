--------------------------- MODULE SocketGateway ---------------------------
(***************************************************************************)
(* One client of a Socket.IO gateway (socket_io/gateway.py).  The library  *)
(* runs the handler of every message in a task of its own, and these tasks *)
(* share the gateway instance: it is request-scoped, and a connection over *)
(* WebSocket is one request.  Each task writes its context to the instance *)
(* before its guards and reads it from there after them.                   *)
(***************************************************************************)
EXTENDS Integers

CONSTANT Message \* the messages the client sends

\* What is handled: the two events of the connection, and the messages.
Event == Message \cup {"connect", "disconnect"}

VARIABLES gate,     \* "connecting", "connected" or "closed"
          op,       \* what the task of each event does
          context,  \* gateway_instance.context: the event it was made for
          refused,  \* history: the events a guard refused
          ran,      \* history: event -> the event whose data its handler got
          warned,     \* history: an error was delivered to the client
          closer    \* history: who closed the connection

gatewayVars == <<gate, op, context, refused, ran, warned, closer>>

GatewayInit ==
  /\ gate = "connecting"
  /\ op = [e \in Event |-> "none"]
  /\ context = "none"
  /\ refused = {}
  /\ ran = [e \in {} |-> e]
  /\ warned = FALSE
  /\ closer = "none"

Moves(e, from, to) == op[e] = from /\ op' = [op EXCEPT ![e] = to]

ClientConnects ==
  /\ gate = "connecting"
  /\ Moves("connect", "none", "arrived")
  /\ UNCHANGED <<gate, context, refused, ran, warned, closer>>

\* on_connected ends before the library accepts the connection.
Accepted ==
  /\ gate = "connecting" /\ op["connect"] = "done"
  /\ gate' = "connected"
  /\ UNCHANGED <<op, context, refused, ran, warned, closer>>

ClientMessage(e) ==
  /\ e \in Message /\ gate = "connected"
  /\ Moves(e, "none", "arrived")
  /\ UNCHANGED <<gate, context, refused, ran, warned, closer>>

ClientGoes ==
  /\ gate = "connected"
  /\ gate' = "closed" /\ closer' = "client"
  /\ Moves("disconnect", "none", "arrived")
  /\ UNCHANGED <<context, refused, ran, warned>>

\* _get_gateway_instance_and_context; the guards get the context themselves.
Enter(e) ==
  /\ Moves(e, "arrived", "guards")
  /\ context' = e
  /\ UNCHANGED <<gate, refused, ran, warned, closer>>

\* run_route_guards: whatever a guard raises ends here, and the handler is
\* next in any case.
Guard(e) ==
  /\ \/ Moves(e, "guards", "resolve") /\ UNCHANGED refused
     \/ Moves(e, "guards", "refusing") /\ refused' = refused \cup {e}
  /\ UNCHANGED <<gate, context, ran, warned, closer>>

\* Mutant: the client is disconnected first.
BugEmitError(e) ==
  /\ \/ Moves(e, "refusing", "expelling")
     \/ Moves(e, "failing", "closing")
  /\ UNCHANGED <<gate, context, refused, ran, warned, closer>>

\* emit("error", ...): a client that is gone does not get it.
EmitError(e) ==
  /\ \/ Moves(e, "refusing", "expelling")
     \/ Moves(e, "failing", "closing")
  /\ warned' = (warned \/ gate # "closed")
  /\ UNCHANGED <<gate, context, refused, ran, closer>>

After(e) == IF op[e] = "expelling" THEN "resolve" ELSE "done"

\* Mutant: every disconnection waits for on_disconnected, its own included.
BugServerDisconnect(e) ==
  /\ op[e] \in {"expelling", "closing"}
  /\ LET waits == [op EXCEPT ![e] = IF op[e] = "expelling" THEN "expelled" ELSE "closed"]
     IN  op' = IF gate = "closed" THEN waits ELSE [waits EXCEPT !["disconnect"] = "arrived"]
  /\ gate' = "closed"
  /\ closer' = IF gate = "closed" THEN closer ELSE "server"
  /\ UNCHANGED <<context, refused, ran, warned>>

\* server.disconnect runs on_disconnected, and waits for it; it does nothing
\* for a client that is disconnected already.
ServerDisconnect(e) ==
  /\ op[e] \in {"expelling", "closing"}
  /\ \/ /\ gate # "closed"
        /\ gate' = "closed" /\ closer' = "server"
        /\ op' = [op EXCEPT ![e] = IF op[e] = "expelling" THEN "expelled" ELSE "closed",
                            !["disconnect"] = "arrived"]
     \/ /\ gate = "closed"
        /\ op' = [op EXCEPT ![e] = After(e)]
        /\ UNCHANGED <<gate, closer>>
  /\ UNCHANGED <<context, refused, ran, warned>>

Disconnected(e) ==
  /\ op["disconnect"] = "done"
  /\ \/ Moves(e, "expelled", "resolve")
     \/ Moves(e, "closed", "done")
  /\ UNCHANGED <<gate, context, refused, ran, warned, closer>>

\* _run_handler takes the message from the instance's context; without one, or
\* with errors, the handler does not run.
Resolve(e) ==
  /\ \/ /\ Moves(e, "resolve", "handle")
        /\ ran' = [d \in DOMAIN ran \cup {e} |-> IF d = e THEN context ELSE ran[d]]
     \/ Moves(e, "resolve", "failing") /\ UNCHANGED ran
  /\ UNCHANGED <<gate, context, refused, warned, closer>>

\* The handler returns, and its result is emitted, or it raises.
Handle(e) ==
  /\ \/ Moves(e, "handle", "done")
     \/ Moves(e, "handle", "failing")
  /\ UNCHANGED <<gate, context, refused, ran, warned, closer>>


GatewayTask(e) ==
  \/ Enter(e) \/ Guard(e) \/ EmitError(e) \/ ServerDisconnect(e)
  \/ Disconnected(e) \/ Resolve(e) \/ Handle(e)

GatewayNext ==
  \/ ClientConnects \/ Accepted \/ ClientGoes
  \/ \E e \in Message : ClientMessage(e)
  \/ \E e \in Event : GatewayTask(e)

-----------------------------------------------------------------------------
\* A connection the server closed got an error first: no task closes it before
\* some task warned the client why, whichever of them comes first.
ToldWhy == closer = "server" => warned

\* Every event that arrived is dealt with, though a task may wait for the
\* disconnection, which is an event that may fail and disconnect in turn.
EventsEnd == \A e \in Event : op[e] = "arrived" ~> op[e] = "done"

\* docs/overview/guards.md:4: "If the guard returns false, the request is
\* rejected and the execution is stopped", and docs/websockets/socketio.md:202
\* finds "no fundamental difference" for gateways.  No handler runs for an
\* event that a guard refused.
RefusedNeverRuns == \A e \in refused : e \notin DOMAIN ran
=============================================================================
