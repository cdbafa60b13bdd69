--------------------------- MODULE MCConnections ---------------------------
(***************************************************************************)
(* The client connections for TLC: a WebSocket route, a Socket.IO gateway  *)
(* or the requests of a session.  The three share nothing, so one of them  *)
(* runs and the others stay as they are.                                   *)
(***************************************************************************)
EXTENDS WebSocketSession, SocketGateway, SessionCookie

VARIABLE subject \* which of the three runs

allVars == <<wsVars, gatewayVars, cookieVars, subject>>

Init ==
  /\ WsInit /\ GatewayInit /\ CookieInit
  /\ subject \in {"websocket", "gateway", "session"}

Only(s) ==
  /\ subject = s /\ UNCHANGED subject
  /\ s # "websocket" => UNCHANGED wsVars
  /\ s # "gateway" => UNCHANGED gatewayVars
  /\ s # "session" => UNCHANGED cookieVars

Next ==
  \/ Only("websocket") /\ WsNext
  \/ Only("gateway") /\ GatewayNext
  \/ Only("session") /\ CookieNext

\* The event loop resumes every task that is ready to run, and the handlers of
\* the application end.
Fairness ==
  /\ WF_allVars(Only("websocket") /\ WsServer)
  /\ \A e \in Event : WF_allVars(Only("gateway") /\ GatewayTask(e))

Spec == Init /\ [][Next]_allVars /\ Fairness

=============================================================================
