-------------------------- MODULE WebSocketSession --------------------------
(***************************************************************************)
(* One connection to a WebSocket route (common/routing/websocket): guards, *)
(* parameters, and then the plain endpoint or the extra handler, which     *)
(* connects, receives messages until the client leaves or something fails, *)
(* and disconnects.  The client sends what it likes and may leave at any   *)
(* time; what is sent to a client that has left may raise.                 *)
(***************************************************************************)
EXTENDS Integers, Sequences

CONSTANT MaxMessages \* bound: the messages of the client

ASSUME MessageAssumption == MaxMessages \in Nat

\* What a message turns out to be: good for the handler, not decodable, or
\* decodable but rejected by the body parameters.
Sort == {"good", "undecodable", "invalid"}
Disconnect == "disconnect"

VARIABLES wsStage,   \* what the connection is doing
          extra,     \* use_extra_handler
          socket,    \* websocket.application_state
          inbox,     \* what the server received and the handler did not yet
          left,      \* the client has left
          sent,      \* how many messages the client sent
          closeCode, \* the local variable close_code
          wireCode,  \* the code the socket was closed with, 0 for none
          outcome,   \* how handle_request ends: "", "returned" or "raised"
          entered,   \* history: on_connect returned
          told       \* history: the codes on_disconnect was called with

wsVars == <<wsStage, extra, socket, inbox, left, sent, closeCode, wireCode, outcome, entered, told>>
client == <<inbox, left, sent>>
local  == <<closeCode, entered, told>>

WsInit ==
  /\ wsStage = "guards"
  /\ extra \in BOOLEAN
  /\ socket = "connecting"
  /\ inbox = <<>> /\ left = FALSE /\ sent = 0
  /\ closeCode = 1000 /\ wireCode = 0
  /\ outcome = ""
  /\ entered = FALSE
  /\ told = <<>>

To(stage) == wsStage' = stage
End(how)  == To("done") /\ outcome' = how

CloseSocket(code) == socket' = "closed" /\ wireCode' = IF wireCode = 0 THEN code ELSE wireCode

-----------------------------------------------------------------------------
ClientSends ==
  /\ ~left /\ sent < MaxMessages
  /\ sent' = sent + 1
  /\ \E m \in Sort : inbox' = Append(inbox, m)
  /\ UNCHANGED <<wsStage, extra, socket, left, wireCode, outcome, local>>

ClientLeaves ==
  /\ ~left
  /\ left' = TRUE
  /\ inbox' = Append(inbox, Disconnect)
  /\ UNCHANGED <<wsStage, extra, socket, sent, wireCode, outcome, local>>

-----------------------------------------------------------------------------
WsGuards ==
  /\ wsStage = "guards"
  /\ \/ To("params") /\ UNCHANGED outcome
     \/ End("raised")
  /\ UNCHANGED <<extra, socket, client, wireCode, local>>

\* Errors are sent to the client, over a socket that is accepted for that.
WsParams ==
  /\ wsStage = "params"
  /\ \/ /\ To(IF extra THEN "connect" ELSE "endpoint")
        /\ UNCHANGED <<socket, wireCode, outcome>>
     \/ CloseSocket(1008) /\ End("raised")
     \/ left /\ socket' = "open" /\ End("raised") /\ UNCHANGED wireCode
  /\ UNCHANGED <<extra, client, local>>

\* Without the extra handler the endpoint does everything.
WsEndpoint ==
  /\ wsStage = "endpoint"
  /\ socket' \in {"connecting", "open", "closed"}
  /\ \E how \in {"returned", "raised"} : End(how)
  /\ UNCHANGED <<extra, client, wireCode, local>>

\* Mutant: on_connect runs inside the try.
BugConnectRaises == To("ending") /\ closeCode' = 1011 /\ outcome' = "raised"

\* on_connect runs before the try.
ConnectRaises == End("raised") /\ UNCHANGED closeCode

WsConnect ==
  /\ wsStage = "connect"
  /\ \/ /\ To("receive") /\ socket' = "open" /\ entered' = TRUE
        /\ UNCHANGED <<outcome, closeCode>>
     \/ ConnectRaises /\ socket' \in {"connecting", "open"} /\ UNCHANGED entered
  /\ UNCHANGED <<extra, client, wireCode, told>>

\* A WebSocketException: the socket is closed with its code, close_code stays.
\* The socket may be closed already; then closing it raises.
EndWithCode(code) ==
  /\ To("ending") /\ outcome' = "raised"
  /\ CloseSocket(code)
  /\ UNCHANGED closeCode

\* Any other exception: only close_code is set.
EndWithError ==
  /\ To("ending") /\ outcome' = "raised" /\ closeCode' = 1011
  /\ UNCHANGED <<socket, wireCode>>

\* Mutant: a disconnect message does not end the loop.
BugLeave == To("receive") /\ UNCHANGED outcome
Leave    == To("ending") /\ outcome' = "returned"

WsReceive ==
  /\ wsStage = "receive" /\ inbox # <<>>
  /\ inbox' = Tail(inbox)
  /\ \/ /\ Head(inbox) = Disconnect
        /\ Leave
        /\ closeCode' \in {1000, 1001}
        /\ UNCHANGED <<socket, wireCode>>
     \/ Head(inbox) = "undecodable" /\ EndWithCode(1003)
     \/ Head(inbox) = "invalid" /\ EndWithError
     \/ /\ Head(inbox) = "good"
        /\ To("handle") /\ UNCHANGED <<outcome, closeCode, socket, wireCode>>
  /\ UNCHANGED <<extra, left, sent, entered, told>>

\* on_receive returns, perhaps after it closed the socket, or raises.
WsHandle ==
  /\ wsStage = "handle"
  /\ \/ To("receive") /\ UNCHANGED <<outcome, closeCode, socket, wireCode>>
     \/ To("receive") /\ CloseSocket(1000) /\ UNCHANGED <<outcome, closeCode>>
     \/ EndWithCode(1009)
     \/ EndWithError
  /\ UNCHANGED <<extra, client, entered, told>>

\* on_disconnect of the handler is called with the code, if it has one.
ExecuteOnDisconnect == told' = Append(told, closeCode)

\* finally: on_disconnect, which may itself close the socket or raise.
WsDisconnect ==
  /\ wsStage = "ending"
  /\ ExecuteOnDisconnect
  /\ \/ End(outcome) /\ UNCHANGED <<socket, wireCode>>
     \/ socket # "closed" /\ CloseSocket(closeCode) /\ End(outcome)
     \/ End("raised") /\ UNCHANGED <<socket, wireCode>>
  /\ UNCHANGED <<extra, client, closeCode, entered>>

WsServer ==
  \/ WsGuards \/ WsParams \/ WsEndpoint \/ WsConnect
  \/ WsReceive \/ WsHandle \/ WsDisconnect

WsNext == ClientSends \/ ClientLeaves \/ WsServer

-----------------------------------------------------------------------------
\* on_disconnect is called once for every session whose on_connect returned,
\* however the session ended, and never for another: what on_connect set up
\* is torn down, and nothing is torn down that was not set up.
DisconnectOnce ==
  /\ wsStage = "done" => Len(told) = IF entered THEN 1 ELSE 0
  /\ Len(told) > 0 => entered /\ wsStage = "done"

\* A session is over once its client has left, whatever the handler did about
\* the messages that came before.
LeavingEnds == left ~> wsStage = "done"
=============================================================================
