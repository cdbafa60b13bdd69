------------------------- MODULE ConnectionsProofs -------------------------
(***************************************************************************)
(* Proofs about the client connections, for any number of messages, of     *)
(* events and of visits.  The three subjects share no variable, so the     *)
(* invariant of each is kept by its own steps and by every step that       *)
(* leaves its variables alone.                                             *)
(***************************************************************************)
EXTENDS MCConnections, TLAPS

\* The step of a connection leaves two of the three subjects as they are.
LEMMA OnlyLemma ==
  ASSUME [Next]_allVars
  PROVE  /\ WsNext \/ UNCHANGED wsVars
         /\ GatewayNext \/ UNCHANGED gatewayVars
         /\ CookieNext \/ UNCHANGED cookieVars
<1>1. CASE Only("websocket") /\ WsNext
  BY <1>1 DEF Only
<1>2. CASE Only("gateway") /\ GatewayNext
  BY <1>2 DEF Only
<1>3. CASE Only("session") /\ CookieNext
  BY <1>3 DEF Only
<1>4. CASE UNCHANGED allVars
  BY <1>4 DEF allVars
<1> QED BY <1>1, <1>2, <1>3, <1>4 DEF Next

-----------------------------------------------------------------------------
(***************************************************************************)
(* The WebSocket route: where the connection stands decides whether it was *)
(* entered and whether its handler has been told of the end.               *)
(***************************************************************************)
WsTyped == told \in Seq(Int) /\ closeCode \in Int /\ entered \in BOOLEAN

Before == {"guards", "params", "endpoint", "connect"}
Within == {"receive", "handle", "ending"}

WsInv ==
  /\ WsTyped
  /\ wsStage \in Before \cup Within \cup {"done"}
  /\ wsStage \in Before => ~entered /\ told = <<>>
  /\ wsStage \in Within => entered /\ told = <<>>
  /\ wsStage = "done" => Len(told) = IF entered THEN 1 ELSE 0

LEMMA WsInitInv == Init => WsInv
<1> SUFFICES ASSUME WsInit PROVE WsInv
  BY DEF Init
<1>1. ~entered /\ entered \in BOOLEAN
  BY DEF WsInit
<1>2. wsStage = "guards" /\ told = <<>> /\ closeCode = 1000
  BY DEF WsInit
<1>3. told \in Seq(Int)
  BY <1>2
<1> QED BY <1>1, <1>2, <1>3 DEF WsInv, WsTyped, Before, Within

\* Every step of the client and of the route keeps the invariant.
LEMMA WsNextInv == WsInv /\ [Next]_allVars => WsInv'
<1> SUFFICES ASSUME WsInv, WsNext \/ UNCHANGED wsVars PROVE WsInv'
  BY OnlyLemma
<1> USE DEF To, End, Before, Within
<1>1. CASE ClientSends \/ ClientLeaves
  BY <1>1 DEF ClientSends, ClientLeaves, local, WsInv, WsTyped
<1>2. CASE WsGuards \/ WsParams \/ WsEndpoint
  BY <1>2 DEF WsGuards, WsParams, WsEndpoint, local, WsInv, WsTyped
<1>3. CASE WsConnect
  <2>1. CASE To("receive") /\ entered' = TRUE /\ UNCHANGED closeCode
    BY <2>1, <1>3 DEF WsConnect, WsInv, WsTyped
  <2>2. CASE ConnectRaises /\ UNCHANGED entered
    BY <2>2, <1>3 DEF WsConnect, ConnectRaises, WsInv, WsTyped
  <2> QED BY <2>1, <2>2, <1>3 DEF WsConnect
<1>4. CASE WsReceive
  BY <1>4 DEF WsReceive, Leave, EndWithCode, EndWithError, WsInv, WsTyped
<1>5. CASE WsHandle
  BY <1>5 DEF WsHandle, EndWithCode, EndWithError, WsInv, WsTyped
<1>6. CASE WsDisconnect
  <2>1. /\ wsStage = "ending" /\ wsStage' = "done"
        /\ told' = Append(told, closeCode) /\ UNCHANGED <<closeCode, entered>>
    BY <1>6 DEF WsDisconnect, ExecuteOnDisconnect
  <2>2. told' \in Seq(Int) /\ Len(told') = 1
    BY <2>1 DEF WsInv, WsTyped
  <2> QED BY <2>1, <2>2 DEF WsInv, WsTyped
<1>7. CASE UNCHANGED wsVars
  BY <1>7 DEF wsVars, WsInv, WsTyped
<1> QED BY <1>1, <1>2, <1>3, <1>4, <1>5, <1>6, <1>7 DEF WsNext, WsServer

\* on_disconnect is called exactly once for a session that on_connect entered,
\* and never for another, whatever the client sends and whatever fails.
THEOREM TornDownOnce == Spec => []DisconnectOnce
<1>1. WsInv => DisconnectOnce
  BY DEF WsInv, WsTyped, DisconnectOnce, Before, Within
<1> QED BY WsInitInv, WsNextInv, <1>1, PTL DEF Spec

-----------------------------------------------------------------------------
(***************************************************************************)
(* The Socket.IO gateway.  A task that is about to close the connection    *)
(* has warned the client, unless the client was gone already; and a closed *)
(* connection stays closed, so that this remains true of every such task   *)
(* while the others go on.                                                 *)
(***************************************************************************)
Closing(e) == op[e] \in {"expelling", "closing"}

GatewayInv ==
  /\ DOMAIN op = Event
  /\ \A e \in Event : Closing(e) => warned \/ gate = "closed"
  /\ closer = "server" => warned

LEMMA GatewayInitInv == Init => GatewayInv
BY DEF Init, GatewayInit, GatewayInv, Closing

\* Every step of the client and of a task keeps the invariant.
LEMMA GatewayNextInv == GatewayInv /\ [Next]_allVars => GatewayInv'
<1> SUFFICES ASSUME GatewayInv, GatewayNext \/ UNCHANGED gatewayVars PROVE GatewayInv'
  BY OnlyLemma
<1>0. "connect" \in Event /\ "disconnect" \in Event /\ Message \subseteq Event
  BY DEF Event
<1>1. ASSUME NEW e \in Event, NEW from, NEW to, Moves(e, from, to),
             to \notin {"expelling", "closing"} \/ warned' \/ gate' = "closed",
             warned => warned', gate = "closed" => gate' = "closed",
             closer' = "server" => closer = "server"
      PROVE  GatewayInv'
  BY <1>1 DEF Moves, GatewayInv, Closing
<1>2. CASE ClientConnects
  BY <1>0, <1>1, <1>2 DEF ClientConnects
<1>3. CASE Accepted
  BY <1>3 DEF Accepted, GatewayInv, Closing
<1>4. CASE ClientGoes
  BY <1>0, <1>1, <1>4 DEF ClientGoes
<1>5. ASSUME NEW e \in Message, ClientMessage(e)
      PROVE  GatewayInv'
  BY <1>0, <1>1, <1>5 DEF ClientMessage
<1>6. ASSUME NEW e \in Event, GatewayTask(e)
      PROVE  GatewayInv'
  <2>1. CASE Enter(e)
    BY <2>1, <1>1 DEF Enter
  <2>2. CASE Guard(e)
    BY <2>2, <1>1 DEF Guard
  <2>3. CASE EmitError(e)
    BY <2>3, <1>1 DEF EmitError
  <2>4. CASE ServerDisconnect(e)
    <3>1. CASE /\ gate # "closed" /\ gate' = "closed" /\ closer' = "server"
               /\ op' = [op EXCEPT ![e] = IF op[e] = "expelling" THEN "expelled" ELSE "closed",
                                   !["disconnect"] = "arrived"]
      <4>1. warned /\ warned'
        BY <2>4, <3>1 DEF ServerDisconnect, GatewayInv, Closing
      <4> QED BY <3>1, <4>1 DEF GatewayInv, Closing
    <3>2. CASE /\ gate = "closed" /\ op' = [op EXCEPT ![e] = After(e)]
               /\ UNCHANGED <<gate, closer>>
      BY <2>4, <3>2 DEF ServerDisconnect, GatewayInv, Closing
    <3> QED BY <2>4, <3>1, <3>2 DEF ServerDisconnect
  <2>5. CASE Disconnected(e)
    BY <2>5, <1>1 DEF Disconnected
  <2>6. CASE Resolve(e)
    BY <2>6, <1>1 DEF Resolve
  <2>7. CASE Handle(e)
    BY <2>7, <1>1 DEF Handle
  <2> QED BY <1>6, <2>1, <2>2, <2>3, <2>4, <2>5, <2>6, <2>7 DEF GatewayTask
<1>7. CASE UNCHANGED gatewayVars
  BY <1>7 DEF gatewayVars, GatewayInv, Closing
<1> QED BY <1>2, <1>3, <1>4, <1>5, <1>6, <1>7 DEF GatewayNext

\* The server never closes a connection before some task warned the client,
\* however many tasks refuse, fail and disconnect at the same time.
THEOREM WarnedBeforeClosed == Spec => []ToldWhy
<1>1. GatewayInv => ToldWhy
  BY DEF GatewayInv, ToldWhy
<1> QED BY GatewayInitInv, GatewayNextInv, <1>1, PTL DEF Spec

-----------------------------------------------------------------------------
(***************************************************************************)
(* The session.  While requests do not overlap at most one is away, and    *)
(* what has to be kept is, one after the other, in the cookie it carries,  *)
(* in its session, in the cookie of its response and in the client's jar;  *)
(* which until then holds what was there before, should the request fail.  *)
(***************************************************************************)
Away(v) == visit[v] \notin {"home", "back"}

KeptIn(v) ==
  /\ visit[v] \in {"sent", "started"} => carried[v] = kept
  /\ visit[v] = "running" => session[v] = kept
  /\ visit[v] \in {"sent", "running"} => jar = before[v]
  /\ visit[v] = "failed" => jar = kept

CookieInv ==
  /\ visit \in [Visit -> {"home", "sent", "running", "started", "failed", "back"}]
  /\ DOMAIN carried = Visit /\ DOMAIN session = Visit /\ DOMAIN before = Visit
  /\ overlapped \in BOOLEAN
  /\ ~overlapped => /\ \A v, w \in Visit : Away(v) /\ Away(w) => v = w
                    /\ \A v \in Visit : KeptIn(v)
                    /\ (\A v \in Visit : ~Away(v)) => jar = kept

LEMMA CookieInitInv == Init => CookieInv
<1> SUFFICES ASSUME CookieInit PROVE CookieInv
  BY DEF Init
<1>1. overlapped \in BOOLEAN
  BY DEF CookieInit
<1> QED BY <1>1 DEF CookieInit, CookieInv, Away, KeptIn

\* Every step of a visit keeps the invariant.
LEMMA CookieNextInv == CookieInv /\ [Next]_allVars => CookieInv'
<1> SUFFICES ASSUME CookieInv, CookieNext \/ UNCHANGED cookieVars PROVE CookieInv'
  BY OnlyLemma
<1> USE DEF Away, KeptIn
<1>1. ASSUME NEW v \in Visit, Send(v)
      PROVE  CookieInv'
  <2>1. ~overlapped' => ~overlapped /\ (\A w \in Visit : ~Away(w)) /\ jar = kept
    BY <1>1 DEF Send, CookieInv
  <2>2. overlapped' \in BOOLEAN
    BY <1>1 DEF Send, CookieInv
  <2> QED BY <1>1, <2>1, <2>2 DEF Send, Goes, CookieInv
<1>2. ASSUME NEW v \in Visit, Load(v) \/ Change(v) \/ Clear(v) \/ Start(v) \/ Fail(v) \/ LateChange(v)
      PROVE  CookieInv'
  <2>1. ~overlapped => \A w \in Visit \ {v} : ~Away(w)
    BY <1>2 DEF Load, Change, Clear, Start, Fail, LateChange, Goes, CookieInv
  <2>2. CASE Load(v)
    BY <2>1, <2>2 DEF Keep, Load, Goes, CookieInv
  <2>3. CASE Change(v)
    BY <2>1, <2>3 DEF Keep, Change, CookieInv
  <2>4. CASE Clear(v)
    BY <2>1, <2>4 DEF Keep, Clear, CookieInv
  <2>5. CASE Start(v)
    BY <2>1, <2>5 DEF Start, SerializeSession, Goes, CookieInv
  <2>6. CASE LateChange(v)
    BY <2>1, <2>6 DEF LateChange, CookieInv
  <2>7. CASE Fail(v)
    BY <2>1, <2>7 DEF Keep, Fail, Goes, CookieInv
  <2> QED BY <1>2, <2>2, <2>3, <2>4, <2>5, <2>6, <2>7
<1>3. ASSUME NEW v \in Visit, Arrive(v)
      PROVE  CookieInv'
  <2>1. ~overlapped => jar' = kept /\ \A w \in Visit \ {v} : ~Away(w)
    BY <1>3 DEF Arrive, Goes, CookieInv
  <2> QED BY <1>3, <2>1 DEF Arrive, Goes, CookieInv
<1>4. CASE UNCHANGED cookieVars
  BY <1>4 DEF cookieVars, CookieInv
<1> QED BY <1>1, <1>2, <1>3, <1>4 DEF CookieNext

\* As long as the requests of a client have not overlapped, its cookie is the
\* session that has to be kept whenever none of them is under way, whichever of
\* them failed and lost what it had done.
THEOREM SessionKept == Spec => []SequentialSession
<1>1. CookieInv => SequentialSession
  BY DEF CookieInv, SequentialSession, Away
<1> QED BY CookieInitInv, CookieNextInv, <1>1, PTL DEF Spec
=============================================================================
