--------------------------- MODULE SessionCookie ---------------------------
(***************************************************************************)
(* The session of one client: a signed cookie that SessionMiddleware reads *)
(* when a request begins and sends back when a response starts in a layer  *)
(* inside it (core/middleware/sessions.py, auth/session/strategy.py).  The *)
(* response to an exception that nobody handles is sent by                 *)
(* RequestServiceProviderMiddleware, which is outside it.  The state is    *)
(* the client's; the server keeps nothing between requests.  The session   *)
(* is abstracted to what it counts, 0 being an empty one.                  *)
(***************************************************************************)
EXTENDS Integers, FiniteSets

CONSTANTS Visit,     \* the requests of the client
          MaxChanges \* bound: the changes a request makes

ASSUME ChangesAssumption == MaxChanges \in Nat

VARIABLES jar,      \* the cookie the client holds: what it counts, 0 for none
          visit,    \* "home", "sent", "running", "started", "failed" or "back"
          carried,  \* the cookie a request carries, then the one of its response
          session,  \* scope["session"]
          overlapped, \* history: two requests were under way at once
          kept,     \* history: the changes that have to be kept, until then
          before    \* history: those of the time when a request was sent

cookieVars == <<jar, visit, carried, session, kept, before, overlapped>>

CookieInit ==
  /\ jar = 0
  /\ visit = [v \in Visit |-> "home"]
  /\ carried = [v \in Visit |-> 0]
  /\ session = [v \in Visit |-> 0]
  /\ kept = 0
  /\ before = [v \in Visit |-> 0]
  /\ overlapped = FALSE

Keep(changes) == kept' = IF overlapped THEN kept ELSE changes

Goes(v, from, to) == visit[v] = from /\ visit' = [visit EXCEPT ![v] = to]

Send(v) ==
  /\ Goes(v, "home", "sent")
  /\ carried' = [carried EXCEPT ![v] = jar]
  /\ overlapped' = (overlapped \/ \E w \in Visit : visit[w] \notin {"home", "back"})
  /\ before' = IF overlapped' THEN [w \in Visit |-> 0] ELSE [before EXCEPT ![v] = kept]
  /\ UNCHANGED <<jar, session, kept>>

\* A cookie whose signature does not verify, which is too old or was signed
\* with another key, counts as none; a client that loses it starts anew.
Load(v) ==
  /\ Goes(v, "sent", "running")
  /\ \/ /\ session' = [session EXCEPT ![v] = carried[v]]
        /\ UNCHANGED kept
     \/ /\ session' = [session EXCEPT ![v] = 0]
        /\ Keep(0)
  /\ UNCHANGED <<jar, carried, before, overlapped>>

\* The endpoint counts one more.
Change(v) ==
  /\ visit[v] = "running" /\ session[v] < MaxChanges
  /\ session' = [session EXCEPT ![v] = @ + 1]
  /\ Keep(kept + 1)
  /\ UNCHANGED <<jar, visit, carried, before, overlapped>>

Clear(v) ==
  /\ visit[v] = "running" /\ session[v] > 0
  /\ session' = [session EXCEPT ![v] = 0]
  /\ Keep(0)
  /\ UNCHANGED <<jar, visit, carried, before, overlapped>>

\* serialize_session: the whole session, signed; an empty one makes the
\* header that deletes the cookie.
SerializeSession(v) == session[v]

\* Mutant: only a session with data is sent back.
BugStart(v) ==
  /\ Goes(v, "running", "started")
  /\ carried' = [carried EXCEPT ![v] = IF session[v] = 0 THEN carried[v] ELSE SerializeSession(v)]
  /\ UNCHANGED <<jar, session, kept, before, overlapped>>

\* http.response.start: a Set-Cookie, which for an empty session deletes.
Start(v) ==
  /\ Goes(v, "running", "started")
  /\ carried' = [carried EXCEPT ![v] = SerializeSession(v)]
  /\ UNCHANGED <<jar, session, kept, before, overlapped>>

\* An exception that no layer inside handles: the 500 of the outermost layer goes
\* by SessionMiddleware's wrapper of send, without Set-Cookie, and what the
\* request stored or cleared is as if it had not been.
Fail(v) ==
  /\ Goes(v, "running", "failed")
  /\ Keep(before[v])
  /\ UNCHANGED <<jar, carried, session, before, overlapped>>

\* A change made later, by a background task or while streaming, is lost.
LateChange(v) ==
  /\ visit[v] = "started" /\ session[v] < MaxChanges
  /\ session' = [session EXCEPT ![v] = @ + 1]
  /\ UNCHANGED <<jar, visit, carried, kept, before, overlapped>>

\* The response reaches the client, which stores the cookie if there is one; of
\* the request nothing is left.
Arrive(v) ==
  /\ \/ Goes(v, "started", "back") /\ jar' = carried[v]
     \/ Goes(v, "failed", "back") /\ UNCHANGED jar
  /\ carried' = [carried EXCEPT ![v] = 0]
  /\ session' = [session EXCEPT ![v] = 0]
  /\ before' = [before EXCEPT ![v] = 0]
  /\ UNCHANGED <<kept, overlapped>>

CookieNext ==
  \E v \in Visit :
    \/ Send(v) \/ Load(v) \/ Change(v) \/ Clear(v) \/ Start(v) \/ Fail(v) \/ LateChange(v)
    \/ Arrive(v)

-----------------------------------------------------------------------------
\* A client whose requests do not overlap holds exactly what those of them that
\* were answered through SessionMiddleware stored before their responses started,
\* and nothing from before it was cleared; one that ends in the 500 of the
\* outermost layer leaves the session as it was.  (With requests that overlap the
\* last response wins.)
SequentialSession ==
  ~overlapped /\ (\A v \in Visit : visit[v] \in {"home", "back"}) => jar = kept
=============================================================================
