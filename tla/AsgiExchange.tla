---------------------------- MODULE AsgiExchange ----------------------------
(***************************************************************************)
(* What an ASGI application promises the server for one HTTP request: one  *)
(* response at most, its start before its end, nothing after the call      *)
(* returned, and the call does return.  A call that returns normally has   *)
(* started its response; a call that raises may have sent all, a part or   *)
(* nothing of it.  One breach is named, which no framework can prevent:    *)
(* the application's own code takes the request over and drops it.         *)
(***************************************************************************)
VARIABLES response, \* "none", "started" or "complete"
          call      \* "running", "returned", "raised" or "dropped"

vars == <<response, call>>

Init == response = "none" /\ call = "running"

\* http.response.start
Start ==
  /\ call = "running" /\ response = "none"
  /\ response' = "started"
  /\ UNCHANGED call

\* http.response.body without more_body
Complete ==
  /\ call = "running" /\ response = "started"
  /\ response' = "complete"
  /\ UNCHANGED call

Return ==
  /\ call = "running" /\ response # "none"
  /\ call' = "returned"
  /\ UNCHANGED response

Raise ==
  /\ call = "running"
  /\ call' = "raised"
  /\ UNCHANGED response

\* The call returns, and nothing was sent.
Drop ==
  /\ call = "running" /\ response = "none"
  /\ call' = "dropped"
  /\ UNCHANGED response

Next == Start \/ Complete \/ Return \/ Raise \/ Drop

Spec == Init /\ [][Next]_vars /\ <>(call # "running")
=============================================================================
