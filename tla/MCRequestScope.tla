--------------------------- MODULE MCRequestScope ---------------------------
(***************************************************************************)
(* RequestScope for TLC: an application with a singleton and a             *)
(* request-scoped service built from it.                                   *)
(***************************************************************************)
EXTENDS RequestScope

CONSTANTS config, session, \* the services
          r1, r2

MCService == {config, session}

MCScope == (config :> "singleton") @@ (session :> "request")

MCNeeds == (config :> None) @@ (session :> config)

\* Request r1 starts a task of the event loop, request r2 a pool thread.
MCTask == {<<r1, "main">>, <<r1, "task">>, <<r2, "main">>, <<r2, "thread">>}

\* docs/basics/injector-scopes.md:69: "A request scoped provider is instantiated
\* once during the scope of the request": until the request is closed, all that
\* works for it gets one object, whoever asks first.
InstantiatedOnce ==
  \A g, h \in given :
    Scope[g.key] = "request" /\ h.key = g.key /\ h.request = g.request
      /\ stage[g.request] \in {"open", "back"}
      => h.inst = g.inst
=============================================================================
