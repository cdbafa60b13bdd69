----------------------------- MODULE RouteCache -----------------------------
(***************************************************************************)
(* The interceptor of the Cache decorator (cache/decorator.py): a request  *)
(* looks its key up, and only if nothing useful is there runs the endpoint *)
(* and stores what it returned.  The calls go to the backends of           *)
(* RemoteCache, together with those of the application's own tasks; the    *)
(* data an endpoint reads changes meanwhile.                               *)
(***************************************************************************)
EXTENDS RemoteCache

CONSTANTS Request,   \* the requests to cached endpoints, some of the clients
          Url,       \* the urls of requests
          Options,   \* possible RouteCacheOptions: [ttl, prefix, version, backend]
          MaxData    \* bound: changes of the data

\* What the key of a route ends with, and the keys of routes.
RoutePrefix ==
  {"view"} \cup (({o.prefix : o \in Options} \cup {Backend[b].prefix : b \in DOMAIN Backend}) \ {None})
RouteKeys == Url \X RoutePrefix

ASSUME RequestAssumption == Request \subseteq Client
ASSUME OptionsAssumption == None \notin Int /\ \A o \in Options : o.ttl \in Nat \cup {None}
\* The client of memcached knows a server for each key, and the application's
\* own tasks leave the keys of routes alone.
ASSUME KeyAssumption ==
  /\ \A k \in RouteKeys \cup {q.key : q \in Call} : Shard[k] \in Server
  /\ \A q \in Call : q.key \notin RouteKeys

VARIABLES options, \* the RouteCacheOptions of the handler of each request
          url,     \* its url, which the handlers of several methods may share
          stage,   \* what the interceptor of each request does
          given,   \* what it returned: from the cache or from the endpoint
          data     \* what endpoints read; 0 makes them return something falsy

fixed == <<options, url>>
vars  == <<remote, fixed, stage, given, data>>

Response(r) == [kind |-> "response", url |-> url[r], by |-> r, data |-> data]
Truthy(v)   == v.data # 0

Init ==
  /\ RemoteInit
  /\ options \in [Request -> Options] /\ url \in [Request -> Url]
  /\ stage = [r \in Request |-> "arrived"]
  /\ given = [r \in Request |-> Nothing]
  /\ data = 0

\* opts.key_prefix or backend.key_prefix, or 'view'.
Prefix(r) ==
  IF options[r].prefix # None THEN options[r].prefix
  ELSE IF Backend[options[r].backend].prefix # None THEN Backend[options[r].backend].prefix ELSE "view"

\* Mutant: the key leaves the url out.
BugRouteKey(r) == <<Prefix(r)>>

\* _route_cache_make_key: the url, without the method, and the prefix.
RouteKey(r) == <<url[r], Prefix(r)>>

CacheCall(r, op, v) ==
  [op |-> op, backend |-> options[r].backend, version |-> options[r].version,
   key |-> RouteKey(r), ttl |-> options[r].ttl, value |-> v]

Move(r, to) == stage' = [stage EXCEPT ![r] = to]

\* get_backend raises for a name that is not configured.
Misconfigured(r) ==
  /\ stage[r] = "arrived" /\ options[r].backend \notin DOMAIN Backend
  /\ Move(r, "failed")
  /\ UNCHANGED <<remote, fixed, given, data>>

Lookup(r) ==
  /\ stage[r] = "arrived" /\ options[r].backend \in DOMAIN Backend
  /\ Begin(r, CacheCall(r, "get", Nothing))
  /\ Move(r, "reading")
  /\ UNCHANGED <<fixed, given, data>>

\* A value that is false counts as none.
Useful(r) == reply[r].kind = "found" /\ Truthy(reply[r].value)

ServeCached(r) ==
  /\ stage[r] = "reading" /\ at[r] = "done" /\ Useful(r)
  /\ Return(r)
  /\ Move(r, "served")
  /\ given' = [given EXCEPT ![r] = reply[r]]
  /\ UNCHANGED <<fixed, data>>

Miss(r) ==
  /\ stage[r] = "reading" /\ at[r] = "done"
  /\ ~Useful(r)
  /\ Return(r)
  /\ Move(r, IF reply[r].kind = "raised" THEN "failed" ELSE "computing")
  /\ UNCHANGED <<fixed, given, data>>

\* next_interceptor() returns, and its value is stored; or it raises.
Compute(r) ==
  /\ stage[r] = "computing"
  /\ \/ /\ Begin(r, CacheCall(r, "set", Response(r)))
        /\ Move(r, "storing")
        /\ given' = [given EXCEPT ![r] = Found(Response(r))]
     \/ /\ Move(r, "failed")
        /\ UNCHANGED <<remote, given>>
  /\ UNCHANGED <<fixed, data>>

\* Whether the set succeeded is not looked at, but what it raises ends the
\* request although the endpoint ran.
Stored(r) ==
  /\ stage[r] = "storing" /\ at[r] = "done"
  /\ Return(r)
  /\ Move(r, IF reply[r].kind = "raised" THEN "failed" ELSE "served")
  /\ UNCHANGED <<fixed, given, data>>

Change ==
  /\ data < MaxData
  /\ data' = data + 1
  /\ UNCHANGED <<remote, fixed, stage, given>>

Other == UNCHANGED <<fixed, stage, given, data>>

Next ==
  \/ Change
  \/ Tick /\ Other
  \/ \E c \in Client : Command(c) /\ Other
  \/ \E c \in Client \ Request : Return(c) /\ Other
  \/ \E c \in Client \ Request, r \in Call : calls[c] < MaxCalls /\ Begin(c, r) /\ Other
  \/ \E r \in Request : Misconfigured(r) \/ Lookup(r) \/ ServeCached(r) \/ Miss(r) \/ Compute(r) \/ Stored(r)

Spec == Init /\ [][Next]_vars

-----------------------------------------------------------------------------
\* Two endpoints under different urls never answer for one another, though
\* their responses share servers, prefix and version.
OwnResponse ==
  \A r \in Request : given[r].kind = "found" => given[r].value.url = url[r]

\* How long what the handler of request r stores is good.
Lifetime(r) ==
  IF options[r].ttl = None THEN Backend[options[r].backend].ttl ELSE options[r].ttl

\* A response comes from the cache less than the ttl of the handler that stored it
\* after it was stored, whatever unit the backend turns the ttl into, however the
\* requests overlapped, and whether or not a server refused a later value.  That
\* need not be the ttl of the handler asked: the key has no method, so handlers of
\* one url answer with what another of them stored, for as long as that one said.
FreshResponse ==
  \A r \in Request :
    given[r].kind = "found" /\ "age" \in DOMAIN given[r] =>
      given[r].age < Lifetime(given[r].value.by)
=============================================================================
