---------------------------- MODULE MCRouteCache ----------------------------
(***************************************************************************)
(* RouteCache for TLC: two requests, to one url or to two, whose handlers  *)
(* have the same options or different ones, and a task of the application  *)
(* that uses both backends.                                                *)
(***************************************************************************)
EXTENDS RouteCache

MCBackend ==
  [redis     |-> [kind |-> "redis", prefix |-> "p", version |-> 1, ttl |-> 2],
   memcached |-> [kind |-> "memcached", prefix |-> None, version |-> 1, ttl |-> 2]]

MCShard == [k \in {<<u, p>> : u \in Url, p \in {"p", "view"}} \cup {<<"p">>, <<"view">>, <<"key">>} |-> 1]

MCOptions ==
  {[ttl |-> o[1], prefix |-> None, version |-> None, backend |-> o[2]] :
      o \in {<<None, "redis">>, <<None, "memcached">>, <<1, "memcached">>}}
  \cup {[ttl |-> 1, prefix |-> "view", version |-> None, backend |-> b] : b \in {"redis", "other"}}

\* The calls of the task; what both backends do alike, of one of them.
MCCall ==
  {[op |-> c[1], backend |-> c[2], version |-> None, key |-> <<"key">>, ttl |-> None, value |-> Num(1),
    delta |-> 2] :
      c \in {"set", "touch", "incr", "decr"} \X {"redis", "memcached"}
              \cup {<<"get", "redis">>, <<"has_key", "memcached">>, <<"delete", "redis">>}}
  \cup {[op |-> "set", backend |-> b, version |-> None, key |-> <<"key">>, ttl |-> 0, value |-> Num(1),
         delta |-> 0] : b \in {"redis", "memcached"}}
  \cup {[op |-> "set", backend |-> "redis", version |-> None, key |-> <<"key">>, ttl |-> None,
         value |-> [kind |-> "bool"], delta |-> 0]}

\* Requests whose handlers use different backends share nothing.
OneBackend == \A r, q \in Request : options[r].backend = options[q].backend
=============================================================================
