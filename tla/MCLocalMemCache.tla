-------------------------- MODULE MCLocalMemCache --------------------------
(***************************************************************************)
(* LocalMemCache for TLC, with what its interface says of a ttl and of     *)
(* counters.                                                               *)
(***************************************************************************)
EXTENDS LocalMemCache

\* cache/interface.py:40: "A ttl of 0 indicates that the cache never expires."
\* The entry that set_async stores with ttl 0 can be read afterwards.
TtlZeroKeeps ==
  [][\A c \in Client : SetAsync(c) /\ req[c].ttl = 0 => Live(req[c].key)']_vars

\* cache/interface.py:71: "Increments the number stored at key by one. If the key
\* does not exist, it is set to 0".  After incr_async the key exists.
CountedExists ==
  [][\A c \in Client : IncrAsync(c) => Live(req[c].key)']_vars
=============================================================================
