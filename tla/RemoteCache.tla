---------------------------- MODULE RemoteCache ----------------------------
(***************************************************************************)
(* The cache backends that keep their entries on servers: redis and        *)
(* memcached, behind CacheService.  A call becomes one command of a        *)
(* server, or two; a command is atomic, and the commands of several        *)
(* callers interleave.  The servers and their client libraries are         *)
(* external, and modelled from how the backends use them.                  *)
(***************************************************************************)
EXTENDS Integers, Functions, FiniteSetsExt

CONSTANTS Client,      \* the tasks that call the service
          Backend,     \* name -> [kind, prefix, version, ttl], the configured ones
          Servers,     \* how many servers redis has
          Shard,       \* the server memcached's client takes for a user's key
          Call,        \* the calls that are made
          None,        \* no version, no ttl, no deadline
          Start,       \* the time it is at first
          MaxTime,     \* bound: the clock stops here
          MaxCalls     \* bound: the calls of a task

Kinds == {"redis", "memcached"}

ASSUME ServerAssumption == Servers \in Nat \ {0}
ASSUME BackendAssumption ==
  \A b \in DOMAIN Backend : Backend[b].kind \in Kinds /\ Backend[b].ttl \in Nat
ASSUME RemoteBoundAssumption == Start \in Nat /\ MaxTime \in Nat /\ MaxCalls \in Nat

Server == 1..Servers

VARIABLES now,     \* the clock
          store,   \* backend -> server -> its entries: key -> [value, deadline, stored]
          at,      \* "idle", "called", "between" two commands or "done"
          req,     \* the call of each client
          server,  \* the server its commands go to
          reply,   \* what the call returned or raised
          calls    \* the calls made

remote == <<now, store, at, req, server, reply, calls>>

Nothing   == [kind |-> "none"]
Is(b)     == [kind |-> "bool", is |-> b]
Found(v)  == [kind |-> "found", value |-> v]
Hit(e)    == [kind |-> "found", value |-> e.value, age |-> now - e.stored]
Raised(e) == [kind |-> "raised", error |-> e]
Num(n)    == [kind |-> "int", n |-> n]

RemoteInit ==
  /\ now = Start
  /\ store = [b \in DOMAIN Backend |-> [s \in Server |-> [k \in {} |-> 0]]]
  /\ at = [c \in Client |-> "idle"]
  /\ req = [c \in Client |-> Nothing]
  /\ server = [c \in Client |-> 0]
  /\ reply = [c \in Client |-> Nothing]
  /\ calls = [c \in Client |-> 0]

-----------------------------------------------------------------------------
(***************************************************************************)
(* What a backend makes of the arguments of a call.                        *)
(***************************************************************************)
\* "%s:%s:%s"; a version that is given replaces the one of the backend.
MakeKey(r) ==
  <<Backend[r.backend].prefix,
    IF r.version = None THEN Backend[r.backend].version ELSE r.version, r.key>>

\* redis: a ttl in seconds.  Mutant: the deadline of the base class.
BugRedisTtl(r, ttl) == IF ttl = None THEN Backend[r.backend].ttl ELSE now + ttl
RedisTtl(r, ttl) == IF ttl = None THEN Backend[r.backend].ttl ELSE ttl

\* memcached: a deadline, and one in the past for 0.
MemcachedDeadline(r, ttl) ==
  now + (CASE ttl = None -> Backend[r.backend].ttl [] ttl = 0 -> -1 [] OTHER -> ttl)

\* Every operation takes its client without write=True.
PickServer(write) == IF write \/ Server = {1} THEN {1} ELSE Server \ {1}

ServersOf(r) == IF Backend[r.backend].kind = "redis" THEN PickServer(FALSE) ELSE {Shard[r.key]}

-----------------------------------------------------------------------------
(***************************************************************************)
(* Commands of a server, for the call of client c.                         *)
(***************************************************************************)
K(c)     == MakeKey(req[c])
Table(c) == store[req[c].backend][server[c]]
Alive(e) == e.deadline = None \/ e.deadline > now
Has(c)   == K(c) \in DOMAIN Table(c) /\ Alive(Table(c)[K(c)])
Entry(c) == Table(c)[K(c)]

Write(c, e) ==
  store' = [store EXCEPT ![req[c].backend][server[c]] =
              [k \in DOMAIN @ \cup {K(c)} |-> IF k = K(c) THEN e ELSE @[k]]]
Erase(c) == store' = [store EXCEPT ![req[c].backend][server[c]] = Restrict(@, DOMAIN @ \ {K(c)})]
Item(v, deadline) == [value |-> v, deadline |-> deadline, stored |-> now]

Running(c, kind, op) ==
  /\ at[c] = "called"
  /\ req[c].op = op
  /\ Backend[req[c].backend].kind = kind

Answer(c, r) ==
  /\ at' = [at EXCEPT ![c] = "done"]
  /\ reply' = [reply EXCEPT ![c] = r]
  /\ UNCHANGED <<now, req, server, calls>>

\* A second command follows.
Continue(c) ==
  /\ at' = [at EXCEPT ![c] = "between"]
  /\ UNCHANGED <<now, req, server, reply, calls>>

Reads(c) ==
  /\ at[c] = "called" /\ UNCHANGED store
  /\ \/ req[c].op = "get" /\ Answer(c, IF Has(c) THEN Hit(Entry(c)) ELSE Nothing)
     \/ req[c].op = "has_key" /\ Answer(c, Is(Has(c)))

Deletes(c) ==
  /\ at[c] = "called" /\ req[c].op = "delete"
  /\ Erase(c)
  /\ Answer(c, Is(Has(c)))

\* redis: a bool is an int, so it is not pickled, and the client refuses it.
\* ttl 0 deletes first; the server then refuses a SET that expires at once.
RedisSet(c) ==
  /\ Running(c, "redis", "set")
  /\ \/ /\ req[c].ttl = 0
        /\ Erase(c) /\ Continue(c)
     \/ /\ req[c].ttl # 0 /\ req[c].value.kind = "bool"
        /\ UNCHANGED store /\ Answer(c, Raised("DataError"))
     \/ /\ req[c].ttl # 0 /\ req[c].value.kind # "bool"
        /\ Write(c, Item(req[c].value, now + RedisTtl(req[c], req[c].ttl)))
        /\ Answer(c, Is(TRUE))

RedisSetRefused(c) ==
  /\ at[c] = "between" /\ Backend[req[c].backend].kind = "redis"
  /\ UNCHANGED store
  /\ Answer(c, Raised("ResponseError"))

\* memcached: a server may refuse a value, for example one that is too large.
MemcachedSet(c) ==
  /\ Running(c, "memcached", "set")
  /\ \/ /\ Write(c, Item(req[c].value, MemcachedDeadline(req[c], req[c].ttl)))
        /\ Answer(c, Is(TRUE))
     \/ UNCHANGED store /\ Continue(c)

\* delete_async after a set that was refused: what it answers is not looked at, so
\* when it fails as well the old value stays.
MemcachedForget(c) ==
  /\ at[c] = "between" /\ Backend[req[c].backend].kind = "memcached"
  /\ Erase(c) \/ UNCHANGED store
  /\ Answer(c, Is(FALSE))

\* The connection to the server fails, on any command.
Fails(c) ==
  /\ at[c] \in {"called", "between"}
  /\ UNCHANGED store
  /\ Answer(c, Raised("ConnectionError"))

\* redis: no ttl takes the deadline away.  memcached: the deadline is handed
\* over as a float, which a client library may refuse.
Touches(c) ==
  \/ /\ Running(c, "redis", "touch")
     /\ IF Has(c)
        THEN Write(c, [Entry(c) EXCEPT !.deadline =
               IF req[c].ttl = None THEN None ELSE now + RedisTtl(req[c], req[c].ttl)])
        ELSE UNCHANGED store
     /\ Answer(c, Is(Has(c)))
  \/ /\ Running(c, "memcached", "touch")
     /\ \/ UNCHANGED store /\ Answer(c, Raised("client"))
        \/ /\ IF Has(c)
              THEN Write(c, [Entry(c) EXCEPT !.deadline = MemcachedDeadline(req[c], req[c].ttl)])
              ELSE UNCHANGED store
           /\ Answer(c, Is(Has(c)))

\* redis creates the counter that is missing and goes below zero; memcached
\* does neither, and counts by the absolute value of delta.
Counts(c) ==
  LET r == req[c]
      d == IF r.op = "incr" THEN r.delta ELSE -r.delta
      abs == IF r.delta < 0 THEN -r.delta ELSE r.delta
      clamped == Max({0, Entry(c).value.n + (IF r.op = "incr" THEN abs ELSE -abs)})
  IN  /\ at[c] = "called" /\ r.op \in {"incr", "decr"}
      /\ \/ /\ ~Has(c) /\ Backend[r.backend].kind = "redis"
            /\ Write(c, Item(Num(d), None)) /\ Answer(c, Found(Num(d)))
         \/ /\ ~Has(c) /\ Backend[r.backend].kind = "memcached"
            /\ UNCHANGED store /\ Answer(c, Nothing)
         \/ /\ Has(c) /\ Entry(c).value.kind # "int"
            /\ UNCHANGED store /\ Answer(c, Raised("server"))
         \/ /\ Has(c) /\ Entry(c).value.kind = "int"
            /\ LET n == IF Backend[r.backend].kind = "redis" THEN Entry(c).value.n + d ELSE clamped
               IN  Write(c, [Entry(c) EXCEPT !.value = Num(n)]) /\ Answer(c, Found(Num(n)))

Command(c) ==
  \/ Reads(c) \/ Deletes(c) \/ RedisSet(c) \/ RedisSetRefused(c)
  \/ MemcachedSet(c) \/ MemcachedForget(c) \/ Touches(c) \/ Counts(c) \/ Fails(c)

-----------------------------------------------------------------------------
\* get_backend; then the backend chooses a server for all its commands.
Begin(c, r) ==
  /\ at[c] = "idle"
  /\ calls' = [calls EXCEPT ![c] = @ + 1]
  /\ req' = [req EXCEPT ![c] = r]
  /\ \/ /\ r.backend \notin DOMAIN Backend
        /\ at' = [at EXCEPT ![c] = "done"]
        /\ reply' = [reply EXCEPT ![c] = Raised("InvalidCacheBackendKeyException")]
        /\ UNCHANGED server
     \/ /\ r.backend \in DOMAIN Backend
        /\ at' = [at EXCEPT ![c] = "called"]
        /\ \E s \in ServersOf(r) : server' = [server EXCEPT ![c] = s]
        /\ UNCHANGED reply
  /\ UNCHANGED <<now, store>>

Return(c) ==
  /\ at[c] = "done"
  /\ at' = [at EXCEPT ![c] = "idle"]
  /\ req' = [req EXCEPT ![c] = Nothing]
  /\ server' = [server EXCEPT ![c] = 0]
  /\ reply' = [reply EXCEPT ![c] = Nothing]
  /\ UNCHANGED <<now, store, calls>>

Tick ==
  /\ now < MaxTime
  /\ now' = now + 1
  /\ UNCHANGED <<store, at, req, server, reply, calls>>

=============================================================================
