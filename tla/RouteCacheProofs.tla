-------------------------- MODULE RouteCacheProofs --------------------------
(***************************************************************************)
(* Proofs about RouteCache, for any clients, requests, urls, options,      *)
(* backends and servers.  The inductive invariant follows a response       *)
(* through its stations: the call of a request carries its own key and     *)
(* response, what the servers keep under the key of a route is a response  *)
(* of its url that dies in the time of the handler that stored it, and so  *)
(* is what a get answers.                                                  *)
(***************************************************************************)
EXTENDS RouteCache, TLAPS

Names == DOMAIN Backend

Shapes ==
  /\ now \in Nat
  /\ options \in [Request -> Options] /\ url \in [Request -> Url]
  /\ DOMAIN at = Client /\ DOMAIN req = Client /\ DOMAIN server = Client /\ DOMAIN reply = Client
  /\ DOMAIN stage = Request /\ DOMAIN given = Request
  /\ DOMAIN store = Names /\ \A b \in Names : DOMAIN store[b] = Server

\* The call in progress is that of the request's stage.
Asks(r) ==
  /\ stage[r] \in {"reading", "storing"} /\ options[r].backend \in Names
  /\ req[r].op = IF stage[r] = "reading" THEN "get" ELSE "set"
  /\ req[r].backend = options[r].backend /\ req[r].key = RouteKey(r) /\ req[r].ttl = options[r].ttl
  /\ stage[r] = "storing" => req[r].value.url = url[r] /\ req[r].value.by = r

Asking ==
  \A c \in Client :
    /\ at[c] # "idle" => IF c \in Request THEN Asks(c) ELSE req[c] \in Call
    /\ at[c] \in {"called", "between"} => req[c].backend \in Names /\ server[c] \in Server

\* Entry e is a response of the url of key k, and dies in the time of its handler.
Kept(k, e) ==
  /\ e.value.url = k[3][1]
  /\ e.stored \in Nat /\ e.deadline \in Int /\ Lifetime(e.value.by) \in Nat
  /\ e.deadline <= e.stored + Lifetime(e.value.by)

Entries ==
  \A b \in Names, s \in Server : \A k \in DOMAIN store[b][s] :
    k[3] \in RouteKeys => Kept(k, store[b][s][k])

Answers ==
  \A r \in Request :
    stage[r] = "reading" /\ at[r] = "done" /\ reply[r].kind = "found" =>
      reply[r].value.url = url[r] /\ reply[r].age < Lifetime(reply[r].value.by)

\* Who gets to the endpoint has found the backend configured.
Configured ==
  \A r \in Request : stage[r] = "computing" => options[r].backend \in Names

CacheInv ==
  /\ Shapes /\ Asking /\ Entries /\ Answers /\ Configured
  /\ OwnResponse /\ FreshResponse

-----------------------------------------------------------------------------
(***************************************************************************)
(* The table that a command changes.                                       *)
(***************************************************************************)
Touched(c, b, s) == b = req[c].backend /\ s = server[c]

LEMMA WriteLemma ==
  ASSUME Shapes, NEW c \in Client, NEW e, Write(c, e),
         req[c].backend \in Names, server[c] \in Server
  PROVE  /\ DOMAIN store' = Names
         /\ \A b \in Names : DOMAIN store'[b] = Server
         /\ \A b \in Names, s \in Server :
              store'[b][s] = IF Touched(c, b, s)
                             THEN [k \in DOMAIN store[b][s] \cup {K(c)} |->
                                     IF k = K(c) THEN e ELSE store[b][s][k]]
                             ELSE store[b][s]
<1> DEFINE b0 == req[c].backend
           s0 == server[c]
           new == [k \in DOMAIN store[b0][s0] \cup {K(c)} |-> IF k = K(c) THEN e ELSE store[b0][s0][k]]
<1>1. store' = [store EXCEPT ![b0][s0] = new]
  BY DEF Write
<1>2. b0 \in Names /\ s0 \in Server /\ DOMAIN store = Names /\ \A b \in Names : DOMAIN store[b] = Server
  BY DEF Shapes
<1> HIDE DEF new, Names
<1>3. /\ DOMAIN store' = Names
      /\ \A b \in Names : DOMAIN store'[b] = Server
      /\ \A b \in Names, s \in Server :
           store'[b][s] = IF b = b0 /\ s = s0 THEN new ELSE store[b][s]
  BY <1>1, <1>2
<1>4. ASSUME NEW b \in Names, NEW s \in Server
      PROVE  store'[b][s] = IF Touched(c, b, s)
                            THEN [k \in DOMAIN store[b][s] \cup {K(c)} |->
                                    IF k = K(c) THEN e ELSE store[b][s][k]]
                            ELSE store[b][s]
  <2>1. CASE b = b0 /\ s = s0
    BY <1>3, <2>1 DEF new, Touched
  <2>2. CASE ~(b = b0 /\ s = s0)
    BY <1>3, <2>2 DEF Touched
  <2> QED BY <2>1, <2>2
<1> QED BY <1>3, <1>4

LEMMA EraseLemma ==
  ASSUME Shapes, NEW c \in Client, Erase(c),
         req[c].backend \in Names, server[c] \in Server
  PROVE  /\ DOMAIN store' = Names
         /\ \A b \in Names : DOMAIN store'[b] = Server
         /\ \A b \in Names, s \in Server :
              store'[b][s] = IF Touched(c, b, s)
                             THEN [k \in DOMAIN store[b][s] \ {K(c)} |-> store[b][s][k]]
                             ELSE store[b][s]
<1> DEFINE b0 == req[c].backend
           s0 == server[c]
           new == [k \in DOMAIN store[b0][s0] \ {K(c)} |-> store[b0][s0][k]]
<1>1. store' = [store EXCEPT ![b0][s0] = new]
  BY DEF Erase, Restrict
<1>2. b0 \in Names /\ s0 \in Server /\ DOMAIN store = Names /\ \A b \in Names : DOMAIN store[b] = Server
  BY DEF Shapes
<1> HIDE DEF new, Names
<1>3. /\ DOMAIN store' = Names
      /\ \A b \in Names : DOMAIN store'[b] = Server
      /\ \A b \in Names, s \in Server :
           store'[b][s] = IF b = b0 /\ s = s0 THEN new ELSE store[b][s]
  BY <1>1, <1>2
<1>4. ASSUME NEW b \in Names, NEW s \in Server
      PROVE  store'[b][s] = IF Touched(c, b, s)
                            THEN [k \in DOMAIN store[b][s] \ {K(c)} |-> store[b][s][k]]
                            ELSE store[b][s]
  <2>1. CASE b = b0 /\ s = s0
    BY <1>3, <2>1 DEF new, Touched
  <2>2. CASE ~(b = b0 /\ s = s0)
    BY <1>3, <2>2 DEF Touched
  <2> QED BY <2>1, <2>2
<1> QED BY <1>3, <1>4

-----------------------------------------------------------------------------
(***************************************************************************)
(* Commands.                                                               *)
(***************************************************************************)
\* A command leaves the other clients alone, and its own call as it was.
OnlyAbout(c) ==
  /\ at[c] \in {"called", "between"}
  /\ UNCHANGED <<now, req, server, calls>>
  /\ DOMAIN at' = Client /\ DOMAIN reply' = Client
  /\ at'[c] \in {"between", "done"}
  /\ \A d \in Client : d # c => at'[d] = at[d] /\ reply'[d] = reply[d]

LEMMA AnswerLemma ==
  ASSUME Shapes, NEW c \in Client, NEW r, Answer(c, r), at[c] \in {"called", "between"}
  PROVE  OnlyAbout(c) /\ at'[c] = "done" /\ reply'[c] = r
BY DEF Shapes, Answer, OnlyAbout

LEMMA ContinueLemma ==
  ASSUME Shapes, NEW c \in Client, Continue(c), at[c] \in {"called", "between"}
  PROVE  OnlyAbout(c) /\ at'[c] = "between"
BY DEF Shapes, Continue, OnlyAbout

\* A command of any client writes under its own key, if at all.
LEMMA CommandLemma ==
  ASSUME Shapes, NEW c \in Client, Command(c)
  PROVE  /\ OnlyAbout(c)
         /\ UNCHANGED store \/ Erase(c) \/ \E e : Write(c, e)
<1>1. CASE Reads(c)
  <2>1. at[c] = "called" /\ UNCHANGED store /\ \E r : Answer(c, r)
    BY <1>1 DEF Reads
  <2> QED BY <2>1, AnswerLemma
<1>2. CASE Deletes(c)
  <2>1. at[c] = "called" /\ Erase(c) /\ \E r : Answer(c, r)
    BY <1>2 DEF Deletes
  <2> QED BY <2>1, AnswerLemma
<1>3. CASE RedisSet(c)
  <2>1. at[c] = "called" /\ (Continue(c) \/ \E r : Answer(c, r))
    BY <1>3 DEF RedisSet, Running
  <2>2. UNCHANGED store \/ Erase(c) \/ \E e : Write(c, e)
    BY <1>3 DEF RedisSet
  <2> QED BY <2>1, <2>2, AnswerLemma, ContinueLemma
<1>4. CASE RedisSetRefused(c)
  <2>1. at[c] = "between" /\ UNCHANGED store /\ \E r : Answer(c, r)
    BY <1>4 DEF RedisSetRefused
  <2> QED BY <2>1, AnswerLemma
<1>5. CASE MemcachedSet(c)
  <2>1. at[c] = "called" /\ (Continue(c) \/ \E r : Answer(c, r))
    BY <1>5 DEF MemcachedSet, Running
  <2>2. UNCHANGED store \/ \E e : Write(c, e)
    BY <1>5 DEF MemcachedSet
  <2> QED BY <2>1, <2>2, AnswerLemma, ContinueLemma
<1>6. CASE MemcachedForget(c)
  <2>1. at[c] = "between" /\ (Erase(c) \/ UNCHANGED store) /\ \E r : Answer(c, r)
    BY <1>6 DEF MemcachedForget
  <2> QED BY <2>1, AnswerLemma
<1>7. CASE Touches(c)
  <2>1. at[c] = "called" /\ \E r : Answer(c, r)
    BY <1>7 DEF Touches, Running
  <2>2. UNCHANGED store \/ \E e : Write(c, e)
    BY <1>7 DEF Touches
  <2> QED BY <2>1, <2>2, AnswerLemma
<1>8. CASE Counts(c)
  <2>1. at[c] = "called" /\ \E r : Answer(c, r)
    BY <1>8 DEF Counts
  <2>2. UNCHANGED store \/ \E e : Write(c, e)
    BY <1>8 DEF Counts
  <2> QED BY <2>1, <2>2, AnswerLemma
<1>9. CASE Fails(c)
  <2>1. at[c] \in {"called", "between"} /\ UNCHANGED store /\ \E r : Answer(c, r)
    BY <1>9 DEF Fails
  <2> QED BY <2>1, AnswerLemma
<1> QED BY <1>1, <1>2, <1>3, <1>4, <1>5, <1>6, <1>7, <1>8, <1>9 DEF Command

\* What a request's own commands write and answer.
LEMMA RequestCommand ==
  ASSUME Shapes, Asking, Entries, NEW r \in Request, Command(r)
  PROVE  /\ UNCHANGED store \/ Erase(r) \/ \E e : Write(r, e) /\ Kept(K(r), e)
         /\ stage[r] = "reading" /\ at'[r] = "done" /\ reply'[r].kind = "found" =>
              reply'[r].value.url = url[r] /\ reply'[r].age < Lifetime(reply'[r].value.by)
<1>1. /\ r \in Client /\ at[r] \in {"called", "between"} /\ Asks(r)
      /\ req[r].backend \in Names /\ server[r] \in Server
  BY CommandLemma, RequestAssumption DEF OnlyAbout, Asking
<1>2. /\ K(r) = <<K(r)[1], K(r)[2], <<url[r], Prefix(r)>>>>
      /\ K(r)[3] = <<url[r], Prefix(r)>>
      /\ <<url[r], Prefix(r)>> \in RouteKeys
  <2>1. K(r)[3] = <<url[r], Prefix(r)>>
    BY <1>1 DEF K, MakeKey, Asks, RouteKey
  <2>2. Prefix(r) \in RoutePrefix
    BY <1>1 DEF Prefix, RoutePrefix, Asks, Shapes, Names
  <2>3. url[r] \in Url
    BY DEF Shapes
  <2> QED BY <2>1, <2>2, <2>3 DEF RouteKeys, K, MakeKey
<1>3. /\ options[r].ttl \in Nat \cup {None} /\ None \notin Int /\ now \in Nat
      /\ Backend[options[r].backend].ttl \in Nat /\ Lifetime(r) \in Nat
      /\ Backend[options[r].backend].kind \in {"redis", "memcached"}
  BY <1>1, OptionsAssumption, BackendAssumption DEF Shapes, Asks, Lifetime, Names, Kinds
<1>0. Fails(r) => UNCHANGED store /\ reply'[r].kind # "found"
  <2>1. ASSUME Fails(r) PROVE reply'[r] = Raised("ConnectionError")
    BY <1>1, <2>1, AnswerLemma DEF Fails
  <2> QED BY <2>1 DEF Fails, Raised
<1>4. CASE stage[r] = "reading" /\ ~Fails(r)
  <2>1. req[r].op = "get"
    BY <1>1, <1>4 DEF Asks
  <2>2. CASE at[r] = "called"
    <3>1. Reads(r)
      BY <1>4, <2>1, <2>2 DEF Command, Reads, Deletes, RedisSet, RedisSetRefused, MemcachedSet,
                        MemcachedForget, Touches, Counts, Running
    <3>2. UNCHANGED store /\ Answer(r, IF Has(r) THEN Hit(Entry(r)) ELSE Nothing)
      BY <2>1, <3>1 DEF Reads
    <3>3. reply'[r] = IF Has(r) THEN Hit(Entry(r)) ELSE Nothing
      BY <1>1, <2>2, <3>2, AnswerLemma
    <3>4. CASE Has(r)
      <4>1. Kept(K(r), Entry(r)) /\ Alive(Entry(r))
        BY <1>1, <1>2, <3>4 DEF Has, Entry, Table, Entries
      <4>2. reply'[r].value = Entry(r).value /\ reply'[r].age = now - Entry(r).stored
        BY <3>3, <3>4 DEF Hit
      <4>3. Entry(r).value.url = url[r]
        BY <1>2, <4>1 DEF Kept
      <4>4. now - Entry(r).stored < Lifetime(Entry(r).value.by)
        BY <1>3, <4>1 DEF Kept, Alive
      <4> QED BY <3>2, <4>2, <4>3, <4>4
    <3>5. CASE ~Has(r)
      BY <3>2, <3>3, <3>5 DEF Nothing
    <3> QED BY <3>4, <3>5
  <2>3. CASE at[r] = "between"
    <3>1. RedisSetRefused(r) \/ MemcachedForget(r)
      BY <1>4, <2>3 DEF Command, Reads, Deletes, RedisSet, RedisSetRefused, MemcachedSet,
                  MemcachedForget, Touches, Counts, Running
    <3>2. /\ UNCHANGED store \/ Erase(r)
          /\ Answer(r, Raised("ResponseError")) \/ Answer(r, Is(FALSE))
      BY <3>1 DEF RedisSetRefused, MemcachedForget
    <3>3. reply'[r] = Raised("ResponseError") \/ reply'[r] = Is(FALSE)
      BY <1>1, <3>2, AnswerLemma
    <3> QED BY <3>2, <3>3 DEF Raised, Is
  <2> QED BY <1>1, <2>2, <2>3
<1>5. CASE stage[r] = "storing" /\ ~Fails(r)
  <2>1. req[r].op = "set" /\ req[r].value.url = url[r] /\ req[r].value.by = r
    BY <1>1, <1>5 DEF Asks
  <2>2. RedisSet(r) \/ RedisSetRefused(r) \/ MemcachedSet(r) \/ MemcachedForget(r)
    BY <1>5, <2>1 DEF Command, Reads, Deletes, RedisSet, RedisSetRefused, MemcachedSet,
                MemcachedForget, Touches, Counts, Running
  <2>3. ASSUME NEW d \in Int, d <= now + Lifetime(r)
        PROVE  Kept(K(r), Item(req[r].value, d))
    BY <1>1, <1>2, <1>3, <2>1, <2>3 DEF Kept, Item, Asks
  <2>4. CASE RedisSet(r)
    <3>1. CASE req[r].ttl = 0
      BY <1>5, <2>4, <3>1 DEF RedisSet
    <3>2. CASE req[r].ttl # 0
      <4> DEFINE d == now + RedisTtl(req[r], req[r].ttl)
      <4>1. d \in Int /\ d <= now + Lifetime(r)
        BY <1>1, <1>3 DEF RedisTtl, Lifetime, Asks
      <4>2. UNCHANGED store \/ Write(r, Item(req[r].value, d))
        BY <2>4, <3>2 DEF RedisSet
      <4> QED BY <1>5, <4>1, <4>2, <2>3
    <3> QED BY <1>5, <3>1, <3>2
  <2>5. CASE MemcachedSet(r)
    <3> DEFINE d == MemcachedDeadline(req[r], req[r].ttl)
    <3>1. d \in Int /\ d <= now + Lifetime(r)
      BY <1>1, <1>3 DEF MemcachedDeadline, Lifetime, Asks
    <3>2. UNCHANGED store \/ Write(r, Item(req[r].value, d))
      BY <2>5 DEF MemcachedSet
    <3> QED BY <1>5, <3>1, <3>2, <2>3
  <2>6. CASE RedisSetRefused(r) \/ MemcachedForget(r)
    BY <1>5, <2>6 DEF RedisSetRefused, MemcachedForget
  <2> QED BY <2>2, <2>4, <2>5, <2>6
<1> QED BY <1>0, <1>1, <1>4, <1>5 DEF Asks

-----------------------------------------------------------------------------
(***************************************************************************)
(* The invariant.                                                          *)
(***************************************************************************)
LEMMA CacheInit == Init => CacheInv
BY OptionsAssumption, RemoteBoundAssumption
   DEF Init, RemoteInit, CacheInv, Shapes, Asking, Entries, Answers, Configured, OwnResponse,
       FreshResponse, Nothing, Names

\* What was put down about a response stays, as options and urls do.
LEMMA FixedLemma ==
  ASSUME UNCHANGED fixed
  PROVE  /\ \A k, e : Kept(k, e) => Kept(k, e)'
         /\ \A r : Lifetime(r)' = Lifetime(r)
         /\ \A r \in Request : RouteKey(r)' = RouteKey(r)
         /\ \A r \in Request :
              Asks(r) /\ stage'[r] = stage[r] /\ req'[r] = req[r] => Asks(r)'
<1>1. options' = options /\ url' = url
  BY DEF fixed
<1>2. \A r : Lifetime(r)' = Lifetime(r) /\ Prefix(r)' = Prefix(r)
  BY <1>1 DEF Lifetime, Prefix
<1>3. \A r \in Request : RouteKey(r)' = RouteKey(r)
  BY <1>1, <1>2 DEF RouteKey
<1>4. \A k, e : Kept(k, e) => Kept(k, e)'
  BY <1>1, <1>2 DEF Kept
<1> QED BY <1>1, <1>2, <1>3, <1>4 DEF Asks

\* A command keeps the entries and the answers right, whoever gives it.
LEMMA CommandInv ==
  ASSUME CacheInv, NEW c \in Client, Command(c), Other
  PROVE  CacheInv'
<1>1. /\ Shapes /\ Asking /\ Entries /\ Answers /\ OwnResponse /\ FreshResponse
      /\ UNCHANGED fixed /\ UNCHANGED <<options, url, stage, given>>
  BY DEF CacheInv, Other, fixed
<1>2. /\ OnlyAbout(c)
      /\ UNCHANGED store \/ Erase(c) \/ \E e : Write(c, e)
  BY <1>1, CommandLemma
<1>3. req[c].backend \in Names /\ server[c] \in Server
  BY <1>1, <1>2 DEF Asking, OnlyAbout
<1>4. Shapes'
  <2>1. DOMAIN store' = Names /\ \A b \in Names : DOMAIN store'[b] = Server
    BY <1>1, <1>2, <1>3, WriteLemma, EraseLemma DEF Shapes
  <2> QED BY <1>1, <1>2, <2>1 DEF Shapes, OnlyAbout, Names
<1>5. Asking'
  <2>1. /\ at[c] # "idle"
        /\ \A d \in Client : at'[d] # "idle" => at[d] # "idle"
        /\ \A d \in Client : at'[d] \in {"called", "between"} => at[d] \in {"called", "between"}
    BY <1>2 DEF OnlyAbout
  <2> QED BY <1>1, <1>2, <2>1, FixedLemma DEF Asking, OnlyAbout, Names
<1>6. ASSUME NEW b \in Names, NEW s \in Server, NEW k \in DOMAIN store'[b][s], k[3] \in RouteKeys
      PROVE  Kept(k, store[b][s][k])'
  <2>1. k \in DOMAIN store[b][s] => Kept(k, store[b][s][k])
    BY <1>1, <1>6 DEF Entries
  <2>2. Kept(k, store'[b][s][k])
    <3>1. CASE UNCHANGED store
      BY <1>6, <2>1, <3>1
    <3>2. CASE Erase(c)
      <4>1. \/ store'[b][s] = store[b][s]
            \/ store'[b][s] = [j \in DOMAIN store[b][s] \ {K(c)} |-> store[b][s][j]]
        BY <1>1, <1>3, <3>2, EraseLemma
      <4> QED BY <1>6, <2>1, <4>1
    <3>3. ASSUME NEW e, Write(c, e), c \in Request => Kept(K(c), e)
          PROVE  Kept(k, store'[b][s][k])
      <4>1. CASE ~Touched(c, b, s)
        <5>1. store'[b][s] = store[b][s]
          BY <1>1, <1>3, <3>3, <4>1, WriteLemma
        <5> QED BY <1>6, <2>1, <5>1
      <4>2. CASE Touched(c, b, s)
        <5>1. store'[b][s] = [j \in DOMAIN store[b][s] \cup {K(c)} |->
                                IF j = K(c) THEN e ELSE store[b][s][j]]
          BY <1>1, <1>3, <3>3, <4>2, WriteLemma
        <5>2. CASE k # K(c)
          BY <1>6, <2>1, <5>1, <5>2
        <5>3. CASE k = K(c)
          <6>1. c \in Request
            <7>1. K(c)[3] = req[c].key
              BY DEF K, MakeKey
            <7>2. c \notin Request => req[c] \in Call
              BY <1>1, <1>2 DEF Asking, OnlyAbout
            <7> QED BY <1>6, <5>3, <7>1, <7>2, KeyAssumption
          <6>2. store'[b][s][k] = e
            BY <5>1, <5>3
          <6> QED BY <3>3, <4>2, <5>3, <6>1, <6>2 DEF Touched
        <5> QED BY <5>2, <5>3
      <4> QED BY <4>1, <4>2
    <3>4. UNCHANGED store \/ Erase(c) \/ \E e : Write(c, e) /\ (c \in Request => Kept(K(c), e))
      BY <1>1, <1>2, RequestCommand
    <3> QED BY <3>1, <3>2, <3>3, <3>4
  <2> QED BY <1>1, <2>2, FixedLemma DEF Kept
<1>7. Entries'
  BY <1>6 DEF Entries, Names
<1>8. Answers'
  <2>1. ASSUME NEW r \in Request, stage'[r] = "reading", at'[r] = "done", reply'[r].kind = "found"
        PROVE  reply'[r].value.url = url'[r] /\ reply'[r].age < Lifetime(reply[r].value.by)'
    <3>1. r \in Client /\ (\A x : Lifetime(x)' = Lifetime(x)) /\ stage[r] = "reading" /\ url' = url
      BY <1>1, <2>1, FixedLemma, RequestAssumption
    <3>2. CASE r = c
      BY <1>1, <2>1, <3>1, <3>2, RequestCommand
    <3>3. CASE r # c
      BY <1>1, <1>2, <2>1, <3>1, <3>3 DEF Answers, OnlyAbout
    <3> QED BY <3>2, <3>3
  <2> QED BY <2>1 DEF Answers
<1>9. Configured' /\ OwnResponse' /\ FreshResponse'
  <2>1. /\ \A x : Lifetime(x)' = Lifetime(x)
        /\ Configured
    BY <1>1, FixedLemma DEF CacheInv
  <2>2. Configured' /\ OwnResponse'
    BY <1>1, <2>1 DEF Configured, OwnResponse, Names
  <2>3. FreshResponse'
    BY <1>1, <2>1 DEF FreshResponse
  <2> QED BY <2>2, <2>3
<1> QED BY <1>4, <1>5, <1>7, <1>8, <1>9 DEF CacheInv

\* A call begins with its server.
LEMMA BeginLemma ==
  ASSUME Shapes, NEW c \in Client, NEW q, Begin(c, q),
         q.backend \in Names /\ Backend[q.backend].kind = "memcached" => Shard[q.key] \in Server
  PROVE  /\ at[c] = "idle" /\ at'[c] \in {"called", "done"} /\ req'[c] = q
         /\ at'[c] = "called" => q.backend \in Names /\ server'[c] \in Server
         /\ q.backend \in Names => at'[c] = "called"
         /\ DOMAIN at' = Client /\ DOMAIN req' = Client /\ DOMAIN server' = Client /\ DOMAIN reply' = Client
         /\ \A d \in Client : d # c =>
              at'[d] = at[d] /\ req'[d] = req[d] /\ server'[d] = server[d] /\ reply'[d] = reply[d]
         /\ UNCHANGED <<now, store>>
<1>1. CASE q.backend \in Names
  <2>1. PICK s \in ServersOf(q) : server' = [server EXCEPT ![c] = s]
    BY <1>1 DEF Begin, Names
  <2>2. s \in Server
    <3>1. PickServer(FALSE) \subseteq Server
      BY ServerAssumption DEF PickServer, Server
    <3> QED BY <1>1, <2>1, <3>1, BackendAssumption DEF ServersOf, Kinds, Names
  <2>3. /\ at[c] = "idle" /\ at' = [at EXCEPT ![c] = "called"] /\ req' = [req EXCEPT ![c] = q]
        /\ UNCHANGED <<now, store, reply>>
    BY <1>1 DEF Begin, Names
  <2> QED BY <1>1, <2>1, <2>2, <2>3 DEF Shapes
<1>2. CASE q.backend \notin Names
  <2>1. /\ at[c] = "idle" /\ at' = [at EXCEPT ![c] = "done"] /\ req' = [req EXCEPT ![c] = q]
        /\ reply' = [reply EXCEPT ![c] = Raised("InvalidCacheBackendKeyException")]
        /\ UNCHANGED <<now, store, server>>
    BY <1>2 DEF Begin, Names
  <2> QED BY <1>2, <2>1 DEF Shapes
<1> QED BY <1>1, <1>2

LEMMA ReturnLemma ==
  ASSUME Shapes, NEW c \in Client, Return(c)
  PROVE  /\ at[c] = "done" /\ at'[c] = "idle"
         /\ DOMAIN at' = Client /\ DOMAIN req' = Client /\ DOMAIN server' = Client /\ DOMAIN reply' = Client
         /\ \A d \in Client : d # c =>
              at'[d] = at[d] /\ req'[d] = req[d] /\ server'[d] = server[d] /\ reply'[d] = reply[d]
         /\ UNCHANGED <<now, store>>
BY DEF Return, Shapes

\* A step about client c, other than a command of a server.
Local(c) ==
  /\ UNCHANGED <<now, store>> /\ UNCHANGED fixed
  /\ DOMAIN at' = Client /\ DOMAIN req' = Client /\ DOMAIN server' = Client /\ DOMAIN reply' = Client
  /\ DOMAIN stage' = Request /\ DOMAIN given' = Request
  /\ \A d \in Client : d # c =>
       at'[d] = at[d] /\ req'[d] = req[d] /\ server'[d] = server[d] /\ reply'[d] = reply[d]
  /\ \A d \in Request : d # c => stage'[d] = stage[d] /\ given'[d] = given[d]

LEMMA LocalLemma ==
  ASSUME CacheInv, NEW c \in Client, Local(c),
         at'[c] # "idle" => IF c \in Request THEN Asks(c)' ELSE req'[c] \in Call,
         at'[c] \in {"called", "between"} => req'[c].backend \in Names /\ server'[c] \in Server,
         c \in Request /\ stage'[c] = "reading" => at'[c] # "done",
         c \in Request /\ stage'[c] = "computing" => options[c].backend \in Names,
         c \in Request /\ given'[c].kind = "found" =>
           \/ given'[c] = given[c]
           \/ /\ given'[c].value.url = url[c]
              /\ "age" \in DOMAIN given'[c] => given'[c].age < Lifetime(given'[c].value.by)
  PROVE  CacheInv'
<1>1. /\ Shapes /\ Asking /\ Entries /\ Answers /\ OwnResponse /\ FreshResponse
      /\ UNCHANGED <<options, url>> /\ \A r : Lifetime(r)' = Lifetime(r)
  BY FixedLemma DEF CacheInv, Local, fixed
<1>2. Shapes'
  BY <1>1 DEF Shapes, Local, Names
<1>3. Asking'
  <2>1. ASSUME NEW d \in Client, d # c
        PROVE  /\ at'[d] # "idle" => IF d \in Request THEN Asks(d)' ELSE req'[d] \in Call
               /\ at'[d] \in {"called", "between"} => req'[d].backend \in Names /\ server'[d] \in Server
    <3>1. /\ at'[d] = at[d] /\ req'[d] = req[d] /\ server'[d] = server[d]
          /\ d \in Request => stage'[d] = stage[d]
      BY <2>1 DEF Local
    <3>2. at[d] # "idle" /\ d \in Request => Asks(d)'
      BY <1>1, <3>1, FixedLemma DEF Asking, Local
    <3> QED BY <1>1, <3>1, <3>2 DEF Asking
  <2> QED BY <2>1 DEF Asking, Names
<1>4. Entries'
  <2>1. ASSUME NEW b \in Names, NEW s \in Server, NEW k \in DOMAIN store[b][s], k[3] \in RouteKeys
        PROVE  Kept(k, store[b][s][k])'
    <3>1. Kept(k, store[b][s][k])
      BY <1>1, <2>1 DEF Entries
    <3> QED BY <1>1, <3>1 DEF Kept, Local
  <2> QED BY <2>1 DEF Entries, Names, Local
<1>5. Answers'
  BY <1>1, RequestAssumption DEF Answers, Local
<1>6. Configured'
  BY <1>1 DEF Configured, CacheInv, Local, Names
<1>7. OwnResponse'
  BY <1>1 DEF OwnResponse, Local
<1>8. FreshResponse'
  <2>1. ASSUME NEW d \in Request, given'[d].kind = "found", "age" \in DOMAIN given'[d]
        PROVE  given'[d].age < Lifetime(given'[d].value.by)
    <3>1. CASE given'[d] = given[d]
      BY <1>1, <2>1, <3>1 DEF FreshResponse, Lifetime
    <3>2. CASE given'[d] # given[d]
      BY <2>1, <3>2 DEF Local
    <3> QED BY <3>1, <3>2
  <2> QED BY <1>1, <2>1 DEF FreshResponse, Lifetime
<1> QED BY <1>2, <1>3, <1>4, <1>5, <1>6, <1>7, <1>8 DEF CacheInv

\* The stages of a request keep its call, its answer and what it returned.
LEMMA RequestInv ==
  ASSUME CacheInv, NEW r \in Request,
         Misconfigured(r) \/ Lookup(r) \/ ServeCached(r) \/ Miss(r) \/ Compute(r) \/ Stored(r)
  PROVE  CacheInv'
<1>1. /\ Shapes /\ Asking /\ Answers /\ Configured /\ r \in Client
  BY RequestAssumption DEF CacheInv
<1>2. /\ UNCHANGED fixed /\ UNCHANGED <<options, url>>
      /\ DOMAIN stage' = Request
      /\ \A d \in Request : d # r => stage'[d] = stage[d]
  BY <1>1 DEF Misconfigured, Lookup, ServeCached, Miss, Compute, Stored, Move, Shapes, fixed
<1>3. at[r] # "idle" => Asks(r) /\ stage[r] \in {"reading", "storing"}
  BY <1>1 DEF Asking, Asks
<1>4. RouteKey(r)' = RouteKey(r)
  BY <1>2, FixedLemma
<1>5. ASSUME UNCHANGED given PROVE DOMAIN given' = Request /\ \A d \in Request : given'[d] = given[d]
  BY <1>1, <1>5 DEF Shapes
<1>6. ASSUME options[r].backend \in Names
      PROVE  Shard[RouteKey(r)] \in Server
  <2>1. Prefix(r) \in RoutePrefix
    BY <1>1, <1>6 DEF Prefix, RoutePrefix, Shapes, Names
  <2>2. RouteKey(r) \in RouteKeys
    BY <1>1, <2>1 DEF RouteKey, RouteKeys, Shapes
  <2> QED BY <2>2, KeyAssumption
<1>7. CASE Misconfigured(r)
  <2>1. /\ UNCHANGED remote /\ UNCHANGED given /\ stage[r] = "arrived" /\ at[r] = "idle"
        /\ stage'[r] = "failed"
    BY <1>1, <1>3, <1>7 DEF Misconfigured, Move, Shapes
  <2>2. Local(r)
    BY <1>1, <1>2, <1>5, <2>1 DEF Local, remote, Shapes
  <2> QED BY <1>1, <1>5, <2>1, <2>2, LocalLemma DEF remote
<1>8. CASE Lookup(r)
  <2> DEFINE q == CacheCall(r, "get", Nothing)
  <2>1. /\ Begin(r, q) /\ UNCHANGED given /\ stage'[r] = "reading" /\ options[r].backend \in Names
    BY <1>1, <1>8 DEF Lookup, Move, Shapes, Names
  <2>2. /\ q.backend = options[r].backend /\ q.key = RouteKey(r) /\ q.ttl = options[r].ttl /\ q.op = "get"
    BY DEF CacheCall
  <2>3. /\ at'[r] = "called" /\ req'[r] = q /\ server'[r] \in Server
        /\ Local(r)
    <3> HIDE DEF q
    <3> QED BY <1>1, <1>2, <1>5, <1>6, <2>1, <2>2, BeginLemma DEF Local
  <2>4. Asks(r)'
    BY <1>2, <1>4, <2>1, <2>2, <2>3 DEF Asks, Names
  <2> QED BY <1>1, <1>5, <2>1, <2>2, <2>3, <2>4, LocalLemma
<1>9. CASE ServeCached(r)
  <2>1. /\ Return(r) /\ stage'[r] = "served" /\ stage[r] = "reading" /\ at[r] = "done"
        /\ reply[r].kind = "found" /\ given' = [given EXCEPT ![r] = reply[r]]
    BY <1>1, <1>9 DEF ServeCached, Useful, Move, Shapes
  <2>2. /\ given'[r] = reply[r] /\ reply[r].value.url = url[r] /\ reply[r].age < Lifetime(reply[r].value.by)
        /\ DOMAIN given' = Request /\ \A d \in Request : d # r => given'[d] = given[d]
    BY <1>1, <2>1 DEF Shapes, Answers
  <2>3. at'[r] = "idle" /\ Local(r)
    BY <1>1, <1>2, <2>1, <2>2, ReturnLemma DEF Local
  <2> QED BY <1>1, <2>1, <2>2, <2>3, LocalLemma
<1>10. CASE Miss(r) \/ Stored(r)
  <2>1. /\ Return(r) /\ UNCHANGED given
        /\ stage'[r] = "computing" => stage[r] = "reading" /\ at[r] = "done"
    BY <1>1, <1>10 DEF Miss, Stored, Move, Shapes
  <2>2. at'[r] = "idle" /\ Local(r)
    BY <1>1, <1>2, <1>5, <2>1, ReturnLemma DEF Local
  <2>3. stage'[r] = "computing" => options[r].backend \in Names
    BY <1>3, <2>1 DEF Asks
  <2> QED BY <1>1, <1>5, <2>1, <2>2, <2>3, LocalLemma
<1>11. CASE Compute(r)
  <2>1. CASE UNCHANGED remote /\ UNCHANGED given /\ stage'[r] = "failed"
    <3>1. at[r] = "idle"
      BY <1>3, <1>11 DEF Compute
    <3>2. Local(r)
      BY <1>1, <1>2, <1>5, <2>1 DEF Local, remote, Shapes
    <3> QED BY <1>1, <1>5, <2>1, <3>1, <3>2, LocalLemma DEF remote
  <2>2. CASE /\ Begin(r, CacheCall(r, "set", Response(r))) /\ stage'[r] = "storing"
             /\ given' = [given EXCEPT ![r] = Found(Response(r))]
    <3> DEFINE q == CacheCall(r, "set", Response(r))
    <3>1. /\ q.backend = options[r].backend /\ q.key = RouteKey(r) /\ q.ttl = options[r].ttl
          /\ q.op = "set" /\ q.value.url = url[r] /\ q.value.by = r
      BY DEF CacheCall, Response
    <3>2. /\ given'[r].value.url = url[r] /\ "age" \notin DOMAIN given'[r]
          /\ DOMAIN given' = Request /\ \A d \in Request : d # r => given'[d] = given[d]
      BY <1>1, <2>2 DEF Found, Response, Shapes
    <3>3. options[r].backend \in Names
      BY <1>1, <1>11 DEF Compute, Configured
    <3>4. at'[r] = "called" /\ req'[r] = q /\ server'[r] \in Server /\ Local(r)
      <4>1. Begin(r, q)
        BY <2>2
      <4> HIDE DEF q
      <4> QED BY <1>1, <1>2, <1>6, <3>1, <3>2, <3>3, <4>1, BeginLemma DEF Local
    <3>5. Asks(r)'
      BY <1>2, <1>4, <2>2, <3>1, <3>3, <3>4 DEF Asks, Names
    <3> QED BY <1>1, <2>2, <3>1, <3>2, <3>3, <3>4, <3>5, LocalLemma
  <2> QED BY <1>1, <1>11, <2>1, <2>2 DEF Compute, Move, Shapes
<1> QED BY <1>7, <1>8, <1>9, <1>10, <1>11

\* Every step keeps the invariant.
LEMMA CacheNext == CacheInv /\ [Next]_vars => CacheInv'
<1> SUFFICES ASSUME CacheInv, [Next]_vars PROVE CacheInv'
  OBVIOUS
<1>1. ASSUME UNCHANGED <<store, at, req, server, reply>>, UNCHANGED <<options, url, stage, given>>,
             now' \in Nat
      PROVE  CacheInv'
  <2>1. /\ Shapes /\ Asking /\ Entries /\ Answers /\ Configured /\ OwnResponse /\ FreshResponse
        /\ UNCHANGED fixed
    BY <1>1 DEF CacheInv, fixed
  <2>2. Asking'
    BY <1>1, <2>1, FixedLemma DEF Asking, Names
  <2>3. Entries' /\ Answers'
    <3>1. (\A x : Lifetime(x)' = Lifetime(x)) /\ \A k, e : Kept(k, e) => Kept(k, e)'
      BY <2>1, FixedLemma
    <3>2. ASSUME NEW b \in Names, NEW s \in Server, NEW k \in DOMAIN store[b][s], k[3] \in RouteKeys
          PROVE  Kept(k, store[b][s][k])'
      <4>1. Kept(k, store[b][s][k])
        BY <2>1, <3>2 DEF Entries
      <4> QED BY <1>1, <2>1, <3>1, <4>1 DEF Kept
    <3>3. Entries'
      BY <1>1, <3>2 DEF Entries, Names
    <3>4. Answers'
      BY <1>1, <2>1, <3>1 DEF Answers
    <3> QED BY <3>3, <3>4
  <2>4. Shapes' /\ Configured' /\ OwnResponse'
    BY <1>1, <2>1 DEF Shapes, Configured, OwnResponse, Names
  <2>5. FreshResponse'
    <3>1. \A x : Lifetime(x)' = Lifetime(x)
      BY <2>1, FixedLemma
    <3> QED BY <1>1, <2>1, <3>1 DEF FreshResponse
  <2> QED BY <2>2, <2>3, <2>4, <2>5 DEF CacheInv
<1>2. CASE Change
  BY <1>1, <1>2 DEF Change, remote, fixed, CacheInv, Shapes
<1>3. CASE Tick /\ Other
  BY <1>1, <1>3 DEF Tick, Other, fixed, CacheInv, Shapes
<1>4. ASSUME NEW c \in Client, Command(c), Other
      PROVE  CacheInv'
  BY <1>4, CommandInv
<1>5. ASSUME NEW c \in Client \ Request, Other,
             Return(c) \/ \E q \in Call : Begin(c, q)
      PROVE  CacheInv'
  <2>1. /\ Shapes /\ DOMAIN stage' = Request /\ DOMAIN given' = Request /\ UNCHANGED fixed
        /\ \A d \in Request : stage'[d] = stage[d] /\ given'[d] = given[d]
    BY <1>5 DEF CacheInv, Shapes, Other
  <2>2. CASE Return(c)
    <3>1. at'[c] = "idle" /\ Local(c)
      BY <2>1, <2>2, ReturnLemma DEF Local
    <3> QED BY <3>1, LocalLemma
  <2>3. ASSUME NEW q \in Call, Begin(c, q)
        PROVE  CacheInv'
    <3>1. Shard[q.key] \in Server
      BY KeyAssumption
    <3>2. /\ Local(c) /\ req'[c] = q /\ at'[c] \in {"called", "done"}
          /\ at'[c] = "called" => q.backend \in Names /\ server'[c] \in Server
      BY <2>1, <2>3, <3>1, BeginLemma DEF Local
    <3> QED BY <3>2, LocalLemma
  <2> QED BY <1>5, <2>2, <2>3
<1>6. ASSUME NEW r \in Request,
             Misconfigured(r) \/ Lookup(r) \/ ServeCached(r) \/ Miss(r) \/ Compute(r) \/ Stored(r)
      PROVE  CacheInv'
  BY <1>6, RequestInv
<1>7. CASE UNCHANGED vars
  BY <1>1, <1>7 DEF vars, remote, fixed, CacheInv, Shapes
<1> QED BY <1>2, <1>3, <1>4, <1>5, <1>6, <1>7 DEF Next

\* A request never gets the response of another url, with any number of
\* requests, clients, backends and servers.
THEOREM OwnResponses == Spec => []OwnResponse
<1>1. CacheInv => OwnResponse
  BY DEF CacheInv
<1> QED BY CacheInit, CacheNext, <1>1, PTL DEF Spec

\* A response from the cache is younger than the ttl of the handler that stored
\* it, for any options of any number of handlers that share urls, whichever
\* backend turned the ttl into a deadline, and whatever commands failed.
THEOREM FreshResponses == Spec => []FreshResponse
<1>1. CacheInv => FreshResponse
  BY DEF CacheInv
<1> QED BY CacheInit, CacheNext, <1>1, PTL DEF Spec
=============================================================================
