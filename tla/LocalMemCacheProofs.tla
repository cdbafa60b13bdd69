------------------------ MODULE LocalMemCacheProofs ------------------------
(***************************************************************************)
(* Proofs about LocalMemCache, for any clients, keys, values, deadlines    *)
(* and bounds.  The inductive invariant is the conjunction of the typing,  *)
(* of the agreement of the two dictionaries and of the lock's bookkeeping: *)
(* typing needs the lock (only a caller runs a body, so its request is     *)
(* one), and the agreement needs nothing but typing.  The second half      *)
(* shows, step by step, that the live entries are those of the cache the   *)
(* module promises to be.                                                  *)
(***************************************************************************)
EXTENDS LocalMemCache, TLAPS

IInv == TypeOK /\ TablesAgree /\ LockOK

\* A deadline is an integer.
LEMMA TtlLemma ==
  ASSUME now \in Nat, NEW ttl \in Ttl \cup {NoTtl}
  PROVE  BackendTtl(ttl) \in Int
BY TtlAssumption, DefaultAssumption DEF BackendTtl, DefaultTtl

\* Whatever the waiting line, handing the lock on keeps the bookkeeping of
\* everybody but the client that leaves.
LEMMA ReleaseLemma ==
  ASSUME TypeOK, LockOK, NEW c \in Client, owner = c, Release
  PROVE  /\ owner' \in Client \cup {Nobody}
         /\ waiters' \in Seq(Client)
         /\ \A i \in 1..Len(waiters') : waiters'[i] # owner'
         /\ \A i, j \in 1..Len(waiters') : i # j => waiters'[i] # waiters'[j]
         /\ owner' = Nobody => waiters' = <<>>
         /\ owner' # c /\ \A i \in 1..Len(waiters') : waiters'[i] # c
         /\ \A d \in Client \ {c} :
               (owner' = d \/ \E i \in 1..Len(waiters') : waiters'[i] = d)
                 <=> (\E i \in 1..Len(waiters) : waiters[i] = d)
<1>1. CASE waiters = <<>>
  BY <1>1, NobodyAssumption DEF TypeOK, LockOK, Release
<1>2. CASE waiters # <<>>
  <2>1. /\ Len(waiters) \in Nat \ {0}
        /\ Len(waiters') = Len(waiters) - 1
        /\ waiters' \in Seq(Client)
        /\ \A i \in 1..Len(waiters') : waiters'[i] = waiters[i+1]
        /\ owner' = waiters[1]
        /\ waiters[1] \in Client
    <3>1. waiters \in Seq(Client) /\ owner' = Head(waiters) /\ waiters' = Tail(waiters)
      BY <1>2 DEF TypeOK, Release
    <3>2. Len(waiters) \in Nat \ {0} /\ Head(waiters) = waiters[1]
      BY <1>2, <3>1
    <3>3. Tail(waiters) \in Seq(Client) /\ Len(Tail(waiters)) = Len(waiters) - 1
      BY <1>2, <3>1
    <3>4. \A i \in 1..Len(Tail(waiters)) : Tail(waiters)[i] = waiters[i+1]
      BY <1>2, <3>1, <3>2, <3>3
    <3>5. waiters[1] \in Client
      BY <3>1, <3>2
    <3> QED BY <3>1, <3>2, <3>3, <3>4, <3>5
  <2>2. \A i \in 1..Len(waiters') : i + 1 \in 1..Len(waiters) /\ i + 1 # 1
    BY <2>1
  <2>3. \A i \in 1..Len(waiters) : i = 1 \/ i - 1 \in 1..Len(waiters')
    BY <2>1
  <2>4. 1 \in 1..Len(waiters)
    BY <2>1
  <2>5. \A i, j \in 1..Len(waiters') : i # j => waiters'[i] # waiters'[j]
    BY <2>1, <2>2 DEF LockOK
  <2>6. ASSUME NEW d \in Client
        PROVE  (owner' = d \/ \E i \in 1..Len(waiters') : waiters'[i] = d)
                 <=> (\E i \in 1..Len(waiters) : waiters[i] = d)
    <3>1. ASSUME NEW i \in 1..Len(waiters), waiters[i] = d, i # 1
          PROVE  \E j \in 1..Len(waiters') : waiters'[j] = d
      <4>1. i - 1 \in 1..Len(waiters') /\ (i - 1) + 1 = i
        BY <2>3, <3>1
      <4> QED BY <4>1, <3>1, <2>1
    <3> QED BY <3>1, <2>1, <2>2, <2>4
  <2> QED BY <2>1, <2>2, <2>4, <2>5, <2>6, NobodyAssumption DEF LockOK
<1> QED BY <1>1, <1>2

\* Joining a lock somebody holds, or taking a free one.
LEMMA AcquireLemma ==
  ASSUME TypeOK, LockOK, NEW c \in Client, pc[c] # "called", Acquire(c)
  PROVE  /\ owner' \in Client
         /\ waiters' \in Seq(Client)
         /\ \A i \in 1..Len(waiters') : waiters'[i] # owner'
         /\ \A i, j \in 1..Len(waiters') : i # j => waiters'[i] # waiters'[j]
         /\ \A d \in Client :
               (owner' = d \/ \E i \in 1..Len(waiters') : waiters'[i] = d)
                 <=> (d = c \/ owner = d \/ \E i \in 1..Len(waiters) : waiters[i] = d)
<1>1. CASE owner = Nobody
  BY <1>1, NobodyAssumption DEF TypeOK, LockOK, Acquire
<1>2. CASE owner # Nobody
  <2>1. waiters \in Seq(Client) /\ owner \in Client /\ owner' = owner
        /\ waiters' = Append(waiters, c)
    BY <1>2 DEF TypeOK, Acquire
  <2>2. /\ waiters' \in Seq(Client)
        /\ Len(waiters) \in Nat
        /\ Len(waiters') = Len(waiters) + 1
        /\ \A i \in 1..Len(waiters) : waiters'[i] = waiters[i]
        /\ waiters'[Len(waiters')] = c
    BY <2>1
  <2>3. owner # c /\ \A i \in 1..Len(waiters) : waiters[i] # c
    BY DEF LockOK
  <2>4. \A i \in 1..Len(waiters') : i \in 1..Len(waiters) \/ i = Len(waiters')
    BY <2>2
  <2>5. 1..Len(waiters) \subseteq 1..Len(waiters') /\ Len(waiters') \in 1..Len(waiters')
    BY <2>2
  <2>6. /\ \A i \in 1..Len(waiters') : waiters'[i] # owner'
        /\ \A i, j \in 1..Len(waiters') : i # j => waiters'[i] # waiters'[j]
    BY <2>1, <2>2, <2>3, <2>4 DEF LockOK
  <2>7. \A d \in Client :
          (\E i \in 1..Len(waiters') : waiters'[i] = d)
            <=> (d = c \/ \E i \in 1..Len(waiters) : waiters[i] = d)
    BY <2>2, <2>4, <2>5
  <2> QED BY <2>1, <2>2, <2>6, <2>7
<1> QED BY <1>1, <1>2

\* Leaving the queue from any place in it.
LEMMA RemoveAtLemma ==
  ASSUME NEW S, NEW s \in Seq(S), NEW i \in 1..Len(s)
  PROVE  /\ RemoveAt(s, i) \in Seq(S)
         /\ Len(RemoveAt(s, i)) = Len(s) - 1
         /\ \A j \in 1..(Len(s) - 1) : RemoveAt(s, i)[j] = IF j < i THEN s[j] ELSE s[j+1]
<1> DEFINE front == SubSeq(s, 1, i-1)
           back  == SubSeq(s, i+1, Len(s))
<1>1. Len(s) \in Nat /\ i \in Nat
  OBVIOUS
<1>2. /\ front \in Seq(S) /\ Len(front) = i - 1
      /\ \A j \in 1..(i-1) : front[j] = s[j]
  BY <1>1
<1>3. /\ back \in Seq(S) /\ Len(back) = Len(s) - i
      /\ \A j \in 1..(Len(s)-i) : back[j] = s[i+j]
  BY <1>1
<1> HIDE DEF front, back
<1>4. front \o back \in Seq(S) /\ Len(front \o back) = Len(s) - 1
  <2>1. front \o back \in Seq(S) /\ Len(front \o back) = Len(front) + Len(back)
    BY <1>2, <1>3
  <2> QED BY <2>1, <1>1, <1>2, <1>3
<1>5. ASSUME NEW j \in 1..(Len(front) + Len(back))
      PROVE  (front \o back)[j] = IF j <= Len(front) THEN front[j] ELSE back[j - Len(front)]
  BY <1>2, <1>3
<1>6. ASSUME NEW j \in 1..(Len(s)-1)
      PROVE  (front \o back)[j] = IF j < i THEN s[j] ELSE s[j+1]
  <2>1. CASE j < i
    <3>1. j \in 1..(Len(front) + Len(back)) /\ j <= Len(front) /\ j \in 1..(i-1)
      BY <2>1, <1>1, <1>2, <1>3
    <3> QED BY <3>1, <2>1, <1>2, <1>5
  <2>2. CASE ~(j < i)
    <3>1. /\ j \in 1..(Len(front) + Len(back)) /\ ~(j <= Len(front)) /\ ~(j < i)
          /\ j - Len(front) \in 1..(Len(s)-i) /\ i + (j - Len(front)) = j + 1
      BY <2>2, <1>1, <1>2, <1>3
    <3>2. back[j - Len(front)] = s[i + (j - Len(front))]
      BY <3>1, <1>3
    <3>3. (front \o back)[j] = back[j - Len(front)]
      BY <3>1, <1>5
    <3>4. s[i + (j - Len(front))] = s[j + 1]
      BY <3>1
    <3> QED BY <3>1, <3>2, <3>3, <3>4, <2>2
  <2> QED BY <2>1, <2>2
<1> QED BY <1>4, <1>6 DEF RemoveAt, front, back

\* The tables are well-typed and hold the same keys.
TablesOK ==
  /\ DOMAIN cache \subseteq Key /\ \A k \in DOMAIN cache : cache[k] \in Value
  /\ DOMAIN expire \subseteq Key /\ \A k \in DOMAIN expire : expire[k] \in Int
  /\ DOMAIN cache = DOMAIN expire

\* A client that leaves the lock leaves it in order.
LEMMA LeaveLock ==
  ASSUME TypeOK, LockOK, NEW c \in Client, owner = c, pc[c] = "called", Release,
         NEW there \in {"idle", "done"}, pc' = [pc EXCEPT ![c] = there]
  PROVE  LockOK' /\ owner' \in Client \cup {Nobody} /\ waiters' \in Seq(Client)
<1>1. /\ owner' \in Client \cup {Nobody} /\ waiters' \in Seq(Client)
      /\ \A i \in 1..Len(waiters') : waiters'[i] # owner'
      /\ \A i, j \in 1..Len(waiters') : i # j => waiters'[i] # waiters'[j]
      /\ owner' = Nobody => waiters' = <<>>
      /\ owner' # c /\ \A i \in 1..Len(waiters') : waiters'[i] # c
      /\ \A d \in Client \ {c} :
            (owner' = d \/ \E i \in 1..Len(waiters') : waiters'[i] = d)
              <=> (\E i \in 1..Len(waiters) : waiters[i] = d)
  BY ReleaseLemma
<1>2. ASSUME NEW d \in Client
      PROVE  pc'[d] = "called" <=> (owner' = d \/ \E i \in 1..Len(waiters') : waiters'[i] = d)
  <2>1. CASE d = c
    BY <2>1, <1>1 DEF TypeOK
  <2>2. CASE d # c
    BY <2>2, <1>1 DEF TypeOK, LockOK
  <2> QED BY <2>1, <2>2
<1> QED BY <1>1, <1>2 DEF LockOK

\* Evicting a key keeps the tables in order.
LEMMA DeleteLemma ==
  ASSUME TablesOK, NEW k, Delete(k)
  PROVE  TablesOK'
BY DEF TablesOK, Delete, Without, Restrict

\* Storing a value of the right type keeps the tables in order.
LEMMA StoreLemma ==
  ASSUME TablesOK, NEW k \in Key, NEW v \in Value,
         cache' = Updated(cache, k, v), k \in DOMAIN expire, UNCHANGED expire
  PROVE  TablesOK'
<1>1. DOMAIN cache' = DOMAIN cache
  BY DEF TablesOK, Updated
<1>2. \A j \in DOMAIN cache' : cache'[j] \in Value
  BY <1>1 DEF TablesOK, Updated
<1> QED BY <1>1, <1>2 DEF TablesOK

\* A caller's request is well-formed, per operation.
LEMMA RequestLemma ==
  ASSUME TypeOK, NEW c \in Client, NEW op, Inside(c, op)
  PROVE  /\ req[c] \in Request /\ req[c].key \in Key
         /\ op = "set" => req[c].value \in Value /\ req[c].ttl \in Ttl \cup {NoTtl}
         /\ op = "touch" => req[c].ttl \in Ttl \cup {NoTtl}
         /\ op \in {"incr", "decr"} => req[c].delta \in Int
BY ValueAssumption, DeltaAssumption DEF TypeOK, Inside, Request, Value

\* Every body keeps the tables in order.
LEMMA BodyTables ==
  ASSUME TypeOK, TablesAgree, NEW c \in Client, Body(c)
  PROVE  TablesOK'
<1> DEFINE k == req[c].key
<1>0. TablesOK /\ now \in Nat
  BY DEF TypeOK, TablesAgree, TablesOK
<1>1. CASE GetAsync(c)
  BY <1>1, <1>0, DeleteLemma DEF GetAsync, tables, TablesOK
<1>2. CASE HasKeyAsync(c)
  BY <1>2, <1>0, DeleteLemma DEF HasKeyAsync, tables, TablesOK
<1>3. CASE DeleteAsync(c)
  BY <1>3, <1>0, DeleteLemma DEF DeleteAsync
<1>4. CASE SetAsync(c)
  <2>1. k \in Key /\ req[c].value \in Value /\ BackendTtl(req[c].ttl) \in Int
    BY <1>4, <1>0, RequestLemma, TtlLemma DEF SetAsync
  <2>2. cache' = Updated(cache, k, req[c].value) /\ expire' = Updated(expire, k, BackendTtl(req[c].ttl))
    BY <1>4 DEF SetAsync
  <2>3. /\ DOMAIN cache' = DOMAIN cache \cup {k} /\ DOMAIN expire' = DOMAIN expire \cup {k}
        /\ \A j \in DOMAIN cache' : cache'[j] \in Value
        /\ \A j \in DOMAIN expire' : expire'[j] \in Int
    BY <2>1, <2>2, <1>0 DEF TablesOK, Updated
  <2> QED BY <2>1, <2>3, <1>0 DEF TablesOK
<1>5. CASE TouchAsync(c)
  <2>1. CASE HasExpired(k) /\ UNCHANGED expire
    BY <2>1, <1>5, <1>0 DEF TouchAsync, TablesOK
  <2>2. CASE ~HasExpired(k) /\ expire' = Updated(expire, k, BackendTtl(req[c].ttl))
    <3>1. k \in Key /\ k \in DOMAIN expire /\ BackendTtl(req[c].ttl) \in Int
      BY <1>5, <2>2, <1>0, RequestLemma, TtlLemma DEF TouchAsync, HasExpired
    <3>2. /\ DOMAIN expire' = DOMAIN expire
          /\ \A j \in DOMAIN expire' : expire'[j] \in Int
      BY <3>1, <2>2, <1>0 DEF TablesOK, Updated
    <3> QED BY <3>2, <1>5, <1>0 DEF TouchAsync, TablesOK
  <2> QED BY <1>5, <2>1, <2>2 DEF TouchAsync
<1>6. ASSUME NEW new,
             \/ HasExpired(k) /\ Delete(k)
             \/ UNCHANGED tables
             \/ /\ ~HasExpired(k) /\ new \in Int
                /\ cache' = Updated(cache, k, new) /\ UNCHANGED expire,
             k \in Key
      PROVE  TablesOK'
  <2>1. CASE Delete(k)
    BY <2>1, <1>0, DeleteLemma
  <2>2. CASE UNCHANGED tables
    BY <2>2, <1>0 DEF tables, TablesOK
  <2>3. CASE ~HasExpired(k) /\ new \in Int /\ cache' = Updated(cache, k, new) /\ UNCHANGED expire
    <3>1. k \in DOMAIN expire /\ new \in Value
      BY <2>3 DEF HasExpired, Value
    <3> QED BY <3>1, <2>3, <1>6, <1>0, StoreLemma
  <2> QED BY <1>6, <2>1, <2>2, <2>3
<1>7. CASE IncrAsync(c)
  <2>1. k \in Key /\ req[c].delta \in Int
    BY <1>7, RequestLemma DEF IncrAsync, IncrDecr
  <2>2. ~HasExpired(k) /\ cache[k] # Blob => cache[k] + req[c].delta \in Int
    BY <2>1, <1>0 DEF HasExpired, TablesOK, Value
  <2> QED BY <2>1, <2>2, <1>7, <1>6 DEF IncrAsync, IncrDecr
<1>8. CASE DecrAsync(c)
  <2>1. k \in Key /\ req[c].delta \in Int
    BY <1>8, RequestLemma DEF DecrAsync, IncrDecr
  <2>2. ~HasExpired(k) /\ cache[k] # Blob => Clamped(cache[k] - req[c].delta) \in Int
    BY <2>1, <1>0 DEF HasExpired, TablesOK, Value, Clamped
  <2> QED BY <2>1, <2>2, <1>8, <1>6 DEF DecrAsync, IncrDecr
<1> QED BY <1>1, <1>2, <1>3, <1>4, <1>5, <1>7, <1>8 DEF Body

\* What all bodies have in common.
LEMMA BodyShape ==
  ASSUME NEW c \in Client, Body(c)
  PROVE  /\ pc[c] = "called" /\ owner = c /\ Release
         /\ pc' = [pc EXCEPT ![c] = "done"]
         /\ UNCHANGED <<now, req, calls>>
BY DEF Body, GetAsync, HasKeyAsync, DeleteAsync, SetAsync, TouchAsync, IncrAsync,
       DecrAsync, IncrDecr, Inside, Finish

\* An empty cache with nobody at its lock satisfies the invariant.
LEMMA InitInv == Init => IInv
BY NobodyAssumption DEF Init, IInv, TypeOK, TablesAgree, LockOK

\* Every step of a caller, a body or the clock keeps the invariant.
LEMMA NextInv == IInv /\ [Next]_vars => IInv'
<1> SUFFICES ASSUME IInv, [Next]_vars PROVE IInv'
  OBVIOUS
<1>0. TypeOK /\ TablesAgree /\ LockOK
  BY DEF IInv
<1>1. CASE Tick
  BY <1>1, <1>0 DEF Tick, IInv, TypeOK, TablesAgree, LockOK, tables, lock
<1>2. ASSUME NEW c \in Client, Body(c)
      PROVE  IInv'
  <2>1. /\ pc[c] = "called" /\ owner = c /\ Release
        /\ pc' = [pc EXCEPT ![c] = "done"] /\ UNCHANGED <<now, req, calls>>
    BY <1>2, BodyShape
  <2>2. TablesOK'
    BY <1>0, <1>2, BodyTables
  <2>3. LockOK' /\ owner' \in Client \cup {Nobody} /\ waiters' \in Seq(Client)
    BY <1>0, <2>1, LeaveLock
  <2>4. /\ pc' \in [Client -> {"idle", "called", "done"}]
        /\ \A d \in Client : req'[d] \in IF pc'[d] = "idle" THEN {NoCall} ELSE Request
    BY <1>0, <2>1 DEF TypeOK
  <2> QED BY <1>0, <2>1, <2>2, <2>3, <2>4 DEF IInv, TypeOK, TablesAgree, TablesOK
<1>3. ASSUME NEW c \in Client, Return(c)
      PROVE  IInv'
  <2>1. TypeOK' /\ TablesAgree'
    BY <1>0, <1>3 DEF Return, TypeOK, TablesAgree, tables, lock
  <2>2. LockOK'
    BY <1>0, <1>3 DEF Return, TypeOK, LockOK, tables, lock
  <2> QED BY <2>1, <2>2 DEF IInv
<1>4. ASSUME NEW c \in Client, Cancel(c)
      PROVE  IInv'
  <2>1. LockOK' /\ owner' \in Client \cup {Nobody} /\ waiters' \in Seq(Client)
    <3>1. CASE owner = c /\ Release
      BY <1>0, <1>4, <3>1, LeaveLock DEF Cancel
    <3>2. CASE owner # c
      <4>1. owner' = owner /\ pc' = [pc EXCEPT ![c] = "idle"]
        BY <1>4, <3>2 DEF Cancel
      <4>2. PICK i \in 1..Len(waiters) : waiters[i] = c /\ waiters' = RemoveAt(waiters, i)
        BY <1>4, <3>2 DEF Cancel
      <4>3. waiters \in Seq(Client) /\ Len(waiters) \in Nat
        BY <1>0 DEF TypeOK
      <4>4. /\ waiters' \in Seq(Client) /\ Len(waiters') = Len(waiters) - 1
            /\ \A j \in 1..Len(waiters') : waiters'[j] = IF j < i THEN waiters[j] ELSE waiters[j+1]
        BY <4>2, <4>3, RemoveAtLemma
      <4>5. \A j \in 1..Len(waiters') : j \in 1..Len(waiters) /\ j+1 \in 1..Len(waiters)
        BY <4>3, <4>4
      <4>6. /\ \A j \in 1..Len(waiters') : waiters'[j] # owner
            /\ \A j \in 1..Len(waiters') : waiters'[j] # c
        BY <1>0, <4>2, <4>3, <4>4, <4>5 DEF LockOK
      <4>7. \A j, m \in 1..Len(waiters') : j # m => waiters'[j] # waiters'[m]
        BY <1>0, <4>2, <4>3, <4>4, <4>5 DEF LockOK
      <4>8. ASSUME NEW d \in Client, d # c
            PROVE  (\E j \in 1..Len(waiters') : waiters'[j] = d)
                     <=> (\E j \in 1..Len(waiters) : waiters[j] = d)
        <5>1. ASSUME NEW j \in 1..Len(waiters), waiters[j] = d
              PROVE  \E m \in 1..Len(waiters') : waiters'[m] = d
          <6>1. CASE j < i
            <7>1. j \in 1..Len(waiters')
              BY <6>1, <4>3, <4>4
            <7> QED BY <7>1, <6>1, <5>1, <4>4
          <6>2. CASE ~(j < i)
            <7>1. j # i
              BY <5>1, <4>8, <4>2
            <7>2. j-1 \in 1..Len(waiters') /\ ~(j-1 < i) /\ (j-1)+1 = j
              BY <7>1, <6>2, <4>3, <4>4
            <7> QED BY <7>2, <5>1, <4>4
          <6> QED BY <6>1, <6>2
        <5> QED BY <5>1, <4>4, <4>5
      <4>9. owner # Nobody
        BY <1>0, <4>2, <4>3 DEF LockOK
      <4>10. ASSUME NEW d \in Client
             PROVE  pc'[d] = "called" <=> (owner' = d \/ \E j \in 1..Len(waiters') : waiters'[j] = d)
        <5>1. CASE d = c
          BY <5>1, <4>1, <4>6, <3>2, <1>0 DEF TypeOK
        <5>2. CASE d # c
          BY <5>2, <4>1, <4>8, <1>0 DEF TypeOK, LockOK
        <5> QED BY <5>1, <5>2
      <4> QED BY <1>0, <4>1, <4>4, <4>6, <4>7, <4>9, <4>10 DEF LockOK, TypeOK
    <3> QED BY <1>4, <3>1, <3>2 DEF Cancel
  <2> QED BY <1>0, <1>4, <2>1 DEF Cancel, IInv, TypeOK, TablesAgree, tables
<1>5. ASSUME NEW c \in Client, NEW r \in Request, Call(c, r)
      PROVE  IInv'
  <2>1. /\ pc[c] = "idle" /\ Acquire(c) /\ pc' = [pc EXCEPT ![c] = "called"]
        /\ req' = [req EXCEPT ![c] = r] /\ calls' = [calls EXCEPT ![c] = @ + 1]
        /\ UNCHANGED <<now, tables>>
    BY <1>5 DEF Call
  <2>2. /\ owner' \in Client
        /\ waiters' \in Seq(Client)
        /\ \A i \in 1..Len(waiters') : waiters'[i] # owner'
        /\ \A i, j \in 1..Len(waiters') : i # j => waiters'[i] # waiters'[j]
        /\ \A d \in Client :
               (owner' = d \/ \E i \in 1..Len(waiters') : waiters'[i] = d)
                 <=> (d = c \/ owner = d \/ \E i \in 1..Len(waiters) : waiters[i] = d)
    BY <1>0, <2>1, AcquireLemma
  <2>3. LockOK'
    BY <1>0, <2>1, <2>2, NobodyAssumption DEF LockOK, TypeOK
  <2>4. TypeOK' /\ TablesAgree'
    BY <1>0, <2>1, <2>2 DEF TypeOK, TablesAgree, tables
  <2> QED BY <2>3, <2>4 DEF IInv
<1>6. CASE UNCHANGED vars
  BY <1>6, <1>0 DEF vars, IInv, TypeOK, TablesAgree, LockOK, tables, lock
<1> QED BY <1>1, <1>2, <1>3, <1>4, <1>5, <1>6 DEF Next

\* No call, expiry, cancellation or hand-over of the lock breaks the invariant.
THEOREM Invariance == Spec => []IInv
BY InitInv, NextInv, PTL DEF Spec

\* Every variable keeps its type, for any clients, keys, values and ttls.
THEOREM Typing == Spec => []TypeOK
<1>1. IInv => TypeOK
  BY DEF IInv
<1> QED BY <1>1, Invariance, PTL

\* The two dictionaries have the same keys at every step, also between the
\* steps of a call.
THEOREM TablesTogether == Spec => []TablesAgree
<1>1. IInv => TablesAgree
  BY DEF IInv
<1> QED BY <1>1, Invariance, PTL

\* The lock's owner and its queue are exactly the clients with a call in
\* progress, though callers give up while they wait and hold.
THEOREM LockBookkeeping == Spec => []LockOK
<1>1. IInv => LockOK
  BY DEF IInv
<1> QED BY <1>1, Invariance, PTL

\* Only set_async makes an entry live that was not.
THEOREM OnlySetRevives == Spec => NoResurrection
<1> DEFINE Revived(k) == ~Live(k) /\ Live(k)'
<1>1. ASSUME IInv, [Next]_vars, NEW k \in Key, Revived(k)
      PROVE  \E c \in Client : SetAsync(c) /\ req[c].key = k
  <2>0. TypeOK /\ TablesAgree
    BY <1>1 DEF IInv
  <2>1. k \in DOMAIN expire' /\ ~(expire'[k] <= now') /\ HasExpired(k)
    BY <1>1 DEF Live, HasExpired
  <2>12. now \in Nat /\ now' \in Nat
    BY <1>1, NextInv DEF IInv, TypeOK
  <2>13. UNCHANGED expire => expire[k] \in Int /\ expire[k] <= now /\ ~(expire[k] <= now')
    BY <2>0, <2>1 DEF TypeOK, HasExpired
  <2>2. UNCHANGED expire => ~(now' >= now)
    BY <2>12, <2>13
  <2>3. ~(UNCHANGED <<now, expire>>) /\ ~Tick
    BY <2>2, <2>12 DEF Tick, tables
  <2>4. PICK c \in Client : Body(c)
    BY <1>1, <2>3 DEF Next, vars, tables, Return, Cancel, Call
  <2>5. now' = now
    BY <2>4, BodyShape
  <2>6. ASSUME Delete(req[c].key) PROVE FALSE
    BY <2>6, <2>1, <2>5 DEF Delete, Without, Restrict, HasExpired
  <2>7. ~(UNCHANGED expire)
    BY <2>3, <2>5
  <2>8. SetAsync(c) \/ TouchAsync(c)
    BY <2>4, <2>6, <2>7 DEF Body, GetAsync, HasKeyAsync, DeleteAsync, IncrAsync, DecrAsync, IncrDecr, tables
  <2>9. expire' = Updated(expire, req[c].key, BackendTtl(req[c].ttl))
    BY <2>7, <2>8 DEF SetAsync, TouchAsync
  <2>10. req[c].key = k
    BY <2>1, <2>5, <2>9 DEF Updated, HasExpired
  <2>11. ~TouchAsync(c)
    BY <2>1, <2>7, <2>10 DEF TouchAsync
  <2> QED BY <2>8, <2>10, <2>11
<1>2. IInv /\ [Next]_vars
      => [\A k \in Key : Revived(k) => \E c \in Client : SetAsync(c) /\ req[c].key = k]_vars
  BY <1>1
<1> QED BY InitInv, NextInv, <1>2, PTL DEF Spec, NoResurrection

-----------------------------------------------------------------------------
(***************************************************************************)
(* The refinement of ExpiringCache.                                        *)
(***************************************************************************)
\* A call that is not finished has no reply, so that a cancelled one leaves none.
RInv ==
  /\ IInv
  /\ reply = [c \in Client |-> reply[c]]
  /\ \A c \in Client : pc[c] # "done" => reply[c] = None

LEMMA InitRInv == Init => RInv
BY InitInv DEF Init, RInv

LEMMA NextRInv == RInv /\ [Next]_vars => RInv'
<1> SUFFICES ASSUME RInv, [Next]_vars
             PROVE  /\ reply' = [d \in Client |-> reply'[d]]
                    /\ \A d \in Client : pc'[d] # "done" => reply'[d] = None
  BY NextInv DEF RInv
<1>0. pc \in [Client -> {"idle", "called", "done"}]
  BY DEF RInv, IInv, TypeOK
<1>1. ASSUME NEW c \in Client, Body(c)
      PROVE  /\ reply' = [d \in Client |-> reply'[d]]
             /\ \A d \in Client : pc'[d] # "done" => reply'[d] = None
  <2>1. PICK r : Finish(c, r)
    BY <1>1 DEF Body, GetAsync, HasKeyAsync, DeleteAsync, SetAsync, TouchAsync, IncrAsync,
                DecrAsync, IncrDecr
  <2> QED BY <2>1, <1>0 DEF Finish, RInv
<1>2. ASSUME NEW c \in Client, Return(c)
      PROVE  /\ reply' = [d \in Client |-> reply'[d]]
             /\ \A d \in Client : pc'[d] # "done" => reply'[d] = None
  BY <1>2, <1>0 DEF Return, RInv
<1>3. ASSUME NEW c \in Client, Cancel(c)
      PROVE  /\ reply' = [d \in Client |-> reply'[d]]
             /\ \A d \in Client : pc'[d] # "done" => reply'[d] = None
  BY <1>3, <1>0 DEF Cancel, RInv
<1>4. ASSUME NEW c \in Client, NEW r \in Request, Call(c, r)
      PROVE  /\ reply' = [d \in Client |-> reply'[d]]
             /\ \A d \in Client : pc'[d] # "done" => reply'[d] = None
  BY <1>4, <1>0 DEF Call, RInv
<1>5. CASE Tick \/ UNCHANGED vars
  BY <1>5 DEF Tick, vars, RInv
<1> QED BY <1>1, <1>2, <1>3, <1>4, <1>5 DEF Next

\* A key is stored, for the callers, exactly when it has not expired.
LEMMA LiveLemma ==
  ASSUME IInv
  PROVE  /\ DOMAIN LiveEntries = {k \in DOMAIN expire : ~(expire[k] <= now)}
         /\ \A k \in DOMAIN LiveEntries :
              k \in DOMAIN cache /\ LiveEntries[k] = [value |-> cache[k], dies |-> {expire[k]}]
         /\ \A k : k \in DOMAIN LiveEntries <=> ~HasExpired(k)
BY DEF IInv, TablesAgree, LiveEntries, Live, HasExpired

\* Evicting an expired entry is invisible.
LEMMA EvictLemma ==
  ASSUME IInv, IInv', NEW k, Delete(k), UNCHANGED now
  PROVE  LiveEntries' = Restrict(LiveEntries, DOMAIN LiveEntries \ {k})
<1>1. /\ DOMAIN LiveEntries' = {j \in DOMAIN expire' : ~(expire'[j] <= now')}
      /\ \A j \in DOMAIN LiveEntries' :
           LiveEntries'[j] = [value |-> cache'[j], dies |-> {expire'[j]}]
  BY DEF IInv, TablesAgree, LiveEntries, Live, HasExpired
<1>2. DOMAIN LiveEntries' = DOMAIN LiveEntries \ {k}
  BY <1>1, LiveLemma DEF Delete, Without, Restrict, IInv, TablesAgree
<1>3. \A j \in DOMAIN LiveEntries' : LiveEntries'[j] = LiveEntries[j]
  BY <1>1, <1>2, LiveLemma DEF Delete, Without, Restrict, IInv, TablesAgree
<1>4. LiveEntries' = [j \in DOMAIN LiveEntries' |-> LiveEntries'[j]]
  BY DEF LiveEntries
<1> QED BY <1>2, <1>3, <1>4 DEF Restrict

\* Writing value v with deadline d under k, seen by the callers.
LEMMA WriteLemma ==
  ASSUME IInv, IInv', UNCHANGED now, NEW k, NEW v, NEW d \in Int,
         DOMAIN cache' = DOMAIN cache \cup {k}, DOMAIN expire' = DOMAIN expire \cup {k},
         \A j \in DOMAIN cache' : cache'[j] = IF j = k THEN v ELSE cache[j],
         \A j \in DOMAIN expire' : expire'[j] = IF j = k THEN d ELSE expire[j]
  PROVE  LET entry == [value |-> v, dies |-> {d}]
         IN  /\ LiveEntries' = Promise!AliveAt(now, Promise!With(k, entry))
             /\ d > now => LiveEntries' = Promise!With(k, entry)
<1> DEFINE entry == [value |-> v, dies |-> {d}]
           with == [j \in DOMAIN LiveEntries \cup {k} |-> IF j = k THEN entry ELSE LiveEntries[j]]
           alive == {j \in DOMAIN with : \A t \in with[j].dies : t > now}
<1>0. Promise!With(k, entry) = with
  BY DEF Promise!With, LiveEntries
<1>1. /\ DOMAIN LiveEntries' = {j \in DOMAIN expire' : ~(expire'[j] <= now')}
      /\ \A j \in DOMAIN LiveEntries' :
           LiveEntries'[j] = [value |-> cache'[j], dies |-> {expire'[j]}]
  BY DEF IInv, TablesAgree, LiveEntries, Live, HasExpired
<1>2. /\ now \in Nat /\ \A j \in DOMAIN expire : expire[j] \in Int
      /\ DOMAIN cache = DOMAIN expire
  BY DEF IInv, TypeOK, TablesAgree
<1>3. DOMAIN LiveEntries' = alive
  <2>1. DOMAIN LiveEntries = {j \in DOMAIN expire : ~(expire[j] <= now)}
        /\ \A j \in DOMAIN LiveEntries : LiveEntries[j].dies = {expire[j]}
    BY LiveLemma
  <2>2. DOMAIN with = DOMAIN LiveEntries \cup {k} /\ with[k].dies = {d}
        /\ \A j \in DOMAIN LiveEntries \ {k} : with[j].dies = {expire[j]}
    BY <2>1
  <2>3. ASSUME NEW j
        PROVE  j \in alive <=> (j = k /\ d > now) \/ (j # k /\ j \in DOMAIN LiveEntries)
    <3> HIDE DEF with
    <3>1. j \in alive <=> j \in DOMAIN with /\ \A t \in with[j].dies : t > now
      OBVIOUS
    <3>2. CASE j = k
      BY <3>1, <3>2, <2>2
    <3>3. CASE j # k
      <4>1. j \in DOMAIN LiveEntries => with[j].dies = {expire[j]} /\ expire[j] > now
        BY <3>3, <2>1, <2>2, <1>2
      <4> QED BY <4>1, <3>1, <3>3, <2>2
    <3> QED BY <3>2, <3>3
  <2>4. ASSUME NEW j
        PROVE  j \in DOMAIN LiveEntries' <=> (j = k /\ d > now) \/ (j # k /\ j \in DOMAIN LiveEntries)
    BY <2>1, <1>1, <1>2
  <2>5. \A j : j \in alive <=> j \in DOMAIN LiveEntries'
    BY <2>3, <2>4
  <2> QED BY <2>5
<1>4. \A j \in DOMAIN LiveEntries' : LiveEntries'[j] = with[j]
  BY <1>1, <1>2, <1>3, LiveLemma
<1>5. LiveEntries' = [j \in DOMAIN LiveEntries' |-> LiveEntries'[j]]
  BY DEF LiveEntries
<1>6. LiveEntries' = [j \in alive |-> with[j]]
  BY <1>3, <1>4, <1>5
<1>7. LiveEntries' = Promise!AliveAt(now, with)
  BY <1>6 DEF Promise!AliveAt, Promise!Restrict
<1>8. ASSUME d > now PROVE LiveEntries' = with
  <2>1. alive = DOMAIN LiveEntries \cup {k}
    BY <1>8, <1>2, LiveLemma
  <2> QED BY <2>1, <1>6
<1> QED BY <1>0, <1>7, <1>8

\* Where the code and the documents agree on a ttl, they agree on the deadline.
LEMMA DiesLemma ==
  ASSUME now \in Nat, NEW ttl \in Ttl \cup {NoTtl}, ttl # 0,
         ttl = NoTtl => ConfiguredTtl \notin {NoTtl, 0}
  PROVE  Promise!Dies(ttl) = {BackendTtl(ttl)}
BY TtlAssumption, DefaultAssumption DEF Promise!Dies, BackendTtl, DefaultTtl

\* The effect and the reply of a body are those promised for its request, unless
\* the code contradicts the documents there.
LEMMA BodyEffect ==
  ASSUME RInv, RInv', NEW c \in Client, Body(c), ~Contradicted(req[c])
  PROVE  Promise!Effect(req[c], reply'[c])
<1> DEFINE k == req[c].key
<1>1. /\ IInv /\ IInv' /\ TypeOK /\ TablesAgree /\ DOMAIN reply = Client
      /\ UNCHANGED now /\ now \in Nat
      /\ DOMAIN cache = DOMAIN expire /\ \A j \in DOMAIN expire : expire[j] \in Int
  BY BodyShape DEF RInv, IInv, TypeOK, TablesAgree
<1>2. \A j : j \in DOMAIN LiveEntries <=> ~HasExpired(j)
  BY <1>1, LiveLemma
<1>3. ~HasExpired(k) => /\ k \in DOMAIN cache
                        /\ LiveEntries[k] = [value |-> cache[k], dies |-> {expire[k]}]
                        /\ expire[k] \in Int /\ expire[k] > now
  BY <1>1, <1>2, LiveLemma DEF HasExpired
<1>4. ASSUME NEW r, Finish(c, r) PROVE reply'[c] = r
  BY <1>1, <1>4 DEF Finish
<1>5. ASSUME UNCHANGED tables PROVE LiveEntries' = LiveEntries
  BY <1>5, <1>1 DEF tables, LiveEntries, Live, HasExpired
<1>6. ASSUME HasExpired(k), Delete(k) PROVE LiveEntries' = LiveEntries
  <2>1. LiveEntries' = Restrict(LiveEntries, DOMAIN LiveEntries)
    BY <1>6, <1>1, <1>2, EvictLemma
  <2> QED BY <2>1 DEF LiveEntries, Restrict
<1>7. CASE GetAsync(c)
  <2>1. ASSUME HasExpired(k) /\ Delete(k) /\ Finish(c, None)
        PROVE  Promise!Get(req[c], reply'[c])
    BY <2>1, <1>2, <1>4, <1>6 DEF Promise!Get, Promise!None, None, LiveEntries
  <2>2. ASSUME ~HasExpired(k) /\ UNCHANGED tables /\ Finish(c, Found(cache[k]))
        PROVE  Promise!Get(req[c], reply'[c])
    BY <2>2, <1>2, <1>3, <1>4, <1>5 DEF Promise!Get, Promise!Found, Found, LiveEntries
  <2>3. Promise!Get(req[c], reply'[c])
    BY <2>1, <2>2, <1>7 DEF GetAsync
  <2>4. req[c].op = "get"
    BY <1>7 DEF GetAsync, Inside
  <2> QED BY <2>3, <2>4 DEF Promise!Effect
<1>8. CASE HasKeyAsync(c)
  <2>1. ASSUME HasExpired(k) /\ Delete(k) /\ Finish(c, Bool(FALSE))
        PROVE  Promise!HasKey(req[c], reply'[c])
    <3>1. reply'[c] = Bool(FALSE) /\ LiveEntries' = LiveEntries
      BY <2>1, <1>4, <1>6
    <3>2. (k \in DOMAIN LiveEntries) = FALSE
      BY <2>1, <1>2
    <3> QED BY <3>1, <3>2 DEF Promise!HasKey, Promise!Bool, Bool, LiveEntries
  <2>2. ASSUME ~HasExpired(k) /\ UNCHANGED tables /\ Finish(c, Bool(TRUE))
        PROVE  Promise!HasKey(req[c], reply'[c])
    BY <2>2, <1>2, <1>4, <1>5 DEF Promise!HasKey, Promise!Bool, Bool, LiveEntries
  <2>3. Promise!HasKey(req[c], reply'[c])
    BY <2>1, <2>2, <1>8 DEF HasKeyAsync
  <2>4. req[c].op = "has_key"
    BY <1>8 DEF HasKeyAsync, Inside
  <2> QED BY <2>3, <2>4 DEF Promise!Effect
<1>9. CASE DeleteAsync(c)
  <2>1. Delete(k) /\ reply'[c] = Bool(Deleted(k)) /\ req[c].op = "delete"
    BY <1>9, <1>4 DEF DeleteAsync, Inside
  <2>2. LiveEntries' = Restrict(LiveEntries, DOMAIN LiveEntries \ {k})
    BY <2>1, <1>1, EvictLemma
  <2>3. k \in DOMAIN LiveEntries => Deleted(k)
    BY <1>1, <1>2, <1>3 DEF Deleted
  <2>4. Promise!Remove(req[c], reply'[c])
    <3>1. reply'[c] = Bool(TRUE) \/ (k \notin DOMAIN LiveEntries /\ reply'[c] = Bool(FALSE))
      <4>1. CASE Deleted(k)
        BY <4>1, <2>1
      <4>2. CASE ~Deleted(k)
        <5>1. Deleted(k) = FALSE
          BY <4>2 DEF Deleted
        <5> QED BY <5>1, <4>2, <2>1, <2>3
      <4> QED BY <4>1, <4>2
    <3> QED BY <3>1, <2>2 DEF Promise!Remove, Promise!Restrict, Restrict, Promise!Bool, Bool, LiveEntries
  <2> QED BY <2>1, <2>4 DEF Promise!Effect
<1>10. CASE SetAsync(c)
  <2>1. BackendTtl(req[c].ttl) \in Int /\ req[c].op = "set" /\ reply'[c] = Bool(TRUE)
    BY <1>10, <1>1, <1>4, RequestLemma, TtlLemma DEF SetAsync, Inside
  <2>2. /\ cache' = Updated(cache, k, req[c].value)
        /\ expire' = Updated(expire, k, BackendTtl(req[c].ttl))
    BY <1>10 DEF SetAsync
  <2>3. LiveEntries' = Promise!AliveAt(now, Promise!With(k,
              [value |-> req[c].value, dies |-> {BackendTtl(req[c].ttl)}]))
    BY <2>1, <2>2, <1>1, WriteLemma DEF Updated
  <2>4. Promise!Dies(req[c].ttl) = {BackendTtl(req[c].ttl)}
    <3>1. req[c].ttl \in Ttl \cup {NoTtl}
      BY <1>10, <1>1, RequestLemma DEF SetAsync
    <3>2. req[c].ttl # 0 /\ (req[c].ttl = NoTtl => ConfiguredTtl \notin {NoTtl, 0})
      BY <2>1 DEF Contradicted
    <3> QED BY <3>1, <3>2, <1>1, DiesLemma
  <2>5. Promise!Put(req[c], reply'[c])
    BY <2>1, <2>3, <2>4 DEF Promise!Put, Promise!Bool, Bool, LiveEntries
  <2> QED BY <2>1, <2>5 DEF Promise!Effect
<1>11. CASE TouchAsync(c)
  <2> DEFINE d == BackendTtl(req[c].ttl)
  <2>1. ASSUME HasExpired(k) /\ UNCHANGED expire /\ Finish(c, Bool(FALSE))
        PROVE  Promise!Touch(req[c], reply'[c])
    <3>1. UNCHANGED tables
      BY <2>1, <1>11 DEF TouchAsync, tables
    <3> QED BY <3>1, <2>1, <1>2, <1>4, <1>5 DEF Promise!Touch, Promise!Bool, Bool, LiveEntries
  <2>2. ASSUME ~HasExpired(k) /\ expire' = Updated(expire, k, d) /\ Finish(c, Bool(TRUE))
        PROVE  Promise!Touch(req[c], reply'[c])
    <3>1. d \in Int /\ UNCHANGED cache
      BY <1>11, <1>1, RequestLemma, TtlLemma DEF TouchAsync
    <3>2. LiveEntries' = Promise!AliveAt(now, Promise!With(k, [value |-> cache[k], dies |-> {d}]))
      BY <2>2, <3>1, <1>1, <1>3, WriteLemma DEF Updated
    <3>3. [LiveEntries[k] EXCEPT !.dies = {d}] = [value |-> cache[k], dies |-> {d}]
      BY <2>2, <1>3
    <3>4. Promise!Dies(req[c].ttl) = {d}
      <4>1. req[c].ttl \in Ttl \cup {NoTtl} /\ req[c].op = "touch"
        BY <1>11, <1>1, RequestLemma DEF TouchAsync, Inside
      <4>2. req[c].ttl # 0 /\ (req[c].ttl = NoTtl => ConfiguredTtl \notin {NoTtl, 0})
        BY <4>1, <2>2 DEF Contradicted, Live
      <4> QED BY <4>1, <4>2, <1>1, DiesLemma
    <3> QED BY <2>2, <3>2, <3>3, <3>4, <1>2, <1>4
            DEF Promise!Touch, Promise!Bool, Bool, LiveEntries
  <2>3. Promise!Touch(req[c], reply'[c])
    BY <2>1, <2>2, <1>11 DEF TouchAsync
  <2>4. req[c].op = "touch"
    BY <1>11 DEF TouchAsync, Inside
  <2> QED BY <2>3, <2>4 DEF Promise!Effect
<1>12. ASSUME NEW op, NEW new, IncrDecr(c, op, new), op \in {"incr", "decr"}
       PROVE  /\ ~HasExpired(k) /\ Promise!Counter(req[c]) = LiveEntries[k]
              /\ cache[k] = Blob => Promise!Count(req[c], reply'[c], new)
              /\ cache[k] # Blob => Promise!Count(req[c], reply'[c], new)
  <2>1. ~HasExpired(k) /\ req[c].op = op
    BY <1>12 DEF IncrDecr, Inside, Contradicted, Live
  <2>2. Promise!Counter(req[c]) = LiveEntries[k]
    BY <2>1, <1>2 DEF Promise!Counter, LiveEntries
  <2>3. ASSUME cache[k] = Blob PROVE Promise!Count(req[c], reply'[c], new)
    <3>1. reply'[c] = NotNumber /\ LiveEntries' = LiveEntries
      BY <2>1, <2>3, <1>12, <1>4, <1>5 DEF IncrDecr
    <3>2. Promise!Counter(req[c]).value = Blob
      BY <2>1, <2>2, <2>3, <1>3
    <3> QED BY <3>1, <3>2 DEF Promise!Count, Promise!NotNumber, NotNumber, LiveEntries
  <2>4. ASSUME cache[k] # Blob PROVE Promise!Count(req[c], reply'[c], new)
    <3>1. reply'[c] = Found(new) /\ cache' = Updated(cache, k, new) /\ UNCHANGED expire
      BY <2>1, <2>4, <1>12, <1>4 DEF IncrDecr
    <3>2. LiveEntries' = Promise!AliveAt(now, Promise!With(k, [value |-> new, dies |-> {expire[k]}]))
      BY <2>1, <3>1, <1>1, <1>3, WriteLemma DEF Updated
    <3>3. [Promise!Counter(req[c]) EXCEPT !.value = new] = [value |-> new, dies |-> {expire[k]}]
      BY <2>1, <2>2, <1>3
    <3>4. Promise!Counter(req[c]).value # Blob
      BY <2>1, <2>2, <2>4, <1>3
    <3> QED BY <3>1, <3>2, <3>3, <3>4 DEF Promise!Count, Promise!Found, Found, LiveEntries
  <2> QED BY <2>1, <2>2, <2>3, <2>4
<1>13. CASE IncrAsync(c)
  <2> DEFINE new == cache[k] + req[c].delta
  <2>1. IncrDecr(c, "incr", new) /\ req[c].op = "incr"
    BY <1>13 DEF IncrAsync, IncrDecr, Inside
  <2> HIDE DEF new
  <2>2. ~HasExpired(k) /\ Promise!Counter(req[c]) = LiveEntries[k] /\ Promise!Count(req[c], reply'[c], new)
    BY <2>1, <1>12
  <2>3. new = Promise!Incremented(req[c])
    BY <2>2, <1>3 DEF new, Promise!Incremented
  <2> QED BY <2>1, <2>2, <2>3 DEF Promise!Effect
<1>14. CASE DecrAsync(c)
  <2> DEFINE new == Clamped(cache[k] - req[c].delta)
  <2>1. IncrDecr(c, "decr", new) /\ req[c].op = "decr" /\ req[c].delta \in Int
    BY <1>14, <1>1, RequestLemma DEF DecrAsync, IncrDecr, Inside
  <2> HIDE DEF new
  <2>2. ~HasExpired(k) /\ Promise!Counter(req[c]) = LiveEntries[k] /\ Promise!Count(req[c], reply'[c], new)
    BY <2>1, <1>12
  <2>3. CASE cache[k] = Blob
    <3>1. Promise!Counter(req[c]).value = Blob
      BY <2>2, <2>3, <1>3
    <3>2. Promise!Count(req[c], reply'[c], Promise!Decremented(req[c]))
      BY <2>2, <3>1 DEF Promise!Count
    <3> QED BY <2>1, <3>2 DEF Promise!Effect
  <2>4. CASE cache[k] # Blob
    <3>1. cache[k] \in Int
      BY <2>2, <2>4, <1>1, <1>3 DEF TypeOK, Value
    <3>2. LiveEntries[k].value = cache[k]
      BY <2>2, <1>3
    <3>3. new = Promise!Decremented(req[c])
      BY <2>1, <2>2, <3>1, <3>2 DEF new, Clamped, Promise!Decremented
    <3> QED BY <2>1, <2>2, <3>3 DEF Promise!Effect
  <2> QED BY <2>3, <2>4
<1> QED BY <1>7, <1>8, <1>9, <1>10, <1>11, <1>13, <1>14 DEF Body

\* Whatever a body does, it does to the key of its own call.
LEMMA OwnKey ==
  ASSUME RInv, RInv', NEW c \in Client, Body(c)
  PROVE  Restrict(LiveEntries', DOMAIN LiveEntries' \ {req[c].key})
           = Restrict(LiveEntries, DOMAIN LiveEntries \ {req[c].key})
<1> DEFINE k == req[c].key
<1>1. /\ IInv /\ IInv' /\ TablesAgree /\ UNCHANGED now
  BY BodyShape DEF RInv, IInv
<1>2. \/ UNCHANGED tables \/ Delete(k)
      \/ \E v : cache' = Updated(cache, k, v) /\ UNCHANGED expire
      \/ \E d : expire' = Updated(expire, k, d) /\ UNCHANGED cache
      \/ \E v, d : cache' = Updated(cache, k, v) /\ expire' = Updated(expire, k, d)
  BY DEF Body, GetAsync, HasKeyAsync, DeleteAsync, SetAsync, TouchAsync, IncrAsync,
         DecrAsync, IncrDecr, tables
<1>3. ASSUME NEW j, j # k
      PROVE  /\ j \in DOMAIN cache' <=> j \in DOMAIN cache
             /\ j \in DOMAIN expire' <=> j \in DOMAIN expire
             /\ j \in DOMAIN cache => cache'[j] = cache[j]
             /\ j \in DOMAIN expire => expire'[j] = expire[j]
  <2>1. CASE UNCHANGED tables
    BY <2>1 DEF tables
  <2>2. CASE Delete(k)
    BY <2>2, <1>3 DEF Delete, Without, Restrict
  <2>3. CASE \E v : cache' = Updated(cache, k, v) /\ UNCHANGED expire
    BY <2>3, <1>3 DEF Updated
  <2>4. CASE \E d : expire' = Updated(expire, k, d) /\ UNCHANGED cache
    BY <2>4, <1>3 DEF Updated
  <2>5. CASE \E v, d : cache' = Updated(cache, k, v) /\ expire' = Updated(expire, k, d)
    BY <2>5, <1>3 DEF Updated
  <2> QED BY <1>2, <2>1, <2>2, <2>3, <2>4, <2>5
<1>4. /\ DOMAIN LiveEntries' = {j \in DOMAIN expire' : ~(expire'[j] <= now')}
      /\ \A j \in DOMAIN LiveEntries' :
           LiveEntries'[j] = [value |-> cache'[j], dies |-> {expire'[j]}]
  BY <1>1 DEF IInv, TablesAgree, LiveEntries, Live, HasExpired
<1>5. DOMAIN LiveEntries' \ {k} = DOMAIN LiveEntries \ {k}
  BY <1>1, <1>3, <1>4, LiveLemma
<1>6. \A j \in DOMAIN LiveEntries \ {k} : LiveEntries'[j] = LiveEntries[j]
  BY <1>1, <1>3, <1>4, <1>5, LiveLemma DEF TablesAgree
<1> QED BY <1>5, <1>6 DEF Restrict

LEMMA InitRefines == Init => Promise!Init
<1> SUFFICES ASSUME Init PROVE Promise!Init
  OBVIOUS
<1>1. {j \in DOMAIN cache : Live(j)} = {}
  BY DEF Init
<1>2. LiveEntries = [k \in {} |-> 0]
  BY <1>1 DEF LiveEntries
<1> QED BY <1>2 DEF Init, Promise!Init, Promise!NoCall, NoCall, Promise!None, None

\* Every step of the backend is a step of the promised cache, or invisible, or the
\* body of a call in which the code and the documents contradict each other.
LEMMA StepRefines ==
  RInv /\ RInv' /\ [Next]_vars
    => [Promise!Next \/ \E c \in Client : Unpromised(c)]_(Promise!vars)
<1> SUFFICES ASSUME RInv, RInv', [Next]_vars
             PROVE  [Promise!Next \/ \E c \in Client : Unpromised(c)]_(Promise!vars)
  OBVIOUS
<1>0. /\ IInv /\ IInv' /\ TypeOK /\ DOMAIN reply = Client
      /\ now \in Nat /\ \A j \in DOMAIN expire : expire[j] \in Int
  BY DEF RInv, IInv, TypeOK
<1>1. ASSUME UNCHANGED <<tables, now>> PROVE LiveEntries' = LiveEntries
  BY <1>1 DEF tables, LiveEntries, Live, HasExpired
<1>2. CASE Tick
  <2>1. now' = now + 1 /\ UNCHANGED <<cache, expire, pc, req, reply>>
    BY <1>2 DEF Tick, tables
  <2> DEFINE alive == {k \in DOMAIN LiveEntries : \A t \in LiveEntries[k].dies : t > now'}
  <2>2. /\ DOMAIN LiveEntries' = {j \in DOMAIN expire : ~(expire[j] <= now')}
        /\ \A j \in DOMAIN LiveEntries' :
             LiveEntries'[j] = [value |-> cache[j], dies |-> {expire[j]}]
    BY <2>1, <1>0 DEF IInv, TablesAgree, LiveEntries, Live, HasExpired
  <2>3. DOMAIN LiveEntries' = alive
    BY <2>1, <2>2, <1>0, LiveLemma
  <2>4. \A j \in DOMAIN LiveEntries' : LiveEntries'[j] = LiveEntries[j]
    BY <2>2, <2>3, <1>0, LiveLemma
  <2>5. LiveEntries' = [j \in DOMAIN LiveEntries' |-> LiveEntries'[j]]
    BY DEF LiveEntries
  <2>6. LiveEntries' = [j \in alive |-> LiveEntries[j]]
    BY <2>3, <2>4, <2>5
  <2>7. Promise!Tick
    BY <2>1, <2>6 DEF Promise!Tick, Promise!AliveAt, Promise!Restrict, LiveEntries
  <2> QED BY <2>7 DEF Promise!Next
<1>3. ASSUME NEW c \in Client, Body(c)
      PROVE  Promise!Next \/ Unpromised(c)
  <2>1. /\ pc[c] = "called" /\ pc' = [pc EXCEPT ![c] = "done"] /\ UNCHANGED <<now, req>>
    BY <1>3, BodyShape
  <2>2. ~Contradicted(req[c]) => Promise!Effect(req[c], reply'[c])
    BY <1>3, BodyEffect
  <2>3. PICK r : Finish(c, r)
    BY <1>3 DEF Body, GetAsync, HasKeyAsync, DeleteAsync, SetAsync, TouchAsync, IncrAsync,
                DecrAsync, IncrDecr
  <2>4. reply' = [reply EXCEPT ![c] = reply'[c]]
    BY <2>3, <1>0 DEF Finish
  <2>5. ~Contradicted(req[c]) => Promise!Take(c)
    BY <2>1, <2>2, <2>4 DEF Promise!Take
  <2>6. Contradicted(req[c]) => Unpromised(c)
    BY <2>1, <2>4, <1>3, OwnKey DEF Unpromised
  <2> QED BY <2>5, <2>6 DEF Promise!Next
<1>4. ASSUME NEW c \in Client, Return(c)
      PROVE  Promise!Next
  <2>1. LiveEntries' = LiveEntries
    BY <1>1, <1>4 DEF Return
  <2>2. Promise!End(c)
    BY <2>1, <1>4 DEF Return, Promise!End, Promise!NoCall, NoCall, Promise!None, None, LiveEntries
  <2> QED BY <2>2 DEF Promise!Next
<1>5. ASSUME NEW c \in Client, Cancel(c)
      PROVE  Promise!Next
  <2>1. LiveEntries' = LiveEntries
    BY <1>1, <1>5 DEF Cancel
  <2>2. reply' = [reply EXCEPT ![c] = None]
    <3>1. reply[c] = None /\ reply' = reply
      BY <1>5 DEF Cancel, RInv
    <3> QED BY <3>1 DEF RInv
  <2>3. Promise!End(c)
    BY <2>1, <2>2, <1>5 DEF Cancel, Promise!End, Promise!NoCall, NoCall, Promise!None, None, LiveEntries
  <2> QED BY <2>3 DEF Promise!Next
<1>6. ASSUME NEW c \in Client, NEW r \in Request, Call(c, r)
      PROVE  Promise!Next
  <2>1. LiveEntries' = LiveEntries
    BY <1>1, <1>6 DEF Call
  <2>2. Promise!Call(c)
    BY <2>1, <1>6 DEF Call, Promise!Call, LiveEntries
  <2> QED BY <2>2 DEF Promise!Next
<1>7. CASE UNCHANGED vars
  <2>1. LiveEntries' = LiveEntries
    BY <1>1, <1>7 DEF vars
  <2>2. UNCHANGED Promise!vars
    BY <2>1, <1>7 DEF vars, Promise!vars, LiveEntries
  <2> QED BY <2>2
<1> QED BY <1>2, <1>3, <1>4, <1>5, <1>6, <1>7 DEF Next

\* The backend is the cache its documents promise, for any clients, keys, ttls and
\* deltas: to its callers every run looks like one of a map whose entries vanish at
\* their deadline, in which each call takes effect at one instant or, when it is
\* cancelled, not at all.  Excepted are the reply and the own key of the calls that
\* the code answers otherwise than the documents (Contradicted).
THEOREM Refinement == Spec => KeepsPromise
BY InitRInv, NextRInv, InitRefines, StepRefines, PTL DEF Spec, KeepsPromise
=============================================================================
