--------------------------- MODULE LocalMemCache ---------------------------
(***************************************************************************)
(* The in-memory cache backend of ellar (cache/backends/local_cache.py)    *)
(* as the tasks of ONE event loop use it: two dictionaries, a lock, and    *)
(* lazy eviction.  A client calls an operation, waits for the lock, runs   *)
(* the operation's body (which has no suspension point of its own, so it   *)
(* is one step) and returns; a client may be cancelled while it waits.     *)
(*                                                                         *)
(* Access from several threads, each with an event loop of its own, is the *)
(* subject of SyncCacheAccess.                                             *)
(***************************************************************************)
EXTENDS Integers, SequencesExt

CONSTANTS Client,      \* tasks that call the backend
          Nobody,      \* the owner of a lock nobody holds
          Key,         \* keys, as make_key returns them
          Number,      \* numbers that set_async is called with
          Blob,        \* a stored value that is not a number
          Delta,       \* deltas incr_async and decr_async are called with
          Ttl,         \* explicit ttl arguments
          NoTtl,       \* the argument ttl=None
          ConfiguredTtl, \* the ttl argument of the backend's constructor
          BuiltinTtl,  \* the 300 seconds of the constructor
          MaxTime,     \* bound: the clock stops here
          MaxCalls     \* bound: calls a client makes

ASSUME NobodyAssumption  == Nobody \notin Client
ASSUME ValueAssumption   == Number \subseteq Int /\ Blob \notin Int
ASSUME DeltaAssumption   == Delta \subseteq Int
ASSUME TtlAssumption     == Ttl \subseteq Nat /\ NoTtl \notin Ttl
ASSUME DefaultAssumption == ConfiguredTtl \in Nat \cup {NoTtl} /\ NoTtl \notin Nat
                            /\ BuiltinTtl \in Nat \ {0}
ASSUME BoundAssumption   == MaxTime \in Nat /\ MaxCalls \in Nat

VARIABLES now,      \* time.time()
          cache,    \* self._cache
          expire,   \* self._expire_track
          owner,    \* task that owns self._lock
          waiters,  \* tasks queued on self._lock, in order of arrival
          pc,       \* "idle", "called" or "done", per client
          req,      \* the call a client is making
          reply,    \* what that call returned or raised
          calls     \* calls a client has made

tables == <<cache, expire>>
lock   == <<owner, waiters>>
vars   == <<now, tables, lock, pc, req, reply, calls>>

Value == Int \cup {Blob}

Request ==
       [op : {"get", "delete", "has_key"}, key : Key]
  \cup [op : {"set"}, key : Key, value : Number \cup {Blob}, ttl : Ttl \cup {NoTtl}]
  \cup [op : {"touch"}, key : Key, ttl : Ttl \cup {NoTtl}]
  \cup [op : {"incr", "decr"}, key : Key, delta : Delta]

NoCall    == [op |-> "none"]
None      == [kind |-> "none"]
Bool(b)   == [kind |-> "bool", is |-> b]
Found(v)  == [kind |-> "found", value |-> v]
NotFound  == [kind |-> "ValueError"]
NotNumber == [kind |-> "TypeError"]

Init ==
  /\ now = 0
  /\ cache = [k \in {} |-> 0]
  /\ expire = [k \in {} |-> 0]
  /\ owner = Nobody
  /\ waiters = <<>>
  /\ pc = [c \in Client |-> "idle"]
  /\ req = [c \in Client |-> NoCall]
  /\ reply = [c \in Client |-> None]
  /\ calls = [c \in Client |-> 0]

-----------------------------------------------------------------------------
(***************************************************************************)
(* The anyio lock: a free lock is taken at once, anyone else queues; a     *)
(* release hands the lock to the head of the queue.                        *)
(***************************************************************************)
Acquire(c) ==
  IF owner = Nobody
  THEN owner' = c /\ UNCHANGED waiters
  ELSE waiters' = Append(waiters, c) /\ UNCHANGED owner

\* Mutant: the lock becomes free, nobody is woken.
BugRelease == owner' = Nobody /\ UNCHANGED waiters

Release ==
  IF waiters = <<>>
  THEN owner' = Nobody /\ UNCHANGED waiters
  ELSE owner' = Head(waiters) /\ waiters' = Tail(waiters)

-----------------------------------------------------------------------------
(***************************************************************************)
(* The private helpers of the backend.                                     *)
(***************************************************************************)
Without(f, k)    == Restrict(f, DOMAIN f \ {k})
Updated(f, k, v) == [j \in DOMAIN f \cup {k} |-> IF j = k THEN v ELSE f[j]]

\* Mutant: the absence of a ttl is stored as such.
BugBackendTtl(ttl) ==
  IF ttl = NoTtl THEN NoTtl ELSE now + (IF ttl = 0 THEN -1 ELSE ttl)

\* self._default_ttl: int(ttl) if ttl else 300, and zero is false.
DefaultTtl == IF ConfiguredTtl \in {NoTtl, 0} THEN BuiltinTtl ELSE ConfiguredTtl

\* ttl None is the default, ttl 0 lies one second in the past.
BackendTtl(ttl) ==
  now + (IF ttl = NoTtl THEN DefaultTtl ELSE IF ttl = 0 THEN -1 ELSE ttl)

\* Mutant: an entry outlives its deadline by an instant.
BugStrictExpiry(k) == k \in DOMAIN expire => expire[k] < now

\* A key that is not tracked counts as expired.
HasExpired(k) == k \in DOMAIN expire => expire[k] <= now

\* Mutant: the expiry stays tracked.
BugDeleteValueOnly(k) == cache' = Without(cache, k) /\ UNCHANGED expire

\* pop from _cache, then pop from _expire_track: the first KeyError ends it.
Delete(k) ==
  /\ cache' = Without(cache, k)
  /\ expire' = IF k \in DOMAIN cache THEN Without(expire, k) ELSE expire

Deleted(k) == k \in DOMAIN cache /\ k \in DOMAIN expire

\* The body of client c's call ends with result r and leaves the lock.
Finish(c, r) ==
  /\ Release
  /\ pc' = [pc EXCEPT ![c] = "done"]
  /\ reply' = [reply EXCEPT ![c] = r]
  /\ UNCHANGED <<now, req, calls>>

\* Client c is inside the lock, about to run the body of operation op.
Inside(c, op) == pc[c] = "called" /\ owner = c /\ req[c].op = op
-----------------------------------------------------------------------------
(***************************************************************************)
(* The operations: one action per body, run by the owner of the lock.      *)
(***************************************************************************)
GetAsync(c) ==
  LET k == req[c].key
  IN  /\ Inside(c, "get")
      /\ \/ HasExpired(k) /\ Delete(k) /\ Finish(c, None)
         \/ ~HasExpired(k) /\ UNCHANGED tables /\ Finish(c, Found(cache[k]))

HasKeyAsync(c) ==
  LET k == req[c].key
  IN  /\ Inside(c, "has_key")
      /\ \/ HasExpired(k) /\ Delete(k) /\ Finish(c, Bool(FALSE))
         \/ ~HasExpired(k) /\ UNCHANGED tables /\ Finish(c, Bool(TRUE))

\* delete_async does not look at the expiry.
DeleteAsync(c) ==
  LET k == req[c].key
  IN  /\ Inside(c, "delete")
      /\ Delete(k)
      /\ Finish(c, Bool(Deleted(k)))

SetAsync(c) ==
  LET k == req[c].key
  IN  /\ Inside(c, "set")
      /\ cache' = Updated(cache, k, req[c].value)
      /\ expire' = Updated(expire, k, BackendTtl(req[c].ttl))
      /\ Finish(c, Bool(TRUE))

\* Mutant: touch does not look at the expiry.
BugTouchAsync(c) ==
  LET k == req[c].key
  IN  /\ Inside(c, "touch")
      /\ UNCHANGED cache
      /\ expire' = Updated(expire, k, BackendTtl(req[c].ttl))
      /\ Finish(c, Bool(TRUE))

\* Unlike the other readers, touch_async leaves an expired entry in place.
TouchAsync(c) ==
  LET k == req[c].key
  IN  /\ Inside(c, "touch")
      /\ UNCHANGED cache
      /\ \/ HasExpired(k) /\ UNCHANGED expire /\ Finish(c, Bool(FALSE))
         \/ /\ ~HasExpired(k)
            /\ expire' = Updated(expire, k, BackendTtl(req[c].ttl))
            /\ Finish(c, Bool(TRUE))

\* A decrement that falls below zero is followed by an increment back to zero.
Clamped(n) == IF n < 0 THEN n + (-n) ELSE n

\* incr_async and decr_async differ in the new value they store.
IncrDecr(c, op, new) ==
  LET k == req[c].key
  IN  /\ Inside(c, op)
      /\ \/ HasExpired(k) /\ Delete(k) /\ Finish(c, NotFound)
         \/ ~HasExpired(k) /\ cache[k] = Blob /\ UNCHANGED tables /\ Finish(c, NotNumber)
         \/ /\ ~HasExpired(k) /\ cache[k] # Blob
            /\ cache' = Updated(cache, k, new)
            /\ UNCHANGED expire
            /\ Finish(c, Found(new))

IncrAsync(c) == IncrDecr(c, "incr", cache[req[c].key] + req[c].delta)
DecrAsync(c) == IncrDecr(c, "decr", Clamped(cache[req[c].key] - req[c].delta))

Body(c) ==
  \/ GetAsync(c) \/ HasKeyAsync(c) \/ DeleteAsync(c) \/ SetAsync(c)
  \/ TouchAsync(c) \/ IncrAsync(c) \/ DecrAsync(c)

-----------------------------------------------------------------------------
(***************************************************************************)
(* The callers and the clock.                                              *)
(***************************************************************************)
Call(c, r) ==
  /\ pc[c] = "idle" /\ calls[c] < MaxCalls
  /\ pc' = [pc EXCEPT ![c] = "called"]
  /\ req' = [req EXCEPT ![c] = r]
  /\ calls' = [calls EXCEPT ![c] = @ + 1]
  /\ Acquire(c)
  /\ UNCHANGED <<now, tables, reply>>

Return(c) ==
  /\ pc[c] = "done"
  /\ pc' = [pc EXCEPT ![c] = "idle"]
  /\ req' = [req EXCEPT ![c] = NoCall]
  /\ reply' = [reply EXCEPT ![c] = None]
  /\ UNCHANGED <<now, tables, lock, calls>>

\* Mutant: a cancelled task stays in the lock's queue.
BugCancel(c) ==
  /\ pc[c] = "called"
  /\ UNCHANGED lock
  /\ pc' = [pc EXCEPT ![c] = "idle"]
  /\ req' = [req EXCEPT ![c] = NoCall]
  /\ UNCHANGED <<now, tables, reply, calls>>

\* The task is cancelled in the queue, or after it was handed the lock.
Cancel(c) ==
  /\ pc[c] = "called"
  /\ \/ owner = c /\ Release
     \/ /\ owner # c /\ UNCHANGED owner
        /\ \E i \in 1..Len(waiters) : waiters[i] = c /\ waiters' = RemoveAt(waiters, i)
  /\ pc' = [pc EXCEPT ![c] = "idle"]
  /\ req' = [req EXCEPT ![c] = NoCall]
  /\ UNCHANGED <<now, tables, reply, calls>>

Tick ==
  /\ now < MaxTime
  /\ now' = now + 1
  /\ UNCHANGED <<tables, lock, pc, req, reply, calls>>

Next ==
  \/ Tick
  \/ \E c \in Client : Body(c) \/ Return(c) \/ Cancel(c)
  \/ \E c \in Client, r \in Request : Call(c, r)

\* The event loop resumes every task that is ready to run.
Fairness == \A c \in Client : WF_vars(Body(c)) /\ WF_vars(Return(c))

Spec == Init /\ [][Next]_vars /\ Fairness

-----------------------------------------------------------------------------
(***************************************************************************)
(* Properties.                                                             *)
(***************************************************************************)
Live(k) == ~HasExpired(k)

\* Every variable has its type.
TypeOK ==
  /\ now \in Nat
  /\ DOMAIN cache \subseteq Key /\ \A k \in DOMAIN cache : cache[k] \in Value
  /\ DOMAIN expire \subseteq Key /\ \A k \in DOMAIN expire : expire[k] \in Int
  /\ owner \in Client \cup {Nobody}
  /\ waiters \in Seq(Client)
  /\ pc \in [Client -> {"idle", "called", "done"}]
  /\ \A c \in Client : req[c] \in IF pc[c] = "idle" THEN {NoCall} ELSE Request
  /\ DOMAIN req = Client
  /\ calls \in [Client -> Nat]

\* The two dictionaries always hold the same keys.  get_async, incr_async and
\* decr_async index _cache after a look at _expire_track alone, so a key in
\* one table only would surface as a KeyError, or as an entry nothing evicts.
TablesAgree == DOMAIN cache = DOMAIN expire

\* The lock's bookkeeping and the callers' agree: exactly the clients with a
\* call in progress own the lock or queue for it, each in one place, and
\* nobody queues for a free lock.  A cancelled call leaves no trace behind.
LockOK ==
  /\ \A c \in Client : pc[c] = "called" <=> (owner = c \/ \E i \in 1..Len(waiters) : waiters[i] = c)
  /\ \A i \in 1..Len(waiters) : waiters[i] # owner
  /\ \A i, j \in 1..Len(waiters) : i # j => waiters[i] # waiters[j]
  /\ owner = Nobody => waiters = <<>>

\* Only set_async brings a key to life: neither touch_async racing an expiry,
\* nor a counter operation, nor a reader makes an expired entry live again.
NoResurrection ==
  [][\A k \in Key : ~Live(k) /\ Live(k)' => \E c \in Client : SetAsync(c) /\ req[c].key = k]_vars

\* Every call is served or cancelled: the lock is handed on after each body,
\* also when a body raises and when a task in the queue is cancelled.
EveryCallEnds == \A c \in Client : pc[c] = "called" ~> pc[c] # "called"

\* What the callers can see of the tables.
LiveEntries ==
  [k \in {j \in DOMAIN cache : Live(j)} |-> [value |-> cache[k], dies |-> {expire[k]}]]

Promise == INSTANCE ExpiringCache WITH store <- LiveEntries, phase <- pc

\* The calls that the code answers otherwise than the documents: an explicit ttl
\* of 0 is dead at once, a configured one of 0 or None is BuiltinTtl, and counting
\* what is not there raises ValueError.
Contradicted(r) ==
  \/ /\ r.op = "set" \/ (r.op = "touch" /\ Live(r.key))
     /\ r.ttl = 0 \/ (r.ttl = NoTtl /\ ConfiguredTtl \in {NoTtl, 0})
  \/ r.op \in {"incr", "decr"} /\ ~Live(r.key)

\* Of such a call nothing is promised about its reply and its own key.
Unpromised(c) ==
  LET others(s) == Restrict(s, DOMAIN s \ {req[c].key})
  IN  /\ pc[c] = "called" /\ Contradicted(req[c])
      /\ pc' = [pc EXCEPT ![c] = "done"]
      /\ reply' = [reply EXCEPT ![c] = reply'[c]]
      /\ others(LiveEntries') = others(LiveEntries)
      /\ UNCHANGED <<now, req>>

\* Seen through its live entries, the backend is the cache that its documents
\* promise, but for the calls in which the two contradict each other: lazy
\* eviction, the lock and the queue are invisible to its callers.
KeepsPromise ==
  Promise!Init /\ [][Promise!Next \/ \E c \in Client : Unpromised(c)]_(Promise!vars)
=============================================================================
