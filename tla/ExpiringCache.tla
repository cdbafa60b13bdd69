--------------------------- MODULE ExpiringCache ---------------------------
(***************************************************************************)
(* What the documents promise the callers of a cache backend               *)
(* (cache/interface.py, docs/techniques/caching.md): a map whose entries   *)
(* vanish at their deadline, and calls that take effect at one instant     *)
(* between the moment they are made and the moment they end, or not at     *)
(* all.  There is no lock, and no entry that has expired is still there.   *)
(***************************************************************************)
EXTENDS Integers, Functions

CONSTANTS Client, Request, Blob, NoTtl, ConfiguredTtl

VARIABLES now,    \* the clock
          store,  \* live entries: key -> [value, dies]
          phase,  \* "idle", "called" or "done", per client
          req,    \* the call of a client
          reply   \* what it returned or raised

vars == <<now, store, phase, req, reply>>

NoCall    == [op |-> "none"]
None      == [kind |-> "none"]
Bool(b)   == [kind |-> "bool", is |-> b]
Found(v)  == [kind |-> "found", value |-> v]
NotNumber == [kind |-> "TypeError"]

Init ==
  /\ now = 0
  /\ store = [k \in {} |-> 0]
  /\ phase = [c \in Client |-> "idle"]
  /\ req = [c \in Client |-> NoCall]
  /\ reply = [c \in Client |-> None]

\* The entries of s that are still alive at time t: one dies at its deadline, if
\* it has one.
AliveAt(t, s) == Restrict(s, {k \in DOMAIN s : \A d \in s[k].dies : d > t})

With(k, entry) == [j \in DOMAIN store \cup {k} |-> IF j = k THEN entry ELSE store[j]]

\* A ttl of 0 means never; the default is the configured one, of which None means
\* never and 0 at once.
Dies(ttl) ==
  IF ttl = NoTtl
  THEN IF ConfiguredTtl = NoTtl THEN {} ELSE {now + ConfiguredTtl}
  ELSE IF ttl = 0 THEN {} ELSE {now + ttl}

(***************************************************************************)
(* The effect and the reply of a call r on the live entries.               *)
(***************************************************************************)
Get(r, out) ==
  /\ out = IF r.key \in DOMAIN store THEN Found(store[r.key].value) ELSE None
  /\ UNCHANGED store

HasKey(r, out) == out = Bool(r.key \in DOMAIN store) /\ UNCHANGED store

\* A live entry is reported as deleted; about an entry that is not there the
\* caller may be told either, because it may have expired a moment ago.
Remove(r, out) ==
  /\ out \in {Bool(TRUE)} \cup IF r.key \in DOMAIN store THEN {} ELSE {Bool(FALSE)}
  /\ store' = Restrict(store, DOMAIN store \ {r.key})

Put(r, out) ==
  /\ out = Bool(TRUE)
  /\ store' = AliveAt(now, With(r.key, [value |-> r.value, dies |-> Dies(r.ttl)]))

Touch(r, out) ==
  IF r.key \in DOMAIN store
  THEN /\ out = Bool(TRUE)
       /\ store' = AliveAt(now, With(r.key, [store[r.key] EXCEPT !.dies = Dies(r.ttl)]))
  ELSE out = Bool(FALSE) /\ UNCHANGED store

\* A key that does not exist is set to 0 first.
Counter(r) == IF r.key \in DOMAIN store THEN store[r.key] ELSE [value |-> 0, dies |-> Dies(NoTtl)]

Count(r, out, new) ==
  IF Counter(r).value = Blob THEN out = NotNumber /\ UNCHANGED store
  ELSE out = Found(new) /\ store' = AliveAt(now, With(r.key, [Counter(r) EXCEPT !.value = new]))

\* As those of memcached, counters stop at zero on their way down.
Incremented(r) == Counter(r).value + r.delta
Decremented(r) == IF Counter(r).value - r.delta < 0 THEN 0 ELSE Counter(r).value - r.delta

Effect(r, out) ==
  \/ r.op = "get"     /\ Get(r, out)
  \/ r.op = "has_key" /\ HasKey(r, out)
  \/ r.op = "delete"  /\ Remove(r, out)
  \/ r.op = "set"     /\ Put(r, out)
  \/ r.op = "touch"   /\ Touch(r, out)
  \/ r.op = "incr"    /\ Count(r, out, Incremented(r))
  \/ r.op = "decr"    /\ Count(r, out, Decremented(r))

-----------------------------------------------------------------------------
Call(c) ==
  /\ phase[c] = "idle"
  /\ phase' = [phase EXCEPT ![c] = "called"]
  /\ \E r \in Request : req' = [req EXCEPT ![c] = r]
  /\ UNCHANGED <<now, store, reply>>

Take(c) ==
  /\ phase[c] = "called"
  /\ phase' = [phase EXCEPT ![c] = "done"]
  /\ Effect(req[c], reply'[c])
  /\ reply' = [reply EXCEPT ![c] = reply'[c]]
  /\ UNCHANGED <<now, req>>

\* The call ends: it returned, or it was cancelled before it took effect.
End(c) ==
  /\ phase[c] # "idle"
  /\ phase' = [phase EXCEPT ![c] = "idle"]
  /\ req' = [req EXCEPT ![c] = NoCall]
  /\ reply' = [reply EXCEPT ![c] = None]
  /\ UNCHANGED <<now, store>>

Tick ==
  /\ now' = now + 1
  /\ store' = AliveAt(now', store)
  /\ UNCHANGED <<phase, req, reply>>

Next == Tick \/ \E c \in Client : Call(c) \/ Take(c) \/ End(c)

Spec == Init /\ [][Next]_vars
=============================================================================
