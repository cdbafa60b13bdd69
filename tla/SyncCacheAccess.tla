-------------------------- MODULE SyncCacheAccess --------------------------
(***************************************************************************)
(* The synchronous methods of LocalMemCacheBackend, called from threads: a *)
(* sync endpoint runs in a thread of the pool, and each thread runs the    *)
(* coroutine of its call to completion in an event loop of its own.  All   *)
(* of them use the one anyio.Lock of the backend, which is made for the    *)
(* tasks of one loop: acquire tests the owner and then sets it, release    *)
(* tests the waiters and then clears the owner, and the event that wakes a *)
(* waiter only puts a callback into the loop of that waiter, which may be  *)
(* blocked in its selector.  Every thread increments the same counter once.*)
(*                                                                         *)
(* LocalMemCache is the same backend with its callers on one loop.         *)
(***************************************************************************)
EXTENDS Integers, SequencesExt

CONSTANTS Thread, NoThread

ASSUME ThreadAssumption == NoThread \notin Thread

VARIABLES owningThread,   \* Lock._owner_task
          waitingThreads, \* Lock._waiters
          woken,          \* threads whose event is set
          value,          \* the counter in _cache
          place,          \* where the call of each thread is
          local,          \* the value a thread has read
          writes,         \* history: increments written
          overlap         \* history: two threads were past the lock at once

threadLock == <<owningThread, waitingThreads, woken>>
threadVars == <<threadLock, value, place, local, writes, overlap>>

\* The critical section of incr_async, up to its release.
Section == {"read", "write", "release"}

ThreadsInit ==
  /\ owningThread = NoThread /\ waitingThreads = <<>> /\ woken = {}
  /\ value = 0
  /\ place = [t \in Thread |-> "start"]
  /\ local = [t \in Thread |-> 0]
  /\ writes = 0
  /\ overlap = FALSE

\* Thread t goes on at p.
Goto(t, p) ==
  /\ place' = [place EXCEPT ![t] = p]
  /\ overlap' = (overlap \/ (p \in Section /\ \E u \in Thread \ {t} : place[u] \in Section))

-----------------------------------------------------------------------------
\* run_until_complete: the coroutine comes to acquire and tests the owner.
TestOwner(t) ==
  /\ place[t] = "start"
  /\ Goto(t, IF owningThread = NoThread THEN "take" ELSE "queue")
  /\ UNCHANGED <<threadLock, value, local, writes>>

TakeLock(t) ==
  /\ place[t] = "take"
  /\ owningThread' = t
  /\ Goto(t, "read")
  /\ UNCHANGED <<waitingThreads, woken, value, local, writes>>

Enqueue(t) ==
  /\ place[t] = "queue"
  /\ waitingThreads' = Append(waitingThreads, t)
  /\ Goto(t, "waiting")
  /\ UNCHANGED <<owningThread, woken, value, local, writes>>

\* Mutant: a waiter that is woken takes the lock for its own.
BugWake(t) ==
  /\ place[t] = "waiting" /\ t \in woken
  /\ Goto(t, "read")
  /\ UNCHANGED <<threadLock, value, local, writes>>

\* The event is set before the loop polls: the coroutine goes on, if the lock
\* is still the one handed to it.
Wake(t) ==
  /\ place[t] = "waiting" /\ t \in woken
  /\ Goto(t, IF owningThread = t THEN "read" ELSE "failed")
  /\ UNCHANGED <<threadLock, value, local, writes>>

\* Nothing is ready: the loop blocks in its selector, without a timeout.
Block(t) ==
  /\ place[t] = "waiting" /\ t \notin woken
  /\ Goto(t, "blocked")
  /\ UNCHANGED <<threadLock, value, local, writes>>

ReadCounter(t) ==
  /\ place[t] = "read"
  /\ local' = [local EXCEPT ![t] = value]
  /\ Goto(t, "write")
  /\ UNCHANGED <<threadLock, value, writes>>

WriteCounter(t) ==
  /\ place[t] = "write"
  /\ value' = local[t] + 1
  /\ writes' = writes + 1
  /\ Goto(t, "release")
  /\ UNCHANGED <<threadLock, local>>

\* RuntimeError: the current task is not holding this lock.
ReleaseFails(t) ==
  /\ place[t] = "release" /\ owningThread # t
  /\ Goto(t, "failed")
  /\ UNCHANGED <<threadLock, value, local, writes>>

\* The oldest waiter becomes the owner and its event is set.
HandOver(t) ==
  /\ place[t] = "release" /\ owningThread = t /\ waitingThreads # <<>>
  /\ owningThread' = Head(waitingThreads)
  /\ waitingThreads' = Tail(waitingThreads)
  /\ woken' = woken \union {Head(waitingThreads)}
  /\ Goto(t, "returned")
  /\ UNCHANGED <<value, local, writes>>

NoWaiters(t) ==
  /\ place[t] = "release" /\ owningThread = t /\ waitingThreads = <<>>
  /\ Goto(t, "free")
  /\ UNCHANGED <<threadLock, value, local, writes>>

ClearOwner(t) ==
  /\ place[t] = "free"
  /\ owningThread' = NoThread
  /\ Goto(t, "returned")
  /\ UNCHANGED <<waitingThreads, woken, value, local, writes>>

ThreadAcquires(t) == TestOwner(t) \/ TakeLock(t) \/ Enqueue(t) \/ Wake(t) \/ Block(t)
ThreadReleases(t) == ReleaseFails(t) \/ HandOver(t) \/ NoWaiters(t) \/ ClearOwner(t)

ThreadStep(t) == ThreadAcquires(t) \/ ReadCounter(t) \/ WriteCounter(t) \/ ThreadReleases(t)

ThreadsNext == \E t \in Thread : ThreadStep(t)

\* Every thread that can run is scheduled.
ThreadsSpec == ThreadsInit /\ [][ThreadsNext]_threadVars /\ \A t \in Thread : WF_threadVars(ThreadStep(t))

-----------------------------------------------------------------------------
\* The only way for a second thread past the lock is to take one that it had seen
\* free: a lock that is handed over on release admits nobody beside the thread
\* that has it, whatever other threads have overwritten or wiped in between.
OverlapByTaking == [][~overlap /\ overlap' => \E t \in Thread : TakeLock(t)]_threadVars
=============================================================================
