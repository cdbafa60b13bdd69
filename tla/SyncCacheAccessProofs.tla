----------------------- MODULE SyncCacheAccessProofs -----------------------
(***************************************************************************)
(* Proofs about SyncCacheAccess, for any number of threads: how a second   *)
(* thread comes past the lock, and what the threads cannot do then.        *)
(***************************************************************************)
EXTENDS SyncCacheAccess, TLAPS

Place == {"start", "take", "queue", "waiting", "blocked", "read", "write",
          "release", "free", "returned", "failed"}

Typed ==
  /\ value \in Int /\ writes \in Int /\ overlap \in BOOLEAN
  /\ place \in [Thread -> Place]
  /\ local \in [Thread -> Int]

\* Nobody shares the section between acquire and release.
Apart == \A t, u \in Thread : place[t] \in Section /\ place[u] \in Section => t = u

IInv == Typed /\ (~overlap => Apart)

LEMMA InitInv == ThreadsInit => IInv
<1> SUFFICES ASSUME ThreadsInit PROVE IInv
  OBVIOUS
<1>1. overlap \in BOOLEAN
  BY DEF ThreadsInit
<1>2. Apart
  BY DEF ThreadsInit, Apart, Section
<1> QED BY <1>1, <1>2 DEF ThreadsInit, IInv, Typed, Place

\* A thread that moves without an overlap leaves the others where they are,
\* and is alone in the section if it goes there.
LEMMA GotoLemma ==
  ASSUME IInv, NEW t \in Thread, NEW p \in Place, Goto(t, p)
  PROVE  /\ place' = [place EXCEPT ![t] = p]
         /\ place' \in [Thread -> Place] /\ overlap' \in BOOLEAN
         /\ ~overlap' => ~overlap /\ Apart'
BY DEF IInv, Typed, Goto, Apart

\* Every step of a thread keeps the invariant.
LEMMA NextInv == IInv /\ [ThreadsNext]_threadVars => IInv'
<1> SUFFICES ASSUME IInv, [ThreadsNext]_threadVars PROVE IInv'
  OBVIOUS
<1>1. ASSUME NEW t \in Thread, ThreadStep(t)
      PROVE  IInv'
  <2>1. PICK p \in Place : Goto(t, p)
    BY <1>1 DEF ThreadStep, ThreadAcquires, TestOwner, TakeLock, Enqueue, Wake, Block, ReadCounter,
                WriteCounter, ThreadReleases, ReleaseFails, HandOver, NoWaiters, ClearOwner, Place
  <2>2. /\ value' \in Int /\ writes' \in Int /\ local' \in [Thread -> Int]
    BY <1>1 DEF IInv, Typed, ThreadStep, ThreadAcquires, TestOwner, TakeLock, Enqueue, Wake, Block,
                ReadCounter, WriteCounter, ThreadReleases, ReleaseFails, HandOver, NoWaiters, ClearOwner
  <2> QED BY <2>1, <2>2, GotoLemma DEF IInv, Typed
<1>2. CASE UNCHANGED threadVars
  BY <1>2 DEF threadVars, IInv, Typed, Apart
<1> QED BY <1>1, <1>2 DEF ThreadsNext

-----------------------------------------------------------------------------
(***************************************************************************)
(* Who lets a second thread in.  Until that has happened the owner is the  *)
(* thread inside, unless a thread that was on its way out has wiped it; a  *)
(* waiter goes in only as the owner, so it is never the second.            *)
(***************************************************************************)
OwnerInside == \A u \in Thread : place[u] \in Section => owningThread \in {u, NoThread}

HInv == IInv /\ (~overlap => OwnerInside)

LEMMA InitHInv == ThreadsInit => HInv
<1>1. ThreadsInit => OwnerInside
  BY DEF ThreadsInit, OwnerInside
<1> QED BY <1>1, InitInv DEF HInv

\* Every step keeps the owner where it belongs.
LEMMA NextHInv == HInv /\ [ThreadsNext]_threadVars => HInv'
<1> SUFFICES ASSUME HInv, [ThreadsNext]_threadVars, ~overlap' PROVE OwnerInside'
  BY NextInv DEF HInv
<1>1. ASSUME NEW t \in Thread, ThreadStep(t)
      PROVE  OwnerInside'
  <2>1. PICK p \in Place : Goto(t, p)
    BY <1>1 DEF ThreadStep, ThreadAcquires, TestOwner, TakeLock, Enqueue, Wake, Block, ReadCounter,
                WriteCounter, ThreadReleases, ReleaseFails, HandOver, NoWaiters, ClearOwner, Place
  <2>2. /\ OwnerInside /\ Apart /\ Apart' /\ place' = [place EXCEPT ![t] = p]
        /\ place \in [Thread -> Place]
    BY <2>1, GotoLemma DEF HInv, IInv, Typed
  <2>3. CASE ReadCounter(t) \/ WriteCounter(t) \/ TestOwner(t) \/ Enqueue(t) \/ Block(t)
             \/ ReleaseFails(t) \/ NoWaiters(t)
    <3>1. place'[t] \in Section => place[t] \in Section
      BY <2>2, <2>3 DEF ReadCounter, WriteCounter, TestOwner, Enqueue, Block, ReleaseFails,
                        NoWaiters, Goto, Section
    <3>2. owningThread' = owningThread
      BY <2>3 DEF ReadCounter, WriteCounter, TestOwner, Enqueue, Block, ReleaseFails,
                  NoWaiters, threadLock
    <3> QED BY <2>2, <3>1, <3>2 DEF OwnerInside
  <2>4. CASE TakeLock(t)
    BY <2>2, <2>4 DEF TakeLock, Goto, OwnerInside, Apart, Section
  <2>5. CASE Wake(t)
    BY <2>2, <2>5 DEF Wake, Goto, OwnerInside, Apart, Section, threadLock
  <2>6. CASE HandOver(t)
    BY <2>2, <2>6 DEF HandOver, Goto, OwnerInside, Apart, Section
  <2>7. CASE ClearOwner(t)
    BY <2>2, <2>7 DEF ClearOwner, Goto, OwnerInside, Section
  <2> QED BY <1>1, <2>3, <2>4, <2>5, <2>6, <2>7 DEF ThreadStep, ThreadAcquires, ThreadReleases
<1>2. CASE UNCHANGED threadVars
  BY <1>2 DEF HInv, threadVars, threadLock, OwnerInside
<1> QED BY <1>1, <1>2 DEF ThreadsNext

\* Two threads are past the lock together only because acquire looks at the
\* owner and sets it in two steps: a lock that is handed over on release never
\* lets a second thread in, whatever has been wiped or overwritten before.
THEOREM OnlyTornAcquire == ThreadsSpec => OverlapByTaking
<1>1. ASSUME HInv, ThreadsNext, ~overlap, overlap'
      PROVE  \E t \in Thread : TakeLock(t)
  <2>1. PICK t \in Thread : ThreadStep(t)
    BY <1>1 DEF ThreadsNext
  <2>2. OwnerInside /\ Apart /\ place \in [Thread -> Place]
    BY <1>1 DEF HInv, IInv, Typed
  <2>3. ASSUME NEW p, Goto(t, p) PROVE p \in Section /\ place[t] \notin Section
    <3>1. p \in Section /\ \E u \in Thread \ {t} : place[u] \in Section
      BY <1>1, <2>3 DEF Goto
    <3> QED BY <3>1, <2>2 DEF Apart
  <2>4. ASSUME Wake(t) PROVE FALSE
    <3>1. PICK u \in Thread \ {t} : place[u] \in Section
      BY <1>1, <2>4 DEF Wake, Goto
    <3>2. owningThread = t
      BY <2>3, <2>4 DEF Wake, Section
    <3> QED BY <3>1, <3>2, <2>2, ThreadAssumption DEF OwnerInside
  <2>5. ASSUME TestOwner(t) \/ Enqueue(t) \/ Block(t) \/ ReadCounter(t) \/ WriteCounter(t)
               \/ ThreadReleases(t)
        PROVE  FALSE
    BY <2>3, <2>5 DEF TestOwner, Enqueue, Block, ReadCounter, WriteCounter, ThreadReleases,
                      ReleaseFails, HandOver, NoWaiters, ClearOwner, Section
  <2> QED BY <2>1, <2>4, <2>5 DEF ThreadStep, ThreadAcquires
<1>2. HInv /\ [ThreadsNext]_threadVars => [~overlap /\ overlap' => \E t \in Thread : TakeLock(t)]_threadVars
  BY <1>1
<1> QED BY InitHInv, NextHInv, <1>2, PTL DEF ThreadsSpec, OverlapByTaking
-----------------------------------------------------------------------------
(***************************************************************************)
(* What overlapping threads cannot do: a thread writes one more than it    *)
(* has read, and the counter never held more than was written until then.  *)
(***************************************************************************)
NoneInvented == 0 <= value /\ value <= writes

CInv == IInv /\ NoneInvented /\ \A t \in Thread : local[t] <= writes /\ 0 <= local[t]

LEMMA NextCInv == CInv /\ [ThreadsNext]_threadVars => CInv'
<1> SUFFICES ASSUME CInv, [ThreadsNext]_threadVars
             PROVE  NoneInvented' /\ \A u \in Thread : local'[u] <= writes' /\ 0 <= local'[u]
  BY NextInv DEF CInv
<1>1. value \in Int /\ writes \in Int /\ local \in [Thread -> Int]
  BY DEF CInv, IInv, Typed
<1>2. ASSUME NEW t \in Thread, WriteCounter(t)
      PROVE  NoneInvented' /\ \A u \in Thread : local'[u] <= writes' /\ 0 <= local'[u]
  <2>1. value' = local[t] + 1 /\ writes' = writes + 1 /\ local' = local
    BY <1>2 DEF WriteCounter
  <2> QED BY <1>1, <2>1 DEF CInv, NoneInvented
<1>3. ASSUME NEW t \in Thread, ReadCounter(t)
      PROVE  NoneInvented' /\ \A u \in Thread : local'[u] <= writes' /\ 0 <= local'[u]
  <2>1. local' = [local EXCEPT ![t] = value] /\ value' = value /\ writes' = writes
    BY <1>3 DEF ReadCounter
  <2> QED BY <1>1, <2>1 DEF CInv, NoneInvented
<1>4. ASSUME UNCHANGED <<value, local, writes>>
      PROVE  NoneInvented' /\ \A u \in Thread : local'[u] <= writes' /\ 0 <= local'[u]
  BY <1>4 DEF CInv, NoneInvented
<1>5. ASSUME NEW t \in Thread, ThreadAcquires(t) \/ ThreadReleases(t)
      PROVE  UNCHANGED <<value, local, writes>>
  BY <1>5 DEF ThreadAcquires, TestOwner, TakeLock, Enqueue, Wake, Block, ThreadReleases, ReleaseFails,
              HandOver, NoWaiters, ClearOwner
<1>6. CASE UNCHANGED threadVars
  BY <1>4, <1>6 DEF threadVars
<1> QED BY <1>2, <1>3, <1>4, <1>5, <1>6 DEF ThreadsNext, ThreadStep

\* However the threads overlap, increments are only ever lost: the counter never
\* shows more of them than were written.
THEOREM NothingInvented == ThreadsSpec => []NoneInvented
<1>1. ThreadsInit => CInv
  BY InitInv DEF ThreadsInit, CInv, NoneInvented
<1>2. CInv => NoneInvented
  BY DEF CInv
<1> QED BY <1>1, <1>2, NextCInv, PTL DEF ThreadsSpec
=============================================================================
