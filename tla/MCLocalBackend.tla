--------------------------- MODULE MCLocalBackend ---------------------------
(***************************************************************************)
(* The local cache backend for TLC, called by the tasks of one event loop  *)
(* or by threads with loops of their own.  The two models share nothing,   *)
(* so one of them runs and the other stays as it is.                       *)
(***************************************************************************)
EXTENDS LocalMemCache, SyncCacheAccess

MCDelta == {-1, 2}

VARIABLE callers \* which of the two runs

backendVars == <<vars, threadVars, callers>>

BackendInit == Init /\ ThreadsInit /\ callers \in {"tasks", "threads"}

BackendNext ==
  /\ UNCHANGED callers
  /\ \/ callers = "tasks" /\ Next /\ UNCHANGED threadVars
     \/ callers = "threads" /\ ThreadsNext /\ UNCHANGED vars

\* The event loop resumes every task that is ready to run.
BackendFairness ==
  \A c \in Client : WF_backendVars((Body(c) \/ Return(c)) /\ UNCHANGED <<threadVars, callers>>)

BackendSpec == BackendInit /\ [][BackendNext]_backendVars /\ BackendFairness
=============================================================================
