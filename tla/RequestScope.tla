---------------------------- MODULE RequestScope ----------------------------
(***************************************************************************)
(* The injector at run time: which instance EllarInjector.get returns in   *)
(* which request.                                                          *)
(*                                                                         *)
(* A context is a RequestScopeContext, the cache of one request.  The      *)
(* variable SCOPED_CONTEXT_VAR belongs to a task: create_asgi_args sets it *)
(* in the main coroutine of the request, and a task or a pool thread that  *)
(* the coroutine starts works with a copy of it, for as long as it runs.   *)
(*                                                                         *)
(* get is synchronous, so a task of the event loop finishes it before      *)
(* another one runs; threads interleave.  Resolving is a stack of frames,  *)
(* one for each dependency being built.  The injector library holds one    *)
(* reentrant lock while it builds a singleton and while it resolves the    *)
(* dependencies of a constructor.                                          *)
(***************************************************************************)
EXTENDS Integers, SequencesExt

CONSTANTS Request,
          Task,      \* what works for the requests: <<request, kind>>
          Service,
          None,      \* no service
          Scope,     \* the scope of the binding of a service
          Needs,     \* the service a constructor takes, or None
          Mounts,    \* an ellar application is mounted in the application
          Overrides, \* the application calls update_scoped_context
          MaxGets    \* bound: calls of get and of update_scoped_context

Scopes == {"singleton", "request", "transient"}

ASSUME BindingAssumption ==
  /\ None \notin Service
  /\ Scope \in [Service -> Scopes]
  /\ Needs \in [Service -> Service \union {None}]
\* Dependencies form no circle: the library raises CircularDependency.
ASSUME DependencyAssumption ==
  /\ IsFiniteSet(Service)
  /\ \E rank \in [Service -> 1..Cardinality(Service)] :
       \A s \in Service : Needs[s] # None => rank[Needs[s]] < rank[s]
ASSUME TaskAssumption ==
  /\ Task \subseteq Request \X {"main", "task", "thread"}
  /\ Request \X {"main"} \subseteq Task
ASSUME BoundAssumption == Mounts \in BOOLEAN /\ Overrides \in BOOLEAN /\ MaxGets \in Nat

VARIABLES stage,    \* where the main coroutine of each request is
          var,      \* SCOPED_CONTEXT_VAR of each task: a context, 0 for None
          contexts, \* the contexts made so far: service -> instance, 0 for no entry
          singles,  \* the singletons: service -> instance, 0 for not built
          stack,    \* the frames of the get of each task
          born,     \* instances made so far
          gets,     \* calls made so far
          given     \* history: what get and the constructors were given

request == <<stage, var>>
tables  == <<contexts, singles, born>>
vars    == <<request, tables, stack, gets, given>>

Main(r)   == <<r, "main">>
IsLoop(t) == t[2] # "thread"

Empty == [s \in Service |-> 0]

\* A frame: the service wanted, the context found in the variable, and whether
\* the service is looked up, waits for its dependency or is to be constructed.
Frame(s, c) == [key |-> s, ctx |-> c, phase |-> "find"]

Init ==
  /\ stage = [r \in Request |-> "arrived"]
  /\ var = [t \in Task |-> 0]
  /\ contexts = <<>>
  /\ singles = Empty
  /\ stack = [t \in Task |-> <<>>]
  /\ born = 0 /\ gets = 0
  /\ given = {}

\* The event loop runs t, or t is a thread of its own.
Runs(t) == IsLoop(t) => \A u \in Task : u # t /\ IsLoop(u) => stack[u] = <<>>

Idle(t) == Runs(t) /\ stack[t] = <<>>

-----------------------------------------------------------------------------
(***************************************************************************)
(* The life of a request.                                                  *)
(***************************************************************************)
\* Mutant: all requests share one context.
BugNewContext(t) ==
  /\ contexts' = IF contexts = <<>> THEN <<Empty>> ELSE contexts
  /\ var' = [var EXCEPT ![t] = 1]

NewContext(t) ==
  /\ contexts' = Append(contexts, Empty)
  /\ var' = [var EXCEPT ![t] = Len(contexts) + 1]

\* RequestServiceProviderMiddleware enters create_asgi_args.
Open(r) ==
  /\ stage[r] = "arrived" /\ Idle(Main(r))
  /\ stage' = [stage EXCEPT ![r] = "open"]
  /\ NewContext(Main(r))
  /\ UNCHANGED <<singles, born, stack, gets, given>>

\* The router hands the request to a mounted application, whose own
\* middleware enters create_asgi_args again in the same task.
EnterMounted(r) ==
  /\ Mounts
  /\ stage[r] = "open" /\ Idle(Main(r))
  /\ stage' = [stage EXCEPT ![r] = "mounted"]
  /\ NewContext(Main(r))
  /\ UNCHANGED <<singles, born, stack, gets, given>>

\* The finally of create_asgi_args: the variable becomes None.
Leave(r, s) ==
  /\ Idle(Main(r))
  /\ stage' = [stage EXCEPT ![r] = s]
  /\ var' = [var EXCEPT ![Main(r)] = 0]
  /\ UNCHANGED <<tables, stack, gets, given>>

LeaveMounted(r) == stage[r] = "mounted" /\ Leave(r, "back")

Close(r) == stage[r] \in {"open", "back"} /\ Leave(r, "closed")

\* The request starts a background task or a pool thread.
Start(t) ==
  /\ stage[t[1]] \in {"open", "mounted", "back"} /\ Idle(Main(t[1]))
  /\ t[2] # "main" /\ var[t] = 0
  /\ var' = [var EXCEPT ![t] = var[Main(t[1])]]
  /\ UNCHANGED <<stage, tables, stack, gets, given>>

-----------------------------------------------------------------------------
(***************************************************************************)
(* EllarInjector.get.                                                      *)
(***************************************************************************)
Get(t, s) ==
  /\ Idle(t) /\ gets < MaxGets
  /\ stage[t[1]] # "arrived"
  /\ t[2] # "main" => var[t] # 0
  /\ gets' = gets + 1
  /\ stack' = [stack EXCEPT ![t] = <<Frame(s, var[t])>>]
  /\ UNCHANGED <<request, tables, given>>

\* The instance a scope has in store for the service of frame f, 0 for none.
Stored(f) ==
  CASE Scope[f.key] = "singleton"               -> singles[f.key]
    [] Scope[f.key] = "request" /\ f.ctx # 0 -> contexts[f.ctx][f.key]
    [] OTHER                                    -> 0

\* The frame is inside a section of the library's lock.
Holds(f) ==
  \/ f.phase = "wait"
  \/ f.phase = "init" /\ Scope[f.key] = "singleton"

\* Mutant: the lock is not reentrant.
BugLockFree(t) == \A u \in Task : \A f \in ToSet(stack[u]) : ~Holds(f)

\* Mutant: there is no lock.
BugNoLock(t) == TRUE

LockFree(t) == \A u \in Task \ {t} : \A f \in ToSet(stack[u]) : ~Holds(f)

\* The frame on top of t's stack ends with instance i.
Give(t, i) ==
  LET f    == Last(stack[t])
      rest == Front(stack[t])
  IN  /\ stack' = [stack EXCEPT ![t] =
                     IF rest = <<>> THEN <<>>
                     ELSE Append(Front(rest), [Last(rest) EXCEPT !.phase = "init"])]
      /\ given' = given \union {[request |-> t[1], ctx |-> f.ctx, key |-> f.key, inst |-> i]}

\* The scope has the instance.
Find(t) ==
  /\ Runs(t) /\ stack[t] # <<>>
  /\ LET f == Last(stack[t]) IN
       /\ f.phase = "find" /\ Stored(f) # 0
       /\ Scope[f.key] = "singleton" => LockFree(t)
       /\ Give(t, Stored(f))
  /\ UNCHANGED <<request, tables, gets>>

\* It has none: the dependency is resolved first.
Build(t) ==
  /\ Runs(t) /\ stack[t] # <<>>
  /\ LET f == Last(stack[t])
         n == Needs[f.key]
     IN  /\ f.phase = "find" /\ Stored(f) = 0
         /\ Scope[f.key] = "singleton" \/ n # None => LockFree(t)
         /\ stack' = [stack EXCEPT ![t] =
              IF n = None THEN Append(Front(@), [f EXCEPT !.phase = "init"])
              ELSE Front(@) \o <<[f EXCEPT !.phase = "wait"], Frame(n, var[t])>>]
  /\ UNCHANGED <<request, tables, gets, given>>

\* Mutant: a request-scoped instance is not kept.
BugKeep(f, i) ==
  /\ singles' = IF Scope[f.key] = "singleton" THEN [singles EXCEPT ![f.key] = i] ELSE singles
  /\ UNCHANGED contexts

\* RequestScope.get and SingletonScope.get keep the new instance.
Keep(f, i) ==
  /\ singles' = IF Scope[f.key] = "singleton" THEN [singles EXCEPT ![f.key] = i] ELSE singles
  /\ contexts' = IF Scope[f.key] = "request" /\ f.ctx # 0
                 THEN [contexts EXCEPT ![f.ctx][f.key] = i] ELSE contexts

Construct(t) ==
  /\ Runs(t) /\ stack[t] # <<>>
  /\ Last(stack[t]).phase = "init"
  /\ born' = born + 1
  /\ Keep(Last(stack[t]), born + 1)
  /\ Give(t, born + 1)
  /\ UNCHANGED <<request, gets>>

\* update_scoped_context: the application provides the instance itself, of a
\* service whose scope looks at the context.
UpdateScopedContext(t, s) ==
  /\ Overrides /\ Scope[s] = "request"
  /\ Idle(t) /\ gets < MaxGets
  /\ var[t] # 0
  /\ gets' = gets + 1
  /\ born' = born + 1
  /\ contexts' = [contexts EXCEPT ![var[t]][s] = born + 1]
  /\ given' = {g \in given : ~(g.ctx = var[t] /\ g.key = s)}
  /\ UNCHANGED <<request, singles, stack>>

Resolve(t) == Find(t) \/ Build(t) \/ Construct(t)

Live(r) == Open(r) \/ EnterMounted(r) \/ LeaveMounted(r) \/ Close(r)

Next ==
  \/ \E r \in Request : Live(r)
  \/ \E t \in Task : Start(t) \/ Resolve(t) \/ \E s \in Service : Get(t, s) \/ UpdateScopedContext(t, s)

\* Resolving never waits for anything but the lock.
Spec == Init /\ [][Next]_vars /\ \A t \in Task : WF_vars(Resolve(t))

-----------------------------------------------------------------------------
\* A singleton is one object for all requests, tasks and threads, also when
\* several of them ask for it first at the same time.
OneSingleton ==
  \A g, h \in given : Scope[g.key] = "singleton" /\ h.key = g.key => h.inst = g.inst

\* Two requests never get the same object of a request-scoped service, and one
\* got outside of any context is not in a context either.
ContextsApart ==
  \A g, h \in given :
    Scope[g.key] = "request" /\ h.key = g.key /\ h.inst = g.inst
      => h.request = g.request /\ h.ctx = g.ctx

\* All that the event loop runs for one context gets the same object of a
\* request-scoped service, whoever resolves it first and as whose dependency:
\* a get is one step for the loop, though resolving takes several.
OnePerContext ==
  \A g, h \in given :
    Scope[g.key] = "request" /\ h.key = g.key /\ h.ctx = g.ctx /\ g.ctx # 0
      /\ <<g.request, "thread">> \notin Task
      => h.inst = g.inst

\* The locks of the library and the single event loop never keep a get waiting
\* for ever.
EveryGetEnds == \A t \in Task : stack[t] # <<>> ~> stack[t] = <<>>
=============================================================================
