------------------------ MODULE ApplicationLifecycle ------------------------
(***************************************************************************)
(* The life of an ellar application: AppFactory reads the modules, App is  *)
(* created from what they left in the configuration, the modules that need *)
(* the App follow, application code installs modules and adds exception    *)
(* handlers, and the lifespan starts and stops the modules in task groups. *)
(*                                                                         *)
(* Everything up to the lifespan is synchronous, so a call is one action.  *)
(* The hooks of a module (before_init, on_startup, on_shutdown) are        *)
(* application code: each may raise, and the asynchronous ones interleave. *)
(***************************************************************************)
EXTENDS Integers, SequencesExt

CONSTANTS Module,      \* modules of the application
          Tree,        \* the imported ones, in the order _build_modules reads them
          Setup,       \* how a module is set up
          Declares,    \* module -> the exception handlers it declares, in order
          Offered,     \* handlers application code adds itself
          Key,         \* exception classes and status codes
          Error500,    \* the status code 500
          DefaultKey,  \* keys that have a handler by default
          Default,     \* that handler
          None,        \* no handler
          HasStartup,  \* modules that are IApplicationStartup
          HasShutdown, \* modules that are IApplicationShutdown
          MaxInstalls  \* bound: calls of install_module

\* An exception handler is an instance of a class of its own or a function in
\* a CallableExceptionHandler.
Handler == [key : Key, kind : {"class", "function"}, owner : Module \union {None}]

\* "factory": a ModuleSetup with a factory that injects services, "app": one
\* that injects the App, "later": only install_module knows it.
Setups == {"static", "factory", "app", "later"}

ASSUME ModuleAssumption ==
  /\ Setup \in [Module -> Setups]
  /\ Tree \in Seq({m \in Module : Setup[m] # "later"}) /\ IsInjective(Tree)
  /\ HasStartup \subseteq Module /\ HasShutdown \subseteq Module
ASSUME HandlerAssumption ==
  /\ Declares \in [Module -> Seq(Handler)] /\ Offered \subseteq Handler
  /\ Error500 \in Key \ DefaultKey /\ DefaultKey \subseteq Key
  /\ {Default, None} \intersect Handler = {}

VARIABLES phase,
          todo,       \* modules the factory still has to read
          dynamic,    \* modules kept until the injector has the static ones
          dependent,  \* modules kept until there is an App
          refs,       \* the module references of the injector, in order
          configured, \* config.EXCEPTION_HANDLERS
          handlers,   \* App._exception_handlers
          service,    \* ExceptionMiddlewareService: key -> handler
          stack500,   \* the handler in the server error layer of the stack
          routes,     \* modules whose routes the router got, in order
          inits,      \* module -> calls of before_init
          known,      \* the modules when the lifespan started
          pending,    \* those the loop of the startup still has to come to
          task,       \* module -> its hook in the current task group
          group,      \* the current task group
          started,    \* history: modules whose on_startup returned
          stopped,    \* history: modules whose on_shutdown was called
          broken,     \* history: modules install_module raised for
          installs    \* calls of install_module so far

kept     == <<dynamic, dependent>>
factory  == <<todo, kept>>
tables   == <<configured, handlers, service, stack500>>
lifespan == <<known, pending, task, group, started, stopped>>
history  == <<broken, installs>>
vars == <<phase, factory, refs, tables, routes, inits, lifespan, history>>

\* The App exists and create_app has returned.
Running == {"ready", "starting", "entering", "serving", "leaving", "stopping"}

Init ==
  /\ phase = "reading"
  /\ todo = Tree /\ dynamic = <<>> /\ dependent = <<>>
  /\ refs = <<>> /\ routes = <<>>
  /\ configured = <<>> /\ handlers = <<>>
  /\ service = [k \in Key |-> None] /\ stack500 = None
  /\ inits = [m \in Module |-> 0]
  /\ known = {} /\ pending = <<>> /\ task = [m \in Module |-> "none"] /\ group = "none"
  /\ started = {} /\ stopped = {}
  /\ broken = {} /\ installs = 0

-----------------------------------------------------------------------------
(***************************************************************************)
(* The middleware stack and the exception handlers.                        *)
(***************************************************************************)
\* The table that build_exception_handlers leaves when it starts from table:
\* the defaults, then the handlers in order, so the last one of a key stays.
Built(table, hs) ==
  [k \in Key |->
     LET own == {i \in 1 .. Len(hs) : hs[i].key = k}
     IN  IF own # {} THEN hs[Max(own)] ELSE IF k \in DefaultKey THEN Default ELSE table[k]]

\* build_middleware_stack: one service for all stacks, while the handler for
\* 500 goes into the server error layer of the new one.
Rebuild(hs) ==
  /\ service' = Built(service, hs)
  /\ stack500' = service'[Error500]

\* "h in handlers", with the element of the list on the left of ==: a class
\* instance equals every handler of its key, a CallableExceptionHandler every
\* other one of its key, because its __eq__ compares other with other.
IsAdded(h, hs) ==
  \E e \in ToSet(hs) : e.key = h.key /\ (e.kind = "class" \/ h.kind = "function")

\* One turn of the loop over the handlers of a call.
Adding(hs, h) == IF IsAdded(h, hs) THEN hs ELSE Append(hs, h)

\* Mutant: each handler of the call overwrites the flag.
BugAnyAdded(hs, h, g) == ~IsAdded(g, Adding(hs, h))

AnyAdded(hs, h, g) == ~IsAdded(h, hs) \/ ~IsAdded(g, Adding(hs, h))

\* app.add_exception_handler, called with two handlers, or with one: a handler
\* is added once, so a second turn with it changes nothing.
AddExceptionHandler(h, g) ==
  /\ phase \in Running
  /\ handlers' = Adding(Adding(handlers, h), g)
  /\ IF AnyAdded(handlers, h, g)
     THEN Rebuild(handlers')
     ELSE UNCHANGED <<service, stack500>>
  /\ UNCHANGED <<phase, factory, refs, configured, routes, inits, lifespan, history>>

-----------------------------------------------------------------------------
(***************************************************************************)
(* AppFactory.                                                             *)
(***************************************************************************)
\* A ModuleTemplateRef is made: its handlers go into the configuration.
MakeRef(m) ==
  /\ refs' = Append(refs, m)
  /\ configured' = configured \o Declares[m]

\* _build_modules: a module that can be set up now gets its reference, another
\* one is kept for later.
ReadModule ==
  /\ phase = "reading" /\ todo # <<>>
  /\ todo' = Tail(todo)
  /\ LET m == Head(todo) IN
       \/ Setup[m] = "static"  /\ MakeRef(m) /\ UNCHANGED kept
       \/ /\ Setup[m] = "factory"
          /\ dynamic' = Append(dynamic, m)
          /\ UNCHANGED <<dependent, refs, configured>>
       \/ /\ Setup[m] = "app"
          /\ dependent' = Append(dependent, m)
          /\ UNCHANGED <<dynamic, refs, configured>>
  /\ UNCHANGED <<phase, handlers, service, stack500, routes, inits, lifespan, history>>

\* The generators of the injector hand out what was kept and clear it; the
\* last module comes first.
ReadAll ==
  /\ phase = "reading" /\ todo = <<>>
  /\ phase' = "factories"
  /\ todo' = Reverse(dynamic) /\ dynamic' = <<>>
  /\ UNCHANGED <<dependent, refs, tables, routes, inits, lifespan, history>>

\* The factory of a ModuleSetup is called with its services.
ConfigureWithFactory ==
  /\ phase \in {"factories", "dependents"} /\ todo # <<>>
  /\ todo' = Tail(todo)
  /\ MakeRef(Head(todo))
  /\ UNCHANGED <<phase, kept, handlers, service, stack500, routes, inits, lifespan, history>>

\* App.__init__ copies the configuration's handlers and builds the stack.
CreateApp ==
  /\ phase = "factories" /\ todo = <<>>
  /\ phase' = "dependents"
  /\ todo' = Reverse(dependent) /\ dependent' = <<>>
  /\ handlers' = configured
  /\ Rebuild(configured)
  /\ routes' = refs
  /\ UNCHANGED <<dynamic, refs, configured, inits, lifespan, history>>

\* Mutant: the routes of all modules are added, not those of the new ones.
BugNewRoutes == refs

NewRoutes == SubSeq(refs, Len(routes) + 1, Len(refs))

\* The routes of the modules that needed the App, and a new stack.
FinishCreation ==
  /\ phase = "dependents" /\ todo = <<>>
  /\ phase' = "ready"
  /\ routes' = routes \o NewRoutes
  /\ IF NewRoutes # <<>> THEN Rebuild(handlers) ELSE UNCHANGED <<service, stack500>>
  /\ UNCHANGED <<factory, refs, configured, handlers, inits, lifespan, history>>

-----------------------------------------------------------------------------
(***************************************************************************)
(* App.install_module.                                                     *)
(***************************************************************************)
Installing(m) ==
  /\ phase \in Running
  /\ installs < MaxInstalls
  /\ installs' = installs + 1

\* The module is installed, or was already: then nothing but the answer.
InstallModule(m) ==
  /\ Installing(m)
  /\ IF m \in ToSet(refs)
     THEN UNCHANGED <<refs, tables, routes, inits>>
     ELSE /\ MakeRef(m)
          /\ inits' = [inits EXCEPT ![m] = @ + 1]
          /\ routes' = Append(routes, m)
          /\ Rebuild(handlers)
          /\ UNCHANGED handlers
  /\ UNCHANGED <<phase, factory, lifespan, broken>>

\* A provider or a controller cannot be registered: the handlers are in the
\* configuration already.
RegistrationFails(m) ==
  /\ Installing(m) /\ m \notin ToSet(refs)
  /\ configured' = configured \o Declares[m]
  /\ broken' = broken \union {m}
  /\ UNCHANGED <<phase, factory, refs, handlers, service, stack500, routes, inits,
                 lifespan>>

\* before_init or the constructor raises: the injector has the module already.
InitFails(m) ==
  /\ Installing(m) /\ m \notin ToSet(refs)
  /\ MakeRef(m)
  /\ inits' = [inits EXCEPT ![m] = @ + 1]
  /\ broken' = broken \union {m}
  /\ UNCHANGED <<phase, factory, handlers, service, stack500, routes, lifespan>>

-----------------------------------------------------------------------------
(***************************************************************************)
(* The lifespan.                                                           *)
(***************************************************************************)
Scheduled(ms) == [m \in Module |-> IF m \in ms THEN "scheduled" ELSE "none"]

\* run_all_startup_actions: the loop comes to each module of the injector.
StartLifespan ==
  /\ phase = "ready"
  /\ phase' = "initialising"
  /\ known' = ToSet(refs) /\ pending' = refs
  /\ task' = Scheduled({}) /\ group' = "open"
  /\ UNCHANGED <<factory, refs, tables, routes, inits, started, stopped, history>>

\* before_init and the constructor of the next module, and a task for on_startup.
InitModule ==
  /\ phase = "initialising" /\ pending # <<>>
  /\ pending' = Tail(pending)
  /\ LET m == Head(pending) IN
       /\ inits' = [inits EXCEPT ![m] = @ + 1]
       /\ task' = IF m \in HasStartup THEN [task EXCEPT ![m] = "scheduled"] ELSE task
  /\ UNCHANGED <<phase, factory, refs, tables, routes, known, group, started, stopped, history>>

\* One of the two raises: the loop breaks off and the group is cancelled.
LoopBreaks ==
  /\ phase = "initialising" /\ pending # <<>>
  /\ phase' = "starting"
  /\ pending' = <<>>
  /\ inits' = [inits EXCEPT ![Head(pending)] = @ + 1]
  /\ group' = "cancelled"
  /\ UNCHANGED <<factory, refs, tables, routes, known, task, started, stopped, history>>

\* The task group waits for its tasks.
LoopEnds ==
  /\ phase = "initialising" /\ pending = <<>>
  /\ phase' = "starting"
  /\ UNCHANGED <<factory, refs, tables, routes, inits, lifespan, history>>

\* Mutant: the loop awaits something, so that tasks run between its turns.
BugHook == {"initialising", "starting", "stopping"}

\* The loop itself never suspends: tasks run while the group waits for them.
Hook == {"starting", "stopping"}

BeginTask(m) ==
  /\ phase \in Hook /\ task[m] = "scheduled"
  /\ task' = [task EXCEPT ![m] = "running"]
  /\ stopped' = IF phase = "stopping" THEN stopped \union {m} ELSE stopped
  /\ UNCHANGED <<phase, factory, refs, tables, routes, inits, known, pending, group, started, history>>

EndTask(m) ==
  /\ phase \in Hook /\ task[m] = "running"
  /\ task' = [task EXCEPT ![m] = "done"]
  /\ started' = IF phase = "starting" THEN started \union {m} ELSE started
  /\ UNCHANGED <<phase, factory, refs, tables, routes, inits, known, pending, group, stopped, history>>

\* Mutant: the failure stays in the task.
BugFailTask(m) ==
  /\ phase \in Hook /\ task[m] = "running"
  /\ task' = [task EXCEPT ![m] = "failed"]
  /\ UNCHANGED <<phase, factory, refs, tables, routes, inits, known, pending, group, started, stopped,
                 history>>

\* The hook raises: the group cancels the others.
FailTask(m) ==
  /\ phase \in Hook /\ task[m] = "running"
  /\ task' = [task EXCEPT ![m] = "failed"]
  /\ group' = "cancelled"
  /\ UNCHANGED <<phase, factory, refs, tables, routes, inits, known, pending, started, stopped, history>>

\* The cancellation reaches a task that waits for something; one that has not
\* begun yet begins first.
CancelTask(m) ==
  /\ phase \in Hook /\ group = "cancelled" /\ task[m] = "running"
  /\ task' = [task EXCEPT ![m] = "cancelled"]
  /\ UNCHANGED <<phase, factory, refs, tables, routes, inits, known, pending, group, started, stopped,
                 history>>

\* Mutant: the group waits until every hook has returned.
BugGroupEnded == \A m \in Module : task[m] \in {"none", "done"}

GroupEnded == \A m \in Module : task[m] \notin {"scheduled", "running"}

\* Mutant: a failed startup runs the shutdown hooks too.
BugAfterStartup == IF group = "open" THEN "entering" ELSE "leaving"

AfterStartup == IF group = "open" THEN "entering" ELSE "failed"

StartupEnds ==
  /\ phase = "starting" /\ GroupEnded
  /\ phase' = AfterStartup
  /\ UNCHANGED <<factory, refs, tables, routes, inits, lifespan, history>>

\* DEFAULT_LIFESPAN_HANDLER is entered; when it raises, the finally runs.
EnterLifespan ==
  /\ phase = "entering"
  /\ phase' \in {"serving", "leaving"}
  /\ UNCHANGED <<factory, refs, tables, routes, inits, lifespan, history>>

\* The server shuts down; the handler is left, with an exception or without.
Shutdown ==
  /\ phase = "serving"
  /\ phase' = "leaving"
  /\ UNCHANGED <<factory, refs, tables, routes, inits, lifespan, history>>

\* run_all_shutdown_actions asks the injector again for the modules.
BeginShutdown ==
  /\ phase = "leaving"
  /\ phase' = "stopping"
  /\ task' = Scheduled(ToSet(refs) \intersect HasShutdown)
  /\ group' = "open"
  /\ UNCHANGED <<factory, refs, tables, routes, inits, known, pending, started, stopped, history>>

ShutdownEnds ==
  /\ phase = "stopping" /\ GroupEnded
  /\ phase' = "stopped"
  /\ UNCHANGED <<factory, refs, tables, routes, inits, lifespan, history>>

Factory == ReadModule \/ ReadAll \/ ConfigureWithFactory \/ CreateApp \/ FinishCreation

Hooks(m) == BeginTask(m) \/ EndTask(m) \/ FailTask(m) \/ CancelTask(m)

Lifespan ==
  \/ StartLifespan \/ InitModule \/ LoopBreaks \/ LoopEnds
  \/ StartupEnds \/ EnterLifespan
  \/ BeginShutdown \/ ShutdownEnds
  \/ \E m \in Module : Hooks(m)

Install(m) == InstallModule(m) \/ RegistrationFails(m) \/ InitFails(m)

Next ==
  \/ Factory \/ Lifespan \/ Shutdown
  \/ \E m \in Module : Install(m)
  \/ \E h, g \in Offered : AddExceptionHandler(h, g)

\* The hooks of the modules return, and the server runs the lifespan.
Spec == Init /\ [][Next]_vars /\ WF_vars(Lifespan)

-----------------------------------------------------------------------------
\* The stack in use is the one a build from nothing would give: no handler that
\* was added is missing from the shared service or from the 500 layer, and none
\* of an earlier stack is left, whatever mix of calls led here.
StackCurrent ==
  phase \in Running =>
    /\ service = Built([k \in Key |-> None], handlers)
    /\ stack500 = service[Error500]

\* Modules and routes agree: once the application is created every module the
\* injector knows has its routes in the router once, but those whose installation
\* raised.
RoutesComplete ==
  /\ IsInjective(routes)
  /\ phase \in Running => ToSet(refs) \ broken \subseteq ToSet(routes)

\* The server gets to serve only after every on_startup of the modules present
\* returned.
ServesStarted == phase = "serving" => known \intersect HasStartup \subseteq started

\* As long as nothing has raised, the first startup hook runs when before_init has
\* been called for every module present, also for those after its own in the loop.
\* Where a module raises, hooks that were scheduled already begin, but never the
\* hook of a module whose own before_init has not been called.
InitialisedFirst ==
  LET begun == {m \in known : task[m] \in {"running", "done"}}
  IN  /\ \A m \in begun : inits[m] > 0
      /\ phase \in {"initialising", "starting"} /\ group = "open" /\ begun # {}
           => \A m \in known : inits[m] > 0
      /\ phase = "serving" => \A m \in known : inits[m] > 0

\* on_shutdown is called for no module whose on_startup has not returned, unless
\* it came after the startup.
StopsStarted == stopped \intersect known \intersect HasStartup \subseteq started

\* The lifespan answers the server: a startup ends, and so does a shutdown,
\* though hooks raise and cancel each other.
LifespanEnds ==
  /\ phase = "initialising" ~> phase \in {"serving", "failed", "leaving"}
  /\ phase = "leaving" ~> phase = "stopped"
=============================================================================
