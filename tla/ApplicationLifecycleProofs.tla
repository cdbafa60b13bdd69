--------------------- MODULE ApplicationLifecycleProofs ---------------------
(***************************************************************************)
(* Proofs about ApplicationLifecycle, for any modules, in any order and    *)
(* setup, with any handlers and hooks.  The inductive invariant has one    *)
(* part per concern: the lists of the factory hold each module once, the   *)
(* routes follow the references, the stack is the one its handlers would   *)
(* give, and the hooks run in their order.                                 *)
(***************************************************************************)
EXTENDS ApplicationLifecycle, TLAPS

-----------------------------------------------------------------------------
(***************************************************************************)
(* Lists of modules as sets.                                               *)
(***************************************************************************)
LEMMA AppendLemma ==
  ASSUME NEW S, NEW s \in Seq(S), NEW x \in S
  PROVE  /\ Append(s, x) \in Seq(S)
         /\ ToSet(Append(s, x)) = ToSet(s) \cup {x}
         /\ (IsInjective(s) /\ x \notin ToSet(s)) => IsInjective(Append(s, x))
<1> DEFINE t == Append(s, x)
<1>1. /\ t \in Seq(S) /\ Len(s) \in Nat /\ Len(t) = Len(s) + 1
      /\ \A i \in 1..Len(s) : t[i] = s[i]
      /\ t[Len(s) + 1] = x
      /\ DOMAIN s = 1..Len(s) /\ DOMAIN t = 1..Len(t)
  OBVIOUS
<1> HIDE DEF t
<1>2. \A i \in DOMAIN t : i \in DOMAIN s \/ i = Len(s) + 1
  BY <1>1
<1>3. DOMAIN s \subseteq DOMAIN t /\ Len(s) + 1 \in DOMAIN t
  BY <1>1
<1>4. ToSet(t) = ToSet(s) \cup {x}
  BY <1>1, <1>2, <1>3 DEF ToSet
<1>5. (IsInjective(s) /\ x \notin ToSet(s)) => IsInjective(t)
  BY <1>1, <1>2, <1>3 DEF ToSet, IsInjective
<1> QED BY <1>1, <1>4, <1>5 DEF t

LEMMA TailLemma ==
  ASSUME NEW S, NEW s \in Seq(S), s # <<>>
  PROVE  /\ Head(s) \in S /\ Head(s) \in ToSet(s) /\ Tail(s) \in Seq(S)
         /\ ToSet(Tail(s)) \subseteq ToSet(s)
         /\ IsInjective(s) => IsInjective(Tail(s)) /\ Head(s) \notin ToSet(Tail(s))
<1>1. /\ Tail(s) \in Seq(S) /\ Len(s) \in Nat \ {0} /\ Len(Tail(s)) = Len(s) - 1
      /\ \A i \in 1..Len(Tail(s)) : Tail(s)[i] = s[i + 1]
      /\ DOMAIN s = 1..Len(s) /\ DOMAIN Tail(s) = 1..Len(Tail(s))
      /\ Head(s) = s[1] /\ Head(s) \in S
  OBVIOUS
<1>2. \A i \in DOMAIN Tail(s) : i + 1 \in DOMAIN s /\ i + 1 # 1
  BY <1>1
<1>3. 1 \in DOMAIN s
  BY <1>1
<1>4. ToSet(Tail(s)) \subseteq ToSet(s) /\ Head(s) \in ToSet(s)
  BY <1>1, <1>2, <1>3 DEF ToSet
<1>5. ASSUME IsInjective(s)
      PROVE  IsInjective(Tail(s)) /\ Head(s) \notin ToSet(Tail(s))
  <2>1. ASSUME NEW i \in DOMAIN Tail(s), NEW j \in DOMAIN Tail(s), Tail(s)[i] = Tail(s)[j]
        PROVE  i = j
    <3>1. s[i + 1] = s[j + 1] /\ i \in Int /\ j \in Int
      BY <2>1, <1>1
    <3>2. i + 1 = j + 1
      BY <3>1, <1>2, <1>5 DEF IsInjective
    <3> QED BY <3>1, <3>2
  <2>2. ASSUME NEW i \in DOMAIN Tail(s) PROVE Tail(s)[i] # s[1]
    BY <2>2, <1>1, <1>2, <1>3, <1>5 DEF IsInjective
  <2> QED BY <2>1, <2>2, <1>1 DEF IsInjective, ToSet
<1> QED BY <1>1, <1>4, <1>5

LEMMA ReverseLemma ==
  ASSUME NEW S, NEW s \in Seq(S)
  PROVE  /\ Reverse(s) \in Seq(S)
         /\ ToSet(Reverse(s)) = ToSet(s)
         /\ IsInjective(s) => IsInjective(Reverse(s))
<1> DEFINE r == Reverse(s)
<1>1. Len(s) \in Nat /\ DOMAIN s = 1..Len(s) /\ \A i \in 1..Len(s) : s[i] \in S
  OBVIOUS
<1>2. DOMAIN r = 1..Len(s) /\ \A i \in 1..Len(s) : r[i] = s[(Len(s) - i) + 1]
  BY DEF Reverse
<1>3. \A i \in 1..Len(s) : (Len(s) - i) + 1 \in 1..Len(s) /\ (Len(s) - ((Len(s) - i) + 1)) + 1 = i
  BY <1>1
<1>4. r \in Seq(S)
  <2>1. r = [i \in 1..Len(s) |-> s[(Len(s) - i) + 1]]
    BY DEF Reverse
  <2>2. r \in [1..Len(s) -> S]
    BY <2>1, <1>1, <1>3
  <2> QED BY <2>2, <1>1
<1> HIDE DEF r
<1>5. ToSet(r) = ToSet(s)
  <2>1. ASSUME NEW i \in DOMAIN s PROVE s[i] \in ToSet(r)
    <3>1. (Len(s) - i) + 1 \in DOMAIN r /\ r[(Len(s) - i) + 1] = s[i]
      BY <1>1, <1>2, <1>3
    <3> QED BY <3>1 DEF ToSet
  <2>2. ASSUME NEW i \in DOMAIN r PROVE r[i] \in ToSet(s)
    BY <1>1, <1>2, <1>3 DEF ToSet
  <2> QED BY <2>1, <2>2 DEF ToSet
<1>6. ASSUME IsInjective(s) PROVE IsInjective(r)
  <2>1. ASSUME NEW i \in DOMAIN r, NEW j \in DOMAIN r, r[i] = r[j] PROVE i = j
    <3>1. (Len(s) - i) + 1 = (Len(s) - j) + 1
      BY <2>1, <1>1, <1>2, <1>3, <1>6 DEF IsInjective
    <3> QED BY <3>1, <1>1, <1>2
  <2> QED BY <2>1 DEF IsInjective
<1> QED BY <1>4, <1>5, <1>6 DEF r

-----------------------------------------------------------------------------
(***************************************************************************)
(* Types, and the lists that the factory empties as it goes.               *)
(***************************************************************************)
Early == {"reading", "factories"}
Past  == {"entering", "serving", "leaving", "stopping", "stopped"}
Phase == Early \cup {"dependents", "ready", "initialising", "starting", "failed"} \cup Past

Typed ==
  /\ phase \in Phase
  /\ todo \in Seq(Module) /\ dynamic \in Seq(Module) /\ dependent \in Seq(Module)
  /\ refs \in Seq(Module) /\ routes \in Seq(Module)
  /\ configured \in Seq(Handler) /\ handlers \in Seq(Handler)
  /\ inits \in [Module -> Nat]
  /\ DOMAIN task = Module
  /\ known \subseteq Module /\ pending \in Seq(Module)

LEMMA TypedInit == Init => Typed
<1> SUFFICES ASSUME Init PROVE Typed
  OBVIOUS
<1>1. Tree \in Seq(Module)
  BY ModuleAssumption
<1> QED BY <1>1 DEF Init, Typed, Phase, Early

LEMMA MakeRefTyped ==
  ASSUME Typed, NEW m \in Module, MakeRef(m)
  PROVE  refs' \in Seq(Module) /\ configured' \in Seq(Handler)
<1>1. Declares[m] \in Seq(Handler)
  BY HandlerAssumption
<1> QED BY <1>1 DEF Typed, MakeRef

LEMMA AddingTyped ==
  ASSUME NEW hs \in Seq(Handler), NEW h \in Handler
  PROVE  Adding(hs, h) \in Seq(Handler)
BY DEF Adding

\* Every step keeps the types.
LEMMA TypedNext == Typed /\ [Next]_vars => Typed'
<1> SUFFICES ASSUME Typed, [Next]_vars PROVE Typed'
  OBVIOUS
<1> USE DEF Phase, Early, Past
<1>1. CASE ReadModule
  <2>1. Head(todo) \in Module /\ todo' \in Seq(Module)
    BY <1>1, TailLemma DEF ReadModule, Typed
  <2>2. refs' \in Seq(Module) /\ configured' \in Seq(Handler)
    BY <2>1, <1>1, MakeRefTyped DEF ReadModule, Typed
  <2>3. dynamic' \in Seq(Module) /\ dependent' \in Seq(Module)
    <3>1. /\ Append(dynamic, Head(todo)) \in Seq(Module)
          /\ Append(dependent, Head(todo)) \in Seq(Module)
      BY <2>1, AppendLemma DEF Typed
    <3> QED BY <3>1, <1>1 DEF ReadModule, Typed, kept
  <2> QED BY <1>1, <2>1, <2>2, <2>3 DEF ReadModule, Typed, lifespan
<1>2. CASE ReadAll
  BY <1>2, ReverseLemma DEF ReadAll, Typed, tables, lifespan
<1>3. CASE ConfigureWithFactory
  <2>1. Head(todo) \in Module /\ todo' \in Seq(Module)
    BY <1>3, TailLemma DEF ConfigureWithFactory, Typed
  <2>2. refs' \in Seq(Module) /\ configured' \in Seq(Handler)
    BY <2>1, <1>3, MakeRefTyped DEF ConfigureWithFactory, Typed
  <2> QED BY <1>3, <2>1, <2>2 DEF ConfigureWithFactory, Typed, kept, lifespan
<1>4. CASE CreateApp
  BY <1>4, ReverseLemma DEF CreateApp, Typed, lifespan
<1>5. CASE FinishCreation
  <2>1. routes' \in Seq(Module)
    BY <1>5 DEF FinishCreation, NewRoutes, Typed
  <2> QED BY <1>5, <2>1 DEF FinishCreation, Typed, factory, kept, lifespan
<1>6. CASE StartLifespan \/ InitModule \/ LoopBreaks
  <2>1. pending # <<>> => Head(pending) \in Module /\ Tail(pending) \in Seq(Module)
    BY TailLemma DEF Typed
  <2>2. inits' \in [Module -> Nat] /\ DOMAIN task' = Module
    <3>1. CASE StartLifespan
      BY <3>1 DEF StartLifespan, Scheduled, Typed
    <3>2. CASE InitModule
      BY <3>2, <2>1 DEF InitModule, Typed
    <3>3. CASE LoopBreaks
      BY <3>3, <2>1 DEF LoopBreaks, Typed
    <3> QED BY <1>6, <3>1, <3>2, <3>3
  <2>3. known' \subseteq Module /\ pending' \in Seq(Module)
    <3>1. CASE StartLifespan
      BY <3>1 DEF StartLifespan, Typed, ToSet
    <3>2. CASE InitModule
      BY <3>2, <2>1 DEF InitModule, Typed
    <3>3. CASE LoopBreaks
      BY <3>3 DEF LoopBreaks, Typed
    <3> QED BY <1>6, <3>1, <3>2, <3>3
  <2> QED BY <1>6, <2>2, <2>3 DEF StartLifespan, InitModule, LoopBreaks, Typed, factory, kept, tables
<1>7. CASE LoopEnds \/ StartupEnds \/ EnterLifespan \/ ShutdownEnds \/ Shutdown
  BY <1>7 DEF LoopEnds, StartupEnds, AfterStartup, EnterLifespan, ShutdownEnds, Shutdown, Typed, factory, kept,
              tables, lifespan
<1>8. CASE BeginShutdown
  BY <1>8 DEF BeginShutdown, Scheduled, Typed, factory, kept, tables
<1>9. ASSUME NEW m \in Module, Hooks(m)
      PROVE  Typed'
  BY <1>9 DEF Hooks, BeginTask, EndTask, FailTask, CancelTask, Typed, factory, kept, tables
<1>10. ASSUME NEW m \in Module, Install(m)
       PROVE  Typed'
  <2>1. configured' \in Seq(Handler) /\ refs' \in Seq(Module)
    <3>1. configured \o Declares[m] \in Seq(Handler)
      <4>1. Declares[m] \in Seq(Handler)
        BY HandlerAssumption
      <4> QED BY <4>1 DEF Typed
    <3>2. CASE InstallModule(m)
      BY <3>2, MakeRefTyped DEF InstallModule, Typed, tables
    <3>3. CASE RegistrationFails(m)
      BY <3>1, <3>3 DEF RegistrationFails, Typed
    <3>4. CASE InitFails(m)
      BY <3>4, MakeRefTyped DEF InitFails
    <3> QED BY <1>10, <3>2, <3>3, <3>4 DEF Install
  <2>2. routes' \in Seq(Module) /\ inits' \in [Module -> Nat] /\ UNCHANGED handlers
    <3>1. Append(routes, m) \in Seq(Module) /\ [inits EXCEPT ![m] = @ + 1] \in [Module -> Nat]
      BY AppendLemma DEF Typed
    <3>2. CASE InstallModule(m)
      BY <3>1, <3>2 DEF InstallModule, Typed, tables
    <3>3. CASE RegistrationFails(m) \/ InitFails(m)
      BY <3>1, <3>3 DEF RegistrationFails, InitFails, Typed
    <3> QED BY <1>10, <3>2, <3>3 DEF Install
  <2> QED BY <1>10, <2>1, <2>2
          DEF Install, InstallModule, RegistrationFails, InitFails, Typed, factory, kept, lifespan
<1>11. ASSUME NEW h \in Offered, NEW g \in Offered, AddExceptionHandler(h, g)
       PROVE  Typed'
  <2>1. handlers' \in Seq(Handler)
    BY <1>11, AddingTyped, HandlerAssumption DEF AddExceptionHandler, Typed
  <2> QED BY <1>11, <2>1 DEF AddExceptionHandler, Typed, factory, kept, lifespan
<1>12. CASE UNCHANGED vars
  BY <1>12 DEF vars, Typed, factory, kept, tables, lifespan
<1> QED BY <1>1, <1>2, <1>3, <1>4, <1>5, <1>6, <1>7, <1>8, <1>9, <1>10, <1>11, <1>12
        DEF Next, Factory, Lifespan

-----------------------------------------------------------------------------
(***************************************************************************)
(* Modules and routes.  While the factory works, a module is in one of its *)
(* lists or has its reference; the routes are those of a first part of the *)
(* references until the application is created, and from then on every     *)
(* reference has its routes, or its installation raised.                   *)
(***************************************************************************)
Reading ==
  /\ IsInjective(refs) /\ IsInjective(todo) /\ IsInjective(dynamic) /\ IsInjective(dependent)
  /\ ToSet(refs) \cap ToSet(todo) = {}
  /\ ToSet(refs) \cap ToSet(dynamic) = {} /\ ToSet(refs) \cap ToSet(dependent) = {}
  /\ ToSet(todo) \cap ToSet(dynamic) = {} /\ ToSet(todo) \cap ToSet(dependent) = {}
  /\ ToSet(dynamic) \cap ToSet(dependent) = {}

RoutesFollow ==
  /\ IsInjective(routes) /\ ToSet(routes) \subseteq ToSet(refs)
  /\ phase \in Early => routes = <<>>
  /\ phase = "dependents" => /\ Len(routes) <= Len(refs)
                             /\ \A i \in 1..Len(routes) : routes[i] = refs[i]
  /\ phase \notin Early \cup {"dependents"} => ToSet(refs) \ broken \subseteq ToSet(routes)

ListInv == (phase \in Early \cup {"dependents"} => Reading) /\ RoutesFollow

LEMMA EmptyLemma == ToSet(<<>>) = {} /\ IsInjective(<<>>)
<1>1. DOMAIN <<>> = {}
  OBVIOUS
<1> QED BY <1>1 DEF ToSet, IsInjective

LEMMA ListInit == Init => ListInv
<1> SUFFICES ASSUME Init PROVE ListInv
  OBVIOUS
<1>1. refs = <<>> /\ routes = <<>> /\ dynamic = <<>> /\ dependent = <<>> /\ todo = Tree
      /\ phase = "reading"
  BY DEF Init
<1> QED BY <1>1, EmptyLemma, ModuleAssumption DEF ListInv, Reading, RoutesFollow, Early

\* A module of a list gets its reference, or goes to another list.
LEMMA HeadLemma ==
  ASSUME Typed, Reading, todo # <<>>, todo' = Tail(todo),
         \/ refs' = Append(refs, Head(todo)) /\ UNCHANGED <<dynamic, dependent>>
         \/ dynamic' = Append(dynamic, Head(todo)) /\ UNCHANGED <<refs, dependent>>
         \/ dependent' = Append(dependent, Head(todo)) /\ UNCHANGED <<refs, dynamic>>
  PROVE  Reading'
<1> DEFINE m == Head(todo)
<1>1. /\ m \in Module /\ m \in ToSet(todo) /\ m \notin ToSet(todo')
      /\ ToSet(todo') \subseteq ToSet(todo) /\ IsInjective(todo')
  BY TailLemma DEF Typed, Reading
<1>2. /\ m \notin ToSet(refs) /\ m \notin ToSet(dynamic) /\ m \notin ToSet(dependent)
  BY <1>1 DEF Reading
<1> HIDE DEF m
<1>3. CASE refs' = Append(refs, m) /\ UNCHANGED <<dynamic, dependent>>
  <2>1. ToSet(refs') = ToSet(refs) \cup {m} /\ IsInjective(refs')
    BY <1>1, <1>2, <1>3, AppendLemma DEF Typed, Reading
  <2> QED BY <1>1, <1>2, <1>3, <2>1 DEF Reading
<1>4. CASE dynamic' = Append(dynamic, m) /\ UNCHANGED <<refs, dependent>>
  <2>1. ToSet(dynamic') = ToSet(dynamic) \cup {m} /\ IsInjective(dynamic')
    BY <1>1, <1>2, <1>4, AppendLemma DEF Typed, Reading
  <2> QED BY <1>1, <1>2, <1>4, <2>1 DEF Reading
<1>5. CASE dependent' = Append(dependent, m) /\ UNCHANGED <<refs, dynamic>>
  <2>1. ToSet(dependent') = ToSet(dependent) \cup {m} /\ IsInjective(dependent')
    BY <1>1, <1>2, <1>5, AppendLemma DEF Typed, Reading
  <2> QED BY <1>1, <1>2, <1>5, <2>1 DEF Reading
<1> QED BY <1>3, <1>4, <1>5 DEF m

\* A reference that is appended leaves the routes behind it.
LEMMA RefLemma ==
  ASSUME Typed, RoutesFollow, NEW m \in Module, refs' = Append(refs, m),
         UNCHANGED <<phase, routes, broken>>,
         phase \in Early \cup {"dependents"}
  PROVE  RoutesFollow'
<1>1. /\ Len(refs') = Len(refs) + 1 /\ Len(refs) \in Nat /\ Len(routes) \in Nat
      /\ \A i \in 1..Len(refs) : refs'[i] = refs[i]
  BY DEF Typed
<1>2. ToSet(refs') = ToSet(refs) \cup {m}
  BY AppendLemma DEF Typed
<1>3. phase = "dependents" => 1..Len(routes) \subseteq 1..Len(refs) /\ Len(routes) <= Len(refs')
  BY <1>1 DEF RoutesFollow
<1> QED BY <1>1, <1>2, <1>3 DEF RoutesFollow

\* Every step keeps the lists and the routes in order.
LEMMA ListNext == Typed /\ ListInv /\ [Next]_vars => ListInv'
<1> SUFFICES ASSUME Typed, ListInv, [Next]_vars PROVE ListInv'
  OBVIOUS
<1> USE DEF Early
<1>1. CASE ReadModule
  <2>1. /\ phase = "reading" /\ todo # <<>> /\ todo' = Tail(todo)
        /\ UNCHANGED <<phase, routes, broken>> /\ Reading /\ RoutesFollow
    BY <1>1 DEF ReadModule, ListInv, history
  <2>2. \/ refs' = Append(refs, Head(todo)) /\ UNCHANGED <<dynamic, dependent>>
        \/ dynamic' = Append(dynamic, Head(todo)) /\ UNCHANGED <<refs, dependent>>
        \/ dependent' = Append(dependent, Head(todo)) /\ UNCHANGED <<refs, dynamic>>
    BY <1>1 DEF ReadModule, MakeRef, kept
  <2>3. Reading'
    BY <2>1, <2>2, HeadLemma
  <2>4. Head(todo) \in Module
    BY <2>1, TailLemma DEF Typed
  <2>5. RoutesFollow'
    BY <2>1, <2>2, <2>4, RefLemma DEF RoutesFollow
  <2> QED BY <2>3, <2>5 DEF ListInv
<1>2. CASE ReadAll
  <2>1. /\ phase = "reading" /\ phase' = "factories" /\ todo = <<>>
        /\ todo' = Reverse(dynamic) /\ dynamic' = <<>>
        /\ UNCHANGED <<dependent, refs, routes, broken>>
    BY <1>2 DEF ReadAll, history
  <2>2. ToSet(todo') = ToSet(dynamic) /\ (IsInjective(dynamic) => IsInjective(todo'))
    BY <2>1, ReverseLemma DEF Typed
  <2> QED BY <2>1, <2>2, EmptyLemma DEF ListInv, Reading, RoutesFollow
<1>3. CASE ConfigureWithFactory
  <2>1. /\ phase \in {"factories", "dependents"} /\ todo # <<>> /\ todo' = Tail(todo)
        /\ refs' = Append(refs, Head(todo))
        /\ UNCHANGED <<phase, routes, broken, dynamic, dependent>> /\ Reading /\ RoutesFollow
    BY <1>3 DEF ConfigureWithFactory, MakeRef, ListInv, history, kept
  <2>2. Head(todo) \in Module
    BY <2>1, TailLemma DEF Typed
  <2>3. Reading' /\ RoutesFollow'
    BY <2>1, <2>2, HeadLemma, RefLemma
  <2> QED BY <2>3 DEF ListInv
<1>4. CASE CreateApp
  <2>1. /\ phase = "factories" /\ phase' = "dependents" /\ todo = <<>>
        /\ todo' = Reverse(dependent) /\ dependent' = <<>> /\ routes' = refs
        /\ UNCHANGED <<dynamic, refs, broken>>
    BY <1>4 DEF CreateApp, history
  <2>2. ToSet(todo') = ToSet(dependent) /\ (IsInjective(dependent) => IsInjective(todo'))
    BY <2>1, ReverseLemma DEF Typed
  <2>3. Reading'
    BY <2>1, <2>2, EmptyLemma DEF ListInv, Reading
  <2>4. Len(refs) \in Nat
    BY DEF Typed
  <2>5. RoutesFollow'
    BY <2>1, <2>4 DEF ListInv, Reading, RoutesFollow
  <2> QED BY <2>3, <2>5 DEF ListInv
<1>5. CASE FinishCreation
  <2>1. /\ phase = "dependents" /\ phase' = "ready" /\ routes' = routes \o NewRoutes
        /\ UNCHANGED <<refs, broken>> /\ Reading /\ RoutesFollow
    BY <1>5 DEF FinishCreation, ListInv, history
  <2>2. routes' = refs
    <3>1. /\ Len(routes) \in Nat /\ Len(refs) \in Nat /\ Len(routes) <= Len(refs)
          /\ \A i \in 1..Len(routes) : routes[i] = refs[i]
      BY <2>1 DEF Typed, RoutesFollow
    <3>2. /\ NewRoutes \in Seq(Module) /\ Len(NewRoutes) = Len(refs) - Len(routes)
          /\ \A i \in 1..Len(NewRoutes) : NewRoutes[i] = refs[Len(routes) + i]
      BY <3>1 DEF NewRoutes, Typed
    <3>3. routes' \in Seq(Module) /\ Len(routes') = Len(refs)
      BY <2>1, <3>1, <3>2 DEF Typed
    <3>4. ASSUME NEW i \in 1..Len(refs) PROVE routes'[i] = refs[i]
      <4>1. CASE i <= Len(routes)
        BY <4>1, <2>1, <3>1, <3>2 DEF Typed
      <4>2. CASE ~(i <= Len(routes))
        <5>1. /\ i - Len(routes) \in 1..Len(NewRoutes) /\ Len(routes) + (i - Len(routes)) = i
          BY <4>2, <3>1, <3>2
        <5>2. routes'[i] = NewRoutes[i - Len(routes)]
          BY <4>2, <2>1, <3>1, <3>2 DEF Typed
        <5> QED BY <5>1, <5>2, <3>2
      <4> QED BY <4>1, <4>2
    <3>5. /\ routes' = [i \in 1..Len(refs) |-> routes'[i]]
          /\ refs = [i \in 1..Len(refs) |-> refs[i]]
      BY <3>3 DEF Typed
    <3>6. [i \in 1..Len(refs) |-> routes'[i]] = [i \in 1..Len(refs) |-> refs[i]]
      BY <3>4
    <3> QED BY <3>5, <3>6
  <2> QED BY <2>1, <2>2 DEF ListInv, Reading, RoutesFollow
<1>6. ASSUME UNCHANGED <<refs, routes>>, broken \subseteq broken',
             phase \notin Early \cup {"dependents"}, phase' \notin Early \cup {"dependents"}
      PROVE  ListInv'
  BY <1>6 DEF ListInv, RoutesFollow
<1>7. CASE Lifespan \/ Shutdown
  <2>1. /\ UNCHANGED <<refs, routes, broken>>
        /\ phase \notin Early \cup {"dependents"} /\ phase' \notin Early \cup {"dependents"}
    BY <1>7 DEF Lifespan, Shutdown, StartLifespan, InitModule, LoopBreaks, LoopEnds, StartupEnds, AfterStartup, EnterLifespan,
                BeginShutdown, ShutdownEnds, Hooks, Hook, BeginTask, EndTask, FailTask, CancelTask,
                history
  <2> QED BY <2>1, <1>6
<1>8. ASSUME NEW m \in Module, Install(m)
      PROVE  ListInv'
  <2>1. phase \notin Early \cup {"dependents"} /\ UNCHANGED phase
    BY <1>8 DEF Install, InstallModule, RegistrationFails, InitFails, Installing, Running
  <2>2. CASE InstallModule(m) /\ m \in ToSet(refs)
    BY <2>1, <2>2, <1>6 DEF InstallModule
  <2>3. CASE InstallModule(m) /\ m \notin ToSet(refs)
    <3>1. refs' = Append(refs, m) /\ routes' = Append(routes, m) /\ UNCHANGED broken
      BY <2>3 DEF InstallModule, MakeRef
    <3>2. m \notin ToSet(routes) /\ IsInjective(routes)
      BY <2>3 DEF ListInv, RoutesFollow
    <3>3. /\ ToSet(refs') = ToSet(refs) \cup {m} /\ ToSet(routes') = ToSet(routes) \cup {m}
          /\ IsInjective(routes')
      BY <3>1, <3>2, AppendLemma DEF Typed
    <3> QED BY <2>1, <3>1, <3>3 DEF ListInv, RoutesFollow
  <2>4. CASE RegistrationFails(m)
    BY <2>1, <2>4, <1>6 DEF RegistrationFails
  <2>5. CASE InitFails(m)
    <3>1. refs' = Append(refs, m) /\ UNCHANGED routes /\ broken' = broken \cup {m}
      BY <2>5 DEF InitFails, MakeRef
    <3>2. ToSet(refs') = ToSet(refs) \cup {m}
      BY <3>1, AppendLemma DEF Typed
    <3> QED BY <2>1, <3>1, <3>2 DEF ListInv, RoutesFollow
  <2> QED BY <1>8, <2>2, <2>3, <2>4, <2>5 DEF Install
<1>9. ASSUME NEW h \in Offered, NEW g \in Offered, AddExceptionHandler(h, g)
      PROVE  ListInv'
  BY <1>6, <1>9 DEF AddExceptionHandler, Running, history
<1>10. CASE UNCHANGED vars
  BY <1>10 DEF vars, factory, kept, history, ListInv, Reading, RoutesFollow
<1> QED BY <1>1, <1>2, <1>3, <1>4, <1>5, <1>7, <1>8, <1>9, <1>10 DEF Next, Factory

\* Once the application is created, each module the injector knows has its
\* routes in the router exactly once, unless its installation raised; and the
\* router never has the routes of a module twice, whatever is installed when.
THEOREM RoutesOnce == Spec => []RoutesComplete
<1>1. ListInv => RoutesComplete
  BY DEF ListInv, RoutesFollow, RoutesComplete, Running, Early
<1> QED BY TypedInit, TypedNext, ListInit, ListNext, <1>1, PTL DEF Spec

-----------------------------------------------------------------------------
(***************************************************************************)
(* The stack.  The list of handlers only grows at its end, so a build that *)
(* starts from the table of an earlier one forgets nothing of it and keeps *)
(* nothing that a build from an empty table would not give.                *)
(***************************************************************************)
NoHandlers == [k \in Key |-> None]

Extends(hs, old) == Len(old) <= Len(hs) /\ \A i \in 1..Len(old) : hs[i] = old[i]

StackInv ==
  /\ phase \in Early => service = NoHandlers
  /\ phase \notin Early => service = Built(NoHandlers, handlers) /\ stack500 = service[Error500]

\* Building again from what was built, or from nothing, is the same.
LEMMA BuiltLemma ==
  ASSUME NEW hs \in Seq(Handler), NEW old \in Seq(Handler), Extends(hs, old)
  PROVE  Built(Built(NoHandlers, old), hs) = Built(NoHandlers, hs)
<1> DEFINE own(s, k) == {i \in 1 .. Len(s) : s[i].key = k}
           from(table, s) == [k \in Key |-> IF own(s, k) # {} THEN s[Max(own(s, k))]
                                            ELSE IF k \in DefaultKey THEN Default ELSE table[k]]
<1>1. \A table, s : Built(table, s) = from(table, s)
  BY DEF Built
<1>2. ASSUME NEW k \in Key, own(hs, k) = {} PROVE own(old, k) = {}
  <2>1. 1..Len(old) \subseteq 1..Len(hs)
    BY DEF Extends
  <2> QED BY <2>1, <1>2 DEF Extends
<1>3. ASSUME NEW k \in Key
      PROVE  from(from(NoHandlers, old), hs)[k] = from(NoHandlers, hs)[k]
  <2>1. CASE own(hs, k) # {}
    BY <2>1
  <2>2. CASE own(hs, k) = {}
    <3>1. own(old, k) = {}
      BY <2>2, <1>2
    <3>2. k \notin DefaultKey => from(NoHandlers, old)[k] = NoHandlers[k]
      BY <3>1
    <3> QED BY <2>2, <3>2
  <2> QED BY <2>1, <2>2
<1>4. from(from(NoHandlers, old), hs) = from(NoHandlers, hs)
  BY <1>3
<1> QED BY <1>1, <1>4

LEMMA AddingExtends ==
  ASSUME NEW hs \in Seq(Handler), NEW h \in Handler
  PROVE  Adding(hs, h) \in Seq(Handler) /\ Extends(Adding(hs, h), hs)
BY DEF Adding, Extends

\* A rebuild leaves the stack that its handlers would give.
LEMMA RebuildLemma ==
  ASSUME NEW hs \in Seq(Handler), NEW old \in Seq(Handler), Extends(hs, old),
         service = NoHandlers \/ service = Built(NoHandlers, old), Rebuild(hs)
  PROVE  service' = Built(NoHandlers, hs) /\ stack500' = service'[Error500]
<1>1. Built(NoHandlers, hs) = Built(service, hs)
  BY BuiltLemma
<1> QED BY <1>1 DEF Rebuild

LEMMA StackInit == Init => StackInv
BY DEF Init, StackInv, Early, NoHandlers

\* Every step keeps the stack current.
LEMMA StackNext == Typed /\ StackInv /\ [Next]_vars => StackInv'
<1> SUFFICES ASSUME Typed, StackInv, [Next]_vars PROVE StackInv'
  OBVIOUS
<1> USE DEF Early
<1>1. ASSUME UNCHANGED <<service, stack500, handlers>>, phase \in Early <=> phase' \in Early
      PROVE  StackInv'
  BY <1>1 DEF StackInv
<1>2. CASE ReadModule \/ ReadAll \/ ConfigureWithFactory
  BY <1>2, <1>1 DEF ReadModule, ReadAll, ConfigureWithFactory, tables
<1>3. CASE CreateApp
  <2>1. /\ phase = "factories" /\ phase' = "dependents" /\ handlers' = configured
        /\ Rebuild(configured)
    BY <1>3 DEF CreateApp
  <2>2. configured \in Seq(Handler) /\ Extends(configured, configured)
    BY DEF Typed, Extends
  <2> QED BY <2>1, <2>2, RebuildLemma DEF StackInv
<1>4. ASSUME Rebuild(handlers), UNCHANGED handlers, phase \notin Early, phase' \notin Early
      PROVE  StackInv'
  <2>1. handlers \in Seq(Handler) /\ Extends(handlers, handlers)
    BY DEF Typed, Extends
  <2> QED BY <1>4, <2>1, RebuildLemma DEF StackInv
<1>5. CASE FinishCreation
  BY <1>5, <1>1, <1>4 DEF FinishCreation
<1>6. CASE Lifespan \/ Shutdown
  BY <1>6, <1>1
     DEF Lifespan, Shutdown, StartLifespan, InitModule, LoopBreaks, LoopEnds, StartupEnds, AfterStartup, EnterLifespan,
         BeginShutdown, ShutdownEnds, Hooks, BeginTask, EndTask, FailTask, CancelTask, tables
<1>7. ASSUME NEW m \in Module, Install(m)
      PROVE  StackInv'
  BY <1>7, <1>1, <1>4 DEF Install, InstallModule, RegistrationFails, InitFails, Installing, Running,
                          MakeRef, tables
<1>8. ASSUME NEW h \in Offered, NEW g \in Offered, AddExceptionHandler(h, g)
      PROVE  StackInv'
  <2> DEFINE one == Adding(handlers, h)
             two == Adding(one, g)
  <2>1. handlers' = two /\ phase \notin Early /\ UNCHANGED phase
    BY <1>8 DEF AddExceptionHandler, Running
  <2>2. CASE AnyAdded(handlers, h, g)
    <3>1. Rebuild(two)
      BY <1>8, <2>1, <2>2 DEF AddExceptionHandler
    <3>2. handlers \in Seq(Handler) /\ h \in Handler /\ g \in Handler
      BY HandlerAssumption DEF Typed
    <3>3. /\ one \in Seq(Handler) /\ Extends(one, handlers)
          /\ two \in Seq(Handler) /\ Extends(two, one)
      BY <3>2, AddingExtends
    <3>4. Extends(two, handlers)
      <4> HIDE DEF one, two
      <4> QED BY <3>2, <3>3 DEF Extends
    <3> QED BY <2>1, <3>1, <3>2, <3>3, <3>4, RebuildLemma DEF StackInv
  <2>3. CASE ~AnyAdded(handlers, h, g)
    <3>1. UNCHANGED <<service, stack500>>
      BY <1>8, <2>3 DEF AddExceptionHandler
    <3>2. two = handlers
      BY <2>3 DEF AnyAdded, Adding
    <3> QED BY <2>1, <3>1, <3>2, <1>1
  <2> QED BY <2>2, <2>3
<1>9. CASE UNCHANGED vars
  BY <1>9, <1>1 DEF vars, tables
<1> QED BY <1>2, <1>3, <1>5, <1>6, <1>7, <1>8, <1>9 DEF Next, Factory

\* The middleware stack in use is the one a build from nothing would give for
\* the handlers of the application, whatever mix of calls led to it, and its
\* 500 layer has the handler that the shared service has.
THEOREM StackNeverStale == Spec => []StackCurrent
<1>1. StackInv => StackCurrent
  BY DEF StackInv, StackCurrent, NoHandlers, Running, Early
<1> QED BY TypedInit, TypedNext, StackInit, StackNext, <1>1, PTL DEF Spec

-----------------------------------------------------------------------------
(***************************************************************************)
(* The hooks.  In the loop, a module is still to come or initialised, and  *)
(* its hook waits; so, while the group stays open after it, each module    *)
(* present is initialised, and its hook waits, runs or has returned.  A    *)
(* group that ends open has started them all, and only then the            *)
(* application serves and its shutdown hooks are called.                   *)
(***************************************************************************)
InLoop ==
  phase = "initialising" =>
    /\ group = "open"
    /\ \A m \in Module : task[m] \in {"none", "scheduled"}
    /\ \A m \in known \ ToSet(pending) :
         inits[m] > 0 /\ (m \in HasStartup => task[m] = "scheduled")

OpenStart ==
  phase = "starting" /\ group = "open" =>
    \A m \in known :
      /\ inits[m] > 0
      /\ m \in HasStartup => task[m] \in {"scheduled", "running", "done"}
      /\ m \in HasStartup /\ task[m] = "done" => m \in started

HookInv ==
  /\ InLoop
  /\ OpenStart
  /\ phase \in Past => known \cap HasStartup \subseteq started /\ \A m \in known : inits[m] > 0
  /\ phase \notin {"stopping", "stopped"} => stopped = {}
  /\ \A m \in known : task[m] # "none" => inits[m] > 0
  /\ phase \in Early \cup {"dependents", "ready"} => known = {}

\* What is not among the others of a list is its head.
LEMMA HeadOrTail ==
  ASSUME NEW S, NEW s \in Seq(S), s # <<>>
  PROVE  ToSet(s) = {Head(s)} \cup ToSet(Tail(s))
<1>1. /\ Len(s) \in Nat \ {0} /\ Len(Tail(s)) = Len(s) - 1
      /\ \A i \in 1..Len(Tail(s)) : Tail(s)[i] = s[i + 1]
      /\ DOMAIN s = 1..Len(s) /\ DOMAIN Tail(s) = 1..Len(Tail(s)) /\ Head(s) = s[1]
  OBVIOUS
<1>2. \A i \in DOMAIN s : i = 1 \/ (i - 1 \in DOMAIN Tail(s) /\ Tail(s)[i - 1] = s[i])
  <2> TAKE i \in DOMAIN s
  <2>1. i # 1 => i - 1 \in 1..Len(Tail(s)) /\ (i - 1) + 1 = i
    BY <1>1
  <2> QED BY <2>1, <1>1
<1>3. ToSet(s) \subseteq {Head(s)} \cup ToSet(Tail(s))
  BY <1>1, <1>2 DEF ToSet
<1> QED BY <1>3, TailLemma

LEMMA HookInit == Init => HookInv
BY DEF Init, HookInv, InLoop, OpenStart, Early, Past

\* Every step keeps the hooks in their order.
LEMMA HookNext == Typed /\ HookInv /\ [Next]_vars => HookInv'
<1> SUFFICES ASSUME Typed, HookInv, [Next]_vars PROVE HookInv'
  OBVIOUS
<1> USE DEF Early, Past
<1>1. CASE StartLifespan
  <2>1. /\ phase' = "initialising" /\ known' = ToSet(refs) /\ pending' = refs
        /\ task' = [m \in Module |-> "none"] /\ group' = "open"
        /\ UNCHANGED stopped /\ stopped = {}
    BY <1>1 DEF StartLifespan, Scheduled, HookInv
  <2>2. known' \subseteq Module
    BY <2>1 DEF Typed, ToSet
  <2> QED BY <2>1, <2>2 DEF HookInv, InLoop, OpenStart
<1>12. CASE InitModule
  <2> DEFINE m == Head(pending)
  <2>1. /\ phase = "initialising" /\ phase' = "initialising" /\ pending # <<>>
        /\ pending' = Tail(pending) /\ UNCHANGED <<known, group, stopped>>
        /\ inits' = [inits EXCEPT ![m] = @ + 1]
        /\ task' = IF m \in HasStartup THEN [task EXCEPT ![m] = "scheduled"] ELSE task
    BY <1>12 DEF InitModule
  <2>2. m \in Module /\ ToSet(pending) = {m} \cup ToSet(Tail(pending))
    BY <2>1, TailLemma, HeadOrTail DEF Typed
  <2>3. \A k \in Module : inits[k] > 0 \/ k = m => inits'[k] > 0
    BY <2>1, <2>2 DEF Typed
  <2>4. \A k \in Module : task'[k] = IF k = m /\ m \in HasStartup THEN "scheduled" ELSE task[k]
    BY <2>1, <2>2 DEF Typed
  <2> HIDE DEF m
  <2>5. InLoop'
    <3>1. ASSUME NEW k \in known \ ToSet(Tail(pending))
          PROVE  inits'[k] > 0 /\ (k \in HasStartup => task'[k] = "scheduled")
      <4>1. k \in Module /\ (k = m \/ k \in known \ ToSet(pending))
        BY <2>2 DEF Typed
      <4> QED BY <4>1, <2>1, <2>3, <2>4 DEF HookInv, InLoop
    <3>2. \A k \in Module : task'[k] \in {"none", "scheduled"}
      BY <2>1, <2>4 DEF HookInv, InLoop
    <3> QED BY <3>1, <3>2, <2>1 DEF HookInv, InLoop
  <2>6. \A k \in known : task'[k] # "none" => inits'[k] > 0
    BY <2>3, <2>4 DEF HookInv, Typed
  <2> QED BY <2>1, <2>5, <2>6 DEF HookInv, OpenStart
<1>13. CASE LoopBreaks
  <2>1. /\ phase = "initialising" /\ phase' = "starting" /\ group' = "cancelled" /\ pending # <<>>
        /\ UNCHANGED <<known, task, stopped>> /\ inits' = [inits EXCEPT ![Head(pending)] = @ + 1]
    BY <1>13 DEF LoopBreaks
  <2>2. Head(pending) \in Module
    BY <2>1, TailLemma DEF Typed
  <2>3. \A k \in Module : inits[k] > 0 => inits'[k] > 0
    BY <2>1, <2>2 DEF Typed
  <2> QED BY <2>1, <2>3 DEF HookInv, InLoop, OpenStart, Typed
<1>14. CASE LoopEnds
  <2>1. /\ phase = "initialising" /\ phase' = "starting" /\ pending = <<>>
        /\ UNCHANGED <<inits, known, task, group, started, stopped>>
    BY <1>14 DEF LoopEnds, lifespan
  <2>2. ToSet(pending) = {}
    BY <2>1, EmptyLemma
  <2> QED BY <2>1, <2>2 DEF HookInv, InLoop, OpenStart
<1>2. CASE StartupEnds
  <2>1. /\ phase = "starting" /\ GroupEnded /\ phase' = AfterStartup
        /\ UNCHANGED <<inits, known, task, group, started, stopped>>
    BY <1>2 DEF StartupEnds, lifespan
  <2>2. group = "open" => \A m \in known : inits[m] > 0 /\ (m \in HasStartup => m \in started)
    BY <2>1 DEF GroupEnded, HookInv, OpenStart, Typed
  <2> QED BY <2>1, <2>2 DEF HookInv, InLoop, OpenStart, AfterStartup
<1>3. CASE EnterLifespan \/ Shutdown \/ ShutdownEnds
  BY <1>3 DEF EnterLifespan, Shutdown, ShutdownEnds, HookInv, InLoop, OpenStart, lifespan
<1>4. CASE BeginShutdown
  <2>1. /\ phase = "leaving" /\ phase' = "stopping"
        /\ UNCHANGED <<inits, known, started, stopped>>
    BY <1>4 DEF BeginShutdown
  <2> QED BY <2>1 DEF HookInv, InLoop, OpenStart
<1>5. ASSUME NEW m \in Module, Hooks(m)
      PROVE  HookInv'
  <2>1. /\ phase \in Hook /\ UNCHANGED <<phase, inits, known>>
        /\ started \subseteq started'
        /\ phase = "starting" => UNCHANGED stopped
        /\ task[m] # "none"
        /\ \A k \in Module : k # m => task'[k] = task[k]
    BY <1>5 DEF Hooks, BeginTask, EndTask, FailTask, CancelTask, Hook, Typed
  <2>2. ASSUME phase = "starting", group' = "open", m \in HasStartup
        PROVE  /\ task'[m] \in {"scheduled", "running", "done"}
               /\ task'[m] = "done" => m \in started'
               /\ group = "open"
    BY <1>5, <2>2 DEF Hooks, BeginTask, EndTask, FailTask, CancelTask, Typed
  <2>3. phase = "starting" /\ group' = "open" => group = "open"
    BY <1>5 DEF Hooks, BeginTask, EndTask, FailTask, CancelTask
  <2>4. OpenStart'
    <3> SUFFICES ASSUME phase' = "starting", group' = "open", NEW k \in known'
                 PROVE  /\ inits'[k] > 0
                        /\ k \in HasStartup => task'[k] \in {"scheduled", "running", "done"}
                        /\ k \in HasStartup /\ task'[k] = "done" => k \in started'
      BY DEF OpenStart
    <3>1. k \in known /\ k \in Module /\ phase = "starting" /\ group = "open"
      BY <2>1, <2>3 DEF Typed
    <3>2. CASE k = m
      BY <2>1, <2>2, <3>1, <3>2 DEF HookInv, OpenStart
    <3>3. CASE k # m
      BY <2>1, <3>1, <3>3 DEF HookInv, OpenStart
    <3> QED BY <3>2, <3>3
  <2>5. \A k \in known' : task'[k] # "none" => inits'[k] > 0
    BY <2>1 DEF HookInv, Typed
  <2> QED BY <2>1, <2>4, <2>5 DEF HookInv, InLoop, Hook
<1>6. ASSUME UNCHANGED <<phase, known, pending, task, group, started, stopped>>,
             \A m \in Module : inits'[m] \in Nat /\ inits'[m] >= inits[m]
      PROVE  HookInv'
  <2>1. \A m \in Module : inits[m] > 0 => inits'[m] > 0
    BY <1>6 DEF Typed
  <2> QED BY <1>6, <2>1 DEF HookInv, InLoop, OpenStart, Typed
<1>7. ASSUME NEW m \in Module, Install(m)
      PROVE  HookInv'
  <2>1. UNCHANGED <<phase, known, pending, task, group, started, stopped>>
    BY <1>7 DEF Install, InstallModule, RegistrationFails, InitFails, lifespan
  <2>2. UNCHANGED inits \/ inits' = [inits EXCEPT ![m] = @ + 1]
    BY <1>7 DEF Install, InstallModule, RegistrationFails, InitFails
  <2>3. \A k \in Module : inits'[k] \in Nat /\ inits'[k] >= inits[k]
    <3>1. inits \in [Module -> Nat]
      BY DEF Typed
    <3>2. CASE UNCHANGED inits
      BY <3>1, <3>2
    <3>3. CASE inits' = [inits EXCEPT ![m] = @ + 1]
      BY <3>1, <3>3
    <3> QED BY <2>2, <3>2, <3>3
  <2> QED BY <2>1, <2>3, <1>6
<1>8. ASSUME UNCHANGED <<inits, lifespan>>,
             UNCHANGED phase \/ (phase \in Early \cup {"dependents"}
                                  /\ phase' \in Early \cup {"dependents", "ready"})
      PROVE  HookInv'
  BY <1>8 DEF HookInv, InLoop, OpenStart, lifespan
<1>9. CASE Factory
  BY <1>8, <1>9 DEF Factory, ReadModule, ReadAll, ConfigureWithFactory, CreateApp, FinishCreation
<1>10. ASSUME NEW h \in Offered, NEW g \in Offered, AddExceptionHandler(h, g)
       PROVE  HookInv'
  BY <1>8, <1>10 DEF AddExceptionHandler
<1>11. CASE UNCHANGED vars
  BY <1>8, <1>11 DEF vars
<1> QED BY <1>1, <1>2, <1>3, <1>4, <1>5, <1>7, <1>9, <1>10, <1>11, <1>12, <1>13, <1>14
        DEF Next, Lifespan

\* The application serves only when every startup hook of the modules that were
\* present has returned, however the hooks interleave, fail and are cancelled.
THEOREM ServingAfterStartup == Spec => []ServesStarted
<1>1. HookInv => ServesStarted
  BY DEF HookInv, ServesStarted, Past
<1> QED BY TypedInit, TypedNext, HookInit, HookNext, <1>1, PTL DEF Spec

\* Unless a module raises, no startup hook runs before before_init of every module
\* present, and none ever runs before that of its own module.
THEOREM InitialisedBeforeHooks == Spec => []InitialisedFirst
<1>1. Typed /\ HookInv => InitialisedFirst
  <2> SUFFICES ASSUME Typed, HookInv PROVE InitialisedFirst
    OBVIOUS
  <2> DEFINE begun == {m \in known : task[m] \in {"running", "done"}}
  <2>1. \A m \in begun : inits[m] > 0
    BY DEF HookInv
  <2>2. phase = "initialising" => begun = {}
    BY DEF HookInv, InLoop, Typed
  <2>3. phase = "starting" /\ group = "open" => \A m \in known : inits[m] > 0
    BY DEF HookInv, OpenStart
  <2>4. phase = "serving" => \A m \in known : inits[m] > 0
    BY DEF HookInv, Past
  <2> QED BY <2>1, <2>2, <2>3, <2>4 DEF InitialisedFirst
<1> QED BY TypedInit, TypedNext, HookInit, HookNext, <1>1, PTL DEF Spec

\* A shutdown hook is only called for a module that was started, though the
\* lifespan may fail on its way in, serving or out.
THEOREM StoppedAfterStarted == Spec => []StopsStarted
<1>1. HookInv => StopsStarted
  BY DEF HookInv, StopsStarted, Past
<1> QED BY TypedInit, TypedNext, HookInit, HookNext, <1>1, PTL DEF Spec
=============================================================================
