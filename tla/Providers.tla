------------------------------ MODULE Providers ------------------------------
(***************************************************************************)
(* What a service is made from: the modules of an application, read from   *)
(* its root, register their providers in one container, where the last     *)
(* registration of a type counts and a singleton that was made stays.      *)
(*                                                                         *)
(* An application is a record [root, auto, imports, declares, hooks,       *)
(* needs].  imports takes a module to a sequence of [module, how,          *)
(* providers, inject], where how is "plain", "dynamic" for a DynamicModule, *)
(* "setup" for a ModuleSetup whose factory wants nothing but the Config,   *)
(* "factory" for one that wants services and "app" for one that wants the  *)
(* App.  declares and hooks take a module to what its decorator and its    *)
(* register_services register, needs to the types its constructor wants.   *)
(* A provider is a record [base, use, value, scope].                       *)
(***************************************************************************)
EXTENDS Integers, Sequences, SequencesExt

No         == "none"
Singleton  == "singleton"
Transient  == "transient"
PerRequest == "request"

\* The classes: the scope of @injectable, and the class it is derived from.
Classes ==
  [IFoo   |-> [scope |-> No,         base |-> No],
   Foo    |-> [scope |-> No,         base |-> "IFoo"],
   ReqFoo |-> [scope |-> PerRequest, base |-> "IFoo"],
   Other  |-> [scope |-> Singleton,  base |-> No],
   ICore  |-> [scope |-> No,         base |-> No],
   Core   |-> [scope |-> Singleton,  base |-> "ICore"]]

\* ProviderConfig.register, Container.register: the scope a class declares comes
\* before the one that is configured, and a value that is false counts as none.
Or(scope, other) == IF scope # No THEN scope ELSE other
ScopeOf(p) ==
  LET base == Or(Classes[p.base].scope, Or(p.scope, Singleton))
  IN  IF p.use = No THEN base ELSE Or(Classes[p.use].scope, base)

Bound(p) ==
  [scope    |-> ScopeOf(p),
   provider |-> IF p.use # No THEN <<"class", p.use>>
                ELSE IF p.value \notin {No, "falsy"} THEN <<"value", p.value>>
                ELSE <<"class", p.base>>]

-----------------------------------------------------------------------------
\* The container and its singletons: made keeps the provider they came from.
NewContainer == [bindings |-> <<>>, made |-> <<>>]
Register(c, p) == [c EXCEPT !.bindings = (p.base :> Bound(p)) @@ @]
RegisterAll(c, ps) == FoldLeft(Register, c, ps)

\* EllarCoreService: the services of the framework come first.
Core == <<[base |-> "ICore", use |-> "Core", value |-> No, scope |-> No]>>
RegisterCoreServices == RegisterAll(NewContainer, Core)

\* get_binding: a type without a binding is bound as it is needed.
BindingOf(app, c, type) ==
  CASE type \in DOMAIN c.bindings -> c.bindings[type]
    [] type \notin DOMAIN c.bindings /\ (app.auto \/ Classes[type].scope # No) ->
         [scope |-> Or(Classes[type].scope, Transient), provider |-> <<"class", type>>]
    [] OTHER -> [scope |-> No, provider |-> <<"unsatisfied">>]

\* EllarInjector.get: what the instance is made from.
ServedBy(app, c, type) ==
  IF type \in DOMAIN c.made THEN c.made[type] ELSE BindingOf(app, c, type).provider
GetAll(app, c, types) ==
  LET get(d, t) == IF BindingOf(app, d, t).scope # Singleton THEN d
                   ELSE [d EXCEPT !.made = (t :> ServedBy(app, d, t)) @@ @]
  IN  FoldLeft(get, c, types)

-----------------------------------------------------------------------------
\* AppFactory.create_app: a new root that imports the modules.
Plainly(module) == [module |-> module, how |-> "plain", providers |-> <<>>, inject |-> <<>>]
CreateApp(app, root, modules, providers) ==
  [app EXCEPT !.root = root,
              !.imports  = (root :> [i \in DOMAIN modules |-> Plainly(modules[i])]) @@ @,
              !.declares = (root :> providers) @@ @,
              !.hooks    = (root :> <<>>) @@ @,
              !.needs    = (root :> <<>>) @@ @]

\* TestingModule: the overrides are the providers of such a root, and what the
\* lifespan does is done at once.
CreateApplication(app, overrides) == CreateApp(app, "test", <<app.root>>, overrides)

\* read_all_module: a module, then what it imports.
RECURSIVE ReadAllModule(_, _)
ReadAllModule(app, module) ==
  LET below(s) == <<s>> \o ReadAllModule(app, s.module)
      imports  == app.imports[module]
  IN  FlattenSeq([i \in DOMAIN imports |-> below(imports[i])])

\* apply_configuration: a list that is not empty replaces that of the decorator;
\* that of a DynamicModule does so for the whole application when it is read.
Declared(app, s, read) ==
  LET dynamic == SelectSeq(read, LAMBDA t : t.module = s.module /\ t.how = "dynamic" /\ t.providers # <<>>)
  IN  IF s.how \in {"setup", "factory", "app"} /\ s.providers # <<>> THEN s.providers
      ELSE IF dynamic # <<>> THEN Last(dynamic).providers
      ELSE app.declares[s.module]

\* get_all_modules: from a dict, so that a module keeps the place where it was
\* found first and the setup that was found last; each with what it declares.
AllModules(app) ==
  LET read == ReadAllModule(app, app.root)
      add(found, s) ==
        IF \E i \in DOMAIN found : found[i].module = s.module
        THEN [i \in DOMAIN found |-> IF found[i].module = s.module THEN s ELSE found[i]]
        ELSE Append(found, s)
      all == FoldLeft(add, <<Plainly(app.root)>>, read)
  IN  [i \in DOMAIN all |-> [all[i] EXCEPT !.providers = Declared(app, all[i], read)]]

\* _build_modules, _create_app: what is imported comes before what imports it,
\* except for the modules that wait, which are reversed twice.
BugInstallOrder(modules) == modules \* mutant: in the order in which they are read
InstallOrder(modules) ==
  LET of(how) == SelectSeq(modules, LAMBDA s : s.how \in how)
  IN  Reverse(of({"plain", "dynamic", "setup"})) \o of({"factory"}) \o of({"app"})

\* configure_with_factory gets the services that the factory wants; then
\* create_module_ref_factor registers the providers.
Built(app, order) ==
  LET install(c, s) == RegisterAll(GetAll(app, c, s.inject), s.providers)
  IN  FoldLeft(install, RegisterCoreServices, order)

\* run_module_register_services: the module is made, and registers services.
Started(app, order) ==
  LET start(c, s) == RegisterAll(GetAll(app, c, app.needs[s.module]), app.hooks[s.module])
  IN  FoldLeft(start, Built(app, order), order)

-----------------------------------------------------------------------------
(***************************************************************************)
(* What a type should be served by: the last provider of the module that   *)
(* declares it and is imported, directly or not, by no other that does.    *)
(* The root of a test declares what the test overrides.  A service of the  *)
(* framework stays unless a module declares it.                            *)
(***************************************************************************)
Imports(app, m) == {s.module : s \in ToSet(ReadAllModule(app, m))}
For(s, type) == SelectSeq(s.providers, LAMBDA p : p.base = type)
Declaring(modules, type) == {i \in DOMAIN modules : For(modules[i], type) # <<>>}
Outermost(app, modules, type) ==
  LET ds == Declaring(modules, type)
  IN  {i \in ds : \A j \in ds : modules[i].module \notin Imports(app, modules[j].module)}

\* Where the code is known to do something else (README, section 5): modules
\* that wait, a module that is read before another one that imports it, what
\* register_services registers, and values that are false.
Outrun(app, modules, type) ==
  LET ds == Declaring(modules, type)
  IN  \/ \E i \in ds : modules[i].how \in {"factory", "app"} \/ Last(For(modules[i], type)).value = "falsy"
      \/ \E i, j \in ds : i < j /\ modules[i].module \in Imports(app, modules[j].module)
      \/ \E m \in DOMAIN app.hooks : \E p \in ToSet(app.hooks[m]) : p.base = type

ProvidedRightly(app) ==
  LET modules == AllModules(app)
      c == Started(app, InstallOrder(modules))
      right(p) ==
        LET class == IF p.use # No THEN p.use ELSE p.base
        IN  /\ ServedBy(app, c, p.base) = IF p.value # No THEN <<"value", p.value>> ELSE <<"class", class>>
            /\ Classes[class].scope # No => BindingOf(app, c, p.base).scope = Classes[class].scope
  IN  \A type \in DOMAIN Classes :
        \/ Declaring(modules, type) = {} /\ (type = "ICore" => right(Core[1]))
        \/ Outrun(app, modules, type)
        \/ \E i \in Outermost(app, modules, type) : right(Last(For(modules[i], type)))
=============================================================================
