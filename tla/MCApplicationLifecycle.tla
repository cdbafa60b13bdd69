----------------------- MODULE MCApplicationLifecycle -----------------------
(***************************************************************************)
(* ApplicationLifecycle for TLC: a root module, one with a factory, one    *)
(* that needs the App, and one that is installed later.                    *)
(***************************************************************************)
EXTENDS ApplicationLifecycle

CONSTANTS root, plugin, docs, extra

MCModule == {root, plugin, docs, extra}
MCTree   == <<docs, plugin, root>>
MCSetup  == (root :> "static") @@ (plugin :> "factory") @@ (docs :> "app") @@ (extra :> "later")

Class(k, m)    == [key |-> k, kind |-> "class", owner |-> m]
Function(k, m) == [key |-> k, kind |-> "function", owner |-> m]

MCDeclares ==
  [m \in MCModule |->
     CASE m = root -> <<Function(404, m), Function(500, m)>>
       [] m = docs -> <<Function(404, m)>>
       [] OTHER    -> <<>>]

MCOffered == {Class(500, None), Function(404, None), Class(400, None)}

\* docs/overview/modules.md:110 of the handlers a module declares: a handler
\* "will be register to the application at runtime during" the computation of
\* its module.  An application that is created has the handlers of all its
\* modules.
ModuleHandlersApply ==
  phase \in Running => \A m \in ToSet(refs) : ToSet(Declares[m]) \subseteq ToSet(handlers)
=============================================================================
