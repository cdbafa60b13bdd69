------------------------------ MODULE Controllers ------------------------------
(***************************************************************************)
(* How classes become controllers: the statements of a file are carried    *)
(* out in order, each of which defines a class with routes, applies the    *)
(* decorators below @Controller to it, then @Controller, then those above. *)
(* The metadata the decorators leave is kept outside the classes, under    *)
(* the target that a mark in each class names; routes and guards of a      *)
(* request come from there.                                                *)
(*                                                                         *)
(* A statement is a record [name, parent, base, routes, below, controller, *)
(* above]: the name of its parent or None, whether ControllerBase is a     *)
(* base, its route functions, and the guards of each @UseGuards.  A class  *)
(* is <<name>>; the one that @Controller derives from it <<name, "new">>.  *)
(***************************************************************************)
EXTENDS Sequences, SequencesExt

NoParent == "none"

\* What has been carried out: the class each name stands for, parents, which
\* classes are of type ControllerType, the route functions in a class, the marks
\* (REFLECT_TYPE), the metadata of each target, the classes that must not be
\* processed again, the controller of each route function, whether it raised.
NewFile == [bound |-> <<>>, parent |-> <<>>, typed |-> {}, routes |-> <<>>, mark |-> <<>>,
            guards |-> <<>>, operations |-> <<>>, watermark |-> {}, blocked |-> {},
            owner |-> <<>>, raised |-> FALSE]

RECURSIVE Mro(_, _)
Mro(w, class) ==
  <<class>> \o IF w.parent[class] = <<>> THEN <<>> ELSE Mro(w, w.parent[class])
SomeBase(w, class, S) == \E b \in ToSet(Mro(w, class)) : b \in S

\* _get_actual_target: a class without a mark of its own marks itself.
Target(w, class) == IF class \in DOMAIN w.mark THEN w.mark[class] ELSE class
Mark(w, class)   == [w EXCEPT !.mark = (class :> Target(w, class)) @@ @]

\* define_metadata: lists are concatenated.
Got(table, target) == IF target \in DOMAIN table THEN table[target] ELSE <<>>
UseGuards(w, class, guard) ==
  LET t == Target(w, class)
  IN  [Mark(w, class) EXCEPT !.guards = (t :> Append(Got(@, t), guard)) @@ @]
AllGuards(w, class, guards) ==
  FoldLeft(LAMBDA v, g : UseGuards(v, class, g), w, guards)

\* reflect_all_controller_type_routes: the routes of all bases, the last first.
Own(w, class, function) ==
  LET t == Target(w, class)
  IN  IF function \in DOMAIN w.owner THEN [w EXCEPT !.raised = TRUE]
      ELSE [w EXCEPT !.owner = (function :> class) @@ @,
                     !.operations = (t :> Append(Got(@, t), function)) @@ @]
ReflectRoutes(w, class) ==
  LET mro == Reverse(Mro(w, class))
  IN  FoldLeft(LAMBDA v, f : Own(v, class, f), w, FlattenSeq([i \in DOMAIN mro |-> w.routes[mro[i]]]))

\* A class that is no ControllerBase is derived from, and shares its metadata
\* with the new one; the mark may be that of a base, which cannot be copied.
BugDerive(w, class, new) == \* mutant: the mark is not copied
  [w EXCEPT !.parent = (new :> class) @@ @, !.routes = (new :> <<>>) @@ @, !.typed = @ \cup {new}]
Derive(w, class, new) ==
  [w EXCEPT !.parent = (new :> class) @@ @, !.routes = (new :> <<>>) @@ @, !.typed = @ \cup {new},
            !.mark = IF class \in DOMAIN @ THEN (new :> @[class]) @@ @ ELSE @,
            !.raised = SomeBase(w, class, DOMAIN w.mark) /\ class \notin DOMAIN w.mark]

\* Controller
Decorate(w, name) ==
  LET class == <<name>>
      plain == class \notin w.typed
      type  == IF plain THEN <<name, "new">> ELSE class
      v     == Mark(IF plain THEN Derive(w, class, type) ELSE w, type)
      done  == Target(v, type) \in v.watermark \/ SomeBase(v, class, v.blocked)
      u     == IF done THEN v
               ELSE ReflectRoutes([v EXCEPT !.watermark = @ \cup {Target(v, type)}], type)
  IN  [u EXCEPT !.blocked = IF plain THEN @ \cup {class} ELSE @,
                !.bound = (name :> type) @@ @]

\* The class statement, before its decorators.
Define(w, d) ==
  LET class == <<d.name>>
      up    == IF d.parent = NoParent THEN <<>> ELSE w.bound[d.parent]
  IN  [w EXCEPT !.bound = (d.name :> class) @@ @, !.parent = (class :> up) @@ @,
                !.routes = (class :> d.routes) @@ @,
                !.typed = IF d.base \/ up \in @ THEN @ \cup {class} ELSE @]

Statement(w, d) ==
  LET below == AllGuards(Define(w, d), <<d.name>>, d.below)
      there == IF d.controller THEN Decorate(below, d.name) ELSE below
  IN  IF w.raised THEN w
      ELSE IF there.raised THEN [w EXCEPT !.raised = TRUE]
      ELSE AllGuards(there, there.bound[d.name], d.above)

Imported(file) == FoldLeft(Statement, NewFile, file)

\* ControllerRouterFactory.check_type, build
Valid(w, class) == Target(w, class) \in w.watermark /\ class \in w.typed
OperationsOf(w, class) == Got(w.operations, Target(w, class))

-----------------------------------------------------------------------------
(***************************************************************************)
(* What a file of controllers should be: every class under @Controller     *)
(* serves the routes of its bases and its own, each behind the guards of   *)
(* that class and no other's; unless a route would be under two            *)
(* controllers, which is refused.                                          *)
(***************************************************************************)
Chain(file, i) ==
  LET up[k \in DOMAIN file] ==
        IF file[k].parent = NoParent THEN {k}
        ELSE {k} \cup up[CHOOSE j \in DOMAIN file : file[j].name = file[k].parent]
  IN  up[i]
RoutesOf(file, i) == UNION {ToSet(file[k].routes) : k \in Chain(file, i)}

\* Where the code is known to do something else (README, section 5): a class
\* derived from a controller that was no ControllerBase is not processed, and is
\* refused when routes are built; one that is no ControllerBase raises when only
\* its bases have metadata.
Typed(file, i) == \E k \in Chain(file, i) : file[k].base \/ (k # i /\ file[k].controller)
Unprocessed(file, i) ==
  \E k \in Chain(file, i) \ {i} : file[k].controller /\ ~Typed(file, k)
Unmarked(file, i) ==
  /\ ~Typed(file, i) /\ file[i].controller /\ file[i].below = <<>>
  /\ \E k \in Chain(file, i) \ {i} : file[k].below \o file[k].above # <<>>

Reused(file) ==
  \E i, j \in DOMAIN file : /\ i < j /\ file[i].controller /\ file[j].controller
                            /\ ~Unprocessed(file, i) /\ ~Unprocessed(file, j)
                            /\ RoutesOf(file, i) \cap RoutesOf(file, j) # {}

ControlledRightly(file) ==
  LET w == Imported(file)
      right(i) ==
        LET class == w.bound[file[i].name]
            rs    == OperationsOf(w, class)
        IN  /\ Valid(w, class) /\ ToSet(rs) = RoutesOf(file, i) /\ IsInjective(rs)
            /\ \A f \in ToSet(rs) : Got(w.guards, Target(w, w.owner[f])) = file[i].below \o file[i].above
      odd(i) == Unprocessed(file, i) /\ ~Valid(w, w.bound[file[i].name])
  IN  /\ w.raised <=> Reused(file) \/ \E i \in DOMAIN file : Unmarked(file, i)
      /\ ~w.raised => \A i \in DOMAIN file : file[i].controller => right(i) \/ odd(i)
=============================================================================
