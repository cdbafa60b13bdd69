-------------------------------- MODULE Access --------------------------------
(***************************************************************************)
(* Who may run an endpoint: the authentication schemes of the application, *)
(* the guards and interceptors in force at a handler, and the policies     *)
(* that @Authorize checks.                                                 *)
(*                                                                         *)
(* A scheme is a record [scheme, kind, knows, careful]: knows takes a key  *)
(* to the id its owner has, and careful tells whether the handler that the *)
(* application wrote copes with credentials that are None.  A request has, *)
(* for each place, a set of at most one key, and of one [scheme, key] for  *)
(* the Authorization header, whose words are in lower case; one that is    *)
(* empty is as good as none.  What is declared on a handler or a class is  *)
(* a set of at most one list.  A policy is a sequence of the policies it   *)
(* is put together from, itself the last, which name their operands by     *)
(* place.                                                                  *)
(***************************************************************************)
EXTENDS Integers, Sequences, SequencesExt, FiniteSets

Nobody  == "nobody"
Unnamed == "" \* the id of an identity that has none
Broken  == "broken" \* for an id: the scheme raised
NoWord  == "" \* the scheme of an Authorization header that is one word
Http    == {"bearer", "basic"}

\* What a request and a route may have; of each thing at most one.
SchemeKinds     == {"query", "cookie", "header"} \cup Http
AtMostOne(from) == \A what \in DOMAIN from : \A a, b \in from[what] : a = b
AnyRequest ==
  LET keys == STRING \ {""}
  IN  [query : SUBSET keys, cookie : SUBSET keys, header : SUBSET keys,
       authorization : SUBSET [scheme : STRING, key : keys]]
Guards       == Seq({"allows", "refuses"})
Interceptors == Seq({"authorize", "pass", "stop"})
Layer(policies) ==
  [guards : SUBSET Guards, interceptors : SUBSET Interceptors, policies : SUBSET Seq(policies)]
AnyRoute(policies, needs) ==
  [handler : Layer(policies), class : Layer(policies), made : Seq(needs),
   application : [guards : Guards, interceptors : Interceptors, policies : {<<>>}]]

\* Reflector.get_all_and_override, and the list of the application when there
\* is nothing to run.
InForce(handler, class, application) ==
  LET declared == IF handler # {} THEN handler ELSE class
  IN  IF declared \subseteq {<<>>} THEN application ELSE CHOOSE l \in declared : TRUE

\* AppIdentitySchemes.add_authentication: a dict by the names of the schemes,
\* where a name keeps the place of its first scheme and has the last.
Registered(schemes) ==
  {i \in DOMAIN schemes : \A j \in DOMAIN schemes : j < i => schemes[j].scheme # schemes[i].scheme}
SchemeAt(schemes, i) == schemes[Max({j \in DOMAIN schemes : schemes[j].scheme = schemes[i].scheme})]

\* _get_key, _get_credentials: a set of at most one key, unless it is malformed,
\* as any scheme but its own is to the bearer handler.
SchemeWords(h) == IF h.kind = "bearer" THEN {"bearer"} ELSE {"basic", NoWord}
Presented(h, request) ==
  IF h.kind \in Http THEN {c.key : c \in {c \in request.authorization : c.scheme \in SchemeWords(h)}}
  ELSE request[h.kind]
Malformed(h, request) ==
  \/ h.kind = "bearer" /\ \E c \in request.authorization : c.scheme \notin {"bearer", NoWord}
  \/ h.kind = "basic" /\ "garbled" \in Presented(h, request)

\* authenticate of a handler: what it returns or raises.  Without a key an API
\* key handler is not asked; an HTTP one is, with None.
Identify(h, request) ==
  LET keys == Presented(h, request)
  IN  IF Malformed(h, request) THEN Broken
      ELSE IF keys = {} THEN (IF h.kind \in Http /\ ~h.careful THEN Broken ELSE Nobody)
      ELSE LET key == CHOOSE k \in keys : TRUE
           IN  IF key \in DOMAIN h.knows THEN h.knows[key] ELSE Nobody

\* _authenticate_action: the first answer that is not None.
BugAuthenticated(schemes, request) == \* mutant: only the first scheme is asked
  IF schemes = <<>> THEN Nobody ELSE Identify(SchemeAt(schemes, 1), request)
Authenticated(schemes, request) ==
  LET answer(i) == Identify(SchemeAt(schemes, i), request)
      answering == {i \in Registered(schemes) : answer(i) # Nobody}
  IN  IF answering = {} THEN Nobody ELSE answer(Min(answering))

-----------------------------------------------------------------------------
\* hash: minus one hashes as minus two.
Hash(requirement) == IF requirement = -1 THEN -2 ELSE requirement

\* BasePolicyHandlerWithRequirement.__class_getitem__: one table for all the
\* classes, filled in the order in which policies are declared.
ClassFor(policy, made) ==
  made[Min({i \in DOMAIN made : Hash(made[i].requirement) = Hash(policy.requirement)})]

\* The handle of the policies; both operands are always handled.
Meets(policy, user) ==
  CASE policy.class = "AtLeast" -> user.level >= policy.requirement
    [] policy.class = "Exactly" -> user.level = policy.requirement
Needs(policy) == {p \in ToSet(policy) : p.op = "needs"}
Combined(policy, user, met) ==
  LET holds[k \in DOMAIN policy] ==
        LET p == policy[k]
        IN  CASE p.op = "roles"  -> p.roles \subseteq user.roles
              [] p.op = "claims" -> p.values \cap user.claims # {}
              [] p.op = "needs"  -> p \in met
              [] p.op = "and"    -> holds[p.left] /\ holds[p.right]
              [] p.op = "or"     -> holds[p.left] \/ holds[p.right]
              [] p.op = "not"    -> ~holds[p.left]
  IN  holds[Len(policy)]
Holds(policy, user, made) ==
  Combined(policy, user, {p \in Needs(policy) : Meets(ClassFor(p, made), user)})

\* AuthorizationInterceptor.intercept
Authorized(user, policies, made) ==
  IF user.id \in {Nobody, Unnamed} THEN 401
  ELSE IF \E i \in DOMAIN policies : ~Holds(policies[i], user, made) THEN 403
  ELSE 200

\* EllarInterceptorConsumer.execute: one that does not call the next stops.
Intercepted(interceptors, user, policies, made) ==
  LET verdict(i) == CASE interceptors[i] = "authorize" -> Authorized(user, policies, made)
                      [] interceptors[i] = "pass"      -> 200
                      [] interceptors[i] = "stop"      -> 299
      stopping == {i \in DOMAIN interceptors : verdict(i) # 200}
  IN  IF stopping = {} THEN 200 ELSE verdict(Min(stopping))

\* IdentityMiddleware, then GuardConsumer, then the interceptors: the status of
\* the answer, 299 for one of an interceptor that stopped.  What a scheme raises is
\* a 500, for IdentityMiddleware is outside ExceptionMiddleware.
Enter(route, schemes, users, request) ==
  LET who == Authenticated(schemes, request)
      guards == InForce(route.handler.guards, route.class.guards, route.application.guards)
      interceptors == InForce(route.handler.interceptors, route.class.interceptors,
                              route.application.interceptors)
      policies == InForce(route.handler.policies, route.class.policies, <<>>)
  IN  IF who = Broken THEN 500
      ELSE IF \E i \in DOMAIN guards : guards[i] = "refuses" THEN 403
      ELSE Intercepted(interceptors, users[who], policies, route.made)

-----------------------------------------------------------------------------
(***************************************************************************)
(* What should decide: whom the schemes know, each by its own part of the  *)
(* request, and every guard, interceptor and policy that is nearest to the *)
(* handler, each policy by the handler of its own class.  The nearest take *)
(* the place of all further out, as docs/overview/guards.md:104 and :107   *)
(* say, and not the handler's beside its controller's, as guards.py:20     *)
(* can be read.                                                            *)
(***************************************************************************)
OwnWords == {<<"bearer", "bearer">>, <<"basic", "basic">>, <<"basic", NoWord>>}
OwnKeys(h, request) ==
  IF h.kind \in Http
  THEN {c.key : c \in {c \in request.authorization : <<h.kind, c.scheme>> \in OwnWords}}
  ELSE request[h.kind]

\* Whom a scheme knows; and the first of them who is anybody.
KnownBy(h, request) == {h.knows[k] : k \in OwnKeys(h, request) \cap DOMAIN h.knows}
Known(schemes, request) ==
  LET knowing == {i \in DOMAIN schemes : KnownBy(schemes[i], request) # {}}
  IN  IF knowing = {} THEN {} ELSE KnownBy(schemes[Min(knowing)], request)

Nearest(route, what) ==
  LET own == route.handler[what] class == route.class[what]
  IN  IF own # {} THEN UNION {ToSet(l) : l \in own} ELSE UNION {ToSet(l) : l \in class}

Complies(policy, user) == Combined(policy, user, {p \in Needs(policy) : Meets(p, user)})

RightlyEntered(route, schemes, users, request) ==
  LET known == Known(schemes, request)
      run(what) == IF Nearest(route, what) # {} THEN Nearest(route, what)
                   ELSE ToSet(route.application[what])
      enters == /\ "refuses" \notin run("guards")
                /\ "stop" \notin run("interceptors")
                /\ "authorize" \in run("interceptors") =>
                     \E id \in known : \A p \in Nearest(route, "policies") : Complies(p, users[id])
  IN  (Enter(route, schemes, users, request) = 200) = enters

\* Where the code is known to do something else (README, section 5): two schemes of
\* one name, two requirements of one hash.
Entangled(route, schemes) ==
  \/ \E i, j \in DOMAIN schemes : i # j /\ schemes[i].scheme = schemes[j].scheme
  \/ \E p, q \in ToSet(route.made) : /\ Hash(p.requirement) = Hash(q.requirement)
                                    /\ <<p.class, p.requirement>> # <<q.class, q.requirement>>

\* And where it turns away whom it might let in: the first scheme that answers
\* raises, or takes the user for one who is nobody.
TurnedAway(route, schemes, users, request) ==
  LET who == Authenticated(schemes, request) status == Enter(route, schemes, users, request)
  IN  (who = Broken /\ status = 500) \/ (who = Unnamed /\ status = 401)
=============================================================================
