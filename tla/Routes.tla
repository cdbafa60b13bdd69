------------------------------- MODULE Routes -------------------------------
(***************************************************************************)
(* Which route answers a request: the operations that the decorators       *)
(* declare, the collections that hold and sort them, the version of the    *)
(* request, and the match over the router and the mounts of controllers    *)
(* and module routers.                                                     *)
(*                                                                         *)
(* A path is a sequence of segments, "{}" for a parameter.  A request says *)
(* of its version what it does, or Undeclared.                             *)
(***************************************************************************)
EXTENDS Integers, Sequences, SequencesExt, FiniteSets

CONSTANT Code \* the order of the segments as strings: segment -> number

Undeclared == "None" \* str(None): no version, and no default version
NotSet     == "NOT_SET"
Param      == "{}"

ASSUME CodeAssumption ==
  Code \in [DOMAIN Code -> Nat] /\ IsInjective(Code) /\ Param \in DOMAIN Code

Path        == Seq(DOMAIN Code)
Declaration == [id : Nat, decorator : STRING, methods : SUBSET STRING, path : Path,
                versions : SUBSET STRING]
Mounted     == [path : Path, versions : SUBSET STRING, routes : Seq(Declaration)]
Asking      == [path : Path, method : STRING, version : STRING \ {NotSet}]

\* OperationDefinitions: a decorator per method, and http_route for several.
RouteMethods == {"POST", "PUT", "PATCH", "DELETE", "GET", "HEAD", "OPTIONS", "TRACE"}
Methods(d) == IF d.decorator = "http_route" THEN d.methods ELSE {d.decorator}
Declarable(d) == Methods(d) \subseteq RouteMethods

-----------------------------------------------------------------------------
\* RouteCollection: routes are served in the order of their paths as strings,
\* where a path comes before those it begins; the sort is stable.
Precedes(p, q) ==
  \E k \in 1..Len(q) :
    /\ \A i \in 1..(k - 1) : i <= Len(p) /\ p[i] = q[i]
    /\ k <= Len(p) => Code[p[k]] < Code[q[k]]
Earlier(routes, i) ==
  {j \in DOMAIN routes : \/ Precedes(routes[j].path, routes[i].path)
                         \/ routes[j].path = routes[i].path /\ j < i}
InPlace(routes, k) == CHOOSE i \in DOMAIN routes : Cardinality(Earlier(routes, i)) = k - 1
BugServed(routes) == routes \* mutant: the collection is not sorted
Served(routes) == [k \in DOMAIN routes |-> routes[InPlace(routes, k)]]

-----------------------------------------------------------------------------
\* resolve_version of the resolvers, with the default that was configured.
Resolved(scheme, default, request) ==
  IF scheme = "none" THEN NotSet
  ELSE IF request.version # Undeclared THEN request.version ELSE default

\* get_allowed_version: those of the endpoint, or else of its controller.
Allowed(d, mount) == IF d.versions # {} THEN d.versions ELSE mount.versions

\* can_activate
Activates(allowed, version, default) ==
  \/ version = NotSet
  \/ allowed = {} /\ version = default
  \/ version \in allowed

-----------------------------------------------------------------------------
PathFits(path, segments) ==
  /\ Len(path) = Len(segments)
  /\ \A i \in DOMAIN path : path[i] = Param \/ path[i] = segments[i]

Leads(path, segments) ==
  Len(path) <= Len(segments) /\ PathFits(path, SubSeq(segments, 1, Len(path)))
Below(path, segments) == SubSeq(segments, Len(path) + 1, Len(segments))

\* RouteOperationBase.matches: how the route matches, and whether the version
\* was asked for.
Matches(d, mount, segments, request, version, default) ==
  IF ~PathFits(d.path, segments) THEN "none"
  ELSE IF request.method \notin Methods(d) THEN "partial"
  ELSE IF Activates(Allowed(d, mount), version, default) THEN "full"
  ELSE "none"

\* Where the first full match is, or else the first partial one, or 0.
First(how) ==
  LET at(h) == {i \in DOMAIN how : how[i] = h}
  IN  IF at("full") # {} THEN Min(at("full"))
      ELSE IF at("partial") # {} THEN Min(at("partial"))
      ELSE 0

\* ModuleMount.matches: only when one of its routes matches.
NoMatch == [match |-> "none"]
MountMatches(mount, request, version, default) ==
  LET segments == Below(mount.path, request.path)
      routes   == Served(mount.routes)
      how      == [i \in DOMAIN routes |-> Matches(routes[i], mount, segments, request, version, default)]
      first    == First(how)
  IN  IF Leads(mount.path, request.path) /\ first # 0
      THEN [match |-> how[first], route |-> routes[first]] ELSE NoMatch

\* The version of a route was refused, and nothing else was found.
VersionRefused(mounts, request, version, default) ==
  \E i \in DOMAIN mounts : \E j \in DOMAIN mounts[i].routes :
    LET m == mounts[i] d == m.routes[j]
    IN  /\ PathFits(m.path \o d.path, request.path)
        /\ request.method \in Methods(d)
        /\ ~Activates(Allowed(d, m), version, default)

\* Router.app and its default: what a request is answered with.
Routed(mounts, scheme, default, request) ==
  LET version == Resolved(scheme, default, request)
      table   == Served(mounts)
      matched == [i \in DOMAIN table |-> MountMatches(table[i], request, version, default)]
      first   == First([i \in DOMAIN table |-> matched[i].match])
  IN  IF first = 0
      THEN [status |-> IF VersionRefused(mounts, request, version, default) THEN 406 ELSE 404, id |-> 0]
      ELSE IF matched[first].match = "full" THEN [status |-> 200, id |-> matched[first].route.id]
      ELSE [status |-> 405, id |-> 0]

-----------------------------------------------------------------------------
(***************************************************************************)
(* What the answer should be: a route that fits is never hidden by another *)
(* collection, by its place in the table or by a route of another version; *)
(* in its collection, a literal path wins over one with parameters if the  *)
(* strings of its segments come before that of a parameter; and what is    *)
(* refused is refused for the right reason.                                *)
(***************************************************************************)
\* As letters and digits come before "{", and "|", "}", "~" and all that is not
\* ASCII do not: such a route is hidden by a parameter (README, section 5).
BeforeParam(path) == \A s \in ToSet(path) : Code[s] < Code[Param]

RightAnswer(mounts, scheme, default, request) ==
  LET leaves == UNION {{<<i, d>> : d \in ToSet(mounts[i].routes)} : i \in DOMAIN mounts}
      path(l) == mounts[l[1]].path \o l[2].path
      onPath  == {l \in leaves : PathFits(path(l), request.path)}
      asked   == {l \in onPath : request.method \in Methods(l[2])}
      wanted  == Resolved(scheme, default, request)
      speaks(l) == LET own == Allowed(l[2], mounts[l[1]])
                   IN  scheme = "none" \/ (IF own = {} THEN wanted = default ELSE wanted \in own)
      good   == {l \in asked : speaks(l)}
      answer == Routed(mounts, scheme, default, request)
      refusal == IF onPath # asked THEN 405 ELSE IF asked # {} THEN 406 ELSE 404
  IN  IF good = {} THEN answer.status = refusal
      ELSE \E l \in good :
             /\ answer = [status |-> 200, id |-> l[2].id]
             /\ \A k \in good : k[1] = l[1] /\ BeforeParam(k[2].path) => Param \notin ToSet(l[2].path)
=============================================================================
