-------------------------------- MODULE OpenApi --------------------------------
(***************************************************************************)
(* The OpenAPI document of an application: which routes it describes, and  *)
(* for each the parameters, the body, the responses and the security.      *)
(*                                                                         *)
(* A route is a record [id, path, methods, inPath, params, responses,      *)
(* override, guards, shown]: params as in Parameters, responses and        *)
(* override as in Responses, and guards a set of at most one list of       *)
(* guards [name, scheme].  A mount is [path, inPath, guards, routes,       *)
(* shown].                                                                 *)
(***************************************************************************)
EXTENDS Parameters, Responses, Access

WithBody == {"GET", "HEAD", "POST", "PUT", "DELETE", "PATCH"}

\* get_convertor_model_field
PathField(name) == [name |-> name, alias |-> Key(name), kind |-> "path", default |-> "required"]

Fields(route) == [i \in DOMAIN route.params |-> FieldOf(route.params[i], route.inPath)]

\* input_fields: the parameters of the mount, those the endpoint reads, and those
\* of the path that it does not, as sets in this order; the fields of one set have
\* different names.
BugInputFields(route, mount) == \* mutant: the model of a group is taken for a parameter
  [i \in DOMAIN route.params |->
     IF In(Fields(route)[i].kind) = "body" THEN {} ELSE {Fields(route)[i]}]
    \o <<{PathField(n) : n \in route.inPath \cup mount.inPath}>>
InputFields(route, mount) ==
  LET of(kind) == [i \in DOMAIN route.params |->
                     IF Fields(route)[i].kind = kind THEN Parts(Fields(route)[i]) ELSE {}]
      named(names) == {PathField(n) : n \in names}
      read  == <<named(mount.inPath)>> \o of("header") \o of("path") \o of("query") \o of("cookie")
      taken == {f.name : f \in UNION ToSet(read)} \cup {p.name : p \in ToSet(route.params)}
  IN  read \o <<named(route.inPath \ taken)>>

\* get_openapi_operation_parameters: one for each name, the last one.
OperationParameters(fields) ==
  LET last(a)  == fields[Max({i \in DOMAIN fields : \E f \in fields[i] : f.alias = a})]
      shown(a) == CHOOSE f \in last(a) : f.alias = a
  IN  [a \in {f.alias : f \in UNION ToSet(fields)} |->
         [in |-> shown(a).kind, required |-> shown(a).default = "required"]]

\* build_body_field, get_openapi_operation_request_body
RequestBody(route) ==
  LET bodies == {f \in ToSet(Fields(route)) : In(f.kind) = "body"}
      last   == CHOOSE f \in bodies : \A g \in bodies : Media(g.kind) <= Media(f.kind)
  IN  IF bodies = {} THEN {}
      ELSE {[media |-> last.kind, required |-> \E f \in bodies : f.default = "required"]}

\* _get_openapi_security_scheme
Schemes(guards) == {g.scheme : g \in ToSet(guards)} \ {Unset}

\* The keys of the declared responses are numbers; that of the validation error
\* is a string, and as strings the last one is kept.
OperationResponses(route, validated) ==
  LET models == ModelsOf(route.responses, route.override)
  IN  [s \in DOMAIN models \cup (IF validated THEN {422} ELSE {}) |->
         IF s = 422 /\ validated THEN [kind |-> "validation", accepts |-> {}] ELSE models[s]]

\* The guards of the route, or those of the mount, or those of the application;
\* a list without guards counts as none.
GuardsShown(route, mount, application) == InForce(route.guards \ {<<>>}, mount.guards \ {<<>>}, application)

\* _get_openapi_path_object
Operation(route, mount, method, application) ==
  LET fields == InputFields(route, mount)
      body   == RequestBody(route)
  IN  [id         |-> route.id,
       parameters |-> OperationParameters(fields),
       body       |-> IF method \in WithBody THEN body ELSE {},
       security   |-> Schemes(GuardsShown(route, mount, application)),
       responses  |-> OperationResponses(route, UNION ToSet(fields) # {} \/ body # {})]

\* _get_openapi_route_document_models: where the routes are that are described.
Shown(mounts) ==
  {at \in UNION {{i} \X DOMAIN mounts[i].routes : i \in DOMAIN mounts} :
     mounts[at[1]].shown /\ mounts[at[1]].routes[at[2]].shown}
RouteAt(mounts, at) == mounts[at[1]].routes[at[2]]
Keys(mounts, at) ==
  {mounts[at[1]].path \o RouteAt(mounts, at).path} \X RouteAt(mounts, at).methods
Follows(at, other) == at[1] > other[1] \/ (at[1] = other[1] /\ at[2] > other[2])

\* get_openapi_path: what is described later replaces what has the same path and
\* method.
Document(mounts, application) ==
  LET described(k) == {at \in Shown(mounts) : k \in Keys(mounts, at)}
      last(k) == CHOOSE at \in described(k) : \A other \in described(k) : ~Follows(other, at)
  IN  [k \in UNION {Keys(mounts, at) : at \in Shown(mounts)} |->
         Operation(RouteAt(mounts, last(k)), mounts[last(k)[1]], k[2], application)]

-----------------------------------------------------------------------------
(***************************************************************************)
(* What the document should say: a request with everything the endpoint    *)
(* can take is read from the parameters and the body it shows.             *)
(***************************************************************************)
Everything(route, mount) ==
  LET fields == ToSet(Fields(route))
      bodies == {f \in fields : In(f.kind) = "body"}
      got    == [a \in {g.alias : g \in fields \cup UNION {Parts(f) : f \in fields}} |-> "ok"]
      whole  == Cardinality(bodies) = 1 /\ \A f \in bodies : ~f.embed
      json   == bodies # {} /\ \A f \in bodies : f.kind # "file" /\ \E g \in bodies : g.kind = "body"
  IN  [content |-> IF json THEN "json" ELSE "form",
       json    |-> IF whole THEN [is |-> "valid", has |-> <<>>] ELSE [is |-> "object", has |-> got],
       path    |-> [a \in {Key(n) : n \in route.inPath \cup mount.inPath} |-> "ok"],
       query |-> got, header |-> got, cookie |-> got, form |-> IF json THEN <<>> ELSE got]

Result(route, mount)  == ResolveDependencies(route.params, route.inPath, Everything(route, mount))
Sources(route, mount) ==
  LET values == Result(route, mount).values
  IN  {<<t[3], t[2]>> : t \in UNION {values[n] : n \in DOMAIN values}}

InBody(source) == source[2] \in {"body", "form", "file"}
ShownPlaces(route, mount) ==
  {<<Key(n), "path">> : n \in mount.inPath \cup route.inPath}
    \cup {s \in Sources(route, mount) : ~InBody(s)}

\* Two parameters that go by one name in different places are shown as one.
OneByName(places) == \A p, q \in places : p[1][2] = q[1][2] => p = q

\* Where the code is known to do something else (README, section 5): what Unusual
\* says, and an alias for a name of the path.
Misread(route, mount) ==
  \E p \in ToSet(route.params) :
    \/ Unusual(p, route.params, route.inPath, Everything(route, mount))
    \/ p.name \in route.inPath /\ FieldOf(p, route.inPath).alias # Key(p.name)

\* An endpoint that refuses even this request has nothing to be compared with.
ReadRightly(op, route, mount, method) ==
  \/ Misread(route, mount) \/ Result(route, mount).errors
  \/ /\ LET places == ShownPlaces(route, mount)
        IN  OneByName(places) => {<<a, op.parameters[a].in>> : a \in DOMAIN op.parameters} = places
     /\ method \in WithBody => (op.body # {}) = (\E s \in Sources(route, mount) : InBody(s))

DescribedRightly(mounts, application) ==
  \A at \in Shown(mounts) : \A k \in Keys(mounts, at) :
    LET route == RouteAt(mounts, at) mount == mounts[at[1]]
        op == Document(mounts, application)[k]
        models == ModelsOf(route.responses, route.override)
    IN  \/ \E other \in Shown(mounts) : Follows(other, at) /\ k \in Keys(mounts, other)
        \/ /\ op.id = route.id
           /\ ReadRightly(op, route, mount, k[2])
           /\ <<>> \notin route.guards => op.security = Schemes(InForce(route.guards, mount.guards, application))
           /\ \A s \in DOMAIN models \ {422} : op.responses[s] = models[s]
=============================================================================
