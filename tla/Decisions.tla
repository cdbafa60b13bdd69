------------------------------ MODULE Decisions ------------------------------
(***************************************************************************)
(* Six of the algorithms of the framework, each tried on any inputs: one   *)
(* action takes up an input, and the invariants compare what the algorithm *)
(* makes of it with what it should.                                        *)
(***************************************************************************)
EXTENDS Parameters, Routes, Responses, Access, OpenApi, Passwords

CONSTANTS Endpoints,  \* their parameters, and the names in their paths
          Received,   \* requests, as the resolvers read them
          Tables,     \* the mounts of an application
          Asked,      \* requests
          Versions,   \* default versions
          Models,     \* the responses that a route declares: status -> model
          Overrides,  \* those that stand in their place
          Returned,   \* what endpoints return
          Injected,   \* the status of the response object
          Policies,   \* what @Authorize may be given
          Users,      \* the identities: id -> identity
          Apps,       \* applications: their routes and schemes, and requests to them
          Documented, \* applications: their mounts and guards, as a document shows them
          Settings,   \* algorithms and their costs
          Word,       \* passwords, NoPassword among them
          Algorithm,  \* the names of algorithms
          Salt        \* salts

VARIABLE case \* <<"none">>, or the name of an algorithm and its input

Signature(ps) == ps \in Seq(Parameter) /\ \A i, j \in DOMAIN ps : ps[i].name = ps[j].name => i = j
ASSUME ParameterAssumption ==
  /\ \A e \in Endpoints : Signature(e.params)
  /\ \A r \in Received : r.content = "json" => r.form = <<>>

ASSUME RouteAssumption ==
  Tables \subseteq Seq(Mounted) /\ Asked \subseteq Asking /\ Versions \subseteq STRING \ {NotSet}

Status == 100..599
ASSUME ResponseAssumption ==
  /\ \A d \in Models : IsFiniteSet(DOMAIN d) /\ DOMAIN d \subseteq Status \cup {Ellipsis}
  /\ \A o \in Overrides : IsFiniteSet(DOMAIN o) /\ DOMAIN o \subseteq Status
  /\ \A r \in Returned : r.status \in Status \cup {NoPair}
  /\ Injected \subseteq Status \cup {Unasked, Untouched}

\* Every user has its own id; a policy was declared before it is asked, and the
\* class of each requirement made.
ASSUME AccessAssumption ==
  /\ Nobody \in DOMAIN Users /\ \A id \in DOMAIN Users : Users[id].id = id
  /\ \A app \in Apps :
       /\ app.schemes \in Seq(ToSet(app.schemes))
       /\ \A h \in ToSet(app.schemes) : /\ h.kind \in SchemeKinds
                                        /\ \A k \in DOMAIN h.knows : h.knows[k] \in DOMAIN Users \ {Nobody}
       /\ \A r \in app.requests : r \in AnyRequest /\ AtMostOne(r)
       /\ \A e \in app.routes :
            /\ e \in AnyRoute(Policies, UNION {Needs(p) : p \in Policies})
            /\ AtMostOne(e.handler) /\ AtMostOne(e.class)
            /\ \A p \in Nearest(e, "policies") : Needs(p) \subseteq ToSet(e.made)

\* What a document is made of: routes whose parameters were accepted.
ASSUME DocumentAssumption ==
  \A app \in Documented :
    /\ app.mounts \in Seq(ToSet(app.mounts))
    /\ \A m \in ToSet(app.mounts) :
         /\ m.routes \in Seq(ToSet(m.routes)) /\ \A a, b \in m.guards : a = b
         /\ \A route \in ToSet(m.routes) :
              Signature(route.params) /\ \A p \in ToSet(route.params) : Accepted(p, route.inPath)

-----------------------------------------------------------------------------
AParameters == \E e \in Endpoints, r \in Received : case' = <<"parameters", e.params, e.path, r>>

ARoute == \E t \in Tables, r \in Asked, s \in {"none", "header"}, d \in Versions :
   case' = <<"route", t, s, d, r>>

AResponse == \E d \in Models, o \in Overrides, r \in Returned, i \in Injected :
   case' = <<"response", d, o, r, i>>

AnAccess == \E app \in Apps : \E e \in app.routes, r \in app.requests :
   case' = <<"access", e, app.schemes, r>>

ADocument == \E app \in Documented : case' = <<"document", app.mounts, app.guards>>

APassword ==
  \E before, now \in Settings, owner, password \in Word, algorithm, preferred \in Algorithm, salt \in Salt :
    case' = <<"password", before, owner, algorithm, salt, now, password, preferred>>

Decide  == AParameters \/ ARoute \/ AResponse \/ AnAccess \/ ADocument \/ APassword
NoCase  == case' = <<"none">>

CaseInit == case = <<"none">>
CaseNext == Decide \/ NoCase
CaseSpec == CaseInit /\ [][CaseNext]_case

-----------------------------------------------------------------------------
\* The parameters of an endpoint get, from the place each was declared for, what
\* the request holds under its name or alias, else the default; and the request
\* is refused exactly when one that is required is missing or one is invalid; but
\* for Unusual.
ArgumentsBound ==
  case[1] = "parameters" =>
    LET ps == case[2] path == case[3]
    IN  \/ \E p \in ToSet(ps) : Unusual(p, ps, path, case[4])
        \/ ArgumentsFound(ps, path, case[4])

\* However mounts, path parameters, methods and versions overlap, a request
\* reaches an endpoint that is declared for it if there is one, and gets 404, 405
\* or 406 otherwise; one whose path has no parameter goes before its neighbours
\* that take one, but for a path with a segment that is not BeforeParam.
RouteChosen == case[1] = "route" => RightAnswer(case[2], case[3], case[4], case[5])

\* What a handler returns is sent under a status for which it was declared and
\* through the model of that status, or the call fails; but for the cases of
\* StatusLost.
ResponseSent ==
  case[1] = "response" =>
    \/ StatusLost(case[2], case[3], case[4], case[5])
    \/ SentAsDeclared(case[2], case[3], case[4], case[5])

\* An endpoint runs exactly for a user whom a scheme of the application knows by
\* its own part of the request, when the guards in force pass and the policies in
\* force hold in their Boolean meaning, whatever else the request carries and was
\* declared elsewhere: but for schemes of one name and requirements of one hash
\* (Entangled), and for who is TurnedAway, with a 500 or a 401, by a scheme that
\* raises for the credentials of another or knows nobody by name.
RightlyAdmitted ==
  case[1] = "access" =>
    \/ Entangled(case[2], case[3])
    \/ TurnedAway(case[2], case[3], Users, case[4])
    \/ RightlyEntered(case[2], case[3], Users, case[4])

\* The OpenAPI document has each endpoint that is shown, and no other, with the
\* parameters, the body, the responses and the security it is called with; but for
\* Misread.
DocumentRight == case[1] = "document" => DescribedRightly(case[2], case[3])

\* No login accepts a password but the one that was set, whatever the settings it
\* was hashed under, or changes the hash when it fails; and the password that was
\* set is accepted, raises nothing, and leaves a hash as the present settings make
\* it, which is made anew once: but where the hash is md5's with its name in the
\* salt, or the password is bytes and scrypt made the hash or is preferred
\* (Unlucky).
PasswordsChecked == case[1] = "password" =>
  LoggedInRightly(case[2], case[3], case[4], case[5], case[6], case[7], case[8])
=============================================================================
