---------------------------- MODULE MCAlgorithms ----------------------------
(***************************************************************************)
(* The algorithms of the framework for TLC: values for Decisions, and the  *)
(* other algorithms, each tried on a small set of inputs in the same way.  *)
(***************************************************************************)
EXTENDS Providers, Controllers, Decisions

-----------------------------------------------------------------------------
\* Pairs of parameters of an endpoint, and requests to it.
Arg(name, form, kind, type, default, alias, embed) ==
  [name |-> name, form |-> form, kind |-> kind, type |-> type, default |-> default, alias |-> alias,
   embed |-> embed,
   fields |-> IF type = "model" THEN <<[name |-> "a", type |-> "scalar", default |-> "required"],
                                       [name |-> "b", type |-> "list", default |-> "value"]>> ELSE <<>>]

Given == {Arg("a", "plain", "query", t, d, Unset, FALSE) : t \in {"scalar", "list"}, d \in {"required", "value"}}
    \cup {Arg("b", "default", k, "scalar", d, al, FALSE) :
            k \in {"path", "query", "header", "cookie", "body", "form", "file"}, d \in {"required", "none"},
            al \in {Unset, "a"}}
    \cup {Arg("c", "default", k, "model", "required", Unset, FALSE) : k \in {"query", "header", "form"}}
    \cup {Arg("a", "default", "body", "scalar", "value", Unset, e) : e \in BOOLEAN}
    \cup {Arg("a", "short", k, "scalar", "required", Unset, FALSE) : k \in {"header", "body", "form"}}

Places == UNION {[D -> {"ok", "bad"}] : D \in SUBSET {Key("a"), Key("b")}}
Sent(is) == [is |-> is, has |-> <<>>]
Object(g) == [is |-> "object", has |-> g]
MCReceived ==
  {[content |-> IF j.is = "none" THEN "form" ELSE "json", json |-> j, path |-> g, query |-> g,
    form |-> IF j.is = "none" THEN g ELSE <<>>, cookie |-> g,
    header |-> [n \in {Key("a"), Dashed("b")} |-> "ok"]] :
     j \in {Sent("none"), Sent("malformed"), Sent("valid"), Sent("null"), Object(<<>>)}, g \in Places}
  \cup {[content |-> "json", json |-> Object(g), path |-> <<>>, query |-> <<>>, form |-> <<>>,
         cookie |-> h, header |-> h] : g \in Places, h \in Places}
  \cup {[content |-> "form", json |-> Sent("none"), path |-> h, query |-> h, form |-> h,
         cookie |-> h, header |-> h] : h \in [{Key("a"), Key("b")} -> {"", "ok"}]}

Unreadable == {Arg("c", "default", k, "list", "none", Unset, FALSE) : k \in {"cookie", "body"}}
MCEndpoints ==
  {e \in [params : {<<p, q>> : p \in Given, q \in Given \cup Unreadable}, path : {{}, {"a"}}] :
     /\ e.params[1].name # e.params[2].name
     /\ \A i \in 1..2 : Accepted(e.params[i], e.path)}

-----------------------------------------------------------------------------
\* Two mounts, whose routes may hide one another, and requests.  "~" comes after
\* the mark of a parameter.
Declarations(D, M) ==
  {d \in [id : {1}, decorator : M, methods : {{"GET", "PUT"}, {"GET", "CONNECT"}}, path : D,
          versions : {{}, {"1"}}] : Declarable(d) /\ (d.decorator = "http_route" \/ "PUT" \in d.methods)}
MCTables ==
  LET all == Declarations({<<"a">>, <<Param>>, <<"a", Param>>}, {"GET", "http_route"})
             \cup Declarations({<<"~">>}, {"GET"})
  IN  {<<[path |-> <<>>, versions |-> v, routes |-> <<[d EXCEPT !.id = 1], [e EXCEPT !.id = 2]>>],
         [path |-> p, versions |-> {"2"}, routes |-> <<[f EXCEPT !.id = 3]>>]>> :
       p \in {<<>>, <<"a">>}, v \in {{}, {"2"}}, d \in all, e \in all,
       f \in Declarations({<<"a">>, <<Param>>}, {"GET"})}
MCCode == ("a" :> 1) @@ ("b" :> 2) @@ (Param :> 3) @@ ("~" :> 4)
MCAsked == {[path |-> p, method |-> m, version |-> v] :
             p \in {<<"a">>, <<"~">>, <<"a", "b">>}, m \in {"GET", "PUT"}, v \in {Undeclared, "1", "2"}}

-----------------------------------------------------------------------------
\* Declared responses, and what a handler returns.
Json(accepted)   == [kind |-> "json", accepts |-> accepted]
ModelOf == {Json({"data"}), Json({"object", "data"}), Json({"text"}), [kind |-> "text", accepts |-> {}],
           [kind |-> "stream", accepts |-> {}], [kind |-> "file", accepts |-> {"data"}], [kind |-> "html", accepts |-> {}]}
MCModels == UNION {[S -> ModelOf] : S \in SUBSET {200, 201, Ellipsis}}
MCOverrides == {<<>>} \cup [{200} -> ModelOf]
MCReturned == [status : {NoPair, 200, 201, 404}, content : {"data", "object", "text", "generator"}]
         \cup [status : {NoPair}, content : {"response"}]
MCInjected == {Unasked, Untouched, 202}

-----------------------------------------------------------------------------
\* Two schemes, guards and interceptors on three levels, and requests.
Need(class, n) == [op |-> "needs", class |-> class, requirement |-> n]
MCPolicies == {<<[op |-> "roles", roles |-> {"admin"}]>>, <<[op |-> "claims", values |-> {"read", "write"}]>>,
               <<Need("AtLeast", 1), Need("Exactly", 3), [op |-> "not", left |-> 2], [op |-> "and", left |-> 1, right |-> 3]>>,
               <<Need("AtLeast", -1), Need("Exactly", -2), [op |-> "or", left |-> 1, right |-> 2]>>,
               <<Need("AtLeast", 2)>>, <<Need("Exactly", 2)>>}
MCUsers == [id \in {Nobody, Unnamed, "ada"} |-> [id |-> id, level |-> 2, roles |-> {"admin"}, claims |-> {"read"}]]
Knows(owner) == [k \in {"good"} |-> owner]
Scheme(name, kind, knows, careful) == [scheme |-> name, kind |-> kind, knows |-> knows, careful |-> careful]
SchemeOf == {Scheme(n, k, o, TRUE) : n \in {"one", "two"}, k \in SchemeKinds, o \in {Knows("ada"), Knows(Unnamed), <<>>}}
      \cup {Scheme("one", k, Knows("ada"), FALSE) : k \in Http}
Sends == {[query |-> q, cookie |-> {}, header |-> h, authorization |-> a] :
            q, h \in {{}, {"good"}},
            a \in {{}} \cup {{[scheme |-> s, key |-> k]} : s \in Http \cup {"digest", NoWord}, k \in {"good", "garbled"}}}
Layers(guards, interceptors, policies) ==
  [guards : guards, interceptors : interceptors, policies : policies]
Of(layer) == FlattenSeq(SetToSeq({FlattenSeq([i \in DOMAIN l |-> SetToSeq(Needs(l[i]))]) : l \in layer.policies}))
Route(h, c, a) == [handler |-> h, class |-> c, application |-> a, made |-> Of(h) \o Of(c)]
Guarded ==
  LET lists == {{}} \cup {{<<p>>} : p \in MCPolicies}
  IN  {Route(h, c, a) :
         h \in Layers({{}, {<<>>}, {<<"allows">>}}, {{}, {<<"authorize">>}, {<<"pass", "authorize">>}}, lists),
         c \in Layers({{}, {<<"allows", "refuses">>}}, {{}, {<<"authorize">>}, {<<"pass", "stop">>}}, lists),
         a \in Layers({<<>>, <<"refuses">>}, {<<>>, <<"authorize">>}, {<<>>})}
Openly == LET layer(i) == [guards |-> {}, interceptors |-> i, policies |-> {}]
          IN  Route(layer({<<"authorize">>}), layer({}), [guards |-> <<>>, interceptors |-> <<>>, policies |-> <<>>])
MCApps ==
  {[routes |-> {Openly}, schemes |-> <<h, k>>, requests |-> Sends] : h, k \in SchemeOf}
  \cup {[routes |-> Guarded, schemes |-> <<Scheme("one", "query", Knows("ada"), TRUE)>>,
         requests |-> {s \in Sends : s.authorization = {} /\ s.header = {}}]}

-----------------------------------------------------------------------------
\* Two mounts of routes with up to two parameters, to be documented.
Pairs == {<<>>} \cup {<<p, q>> : p \in Given, q \in Given \cup Unreadable}
Guard(name, scheme) == [name |-> name, scheme |-> scheme]
Endpoint(i, path, params, methods, responses, guards, shown) ==
  [id |-> i, path |-> path, methods |-> methods, inPath |-> ToSet(path) \ {"x"}, params |-> params,
   responses |-> responses, override |-> <<>>, guards |-> guards, shown |-> shown]
Mount(path, guards, routes) ==
  [path |-> path, inPath |-> ToSet(path) \ {"x"}, guards |-> guards, shown |-> TRUE, routes |-> routes]
Acceptable(ps, path) ==
  /\ Len(ps) = 2 => ps[1].name # ps[2].name
  /\ \A i \in DOMAIN ps : Accepted(ps[i], ToSet(path) \ {"x"})
Application(at, g, path, ps, own, also) ==
  [mounts |-> <<Mount(at, g, <<Endpoint(1, path, ps, {"GET", "PUT"}, [s \in {200, 201, 422} |-> Json({"data"})], own, TRUE),
                               Endpoint(2, <<"x">>, <<>>, {"GET", "OPTIONS"}, <<>>, {}, also)>>),
                Mount(at, {}, <<Endpoint(3, <<"x", "x">>, ps, {"OPTIONS"}, <<>>, {}, ~also)>>)>>,
   guards |-> <<Guard("j", "app")>>]
MCDocumented ==
  LET paths == {<<"x">>, <<"a">>} ats == {<<>>, <<"b">>, <<"c", "x">>}
      known == {{}, {<<>>}, {<<Guard("h", Unset), Guard("i", "jwt")>>}}
  IN  {Application(at, {}, e.path, e.params, {}, TRUE) :
         at \in ats, e \in {e \in [path : paths, params : Pairs] : Acceptable(e.params, e.path)}}
        \cup {Application(at, g, path, <<>>, own, also) :
                at \in ats, path \in paths, g \in known, own \in known \cup {{<<Guard("g", "key")>>}}, also \in BOOLEAN}

-----------------------------------------------------------------------------
\* A module under test, its root, and two modules the root imports, one of which
\* may import the other as well.
Provider(base, use, value, scope) == [base |-> base, use |-> use, value |-> value, scope |-> scope]
Foo    == <<Provider("IFoo", "Foo", No, No)>>
ReqFoo == <<Provider("IFoo", "ReqFoo", No, Transient), Provider("Other", No, No, Transient)>>
Valued == <<Provider("Other", No, No, No), Provider("IFoo", No, "value", No)>>
Falsy  == <<Provider("IFoo", No, "falsy", No), Provider("ICore", No, "core", No)>>
Mock   == <<Provider("IFoo", No, "mock", No)>>
Setup(module, how, ps, inject) == [module |-> module, how |-> how, providers |-> ps, inject |-> inject]
SetupsOf(m) == {Plainly(m)}
          \cup {Setup(m, how, ps, <<>>) : how \in {"dynamic", "setup"}, ps \in {<<>>, Foo}}
          \cup {Setup(m, how, Foo, <<"IFoo", "Other">>) : how \in {"factory", "app"}}
AProvider ==
  \E sa \in SetupsOf("a"), sb \in SetupsOf("b"), first \in BOOLEAN, auto \in BOOLEAN,
     da, dr \in {<<>>, Valued}, db \in {ReqFoo, Falsy}, override, hook \in {<<>>, Mock} :
    \E below \in {<<>>, <<sb>>, <<Plainly("b")>>} :
      case' = <<"provider", CreateApplication(
        [root     |-> "root", auto |-> auto,
         imports  |-> [root |-> IF first THEN <<sa, sb>> ELSE <<sb, sa>>, a |-> below, b |-> <<>>],
         declares |-> [root |-> dr, a |-> da, b |-> db],
         hooks    |-> [root |-> <<>>, a |-> hook, b |-> <<>>],
         needs    |-> [root |-> <<>>, a |-> <<>>, b |-> <<"IFoo", "Other">>]], override)>>

\* Three classes, each of which may be derived from one before it.
ClassOf(name, parents, bases, controllers, above) ==
  [name : {name}, parent : parents, base : bases, routes : {<<>>, <<name>>}, below : {<<>>, <<"inner">>},
   controller : controllers, above : above]
AController ==
  \E a \in ClassOf("a", {NoParent}, BOOLEAN, BOOLEAN, {<<>>, <<"outer">>}),
     b \in ClassOf("b", {NoParent, "a"}, BOOLEAN, BOOLEAN, {<<>>, <<"outer">>}),
     c \in ClassOf("c", {NoParent, "a", "b"}, {FALSE}, {TRUE}, {<<"outer">>}) :
    case' = <<"controller", <<a, b, c>> >>

-----------------------------------------------------------------------------
\* Passwords that were set and are tried, under settings of before and of now: an
\* algorithm of the application's own may come or go, and a cost may change.
Words(head, tail, bytes) == [head |-> head, tail |-> tail, bytes |-> bytes]
MCWord == {NoPassword, Words("h", "t", FALSE), Words("h", "t", TRUE), Words("h", "u", FALSE), Words("i", "t", FALSE)}
MCAlgorithm == {"pbkdf2_sha256", "argon2", "bcrypt", "scrypt", "md5", "own"}
Defaults == [a \in MCAlgorithm \ {"own"} |-> 1]
MCSettings == {Defaults} \cup {AddHasher(Defaults, a, 2) : a \in MCAlgorithm}
MCSalt == {Random, "weak", "strong", "dollar", "name"}

-----------------------------------------------------------------------------
AlgorithmNext ==
  \/ /\ case = <<"none">>
     /\ Decide \/ AProvider \/ AController
  \/ case # <<"none">> /\ NoCase

-----------------------------------------------------------------------------
\* A type is served by the provider of the outermost module that declares it,
\* a test's overrides first, in the scope its class declares; but for Outrun.
ProviderChosen == case[1] = "provider" => ProvidedRightly(case[2])

\* Each class under @Controller serves its own and its bases' routes once, behind
\* its own guards, whether they are applied below or above @Controller.  Instead a
\* file raises when it is imported exactly if a route would be under two
\* controllers (Reused) or a class without a mark has bases with metadata
\* (Unmarked); and a class whose base was made a controller without ControllerBase
\* (Unprocessed) may be refused where routes are built.
ControllersServe == case[1] = "controller" => ControlledRightly(case[2])
=============================================================================
