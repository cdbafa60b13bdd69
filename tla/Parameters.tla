----------------------------- MODULE Parameters -----------------------------
(***************************************************************************)
(* How the arguments of an endpoint are found in a request: what each      *)
(* parameter of its signature is compiled to (common/params/args), and how *)
(* the resolvers read the request (common/params/resolvers).               *)
(*                                                                         *)
(* A declared parameter is a record [name, form, kind, type, default,      *)
(* alias, embed, fields]: form is "plain" for `a: T = default`, "default"  *)
(* for `a: T = Query(default)` and "short" for `a: Query[T, Query.P()]`;   *)
(* default is "required", "none" or "value"; fields are the fields of a    *)
(* "model", records [name, type, default].  What is received is a function *)
(* from the names that are present to "ok" (passes the validation), "bad"  *)
(* or "", and a value is the set of <<field, place, name>> it came from.   *)
(* A request has a form or JSON, and `content` says which; the form of a   *)
(* request with JSON is empty.                                             *)
(***************************************************************************)
EXTENDS Integers, Sequences, SequencesExt, FiniteSets

Unset == "none"

\* What may be declared: a plain parameter says nothing but its type and default,
\* and a model has fields.
ParameterKind == {"path", "query", "header", "cookie", "body", "form", "file"}
DefaultKind   == {"required", "none", "value"}
ModelField    == [name : STRING, type : {"scalar", "list"}, default : DefaultKind]
Parameter     ==
  {p \in [name : STRING, form : {"plain", "default", "short"}, kind : ParameterKind,
          type : {"scalar", "list", "model"}, default : DefaultKind, alias : STRING,
          embed : BOOLEAN, fields : Seq(ModelField)] :
     (p.form = "plain" => ~p.embed) /\ (p.type = "model" => p.fields # <<>>)}

\* ParamFieldInfo and its subclasses: the list a kind is kept in, and the
\* order of the media types as strings.
In(kind)    == IF kind \in {"body", "form", "file"} THEN "body" ELSE kind
BugMedia(kind) == \* mutant: sorted the other way
  CASE kind = "form" -> 3 [] kind = "body" -> 2 [] kind = "file" -> 1
Media(kind) == CASE kind = "form" -> 1 [] kind = "body" -> 2 [] kind = "file" -> 3
IsJson(f)   == f.kind = "body"

\* The alias of a header replaces the underscores of its name.
Dashed(name) == <<"dashed", name>>
Key(name)    == <<"name", name>>

\* A parameter of the path keeps its field info only if that is its default.
OwnInfo(p, path) == IF p.name \in path THEN p.form = "default" /\ p.kind = "path"
                                       ELSE p.form # "plain"

KindOf(p, path) ==
  IF p.name \in path THEN "path"
  ELSE IF p.form # "plain" THEN p.kind
  ELSE IF p.type = "scalar" THEN "query" ELSE "body"

\* get_parameter_field
FieldOf(p, path) ==
  LET kind == KindOf(p, path) own == OwnInfo(p, path)
  IN  [name    |-> p.name, kind |-> kind, type |-> p.type, fields |-> p.fields,
       alias   |-> IF own /\ p.alias # Unset THEN Key(p.alias)
                   ELSE IF kind = "header" THEN Dashed(p.name) ELSE Key(p.name),
       default |-> IF kind = "path" THEN "required" ELSE p.default,
       embed   |-> (own /\ p.embed) \/ kind \in {"form", "file"},
       listed  |-> p.form = "default" /\ kind \in {"query", "header", "form"},
       grouped |-> p.form = "default" /\ kind = "form"]

\* A model that is not the body is taken apart into its fields.
Bulk(f) == f.type = "model" /\ f.kind \notin {"body", "file"}
FieldAccepted(f, g) == g.type = "scalar" \/ (f.listed /\ g.type = "list")
Part(f, g) == [name |-> g.name, kind |-> f.kind, type |-> g.type,
               default |-> IF f.kind = "path" THEN "required" ELSE g.default,
               alias |-> IF f.kind = "header" THEN Dashed(g.name) ELSE Key(g.name)]
Parts(f)   == IF Bulk(f) THEN {Part(f, g) : g \in ToSet(f.fields)} ELSE {f}

Accepted(p, path) ==
  LET f == FieldOf(p, path)
  IN  \/ f.kind \in {"body", "file"}
      \/ f.type = "model" /\ p.name \notin path /\ \A g \in ToSet(f.fields) : FieldAccepted(f, g)
      \/ f.type = "scalar"
      \/ f.type = "list" /\ p.name \notin path

-----------------------------------------------------------------------------
\* What a resolver returns: the values by name, whether there were errors,
\* and whether it raised something nobody expects.
Values(vs) == [values |-> vs, errors |-> FALSE, crash |-> FALSE]
Give(name, value) == Values([n \in {name} |-> value])
Fail  == [values |-> <<>>, errors |-> TRUE, crash |-> FALSE]
Crash == [values |-> <<>>, errors |-> FALSE, crash |-> TRUE]
Together(rs) == \* of those that have a value for a name, the last
  LET having(n) == {i \in DOMAIN rs : n \in DOMAIN rs[i].values}
  IN  [values |-> [n \in UNION {DOMAIN rs[i].values : i \in DOMAIN rs} |-> rs[Max(having(n))].values[n]],
       errors |-> \E i \in DOMAIN rs : rs[i].errors,
       crash  |-> \E i \in DOMAIN rs : rs[i].crash]

Default      == {<<"", "default", Key("")>>}
From(f)      == {<<"", f.kind, f.alias>>}
OrDefault(f) == IF f.default = "required" THEN Fail ELSE Give(f.name, Default)

\* HeaderParameterResolver, QueryParameterResolver
ReadParameter(f, got) ==
  IF f.alias \notin DOMAIN got THEN OrDefault(f)
  ELSE IF got[f.alias] = "ok" THEN Give(f.name, From(f)) ELSE Fail

\* PathParameterResolver, CookieParameterResolver, and BodyParameterResolver on
\* a form: one value, and what is missing is validated as null, which only a null
\* default allows.
ReadOne(f, got) ==
  IF f.alias \notin DOMAIN got THEN (IF f.default = Unset THEN Give(f.name, Default) ELSE Fail)
  ELSE ReadParameter(f, got)
ReadValue(f, got) == IF f.alias \in DOMAIN got /\ f.type # "scalar" THEN Fail ELSE ReadOne(f, got)

\* FormParameterResolver: what is missing or empty and required is validated
\* as if the whole form were its value.
ReadForm(f, got) ==
  IF f.alias \in DOMAIN got /\ got[f.alias] # "" THEN ReadParameter(f, got)
  ELSE OrDefault(f)

\* BodyParameterResolver.get_request_body: only application/json and a body
\* without a content type are parsed; the rest is left as bytes.
Parsed(request) == IF request.content = "json" THEN request.json ELSE [is |-> "bytes", has |-> <<>>]

\* BodyParameterResolver next to a file, when the form is empty: the body of the
\* request is read once more, which ends in 400 if it was a form.
ReadAgain(f, json) == IF json.is = "object" THEN ReadOne(f, json.has) ELSE Fail

Read(f, request) ==
  CASE f.kind \in {"query", "header"} -> ReadParameter(f, request[f.kind])
    [] f.kind \in {"path", "cookie"}  -> ReadValue(f, request[f.kind])
    [] f.kind \in {"form", "file"}    -> ReadForm(f, request.form)
    [] f.kind = "body" -> IF request.form = <<>> THEN ReadAgain(f, Parsed(request)) ELSE ReadValue(f, request.form)

\* BulkParameterResolver: a field that is missing without a default reaches
\* the model as an undefined value, which the model refuses.
ReadParts(f, request) ==
  LET read  == [g \in ToSet(f.fields) |-> Read(Part(f, g), request)]
      names == {g.name : g \in ToSet(f.fields)}
  IN  IF \E g \in DOMAIN read : read[g].errors THEN Fail
      ELSE Give(f.name, UNION {{<<g.name, t[2], t[3]>> : t \in read[g].values[g.name]} : g \in DOMAIN read})

\* A form of shorthand is not grouped: its fields are returned as they are.
ReadUngrouped(f, request) ==
  LET read(g) == Read([Part(f, g) EXCEPT !.default = IF @ = "required" THEN "value" ELSE @], request)
  IN  Together([i \in DOMAIN f.fields |-> read(f.fields[i])])

Resolve(f, request) ==
  IF ~Bulk(f) THEN Read(f, request)
  ELSE IF f.kind = "form" /\ ~f.grouped THEN ReadUngrouped(f, request)
  ELSE ReadParts(f, request)

-----------------------------------------------------------------------------
\* BodyParameterResolver alone: the body is the value.
ReadWhole(f, json) ==
  CASE json.is = "malformed" -> Fail
    [] json.is = "null"      -> IF f.default = Unset THEN Give(f.name, Default) ELSE Fail
    [] json.is = "valid"     -> Give(f.name, {<<"", "body", Key("")>>})
    [] OTHER                 -> Fail

\* Several bodies, or one that is embedded, are members of one object; the
\* names of its fields are the aliases (request_model.py:79).
Member(f, got) ==
  LET as == [f EXCEPT !.name = f.alias[2]]
  IN  IF f.alias \notin DOMAIN got THEN OrDefault(as)
      ELSE IF got[f.alias] = "ok" THEN Give(as.name, {<<"", "body", f.alias>>}) ELSE Fail

ReadMembers(fs, json) ==
  CASE json.is = "object" -> Together([i \in DOMAIN fs |-> Member(fs[i], json.has)])
    [] json.is = "null" /\ \A f \in ToSet(fs) : f.default # "required" -> Crash
    [] OTHER -> Fail

\* build_body_field, resolve_body: the class of the combined field is that of
\* the last media type.
ReadBody(fs, request) ==
  LET last == CHOOSE f \in ToSet(fs) : \A g \in ToSet(fs) : Media(g.kind) <= Media(f.kind)
  IN  CASE DOMAIN fs = {} -> Values(<<>>)
        [] Cardinality(DOMAIN fs) = 1 /\ ~(IsJson(last) /\ last.embed) ->
             IF IsJson(last) THEN ReadWhole(last, Parsed(request)) ELSE Resolve(last, request)
        [] OTHER ->
             IF IsJson(last) THEN ReadMembers(fs, Parsed(request))
             ELSE Together([i \in DOMAIN fs |-> Resolve(fs[i], request)])

\* resolve_dependencies: when the body has errors, nothing else is looked at.
ResolveDependencies(ps, path, request) ==
  LET field(i) == FieldOf(ps[i], path)
      bodies == {i \in DOMAIN ps : In(field(i).kind) = "body"}
      body   == ReadBody([i \in bodies |-> field(i)], request)
      others == [i \in DOMAIN ps \ bodies |-> Resolve(field(i), request)]
  IN  IF body.errors \/ body.crash THEN body ELSE Together(<<body, Together(others)>>)

-----------------------------------------------------------------------------
(***************************************************************************)
(* What the documentation says of each parameter alone.                    *)
(***************************************************************************)
Bodies(ps, path) == {p \in ToSet(ps) : In(KindOf(p, path)) = "body"}

Place(p, ps, path) ==
  LET kinds == {KindOf(q, path) : q \in Bodies(ps, path)}
  IN  IF KindOf(p, path) \notin kinds THEN KindOf(p, path)
      ELSE IF "file" \in kinds \/ "body" \notin kinds THEN "form"
      ELSE IF Bodies(ps, path) = {p} /\ ~p.embed THEN "whole"
      ELSE "member"

\* A path, a cookie, and a form that a body parameter is read from, give one value.
Single(p, ps, path) ==
  \/ Place(p, ps, path) \in {"path", "cookie"}
  \/ Place(p, ps, path) = "form" /\ KindOf(p, path) = "body"

\* A body whose place is a form that is empty is looked for in the JSON.
NoForm(p, ps, path, request) ==
  Place(p, ps, path) = "form" /\ KindOf(p, path) = "body" /\ request.form = <<>>

\* The tokens a parameter should be bound to; none when the request has no
\* good value for it.
Wanted(p, ps, path, request) ==
  LET f == FieldOf(p, path)
      place == Place(p, ps, path)
      object == Parsed(request)
      member == place = "member" \/ NoForm(p, ps, path, request)
      got == IF member THEN object.has ELSE request[place]
      missing(g) == \/ g.alias \notin DOMAIN got
                    \/ ~member /\ g.kind \in {"form", "file"} /\ got[g.alias] = ""
      good(g) == got[g.alias] = "ok" /\ (member \/ (Single(p, ps, path) => g.type = "scalar"))
      token(g, name) ==
        IF missing(g) THEN (IF g.default = "required" THEN {} ELSE {<<name, "default", Key("")>>})
        ELSE IF good(g) THEN {<<name, IF member THEN "body" ELSE f.kind, g.alias>>} ELSE {}
      tokens == {token(Part(f, g), g.name) : g \in ToSet(f.fields)}
  IN  CASE place = "whole" -> IF object.is = "valid" THEN {<<"", "body", Key("")>>}
                              ELSE IF object.is = "null" /\ f.default = Unset THEN Default ELSE {}
        [] member /\ object.is # "object" -> {}
        [] Bulk(f) /\ ~member -> IF {} \in tokens THEN {} ELSE UNION tokens
        [] OTHER -> token(f, "")

\* Where the code is known to do something else (README, section 5): an alias in
\* a combined body, a combined body that is null, the shorthand of a form, and a
\* default that is not null where null is validated in its place.
Unusual(p, ps, path, request) ==
  LET f == FieldOf(p, path)
      place == Place(p, ps, path)
      got == IF NoForm(p, ps, path, request) THEN Parsed(request).has ELSE request[place]
  IN  \/ place = "member" /\ (p.alias # Unset \/ request.json.is = "null")
      \/ Bulk(f) /\ f.kind = "form" /\ ~f.grouped
      \/ /\ Single(p, ps, path)
         /\ \E g \in Parts(f) : g.default = "value" /\ g.alias \notin DOMAIN got

ArgumentsFound(ps, path, request) ==
  LET r == ResolveDependencies(ps, path, request)
      wanted == [n \in {p.name : p \in ToSet(ps)} |->
                   Wanted(CHOOSE p \in ToSet(ps) : p.name = n, ps, path, request)]
  IN  /\ r.errors = (\E n \in DOMAIN wanted : wanted[n] = {})
      /\ r.errors \/ r.values = wanted
=============================================================================
