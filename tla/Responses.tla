------------------------------ MODULE Responses ------------------------------
(***************************************************************************)
(* What is sent for the value an endpoint returned: the response models of *)
(* a route, the one that is chosen, its validation and its status.         *)
(*                                                                         *)
(* What a route declares is a function from status codes, Ellipsis among   *)
(* them, to models [kind, accepts], with the contents that the schema      *)
(* accepts; override is what @render or @file put in its place for 200.    *)
(* An endpoint returns [status, content], status 0 when it returned no     *)
(* pair; response is the status of the response object: Unasked for none,  *)
(* Untouched for one that was injected and left alone.                     *)
(***************************************************************************)
EXTENDS Integers, FiniteSets

Ellipsis  == 1
Untouched == -100
Unasked   == 0
NoPair    == 0

\* RouteParameters.validate_root, and what stands in for an undeclared status.
EmptyModel == [kind |-> "empty", accepts |-> {}]

\* RouteOperation._load_model: the models of a route.
ModelsOf(declared, override) ==
  LET own == IF declared = <<>> THEN [s \in {200} |-> EmptyModel] ELSE declared
  IN  [s \in DOMAIN own \cup DOMAIN override |->
         IF s \in DOMAIN override THEN override[s] ELSE own[s]]

Sole(models) == CHOOSE s \in DOMAIN models : DOMAIN models = {s}

\* response_resolver
BugResolvedStatus(models, returned, response) == \* mutant: the only status is not used
  IF returned.status # NoPair THEN returned.status ELSE IF response > 0 THEN response ELSE 200
ResolvedStatus(models, returned, response) ==
  IF returned.status # NoPair THEN returned.status
  ELSE IF response > 0 THEN response
  ELSE IF Cardinality(DOMAIN models) = 1 THEN Sole(models)
  ELSE 200

ModelFor(models, status) ==
  IF status \in DOMAIN models THEN models[status]
  ELSE IF Ellipsis \in DOMAIN models THEN models[Ellipsis]
  ELSE EmptyModel

\* ResponseModelField.serialize: an object that is refused is tried again as
\* plain data.
Plain(content) == IF content = "object" THEN "data" ELSE content
Accepts(model, content) == content \in model.accepts \/ Plain(content) \in model.accepts

\* BaseResponseModel.get_context_response: the status of the response object,
\* or the default of the response class, replaces the one that was resolved.
SentStatus(model, status, response) ==
  IF response > 0 THEN response
  ELSE IF response = Untouched \/ model.kind = "html" THEN 200
  ELSE status

\* The create_response of the models.
Creates(model, content) ==
  CASE model.kind \in {"json", "file"} -> Accepts(model, content)
    [] model.kind = "stream"           -> content = "generator"
    [] model.kind = "text"             -> content = "text"
    [] model.kind = "html"             -> TRUE
    [] model.kind = "empty"            -> content # "generator"

\* process_response; a response cannot be built with Ellipsis for its status.
Process(declared, override, returned, response) ==
  LET models == ModelsOf(declared, override)
      status == ResolvedStatus(models, returned, response)
      model  == ModelFor(models, status)
      sent   == SentStatus(model, status, response)
  IN  IF returned = [status |-> NoPair, content |-> "response"] THEN [status |-> 200, content |-> "response"]
      ELSE IF Creates(model, returned.content) /\ sent # Ellipsis
      THEN [status |-> sent, content |-> Plain(returned.content)]
      ELSE [status |-> 500, content |-> "error"]

-----------------------------------------------------------------------------
(***************************************************************************)
(* What a route declares: the status that was returned or set, or else the *)
(* only one it declares, with a body that the model of that status accepts.*)
(***************************************************************************)
DeclaredStatus(models, returned, response) ==
  IF response > 0 THEN response
  ELSE IF returned.status # NoPair THEN returned.status
  ELSE IF \E s \in DOMAIN models \ {Ellipsis} : DOMAIN models = {s} THEN Sole(models)
  ELSE 200

SentAsDeclared(declared, override, returned, response) ==
  LET models == ModelsOf(declared, override)
      status == DeclaredStatus(models, returned, response)
      result == Process(declared, override, returned, response)
      fits   == Creates(ModelFor(models, status), returned.content)
  IN  returned.content # "response" =>
        result = IF fits THEN [status |-> status, content |-> Plain(returned.content)]
                         ELSE [status |-> 500, content |-> "error"]

\* Where the code is known to do something else (README, section 5): a response
\* object replaces the declared and the returned status, a template forgets
\* its status, and Ellipsis alone is taken for a status.
StatusLost(declared, override, returned, response) ==
  LET models == ModelsOf(declared, override)
      model  == ModelFor(models, ResolvedStatus(models, returned, response))
  IN  \/ response = Untouched
      \/ response > 0 /\ returned.status # NoPair
      \/ model.kind = "html"
      \/ DOMAIN models = {Ellipsis} /\ returned.status = NoPair /\ response = Unasked
=============================================================================
