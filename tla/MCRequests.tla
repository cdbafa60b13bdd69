----------------------------- MODULE MCRequests -----------------------------
(***************************************************************************)
(* Requests for TLC: those to cached endpoints, which meet in the servers  *)
(* of RouteCache, or one step of an algorithm at a time on an input of     *)
(* MCAlgorithms.  The two share nothing, so one of them runs.              *)
(***************************************************************************)
EXTENDS MCRouteCache, MCAlgorithms

requestVars == <<vars, case>>

RequestSymmetry == Permutations(Request)

RequestsInit ==
  /\ Init
  /\ \/ case = <<"cached">> /\ OneBackend
     \/ CaseInit /\ options = [r \in Request |-> CHOOSE o \in Options : TRUE] /\ \A r \in Request : url[r] = "a"

RequestsNext ==
  \/ case = <<"cached">> /\ UNCHANGED case /\ Next
  \/ case # <<"cached">> /\ UNCHANGED vars /\ AlgorithmNext

RequestsSpec == RequestsInit /\ [][RequestsNext]_requestVars
=============================================================================
