------------------------------ MODULE MCApiGate ------------------------------
(***************************************************************************)
(* A small instance of ApiGate: a user on two routes.                      *)
(***************************************************************************)
EXTENDS ApiGate, TLC

MCKeys == Scopes \X Users

Symmetry == Permutations(Requests) \cup Permutations(Scopes)
=============================================================================
