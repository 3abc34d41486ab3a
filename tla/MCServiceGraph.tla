---------------------------- MODULE MCServiceGraph ----------------------------
EXTENDS ServiceGraph

CONSTANTS a, b  \* the services

(* The backend has heard of no service, or of both. *)
SomeLists == {<<>>, <<a, b>>}
=============================================================================
