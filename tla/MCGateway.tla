------------------------------ MODULE MCGateway ------------------------------
(* Model-checking instance of Gateway with main.go's backoffs slice.       *)
EXTENDS Gateway

MCBackoffs == <<5, 15, 60, 60, 60, 300>>
=============================================================================
