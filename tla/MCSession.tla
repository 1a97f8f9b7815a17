------------------------------ MODULE MCSession ------------------------------
(* Camera sessions of a few connections, for model checking.               *)
EXTENDS Session
=============================================================================
