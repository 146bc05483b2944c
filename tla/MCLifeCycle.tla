------------------------------ MODULE MCLifeCycle ------------------------------
(* A limit of three threads stands for sixteen, one command for eight.     *)
EXTENDS LifeCycle
=============================================================================
