---------------------------- MODULE MCCtrlServer ----------------------------
(* Model checking of CtrlServer: connections are interchangeable. *)
EXTENDS CtrlServer, TLC

Symmetry == Permutations(Conn)
=============================================================================
