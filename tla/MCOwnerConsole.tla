---------------------------- MODULE MCOwnerConsole ----------------------------
(* A small instance of OwnerConsole: one tab and, beside it, whatever another *)
(* tab or device does; two owners, one of which may have an agent from before. *)
EXTENDS OwnerConsole

CONSTANTS p1, d1, d2
=============================================================================
