---------------------------- MODULE MCConnection ----------------------------
(* Model values for the runs of ConnectionManager. *)
EXTENDS ConnectionManager
CONSTANTS c1, c2
=============================================================================
