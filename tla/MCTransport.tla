----------------------------- MODULE MCTransport -----------------------------
(* Model values for the runs of BLETransport. *)
EXTENDS BLETransport
CONSTANTS t1, t2, h1, h2, h3, h4, h5
=============================================================================
