----------------------------- MODULE MCInbound ------------------------------
(***************************************************************************)
(* Small instances of Inbound.                                             *)
(***************************************************************************)
EXTENDS Inbound, TLC

CONSTANTS k1, k2, m1, m2, c1, c2, c3

=============================================================================
