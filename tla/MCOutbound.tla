----------------------------- MODULE MCOutbound -----------------------------
(***************************************************************************)
(* Small instances of Outbound.                                            *)
(***************************************************************************)
EXTENDS Outbound, TLC

CONSTANTS r1, r2, e1, e2, e3

=============================================================================
