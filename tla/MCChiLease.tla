----------------------------- MODULE MCChiLease -----------------------------
(***************************************************************************)
(* ChiLease over three commands and up to two nodes.                       *)
(***************************************************************************)
EXTENDS ChiLease
=============================================================================
