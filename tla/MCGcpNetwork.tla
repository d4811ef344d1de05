---------------------------- MODULE MCGcpNetwork ----------------------------
(***************************************************************************)
(* GcpNetwork over four commands, with three attachments: an apply can     *)
(* meet what an apply and a destroy that were cut short have left.         *)
(***************************************************************************)
EXTENDS GcpNetwork
=============================================================================
