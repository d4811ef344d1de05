---------------------------- MODULE MCAwsNetwork ----------------------------
(***************************************************************************)
(* AwsNetwork over six commands, with three objects of each kind: an       *)
(* interface that a destroy has passed over, for one that AWS still lists  *)
(* as deleted, is then itself what is deleted instead of a later one.      *)
(***************************************************************************)
EXTENDS AwsNetwork
=============================================================================
