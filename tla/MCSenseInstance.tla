-------------------------- MODULE MCSenseInstance ---------------------------
(***************************************************************************)
(* SenseInstance over three commands, with three instances and two         *)
(* configurations: made, modified or cut short, and made again.            *)
(***************************************************************************)
EXTENDS SenseInstance
=============================================================================
