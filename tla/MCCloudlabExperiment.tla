------------------------ MODULE MCCloudlabExperiment ------------------------
(***************************************************************************)
(* CloudlabExperiment over four commands and three configurations.         *)
(***************************************************************************)
EXTENDS CloudlabExperiment
=============================================================================
