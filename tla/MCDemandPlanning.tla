-------------------------- MODULE MCDemandPlanning --------------------------
(* Small instances of DemandPlanning for TLC: the client is a model value.   *)
EXTENDS DemandPlanning

CONSTANT a
=============================================================================
