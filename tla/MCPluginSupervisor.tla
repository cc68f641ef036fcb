------------------------- MODULE MCPluginSupervisor -------------------------
(***************************************************************************)
(* PluginSupervisor for TLC: calls with ids of their own, or with one id   *)
(* that the host uses for all of them.                                     *)
(***************************************************************************)
EXTENDS PluginSupervisor

DistinctIds == [k \in Calls |-> k]
OneId       == [k \in Calls |-> 1]
=============================================================================
