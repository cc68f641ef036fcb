---------------------------- MODULE MCWslClient ----------------------------
(* Calls of a WslClient for TLC, all with one execution id. *)
EXTENDS WslClient

OneId == [c \in Executes \cup Cancels |-> "id"]
=============================================================================
