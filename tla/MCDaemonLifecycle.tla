------------------------- MODULE MCDaemonLifecycle -------------------------
(***************************************************************************)
(* DaemonLifecycle for TLC; the constants are given in the cfg file.       *)
(***************************************************************************)
EXTENDS DaemonLifecycle
=============================================================================
