--------------------------- MODULE MCNativeShell ---------------------------
(***************************************************************************)
(* NativeShell for TLC; the constants are given in the cfg files.          *)
(***************************************************************************)
EXTENDS NativeShell
=============================================================================
