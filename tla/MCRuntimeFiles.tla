--------------------------- MODULE MCRuntimeFiles ---------------------------
(***************************************************************************)
(* A small instance of RuntimeFiles for TLC.                               *)
(***************************************************************************)
EXTENDS RuntimeFiles
=============================================================================
