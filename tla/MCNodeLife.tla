----------------------------- MODULE MCNodeLife -----------------------------
(* An instance of NodeLife for TLC; the configuration gives the constants. *)
EXTENDS NodeLife
=============================================================================
