---------------------------- MODULE MCBlockStore ----------------------------
(* Instances of BlockStore for TLC; the configurations give the constants. *)
EXTENDS BlockStore
=============================================================================
