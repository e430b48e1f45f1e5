------------------------------- MODULE MCPbft -------------------------------
(* Instances of Pbft for TLC; the configurations give the constants.       *)
EXTENDS Pbft, TLC

\* Live backups run the same code, requests differ by their names only, and
\* no safety property names one of either.
\* Used by the runs that check no temporal formula.
Symmetry == Permutations(Live \ {View}) \cup Permutations(Request)
=============================================================================
