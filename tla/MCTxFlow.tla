------------------------------ MODULE MCTxFlow ------------------------------
(* An instance of TxFlow for TLC: the scenarios.  The configuration gives  *)
(* the other constants.                                                    *)
EXTENDS TxFlow

Calm == [protocol |-> "TBD", shards |-> {0}, ticks |-> 1, lastSecond |-> 0,
         repeats |-> 0, losses |-> 0]

\* Two shards; batches that overtake each other or are lost, with either
\* proposer; then the measure module: a request that is applied twice while
\* seconds pass, and two requests whose replies race each other.
FlowScenarios ==
  {[Calm EXCEPT !.protocol = "Simple", !.shards = Shard, !.ticks = 2],
   [Calm EXCEPT !.protocol = "Simple", !.ticks = 4, !.losses = 1],
   [Calm EXCEPT !.protocol = "ProposeTxs", !.ticks = 4],
   [Calm EXCEPT !.lastSecond = 2, !.repeats = 1, !.losses = 1],
   [Calm EXCEPT !.ticks = 2, !.lastSecond = 1]}
=============================================================================
