----------------------------- MODULE MCCandles -----------------------------
(* Up to three trades of two mints in three slots of two transactions, at    *)
(* every block time of each slot: increasing, repeated or going back.        *)
EXTENDS Candles

CONSTANTS MCMints, MCSlots, MCIndexes, MCTimes, MCPrices, MCMaxTrades

MCTrade == [mint : MCMints, slot : MCSlots, txIndex : MCIndexes, time : MCTimes,
            price : MCPrices]

\* What each transaction traded, if it did.
Bodies == {<<m, p>> : m \in MCMints, p \in MCPrices} \cup {<<>>}

MCTradeSets ==
  {{[mint |-> f[x][1], slot |-> x[1], txIndex |-> x[2], time |-> g[x[1]], price |-> f[x][2]] :
      x \in {y \in MCSlots \X MCIndexes : f[y] # <<>>}} :
     f \in {h \in [MCSlots \X MCIndexes -> Bodies] :
              Cardinality({x \in MCSlots \X MCIndexes : h[x] # <<>>}) <= MCMaxTrades},
     g \in [MCSlots -> MCTimes]}

\* A candle of an earlier rebuild.
MCOldCandles == {[NoCandle EXCEPT !.mint = 1, !.interval = Short, !.count = 1]}
=============================================================================
