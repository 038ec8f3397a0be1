------------------------------ MODULE MCTrades ------------------------------
(* The trader may have two accounts of mint A, one of B and one of wrapped    *)
(* SOL; a pool, which is anybody else, has one of each.                       *)
EXTENDS Trades

MCMintOf == [a1 |-> "A", a2 |-> "A", b1 |-> "B", w1 |-> "WSOL",
             poolA |-> "A", poolB |-> "B", poolW |-> "WSOL"]
MCOpenedBy == [x \in DOMAIN MCMintOf |-> IF x \in {"a1", "a2", "b1", "w1"} THEN "trader" ELSE "other"]
=============================================================================
