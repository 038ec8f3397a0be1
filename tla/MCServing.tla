----------------------------- MODULE MCServing -----------------------------
(* Three requests for two connections, while a writer works.                 *)
EXTENDS Serving

MCKindsOf == [r1 |-> {"contention"}, r2 |-> {"contention", "tokens"}, r3 |-> {"ohlcv"}]
=============================================================================
