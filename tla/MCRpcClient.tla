---------------------------- MODULE MCRpcClient ----------------------------
(* Two workers that share a bucket of two tokens.                 *)
EXTENDS RpcClient, TLC

CONSTANTS w1, w2

WorkerSymmetry == Permutations(Workers)
=============================================================================
