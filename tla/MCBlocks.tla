------------------------------ MODULE MCBlocks ------------------------------
(* Two accounts and two programs; a transaction calls none, votes, or does  *)
(* more than voting.                                                        *)
EXTENDS Blocks

MCProgramSets == {{}, {3}, {3, 4}}
=============================================================================
