------------------------ MODULE MC_ConsensusFollower ------------------------
(* Model-checking instance of ConsensusFollower: a finalized chain of three *)
(* blocks and a fork block at height 2 whose execution data also arrives.   *)
EXTENDS ConsensusFollower, TLC

CONSTANTS b1, b2, b3, f2

MCBlocks == {b1, b2, b3, f2}
MCHeightOf == (b1 :> 1) @@ (b2 :> 2) @@ (b3 :> 3) @@ (f2 :> 2)
MCFinal == <<b1, b2, b3>>

=============================================================================
