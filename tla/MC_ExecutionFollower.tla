------------------------ MODULE MC_ExecutionFollower ------------------------
(* Model-checking instance of ExecutionFollower: three block files, two    *)
(* trie updates each, and a cache smaller than the number of blocks so     *)
(* that the full-cache branch of Run is reached. The source also holds a   *)
(* fork block at height 2, which it may announce before or after the      *)
(* finalized block of that height.                                         *)
EXTENDS ExecutionFollower

MCHeights == 1..3
MCNumUpdates == 2
MCForks == {2}

=============================================================================
