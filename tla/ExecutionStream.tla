-------------------------- MODULE ExecutionStream --------------------------
(***************************************************************************)
(* What the execution follower promises its consumer (spec section 4.1):   *)
(* block data arrives from the source and is buffered; the first block     *)
(* received fixes where the stream begins; from there Update hands out the *)
(* trie updates one at a time, every update of a block in order before the *)
(* first update of the next height, and only of blocks that were received. *)
(*                                                                         *)
(* pos is the next trie update to hand out, <<height, index>>, or Nil      *)
(* before the stream has begun; out is what has been handed out.          *)
(***************************************************************************)
EXTENDS Naturals, Sequences

CONSTANTS Heights, NumUpdates, Nil

VARIABLES ingested, pos, out

streamVars == <<ingested, pos, out>>

(* The update after p: the next index, or the first of the next height.    *)
After(p) ==
  IF p[2] + 1 = NumUpdates THEN <<p[1] + 1, 0>> ELSE <<p[1], p[2] + 1>>

StreamInit ==
  /\ ingested = {}
  /\ pos = Nil
  /\ out = <<>>

(* A block of the source is received and buffered.                        *)
Ingest ==
  /\ \E h \in Heights \ ingested : ingested' = ingested \cup {h}
  /\ UNCHANGED <<pos, out>>

(* The stream begins at the first block received.                          *)
Begin ==
  /\ pos = Nil
  /\ \E h \in ingested :
       /\ ingested = {h}
       /\ pos' = <<h, 0>>
  /\ UNCHANGED <<ingested, out>>

(* The next update of a received block is handed out.                      *)
Emit ==
  /\ pos # Nil
  /\ pos[1] \in ingested
  /\ out' = Append(out, pos)
  /\ pos' = After(pos)
  /\ UNCHANGED ingested

StreamNext == Ingest \/ Begin \/ Emit

StreamSpec == StreamInit /\ [][StreamNext]_streamVars

=============================================================================
