------------------------- MODULE ExecutionFollower -------------------------
(***************************************************************************)
(* The execution follower of follower/execution/follower.go.               *)
(*                                                                         *)
(* Two goroutines share the Follower struct without a lock:                *)
(*   - Run, the ingest loop, reads block files announced by the block      *)
(*     source, stores them in the map f.data keyed by height and fixes     *)
(*     the floor height f.height on the first block;                       *)
(*   - the consumer calls Update (and next) to obtain the trie updates in  *)
(*     height order, and the accessors (Header, Seals, ...) to read the    *)
(*     block that is current.                                              *)
(* Every goroutine step below is one atomic action; Run's ingestion is     *)
(* split where the consumer can observe the map before the floor is set.   *)
(*                                                                         *)
(* Data is abstracted: a block is its height, its trie updates are the     *)
(* indices 0..NumUpdates-1, and the seal for block h is carried by the     *)
(* payload of block h+1 together with the execution result for h; the     *)
(* function consistent records whether that seal's final state agrees      *)
(* with the result's final state commitment.                               *)
(*                                                                         *)
(* Besides the finalized block of every height, the source may hold a     *)
(* block of a fork at some heights (Forks). f.data is keyed by height      *)
(* (FIXME at follower.go:46), so the block received last for a height is   *)
(* the one cached. No finalized block carries a seal of a fork block.     *)
(***************************************************************************)
EXTENDS Naturals, Sequences, FiniteSets, SequencesExt

CONSTANTS
  Heights,     \* heights of the block files the block source will announce
  CacheSize,   \* cacheSize (follower.go:31)
  NumUpdates,  \* len(TrieUpdates) of every block
  Forks,       \* heights at which the source also holds a fork block
  Nil          \* model value standing for a nil f.current

ASSUME /\ Heights \subseteq Nat /\ Heights # {}
       /\ CacheSize \in Nat \ {0}
       /\ NumUpdates \in Nat \ {0}
       /\ Nil \notin Heights
       /\ Forks \subseteq Heights

(* math.MaxUint64, the initial f.height: only its order matters, it is     *)
(* larger than every height the source holds and than height+1 of them.    *)
MaxUint64 == Max(Heights) + 2

(* A block file: the height of the block and whether it is the finalized  *)
(* block of that height or a fork block.                                   *)
Blocks == (Heights \X {"final"}) \cup (Forks \X {"fork"})

VARIABLES
  pending,     \* blocks the block source has not announced yet (Notify)
  consistent,  \* [Heights -> BOOLEAN]: block content, fixed by the source
  data,        \* f.data: the set of cached heights
  kindAt,      \* [Heights -> {"final", "fork"}]: the block cached at a height
  current,     \* f.current: the height of the current block, or Nil
  curFork,     \* f.current is a fork block
  height,      \* f.height
  index,       \* f.index
  stop,        \* f.stop has been closed
  run,         \* control point of the Run goroutine
  inflight,    \* the height Run has just stored and not yet compared
  delivered,   \* the <<height, index>> trie updates Update has returned
  lastErr,     \* the outcome of the consumer's last Update call
  rejected     \* heights for which next returned the seal mismatch error

vars == <<pending, consistent, data, kindAt, current, curFork, height, index,
          stop, run, inflight, delivered, lastErr, rejected>>

RunStates == {"check", "select", "floor", "done", "ioerror", "ordererror"}
Outcomes  == {"none", "ok", "unavailable", "discrepancy", "mismatch"}

TypeOK ==
  /\ pending \subseteq Blocks
  /\ consistent \in [Heights -> BOOLEAN]
  /\ data \subseteq Heights
  /\ kindAt \in [Heights -> {"final", "fork"}]
  /\ current \in Heights \cup {Nil}
  /\ curFork \in BOOLEAN
  /\ height \in Heights \cup {Max(Heights) + 1, MaxUint64}
  /\ index \in 0..NumUpdates
  /\ stop \in BOOLEAN
  /\ run \in RunStates
  /\ inflight \in Heights \cup {Nil}
  /\ delivered \in Seq(Heights \X (0..NumUpdates - 1))
  /\ lastErr \in Outcomes
  /\ rejected \subseteq Heights

Init ==
  /\ pending = Blocks
  /\ consistent \in [Heights -> BOOLEAN]
  /\ data = {}
  /\ kindAt = [h \in Heights |-> "final"]
  /\ current = Nil
  /\ curFork = FALSE
  /\ height = MaxUint64
  /\ index = 0
  /\ stop = FALSE
  /\ run = "check"
  /\ inflight = Nil
  /\ delivered = <<>>
  /\ lastErr = "none"
  /\ rejected = {}

-----------------------------------------------------------------------------
(* The ingest loop, Run (follower.go:74-121).                              *)

(* Top of the loop: return on a closed stop channel; with a full cache the *)
(* loop spins (continue) without changing anything, so no step is taken.   *)
RunCheck ==
  /\ run = "check"
  /\ \/ stop /\ run' = "done"
     \/ ~stop /\ Cardinality(data) # CacheSize /\ run' = "select"
  /\ UNCHANGED <<pending, consistent, data, kindAt, current, curFork, height,
                 index, stop, inflight, delivered, lastErr, rejected>>

(* The select: stop wins, or a file announced by the source is read,       *)
(* decoded and validated. Read, Unmarshal or validation failure ends Run   *)
(* with an error; otherwise the block is stored under its height,         *)
(* replacing a block of the same height.                                   *)
RunReceive ==
  /\ run = "select"
  /\ \/ stop /\ run' = "done" /\ UNCHANGED <<pending, data, kindAt, inflight>>
     \/ \E b \in pending :
          /\ pending' = pending \ {b}
          /\ \/ run' = "ioerror" /\ UNCHANGED <<data, kindAt, inflight>>
             \/ /\ data' = data \cup {b[1]}
                /\ kindAt' = [kindAt EXCEPT ![b[1]] = b[2]]
                /\ inflight' = b[1]
                /\ run' = "floor"
  /\ UNCHANGED <<consistent, current, curFork, height, index, stop, delivered,
                 lastErr, rejected>>

(* The floor logic after the store: a block below f.height is accepted as  *)
(* the floor while f.height is still math.MaxUint64, and is a fatal        *)
(* ordering error otherwise. f.height may meanwhile have been advanced by  *)
(* the consumer's next.                                                    *)
RunSetFloor ==
  /\ run = "floor"
  /\ IF inflight < height
       THEN IF height # MaxUint64
              THEN run' = "ordererror" /\ UNCHANGED height
              ELSE height' = inflight /\ run' = "check"
       ELSE run' = "check" /\ UNCHANGED height
  /\ inflight' = Nil
  /\ UNCHANGED <<pending, consistent, data, kindAt, current, curFork, index,
                 stop, delivered, lastErr, rejected>>

(* Stop closes the stop channel (follower.go:297-299).                     *)
Stop ==
  /\ ~stop
  /\ stop' = TRUE
  /\ UNCHANGED <<pending, consistent, data, kindAt, current, curFork, height,
                 index, run, inflight, delivered, lastErr, rejected>>

-----------------------------------------------------------------------------
(* The consumer: Update (follower.go:124-139) and next (141-189).          *)

(* The seals found in the payload of cached block b: that of block b-1.    *)
SealsIn(b) == {b - 1} \cap Heights

(* The sanity check of next: every cached seal of the block at h whose     *)
(* execution result is in the same payload agrees with the result's final *)
(* state. The loops only compare the seals they find: a fork block, which *)
(* no seal names, passes.                                                  *)
CrossCheckOK(h) ==
  \A b \in data : \A s \in SealsIn(b) :
    s = h /\ kindAt[h] = "final" => consistent[s]

(* next moves on to f.height+1 and resets f.index unless no block was      *)
(* current yet.                                                            *)
(* Mutant: next increments f.height even when no block was current.      *)
NextHeightAlways == height + 1

NextHeight == IF current # Nil THEN height + 1 ELSE height

(* Mutant: f.index is not reset when next moves on to the next block.     *)
NextIndexKept == index

NextIndex == IF current # Nil THEN 0 ELSE index

(* Update needs next when no block is current or its updates are used up.  *)
NeedsNext == current = Nil \/ index = NumUpdates

(* Update returns the next trie update of the current block. Indexing     *)
(* TrieUpdates out of range panics: the consumer then takes no more steps. *)
UpdateWithin ==
  /\ ~NeedsNext
  /\ index < NumUpdates
  /\ delivered' = Append(delivered, <<current, index>>)
  /\ index' = index + 1
  /\ lastErr' = "ok"
  /\ UNCHANGED <<curFork, pending, consistent, data, kindAt, current, height, stop, run,
                 inflight, rejected>>

(* next with an empty map returns dps.ErrUnavailable.                      *)
UpdateUnavailable ==
  /\ NeedsNext
  /\ data = {}
  /\ lastErr' = "unavailable"
  /\ UNCHANGED <<curFork, pending, consistent, data, kindAt, current, height, index, stop,
                 run, inflight, delivered, rejected>>

(* next finds no block at the new height: f.current becomes nil, while     *)
(* f.height and f.index keep their new values.                             *)
(* Mutant: the lookup goes to a local and f.current keeps the old block.  *)
UpdateMissingKeepCurrent ==
  /\ NeedsNext
  /\ data # {}
  /\ NextHeight \notin data
  /\ height' = NextHeight
  /\ index' = NextIndex
  /\ lastErr' = "discrepancy"
  /\ UNCHANGED <<curFork, pending, consistent, data, kindAt, current, stop, run, inflight,
                 delivered, rejected>>

UpdateMissing ==
  /\ NeedsNext
  /\ data # {}
  /\ NextHeight \notin data
  /\ current' = Nil
  /\ curFork' = FALSE
  /\ height' = NextHeight
  /\ index' = NextIndex
  /\ lastErr' = "discrepancy"
  /\ UNCHANGED <<pending, consistent, data, kindAt, stop, run, inflight, delivered,
                 rejected>>

(* next finds the block but the seal check fails; f.current has already   *)
(* been set to the block when the error is returned.                       *)
UpdateMismatch ==
  /\ NeedsNext
  /\ NextHeight \in data
  /\ ~CrossCheckOK(NextHeight)
  /\ current' = NextHeight
  /\ curFork' = (kindAt[NextHeight] = "fork")
  /\ height' = NextHeight
  /\ index' = NextIndex
  /\ lastErr' = "mismatch"
  /\ rejected' = rejected \cup {NextHeight}
  /\ UNCHANGED <<pending, consistent, data, kindAt, stop, run, inflight, delivered>>

(* next succeeds and Update returns the first update of the new block.     *)
UpdateAdvance ==
  /\ NeedsNext
  /\ NextHeight \in data
  /\ CrossCheckOK(NextHeight)
  /\ NextIndex < NumUpdates
  /\ current' = NextHeight
  /\ curFork' = (kindAt[NextHeight] = "fork")
  /\ height' = NextHeight
  /\ delivered' = Append(delivered, <<NextHeight, NextIndex>>)
  /\ index' = NextIndex + 1
  /\ lastErr' = "ok"
  /\ UNCHANGED <<pending, consistent, data, kindAt, stop, run, inflight, rejected>>

Update ==
  \/ UpdateWithin
  \/ UpdateUnavailable
  \/ UpdateMissing
  \/ UpdateMismatch
  \/ UpdateAdvance

(* The accessors Header, Collections, Guarantees, Seals, Transactions,     *)
(* Results and Events (follower.go:191-295) serve only the current block:  *)
(* the block of height h when it is current, Nil (an error) otherwise.     *)
Served(h) == IF current # Nil /\ h = height THEN current ELSE Nil

-----------------------------------------------------------------------------
Next ==
  \/ RunCheck
  \/ RunReceive
  \/ RunSetFloor
  \/ Stop
  \/ Update

(* The errors after which the consumer does not call Update again: the     *)
(* fatal discrepancies of next, which halt the process (spec section 7).   *)
FatalErrors == {"discrepancy", "mismatch"}

(* The consumer keeps calling Update, retrying after "unavailable", until  *)
(* it has received a fatal error.                                          *)
ConsumerUpdate == lastErr \notin FatalErrors /\ Update

(* Run is a goroutine that keeps running; the consumer keeps calling       *)
(* Update until a fatal error. Stop is the operator's choice and gets no   *)
(* fairness.                                                               *)
Fairness ==
  /\ WF_vars(RunCheck)
  /\ WF_vars(RunReceive)
  /\ WF_vars(RunSetFloor)
  /\ WF_vars(ConsumerUpdate)

Spec == Init /\ [][Next]_vars
FairSpec == Spec /\ Fairness

-----------------------------------------------------------------------------
(* Refinement of ExecutionStream. The next update Update will return is    *)
(* <<f.height, f.index>> of the current block, the first update of the     *)
(* next height once the current block is used up, and the first update of  *)
(* f.height when no block is current (at the start, or after next failed  *)
(* on a missing height, which already advanced f.height and reset          *)
(* f.index); before the floor is fixed the stream has not begun. The       *)
(* cached heights are the blocks received, the returned updates the        *)
(* stream handed out.                                                      *)
Position ==
  IF height = MaxUint64 THEN Nil
  ELSE IF current = Nil THEN <<height, 0>>
  ELSE IF index = NumUpdates THEN <<height + 1, 0>>
  ELSE <<height, index>>

Stream == INSTANCE ExecutionStream WITH ingested <- data, pos <- Position, out <- delivered

-----------------------------------------------------------------------------
(* Properties.                                                             *)

(* The follower implements the stream its consumer relies on: whatever    *)
(* the order blocks arrive in, and through failed next calls and retries,  *)
(* Update returns the updates of received blocks in strict chronological   *)
(* order from the first block received, without skipping or repeating     *)
(* one. Run and the consumer both write f.height, without a lock.          *)
StreamRefinement == Stream!StreamSpec

(* All NumUpdates updates of block h have been returned by Update.         *)
FullyDelivered(h) == Contains(delivered, <<h, NumUpdates - 1>>)

(* While the consumer has had no fatal error, a cached block at or above    *)
(* its height, with every height between them cached too and every seal   *)
(* among them consistent, is eventually returned in full by Update:        *)
(* next's height and index bookkeeping carries the consumer from block to  *)
(* block, whatever order the blocks arrived in and whatever Run does       *)
(* meanwhile.                                                              *)
CachedBlocksDelivered ==
  \A h \in Heights :
    (/\ lastErr \notin FatalErrors
     /\ h \in data /\ height <= h /\ height..h \subseteq data
     /\ \A g \in height..h : consistent[g])
      ~> FullyDelivered(h)

(* A block whose seal disagrees with its execution result is never exposed *)
(* as current: next returned the mismatch error for it, so no accessor     *)
(* serves it and no later Update call returns one of its trie updates.     *)
RejectedNeverExposed ==
  \A h \in rejected :
    /\ Served(h) = Nil
    /\ \A i \in 1..Len(delivered) : delivered[i][1] # h

(* Backpressure releases: while blocks remain to be ingested and Run is    *)
(* looping, a full cache still holds a block the consumer has not          *)
(* finished, so consuming it frees a slot for the next admission.          *)
FullCacheHoldsUnconsumed ==
  (Cardinality(data) = CacheSize /\ pending # {} /\ run \in {"check", "select"})
    => \E h \in data : ~FullyDelivered(h)

(* Scenario 5 of the specification: blocks may reach the cache out of      *)
(* order; the ingest loop fails for ordering only on a block below a floor *)
(* that consumption has established.                                       *)
OrderErrorOnlyAfterConsumption == run = "ordererror" => delivered # <<>>

(* Sections 4.1, 5 and 7 of the specification: Update fails with          *)
(* "unavailable" when its next block has not arrived yet, the signal for  *)
(* the caller to retry later, and fatally only when that height is missing *)
(* while data of a later height is buffered (a gap). next tests only       *)
(* whether f.data is empty, and f.data keeps every consumed block.         *)
DiscrepancyOnlyAtGap == lastErr = "discrepancy" => \E g \in data : g > height

(* Section 5 of the specification: a block is never exposed as current    *)
(* until its sealing relationship with another buffered block has been     *)
(* validated. A fork block received after the finalized block of its       *)
(* height replaces it in f.data (keyed by height); next finds no seal for  *)
(* the fork block's ID, so its loops return nil and the fork block becomes *)
(* current, its trie updates returned by Update.                           *)
OnlyFinalizedExposed == ~curFork

=============================================================================
