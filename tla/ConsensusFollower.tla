------------------------- MODULE ConsensusFollower -------------------------
(***************************************************************************)
(* The consensus follower of service/follower/consensus.go, composed with  *)
(* the execution data it delegates to and with the indexer that consumes   *)
(* both, height after height.                                              *)
(*                                                                         *)
(* Three activities share the Consensus struct:                            *)
(*   - the finalizer of the protocol follower finalizes the chain one      *)
(*     height at a time and calls OnBlockFinalized synchronously; the      *)
(*     callback loads header, guarantees and seals in one read            *)
(*     transaction and stores them in the map c.data under the height;     *)
(*   - execution data arrives for executed blocks, forks included, and is  *)
(*     kept by block identifier (c.execution);                             *)
(*   - the indexer reads Header, Commit, ... for the next height, on its   *)
(*     own goroutine, and retries while the height is unavailable.         *)
(* c.data has no lock: a read that overlaps the map assignment of the      *)
(* callback is a data race, which the Go runtime may turn into a fatal     *)
(* "concurrent map read and map write" error.                              *)
(***************************************************************************)
EXTENDS Naturals, FiniteSets

CONSTANTS
  Blocks,       \* block identifiers, finalized and fork blocks
  HeightOf,     \* [Blocks -> Nat]: header.Height of every block
  Final,        \* [1..N -> Blocks]: the finalized block at every height
  LookupsFail,  \* whether a read of the protocol database may fail
  Nil           \* model value: unavailable / no block

Heights == DOMAIN Final

ASSUME /\ \A h \in Heights : HeightOf[Final[h]] = h
       /\ LookupsFail \in BOOLEAN
       /\ Nil \notin Blocks

(* The state commitment after a block: one value per block, and the zero   *)
(* value flow.DummyStateCommitment.                                        *)
CommitOf(b) == <<"commit", b>>
DummyCommit == <<"commit", Nil>>

VARIABLES
  finalized,  \* the highest finalized height (0 before any)
  cb,         \* control point of OnBlockFinalized: idle, load or store
  finalID,    \* the finalID argument of the running callback
  data,       \* c.data: [heights with an item -> block of the header]
  exec,       \* blocks whose execution data c.execution holds
  next,       \* the next height the indexer asks for
  indexed,    \* [indexed heights -> [block, commit]] the indexer obtained
  crashed     \* the process died of a concurrent map access

vars == <<finalized, cb, finalID, data, exec, next, indexed, crashed>>

TypeOK ==
  /\ finalized \in 0..Cardinality(Heights)
  /\ cb \in {"idle", "load", "store"}
  /\ finalID \in Blocks \cup {Nil}
  /\ \E D \in SUBSET Heights : data \in [D -> Blocks]
  /\ exec \subseteq Blocks
  /\ next \in 1..Cardinality(Heights) + 1
  /\ \E D \in SUBSET Heights :
       indexed \in [D -> [block : Blocks, commit : {CommitOf(b) : b \in Blocks} \cup {DummyCommit}]]
  /\ crashed \in BOOLEAN

Init ==
  /\ finalized = 0
  /\ cb = "idle"
  /\ finalID = Nil
  /\ data = <<>>
  /\ exec = {}
  /\ next = 1
  /\ indexed = <<>>
  /\ crashed = FALSE

-----------------------------------------------------------------------------
(* The read accessors of Consensus (consensus.go:56-142).                  *)

(* Mutant: the accessor answers only below the last finalized height.    *)
HeaderBelowTip(h) == IF h \in DOMAIN data /\ h < finalized THEN data[h] ELSE Nil

(* Header, Guarantees and Seals: the item stored for the height.           *)
Header(h) == IF h \in DOMAIN data THEN data[h] ELSE Nil

(* c.execution.Commit(blockID): the commit of an executed block, with the  *)
(* ok flag false for a block whose execution data has not arrived.         *)
ExecutionCommit(b) == IF b \in exec THEN CommitOf(b) ELSE Nil

(* Mutant: Commit drops the ok flag of c.execution.Commit and returns the *)
(* zero commitment for a block not yet executed.                           *)
CommitIgnoringOk(h) ==
  IF h \notin DOMAIN data THEN Nil
  ELSE IF data[h] \in exec THEN CommitOf(data[h]) ELSE DummyCommit

(* Commit, and likewise Collections, Transactions, Results and Events:     *)
(* the item of the height, then the execution data of the header's        *)
(* identifier; either miss is dps.ErrUnavailable.                          *)
Commit(h) ==
  IF h \notin DOMAIN data THEN Nil ELSE ExecutionCommit(data[h])

-----------------------------------------------------------------------------
(* The finalizer finalizes the next height and invokes the callback.       *)
Finalize ==
  /\ ~crashed
  /\ cb = "idle"
  /\ finalized < Cardinality(Heights)
  /\ finalized' = finalized + 1
  /\ finalID' = Final[finalized + 1]
  /\ cb' = "load"
  /\ UNCHANGED <<data, exec, next, indexed, crashed>>

(* Mutant: the error is logged without returning, and the item of the     *)
(* zero header (height 0, zero identifier) is stored.                      *)
OnBlockFinalizedLoadNoReturn ==
  /\ ~crashed
  /\ cb = "load"
  /\ \/ cb' = "store" /\ UNCHANGED data
     \/ /\ LookupsFail
        /\ cb' = "idle"
        /\ data' = [h \in DOMAIN data \cup {0} |-> IF h = 0 THEN Nil ELSE data[h]]
  /\ UNCHANGED <<finalized, finalID, exec, next, indexed, crashed>>

(* OnBlockFinalized, the read transaction (consensus.go:145-194): header,  *)
(* guarantee identifiers, each guarantee, seal identifiers, each seal. Any *)
(* failed lookup is logged and the callback returns with nothing stored.   *)
OnBlockFinalizedLoad ==
  /\ ~crashed
  /\ cb = "load"
  /\ \/ cb' = "store"
     \/ LookupsFail /\ cb' = "idle"
  /\ UNCHANGED <<finalized, finalID, data, exec, next, indexed, crashed>>

(* OnBlockFinalized, the assignment c.data[header.Height] = it             *)
(* (consensus.go:196-201).                                                 *)
OnBlockFinalizedStore ==
  /\ ~crashed
  /\ cb = "store"
  /\ data' = [h \in DOMAIN data \cup {HeightOf[finalID]} |->
                IF h = HeightOf[finalID] THEN finalID ELSE data[h]]
  /\ cb' = "idle"
  /\ UNCHANGED <<finalized, finalID, exec, next, indexed, crashed>>

(* Execution data of executed block b arrives, for a finalized block or a  *)
(* fork at the same height.                                                *)
ExecutionArriveOf(b) ==
  /\ ~crashed
  /\ b \notin exec
  /\ exec' = exec \cup {b}
  /\ UNCHANGED <<finalized, cb, finalID, data, next, indexed, crashed>>

ExecutionArrive == \E b \in Blocks : ExecutionArriveOf(b)

(* The indexer reads the next height; when every accessor answers it       *)
(* records the view and moves on, otherwise it retries later.              *)
IndexNext ==
  /\ ~crashed
  /\ next \in Heights
  /\ Header(next) # Nil
  /\ Commit(next) # Nil
  /\ indexed' = [h \in DOMAIN indexed \cup {next} |->
                   IF h = next THEN [block |-> Header(next), commit |-> Commit(next)]
                   ELSE indexed[h]]
  /\ next' = next + 1
  /\ UNCHANGED <<finalized, cb, finalID, data, exec, crashed>>

(* A read of c.data while the callback assigns to it: the runtime detects  *)
(* the concurrent map access and aborts the process.                       *)
IndexRace ==
  /\ ~crashed
  /\ cb = "store"
  /\ next \in Heights
  /\ crashed' = TRUE
  /\ UNCHANGED <<finalized, cb, finalID, data, exec, next, indexed>>

Next ==
  \/ Finalize
  \/ OnBlockFinalizedLoad
  \/ OnBlockFinalizedStore
  \/ ExecutionArrive
  \/ IndexNext
  \/ IndexRace

(* The finalizer, the callback and the indexer are goroutines that keep    *)
(* running; execution data of every finalized block eventually arrives.    *)
Fairness ==
  /\ WF_vars(Finalize)
  /\ WF_vars(OnBlockFinalizedLoad)
  /\ WF_vars(OnBlockFinalizedStore)
  /\ WF_vars(IndexNext)
  /\ \A h \in Heights : WF_vars(ExecutionArriveOf(Final[h]))

Spec == Init /\ [][Next]_vars
FairSpec == Spec /\ Fairness

-----------------------------------------------------------------------------
(* Properties.                                                             *)

(* The indexer's view of every height it indexed is the finalized block of *)
(* that height and the commitment after that block: the two-step lookup    *)
(* (height to header, header identifier to execution data) never pairs a   *)
(* header with a fork's execution data or with a missing commitment, even  *)
(* when the indexer reads before the execution data has arrived.           *)
IndexedIsFinalized ==
  \A h \in DOMAIN indexed :
    indexed[h] = [block |-> Final[h], commit |-> CommitOf(Final[h])]

(* The indexer and the finalization callback never access c.data at the   *)
(* same time, so the process is never aborted by the Go runtime.           *)
NoConcurrentMapAccess == ~crashed

(* Every height is eventually indexed once the callback has stored it and *)
(* every height below it: the indexer retries while Header or Commit is    *)
(* unavailable, and the execution data of a finalized block arrives, so    *)
(* the two-step lookup answers in the end, unless the process died.        *)
StoredHeightsIndexed ==
  \A h \in Heights :
    (1..h \subseteq DOMAIN data) ~> (h \in DOMAIN indexed \/ crashed)

=============================================================================
