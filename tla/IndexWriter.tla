---------------------------- MODULE IndexWriter ----------------------------
(***************************************************************************)
(* The persisted index and the Index Writer that fills it. The writer's    *)
(* code is not part of this repository's sources: it is modelled from the *)
(* specification (sections 3 and 4.3) and from the writer/reader           *)
(* integration test.                                                       *)
(*                                                                         *)
(* The writer indexes heights in order. For each height it writes the      *)
(* block records, the register payloads, the events of the height if it   *)
(* has any, the Last marker, and at the first height the First marker,     *)
(* each through its own Write<Kind> call. The markers, events and block    *)
(* records live in the badger database the reader reads through r.db; the *)
(* register payloads live in a separate pebble store, read through r.lib2  *)
(* (reader.go:25-28, 96). With the default sequential writer the badger    *)
(* records of a height commit together in one transaction and the payloads *)
(* in their own write to the other store, before or after it; with        *)
(* concurrent transactions each call is committed on its own, in any       *)
(* order, with no atomicity across kinds. Which writer runs is fixed when *)
(* the process starts (atomic).                                            *)
(*                                                                         *)
(* A record is <<"first", h>>, <<"last", h>>, <<"events", h>> (the events  *)
(* of height h), <<"block", h>> or <<"payload", h, r>>: the value of       *)
(* register r written at height h, which identifies both. The block        *)
(* records are the ones the point lookups read: the height of the block    *)
(* identifier, commit, header, the collection, transaction and seal        *)
(* identifiers of the height and the records they identify. Identifiers    *)
(* are abstracted to the height of their block, and these records to one   *)
(* kind, whose commit order among themselves no modelled read observes.   *)
(***************************************************************************)
EXTENDS Naturals, FiniteSets, FiniteSetsExt

CONSTANTS
  MaxHeight,     \* heights 1..MaxHeight are indexed
  Regs,          \* register identifiers
  UpdatedAt,     \* [1..MaxHeight -> SUBSET Regs]: registers each height writes
  EventHeights,  \* the heights whose block emitted events
  WriterModes,   \* the writers the process may run: one transaction per
                 \* height (TRUE) or one per kind (FALSE)
  Nil            \* model value: no value

ASSUME /\ MaxHeight \in Nat \ {0}
       /\ UpdatedAt \in [1..MaxHeight -> SUBSET Regs]
       /\ EventHeights \subseteq 1..MaxHeight
       /\ WriterModes \subseteq BOOLEAN /\ WriterModes # {}

VARIABLES
  committed,  \* the records visible to readers
  staged,     \* the records written for wheight and not yet committed
  wheight,    \* the last height the writer has started (0 before any)
  atomic      \* the sequential writer runs (TRUE) or concurrent transactions

storeVars == <<committed, staged, wheight, atomic>>

Kinds == {"first", "last", "events", "block", "payload"}

Records ==
  {<<k, h>> : k \in {"first", "last", "events", "block"}, h \in 1..MaxHeight}
    \cup {<<"payload", h, r>> : h \in 1..MaxHeight, r \in Regs}

StoreTypeOK ==
  /\ committed \subseteq Records
  /\ staged \subseteq Records
  /\ wheight \in 0..MaxHeight
  /\ atomic \in WriterModes

StoreInit ==
  /\ committed = {}
  /\ staged = {}
  /\ wheight = 0
  /\ atomic \in WriterModes

(* The Write<Kind> calls for the next height: the block records, Payloads, *)
(* Events when the block has any, Last, and First at the first height.     *)
WriteHeight ==
  /\ staged = {}
  /\ wheight < MaxHeight
  /\ LET h == wheight + 1 IN
       /\ staged' = {<<"payload", h, r>> : r \in UpdatedAt[h]}
                      \cup {<<"events", g>> : g \in {h} \cap EventHeights}
                      \cup {<<"block", h>>, <<"last", h>>}
                      \cup (IF h = 1 THEN {<<"first", h>>} ELSE {})
       /\ wheight' = h
  /\ UNCHANGED <<committed, atomic>>

(* The records of a height kept in the pebble store of the payloads, and   *)
(* those kept in the badger database.                                      *)
PayloadRecords(S) == {x \in S : x[1] = "payload"}
BadgerRecords(S)  == S \ PayloadRecords(S)

(* The sequential writer commits the height's badger transaction as a      *)
(* whole.                                                                  *)
CommitAll ==
  /\ atomic
  /\ BadgerRecords(staged) # {}
  /\ committed' = committed \cup BadgerRecords(staged)
  /\ staged' = PayloadRecords(staged)
  /\ UNCHANGED <<wheight, atomic>>

(* The sequential writer's write of the height's payloads to the pebble    *)
(* store, not atomic with the badger transaction.                          *)
CommitPayloads ==
  /\ atomic
  /\ PayloadRecords(staged) # {}
  /\ committed' = committed \cup PayloadRecords(staged)
  /\ staged' = BadgerRecords(staged)
  /\ UNCHANGED <<wheight, atomic>>

(* With concurrent transactions, the transaction of one Write<Kind> call   *)
(* commits on its own.                                                     *)
CommitKind ==
  /\ ~atomic
  /\ \E k \in Kinds :
       LET tx == {x \in staged : x[1] = k} IN
         /\ tx # {}
         /\ committed' = committed \cup tx
         /\ staged' = staged \ tx
  /\ UNCHANGED <<wheight, atomic>>

WriterNext == WriteHeight \/ CommitAll \/ CommitPayloads \/ CommitKind

-----------------------------------------------------------------------------
(* What the store answers.                                                 *)

(* RetrieveFirst / RetrieveLast: the committed marker, Nil when not found. *)
(* Last is overwritten at every height, so the highest one is visible.     *)
Marker(k) ==
  LET hs == {x[2] : x \in {y \in committed : y[1] = k}}
  IN IF hs = {} THEN Nil ELSE Max(hs)

(* GetPayload(height, reg): the value the register had after the given     *)
(* height, i.e. the one written at the highest height not above it, or    *)
(* Nil when the register was never written up to that height.             *)
GetPayload(h, r) ==
  LET gs == {g \in 1..MaxHeight : g <= h /\ <<"payload", g, r>> \in committed}
  IN IF gs = {} THEN Nil ELSE <<Max(gs), r>>

(* RetrieveEvents(height, types): the events committed for the height,    *)
(* <<h>> standing for the events of height h, or Nil for none.             *)
EventsAt(h) == IF <<"events", h>> \in committed THEN <<h>> ELSE Nil

(* The Retrieve<Kind> and Lookup<Kind> calls of the point lookups: the     *)
(* committed block record of the height, <<h>>, or Nil when not found.     *)
BlockRecord(h) == IF <<"block", h>> \in committed THEN <<h>> ELSE Nil

=============================================================================
