---------------------------- MODULE IndexReader ----------------------------
(***************************************************************************)
(* Reader.Values, Reader.Events and the point lookups of                   *)
(* service/index/reader.go, composed with the Index Writer filling the     *)
(* store it reads (IndexWriter).                                           *)
(*                                                                         *)
(* One call at a time is modelled; the calls repeat. A call reads          *)
(* First and Last in two separate read transactions, rejects a height      *)
(* outside [first, last], and then reads the registers: one lookup on the  *)
(* fast path for a single register, otherwise one goroutine per register   *)
(* in an errgroup limited to ConcurrentPathReadLimit goroutines, each      *)
(* writing its payload into values[i]. Events makes the same two reads and *)
(* its own copy of the range check, then one RetrieveEvents lookup. A     *)
(* point lookup is a single read transaction without a range check. The   *)
(* writer commits between any two of these steps.                          *)
(***************************************************************************)
EXTENDS IndexWriter, Sequences

CONSTANTS
  Queries,       \* the register lists a call may ask for (sequences of Regs)
  QueryHeights,  \* the heights a call may ask for
  Limit,         \* ConcurrentPathReadLimit
  ReadsFail      \* whether a payload lookup may fail with an I/O error

ASSUME /\ Limit \in Nat \ {0}
       /\ ReadsFail \in BOOLEAN

VARIABLES
  rpc,     \* control point of the call: idle, first, last, check, single, spawn, wait, events
  qop,     \* the method called: values or events
  qh,      \* the height argument
  qregs,   \* the regs argument
  first,   \* the local first
  last,    \* the local last
  loopI,   \* the range loop's index (1-based): the next register to spawn
  active,  \* indices of the goroutines of the errgroup still running
  values,  \* the values slice
  gerr,    \* whether a goroutine returned an error (g.Wait's result)
  qstart,  \* [Regs -> value]: each register at the height when Values began
  result   \* the answer of the last completed call, Nil before any

readerVars == <<rpc, qop, qh, qregs, first, last, loopI, active, values, gerr,
                qstart, result>>
vars == <<storeVars, readerVars>>

(* What a call answers: register values (one per writing height and       *)
(* register, or Nil), or the events or block record of a height, <<h>>.   *)
RegisterValues == {Nil} \cup {<<h, r>> : h \in 1..MaxHeight, r \in Regs}

Answers == RegisterValues \cup {<<h>> : h \in 1..MaxHeight}

MaxLen == Max({Len(q) : q \in Queries})

Ops == {"values", "events", "lookup"}

TypeOK ==
  /\ StoreTypeOK
  /\ rpc \in {"idle", "first", "last", "check", "single", "spawn", "wait", "events"}
  /\ qop \in {"values", "events"}
  /\ qh \in QueryHeights
  /\ qregs \in Queries
  /\ first \in 1..MaxHeight \cup {Nil}
  /\ last \in 1..MaxHeight \cup {Nil}
  /\ loopI \in 1..MaxLen + 1
  /\ active \subseteq 1..MaxLen
  /\ values \in Seq(RegisterValues)
  /\ gerr \in BOOLEAN
  /\ qstart \in [Regs -> RegisterValues]
  /\ result \in {Nil} \cup
       [ok : BOOLEAN, op : Ops, h : QueryHeights, regs : Queries, vals : Seq(Answers)]

Init ==
  /\ StoreInit
  /\ rpc = "idle"
  /\ qop = "values"
  /\ qh \in QueryHeights
  /\ qregs \in Queries
  /\ first = Nil
  /\ last = Nil
  /\ loopI = 1
  /\ active = {}
  /\ values = <<>>
  /\ gerr = FALSE
  /\ qstart = [r \in Regs |-> Nil]
  /\ result = Nil

(* The answers of a call: an error, or the values.                         *)
Failed == [ok |-> FALSE, op |-> qop, h |-> qh, regs |-> qregs, vals |-> <<>>]
Answer(vals) == [ok |-> TRUE, op |-> qop, h |-> qh, regs |-> qregs, vals |-> vals]

(* A call returns; the reader goes back to idle.                           *)
Return(res) ==
  /\ result' = res
  /\ rpc' = "idle"

-----------------------------------------------------------------------------
(* Reader.Values(height, regs) or Reader.Events(height) is called.         *)
ValuesCall ==
  /\ rpc = "idle"
  /\ \E op \in {"values", "events"}, h \in QueryHeights, q \in Queries :
       /\ qop' = op
       /\ qh' = h
       /\ qregs' = q
  /\ rpc' = "first"
  /\ qstart' = [r \in Regs |-> IF qop' = "values" THEN GetPayload(qh', r) ELSE Nil]
  /\ UNCHANGED <<storeVars, first, last, loopI, active, values, gerr, result>>

(* first, err := r.First(): its own read transaction; a missing marker is  *)
(* an error ("could not check first height").                              *)
ValuesFirst ==
  /\ rpc = "first"
  /\ first' = Marker("first")
  /\ IF Marker("first") = Nil THEN Return(Failed) ELSE rpc' = "last" /\ UNCHANGED result
  /\ UNCHANGED <<storeVars, qstart, qop, qh, qregs, last, loopI, active, values, gerr>>

(* last, err := r.Last(): a second read transaction.                       *)
ValuesLast ==
  /\ rpc = "last"
  /\ last' = Marker("last")
  /\ IF Marker("last") = Nil THEN Return(Failed) ELSE rpc' = "check" /\ UNCHANGED result
  /\ UNCHANGED <<storeVars, qstart, qop, qh, qregs, first, loopI, active, values, gerr>>

(* The height check, then the fast path for one register or getValues,     *)
(* which allocates values and starts the range loop.                       *)
(* Mutant: the upper bound admits the height after last.                   *)
OutOfRangePastLast(h) == h < first \/ h > last + 1

OutOfRange(h) == h < first \/ h > last

ValuesCheck ==
  /\ rpc = "check"
  /\ qop = "values"
  /\ IF OutOfRange(qh)
       THEN Return(Failed) /\ UNCHANGED <<loopI, values, gerr>>
     ELSE IF Len(qregs) = 1
       THEN rpc' = "single" /\ UNCHANGED <<loopI, values, gerr, result>>
     ELSE /\ rpc' = IF Len(qregs) = 0 THEN "wait" ELSE "spawn"
          /\ loopI' = 1
          /\ values' = [i \in 1..Len(qregs) |-> Nil]
          /\ gerr' = FALSE
          /\ UNCHANGED result
  /\ UNCHANGED <<storeVars, qstart, qop, qh, qregs, first, last, active>>

(* Mutant: Events' copy of the check admits the height after last.        *)
EventsOutOfRangePastLast(h) == h < first \/ h > last + 1

(* The range check of Events, a copy of the one of Values.                 *)
EventsOutOfRange(h) == h < first \/ h > last

EventsCheck ==
  /\ rpc = "check"
  /\ qop = "events"
  /\ IF EventsOutOfRange(qh) THEN Return(Failed) ELSE rpc' = "events" /\ UNCHANGED result
  /\ UNCHANGED <<storeVars, qstart, qop, qh, qregs, first, last, loopI, active, values, gerr>>

(* RetrieveEvents(height, types) in one read transaction.                  *)
EventsRead ==
  /\ rpc = "events"
  /\ \/ Return(Answer(<<EventsAt(qh)>>))
     \/ ReadsFail /\ Return(Failed)
  /\ UNCHANGED <<storeVars, qstart, qop, qh, qregs, first, last, loopI, active, values, gerr>>

(* getValue(height, regs[0]) on the fast path.                             *)
ValuesSingle ==
  /\ rpc = "single"
  /\ \/ Return(Answer(<<GetPayload(qh, qregs[1])>>))
     \/ ReadsFail /\ Return(Failed)
  /\ UNCHANGED <<storeVars, qstart, qop, qh, qregs, first, last, loopI, active, values, gerr>>

(* Mutant: the loop runs one iteration past the last register.            *)
GoSpawnPastEnd ==
  /\ rpc = "spawn"
  /\ Cardinality(active) < Limit
  /\ active' = active \cup {loopI}
  /\ loopI' = loopI + 1
  /\ rpc' = IF loopI = Len(qregs) + 1 THEN "wait" ELSE "spawn"
  /\ UNCHANGED <<storeVars, qstart, qop, qh, qregs, first, last, values, gerr, result>>

(* g.Go: blocks while Limit goroutines run, then starts the goroutine of   *)
(* the current iteration.                                                  *)
GoSpawn ==
  /\ rpc = "spawn"
  /\ Cardinality(active) < Limit
  /\ active' = active \cup {loopI}
  /\ loopI' = loopI + 1
  /\ rpc' = IF loopI = Len(qregs) THEN "wait" ELSE "spawn"
  /\ UNCHANGED <<storeVars, qstart, qop, qh, qregs, first, last, values, gerr, result>>

(* Mutant: the closure captures the range variables shared by all          *)
(* iterations instead of the per-iteration copies: it sees the index of    *)
(* the latest iteration started.                                           *)
SlotOfShared(i) == loopI - 1

(* i, reg := i, reg: the goroutine of iteration i uses its own index for   *)
(* both the register it reads and the slot it writes.                      *)
SlotOf(i) == i

(* The goroutine of iteration i: getValue(height, reg), then values[i].    *)
GoRead(i) ==
  /\ i \in active
  /\ LET s == SlotOf(i) IN
       \/ /\ values' = [values EXCEPT ![s] = GetPayload(qh, qregs[s])]
          /\ UNCHANGED gerr
       \/ /\ ReadsFail
          /\ gerr' = TRUE
          /\ UNCHANGED values
  /\ active' = active \ {i}
  /\ UNCHANGED <<storeVars, qstart, rpc, qop, qh, qregs, first, last, loopI, result>>

(* return values, g.Wait(): once every goroutine has returned.             *)
ValuesWait ==
  /\ rpc = "wait"
  /\ active = {}
  /\ Return(IF gerr THEN Failed ELSE Answer(values))
  /\ UNCHANGED <<storeVars, qstart, qop, qh, qregs, first, last, loopI, active, values, gerr>>

-----------------------------------------------------------------------------
(* The point lookups: var x; err := r.db.View(r.lib.Retrieve<Kind>(key,    *)
(* &x)); return x, err. The record of the key, or the store's error when   *)
(* it is not found or the transaction fails; no range check.               *)
View(h) ==
  /\ rpc = "idle"
  /\ \/ BlockRecord(h) # Nil
        /\ result' = [ok |-> TRUE, op |-> "lookup", h |-> h, regs |-> qregs,
                      vals |-> <<BlockRecord(h)>>]
     \/ (BlockRecord(h) = Nil \/ ReadsFail)
        /\ result' = [ok |-> FALSE, op |-> "lookup", h |-> h, regs |-> qregs,
                      vals |-> <<>>]
  /\ UNCHANGED <<storeVars, qstart, rpc, qop, qh, qregs, first, last, loopI, active,
                 values, gerr>>

(* HeightForBlock, Commit and Header, keyed by block identifier or height. *)
HeightLookup == \E h \in QueryHeights : View(h)

(* Collection, CollectionsByHeight, Guarantee, Transaction,                *)
(* HeightForTransaction, TransactionsByHeight and Result.                  *)
ContentLookup == \E h \in QueryHeights : View(h)

(* Seal and SealsByHeight.                                                 *)
SealLookup == \E h \in QueryHeights : View(h)

ReaderNext ==
  \/ HeightLookup
  \/ ContentLookup
  \/ SealLookup
  \/ ValuesCall
  \/ ValuesFirst
  \/ ValuesLast
  \/ ValuesCheck
  \/ ValuesSingle
  \/ EventsCheck
  \/ EventsRead
  \/ GoSpawn
  \/ \E i \in 1..MaxLen : GoRead(i)
  \/ ValuesWait

Next ==
  \/ WriterNext /\ UNCHANGED readerVars
  \/ ReaderNext

Spec == Init /\ [][Next]_vars

-----------------------------------------------------------------------------
(* Properties.                                                             *)

(* A successful Values(height, regs) answers, at position i, the value     *)
(* regs[i] has after the block at that height, now and after every later  *)
(* commit of the writer: the fan-out puts each register's payload in its   *)
(* own slot, and a height the reader accepted as indexed (not above the    *)
(* Last it read) has all its payloads committed, never to change again.    *)
ValuesAligned ==
  result # Nil /\ result.ok /\ result.op = "values" =>
    /\ Len(result.vals) = Len(result.regs)
    /\ \A i \in 1..Len(result.regs) :
         result.vals[i] = GetPayload(result.h, result.regs[i])

(* The answer of a register, ordered by the height that wrote it.         *)
ValueHeight(v) == IF v = Nil THEN 0 ELSE v[1]

(* Whatever the writer commits while the goroutines run, a successful      *)
(* Values(height, regs) answers at position i a value of register regs[i]  *)
(* at that height that is not older than the one committed when the call   *)
(* began and not newer than the one committed now: each goroutine reads    *)
(* its own iteration's register into its own slot (the copy i, reg := i,   *)
(* reg), every slot is filled, and g.Go's limit lets every iteration run.  *)
ValuesReadDuringCall ==
  rpc = "idle" /\ result # Nil /\ result.ok /\ result.op = "values" =>
    /\ Len(result.vals) = Len(result.regs)
    /\ \A i \in 1..Len(result.regs) :
         LET v == result.vals[i]
             r == result.regs[i]
         IN /\ v = Nil \/ v[2] = r
            /\ ValueHeight(qstart[r]) <= ValueHeight(v)
            /\ ValueHeight(v) <= ValueHeight(GetPayload(result.h, r))

(* Values and Events answer only for a height inside the indexed range of *)
(* the store: First and Last are read in two transactions and the writer  *)
(* commits between them and after them, yet the height stays between the  *)
(* First and the Last marker committed by then.                            *)
ValuesWithinIndexedRange ==
  result # Nil /\ result.ok /\ result.op \in {"values", "events"} =>
    /\ Marker("first") # Nil /\ Marker("last") # Nil
    /\ Marker("first") <= result.h /\ result.h <= Marker("last")

(* With the sequential writer, a successful Events(height) answers the     *)
(* events of that height, as they stay: a height inside the range the call *)
(* read has its events committed and none of another height.               *)
EventsOfIndexedHeight ==
  atomic /\ result # Nil /\ result.ok /\ result.op = "events" =>
    result.vals = <<IF result.h \in EventHeights THEN <<result.h>> ELSE Nil>>

=============================================================================
