# TLA+ models of flow-dps

This directory holds TLA+ models of the indexing pipeline of flow-dps, the TLC configurations that check them, and `PROJECT.json`. `PROJECT.json` lists the components, the runs, the mutants that show each checked property can fail, the source lines each definition models, the findings, and the hazards.

## The system and how its parts interact

| Part | Source | State | Operations | Interacts with |
|---|---|---|---|---|
| Execution Follower | `src/follower/execution/follower.go` | `data` (height → block, never evicted), `current`, `height`, `index`, `stop` | `Run` (ingest loop), `Update`/`next`, height-gated accessors, `Stop` | The block source feeds `Run`. The consumer calls `Update` on another goroutine, and the two share the struct without a lock. |
| Consensus Follower | `src/service/follower/consensus.go` | `data` (height → header, guarantees, seals), no lock | `OnBlockFinalized` (callback), `Header`/`Guarantees`/`Seals`, `Commit`/`Collections`/`Transactions`/`Results`/`Events` | The finalizer's goroutine runs the callback. The indexer reads on its own goroutine. Execution data is looked up by block ID. |
| Index Writer | not under `src/` (spec §4.3) | the persisted keyspaces: payloads in a pebble store (read through `lib2`), the rest in badger | `First`, `Last`, `Payloads`, … | Each kind is its own transaction. The default sequential writer commits a height's badger records together and its payloads in a separate write. |
| Index Reader | `src/service/index/reader.go` | none (reads the store) | `First`, `Last`, `Values`, `Events`, point lookups | Reads what the writer has committed, concurrently with it. |
| Rosetta intent | `src/rosetta/transactions/intent.go` | none | `CreateTransactionIntent` | Pure function, called by the Rosetta construction API. |

`main.go`, the generated gRPC code, the CBOR dictionary and the Rosetta response type are not modelled; the reasons are given below.

## Modules

### `ExecutionFollower` (with `MC_ExecutionFollower`)

**State.** Variables correspond to the struct fields:
- `data` is the set of cached heights.
- `current`, `height` and `index` are the struct fields of the same name.
- `stop` records that the stop channel has been closed.
- `run` is the control point of the `Run` loop.
- `inflight` is the height between the map insert (line 107) and the floor comparison (lines 111-118).

The block source is `pending`, a set of block files it will announce in any order. Besides the finalized block of every height it may hold a fork block at the heights in `Forks`. A block is abstracted to its height, to whether it is finalized or a fork block, to whether its seal and result agree (`consistent`), and to `NumUpdates` trie updates. `f.data` is keyed by height (the FIXME at line 46), so `kindAt` records which block of a height the map holds and `curFork` whether `f.current` is a fork block.

**Actions.**
- `Run` is split at the points where `Update` can interleave: `RunCheck` (stop check and full-cache spin), `RunReceive` (notify, read/decode/validate failure, insert) and `RunSetFloor`.
- `Update` is one action per path through `Update`+`next`: `UpdateWithin`, `UpdateUnavailable`, `UpdateMissing`, `UpdateMismatch` and `UpdateAdvance`.
- `Served(h)` gives what the height-gated accessors return.
- The seal/result cross-check is `CrossCheckOK`. The seal of block `b` is in block `b+1`'s payload, and a result is looked for only in the same payload, as the nested loop does. The loops fail only on a seal that names the block and disagrees. No seal names a fork block, so a fork block passes.
- The panic of `TrieUpdates[f.index]` on an index past the end is a guard that stops the consumer.

**Properties.**
- `StreamRefinement`: the module implements `ExecutionStream` (below).
- `CachedBlocksDelivered`: liveness. While the consumer has had no fatal error, a cached, consistent run of heights from its position is eventually delivered.
- Five properties are expected to be violated (see Runs). One of them, `DiscrepancyOnlyAtGap`, states §§5 and 7 of the spec: a not-yet-arrived block is "unavailable", and the fatal discrepancy is reserved for a gap below a buffered later height.

### `ExecutionStream`: what the Execution Follower promises

`ExecutionStream` is the abstract specification of the follower, written from spec §4.1:
- `ingested` is the set of received blocks. `Ingest` receives one.
- `pos` is the next update to hand out, `<<height, index>>`, or `Nil` before the stream begins.
- `Begin` fixes the start at the first block received.
- `Emit` hands out the update at `pos`, but only of a received block, and moves `pos` to the next index or to index 0 of the next height.
- `out` is the sequence handed out so far.

`ExecutionFollower` instantiates it with a refinement mapping:
- `ingested <- data`.
- `out <- delivered`, a history variable of the detailed module recording what `Update` returned.
- `pos <- Position`, computed from `height`, `current` and `index`. An `Update` past the last index of a block and a missing height both leave the follower at index 0 of the next height.

`StreamRefinement == Stream!StreamSpec` is checked as a temporal property. Every step of `Run`, `Update` and `Stop` must be an abstract step or a stutter. A seal/result mismatch maps to a stutter. The abstract stream does not mention the cross-check, so the rejected block's exposure is checked separately (`ef_rejected_exposed`).

### `ConsensusFollower` (with `MC_ConsensusFollower`)

**Actions.**
- `Finalize` is the finalizer.
- `OnBlockFinalized` is split into its read transaction (`OnBlockFinalizedLoad`, where any lookup may fail and the callback returns) and its unsynchronised map store (`OnBlockFinalizedStore`).
- `ExecutionArriveOf(b)` is the arrival of execution data for a block, including a fork block `f2` at height 2.
- `IndexNext` is an indexer that reads `Header` and `Commit` of the next height and retries while either is unavailable.
- `IndexRace` is the indexer reading `c.data` while the callback is in its store step. This is the runtime's fatal concurrent map access, recorded as `crashed`.

The execution data store (`Execution`) is not under `src/`. It is modelled from the spec as a set of executed block IDs.

### `IndexWriter` and `IndexReader` (with `MC_IndexReader`)

`IndexWriter` is modelled from the spec:
- The store is a set of committed records.
- `atomic` is the writer the process runs, fixed at start from `WriterModes`.
- The records the point lookups read are one `block` kind per height. These are the block-ID-to-height index, commit, header, collections, guarantees, transactions, results and seals. Identifiers are abstracted to their block's height.
- For each height in turn, the writer stages the block records, the payloads of the registers that height updates, the height's events if its block has any (`EventHeights`), `Last`, and `First` at the first height.
- The payloads are kept in a separate pebble store, which the reader reads through `r.lib2` (`reader.go:25-28`, 96). The other records are in the badger database it reads through `r.db`. `PayloadRecords` and `BadgerRecords` split a height's records by store.
- `CommitAll` commits the height's badger records in one transaction (sequential writer, `atomic`). `CommitPayloads` is that writer's separate write of the payloads, before or after it.
- `CommitKind` commits one kind's transaction at a time, in any order (concurrent transactions).
- `GetPayload(h, r)` returns the value written at the highest height ≤ h.
- `EventsAt(h)` is `RetrieveEvents`: the committed events of the height, or none.

`IndexReader` extends it with `Values`, `Events` and the point lookups, one call at a time, repeated. `qop` records which of `Values` and `Events` was called.

Point lookups:
- `View(h)` is one read transaction: the block record of the key, or an error when the record is not found or the read fails.
- `HeightLookup`, `ContentLookup` and `SealLookup` are the lookup methods in the three groups of the source (lines 73-93, 155-203 and 230-242). None of them checks the range.

`Events`:
- `EventsCheck` is the range check after `First` and `Last`, which it shares with `Values` (`ValuesFirst`, `ValuesLast`).
- `EventsRead` is `RetrieveEvents`, which may fail.

`Values`:
- `ValuesFirst` and `ValuesLast` are separate steps, because they are separate read transactions.
- `ValuesCheck` applies the range check and selects the fast path (`ValuesSingle`) or the fan-out.
- `GoSpawn` is `g.Go`, which blocks while `Limit` goroutines run.
- `GoRead(i)` is the closure: `getValue`, then `values[i]`, or an error.
- `ValuesWait` is `g.Wait`.
- `SlotOf(i)` is the per-iteration copy `i, reg := i, reg`.

### `Intent` (with `MC_Intent`)

`CreateTransactionIntent` is an operator:
- `Checks` lists the checks in source order, each with its error.
- The result is the first failing check, or the intent.
- An amount string is abstracted to its count of leading `-` and the remaining text, which is a natural or an unparseable `junk`.
- `validate.Account`, `validate.Currency` and `convert.ParseRosettaValue` are outside `src/` and modelled from their use. The currency validator canonicalises an alias (`cAlias` ↦ `cFlow`) and rejects `cBad`.

A driver calls the operator on every pair of a bounded set of operations, and `IntentMatchesReference` compares the result with a reference decision written from the function's doc comment.

## Runs

| Run | Expect | What it shows |
|---|---|---|
| `ef_safety` | pass | The follower refines `ExecutionStream`: only updates of received blocks are handed out, in height and index order from the first block received. This holds under every interleaving of ingest (heights and fork blocks in any order, I/O failures, a full cache), `Update` retries and `Stop`. Under weak fairness of `Run` and of a consumer that stops at a fatal error, a cached, consistent run of heights from the consumer's position is eventually delivered while it has had no fatal error (`CachedBlocksDelivered`). |
| `ef_rejected_exposed` | violation | **code bug:** after a seal/result mismatch, `f.current` is the rejected block. The accessors serve it and a retried `Update` returns its trie updates. |
| `ef_full_cache` | violation | The cache is never evicted. Once it holds `cacheSize` consumed blocks, `Run` spins forever with blocks still pending. |
| `ef_order_error` | violation | A lower height arriving after the first block received fails `Run` with "incorrect order" before anything is consumed. |
| `ef_discrepancy` | violation | `next` returns "unavailable" only for an empty `f.data`. So `Update` fails with the fatal discrepancy when its block has simply not arrived: between `Run`'s insert and its floor assignment (the trace TLC shows), and whenever the consumer has caught up with the producer. |
| `ef_fork` | violation | **code bug:** a fork block, received before or after the finalized block of its height, takes that height's slot in `f.data`. No seal names it, so `next`'s check passes, and `Update` returns its trie updates (`OnlyFinalizedExposed`). |
| `cf_safety` | pass | Every indexed height pairs the finalized block with its own commitment, never a fork's and never a missing one, while lookups fail (`IndexedIsFinalized`). Under fairness, every height the callback has stored, together with the heights below it, is eventually indexed (`StoredHeightsIndexed`). |
| `cf_race` | violation | **code bug:** the indexer's read of `c.data` can overlap the callback's map write, which is fatal in Go. |
| `ir_safety` | pass | Both writers are checked in one run. `Values` and `Events` answer only for a height between the `First` and `Last` committed by then, although they read the two in separate transactions. With either writer, a successful `Values` call answers, in each slot, its own register's value at the height, not older than when the call began and not newer than the store now holds, with the fan-out blocked by its limit (`ValuesReadDuringCall`). With the sequential writer, whose events and `Last` share a badger transaction, a successful `Events` call returns exactly the height's committed events. |
| `ir_torn` | violation | With concurrent transactions, `Last` can commit before the height's payloads, and `Values` then returns nil or older values for an accepted height. |
| `intent_reference` | pass | For every pair of operations on two different accounts, exactly the symmetrical withdrawal/deposit pairs are accepted, in either order, and the intent is built as the doc comment describes. |
| `intent_self_transfer` | violation | A withdrawal and a deposit on the same account are accepted: nothing compares the two accounts, although the doc comment asks for two different ones. |

Every property of a passing run has a mutant in `PROJECT.json`: a plausible bug in the mapped code that TLC detects. The mutants are:
- `f.index` not reset when `next` moves to the next block (the consumer stalls);
- `current` not cleared on a missing height (breaks the refinement);
- an unconditional height increment;
- `Header` answering only below the last finalized height (the indexer then waits forever);
- a missing `return` after the logged error;
- `Commit` ignoring the `ok` of the execution lookup;
- the loop running one past the end;
- closures sharing the range variables;
- an off-by-one in the range check of `Values` and of `Events`;
- currencies compared before canonicalisation.

## Bounds and why they suffice

**ExecutionFollower**
- Bounds: 3 heights, a fork block at height 2, 2 updates per block, cache of 2.
- Three heights allow a lower block after a higher one, a gap, a seal in the next block, and a full cache with a height still pending.
- Two updates separate "within a block" from "next block".
- One fork block can arrive before the finalized block of its height (and set the floor) or after it (and replace it). It is not the lowest height, so it can also arrive after that height was consumed. Every EF run includes it.

**ConsensusFollower**
- Bounds: 3 heights plus one fork block at height 2.
- The fork is enough for execution data of a non-finalized block to exist at a finalized height.

**IndexReader**
- Bounds: 2 heights, 3 registers (height 2 rewrites only `r2`), queries `<<r2>>` and `<<r1, r2, r3>>`, limit 2, heights 0..3, events at height 2 only, both writers.
- Together these cover the fast path, a fan-out that blocks on the limit, registers whose value comes from an earlier height, and heights below, inside and above the range. One height with events and one without show both answers of `Events`.

**Intent**
- Bounds: 3 accounts, 3 currencies, amounts with 0–2 minus signs over `{1, 2, junk}`, 3 types.
- Every pair is checked: 59,049 inputs.

## Fairness

- **ExecutionFollower:** `Run` is a goroutine that keeps running, so its actions are weakly fair. The consumer keeps calling `Update` and retries after "unavailable", but it does not call it again after a fatal discrepancy or mismatch, which halt the process (spec §7). Its fairness is therefore `WF_vars(ConsumerUpdate)`, where `ConsumerUpdate` is `Update` while no fatal error has been returned. `Stop` is not fair: nothing obliges anyone to call it.
- **ConsensusFollower:** weak fairness for the finalizer, the callback, the indexer and the arrival of each finalized block's execution data. `StoredHeightsIndexed` is checked under these assumptions. A height whose lookups failed in the callback is dropped for good. The spec calls this log-and-drop deliberate (§4.2, §9), so the property asks only for the heights the callback stored.

`CHECK_DEADLOCK FALSE` appears only in these places:
- in the consensus runs, because the process crash is terminal and the finalizer stops at the last height.

## What is not modelled

**Index Reader.**
- `LatestRegisterHeight` reads a marker that the spec's writer does not name, so the model has no writer of it.
- The point lookups are not distinguished by kind. Their records commit in one transaction of the model's writer, so an order among them under concurrent transactions is not explored.
- The partially filled slice that `getValues` returns alongside an error is not modelled.

**Index Writer.**
- Only payloads, events, `First` and `Last` are modelled; the other record kinds are not.
- Pipelining across heights is not modelled. It could let an older `Last` overwrite a newer one.

**Other code.**
- `main.go` is process wiring: flag parsing, `log.Fatal` on a bad flag or dial error, route registration, then the server goroutine, `<-sig`, a forced-exit goroutine on a second signal and `Shutdown` with a 30 s timeout. Its state is that of the echo HTTP server and the OS signal package, both outside this repository. A model would have to invent that behaviour, and no mutant of the few lines in `main.go` could break a property stated about it.
- `api_grpc.pb.go` is generated code.
- `zbor/transactions.go` is a byte constant.
- `rosetta/response/payloads.go` is a type.

**Go memory-model effects** are not modelled: torn reads of `f.height` and reordering are outside the model, which makes every access atomic. The execution follower's `f.data` is inserted by `Run` and read by `next` without a lock, which is the same fatal concurrent map access that `cf_race` shows in the consensus follower. The execution follower model keeps map accesses atomic so that its ordering properties stay checkable.

**Intent reference.** The reference follows the doc comment and rejects a transfer from an account to itself. The code accepts it (`intent_self_transfer`), so the passing run compares the two on pairs of different accounts.

**Composition of the two followers.** `Consensus` reads execution data through `*Execution`, a type that is not under `src/`. Its lookup by block ID is modelled from the spec as a set of executed block IDs. It is not composed with `ExecutionFollower`, whose `Update` is the only code under `src/` that produces execution data. A composition would model the code between them from nothing.

**Stop.** `Stop` closes the channel. No caller under `src/` calls it, so it is modelled as one guarded step.

## Plan for later work

1. Add a pipelined writer to the index model, so that `Last` can regress across heights.
2. Model operations of a length other than two in `Intent`, if callers in `src/` can reach them.
