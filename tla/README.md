# A TLA+ model of scry2

scry2 turns a kzip (an archive of compilation units, CUs) into one `.s2db`
index and answers cross-reference queries from it.  This directory models the
parts of it in which things happen concurrently, fail half-way or are
restarted, states what makes them correct, checks that with TLC on small
instances and proves the central results with TLAPS for every instance.

All paths below are relative to `crates/scry2/src/` unless they start with
`docs/`.

## Inventory

| Part | State | Operations | Hard because |
|---|---|---|---|
| Build pipeline, `main.rs` `cmd_from_kzip` | worker sinks, accumulator, gauges, flags; on disk: delta shards, `.partial.shas`, legacy base, output | start, `--resume`, index a CU, fold, snapshot, final merge, sweep | N workers, a snapshotter among them, a heartbeat thread, kills at any point, restarts over leftovers |
| File ids, `kythe.rs` `FileIdAllocator`, `writer.rs` | path -> (id, accessed), next id; `files` table of every shard | `seed_paths`, `seed_from`, `intern`, `push_to`, `drain_into`, `localize_file_ids`, remapping merge | one namespace across threads, shards, kills and resumes |
| Shard cache, `cache.rs`, cache mode of `main.rs` | shard files by digest, manifest, working and intermediate shards | `contains`, `store`, `finalize`, `clear`, coalesce levels | stale keys, concurrent stores, kills between coalesce, promote and prune |
| Builder and k-way merge, `writer.rs` | append-only tables, keyed `syms` and `files` | `upsert_sym`, `mark_field`, `merge_from`, `finish`, `write_merged_snapshot` | merge order depends on scheduling |
| Reader, `reader.rs` | immutable mmap | table lookups, trigram search | off-by-one at boundaries |
| Query server, `server.rs` | immutable index, request stream | one verb per request, call-graph walks | truncation, cycles, depth bounds |
| Kythe ingest, `kythe.rs` | anchors, pending edges, bridges, nesting | one entry at a time, then resolution | facts and edges arrive in any order |
| kzip reader, `kzip.rs` | none | decode, filter, normalise | pure I/O, not modelled |
| Format, replies, CLI, benchmarks | none | layout, rendering | not modelled |

The pipeline calls ingest (one builder per CU), ingest calls the allocator,
the pipeline merges builders into sinks, writes shards through the builder and
finally merges sinks, base and shards into `<out>`, which reader and server map
read-only.

What makes each part correct:

* pipeline: a kill never loses a CU the checkpoint names; nothing folded is
  dropped; the output is complete; shards are never overwritten; the run ends;
* file ids: an id means one path in everything that is merged together;
* cache: a hit yields what a fresh index would; a killed run leaves nothing
  that changes a later output;
* merge: the result does not depend on the order of its inputs;
* reader and server: results agree with a scan of the tables;
* ingest: the emitted rows do not depend on the order of the stream.

## Modules

| Module | What |
|---|---|
| `FromKzip` | the pipeline without a shard cache: state, actions, mutants, properties, the inductive invariant |
| `ResumableBuild` | what a build that can be killed and resumed promises; `FromKzip` implements it |
| `FromKzip_proofs` | the theorems about `FromKzip`: its safety, that it implements `ResumableBuild`, the snapshot gate and the row gauge |
| `FileIds`, `FileIds_proofs` | file ids: the allocator and the `files` tables over snapshots, kills, `--resume`, `--cache-dir` and the final merge; the theorems |
| `ShardCache`, `ShardCache_proofs` | `--cache-dir`: digests, hits, stores, coalescing and pruning, file by file and block by block; the theorems |
| `SymRefine` | which of two rows of a symbol survives a merge |
| `SortedRows`, `SortedRows_proofs` | the order of rows and names, shared by writer and reader; what sorting a set and merging two sorted streams give |
| `IndexTables`, `IndexTables_proofs` | builder, shards, coalescing and the k-way merge; the theorems |
| `Lists` | the filters of lists that reader and server use |
| `Induction` | induction and recursion over sets, and sums over finite sets, as the proofs use them |
| `NameSearch`, `NameSearch_proofs` | the trigram index, built and searched, and the threaded linear scan; what they compute |
| `IndexReader` | lookups and range scans over the tables |
| `Query`, `Query_proofs` | the verbs of the server; extends `NameSearch` and `IndexReader`; the theorems |
| `Rendering` | names, types and signatures from MarkedSource trees and type nodes |
| `Ingest` | one compilation unit's entry stream; extends `Rendering` and `SymRefine` |
| `MCFromKzip`, `MCFileIds`, `MCShardCache`, `MCIndexTables`, `MCQuery`, `MCIngest` | values of the constants for TLC |

The modules meet where the code does.  A CU of `FromKzip` is a unit of
`ShardCache` and a set of facts in `IndexTables`; the facts are the builder
calls `Ingest` leaves; the records `IndexTables` publishes have the sections
`IndexReader` reads; `SymRefine` is the rule `Ingest`, the builder and the merge
share.

### FromKzip: correspondence with the code

A CU is a number, its position in the kzip, and stands for its rows and its
sha.  An index file or an in-memory builder is the set of CUs whose rows it
holds; of the rows themselves only their number (`Rows`) is kept, for the
gauge.  One action is what one thread does between two points at which another
thread or a kill can observe it: an atomic operation, a critical section, or an
fsync followed by a rename (a file under its temporary name is never read).

| State | Code |
|---|---|
| `shards`, `shasExists`/`shas`, `baseExists`/`base`, `out` | the files beside `--out` |
| `builder`, `pendingShas`, `rows` | each `WorkerSink`, and its `delta_row_count` |
| `accBuilder`, `committedShas` | `Accumulator` |
| `activeCus`, `snapActive`, `snapWriter`, `lastSnapDone`, `done`, `deltaRows`, `nextShard` | the atomics and `snap_writer_mu` |
| `drainedShas`, `drainedRows`, `scan`, `slot` | locals of the snapshot block |
| `main`, `heartbeat`, `heartbeatStop` | the main thread and the heartbeat thread |
| `todo`, `pc`, `cur`, `nth` | each worker: rest of its stripe, next step, `plan[i]`, `n` |
| `capped`, `folded` | observation only: did the quiesce wait hit its cap; what this run folded or skipped |

A worker runs `OpenKzip`, then per CU `Enter`, `Check` (or `BackOut`,
`Unpark`), `Index`, `LockSink`, `FoldSink`, `Count`, `Trigger`, `NextCU`.  A
worker whose trigger is due goes on to `TryLock`, `Recheck`, `Quiesce`,
`DrainSink` once per sink, `Settle`, `WriteShard` (or `WriteShardFails`) and
`WriteShas`.  The main thread runs `JoinOk` or `JoinErr`, `ScopeReturns`,
`FinalMerge`, `Promote`, and the three sweeps.  `Start`, `ResumeRefused`,
`Discard` and `ReplaceKzip` are the operator's; `Crash` stands for a kill and
for an error the main thread returns after the workers are joined.

* `Index` stands for everything between taking a CU and its outcome: extract,
  spawn, ingest into a private builder, reap.  Its three outcomes are the three
  ways the code leaves that part.
* `LockSink` and `FoldSink` are two steps, so a drain can meet a held sink
  lock; `DrainSink` then skips that sink, as `try_lock` does.
* `StoreBuffer` lets the raised `snap_active` become visible after the
  snapshotter's load of `active_cus`.  The store is `Release`, the load
  `Acquire`, of different locations: neither Rust's memory model nor x86 orders
  them.  The snapshotter's next lock operation flushes the store, so
  `DrainSink` requires it to have landed.  Only `hang` does without it; the
  proofs cover both values.
* `capped` is true after a quiesce wait that gave up: time is not modelled, a
  wait may give up whenever its condition does not hold.
* A fault of a worker's own I/O (`Faults`) is a failing `SubKzipWriter::open`,
  `delta.finish` or `write_partial_shas`.  Panics are not modelled.
* File deletions of the sweep are assumed to succeed; the code ignores their
  errors.  A rename is durable once it returned.
* File ids and the `files` tables (`push_to`, `drain_into`, `seed_from`) are
  in `FileIds`.

### FromKzip and ResumableBuild

`ResumableBuild` knows items, a checkpoint and an output, and nothing of sinks,
drains, shards or threads: a run accounts for items, records some of them,
publishes an output that holds all of them, and only then gives the record up;
a resumed run starts from the record and never takes an item back.  The
refinement mapping (`Build` in `FromKzip`) takes the items for the CUs, the
record for the shas file and what is accounted for from `folded`.  A fold, a
`WriteShas`, the promote, `SweepShas`, a start, an exit or a kill is a step of
it; everything else stutters.

### FileIds: correspondence with the code

The two modules describe the same program from two sides.  `FromKzip` knows
which CUs a file holds; `FileIds` knows which path an id names in it.  A table
has `files` (id to path) and `xrefs`; an xref is a pair of the path the indexer
recorded and the id the code stored, so that a property can say whether
`files[id]` still is that path.  Paths are numbers ordered as the sorted paths,
and 0 is the empty path.

| State | Code |
|---|---|
| `ids`, `accessed`, `nextId` | `AllocState` of `FileIdAllocator` |
| `shards`, `shas`, `out`, `merging` | the files beside `--out` |
| `cached` | the shards in `--cache-dir`, by CU |
| `own`, `sink` | `cu_builder` and `WorkerSink.builder` of each worker |
| `seed` | `seed_paths` of the plan |
| `cu`, `left`, `plan` | what a worker ingests, what it has not interned yet, what nobody took |
| `due`, `writing`, `staged`, `pending`, `committed` | the snapshot in progress and the checkpoint |

* `Start` seeds the allocator: `seed_paths` (ranks of the sorted seed) or, with
  `--resume`, `seed_from` over the shards in index order.  It is refused as the
  code refuses it.  `OverLeftovers` says whether the operator starts a fresh or
  a cached run over a killed run's checkpoint without discarding it.
* `Intern` is one anchor: `intern`, `upsert_file` and the xref, one critical
  section of the allocator.  Workers interleave between anchors.
* `Snapshot` drains any set of sinks, as `try_lock` may skip some, adds the
  accessed paths (`push_to`) and writes a shard; `WriteShas` follows as a step
  of its own.  Draining sink after sink and copying the allocator last gives
  the same shard as one step taken when the copy is made: other workers only
  add to their own builders and to sinks not yet drained.
* `Reuse` is a cache hit; `Fold` in cache mode is a miss: `localize_file_ids`,
  a shard, and a store that may fail.  `Coalesce` is the remapping merge with
  all its levels, and the removal of the working shards; the levels only
  regroup a merge of tables that already share ids.
* A cached shard depends on the CU alone: the digest is taken to be exact here.
* Worker errors, the legacy base and kills inside the sweep are in `FromKzip`.

### ShardCache: correspondence with the code

A file is the sequence of its blocks, a block the rows it belongs to, or a hole.
`fs::copy` is one step per block, so that a kill, a failing disk or a second
writer meets it half-way; files of the cache directory are inodes, because two
workers may hold one temporary name open while a rename moves it.  A file
written by `IndexBuilder::finish` appears at once.

| State | Code |
|---|---|
| `data`, `entry`, `tmp` | the inodes of `--cache-dir`: `<digest>.s2db` and `.<digest>.<pid>.tmp` |
| `work`, `nextShard` | `<out>.partial.shard.<n>.s2db`, `next_shard` |
| `flags`, `todo`, `pc`, `job` | the run's indexer tag and injected arguments; the workers |
| `phase`, `level`, `out` | the main thread, the sources of the next merge, the output |

* `cu_content_digest` is the tuple of what the code hashes, in the form it is
  hashed: arguments in order, inputs as a set.  The hash itself is taken to be
  free of collisions.
* A unit has a `rest`: everything of its `CompilationUnit` that the digest
  leaves out (corpus and root of its name, the inputs' names and paths on disk,
  `source_file`, `working_directory`, `output_key`, `entry_context`, `details`).
* `RowsOf` is what an indexer makes of what `extract_with` hands it: the whole
  unit, `rest` included, its inputs and the arguments with the injected ones in
  front (`Injected`).  The flags the same transform strips depend on the
  arguments alone and are left out.
* `Opens` is `Index::open`: it looks at the header and at the length of the
  file, not at its contents.
* A kill loses no page the program has written; power loss is not modelled.
  One process uses a cache directory at a time.

### SymRefine, SortedRows and IndexTables: correspondence with the code

Names are values with a length, an order and two marks, ticket and degenerate:
that is all `prefers_name` looks at.  `Refine` is the tie case of the streaming
merge; `upsert_sym`, `set_sym_name` and `merge_from` use the same rules on a
builder.  A builder is a record of sets (its append-only tables, whose order is
lost in the sort) and of functions (`syms`, `files`); an index is a record of
sorted sequences.  `finish` and `write_merged_snapshot` each produce every
section, and they are two definitions here as they are two routines in the
code: the one sorts a builder, the other folds sorted streams (`fold_sources`).

`Ingest`, `Drain`, `WriteShard`, `Coalesce`, `Resume` and `Finalise` may come in
any order and grouping the bounds allow, which is more than the pipeline does.
`Reference` says what the output is from the facts alone.  A name is kept as
it is: `clamp_blob_str` (`writer.rs:1364`), by which both routines cut a name
longer than 65535 bytes, is the identity here, so two such names with one
beginning, which the file would no longer tell apart, are outside the model.

### NameSearch, IndexReader and Query: correspondence with the code

Row ids, block numbers and byte offsets start at 0 as in the code, and the
postings are cells: a skip entry takes `SKIP_ENTRY` of them and a gap as many as
its varint has bytes.  `TRIGRAM_BLOCK` and `VARINT_BASE` (128 in the code) are
constants, so that a list has several blocks and a gap several bytes in a small
instance.  `build_trigram_index` has the code's two passes.  `Probe` is one
candidate of the shortest list; `ScanRow` one row of one thread.

`Query` is one request against one index.  A verb that only gathers and renders
is one action; the two walks take a step per frontier node and per edge, since
the budget may end them in between.  Replies keep their items and the
`truncated` flag.

An index is any record that satisfies `IsIndex`: the sections have their
columns, are strictly ascending (names: ascending, the code breaks ties by the
symbol), a keyed section has a key once, and every symbol's row has its name in
the name section.  That is what `finish` and the merge write, and the ascending
part is what `FilesSearchReady` proves of them.  A symbol is below `MaxSym`, the
largest u64: for that one number the code's range scans, which end at
`sym.wrapping_add(1)`, would be empty, and a symbol is a 64-bit hash.

### Rendering and Ingest: correspondence with the code

A string is a sequence of tokens, and a MarkedSource tree a record, without its
wire form.  `st` is `IngestState`.  `Take` reads any entry that is left, so a
stream is read in every order; `Finalise` may come at any time, which is a
stream that breaks off and is tolerated (`Fail`: it is not).  The actions'
effects are one definition per edge and fact kind of `process_entry`; the end of
the stream is `remap` (the completes bridges) and `FinalCalls`.  The order in
which the unstable sort leaves bodies with one start is a choice of `Finalise`
(`TieOrders`); no stream of the run has such bodies (see below).  What the unit
leaves is the set of its calls on the builder, in the form `IndexTables` takes.

## Runs

`CHECK_DEADLOCK FALSE` in every configuration: after its last start the
operator may simply stop, and a merge, a request and a stream end.

| Run | Instance | Shows |
|---|---|---|
| `core` | 3 CUs, 2 workers, a snapshot every 2 CUs, late flag, 2 starts, faults | `ShasDurable`, `NothingDropped`, `OutputComplete`, `GaugeExact`, `WaitSeesEveryone`, `GateHolds`, `NoOverwrite`, `CheckpointGrows`, `RefinesBuild`, `TypeOK` |
| `weak` | 3 CUs of 1, 2, 3 rows, 2 workers, two kzips, a row budget, faults, a base from an older run, late flag, fair | `OutputComplete`, `GaugeExact`, `WorkersFinish`, `EndsUnlessFailed` |
| `ids` | any kzip of 2 CUs, 2 workers, 4 paths (one named by no proto, one by a proto only), 2 starts, fresh, resumed or cached | `NamespaceInv`, `XrefsKeepFile`, `FoldedPublished`, `IdsAreRanks`, `TypeOK` |
| `merge` | 6 CUs over 3 symbols, 2 sinks, 3 shards | `OutputIsReference`, `SearchReady` |
| `query` | 5 indexes, every verb, needles of up to 4 bytes, limits at and around what matches, depth 0 to 3 | `TrigramIsSerial`, `ScanSound`, `RegionsFilled`, `XrefsHonest`, `ListingsHonest`, `RelativesLocated`, `ForestSound`, `ForestClosed`, `BudgetKept` |
| `ingest` | 7 streams of up to 15 entries in any order, every MarkedSource tree of depth 2 | `RowsOfEntries`, `NamesClean` |
| `store` | 2 kzips of 1 and 2 units, 2 indexer versions, 2 workers, 2 blocks, groups of 2, 2 starts | `AdmittedIsWhole`, `PublishedAsHashed`, `CacheNeverAborts` |
| `hang` (violated) | faults, fair | `Terminates` |
| `gate` (violated) | 2 CUs, 2 workers, late flag, no faults | `QuiesceSound` |
| `ids_cache_resume` (violated) | 3 CUs of one path each, 3 starts, resumed or cached, over what the last one left | `XrefsKeepFile` |
| `twins` (violated) | two units with one digest, 3 blocks | `AdmittedIsWhole` |
| `stale` (violated) | one unit and the same unit extracted elsewhere, with and without an injected argument | `PublishedClean` |

Bounds of `FromKzip`.  Two workers are a snapshotter and a worker that races it;
three CUs give one worker a second CU, so it meets the gate again after a
snapshot.  Two starts are a kill and a resume, or a kill and a run over
leftovers; since a crash may come at any step, the second start meets every disk
state the first one can leave.  The theorems remove the bounds.

Bounds of `FileIds`.  Two CUs that share a path and each have one of their own
let two workers intern in either order; a resumed run's allocator knows only
what its shards list, so the other paths take ids beyond.  With any kzip of two
CUs a cached shard of one kzip is reused for another and remapped, or pruned.
Every anchor's path is in the seed or empty: for other paths the code states,
and debug-asserts, that they do not occur with a cache, and a release build
drops their rows (`OneNamespace` does not need this, `RowsPublished` needs it
only with a cache).

Bounds of `IndexTables`.  The six units are a definition, a use, a field, a
parameter whose kind one unit does not know, and the field again without its
subkind: every rule of `Refine` decides at least one merge.  Three shards make
every grouping of two or three, and a coalesced shard is coalesced again.
`OutputIsReference` is restricted to inputs on which the units agree
(`Consistent`); `SearchReady` is not.

Bounds of `Query`.  With blocks of two ids the list of "aab" has five blocks, so
the gallop doubles twice and a cursor resumes in the middle; with a base of
three, gaps take several bytes.  Two scanning threads have a boundary between
them.  The code base has copies of one symbol with edges on different copies,
copies whose tickets differ, a cycle, a symbol without metadata and a file
without a path.  The index `Odd` has what the proofs showed to matter: a ticket
that carries its copy's name as an alias only, tickets without a signature of
which one has a definition site, and a type of a symbol without metadata.

Bounds of `Ingest`.  Bodies in one another and beside each other, a call inside
and behind the inner one, a bridge, types that apply, nest and contain
themselves.  Depth two of a MarkedSource tree is a node, a child that decides
what is kept and a grandchild that is kept or not; initializers and modifiers
are among its kinds.

Bounds of `ShardCache`.  Two blocks are a header and a body that may be missing;
`twins` needs three, so that a hole lies between header and end.  The second
kzip has one unit with its arguments swapped (another digest) and one that was
extracted again in another working directory, with its inputs listed in another
order (the same digest).  Two indexer tags make every unit's digest change
between runs, or stay.  Workers are symmetric.

Fairness.  `FairSpec` assumes weak fairness of each worker, of the main thread
and of the heartbeat: they are OS threads that never wait on each other except
through the conditions in the guards, and an indexer subprocess is assumed to
end (the code sets no timeout).  The operator and crashes are not fair.

## Where the code and what is said of it differ

With a run that shows it:

* **A worker error hangs the run** (`hang`).  The `?` on the joined worker
  leaves the closure before `heartbeat_stop` is stored; `thread::scope` waits
  for the heartbeat.  `WorkersFinish` shows the workers themselves do return,
  and `EndsUnlessFailed` that nothing else keeps a run from ending.
* **The gate can be missed** (`gate`).  The comment at `main.rs:1456` says that
  a racing snapshot always sees a worker that increments before it checks.
  That needs a sequentially consistent order of the snapshotter's store of
  `snap_active` and its load of `active_cus`, which `Release` and `Acquire` on
  two locations do not give.  What is left is proved: the wait sees everyone
  who has incremented (`WaitSeesEveryone`), and once the drain's first lock has
  flushed the store nobody else enters (`GateHolds`).  It costs the memory
  bound; `core` and `weak` check every data property with the late flag.
* **Two kinds of shards under one name** (`ids_cache_resume`).  A killed
  `--cache-dir` run leaves shards with local ids where `--resume` looks for
  shards with global ids, and beside the shas file of an earlier run it accepts
  them.
* **One temporary name for two stores** (`twins`).  Two workers that store
  units with the same digest write one file, and the first rename publishes
  what the second has truncated.  The second copy fills the hole through the file
  it still holds open, unless it fails or the process is killed.
* **The digest is not of everything the indexer reads** (`stale`).  Neither
  `--inject-cu-arg` nor the rest of the compilation unit is in the key, and each
  alone is enough for the violation (`Injects <- NoInject`, or equal units).
  `docs/USAGE.md:142-145` and `cache.rs:38-43` say the key is complete.
  `PublishedAsHashed` says what a hit does promise.

Observed in the model, not kept as runs:

* The final sweep removes a legacy base (`main.rs:2242`) before the shas file.
  A kill in between and `--resume` publish an index without the base's CUs:
  `core` with `LegacyBase = TRUE` finds `OutputComplete` violated.  Without a
  base the order (shas, then shards) is the safe one, which `CheckpointDurable`
  proves.
* A run without `--resume` merges the shards a killed run left
  (`main.rs:2024`), where `docs/USAGE.md` says it rebuilds from scratch.  With
  `OverLeftovers = TRUE` and `Modes = {"fresh", "resume"}`, `FileIds` finds
  `XrefsKeepFile` violated as well: a resumed run numbers new paths in intern
  order, a fresh one by rank.
* `--max-syms` does not cap the roots.  `docs/USAGE.md:451` says it "caps total
  nodes", the help at `main.rs:273` and `main.rs:303` "Cap on total nodes in the
  forest"; both walks admit every root before they count (`server.rs:623-628`
  and `server.rs:776-780`), and a forest of roots alone is never flagged as
  truncated.  `NodesCapped` states the documented cap: in place of `BudgetKept`
  in `Query_query.cfg` it is violated, by a name with two roots and
  `max_syms = 1`.  `BudgetKept` says what the code does.
* Units that disagree about a known kind or language of a symbol, or that have
  two different degenerate names for it, make the output depend on the order of
  the merge; that is why `OutputIsReference` has its hypothesis.
* The linear scan stops each thread after `limit` rows (`reader.rs:625`), so a
  symbol with many aliases can hide others while fewer than `limit` symbols are
  found, and the reply is then not flagged; the comment at `reader.rs:582-584`
  says the result is the first-`limit` set of a serial scan.  `ScanSound` and `XrefsHonest` say
  what is left.
* Copies of an element whose tickets differ share a logical key and are shown
  as one, but `dup_syms` (`server.rs:573`) finds copies by the stored name, so
  their edges are not followed, where `docs/USAGE.md:454-458` says the edges of
  all copies are united.  `ForestClosed` speaks of copies with the same
  stored name.
* Of two bodies with one start, one in the other, a call goes to the one that
  the unstable sort (`kythe.rs:292`) puts last, while the comment at
  `kythe.rs:888` promises the smallest span: on a stream with such bodies
  `RowsOfEntries` is violated.
* A hit's copy that breaks off half-way leaves its cut-off working shard; the
  unit is indexed under another index, but the coalescing merge then fails on
  the shard it cannot open, where the comment at `main.rs:1513` says the run
  goes on.  A kill in the middle of such a copy leaves the same for the next
  run.  `CacheNeverAborts` excludes both (`spoiled`).

## What is proved

`FromKzip_proofs`, for every value of the constants allowed by the named
assumptions of `FromKzip`:

* `TypeCorrect`: `Spec => []TypeOK`; `ShardsNeverLost`: `Spec => NoOverwrite`.
  `TypeOK` is not inductive.  `ControlInv` adds that the writer mutex is held
  exactly by the worker in the snapshot block (`OneSnapshotter`), that no
  worker runs outside the scope (`WorkersJoined`), that a worker past the gate
  has a CU (`HasCU`), and that every shard index is below `next_shard` and the
  reserved slot above every shard (`ShardsBounded`), which is what makes a
  shard write an addition.
* `CheckpointDurable`, `FoldedRowsHeld`, `PublishedComplete`: `ShasDurable`,
  `NothingDropped` and `OutputComplete`, assuming `~LegacyBase` (with a base
  they fail, see above).  `DataInv` follows a sha from the sink
  through the drain to the shas file: in each place its rows are there too, or
  already on disk (`SinkCoupled`, `DrainCoupled`, `CommittedDurable`), and
  shards are removed only when no shas file is left (`SweptInOrder`).
  `Conservation` does the same for the rows up to the published file.

Each proof has a lemma for the initial states, one lemma per action or group of
actions, and a temporal step.  The conjuncts an action does not touch are
handled by frame lemmas.

For every number of workers and CUs also:

* `WaitIsExact`: `Spec => WaitSeesEveryone`; `GateIsKept`: `Spec => GateHolds`,
  with or without a late flag, faults and a cut-off wait.  `GateInvariant` adds
  to `ControlInv` that the counter is exactly the number of workers past the
  increment (`CountExact`, a cardinality) and that the flag is up during a
  snapshot, in the store buffer at first (`FlagUp`).
* `GaugeCounts`: `Spec => []GaugeExact`, and from it `GaugeNeverWraps`: the
  unsigned `delta_rows` never goes below zero.  The gauge is a sum over the
  sinks; a step changes at most one summand (`TotalUpdate` in `Induction`).

`FromKzip_proofs` again, assuming `~LegacyBase`:

* `Refinement`: `Spec => RefinesBuild`.  It needs the invariants above (a
  shas file that is written names folded CUs only, the merge holds everything
  folded) and, for a resumed run, that the file on disk is contained in what the
  run will write (`CheckpointKept`).  One lemma per action says which abstract
  step it is.
* `CheckpointNeverShrinks`: `Spec => CheckpointGrows`, from the same invariant.

`FileIds_proofs`, for every set of paths and CUs and every number of workers,
kills and starts:

* `TypeCorrect`: `Spec => []TypeOK`, in every mode.  It needs that the ids of a
  table are bounded (`Shape`), so that the next id exists.

The others assume `Apart`: a checkpoint that is not resumed from is discarded
before a fresh or a cached run (otherwise they fail, see above).  Runs of all
three kinds may follow each other.

* `OneNamespace`: `Spec => []NamespaceInv`.  `XrefsKeepFile` alone
  says nothing of the tables that will be merged.  `NamespaceInv` says that the
  allocator is one-to-one and its next id fresh (`AllocInv`), that every
  builder and sink agrees with it (`WorkersInv`), and so does every shard while
  a process runs (`RunInv`); between runs the shards at least agree with each
  other (`ShardsInv`), which is what lets `seed_from` rebuild an allocator they
  agree with (lemma `SeededContinues`).  A merge of tables that agree with one
  one-to-one allocator is such a table (`MergeKeeps`).
* `XrefsNeverMoved` and `PublishedRanks`: `XrefsKeepFile` and `IdsAreRanks`,
  from it.
* `RowsPublished`: `Spec => []FoldedPublished`.  `RowsInv` follows the rows of a
  folded CU from the worker's builder through sink, accumulator, cache entry
  and shard to the output, and the checkpoint's CUs to the shards that hold
  them.  With a cache it also assumes `SeedCovers`, that a CU's proto names the
  paths its anchors use: a path it does not name has no rank to be remapped to.

`ShardCache_proofs`, for every kzip, indexer, number of workers, blocks, kills
and restarts, assuming `NoTwins`: no two units of a kzip have one digest (with
such units it fails: `twins`):

* `WholeEntries`: `Spec => []AdmittedIsWhole`; `BuildSurvives`:
  `Spec => []CacheNeverAborts`.  `CacheInv` says that a digest has one writer,
  whose temporary is a prefix of a whole shard of its unit (`WritersInv`,
  `InodesInv`), and that a hit is copied from an entry nobody replaces
  meanwhile (`ReadersInv`).
* `HashedOutput`: `Spec => []PublishedAsHashed`, for all units, whatever they
  have beside what is hashed, and all injected arguments.  That the output is
  the clean build's is not a theorem: it is false (`stale`).  `RowsInv` says
  for each phase which shards hold the rows of the folded units
  (`FoldedShards`), through any number of coalescing levels; a row is matched
  to a unit by what the digest covers (`StandsFor`), which is all that an
  entry's digest tells about it.

`SortedRows_proofs` and `IndexTables_proofs`, for every finite set of facts per
unit, every set of units and sinks and every bound on the shards.  The
assumptions are `FactsAssumption` (the facts have the shapes the ingest's calls
have, and a file id stands for one path, which is what `FileIds` is about),
`StringsAssumption` (a string is the number of its place in the order) and those
of `SymRefine` about names.

* A table is determined by the set of its rows: `Sorted` lists a finite set
  ascending (`SortedAscends`) and any ascending list is that one
  (`AscendingUnique`).  A pass over two ascending streams gives the ascending
  list of the merged set, for every order of keys and every pick on a tie that
  keeps the key (`MergeCorrect`); the pass is a recursive function, whose
  existence follows from `Recursion` in `Induction`.
* `KWayMerge`: the streaming merge of any number of finished builders and a
  delta is `finish` of their union in memory.  `ReplayIsMerge`: to replay an
  index is to merge the builder it was written from, less what the file does
  not keep (`Norm`: a variable's aliases, all but the smallest string of a
  symbol).  `CoalesceAgrees`: the two ways to coalesce write the same file.
* `FilesSearchReady`: `Spec => []SearchReady`, also when units disagree.
* `OutputFromFacts`: `Spec => []OutputIsReference`.  Both follow from one
  invariant.  `BuildInv(G)` says that each sink, each shard and the output
  stands for a set of units, that these sets together are the units ingested
  so far, and that a file is `finish` of a builder related by `G` to its units.
  It is inductive for every `G` that joining two builders, writing and reading
  back, and ingesting a unit respect (`Closed`).  For `FilesSearchReady` `G`
  relates everything; for `OutputFromFacts` it is `Holds`: the builder has
  exactly the rows, files and symbols of the facts, of each symbol's names one
  that no other is preferred to, a kind and a language some unit knows if any
  does, and lacks only aliases and strings that the file would not keep.
  `Holds` does not need the units to agree; that a file is `Reference` of its
  units does (`Consistent`, lemma `FinishIsReference`).
* `RefineAssociative`: how shards are grouped never matters for a symbol's row,
  even when units disagree.  `RefineCommutes`: their order does not matter
  either when they agree.

`NameSearch_proofs` and `Query_proofs`, for every index that satisfies `IsIndex`,
every request (`CasesAssumption`), every number of threads, block size and
varint base of at least two (`SearchAssumption`):

* `ScanIsSound`: `Spec => []ScanSound`.  `ScanInv` says that the threads' ranges
  divide the name table in order and that each thread holds what its part so
  far has, up to the limit.
* `RegionsAreFilled`: `Spec => []RegionsFilled`.  Both passes of the builder see
  one list of (trigram, row) pairs; after any prefix of it, the first pass has
  for each trigram the number and the bytes of its ids so far, and the second
  has filled the region of each list up to that place and touched nothing else
  (`WInv`, which rests on the dictionary's regions lying side by side and on
  a varint decoding to what it encodes, at any place of the postings).
* `TrigramSearchIsSerial`: `Spec => []TrigramIsSerial`.  `Probing` says that
  the ids not yet probed are a suffix of the shortest list, that no cursor has
  passed a block that may still hold one of them, and that `out` is what a
  serial scan of the rows below them finds.  The gallop and the two binary
  searches return the first block whose last id reaches the candidate, from
  every cursor that is not too far.
* `XrefsAreHonest`, `ListingsAreHonest`, `RelativesAreLocated`: `XrefsHonest`,
  `ListingsHonest`, `RelativesLocated`.  A bisection returns the first row not
  below its needle, so a range scan returns exactly the rows of its range and
  a key lookup the row of its key; the name lookup returns the symbols of the
  name.  `Searched`, the conjunction of the invariants of the search, of what
  it has gathered and of the replies, is inductive.
* `ForestIsSound`, `ForestIsClosed`, `BudgetIsKept`: `ForestSound`,
  `ForestClosed`, `BudgetKept`.  A reply says nothing about a walk that is still
  on its way, so `Foresting` adds `WalkOk`: every node is rightly hung and every
  seen symbol is shown by a node (`Steady`), every edge in hand is one of a copy
  of its node (`EdgesOk`), what a node of a finished hop reaches is shown, or in
  hand, or the node still waits (`ClosedOk`), and only the roots may have used
  up the budget (`BudgetOk`); a walk that stops has just admitted a node past
  the roots that reaches it, which makes the flag exact (`StoppedFlag`,
  `EndedFlag`).

Three properties of `Query` were false as they stood before the proofs, on
indexes the instance did not have, and were corrected (the code was modelled
rightly).  A symbol without metadata is listed by `type` under `?`
(`ListingsHonest`); of several tickets without a signature the first is shown,
by its site if it has one (`RelativesLocated`); a ticket that has its copy's name
as an alias lends it its edges (`ForestSound`).  The index `Odd` now has all
three.

Induction over data.  The library's induction theorems take an operator, which
the provers cannot instantiate; `Induction` states them over a set instead
(`NatSetInduction`, `SubsetInduction`), so that an instance is a set
comprehension.  From these come sums over finite sets, folds over sequences and
the existence of the recursive functions.

Only model-checked: everything with a legacy base, with twins or over
leftovers; `RowsOfEntries` and `NamesClean` of
`Ingest`; and all liveness (`WorkersFinish`, `EndsUnlessFailed`), which needs
fairness and `ENABLED`, outside the prover's logic.  `Rendering`, and `Ingest`
through it, walk trees of any depth with recursive operators: what they compute
for every tree is an induction over data, and behind such an operator the prover
has no arithmetic.

## Not modelled

* `kzip.rs`: archive and protobuf decoding, filtering and normalising a kzip.
  What it yields is the constant `Kzips`; the rewriting of a unit on its way to
  the indexer and what it is handed are `Injected` and `RowsOf` in `ShardCache`.
* The socket loop, JSON and the `stat` verb of the server, the rendering of
  replies, the command line, the byte layout of the format.
* Panics, power loss, and errors of the sweep's deletions, which the code
  ignores.
* Time: the 30 s cap of the quiesce wait may strike whenever it waits, the
  heartbeat's period is left out.
* The benchmarks.

## Plan

What could follow, in this order:

1. `NamesClean` for every tree: `Rendering` over a flat representation of the
   trees (nodes with a parent and a place), whose walk is a fold, so that it can
   be proved as the builder's passes are.
2. `RowsOfEntries`: the rows of a stream as a function of the set of its entries;
   the parked edges are the only state that depends on the order.
3. One theorem across the modules: the file `IndexTables` publishes satisfies
   `IsIndex`.  The two modules represent names differently, as places in the
   order and as strings, so this needs a mapping between them.
