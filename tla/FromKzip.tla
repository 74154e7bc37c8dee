------------------------------- MODULE FromKzip -------------------------------
(***************************************************************************)
(* `scry2 from-kzip` without a shard cache: the parallel indexing run, its *)
(* delta-shard snapshots, kill and --resume, and the final merge           *)
(* (cmd_from_kzip in crates/scry2/src/main.rs).                            *)
(*                                                                         *)
(* A compilation unit (CU) is a number, its position in the kzip.  The     *)
(* rows a CU contributes are abstracted to the CU itself: an index file    *)
(* or an in-memory builder is the set of CUs whose rows it holds, and only *)
(* the NUMBER of rows (Rows) is kept, for the memory gauge.                *)
(*                                                                         *)
(* One action is one step between two points at which another thread, or a *)
(* kill, can observe the run: an atomic operation, a critical section, or  *)
(* an fsync + rename.                                                      *)
(***************************************************************************)
EXTENDS Integers, FiniteSets, FiniteSetsExt

CONSTANTS
    CUs,            \* every CU some kzip may hold
    Kzips,          \* the kzips the operator may index, each a set of CUs
    NWorkers,       \* --workers
    Rows,           \* rows of a CU after dedup_tables
    SnapshotEvery,  \* --snapshot-every; 0 disables
    SnapshotRows,   \* --snapshot-rows; 0 disables
    MaxStarts,      \* bound: how many times the operator starts the program
    Faults,         \* may a worker's own I/O (open, finish, shas) fail?
    LegacyBase,     \* may the first run find state left by the older format?
    StoreBuffer     \* may the raised snapshot flag reach other cores late?

ASSUME CUsAssumption      == CUs \subseteq Nat /\ IsFiniteSet(CUs)
ASSUME KzipsAssumption    == Kzips \subseteq (SUBSET CUs) \ {{}}
ASSUME WorkersAssumption  == NWorkers \in Nat \ {0}
ASSUME RowsAssumption     == Rows \in [CUs -> Nat]
ASSUME TriggersAssumption == SnapshotEvery \in Nat /\ SnapshotRows \in Nat
ASSUME ModesAssumption    == /\ MaxStarts \in Nat
                             /\ Faults \in BOOLEAN
                             /\ LegacyBase \in BOOLEAN
                             /\ StoreBuffer \in BOOLEAN

Worker == 0 .. NWorkers - 1

VARIABLES
    \* Files beside --out; these survive a kill.
    shards,         \* <out>.partial.shard.NNNN.s2db, as [idx, cus] records
    shasExists,     \* does <out>.partial.shas exist ...
    shas,           \* ... and the CUs it names
    baseExists,     \* does the legacy <out>.partial.s2db exist ...
    base,           \* ... and the CUs it holds
    out,            \* the CUs of the published <out>
    \* The operator.
    kzip,           \* the kzip the next run will index
    starts,         \* runs started so far
    \* The main thread, the heartbeat thread and the plan.
    main,           \* what the main thread is doing; "off": no process
    heartbeat,      \* is the heartbeat thread running?
    heartbeatStop,  \* heartbeat_stop
    fresh,          \* was this run started without --resume?
    todo,           \* per worker: the rest of its stripe of the plan
    merging,        \* the CUs of <out>.s2db.merging
    \* The worker threads.
    pc,             \* per worker: the next step of its loop body
    cur,            \* per worker: the CU it processes
    nth,            \* per worker: n, what done.fetch_add returned, plus one
    builder,        \* per worker: WorkerSink.builder
    rows,           \* per worker: delta_row_count() of that builder
    pendingShas,    \* per worker: WorkerSink.pending_shas
    \* Shared by the workers.
    activeCus,      \* active_cus
    snapActive,     \* snap_active, as the other cores see it
    snapWriter,     \* the holder of snap_writer_mu, or NoWorker
    lastSnapDone,   \* last_snap_done
    done,           \* done
    deltaRows,      \* delta_rows
    nextShard,      \* next_shard
    committedShas,  \* Accumulator.committed_shas
    \* The snapshotter's locals; the accumulator mutex is held all along.
    accBuilder,     \* Accumulator.builder
    drainedShas,    \* drained_shas, later staged_shas
    drainedRows,    \* drained_rows
    scan,           \* the next sink of `for ws in all_sinks`
    slot,           \* shard_idx
    \* Observation only; no action reads these.
    capped,         \* did the quiesce wait give up at its 30 s cap?
    folded          \* CUs this run folded into a sink or skipped as done

disk     == <<shards, shasExists, shas, baseExists, base, out>>
operator == <<kzip, starts>>
process  == <<main, heartbeat, heartbeatStop, fresh, merging>>
sinks    == <<builder, rows, pendingShas>>
shared   == <<lastSnapDone, done, deltaRows, nextShard, committedShas>>
gate     == <<activeCus, snapActive, snapWriter>>
snap     == <<accBuilder, drainedShas, drainedRows, scan, slot, capped>>
local    == <<todo, pc, cur, nth>>
vars     == <<disk, operator, process, sinks, shared, gate, snap, local, folded>>

NoWorker == NWorkers
NoCU     == -1

\* Workers between ActiveGuard's increment and its drop.
SnapshotPcs == {"quiesce", "drain", "write", "shas"}
BusyPcs     == {"index", "lock", "fold", "count", "trigger", "trylock", "recheck"}
ActivePcs   == {"check", "next"} \cup BusyPcs \cup SnapshotPcs
PcValues    == {"open", "gate", "park", "exit", "failed"} \cup ActivePcs

MainValues  == {"off", "join", "collapse", "abort", "merge", "promote",
                "sweepBase", "sweepShas", "sweepShards"}

ShardCUs(S) == UNION {s.cus : s \in S}
Durable     == (IF baseExists THEN base ELSE {}) \cup ShardCUs(shards)
Leftovers   == baseExists \/ shasExists \/ shards # {}

DiskType ==
    /\ shards \subseteq [idx : Nat, cus : SUBSET CUs]
    /\ shas \in SUBSET CUs /\ base \in SUBSET CUs /\ out \in SUBSET CUs

ProcessType ==
    /\ kzip \in Kzips /\ starts \in Nat
    /\ main \in MainValues
    /\ merging \in SUBSET CUs /\ folded \in SUBSET CUs

WorkersType ==
    /\ todo \in [Worker -> SUBSET CUs]
    /\ pc \in [Worker -> PcValues]
    /\ cur \in [Worker -> CUs \cup {NoCU}]
    /\ nth \in [Worker -> Nat]

SinksType ==
    /\ builder \in [Worker -> SUBSET CUs]
    /\ rows \in [Worker -> Nat]
    /\ pendingShas \in [Worker -> SUBSET CUs]

SharedType ==
    /\ activeCus \in Int /\ deltaRows \in Int
    /\ lastSnapDone \in Nat /\ done \in Nat /\ nextShard \in Nat
    /\ snapWriter \in Worker \cup {NoWorker}
    /\ committedShas \in SUBSET CUs

SnapType ==
    /\ accBuilder \in SUBSET CUs /\ drainedShas \in SUBSET CUs
    /\ drainedRows \in Nat
    /\ scan \in 0 .. NWorkers
    /\ slot \in Nat

FlagsType ==
    /\ shasExists \in BOOLEAN /\ baseExists \in BOOLEAN
    /\ heartbeat \in BOOLEAN /\ heartbeatStop \in BOOLEAN /\ fresh \in BOOLEAN
    /\ snapActive \in BOOLEAN /\ capped \in BOOLEAN

TypeOK ==
    /\ DiskType
    /\ ProcessType
    /\ WorkersType
    /\ SinksType
    /\ SharedType
    /\ SnapType
    /\ FlagsType

-----------------------------------------------------------------------------
(* Starting the program.                                                   *)

\* Mutants: numbering restarts at 0 on every start; an empty directory
\* yields the index before the first.
MutNextShardIndexRestarts == 0
MutNextShardIndexBelow == IF shards = {} THEN -1 ELSE Cardinality(shards)

\* next_shard_index: one past the highest shard on disk, not their number.
NextShardIndex ==
    CHOOSE i \in {0} \cup {s.idx + 1 : s \in shards} :
        \A s \in shards : s.idx < i

\* Worker w gets plan positions w, w + N, w + 2N, ...
Stripe(plan, w) ==
    {c \in plan : Cardinality({d \in plan : d < c}) % NWorkers = w}

\* The match on (base exists, shas exists) under --resume.
ResumeAccepted ==
    \/ baseExists /\ shasExists
    \/ ~baseExists /\ ~shasExists /\ shards = {}
    \/ ~baseExists /\ shasExists /\ shards # {}

\* The in-memory state of a process that has not begun, or is gone.
NoProcess ==
    /\ main = "off" /\ heartbeat = FALSE /\ heartbeatStop = FALSE
    /\ fresh = FALSE /\ merging = {}
    /\ pc = [w \in Worker |-> "exit"]
    /\ todo = [w \in Worker |-> {}]
    /\ cur = [w \in Worker |-> NoCU]
    /\ nth = [w \in Worker |-> 0]
    /\ builder = [w \in Worker |-> {}]
    /\ rows = [w \in Worker |-> 0]
    /\ pendingShas = [w \in Worker |-> {}]
    /\ activeCus = 0 /\ snapActive = FALSE /\ snapWriter = NoWorker
    /\ lastSnapDone = 0 /\ done = 0 /\ deltaRows = 0 /\ nextShard = 0
    /\ committedShas = {}
    /\ accBuilder = {} /\ drainedShas = {} /\ drainedRows = 0
    /\ scan = 0 /\ slot = 0 /\ capped = FALSE
    /\ folded = {}

Exit ==
    /\ main' = "off" /\ heartbeat' = FALSE /\ heartbeatStop' = FALSE
    /\ fresh' = FALSE /\ merging' = {}
    /\ pc' = [w \in Worker |-> "exit"]
    /\ todo' = [w \in Worker |-> {}]
    /\ cur' = [w \in Worker |-> NoCU]
    /\ nth' = [w \in Worker |-> 0]
    /\ builder' = [w \in Worker |-> {}]
    /\ rows' = [w \in Worker |-> 0]
    /\ pendingShas' = [w \in Worker |-> {}]
    /\ activeCus' = 0 /\ snapActive' = FALSE /\ snapWriter' = NoWorker
    /\ lastSnapDone' = 0 /\ done' = 0 /\ deltaRows' = 0 /\ nextShard' = 0
    /\ committedShas' = {}
    /\ accBuilder' = {} /\ drainedShas' = {} /\ drainedRows' = 0
    /\ scan' = 0 /\ slot' = 0 /\ capped' = FALSE
    /\ folded' = {}

\* A legacy run renamed its base first and its shas second, so it may have
\* left a base without shas but never a sha whose rows its base lacks.
Init ==
    /\ NoProcess
    /\ kzip \in Kzips /\ starts = 0
    /\ shards = {} /\ out = {}
    /\ \/ baseExists = FALSE /\ base = {} /\ shasExists = FALSE /\ shas = {}
       \/ /\ LegacyBase
          /\ baseExists = TRUE /\ base \in SUBSET kzip
          /\ shasExists \in BOOLEAN
          /\ shas = IF shasExists THEN base ELSE {}

\* The operator starts the program; resume is the --resume flag.
Start(resume) ==
    /\ main = "off" /\ starts < MaxStarts
    /\ resume => ResumeAccepted
    /\ starts' = starts + 1
    /\ LET doneShas == IF resume /\ shasExists THEN shas ELSE {}
       IN  /\ todo' = [w \in Worker |-> Stripe(kzip \ doneShas, w)]
           /\ committedShas' = doneShas
           /\ folded' = doneShas
    /\ nextShard' = NextShardIndex
    /\ fresh' = ~resume
    /\ main' = "join" /\ heartbeat' = TRUE
    /\ pc' = [w \in Worker |-> "open"]
    /\ UNCHANGED <<disk, kzip, heartbeatStop, merging, sinks, gate, snap,
                   cur, nth, lastSnapDone, done, deltaRows>>

\* Every other arm of the match bails before touching anything.
ResumeRefused ==
    /\ main = "off" /\ starts < MaxStarts
    /\ ~ResumeAccepted
    /\ starts' = starts + 1
    /\ UNCHANGED <<disk, kzip, process, sinks, shared, gate, snap, local, folded>>

\* `discard the partial and restart`: the operator deletes every leftover.
Discard ==
    /\ main = "off" /\ Leftovers
    /\ shards' = {} /\ shasExists' = FALSE /\ shas' = {}
    /\ baseExists' = FALSE /\ base' = {}
    /\ UNCHANGED <<out, operator, process, sinks, shared, gate, snap, local, folded>>

\* The operator rebuilds the kzip between two runs.
ReplaceKzip ==
    /\ main = "off"
    /\ kzip' \in Kzips \ {kzip}
    /\ UNCHANGED <<disk, starts, process, sinks, shared, gate, snap, local, folded>>

\* kill -9, OOM, reboot, or an error the main thread returns with `?`.
Crash ==
    /\ main # "off"
    /\ Exit
    /\ UNCHANGED <<disk, operator>>

-----------------------------------------------------------------------------
(* A worker's loop over its stripe.                                        *)

Goto(w, p) == pc' = [pc EXCEPT ![w] = p]

\* SubKzipWriter::open(kzip)?
OpenKzip(w) ==
    /\ pc[w] = "open"
    /\ \/ Goto(w, "gate")
       \/ Faults /\ Goto(w, "failed")
    /\ UNCHANGED <<disk, operator, process, sinks, shared, gate, snap,
                   todo, cur, nth, folded>>

\* while i < plan_len { active_cus.fetch_add(1) ... }
Enter(w) ==
    /\ pc[w] = "gate"
    /\ IF todo[w] = {}
       THEN Goto(w, "exit") /\ UNCHANGED activeCus
       ELSE Goto(w, "check") /\ activeCus' = activeCus + 1
    /\ UNCHANGED <<disk, operator, process, sinks, shared, snapActive,
                   snapWriter, snap, todo, cur, nth, folded>>

\* Mutant: the flag is read before the increment only.
MutCheck(w) ==
    /\ pc[w] = "check"
    /\ \E c \in todo[w] :
          /\ \A d \in todo[w] : c <= d
          /\ cur' = [cur EXCEPT ![w] = c]
    /\ Goto(w, "index")
    /\ UNCHANGED <<disk, operator, process, sinks, shared, gate, snap,
                   todo, nth, folded>>

\* The gate was down: break out of the loop and take plan[i].
Check(w) ==
    /\ pc[w] = "check" /\ ~snapActive
    /\ \E c \in todo[w] :
          /\ \A d \in todo[w] : c <= d
          /\ cur' = [cur EXCEPT ![w] = c]
    /\ Goto(w, "index")
    /\ UNCHANGED <<disk, operator, process, sinks, shared, gate, snap,
                   todo, nth, folded>>

\* The gate was up: active_cus.fetch_sub(1), then sleep.
BackOut(w) ==
    /\ pc[w] = "check" /\ snapActive
    /\ activeCus' = activeCus - 1
    /\ Goto(w, "park")
    /\ UNCHANGED <<disk, operator, process, sinks, shared, snapActive,
                   snapWriter, snap, todo, cur, nth, folded>>

Unpark(w) ==
    /\ pc[w] = "park" /\ ~snapActive
    /\ Goto(w, "gate")
    /\ UNCHANGED <<disk, operator, process, sinks, shared, gate, snap,
                   todo, cur, nth, folded>>

\* Extract, spawn the indexer, ingest its stream into a local builder, reap
\* the child.  "next": extract, command or spawn failed, `continue`.
\* "count": the indexer failed or wrote nothing.  "lock": it succeeded.
Index(w) ==
    /\ pc[w] = "index"
    /\ \E p \in {"next", "count", "lock"} : Goto(w, p)
    /\ UNCHANGED <<disk, operator, process, sinks, shared, gate, snap,
                   todo, cur, nth, folded>>

\* my_sink.lock(); a drain holds that lock only within DrainSink.
LockSink(w) ==
    /\ pc[w] = "lock"
    /\ Goto(w, "fold")
    /\ UNCHANGED <<disk, operator, process, sinks, shared, gate, snap,
                   todo, cur, nth, folded>>

\* Under that lock: merge the rows, push the sha, bump the gauge; unlock.
FoldSink(w) ==
    /\ pc[w] = "fold"
    /\ builder' = [builder EXCEPT ![w] = @ \cup {cur[w]}]
    /\ rows' = [rows EXCEPT ![w] = @ + Rows[cur[w]]]
    /\ pendingShas' = [pendingShas EXCEPT ![w] = @ \cup {cur[w]}]
    /\ deltaRows' = deltaRows + Rows[cur[w]]
    /\ folded' = folded \cup {cur[w]}
    /\ Goto(w, "count")
    /\ UNCHANGED <<disk, operator, process, lastSnapDone, done, nextShard,
                   committedShas, gate, snap, todo, cur, nth>>

\* let n = done.fetch_add(1) + 1
Count(w) ==
    /\ pc[w] = "count"
    /\ done' = done + 1
    /\ nth' = [nth EXCEPT ![w] = done + 1]
    /\ Goto(w, "trigger")
    /\ UNCHANGED <<disk, operator, process, sinks, lastSnapDone, deltaRows,
                   nextShard, committedShas, gate, snap, todo, cur, folded>>

SnapDue(n) ==
    \/ SnapshotEvery > 0 /\ n >= lastSnapDone + SnapshotEvery
    \/ SnapshotRows > 0 /\ deltaRows >= SnapshotRows

Trigger(w) ==
    /\ pc[w] = "trigger"
    /\ Goto(w, IF SnapDue(nth[w]) THEN "trylock" ELSE "next")
    /\ UNCHANGED <<disk, operator, process, sinks, shared, gate, snap,
                   todo, cur, nth, folded>>

\* snap_writer_mu.try_lock(): a losing candidate falls through.
TryLock(w) ==
    /\ pc[w] = "trylock"
    /\ IF snapWriter = NoWorker
       THEN snapWriter' = w /\ Goto(w, "recheck")
       ELSE Goto(w, "next") /\ UNCHANGED snapWriter
    /\ UNCHANGED <<disk, operator, process, sinks, shared, activeCus,
                   snapActive, snap, todo, cur, nth, folded>>

-----------------------------------------------------------------------------
(* The worker that holds snap_writer_mu takes a snapshot.                  *)

\* Test snap_due again, record n, raise snap_active.  The raise is a Release
\* store and the quiesce wait that follows an Acquire load of another
\* location, so the store may still be in this core's store buffer.
Recheck(w) ==
    /\ pc[w] = "recheck"
    /\ IF SnapDue(nth[w])
       THEN /\ lastSnapDone' = nth[w]
            /\ \/ snapActive' = TRUE
               \/ StoreBuffer /\ snapActive' = FALSE
            /\ Goto(w, "quiesce")
            /\ UNCHANGED snapWriter
       ELSE /\ snapWriter' = NoWorker
            /\ Goto(w, "next")
            /\ UNCHANGED <<lastSnapDone, snapActive>>
    /\ UNCHANGED <<disk, operator, process, sinks, done, deltaRows, nextShard,
                   committedShas, activeCus, snap, todo, cur, nth, folded>>

\* The buffered store becomes visible, at the latest when the snapshotter
\* locks the accumulator.
FlagLands(w) ==
    /\ pc[w] \in {"quiesce", "drain"} /\ ~snapActive
    /\ snapActive' = TRUE
    /\ UNCHANGED <<disk, operator, process, sinks, shared, activeCus,
                   snapWriter, snap, local, folded>>

\* Mutant: the floor forgets that another worker may hold the second count.
MutQuiesced == activeCus <= 2

\* The snapshotter's own ActiveGuard keeps the count at 1.
Quiesced == activeCus <= 1

\* Wait until only this worker is active, or 30 s.
Quiesce(w) ==
    /\ pc[w] = "quiesce"
    /\ \/ Quiesced /\ capped' = FALSE
       \/ ~Quiesced /\ capped' = TRUE
    /\ scan' = 0 /\ drainedShas' = {} /\ drainedRows' = 0
    /\ Goto(w, "drain")
    /\ UNCHANGED <<disk, operator, process, sinks, shared, gate, accBuilder,
                   slot, todo, cur, nth, folded>>

\* Mutant: the drain counts fewer tables than the fold added.
MutTakenRows(v) == IF rows[v] > 0 THEN rows[v] - 1 ELSE 0

\* taken_builder.delta_row_count()
TakenRows(v) == rows[v]

\* One sink: take rows and shas together, or skip it while its owner folds.
DrainSink(w) ==
    /\ pc[w] = "drain" /\ snapActive /\ scan < NWorkers
    /\ scan' = scan + 1
    /\ IF pc[scan] = "fold"
       THEN UNCHANGED <<sinks, accBuilder, drainedShas, drainedRows>>
       ELSE /\ accBuilder' = accBuilder \cup builder[scan]
            /\ drainedShas' = drainedShas \cup pendingShas[scan]
            /\ drainedRows' = drainedRows + TakenRows(scan)
            /\ builder' = [builder EXCEPT ![scan] = {}]
            /\ pendingShas' = [pendingShas EXCEPT ![scan] = {}]
            /\ rows' = [rows EXCEPT ![scan] = 0]
    /\ UNCHANGED <<disk, operator, process, shared, gate, slot, capped,
                   local, folded>>

\* Lower the gauge by what was drained and reserve a shard index.
Settle(w) ==
    /\ pc[w] = "drain" /\ scan = NWorkers
    /\ deltaRows' = deltaRows - drainedRows
    /\ slot' = nextShard
    /\ nextShard' = nextShard + 1
    /\ Goto(w, "write")
    /\ UNCHANGED <<disk, operator, process, sinks, lastSnapDone, done,
                   committedShas, gate, accBuilder, drainedShas, drainedRows,
                   scan, capped, todo, cur, nth, folded>>

\* delta.finish(shard_path): tmp, fsync, rename.
WriteShard(w) ==
    /\ pc[w] = "write"
    /\ shards' = {s \in shards : s.idx # slot}
                     \cup {[idx |-> slot, cus |-> accBuilder]}
    /\ accBuilder' = {}
    /\ Goto(w, "shas")
    /\ UNCHANGED <<shasExists, shas, baseExists, base, out, operator, process,
                   sinks, shared, gate, drainedShas, drainedRows, scan, slot,
                   capped, todo, cur, nth, folded>>

\* Mutant: the error return leaves snap_active raised (no SnapActiveGuard).
MutWriteShardFails(w) ==
    /\ pc[w] = "write" /\ Faults
    /\ accBuilder' = {}
    /\ snapWriter' = NoWorker
    /\ activeCus' = activeCus - 1
    /\ Goto(w, "failed")
    /\ UNCHANGED <<disk, operator, process, sinks, shared, snapActive,
                   drainedShas, drainedRows, scan, slot, capped, todo, cur, nth,
                   folded>>

\* finish failed: the delta is lost and the worker returns Err; its guards
\* clear snap_active, release snap_writer_mu and leave active_cus.
WriteShardFails(w) ==
    /\ pc[w] = "write" /\ Faults
    /\ accBuilder' = {}
    /\ snapActive' = FALSE /\ snapWriter' = NoWorker
    /\ activeCus' = activeCus - 1
    /\ Goto(w, "failed")
    /\ UNCHANGED <<disk, operator, process, sinks, shared, drainedShas,
                   drainedRows, scan, slot, capped, todo, cur, nth, folded>>

\* Mutant: the checkpoint lists only the CUs of this snapshot.
MutShasToWrite == drainedShas

\* Every durable CU: those already committed plus this shard's.
ShasToWrite == committedShas \cup drainedShas

\* write_partial_shas (a failure is only logged), then commit in memory and
\* leave the snapshot block.
WriteShas(w) ==
    /\ pc[w] = "shas"
    /\ \/ shasExists' = TRUE /\ shas' = ShasToWrite
       \/ Faults /\ UNCHANGED <<shasExists, shas>>
    /\ committedShas' = committedShas \cup drainedShas
    /\ drainedShas' = {} /\ drainedRows' = 0 /\ scan' = 0 /\ slot' = 0
    /\ capped' = FALSE
    /\ snapActive' = FALSE /\ snapWriter' = NoWorker
    /\ Goto(w, "next")
    /\ UNCHANGED <<shards, baseExists, base, out, operator, process, sinks,
                   lastSnapDone, done, deltaRows, nextShard, activeCus,
                   accBuilder, todo, cur, nth, folded>>

\* i += n_workers; ActiveGuard drops.
NextCU(w) ==
    /\ pc[w] = "next"
    /\ todo' = [todo EXCEPT ![w] = @ \ {cur[w]}]
    /\ cur' = [cur EXCEPT ![w] = NoCU]
    /\ nth' = [nth EXCEPT ![w] = 0]
    /\ activeCus' = activeCus - 1
    /\ Goto(w, "gate")
    /\ UNCHANGED <<disk, operator, process, sinks, shared, snapActive,
                   snapWriter, snap, folded>>

-----------------------------------------------------------------------------
(* The main thread: join, collapse the scope, merge, promote, sweep.       *)

\* Mutant: nobody tells the heartbeat to stop.
MutJoinOk ==
    /\ main = "join"
    /\ \A w \in Worker : pc[w] = "exit"
    /\ main' = "collapse"
    /\ UNCHANGED <<disk, operator, heartbeat, heartbeatStop, fresh, merging,
                   sinks, shared, gate, snap, local, folded>>

\* `for h in handles { h.join()??; }` saw Ok from every worker.
JoinOk ==
    /\ main = "join"
    /\ \A w \in Worker : pc[w] = "exit"
    /\ heartbeatStop' = TRUE
    /\ main' = "collapse"
    /\ UNCHANGED <<disk, operator, heartbeat, fresh, merging, sinks, shared,
                   gate, snap, local, folded>>

\* The first Err in handle order leaves the closure at the `?`.
JoinErr ==
    /\ main = "join"
    /\ \E w \in Worker : /\ pc[w] = "failed"
                         /\ \A v \in Worker : v < w => pc[v] = "exit"
    /\ main' = "abort"
    /\ UNCHANGED <<disk, operator, heartbeat, heartbeatStop, fresh, merging,
                   sinks, shared, gate, snap, local, folded>>

\* The heartbeat polls heartbeat_stop every 250 ms.
HeartbeatReturns ==
    /\ heartbeat /\ heartbeatStop
    /\ heartbeat' = FALSE
    /\ UNCHANGED <<disk, operator, main, heartbeatStop, fresh, merging, sinks,
                   shared, gate, snap, local, folded>>

\* thread::scope returns once every thread it spawned has: to the final
\* merge after Ok, out of the program after Err.
ScopeReturns ==
    /\ main \in {"collapse", "abort"}
    /\ ~heartbeat
    /\ \A w \in Worker : pc[w] \in {"exit", "failed"}
    /\ IF main = "collapse"
       THEN /\ main' = "merge"
            /\ UNCHANGED <<heartbeat, heartbeatStop, fresh, merging, sinks,
                           shared, gate, snap, local, folded>>
       ELSE Exit
    /\ UNCHANGED <<disk, operator>>

\* Mutants: the merge forgets the remainder still in the sinks; it forgets
\* the legacy base.
MutMergeInputsNoRemainder == Durable
MutMergeInputsNoBase ==
    accBuilder \cup (UNION {builder[w] : w \in Worker}) \cup ShardCUs(shards)

\* Accumulator + sinks + base + every shard found on disk.
MergeInputs ==
    accBuilder \cup (UNION {builder[w] : w \in Worker}) \cup Durable

\* write_merged_snapshot into <out>.s2db.merging.
FinalMerge ==
    /\ main = "merge"
    /\ merging' = MergeInputs
    /\ main' = "promote"
    /\ UNCHANGED <<disk, operator, heartbeat, heartbeatStop, fresh, sinks,
                   shared, gate, snap, local, folded>>

\* rename(.s2db.merging, out)
Promote ==
    /\ main = "promote"
    /\ out' = merging
    /\ main' = "sweepBase"
    /\ UNCHANGED <<shards, shasExists, shas, baseExists, base, operator,
                   heartbeat, heartbeatStop, fresh, merging, sinks, shared,
                   gate, snap, local, folded>>

\* Mutant: the shards go before the checkpoint that names their CUs.
MutSweepBase ==
    /\ main = "sweepBase"
    /\ baseExists' = FALSE /\ base' = {}
    /\ main' = "sweepShards"
    /\ UNCHANGED <<shards, shasExists, shas, out, operator, heartbeat,
                   heartbeatStop, fresh, merging, sinks, shared, gate, snap,
                   local, folded>>

SweepBase ==
    /\ main = "sweepBase"
    /\ baseExists' = FALSE /\ base' = {}
    /\ main' = "sweepShas"
    /\ UNCHANGED <<shards, shasExists, shas, out, operator, heartbeat,
                   heartbeatStop, fresh, merging, sinks, shared, gate, snap,
                   local, folded>>

SweepShas ==
    /\ main = "sweepShas"
    /\ shasExists' = FALSE /\ shas' = {}
    /\ main' = "sweepShards"
    /\ UNCHANGED <<shards, baseExists, base, out, operator, heartbeat,
                   heartbeatStop, fresh, merging, sinks, shared, gate, snap,
                   local, folded>>

\* The shards go one by one; after the last one the program returns.
SweepShards ==
    /\ main = "sweepShards"
    /\ IF shards = {}
       THEN Exit /\ UNCHANGED shards
       ELSE /\ \E s \in shards : /\ \A t \in shards : s.idx <= t.idx
                                 /\ shards' = shards \ {s}
            /\ UNCHANGED <<process, sinks, shared, gate, snap, local, folded>>
    /\ UNCHANGED <<shasExists, shas, baseExists, base, out, operator>>

-----------------------------------------------------------------------------

WorkerStep(w) ==
    \/ OpenKzip(w) \/ Enter(w) \/ Check(w) \/ BackOut(w) \/ Unpark(w)
    \/ Index(w) \/ LockSink(w) \/ FoldSink(w) \/ Count(w)
    \/ Trigger(w) \/ TryLock(w) \/ Recheck(w) \/ FlagLands(w) \/ Quiesce(w)
    \/ DrainSink(w) \/ Settle(w) \/ WriteShard(w) \/ WriteShardFails(w)
    \/ WriteShas(w) \/ NextCU(w)

MainStep ==
    \/ JoinOk \/ JoinErr \/ ScopeReturns \/ FinalMerge \/ Promote
    \/ SweepBase \/ SweepShas \/ SweepShards

OperatorStep ==
    \/ \E resume \in BOOLEAN : Start(resume)
    \/ ResumeRefused \/ Discard \/ ReplaceKzip

Next ==
    \/ \E w \in Worker : WorkerStep(w)
    \/ MainStep
    \/ HeartbeatReturns
    \/ OperatorStep
    \/ Crash

Spec == Init /\ [][Next]_vars

\* Every thread of a live process keeps being scheduled.  Operator and crash
\* are not fair.
FairSpec ==
    /\ Spec
    /\ \A w \in Worker : WF_vars(WorkerStep(w))
    /\ WF_vars(MainStep)
    /\ WF_vars(HeartbeatReturns)

-----------------------------------------------------------------------------
(* Safety.                                                                 *)

\* The checkpoint never names a CU whose rows are not in a shard or in the
\* legacy base: `--resume` skips exactly the CUs it names.  Relates
\* write_partial_shas to the order of finish, sweep and kill.
ShasDurable == shasExists => shas \subseteq Durable

\* Until a worker fails, every CU a run has folded (or skipped as already
\* done) is in a sink, in the accumulator, or durable: no race between folds,
\* drains and shard writes drops one.
NothingDropped ==
    (main \in {"join", "collapse", "merge"} /\ \A w \in Worker : pc[w] # "failed")
        => folded \subseteq accBuilder \cup (UNION {builder[w] : w \in Worker})
                                \cup Durable

Swept == main \in {"sweepBase", "sweepShas", "sweepShards"}

\* The published index holds every CU the run folded and every CU the
\* checkpoint it resumed from named, whatever kills came before.
OutputComplete == Swept => folded \subseteq out

\* `a racing snapshot always sees us and waits` (the comment on the gate):
\* once the snapshotter has passed its quiesce wait without hitting the cap,
\* no other worker runs an indexer or folds until the flag is lowered.  It
\* takes more than the code's orderings: with StoreBuffer it is violated.
QuiesceSound ==
    \A w, v \in Worker :
        (pc[w] \in {"drain", "write", "shas"} /\ ~capped /\ v # w)
            => pc[v] \notin BusyPcs

\* delta_rows is exactly the rows buffered in the sinks, plus what the
\* running drain has taken and not yet subtracted; so it never underflows.
GaugeExact ==
    deltaRows = MapThenSumSet(LAMBDA w : rows[w], Worker)
                  + (IF \E w \in Worker : pc[w] = "drain" THEN drainedRows ELSE 0)

(* What a step may never do.                                               *)

\* When the quiesce wait ends below its cap, no other worker is between its
\* increment of active_cus and the drop of its ActiveGuard: the count is
\* exact through back-outs, `continue`s and worker errors.
WaitSeesEveryone ==
    [][\A w \in Worker :
          (pc[w] = "quiesce" /\ pc'[w] = "drain" /\ ~capped')
              => \A v \in Worker \ {w} : pc[v] \notin ActivePcs]_vars

\* A snapshot has drained its first sink and has not lowered its flag yet.
Draining ==
    \E w \in Worker : \/ pc[w] = "drain" /\ scan > 0
                      \/ pc[w] \in {"write", "shas"}

\* Nobody gets past the gate during a drain, also after a wait that was cut
\* short by its cap or missed a worker: the CUs still in flight finish, and
\* no worker folds more than the one it was at.
GateHolds ==
    [][Draining /\ Draining'
          => \A v \in Worker : pc[v] \notin BusyPcs => pc'[v] \notin BusyPcs]_vars

\* A shard on disk is never overwritten or removed by a run before its final
\* sweep: next_shard_index and the reserved slots never collide with it.
NoOverwrite == [][main = "join" => shards \subseteq shards']_vars

\* A resumed run never forgets a CU of the checkpoint it was started from.
CheckpointGrows == [][(main = "join" /\ ~fresh) => shas \subseteq shas']_vars

(* What the run promises its operator.                                     *)

Build == INSTANCE ResumableBuild WITH
             Item       <- CUs,
             running    <- main # "off",
             resumed    <- main # "off" /\ ~fresh,
             accounted  <- folded,
             checkpoint <- shas,
             published  <- out

\* cmd_from_kzip is a resumable build: whatever is buffered, drained, killed
\* or merged, the shas file only ever names CUs some run accounted for, a
\* resumed run takes none back, the output is replaced only by one that holds
\* everything the run accounted for, and only then are the shas removed.
RefinesBuild == Build!Spec

(* Liveness.                                                               *)

\* Every worker returns, even when one fails in the middle of a snapshot: no
\* worker stays parked at the gate.
WorkersFinish ==
    main = "join" ~> \A w \in Worker : pc[w] \in {"exit", "failed"}

\* A run ends.
Terminates == main = "join" ~> main = "off"

\* A run ends unless one of its workers returns an error.
EndsUnlessFailed ==
    main = "join" ~> main = "off" \/ \E w \in Worker : pc[w] = "failed"

(* The inductive invariant behind ShasDurable, NothingDropped and          *)
(* OutputComplete, for runs that start without a legacy base.              *)

Running == main \in {"join", "abort"}

\* snap_writer_mu is held exactly by the worker in the snapshot block.
OneSnapshotter ==
    \A w \in Worker : pc[w] \in SnapshotPcs \cup {"recheck"} <=> snapWriter = w

\* Outside the scope's lifetime no worker runs.
WorkersJoined == ~Running => \A w \in Worker : pc[w] = "exit"

\* A worker past the gate has a CU of its own.
HasCU == \A w \in Worker : pc[w] \in (ActivePcs \ {"check"}) => cur[w] \in CUs

\* A sha never leaves its rows behind: in the sink, in the drain, on disk.
SinkCoupled == \A w \in Worker : pendingShas[w] \subseteq builder[w]
DrainCoupled ==
    \A w \in Worker :
        /\ pc[w] \in {"drain", "write"} => drainedShas \subseteq accBuilder
        /\ pc[w] = "shas" => drainedShas \subseteq Durable
CommittedDurable == Running => committedShas \subseteq Durable

\* Shard indices: the directory has a highest one, every one is below the
\* next to be handed out, and the reserved slot is above all of them.
ShardsBounded ==
    /\ shards = {} \/ \E t \in shards : \A s \in shards : s.idx <= t.idx
    /\ Running => \A s \in shards : s.idx < nextShard
    /\ \A w \in Worker :
          pc[w] = "write" => /\ slot < nextShard
                             /\ \A s \in shards : s.idx < slot

NoBase == ~baseExists /\ base = {}
SweptInOrder == main = "sweepShards" => ~shasExists

\* What the final merge wrote is what the run had folded.
MergedComplete == main = "promote" => folded \subseteq merging

\* Holds whatever the constants are ...
ControlInv ==
    /\ TypeOK
    /\ OneSnapshotter
    /\ WorkersJoined
    /\ HasCU
    /\ ShardsBounded

\* ... and this part when no legacy base is ever present.
DataInv ==
    /\ SinkCoupled
    /\ DrainCoupled
    /\ CommittedDurable
    /\ NoBase
    /\ SweptInOrder
    /\ ShasDurable

Conservation ==
    /\ NothingDropped
    /\ MergedComplete
    /\ OutputComplete

(* What the refinement needs besides.                                      *)

\* Every sha in memory is of an accounted CU, and a resumed run knows every
\* sha its checkpoint names.
Accounted ==
    /\ \A w \in Worker : pendingShas[w] \subseteq folded
    /\ drainedShas \subseteq folded
    /\ committedShas \subseteq folded
    /\ main = "off" => folded = {}
CheckpointKept ==
    /\ ~shasExists => shas = {}
    /\ (main # "off" /\ ~fresh) => shas \subseteq committedShas
=============================================================================
