-------------------------------- MODULE FileIds --------------------------------
(***************************************************************************)
(* File ids of `scry2 from-kzip`: the shared FileIdAllocator (kythe.rs),   *)
(* the `files` tables of builders and shards (writer.rs), and what becomes *)
(* of both across snapshots, kills, --resume, --cache-dir and the final    *)
(* merge (main.rs).                                                        *)
(*                                                                         *)
(* A path is a number and numbers are ordered as the sorted paths are.  A  *)
(* table holds `files`, a function from ids to paths, and `xrefs`, pairs   *)
(* of the path an xref was recorded for and the id it carries; the code    *)
(* stores only the id, so a reader finds files[id].                        *)
(*                                                                         *)
(* FromKzip has the locks, the gate, worker errors, the legacy base and    *)
(* the sweep order; here a snapshot drains any set of sinks at once and    *)
(* the sweep is one step.  Equal CUs have equal digests, so the shard      *)
(* cache is a function of CUs.                                             *)
(***************************************************************************)
EXTENDS Integers, Sequences, FiniteSets

CONSTANTS
    Paths,          \* file paths
    CUs,            \* compilation units
    Kzips,          \* the sets of CUs the operator may index
    Candidates,     \* per CU: the paths named by its proto
    Touches,        \* per CU: the paths its indexer's anchors name
    NWorkers,       \* --workers
    Modes,          \* how the operator starts runs
    OverLeftovers,  \* may a run without --resume start over a checkpoint?
    MaxStarts       \* bound: how many times the operator starts the program

ASSUME PathsAssumption  == Paths \subseteq Nat /\ IsFiniteSet(Paths) /\ 0 \in Paths
ASSUME KzipsAssumption  == CUs \subseteq Nat /\ Kzips \subseteq SUBSET CUs
ASSUME PerCUAssumption  == /\ Candidates \in [CUs -> SUBSET Paths]
                           /\ Touches \in [CUs -> SUBSET Paths]
ASSUME WorkerAssumption == NWorkers \in Nat \ {0}
ASSUME ModesAssumption  == /\ Modes \subseteq {"fresh", "resume", "cache"}
                           /\ OverLeftovers \in BOOLEAN
                           /\ MaxStarts \in Nat

Worker == 1 .. NWorkers

VARIABLES
    shards,     \* <out>.partial.shard.NNNN.s2db, in index order
    shasExists, \* does <out>.partial.shas exist ...
    shas,       \* ... and the CUs it names
    out,        \* the published <out>
    cached,     \* the shard cache in --cache-dir: CU -> shard
    kzip,       \* the kzip the next run will index
    starts,     \* runs started so far
    phase,      \* "off", "index", "promote" or "sweep"
    mode,       \* how this run was started
    seed,       \* seed_paths of this run's plan
    plan,       \* CUs no worker has taken
    ids,        \* AllocState: path -> id ...
    accessed,   \* ... the paths whose accessed bit is set ...
    nextId,     \* ... and the next id to hand out
    cu,         \* per worker: the CU it ingests, or NoCU
    left,       \* per worker: paths that CU has not interned yet
    own,        \* per worker: cu_builder
    sink,       \* per worker: WorkerSink.builder
    pending,    \* per worker: WorkerSink.pending_shas
    committed,  \* Accumulator.committed_shas
    due,        \* per worker: may it still snapshot for its last CU?
    writing,    \* the worker between a shard's and the shas file's rename
    staged,     \* staged_shas
    merging,    \* <out>.s2db.merging
    folded      \* observation only: CUs this run folded or skipped

disk    == <<shards, shasExists, shas, out, cached>>
alloc   == <<ids, accessed, nextId>>
workers == <<cu, left, own, due, sink, pending>>
run     == <<phase, mode, seed, plan, committed, writing, staged,
             merging, folded>>
vars    == <<disk, kzip, starts, alloc, workers, run>>

NoCU     == -1
NoWorker == 0
NoFiles  == [i \in {} |-> 0]     \* the empty function
NoTable  == [files |-> NoFiles, xrefs |-> {}]

IsTable(t) ==
    /\ DOMAIN t.files \subseteq Nat
    /\ \A i \in DOMAIN t.files : t.files[i] \in Paths
    /\ t.xrefs \subseteq Paths \X Nat

\* Types of the parts that matter to ids; the rest is of model values.
TypeOK ==
    /\ \A k \in DOMAIN shards : IsTable(shards[k])
    /\ \A w \in Worker : IsTable(own[w]) /\ IsTable(sink[w])
    /\ IsTable(merging) /\ IsTable(out)
    /\ shas \subseteq CUs /\ committed \subseteq CUs /\ staged \subseteq CUs
    /\ plan \subseteq CUs /\ folded \subseteq CUs
    /\ seed \subseteq Paths /\ accessed \subseteq DOMAIN ids
    /\ DOMAIN ids \subseteq Paths /\ nextId \in Nat
    /\ \A p \in DOMAIN ids : ids[p] \in Nat

-----------------------------------------------------------------------------
(* Tables.                                                                 *)

\* T is a family of tables indexed by numbers.  On a tied id the first one
\* that has it wins: merge_from, merge_files_first_wins.
FirstWith(T, i) ==
    CHOOSE k \in DOMAIN T : /\ i \in DOMAIN T[k].files
                            /\ \A j \in DOMAIN T : j < k => i \notin DOMAIN T[j].files
Merge(T) ==
    [files |-> [i \in UNION {DOMAIN T[k].files : k \in DOMAIN T} |->
                   T[FirstWith(T, i)].files[i]],
     xrefs |-> UNION {T[k].xrefs : k \in DOMAIN T}]

\* upsert_file for every entry of g.
Upsert(t, g) == Merge(<<t, [files |-> g, xrefs |-> {}]>>)

\* The id -> path tables push_to and drain_into may emit: accessed paths
\* only, in the hash map's order.
Emitted ==
    {g \in [{ids[p] : p \in accessed} -> accessed] :
        \A i \in DOMAIN g : ids[g[i]] = i}

\* Gives every path p the id num[p]; rows of a path without one are dropped.
Renumber(t, num) ==
    LET kept == {i \in DOMAIN t.files : t.files[i] \in DOMAIN num}
    IN  [files |-> [j \in {num[t.files[i]] : i \in kept} |->
                       CHOOSE p \in {t.files[i] : i \in kept} : num[p] = j],
         xrefs |-> {<<x[1], num[t.files[x[2]]]>> :
                       x \in {y \in t.xrefs : y[2] \in kept}}]

\* Ids as ranks in the sorted order of S.
Ranks(S) == [p \in S |-> Cardinality({q \in S : q < p})]

PathsOf(t) == {t.files[i] : i \in DOMAIN t.files}

\* localize_file_ids: ids are ranks among the CU's own files.
Localize(t) == Renumber(t, Ranks(PathsOf(t)))

\* Mutant: a shard's local ids go into the intermediate as they are.
MutRemap(t) == t

\* populate_from_shard_remapped: ids are ranks in this build's seed.
Remap(t) == Renumber(t, Ranks(seed))

-----------------------------------------------------------------------------
(* Starting a run.                                                         *)

\* Mutant: the empty path some anchors carry is not seeded.
MutSeedPaths(k) == UNION {Candidates[c] : c \in k}

\* Every path the plan's protos name, and the empty path, 0.
SeedPaths(k) == {0} \cup UNION {Candidates[c] : c \in k}

\* seed_from over the shards in index order: a path keeps the id it has in
\* the first shard that lists it, the lowest if it has several.
FirstListing(p) ==
    CHOOSE k \in DOMAIN shards :
        /\ p \in PathsOf(shards[k])
        /\ \A j \in 1 .. k - 1 : p \notin PathsOf(shards[j])
SeededIds ==
    [p \in UNION {PathsOf(shards[k]) : k \in DOMAIN shards} |->
        LET f == shards[FirstListing(p)].files
        IN  CHOOSE i \in DOMAIN f : f[i] = p /\ \A j \in DOMAIN f : f[j] = p => i <= j]

\* Mutant: the highest id in use, not one past it.
MutSeededNext ==
    LET used == UNION {DOMAIN shards[k].files : k \in DOMAIN shards}
    IN  CHOOSE n \in {-1} \cup used : \A i \in used : i <= n

\* One past every id any shard lists.
SeededNext ==
    LET used == UNION {DOMAIN shards[k].files : k \in DOMAIN shards}
    IN  CHOOSE n \in {0} \cup {i + 1 : i \in used} : \A i \in used : i < n

\* Mutant: the seed is numbered in another order than the merge's.
MutSeedIds(S) == [p \in S |-> Cardinality({q \in S : q > p})]

\* seed_paths on a fresh allocator.
SeedIds(S) == Ranks(S)

Idle == /\ phase = "off" /\ mode = "fresh"
        /\ seed = {} /\ plan = {} /\ committed = {} /\ folded = {}
        /\ writing = NoWorker /\ staged = {}
        /\ merging = NoTable
        /\ ids = NoFiles /\ accessed = {} /\ nextId = 0
        /\ cu = [w \in Worker |-> NoCU] /\ left = [w \in Worker |-> {}]
        /\ own = [w \in Worker |-> NoTable] /\ sink = [w \in Worker |-> NoTable]
        /\ pending = [w \in Worker |-> {}] /\ due = [w \in Worker |-> FALSE]

Exit == /\ phase' = "off" /\ mode' = "fresh"
        /\ seed' = {} /\ plan' = {} /\ committed' = {} /\ folded' = {}
        /\ writing' = NoWorker /\ staged' = {}
        /\ merging' = NoTable
        /\ ids' = NoFiles /\ accessed' = {} /\ nextId' = 0
        /\ cu' = [w \in Worker |-> NoCU] /\ left' = [w \in Worker |-> {}]
        /\ own' = [w \in Worker |-> NoTable] /\ sink' = [w \in Worker |-> NoTable]
        /\ pending' = [w \in Worker |-> {}] /\ due' = [w \in Worker |-> FALSE]

Init ==
    /\ Idle
    /\ shards = <<>> /\ shasExists = FALSE /\ shas = {} /\ out = NoTable
    /\ cached = NoFiles
    /\ kzip \in Kzips /\ starts = 0

\* What the command line and the files beside --out allow, and, unless
\* OverLeftovers, an operator who discards what he does not resume from.
MayStart(m) ==
    \/ m = "fresh" /\ (shards = <<>> \/ OverLeftovers)
    \/ m = "resume" /\ (shasExists <=> shards # <<>>)
    \/ m = "cache" /\ (~shasExists \/ OverLeftovers)

Start(m) ==
    /\ phase = "off" /\ starts < MaxStarts
    /\ MayStart(m)
    /\ starts' = starts + 1
    /\ phase' = "index" /\ mode' = m
    /\ seed' = SeedPaths(kzip)
    /\ LET done == IF m = "resume" THEN shas ELSE {}
       IN  plan' = kzip \ done /\ committed' = done /\ folded' = done
    /\ IF m = "resume"
       THEN ids' = SeededIds /\ nextId' = SeededNext
       ELSE ids' = SeedIds(seed') /\ nextId' = Cardinality(seed')
    /\ \/ UNCHANGED cached
       \/ m = "cache" /\ cached' = NoFiles     \* --clean
    /\ UNCHANGED <<shards, shasExists, shas, out, kzip, accessed, workers, writing,
                   staged, merging>>

\* The operator deletes what a killed run left.
Discard ==
    /\ phase = "off" /\ shards # <<>>
    /\ shards' = <<>> /\ shasExists' = FALSE /\ shas' = {}
    /\ UNCHANGED <<out, cached, kzip, starts, alloc, workers, run>>

\* The operator rebuilds the kzip.
ReplaceKzip ==
    /\ phase = "off"
    /\ kzip' \in Kzips \ {kzip}
    /\ UNCHANGED <<disk, starts, alloc, workers, run>>

\* A kill, or an error that ends the program.
Crash ==
    /\ phase # "off"
    /\ Exit
    /\ UNCHANGED <<disk, kzip, starts>>

-----------------------------------------------------------------------------
(* Workers.                                                                *)

\* A worker takes a CU of its stripe and starts ingesting the indexer's
\* stream into a builder of its own.
Take(w) ==
    /\ phase = "index" /\ cu[w] = NoCU /\ writing # w
    /\ due' = [due EXCEPT ![w] = FALSE]
    /\ \E c \in plan :
          /\ plan' = plan \ {c}
          /\ cu' = [cu EXCEPT ![w] = c]
          /\ left' = [left EXCEPT ![w] = Touches[c]]
    /\ UNCHANGED <<disk, kzip, starts, alloc, own, sink, pending, phase, mode,
                   seed, committed, writing, staged, merging, folded>>

\* Or it finds the CU's shard in the cache and copies it.
Reuse(w) ==
    /\ phase = "index" /\ mode = "cache" /\ cu[w] = NoCU
    /\ \E c \in plan \cap DOMAIN cached :
          /\ plan' = plan \ {c}
          /\ shards' = Append(shards, cached[c])
          /\ folded' = folded \cup {c}
    /\ UNCHANGED <<shasExists, shas, out, cached, kzip, starts, alloc, workers,
                   phase, mode, seed, committed, writing, staged, merging>>

\* An anchor of path p: file_ids.intern(p), upsert_file, emit the xref.
Intern(w) ==
    /\ phase = "index"
    /\ \E p \in left[w] :
          LET i == IF p \in DOMAIN ids THEN ids[p] ELSE nextId
              t == Upsert(own[w], [j \in {i} |-> p])
          IN  /\ ids' = [q \in DOMAIN ids \cup {p} |-> IF q = p THEN i ELSE ids[q]]
              /\ nextId' = IF p \in DOMAIN ids THEN nextId ELSE nextId + 1
              /\ accessed' = accessed \cup {p}
              /\ left' = [left EXCEPT ![w] = @ \ {p}]
              /\ own' = [own EXCEPT ![w] = [files |-> t.files,
                                            xrefs |-> t.xrefs \cup {<<p, i>>}]]
    /\ UNCHANGED <<disk, kzip, starts, cu, due, sink, pending, run>>

\* The indexer could not be run (no snapshot follows), failed or wrote
\* nothing: the CU's builder is dropped.
Fail(w) ==
    /\ phase = "index" /\ cu[w] # NoCU
    /\ cu' = [cu EXCEPT ![w] = NoCU]
    /\ left' = [left EXCEPT ![w] = {}]
    /\ own' = [own EXCEPT ![w] = NoTable]
    /\ \E d \in BOOLEAN : due' = [due EXCEPT ![w] = d]
    /\ UNCHANGED <<disk, kzip, starts, alloc, sink, pending, run>>

\* The CU succeeded: into the worker's sink, or, with a cache, localised
\* into a shard of its own, which is stored in the cache unless that fails.
Fold(w) ==
    /\ phase = "index" /\ cu[w] # NoCU /\ left[w] = {}
    /\ IF mode = "cache"
       THEN /\ shards' = Append(shards, Localize(own[w]))
            /\ \/ UNCHANGED cached
               \/ cached' = [c \in DOMAIN cached \cup {cu[w]} |->
                                IF c = cu[w] THEN Localize(own[w]) ELSE cached[c]]
            /\ UNCHANGED <<sink, pending>>
       ELSE /\ sink' = [sink EXCEPT ![w] = Merge(<<@, own[w]>>)]
            /\ pending' = [pending EXCEPT ![w] = @ \cup {cu[w]}]
            /\ UNCHANGED <<shards, cached>>
    /\ folded' = folded \cup {cu[w]}
    /\ due' = [due EXCEPT ![w] = mode # "cache"]
    /\ cu' = [cu EXCEPT ![w] = NoCU]
    /\ own' = [own EXCEPT ![w] = NoTable]
    /\ UNCHANGED <<shasExists, shas, out, kzip, starts, alloc, left, phase, mode,
                   seed, plan, committed, writing, staged, merging>>

\* A worker whose CU was counted may snapshot: it drains the sinks D it can
\* lock, adds every accessed path of the allocator (push_to) and writes a
\* shard ...
Snapshot(w, D) ==
    /\ phase = "index" /\ mode # "cache" /\ due[w] /\ writing = NoWorker
    /\ \E g \in Emitted :
          shards' = Append(shards, Upsert(Merge([v \in D |-> sink[v]]), g))
    /\ due' = [due EXCEPT ![w] = FALSE]
    /\ writing' = w /\ staged' = UNION {pending[v] : v \in D}
    /\ sink' = [v \in Worker |-> IF v \in D THEN NoTable ELSE sink[v]]
    /\ pending' = [v \in Worker |-> IF v \in D THEN {} ELSE pending[v]]
    /\ UNCHANGED <<shasExists, shas, out, cached, kzip, starts, alloc, cu, left, own,
                   phase, mode, seed, plan, committed, merging, folded>>

\* ... and then the shas file.
WriteShas ==
    /\ phase = "index" /\ writing # NoWorker
    /\ shasExists' = TRUE /\ shas' = committed \cup staged
    /\ committed' = committed \cup staged
    /\ writing' = NoWorker /\ staged' = {}
    /\ UNCHANGED <<shards, out, cached, kzip, starts, alloc, workers, phase, mode,
                   seed, plan, merging, folded>>

-----------------------------------------------------------------------------
(* The final merge.                                                        *)

WorkersDone ==
    /\ phase = "index" /\ plan = {} /\ writing = NoWorker
    /\ \A w \in Worker : cu[w] = NoCU

\* Mutant: once there are shards, what is still in the sinks is forgotten.
MutRemainder == IF shards = <<>> THEN Merge(sink) ELSE NoTable

\* final_delta: what no snapshot has drained.
Remainder == Merge(sink)

\* drain_into the remainder, then the shards in index order and the
\* remainder last.
MergeGlobal ==
    /\ WorkersDone /\ mode # "cache"
    /\ \E g \in Emitted :
          merging' = Merge(Append(shards, Upsert(Remainder, g)))
    /\ phase' = "promote"
    /\ UNCHANGED <<disk, kzip, starts, alloc, workers, mode, seed, plan,
                   committed, writing, staged, folded>>

\* With a cache: every shard on disk is remapped into intermediates, the
\* working shards are removed, the intermediates are merged.
Coalesce ==
    /\ WorkersDone /\ mode = "cache"
    /\ merging' = Merge([k \in DOMAIN shards |-> Remap(shards[k])])
    /\ shards' = <<>>
    /\ phase' = "promote"
    /\ UNCHANGED <<shasExists, shas, out, cached, kzip, starts, alloc, workers, mode,
                   seed, plan, committed, writing, staged, folded>>

Promote ==
    /\ phase = "promote"
    /\ out' = merging
    /\ phase' = "sweep"
    /\ UNCHANGED <<shards, shasExists, shas, cached, kzip, starts, alloc, workers,
                   mode, seed, plan, committed, writing, staged, merging, folded>>

\* The cache forgets CUs the kzip dropped (finalize), then the working files
\* go.
Sweep ==
    /\ phase = "sweep"
    /\ cached' = IF mode = "cache"
                 THEN [c \in DOMAIN cached \cap kzip |-> cached[c]] ELSE cached
    /\ shards' = <<>> /\ shasExists' = FALSE /\ shas' = {}
    /\ Exit
    /\ UNCHANGED <<out, kzip, starts>>

Next ==
    \/ \E m \in Modes : Start(m)
    \/ Discard \/ ReplaceKzip \/ Crash
    \/ \E w \in Worker : Take(w) \/ Reuse(w) \/ Intern(w) \/ Fail(w) \/ Fold(w)
    \/ \E w \in Worker, D \in SUBSET Worker : Snapshot(w, D)
    \/ WriteShas \/ MergeGlobal \/ Coalesce \/ Promote \/ Sweep

Spec == Init /\ [][Next]_vars

-----------------------------------------------------------------------------

\* Every xref of t leads to the file it was recorded for.
Sound(t) ==
    \A x \in t.xrefs : x[2] \in DOMAIN t.files /\ t.files[x[2]] = x[1]

\* In a published index every xref leads to the file it was recorded for,
\* whatever order workers interned paths in and whatever runs were killed and
\* resumed before: intern, seed_from, push_to and the first-wins merge of the
\* files tables never give one id to two paths.
XrefsKeepFile == Sound(out)

\* A published index has an xref to every path of every CU the run folded,
\* copied from the cache or skipped as already done: no remapping drops rows
\* of a path the seed missed, and no remainder is forgotten.
FoldedPublished ==
    phase = "sweep" =>
        \A c \in folded : Touches[c] \subseteq {x[1] : x \in out.xrefs}

\* The published ids are the ranks in the sorted seed, whether an id came from
\* seed_paths or from remapping a cached shard of another kzip, so the bytes
\* do not depend on scheduling or on the cache (only runs that are not
\* resumed, and only for paths the seed names).
IdsAreRanks ==
    (phase = "sweep" /\ mode # "resume") =>
        \A i \in DOMAIN out.files :
            out.files[i] \in seed => Ranks(seed)[out.files[i]] = i

(* The inductive invariants behind these, for an operator who discards a   *)
(* checkpoint before a run that does not resume from it.                   *)

\* A table's ids are those of the allocator map m.
Agrees(t, m) ==
    \A i \in DOMAIN t.files : t.files[i] \in DOMAIN m /\ m[t.files[i]] = i
OneToOne(m) == \A p, q \in DOMAIN m : m[p] = m[q] => p = q

\* The allocator gives no id twice, has not given nextId, and keeps the ids
\* seed_paths gave.
AllocInv ==
    /\ OneToOne(ids)
    /\ \A p \in DOMAIN ids : ids[p] < nextId
    /\ (phase # "off" /\ mode # "resume") =>
          \A p \in seed : p \in DOMAIN ids /\ ids[p] = Ranks(seed)[p]

\* The tables of T are sound and speak of one namespace.
OneSpace(T) ==
    /\ \A k \in DOMAIN T : Sound(T[k])
    /\ \A k, l \in DOMAIN T :
          \A i \in DOMAIN T[k].files, j \in DOMAIN T[l].files :
              T[k].files[i] = T[l].files[j] <=> i = j

\* The shards on disk are sound, and one namespace where a run may resume
\* from them.
ShardsInv ==
    /\ \A k \in DOMAIN shards : Sound(shards[k])
    /\ \A c \in DOMAIN cached : Sound(cached[c])
    /\ shasExists => OneSpace(shards)

\* A run with a cache keeps no checkpoint and finds none.
CheckpointInv == mode = "cache" => ~shasExists /\ writing = NoWorker

\* A running process continues that namespace.
RunInv ==
    (phase # "off" /\ mode # "cache") =>
        \A k \in DOMAIN shards : Agrees(shards[k], ids)

WorkersInv ==
    \A w \in Worker : /\ Sound(own[w]) /\ Agrees(own[w], ids)
                      /\ Sound(sink[w]) /\ Agrees(sink[w], ids)

\* No process keeps anything in memory.
OffInv == IF phase = "off" THEN Idle ELSE mode \in Modes

\* What is merged has the ids of the allocator or, with a cache, of the seed.
MergedInv ==
    /\ Sound(merging) /\ Sound(out)
    /\ phase \in {"promote", "sweep"} =>
          Agrees(merging, IF mode = "cache" THEN Ranks(seed) ELSE ids)
    /\ phase = "sweep" => out = merging

\* File ids form one namespace: the allocator, every builder in memory and,
\* unless a cache numbers each shard by itself, every shard on disk agree on
\* which path an id names, across kills and resumed runs.
NamespaceInv ==
    /\ OffInv
    /\ AllocInv
    /\ ShardsInv
    /\ CheckpointInv
    /\ RunInv
    /\ WorkersInv
    /\ MergedInv

\* The paths t has xrefs for.
Reached(t) == {x[1] : x \in t.xrefs}
OnDisk     == UNION {Reached(shards[k]) : k \in DOMAIN shards}
InSinks    == UNION {Reached(sink[w]) : w \in Worker}

\* What a checkpoint may skip is in the shards; so is what a sha in flight
\* names, once its sink is drained.
ShasHeld ==
    /\ \A c \in shas \cup committed \cup staged : Touches[c] \subseteq OnDisk
    /\ \A w \in Worker : \A c \in pending[w] : Touches[c] \subseteq Reached(sink[w])
    /\ \A c \in DOMAIN cached : Touches[c] \subseteq Reached(cached[c])

\* Every CU on its way: what is interned, folded and merged.
FoldedHeld ==
    /\ \A w \in Worker : cu[w] # NoCU =>
          Touches[cu[w]] \subseteq left[w] \cup Reached(own[w])
    /\ phase = "index" => \A c \in folded : Touches[c] \subseteq OnDisk \cup InSinks
    /\ phase \in {"promote", "sweep"} =>
          \A c \in folded : Touches[c] \subseteq Reached(merging)

\* No CU is named as done without a checkpoint.
NamedInv ==
    /\ ~shasExists => shas = {}
    /\ mode = "cache" => committed = {} /\ staged = {}

\* A run with a cache indexes the CUs of its kzip, whose paths it seeded.
PlanInv ==
    /\ phase # "off" => seed = SeedPaths(kzip)
    /\ mode = "cache" =>
          /\ plan \cup folded \subseteq kzip
          /\ \A w \in Worker : cu[w] \in kzip \cup {NoCU} /\ Reached(sink[w]) = {}

\* No row of a folded CU is lost between an indexer's stream and the output.
RowsInv ==
    /\ ShasHeld
    /\ FoldedHeld
    /\ NamedInv
    /\ PlanInv
=============================================================================
