------------------------------ MODULE ShardCache ------------------------------
(***************************************************************************)
(* `scry2 from-kzip --cache-dir`: the cache of per-CU shards (cache.rs)    *)
(* and the run that reads and fills it (main.rs), file by file.            *)
(*                                                                         *)
(* A file is the sequence of its blocks, a block the rows it is part of,   *)
(* or Hole where nothing was written.  A copy is written block by block,   *)
(* so a kill, a failing disk, another writer or a reader may meet it half  *)
(* done; a file written by IndexBuilder::finish appears at once (tmp,      *)
(* fsync, rename).  A kill loses no page the program has written: power    *)
(* loss is not modelled.  One process uses the cache at a time.            *)
(***************************************************************************)
EXTENDS Integers, Sequences, FiniteSets, SequencesExt

CONSTANTS
    Kzips,      \* the kzips the operator may index, each a set of units
    Tags,       \* values of indexer_version_tag: the indexers installed
    Injects,    \* lists of --inject-cu-arg arguments a run may be given
    Worker,     \* the worker threads
    NBlocks,    \* blocks of a shard; the first holds the header
    Group,      \* COALESCE_GROUP
    MaxStarts   \* bound: how many times the operator starts the program

Units  == UNION Kzips

\* A unit has a sha, which no other unit of its kzip has, a language,
\* arguments, required inputs as <<path, content digest>> pairs, and the rest
\* of its CompilationUnit: its own and its inputs' v_names, source_file,
\* working_directory, output_key, entry_context, details.
ASSUME UnitsAssumption ==
    \A u \in Units : {"sha", "lang", "args", "inputs", "rest"} \subseteq DOMAIN u
ASSUME BoundsAssumption ==
    /\ IsFiniteSet(Worker)
    /\ NBlocks \in Nat \ {0}
    /\ Group \in Nat \ {0, 1} /\ MaxStarts \in Nat

VARIABLES
    data,       \* inode -> blocks, for the files of the cache directory
    entry,      \* digest -> inode: shards/<digest>.s2db
    tmp,        \* digest -> inode: shards/.<digest>.<pid>.tmp of this process
    work,       \* idx -> blocks: <out>.partial.shard.<idx>.s2db
    out,        \* the rows of the published <out>
    kzip,       \* the kzip the next run will index
    starts,     \* runs started so far
    phase,      \* what the main thread does; "off": no process
    flags,      \* this run's toolchain tag and injected arguments
    todo,       \* units no worker has taken
    nextShard,  \* next_shard
    pc,         \* per worker: the next step of its loop body
    job,        \* per worker: unit, reserved index, open inode, copied blocks
    level,      \* rows of the sources of the next merge
    \* Observation only; no action reads these.
    folded,     \* units of this run that have a working shard
    spoiled     \* did this run find shards, or lose a copy half way?

disk    == <<data, entry, tmp, work, out>>
main    == <<phase, flags, level>>
pool    == <<todo, nextShard, pc, job>>
vars    == <<disk, kzip, starts, main, pool, folded, spoiled>>

None == 0
Hole == [hole |-> TRUE]
NoFiles == [i \in {} |-> <<>>]

-----------------------------------------------------------------------------
(* Units, digests and the rows an indexer produces.                        *)

\* Mutant: the digest forgets the order of the arguments.
UnorderedArgs(u, tag) ==
    [lang |-> u.lang, args |-> ToSet(u.args), inputs |-> ToSet(u.inputs),
     tag |-> tag]

\* Language, arguments in order, inputs as a set, toolchain (the schema
\* version is one value); not the rest of the unit.  Hashes of distinct
\* encodings are taken as distinct.
cu_content_digest(u, tag) ==
    [lang |-> u.lang, args |-> u.args, inputs |-> ToSet(u.inputs), tag |-> tag]

\* The transform given to extract_with: each matching argument the unit does
\* not have yet goes in front, in the order of the rules.
Injected(args, rules) == SelectSeq(rules, LAMBDA a : a \notin ToSet(args)) \o args

\* What the indexer `tag`, which is external, makes of a unit: extract_with
\* hands it the whole CompilationUnit, the transformed arguments and the files.
RowsOf(u, run) ==
    [lang |-> u.lang, args |-> Injected(u.args, run.inject),
     inputs |-> ToSet(u.inputs), rest |-> u.rest, tag |-> run.tag]

Shard(rows) == [b \in 1 .. NBlocks |-> rows]

\* Mutant: only the header is looked at.
HeaderOpens(f) == f # <<>> /\ f[1] # Hole

\* Index::open: the header is there and every section it declares ends within
\* the file; the last one ends where a whole file does.
Opens(f) == Len(f) = NBlocks /\ f[1] # Hole

\* Block b of a file is written: what lies before it and was never written
\* reads as zeros.
Written(f, b, rows) ==
    [i \in 1 .. (IF b > Len(f) THEN b ELSE Len(f)) |->
        IF i = b THEN rows ELSE IF i <= Len(f) THEN f[i] ELSE Hole]

Digest(u) == cu_content_digest(u, flags.tag)
InUse     == {entry[d] : d \in DOMAIN entry} \cup {tmp[d] : d \in DOMAIN tmp}
                \cup {job[w].fd : w \in Worker}
Fresh     == CHOOSE i \in 1 .. Cardinality(InUse) + 1 : i \notin InUse

\* f with k bound to x, or without k; unreferenced inodes are forgotten.
Bind(f, k, x) == [j \in DOMAIN f \cup {k} |-> IF j = k THEN x ELSE f[j]]
Unbind(f, K)  == [j \in DOMAIN f \ K |-> f[j]]

-----------------------------------------------------------------------------

NoUnit == [sha |-> None]
NoJob  == [unit |-> NoUnit, idx |-> 0, fd |-> None, at |-> 0]

Idle ==
    /\ phase = "off" /\ flags = [tag |-> "", inject |-> <<>>] /\ level = <<>>
    /\ todo = {} /\ nextShard = 0
    /\ pc = [w \in Worker |-> "idle"] /\ job = [w \in Worker |-> NoJob]
    /\ folded = {} /\ spoiled = FALSE

\* The process is gone.  The next one has another pid, so the temporaries it
\* leaves are never written again.
Exit ==
    /\ phase' = "off" /\ flags' = [tag |-> "", inject |-> <<>>] /\ level' = <<>>
    /\ todo' = {} /\ nextShard' = 0
    /\ pc' = [w \in Worker |-> "idle"] /\ job' = [w \in Worker |-> NoJob]
    /\ folded' = {} /\ spoiled' = FALSE
    /\ tmp' = NoFiles
    /\ data' = [i \in {entry'[d] : d \in DOMAIN entry'} |-> data[i]]

Init ==
    /\ Idle
    /\ data = NoFiles /\ entry = NoFiles /\ tmp = NoFiles
    /\ work = NoFiles /\ out = {}
    /\ kzip \in Kzips /\ starts = 0

\* One past the highest index on disk.
next_shard_index ==
    CHOOSE i \in {0} \cup {j + 1 : j \in DOMAIN work} : \A j \in DOMAIN work : j < i

\* --cache-dir without --resume; --clean empties the cache first.
Start(tag, inject, clean) ==
    /\ phase = "off" /\ starts < MaxStarts
    /\ starts' = starts + 1
    /\ phase' = "index" /\ flags' = [tag |-> tag, inject |-> inject]
    /\ todo' = kzip /\ nextShard' = next_shard_index
    /\ spoiled' = (work # NoFiles)
    /\ IF clean
       THEN entry' = NoFiles /\ data' = NoFiles
       ELSE UNCHANGED <<entry, data>>
    /\ UNCHANGED <<tmp, work, out, kzip, level, pc, job, folded>>

\* The operator rebuilds the kzip.
ReplaceKzip ==
    /\ phase = "off"
    /\ kzip' \in Kzips \ {kzip}
    /\ UNCHANGED <<disk, starts, main, pool, folded, spoiled>>

\* An entry turns up cut short: a full disk, a cache copied by hand.
Damage ==
    /\ phase = "off"
    /\ \E i \in DOMAIN data, n \in 0 .. NBlocks - 1 :
          n < Len(data[i]) /\ data' = [data EXCEPT ![i] = SubSeq(@, 1, n)]
    /\ UNCHANGED <<entry, tmp, work, out, kzip, starts, main, pool, folded, spoiled>>

\* The operator deletes what killed runs left.
Discard ==
    /\ phase = "off" /\ work # NoFiles
    /\ work' = NoFiles
    /\ UNCHANGED <<data, entry, tmp, out, kzip, starts, main, pool, folded,
                   spoiled>>

Crash ==
    /\ phase # "off"
    /\ UNCHANGED <<entry, work, out, kzip, starts>>
    /\ Exit

-----------------------------------------------------------------------------
(* A worker's loop body.                                                   *)

Goto(w, p) == pc' = [pc EXCEPT ![w] = p]

\* Mutant: a shard file counts as soon as it exists.
ContainsIfPresent(d) == d \in DOMAIN entry

contains(d) == d \in DOMAIN entry /\ Opens(data[entry[d]])

\* plan[i]: on a hit reserve an index for the copy, else go and index it.
Take(w) ==
    /\ phase = "index" /\ pc[w] = "idle"
    /\ \E u \in todo :
          /\ todo' = todo \ {u}
          /\ IF contains(Digest(u))
             THEN /\ nextShard' = nextShard + 1
                  /\ job' = [job EXCEPT ![w] = [NoJob EXCEPT !.unit = u, !.idx = nextShard]]
                  /\ Goto(w, "open")
             ELSE /\ job' = [job EXCEPT ![w] = [NoJob EXCEPT !.unit = u]]
                  /\ Goto(w, "run")
                  /\ UNCHANGED nextShard
    /\ UNCHANGED <<disk, kzip, starts, main, folded, spoiled>>

\* fs::copy(entry, shard): open the source, create the destination.
OpenHit(w) ==
    /\ pc[w] = "open"
    /\ work' = Bind(work, job[w].idx, <<>>)
    /\ job' = [job EXCEPT ![w].fd = entry[Digest(job[w].unit)]]
    /\ Goto(w, "copy")
    /\ UNCHANGED <<data, entry, tmp, out, kzip, starts, main, todo,
                   nextShard, folded, spoiled>>

\* One block, or the end of the source: the hit is done.
CopyHit(w) ==
    /\ pc[w] = "copy"
    /\ LET src == data[job[w].fd]
           n   == job[w].at + 1
       IN  IF n <= Len(src)
           THEN /\ work' = [work EXCEPT ![job[w].idx] = Written(@, n, src[n])]
                /\ job' = [job EXCEPT ![w].at = n]
                /\ UNCHANGED <<pc, folded>>
           ELSE /\ folded' = folded \cup {job[w].unit}
                /\ job' = [job EXCEPT ![w] = NoJob]
                /\ Goto(w, "idle")
                /\ UNCHANGED work
    /\ UNCHANGED <<data, entry, tmp, out, kzip, starts, main, todo, nextShard,
                   spoiled>>

\* The copy fails, before or after the destination was created: what there
\* is of it stays, and the unit is indexed.
CopyFails(w) ==
    /\ pc[w] \in {"open", "copy"}
    /\ spoiled' = (spoiled \/ pc[w] = "copy")
    /\ job' = [job EXCEPT ![w] = [NoJob EXCEPT !.unit = job[w].unit]]
    /\ Goto(w, "run")
    /\ UNCHANGED <<disk, kzip, starts, main, todo, nextShard, folded>>

\* Extract, run the indexer, ingest; the unit may fail or have no entries.
IndexFails(w) ==
    /\ pc[w] = "run"
    /\ job' = [job EXCEPT ![w] = NoJob]
    /\ Goto(w, "idle")
    /\ UNCHANGED <<disk, kzip, starts, main, todo, nextShard, folded, spoiled>>

\* Or localize, reserve an index, finish(shard).
WriteOwn(w) ==
    /\ pc[w] = "run"
    /\ work' = Bind(work, nextShard, Shard(RowsOf(job[w].unit, flags)))
    /\ nextShard' = nextShard + 1
    /\ job' = [job EXCEPT ![w].idx = nextShard]
    /\ folded' = folded \cup {job[w].unit}
    /\ Goto(w, "store")
    /\ UNCHANGED <<data, entry, tmp, out, kzip, starts, main, todo, spoiled>>

\* ShardCache::store.  Create the temporary, or truncate the one that is
\* there: another worker may be writing it.
StoreOpen(w) ==
    /\ pc[w] = "store"
    /\ LET d == Digest(job[w].unit)
           i == IF d \in DOMAIN tmp THEN tmp[d] ELSE Fresh
       IN  /\ tmp' = Bind(tmp, d, i)
           /\ data' = Bind(data, i, <<>>)
           /\ job' = [job EXCEPT ![w].fd = i]
    /\ Goto(w, "fill")
    /\ UNCHANGED <<entry, work, out, kzip, starts, main, todo, nextShard,
                   folded, spoiled>>

StoreCopy(w) ==
    /\ pc[w] = "fill" /\ job[w].at < Len(work[job[w].idx])
    /\ LET n == job[w].at + 1
       IN  /\ data' = [data EXCEPT ![job[w].fd] = Written(@, n, work[job[w].idx][n])]
           /\ job' = [job EXCEPT ![w].at = n]
    /\ UNCHANGED <<entry, tmp, work, out, kzip, starts, main, todo, nextShard,
                   pc, folded, spoiled>>

\* rename(tmp, entry), unless another worker has renamed it away.
StoreRename(w) ==
    /\ pc[w] = "fill" /\ job[w].at = Len(work[job[w].idx])
    /\ LET d == Digest(job[w].unit)
       IN  IF d \in DOMAIN tmp
           THEN entry' = Bind(entry, d, tmp[d]) /\ tmp' = Unbind(tmp, {d})
           ELSE UNCHANGED <<entry, tmp>>
    /\ job' = [job EXCEPT ![w] = NoJob]
    /\ Goto(w, "idle")
    /\ UNCHANGED <<data, work, out, kzip, starts, main, todo, nextShard,
                   folded, spoiled>>

\* The copy or the rename fails, which is only logged.
StoreFails(w) ==
    /\ pc[w] \in {"store", "fill"}
    /\ job' = [job EXCEPT ![w] = NoJob]
    /\ Goto(w, "idle")
    /\ UNCHANGED <<disk, kzip, starts, main, todo, nextShard, folded, spoiled>>

-----------------------------------------------------------------------------
(* The main thread once every worker has returned.                         *)

WorkersDone == phase = "index" /\ todo = {} /\ \A w \in Worker : pc[w] = "idle"

\* slice::chunks(Group): the k-th group of n sources.
Chunk(k, n)   == {i \in 1 .. n : (i - 1) \div Group = k - 1}
Chunks(n)     == 1 .. ((n + Group - 1) \div Group)

Coalesced(ss) ==
    [k \in Chunks(Len(ss)) |-> UNION {ss[i] : i \in Chunk(k, Len(ss))}]

\* while level.len() > COALESCE_GROUP
FinalSources(ss) ==
    LET after[n \in 0 .. Len(ss)] ==
            IF n = 0 THEN ss
            ELSE IF Len(after[n - 1]) > Group THEN Coalesced(after[n - 1])
            ELSE after[n - 1]
    IN  after[Len(ss)]

\* list_partial_shards in index order, holes in the numbering skipped.
Listed ==
    CHOOSE s \in [1 .. Cardinality(DOMAIN work) -> DOMAIN work] :
        \A i, j \in DOMAIN s : i < j => s[i] < s[j]

\* A shard that does not open ends the run with an error.
CoalesceFails ==
    /\ WorkersDone
    /\ \E i \in DOMAIN work : ~ Opens(work[i])
    /\ UNCHANGED <<entry, work, out, kzip, starts>>
    /\ Exit

\* Level 1 remaps the working shards in groups and then removes them.
CoalesceFirst ==
    /\ WorkersDone
    /\ \A i \in DOMAIN work : Opens(work[i])
    /\ level' = Coalesced([k \in DOMAIN Listed |-> ToSet(work[Listed[k]])])
    /\ work' = NoFiles
    /\ phase' = "coalesce"
    /\ UNCHANGED <<data, entry, tmp, out, kzip, starts, flags, pool, folded, spoiled>>

\* Further levels until the fan-in is at most a group, then the final merge
\* into .s2db.merging and its rename.
Publish ==
    /\ phase = "coalesce"
    /\ out' = UNION ToSet(FinalSources(level))
    /\ phase' = "finalize"
    /\ UNCHANGED <<data, entry, tmp, work, kzip, starts, flags, level, pool, folded,
                   spoiled>>

\* ShardCache::finalize: prune what this build's kzip does not name (and
\* write manifest.tsv, which nothing reads); the program returns.
Pruned == Unbind(entry, DOMAIN entry \ {Digest(u) : u \in kzip})

Finalize ==
    /\ phase = "finalize"
    /\ entry' = Pruned
    /\ Exit
    /\ UNCHANGED <<work, out, kzip, starts>>

WorkerStep(w) ==
    \/ Take(w) \/ OpenHit(w) \/ CopyHit(w) \/ CopyFails(w)
    \/ IndexFails(w) \/ WriteOwn(w)
    \/ StoreOpen(w) \/ StoreCopy(w) \/ StoreRename(w) \/ StoreFails(w)

Next ==
    \/ \E t \in Tags, i \in Injects, c \in BOOLEAN : Start(t, i, c)
    \/ ReplaceKzip \/ Damage \/ Discard \/ Crash
    \/ \E w \in Worker : WorkerStep(w)
    \/ CoalesceFails \/ CoalesceFirst \/ Publish \/ Finalize

Spec == Init /\ [][Next]_vars

-----------------------------------------------------------------------------

\* A cache entry that `contains` would admit is a whole shard, of a unit with
\* its digest: no kill in the middle of a store, no failed copy and no second
\* writer leaves a torn entry that later builds would serve.
AdmittedIsWhole ==
    \A d \in DOMAIN entry :
        Opens(data[entry[d]]) =>
            \E u \in Units, t \in Tags, i \in Injects :
                /\ cu_content_digest(u, t) = d
                /\ data[entry[d]] = Shard(RowsOf(u, [tag |-> t, inject |-> i]))

\* What docs/USAGE.md says of --cache-dir: the output is that of a full build of
\* the same kzip under the same flags.  It is not: of what the indexer is given,
\* neither the injected arguments nor the rest of the unit are in the digest.
PublishedClean ==
    phase = "finalize" =>
        LET rows == {RowsOf(u, flags) : u \in folded}
        IN  rows \subseteq out /\ (~spoiled => out = rows)

\* Rows that come of u's language, arguments and input contents and of the
\* indexer of this run; the injected arguments and the rest may be another's.
StandsFor(r, u) ==
    /\ r.lang = u.lang /\ r.inputs = ToSet(u.inputs) /\ r.tag = flags.tag
    /\ \E i \in Injects : r.args = Injected(u.args, i)

AsHashed(rows) ==
    /\ \A u \in folded : \E r \in rows : StandsFor(r, u)
    /\ ~spoiled => \A r \in rows : \E u \in folded : StandsFor(r, u)

\* What the digest does promise of a --cache-dir build's output: every unit
\* indexed or reused is in it with rows of its very arguments, input contents
\* and toolchain and, if no earlier run left shards behind and no copy broke
\* off, there is nothing else in it.
PublishedAsHashed == phase = "finalize" => AsHashed(out)

\* The merge of a run that started clean and lost no copy half way finds no
\* shard it cannot open, whatever the cache held: a damaged cache costs a
\* re-index, never the build.
CacheNeverAborts ==
    (WorkersDone /\ ~spoiled) => \A i \in DOMAIN work : Opens(work[i])

(* The inductive invariants behind these, for kzips in which no two units  *)
(* have one digest: then a digest has at most one writer at a time, and    *)
(* none while it is read.                                                  *)

NoTwins ==
    \A k \in Kzips : \A u, v \in k : \A t \in Tags :
        cu_content_digest(u, t) = cu_content_digest(v, t) => u = v

Flags == [tag : Tags, inject : Injects]
Row   == {RowsOf(u, f) : u \in Units, f \in Flags}
Whole(u) == Shard(RowsOf(u, flags))
Copied(f, n) == [b \in 1 .. n |-> f[b]]

Reading(w) == pc[w] \in {"open", "copy"}
Storing(w) == pc[w] \in {"store", "fill"}

\* Between runs there is neither a worker nor a temporary; after the workers
\* there are no working shards.
PhaseInv ==
    /\ kzip \in Kzips
    /\ phase = "off" => Idle /\ tmp = NoFiles
    /\ phase # "off" => flags \in Flags
    /\ phase # "index" => \A w \in Worker : pc[w] = "idle"

\* A unit is with one worker at most, and is not taken again.
JobsInv ==
    /\ pc \in [Worker -> {"idle", "run", "open", "copy", "store", "fill"}]
    /\ job \in [Worker -> [unit : Units \cup {NoUnit}, idx : Nat, fd : Nat, at : Nat]]
    /\ todo \subseteq kzip /\ folded \subseteq kzip
    /\ \A w \in Worker : pc[w] # "idle" => job[w].unit \in kzip \ todo
    /\ \A w, v \in Worker :
          (w # v /\ pc[w] # "idle" /\ pc[v] # "idle") => job[w].unit # job[v].unit

\* No file is a temporary and an entry, or two temporaries.
InodesInv ==
    /\ \A i \in DOMAIN data : i \in Nat /\ data[i] \in Seq(Row)
    /\ IsFiniteSet(DOMAIN entry) /\ IsFiniteSet(DOMAIN tmp)
    /\ \A d \in DOMAIN entry : entry[d] \in DOMAIN data
    /\ \A d \in DOMAIN tmp :
          /\ tmp[d] \in DOMAIN data
          /\ \A e \in DOMAIN entry : entry[e] # tmp[d]
          /\ \A e \in DOMAIN tmp : tmp[e] = tmp[d] => e = d

\* Working shards have been numbered below next_shard.
WorkInv ==
    /\ \A i \in DOMAIN work : work[i] \in Seq(Row)
    /\ DOMAIN work \in SUBSET Nat /\ IsFiniteSet(DOMAIN work)
    /\ nextShard \in Nat
    /\ phase = "index" => \A i \in DOMAIN work : i < nextShard
    /\ phase \in {"coalesce", "finalize"} => work = NoFiles

\* A hit is of an entry that opens, until it has been copied; the copy is a
\* prefix of it, in a shard of its own.
Reader(w) ==
    LET j == job[w]
    IN  /\ contains(Digest(j.unit)) /\ j.idx < nextShard
        /\ pc[w] = "open" => j.idx \notin DOMAIN work /\ j.at = 0
        /\ pc[w] = "copy" =>
              /\ j.idx \in DOMAIN work /\ j.at <= NBlocks
              /\ j.fd = entry[Digest(j.unit)]
              /\ work[j.idx] = Copied(data[j.fd], j.at)
ReadersInv ==
    /\ \A w \in Worker : Reading(w) => Reader(w)
    /\ \A w, v \in Worker :
          (w # v /\ Reading(w) /\ Reading(v)) => job[w].idx # job[v].idx

\* A store copies a whole shard of its unit, and its temporary is a prefix.
Writer(w) ==
    LET j == job[w]
        d == Digest(j.unit)
    IN  /\ j.idx \in DOMAIN work /\ work[j.idx] = Whole(j.unit)
        /\ pc[w] = "store" => j.at = 0
        /\ pc[w] = "fill" =>
              /\ d \in DOMAIN tmp /\ tmp[d] = j.fd /\ j.at <= NBlocks
              /\ data[j.fd] = Copied(Whole(j.unit), j.at)
WritersInv ==
    \A w \in Worker : /\ pc[w] = "run" => job[w].at = 0
                      /\ Storing(w) => Writer(w)

\* Every entry is one that may be admitted, and the working shards of a clean
\* run open, but for those being copied.
CacheInv ==
    /\ PhaseInv
    /\ JobsInv
    /\ InodesInv
    /\ WorkInv
    /\ ReadersInv
    /\ WritersInv
    /\ AdmittedIsWhole
    /\ (phase = "index" /\ ~spoiled) =>
          \A i \in DOMAIN work : \/ Opens(work[i])
                                 \/ \E w \in Worker : pc[w] = "copy" /\ job[w].idx = i

\* A shard that stands for a unit.  Every folded unit has one, and a clean run
\* has no other, but for those being copied.
ShardFor(f, u) == \E r \in Row : f = Shard(r) /\ StandsFor(r, u)
FoldedShards ==
    /\ \A u \in folded : \E i \in DOMAIN work : ShardFor(work[i], u)
    /\ ~spoiled =>
          \A i \in DOMAIN work : \/ \E u \in folded : ShardFor(work[i], u)
                                 \/ \E w \in Worker : pc[w] = "copy" /\ job[w].idx = i

\* The rows for the folded units are where the run has got to.
RowsInv ==
    /\ phase = "index" => FoldedShards
    /\ phase = "coalesce" => level \in Seq(SUBSET Row) /\ AsHashed(UNION ToSet(level))
    /\ PublishedAsHashed
=============================================================================
