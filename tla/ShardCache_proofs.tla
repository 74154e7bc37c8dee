--------------------------- MODULE ShardCache_proofs ---------------------------
(***************************************************************************)
(* Proofs about ShardCache, for every kzip, indexer, number of workers,    *)
(* blocks and restarts, provided no two units of a kzip have one digest:   *)
(*                                                                         *)
(*   WholeEntries    Spec => []AdmittedIsWhole                             *)
(*   BuildSurvives   Spec => []CacheNeverAborts                            *)
(*   HashedOutput    Spec => []PublishedAsHashed                           *)
(*                                                                         *)
(* The invariant is CacheInv: a digest has one writer, whose temporary is  *)
(* a prefix of a whole shard, and a hit is copied from an entry nobody     *)
(* replaces meanwhile.  One lemma per conjunct shows that steps keep it.   *)
(***************************************************************************)
EXTENDS ShardCache, Induction, SequenceTheorems

-----------------------------------------------------------------------------
(* Files.                                                                  *)

\* A copy: empty at first, the file itself at last, and the next block makes
\* a longer copy.
LEMMA CopiedParts ==
    ASSUME NEW S, NEW f \in Seq(S), NEW n \in Nat, n <= Len(f)
    PROVE  /\ Copied(f, n) \in Seq(S) /\ Len(Copied(f, n)) = n
           /\ Copied(f, 0) = <<>>
           /\ Copied(f, Len(f)) = f
           /\ n < Len(f) => /\ Written(Copied(f, n), n + 1, f[n + 1]) = Copied(f, n + 1)
                            /\ Copied(f, n + 1) \in Seq(S)
<1>1. \A b \in 1 .. Len(f) : f[b] \in S
  OBVIOUS
<1>2. \A m \in Nat : m <= Len(f) => Copied(f, m) \in Seq(S) /\ Len(Copied(f, m)) = m
  BY <1>1 DEF Copied
<1>3. Copied(f, 0) = <<>>
  BY DEF Copied
<1>4. Copied(f, Len(f)) = f
  BY DEF Copied
<1>5. ASSUME n < Len(f)
      PROVE  Written(Copied(f, n), n + 1, f[n + 1]) = Copied(f, n + 1)
  <2>1. Len(Copied(f, n)) = n /\ n + 1 > n
    BY <1>2
  <2>2. \A i \in 1 .. n : Copied(f, n)[i] = f[i]
    BY DEF Copied
  <2>3. Written(Copied(f, n), n + 1, f[n + 1])
           = [i \in 1 .. n + 1 |-> IF i = n + 1 THEN f[n + 1]
                                   ELSE IF i <= n THEN Copied(f, n)[i] ELSE Hole]
    BY <2>1 DEF Written
  <2>4. Copied(f, n + 1) = [i \in 1 .. n + 1 |-> f[i]]
    BY DEF Copied
  <2>5. \A i \in 1 .. n + 1 : i # n + 1 => i \in 1 .. n /\ i <= n
    OBVIOUS
  <2> QED BY <2>2, <2>3, <2>4, <2>5
<1>6. n < Len(f) => n + 1 \in Nat /\ n + 1 <= Len(f)
  OBVIOUS
<1> QED BY <1>2, <1>3, <1>4, <1>5, <1>6

\* A whole shard opens, and holds one row.
LEMMA ShardParts ==
    ASSUME NEW r \in Row
    PROVE  /\ Shard(r) \in Seq(Row) /\ Len(Shard(r)) = NBlocks
           /\ Opens(Shard(r)) /\ ToSet(Shard(r)) = {r}
<1>1. r # Hole
  <2>1. PICK u, f : r = RowsOf(u, f)
    BY DEF Row
  <2>2. DOMAIN r = {"lang", "args", "inputs", "rest", "tag"}
    BY <2>1 DEF RowsOf
  <2>3. DOMAIN Hole = {"hole"}
    BY DEF Hole
  <2> QED BY <2>2, <2>3
<1>2. NBlocks \in Nat /\ 1 \in 1 .. NBlocks
  BY BoundsAssumption
<1>3. Shard(r) \in Seq(Row) /\ Len(Shard(r)) = NBlocks
  BY <1>2 DEF Shard
<1>4. DOMAIN Shard(r) = 1 .. NBlocks /\ \A b \in 1 .. NBlocks : Shard(r)[b] = r
  BY DEF Shard
<1>5. ToSet(Shard(r)) = {r}
  BY <1>2, <1>4 DEF ToSet
<1>6. Opens(Shard(r))
  BY <1>1, <1>2, <1>3, <1>4 DEF Opens
<1> QED BY <1>3, <1>5, <1>6

\* Flags are their two fields.
LEMMA FlagsParts ==
    ASSUME NEW f \in Flags
    PROVE  /\ f.tag \in Tags /\ f.inject \in Injects
           /\ f = [tag |-> f.tag, inject |-> f.inject]
BY DEF Flags

\* Rows of a unit with v's digest stand for v, whoever's arguments they had.
LEMMA DigestRows ==
    ASSUME NEW u, NEW v, NEW t, NEW i \in Injects,
           cu_content_digest(u, t) = cu_content_digest(v, flags.tag)
    PROVE  StandsFor(RowsOf(u, [tag |-> t, inject |-> i]), v)
<1>1. u.lang = v.lang /\ u.args = v.args /\ ToSet(u.inputs) = ToSet(v.inputs) /\ t = flags.tag
  BY DEF cu_content_digest
<1> DEFINE r == RowsOf(u, [tag |-> t, inject |-> i])
<1>2. /\ r.lang = u.lang /\ r.args = Injected(u.args, i) /\ r.inputs = ToSet(u.inputs)
      /\ r.tag = t
  BY DEF RowsOf
<1> HIDE DEF r
<1>3. r.args = Injected(v.args, i)
  BY <1>1, <1>2
<1>4. StandsFor(r, v)
  BY <1>1, <1>2, <1>3 DEF StandsFor
<1> QED BY <1>4 DEF r

\* The temporary of a new writer is a file nobody uses.
LEMMA FreshIsUnused ==
    ASSUME IsFiniteSet(DOMAIN entry), IsFiniteSet(DOMAIN tmp)
    PROVE  Fresh \in Nat /\ Fresh \notin InUse
<1> DEFINE E == {entry[d] : d \in DOMAIN entry}
           T == {tmp[d] : d \in DOMAIN tmp}
           J == {job[w].fd : w \in Worker}
<1>1. IsFiniteSet(E)
  <2> DEFINE g == [d \in DOMAIN entry |-> entry[d]]
  <2>1. g \in Surjection(DOMAIN entry, E)
    BY DEF Surjection
  <2> HIDE DEF g, E
  <2> QED BY <2>1, FS_Surjection
<1>2. IsFiniteSet(T)
  <2> DEFINE g == [d \in DOMAIN tmp |-> tmp[d]]
  <2>1. g \in Surjection(DOMAIN tmp, T)
    BY DEF Surjection
  <2> HIDE DEF g, T
  <2> QED BY <2>1, FS_Surjection
<1>3. IsFiniteSet(J)
  <2> DEFINE g == [w \in Worker |-> job[w].fd]
  <2>1. g \in Surjection(Worker, J)
    BY DEF Surjection
  <2> HIDE DEF g, J
  <2> QED BY <2>1, BoundsAssumption, FS_Surjection
<1>4. InUse = (E \cup T) \cup J
  BY DEF InUse
<1> HIDE DEF E, T, J
<1>5. IsFiniteSet(E \cup T)
  BY <1>1, <1>2, FS_Union
<1>6. IsFiniteSet(InUse)
  BY <1>3, <1>4, <1>5, FS_Union
<1> DEFINE n == Cardinality(InUse)
<1>7. n \in Nat
  BY <1>6, FS_CardinalityType
<1>8. \E i \in 1 .. n + 1 : i \notin InUse
  <2> SUFFICES ASSUME 1 .. n + 1 \in SUBSET InUse PROVE FALSE
    OBVIOUS
  <2>1. Cardinality(1 .. n + 1) <= n
    BY <1>6, FS_Subset
  <2> HIDE DEF n
  <2>2. 1 \in Int /\ n + 1 \in Int /\ ~ (1 > n + 1)
    BY <1>7
  <2>3. Cardinality(1 .. n + 1) = IF 1 > n + 1 THEN 0 ELSE (n + 1) - 1 + 1
    BY <2>2, FS_Interval
  <2> QED BY <1>7, <2>1, <2>2, <2>3
<1>9. Fresh \in 1 .. n + 1 /\ Fresh \notin InUse
  BY <1>8 DEF Fresh
<1> QED BY <1>7, <1>9

\* A finite set of numbers has a bound, so there is a next index.
LEMMA NextIndex ==
    ASSUME DOMAIN work \in SUBSET Nat, IsFiniteSet(DOMAIN work)
    PROVE  next_shard_index \in Nat /\ \A i \in DOMAIN work : i < next_shard_index
<1> DEFINE D == DOMAIN work
           F == {s \in SUBSET D : \E b \in Nat : \A i \in s : i < b}
           C == {0} \cup {j + 1 : j \in D}
<1>1. ASSUME NEW s \in SUBSET D, \A r \in SUBSET s : r # s => r \in F PROVE s \in F
  <2>1. CASE s = {}
    <3>1. 0 \in Nat /\ \A i \in s : i < 0
      BY <2>1
    <3> QED BY <3>1
  <2>2. CASE s # {}
    <3>1. PICK x \in s : TRUE
      BY <2>2
    <3>2. s \ {x} \in F
      BY <1>1, <3>1
    <3>3. PICK b \in Nat : \A i \in s \ {x} : i < b
      BY <3>2
    <3>4. x \in Nat /\ x + b + 1 \in Nat
      BY <3>1
    <3>5. \A i \in s : i < x + b + 1
      BY <3>3, <3>4
    <3> QED BY <3>4, <3>5
  <2> QED BY <2>1, <2>2
<1>2. D \in F
  <2>1. D \in SUBSET D
    OBVIOUS
  <2> HIDE DEF F, D
  <2>2. \A s \in SUBSET D : s \in F
    BY <1>1, SubsetInduction DEF D
  <2> QED BY <2>1, <2>2
<1>3. PICK b \in Nat : \A i \in D : i < b
  BY <1>2
<1>4. \E n \in C : \A i \in D : i < n
  BY <1>3, LeastBound
<1>5. next_shard_index = CHOOSE n \in C : \A i \in D : i < n
  BY DEF next_shard_index
<1>6. C \subseteq Nat
  OBVIOUS
<1> HIDE DEF C, D
<1>7. next_shard_index \in C /\ \A i \in D : i < next_shard_index
  BY <1>4, <1>5
<1> QED BY <1>6, <1>7 DEF D

-----------------------------------------------------------------------------
(* Steps.                                                                  *)

\* Steps that are no worker's leave no worker busy.
LEMMA MainFrame ==
    ASSUME PhaseInv, [Next]_vars
    PROVE  \/ \E w \in Worker : WorkerStep(w)
           \/ \A w \in Worker : pc'[w] = "idle"
           \/ UNCHANGED vars
<1>1. ASSUME NEW t \in Tags, NEW i \in Injects, NEW c \in BOOLEAN, Start(t, i, c)
      PROVE  \A w \in Worker : pc'[w] = "idle"
  BY <1>1 DEF Start, PhaseInv
<1>2. ReplaceKzip \/ Damage \/ Discard => \A w \in Worker : pc'[w] = "idle"
  BY DEF ReplaceKzip, Damage, Discard, pool, PhaseInv
<1>3. Crash \/ CoalesceFails \/ Finalize => \A w \in Worker : pc'[w] = "idle"
  BY DEF Crash, CoalesceFails, Finalize, Exit
<1>4. CoalesceFirst \/ Publish => \A w \in Worker : pc'[w] = "idle"
  BY DEF CoalesceFirst, Publish, WorkersDone, pool, PhaseInv
<1> QED BY <1>1, <1>2, <1>3, <1>4 DEF Next

\* What a worker's step leaves alone.
LEMMA WorkerFrame ==
    ASSUME PhaseInv, NEW w \in Worker, WorkerStep(w)
    PROVE  /\ phase = "index" /\ flags \in Flags
           /\ UNCHANGED <<phase, flags, level, kzip, out>>
<1>1. phase = "index"
  <2>1. Take(w) \/ pc[w] # "idle"
    BY DEF WorkerStep, OpenHit, CopyHit, CopyFails, IndexFails, WriteOwn, StoreOpen,
           StoreCopy, StoreRename, StoreFails
  <2> QED BY <2>1 DEF Take, PhaseInv
<1>2. UNCHANGED <<phase, flags, level, kzip, out>>
  BY DEF WorkerStep, Take, OpenHit, CopyHit, CopyFails, IndexFails, WriteOwn, StoreOpen,
         StoreCopy, StoreRename, StoreFails, main, disk
<1> QED BY <1>1, <1>2 DEF PhaseInv

\* The main thread's phases.
LEMMA PhaseStep ==
    ASSUME PhaseInv, [Next]_vars
    PROVE  PhaseInv'
<1>1. ASSUME NEW t \in Tags, NEW i \in Injects, NEW c \in BOOLEAN, Start(t, i, c)
      PROVE  PhaseInv'
  <2>1. flags' \in Flags
    BY <1>1 DEF Start, Flags
  <2> QED BY <1>1, <2>1 DEF Start, PhaseInv
<1>2. CASE ReplaceKzip \/ Damage \/ Discard
  BY <1>2 DEF ReplaceKzip, Damage, Discard, disk, main, pool, PhaseInv, Idle
<1>3. CASE Crash \/ CoalesceFails \/ Finalize
  BY <1>3 DEF Crash, CoalesceFails, Finalize, Exit, PhaseInv, Idle
<1>4. CASE CoalesceFirst
  BY <1>4 DEF CoalesceFirst, WorkersDone, pool, PhaseInv
<1>5. CASE Publish
  BY <1>5 DEF Publish, pool, PhaseInv
<1>6. ASSUME NEW w \in Worker, WorkerStep(w) PROVE PhaseInv'
  BY <1>6, WorkerFrame DEF PhaseInv
<1>7. CASE UNCHANGED vars
  BY <1>7 DEF vars, disk, main, pool, PhaseInv, Idle
<1> QED BY <1>1, <1>2, <1>3, <1>4, <1>5, <1>6, <1>7 DEF Next

\* Units go from todo to one worker and stay with it.
LEMMA JobsStep ==
    ASSUME CacheInv, [Next]_vars
    PROVE  JobsInv'
<1> DEFINE J == [unit : Units \cup {NoUnit}, idx : Nat, fd : Nat, at : Nat]
           P == {"idle", "run", "open", "copy", "store", "fill"}
<1>0. /\ PhaseInv /\ JobsInv /\ pc \in [Worker -> P] /\ job \in [Worker -> J]
      /\ nextShard \in Nat /\ kzip \in SUBSET Units
  BY DEF CacheInv, JobsInv, PhaseInv, WorkInv, Units
<1>1. NoJob \in J
  BY DEF NoJob, None
<1>2. CASE /\ pc' = [w \in Worker |-> "idle"] /\ job' = [w \in Worker |-> NoJob]
           /\ todo' = {} /\ folded' = {}
  BY <1>1, <1>2 DEF JobsInv
<1>3. CASE UNCHANGED <<pc, job, todo, folded, kzip>>
  BY <1>0, <1>3 DEF JobsInv
<1>4. ASSUME NEW t \in Tags, NEW i \in Injects, NEW c \in BOOLEAN, Start(t, i, c)
      PROVE  JobsInv'
  <2>1. /\ todo' = kzip /\ UNCHANGED <<kzip, pc, job, folded>> /\ phase = "off"
    BY <1>4 DEF Start
  <2>2. \A w \in Worker : pc[w] = "idle"
    BY <1>0, <2>1 DEF PhaseInv
  <2> QED BY <1>0, <2>1, <2>2 DEF JobsInv
<1>5. CASE ReplaceKzip
  <2>1. Idle /\ UNCHANGED <<pc, job, todo, folded>>
    BY <1>0, <1>5 DEF ReplaceKzip, PhaseInv, pool
  <2> QED BY <1>2, <2>1 DEF Idle
<1>6. ASSUME NEW w \in Worker, NEW p \in P, NEW j \in J,
             pc' = [pc EXCEPT ![w] = p], job' = [job EXCEPT ![w] = j],
             kzip' = kzip, folded' \subseteq kzip,
             \/ todo' = todo /\ pc[w] # "idle" /\ (p = "idle" \/ j.unit = job[w].unit)
             \/ \E u \in todo : todo' = todo \ {u} /\ j.unit = u
      PROVE  JobsInv'
  <2>1. pc' \in [Worker -> P] /\ job' \in [Worker -> J]
    BY <1>0, <1>6
  <2>2. pc'[w] = p /\ job'[w] = j
        /\ \A v \in Worker \ {w} : pc'[v] = pc[v] /\ job'[v] = job[v]
    BY <1>0, <1>6
  <2>3. todo' \subseteq todo /\ todo' \subseteq kzip
    BY <1>0, <1>6 DEF JobsInv
  <2>4. p # "idle" => j.unit \in kzip \ todo'
    BY <1>0, <1>6 DEF JobsInv
  <2>5. ASSUME NEW v \in Worker, v # w, p # "idle", pc[v] # "idle"
        PROVE  j.unit # job[v].unit
    BY <1>0, <1>6, <2>5 DEF JobsInv
  <2>6. \A v \in Worker : pc'[v] # "idle" => job'[v].unit \in kzip' \ todo'
    BY <1>0, <1>6, <2>2, <2>3, <2>4 DEF JobsInv
  <2>7. \A u, v \in Worker : (u # v /\ pc'[u] # "idle" /\ pc'[v] # "idle")
                                => job'[u].unit # job'[v].unit
    BY <1>0, <2>2, <2>5 DEF JobsInv
  <2> QED BY <1>6, <2>1, <2>3, <2>6, <2>7 DEF JobsInv
<1>7. ASSUME NEW w \in Worker, WorkerStep(w) PROVE JobsInv'
  <2>0. kzip' = kzip /\ job[w] \in J /\ (pc[w] # "idle" => job[w].unit \in kzip)
    BY <1>0, <1>7, WorkerFrame DEF JobsInv
  <2>1. CASE Take(w)
    <3>1. PICK u \in todo :
             /\ todo' = todo \ {u}
             /\ \/ /\ job' = [job EXCEPT ![w] = [NoJob EXCEPT !.unit = u, !.idx = nextShard]]
                   /\ pc' = [pc EXCEPT ![w] = "open"]
                \/ /\ job' = [job EXCEPT ![w] = [NoJob EXCEPT !.unit = u]]
                   /\ pc' = [pc EXCEPT ![w] = "run"]
      BY <2>1 DEF Take, Goto
    <3>2. /\ [NoJob EXCEPT !.unit = u, !.idx = nextShard] \in J
          /\ [NoJob EXCEPT !.unit = u] \in J
          /\ [NoJob EXCEPT !.unit = u, !.idx = nextShard].unit = u
          /\ [NoJob EXCEPT !.unit = u].unit = u
      BY <1>0 DEF NoJob, None, JobsInv
    <3>3. folded' \subseteq kzip
      BY <1>0, <2>1 DEF Take, JobsInv
    <3> HIDE DEF J
    <3>4. "open" \in P /\ "run" \in P
      OBVIOUS
    <3> HIDE DEF P
    <3> QED BY <1>6, <2>0, <3>1, <3>2, <3>3, <3>4
  <2>2. CASE OpenHit(w)
    <3> DEFINE j == [job[w] EXCEPT !.fd = entry[Digest(job[w].unit)]]
    <3>1. job' = [job EXCEPT ![w] = j] /\ pc' = [pc EXCEPT ![w] = "copy"] /\ pc[w] # "idle"
      BY <2>2 DEF OpenHit, Goto
    <3>2. entry[Digest(job[w].unit)] \in Nat
      BY <2>2 DEF CacheInv, ReadersInv, Reading, Reader, contains, InodesInv, OpenHit
    <3>3. j \in J /\ j.unit = job[w].unit
      BY <2>0, <3>2
    <3>4. UNCHANGED <<todo, folded>>
      BY <2>2 DEF OpenHit
    <3>5. folded' \subseteq kzip /\ "copy" \in P
      BY <1>0, <3>4 DEF JobsInv
    <3> HIDE DEF J, P, j
    <3> QED BY <1>6, <2>0, <3>1, <3>3, <3>4, <3>5
  <2>3. CASE CopyHit(w)
    <3> DEFINE n == job[w].at + 1
               j == [job[w] EXCEPT !.at = n]
    <3>1. n \in Nat /\ pc[w] # "idle" /\ todo' = todo
      BY <2>0, <2>3 DEF CopyHit
    <3>2. j \in J /\ j.unit = job[w].unit
      BY <2>0, <3>1
    <3>3. folded' \subseteq kzip
      BY <1>0, <2>0, <2>3 DEF CopyHit, JobsInv
    <3>4. \/ job' = [job EXCEPT ![w] = j] /\ pc' = pc
          \/ job' = [job EXCEPT ![w] = NoJob] /\ pc' = [pc EXCEPT ![w] = "idle"]
      BY <2>3 DEF CopyHit, Goto
    <3>5. pc = [pc EXCEPT ![w] = pc[w]] /\ pc[w] \in P /\ "idle" \in P
      BY <1>0
    <3> HIDE DEF J, P, j, n
    <3> QED BY <1>1, <1>6, <2>0, <3>1, <3>2, <3>3, <3>4, <3>5
  <2>4. CASE CopyFails(w)
    <3> DEFINE j == [NoJob EXCEPT !.unit = job[w].unit]
    <3>1. /\ job' = [job EXCEPT ![w] = j] /\ pc' = [pc EXCEPT ![w] = "run"] /\ pc[w] # "idle"
          /\ UNCHANGED <<todo, folded>>
      BY <2>4 DEF CopyFails, Goto
    <3>2. j \in J /\ j.unit = job[w].unit
      BY <2>0 DEF NoJob, None
    <3>3. folded' \subseteq kzip /\ "run" \in P
      BY <1>0, <3>1 DEF JobsInv
    <3> HIDE DEF J, P, j
    <3> QED BY <1>6, <2>0, <3>1, <3>2, <3>3
  <2>5. CASE IndexFails(w) \/ StoreRename(w) \/ StoreFails(w)
    <3>1. /\ job' = [job EXCEPT ![w] = NoJob] /\ pc' = [pc EXCEPT ![w] = "idle"]
          /\ pc[w] # "idle" /\ UNCHANGED <<todo, folded>>
      BY <2>5 DEF IndexFails, StoreRename, StoreFails, Goto
    <3>2. folded' \subseteq kzip /\ "idle" \in P
      BY <1>0, <3>1 DEF JobsInv
    <3> HIDE DEF J, P
    <3> QED BY <1>1, <1>6, <2>0, <3>1, <3>2
  <2>6. CASE WriteOwn(w)
    <3> DEFINE j == [job[w] EXCEPT !.idx = nextShard]
    <3>1. /\ job' = [job EXCEPT ![w] = j] /\ pc' = [pc EXCEPT ![w] = "store"]
          /\ pc[w] # "idle" /\ todo' = todo /\ folded' = folded \cup {job[w].unit}
      BY <2>6 DEF WriteOwn, Goto
    <3>2. j \in J /\ j.unit = job[w].unit
      BY <1>0, <2>0
    <3>3. folded' \subseteq kzip /\ "store" \in P
      BY <1>0, <2>0, <3>1 DEF JobsInv
    <3> HIDE DEF J, P, j
    <3> QED BY <1>6, <2>0, <3>1, <3>2, <3>3
  <2>7. CASE StoreOpen(w)
    <3> DEFINE d == Digest(job[w].unit)
               i == IF d \in DOMAIN tmp THEN tmp[d] ELSE Fresh
               j == [job[w] EXCEPT !.fd = i]
    <3>1. /\ job' = [job EXCEPT ![w] = j] /\ pc' = [pc EXCEPT ![w] = "fill"]
          /\ pc[w] # "idle" /\ UNCHANGED <<todo, folded>>
      BY <2>7 DEF StoreOpen, Goto
    <3>2. i \in Nat
      BY FreshIsUnused DEF CacheInv, InodesInv
    <3> HIDE DEF i
    <3>3. j \in J /\ j.unit = job[w].unit
      BY <2>0, <3>2
    <3>4. folded' \subseteq kzip /\ "fill" \in P
      BY <1>0, <3>1 DEF JobsInv
    <3> HIDE DEF J, P, j
    <3> QED BY <1>6, <2>0, <3>1, <3>3, <3>4
  <2>8. CASE StoreCopy(w)
    <3> DEFINE j == [job[w] EXCEPT !.at = job[w].at + 1]
    <3>1. /\ job' = [job EXCEPT ![w] = j] /\ pc' = pc
          /\ pc[w] # "idle" /\ UNCHANGED <<todo, folded>>
      BY <2>8 DEF StoreCopy
    <3>2. j \in J /\ j.unit = job[w].unit
      BY <2>0
    <3>3. folded' \subseteq kzip /\ pc = [pc EXCEPT ![w] = pc[w]] /\ pc[w] \in P
      BY <1>0, <3>1 DEF JobsInv
    <3> HIDE DEF J, P, j
    <3> QED BY <1>6, <2>0, <3>1, <3>2, <3>3
  <2> QED BY <1>7, <2>1, <2>2, <2>3, <2>4, <2>5, <2>6, <2>7, <2>8 DEF WorkerStep
<1> QED
  <2>1. Damage \/ Discard \/ CoalesceFirst \/ Publish => UNCHANGED <<pc, job, todo, folded, kzip>>
    BY DEF Damage, Discard, CoalesceFirst, Publish, pool
  <2>2. Crash \/ CoalesceFails \/ Finalize
           => /\ pc' = [w \in Worker |-> "idle"] /\ job' = [w \in Worker |-> NoJob]
              /\ todo' = {} /\ folded' = {}
    BY DEF Crash, CoalesceFails, Finalize, Exit
  <2>3. UNCHANGED vars => UNCHANGED <<pc, job, todo, folded, kzip>>
    BY DEF vars, pool
  <2> QED BY <1>2, <1>3, <1>4, <1>5, <1>7, <2>1, <2>2, <2>3 DEF Next

\* The unit a busy worker has, and the shard it makes of it.
LEMMA BusyUnit ==
    ASSUME CacheInv, NEW w \in Worker, pc[w] # "idle"
    PROVE  /\ phase = "index" /\ flags \in Flags
           /\ job[w].unit \in kzip /\ job[w].unit \in Units
           /\ job[w].idx \in Nat /\ job[w].at \in Nat
           /\ RowsOf(job[w].unit, flags) \in Row
           /\ Whole(job[w].unit) \in Seq(Row) /\ Len(Whole(job[w].unit)) = NBlocks
           /\ Opens(Whole(job[w].unit))
<1>1. phase = "index" /\ flags \in Flags
  BY DEF CacheInv, PhaseInv
<1>2. job[w].unit \in kzip /\ job[w].unit \in Units
  BY DEF CacheInv, PhaseInv, JobsInv, Units
<1>3. job[w].idx \in Nat /\ job[w].at \in Nat
  BY DEF CacheInv, JobsInv
<1>4. RowsOf(job[w].unit, flags) \in Row
  BY <1>1, <1>2 DEF Row
<1> QED BY <1>1, <1>2, <1>3, <1>4, ShardParts DEF Whole

\* Two busy workers are about two digests.
LEMMA DigestsApart ==
    ASSUME CacheInv, NoTwins, NEW w \in Worker, NEW v \in Worker, w # v,
           pc[w] # "idle", pc[v] # "idle"
    PROVE  Digest(job[w].unit) # Digest(job[v].unit)
<1>1. flags.tag \in Tags /\ kzip \in Kzips
  BY BusyUnit, FlagsParts DEF CacheInv, PhaseInv
<1>2. job[w].unit \in kzip /\ job[v].unit \in kzip /\ job[w].unit # job[v].unit
  BY DEF CacheInv, JobsInv
<1> QED BY <1>1, <1>2 DEF NoTwins, Digest

\* A store in the middle of its copy.
LEMMA Filling ==
    ASSUME CacheInv, NEW w \in Worker, pc[w] = "fill"
    PROVE  LET j == job[w]
               d == Digest(j.unit)
           IN  /\ d \in DOMAIN tmp /\ tmp[d] = j.fd /\ j.fd \in DOMAIN data
               /\ j.idx \in DOMAIN work /\ work[j.idx] = Whole(j.unit)
               /\ j.at <= NBlocks /\ data[j.fd] = Copied(Whole(j.unit), j.at)
               /\ j.at < NBlocks =>
                     /\ Written(data[j.fd], j.at + 1, work[j.idx][j.at + 1])
                           = Copied(Whole(j.unit), j.at + 1)
                     /\ Copied(Whole(j.unit), j.at + 1) \in Seq(Row)
               /\ j.at = NBlocks => data[j.fd] = Whole(j.unit)
<1>1. Writer(w) /\ InodesInv
  BY DEF CacheInv, WritersInv, Storing
<1>2. /\ Whole(job[w].unit) \in Seq(Row) /\ Len(Whole(job[w].unit)) = NBlocks
      /\ job[w].at \in Nat
  BY BusyUnit
<1>3. /\ Digest(job[w].unit) \in DOMAIN tmp /\ tmp[Digest(job[w].unit)] = job[w].fd
      /\ job[w].fd \in DOMAIN data /\ job[w].idx \in DOMAIN work
      /\ work[job[w].idx] = Whole(job[w].unit)
      /\ job[w].at <= NBlocks /\ data[job[w].fd] = Copied(Whole(job[w].unit), job[w].at)
  BY <1>1 DEF Writer, InodesInv
<1>4. /\ job[w].at < NBlocks =>
            /\ Written(Copied(Whole(job[w].unit), job[w].at), job[w].at + 1,
                       Whole(job[w].unit)[job[w].at + 1])
                  = Copied(Whole(job[w].unit), job[w].at + 1)
            /\ Copied(Whole(job[w].unit), job[w].at + 1) \in Seq(Row)
      /\ Copied(Whole(job[w].unit), NBlocks) = Whole(job[w].unit)
  BY <1>2, <1>3, CopiedParts
<1> QED BY <1>3, <1>4

\* A hit in the middle of its copy.
LEMMA Copying ==
    ASSUME CacheInv, NEW w \in Worker, pc[w] = "copy"
    PROVE  LET j == job[w]
               d == Digest(j.unit)
               src == data[j.fd]
           IN  /\ d \in DOMAIN entry /\ entry[d] = j.fd /\ j.fd \in DOMAIN data
               /\ src \in Seq(Row) /\ Len(src) = NBlocks /\ Opens(src)
               /\ j.idx \in DOMAIN work /\ j.at <= NBlocks
               /\ work[j.idx] = Copied(src, j.at) /\ Len(work[j.idx]) = j.at
               /\ j.at < NBlocks =>
                     /\ Written(work[j.idx], j.at + 1, src[j.at + 1]) = Copied(src, j.at + 1)
                     /\ Copied(src, j.at + 1) \in Seq(Row)
               /\ j.at = NBlocks => work[j.idx] = src
<1>1. Reader(w) /\ InodesInv
  BY DEF CacheInv, ReadersInv, Reading
<1>2. job[w].at \in Nat
  BY BusyUnit
<1> DEFINE d == Digest(job[w].unit)
           src == data[job[w].fd]
<1>3. d \in DOMAIN entry /\ entry[d] = job[w].fd /\ Opens(src)
      /\ job[w].idx \in DOMAIN work /\ job[w].at <= NBlocks
      /\ work[job[w].idx] = Copied(src, job[w].at)
  BY <1>1 DEF Reader, contains
<1>4. job[w].fd \in DOMAIN data /\ src \in Seq(Row) /\ Len(src) = NBlocks
  BY <1>1, <1>3 DEF InodesInv, Opens
<1> DEFINE n == job[w].at
<1>6. n \in Nat /\ n <= Len(src) /\ NBlocks = Len(src)
  BY <1>2, <1>3, <1>4
<1> HIDE DEF d, src
<1>5. /\ job[w].at < NBlocks =>
            /\ Written(Copied(src, job[w].at), job[w].at + 1, src[job[w].at + 1])
                  = Copied(src, job[w].at + 1)
            /\ Copied(src, job[w].at + 1) \in Seq(Row)
      /\ Copied(src, NBlocks) = src /\ Len(Copied(src, job[w].at)) = job[w].at
  <2> HIDE DEF n
  <2>1. /\ n < Len(src) =>
              /\ Written(Copied(src, n), n + 1, src[n + 1]) = Copied(src, n + 1)
              /\ Copied(src, n + 1) \in Seq(Row)
        /\ Copied(src, Len(src)) = src /\ Len(Copied(src, n)) = n
    BY <1>4, <1>6, CopiedParts
  <2> QED BY <1>6, <2>1 DEF n
<1> QED BY <1>3, <1>4, <1>5 DEF d, src

\* The file a store opens: its own leftover or a new one, no entry's and no
\* other writer's.
LEMMA Opening ==
    ASSUME CacheInv, NEW w \in Worker, StoreOpen(w)
    PROVE  \E i \in Nat :
              LET d == Digest(job[w].unit)
              IN  /\ tmp' = Bind(tmp, d, i) /\ data' = Bind(data, i, <<>>)
                  /\ job' = [job EXCEPT ![w].fd = i]
                  /\ \A e \in DOMAIN entry : entry[e] # i
                  /\ \A e \in DOMAIN tmp : e # d => tmp[e] # i
                  /\ \A v \in Worker : job[v].fd = i => d \in DOMAIN tmp /\ tmp[d] = i
<1> DEFINE d == Digest(job[w].unit)
           i == IF d \in DOMAIN tmp THEN tmp[d] ELSE Fresh
<1>1. tmp' = Bind(tmp, d, i) /\ data' = Bind(data, i, <<>>) /\ job' = [job EXCEPT ![w].fd = i]
  BY DEF StoreOpen
<1>2. InodesInv
  BY DEF CacheInv
<1>3. CASE d \in DOMAIN tmp
  <2>1. i = tmp[d]
    BY <1>3
  <2>2. i \in Nat
    BY <1>2, <1>3, <2>1 DEF InodesInv
  <2>3. \A e \in DOMAIN entry : entry[e] # i
    BY <1>2, <1>3, <2>1 DEF InodesInv
  <2>4. \A e \in DOMAIN tmp : e # d => tmp[e] # i
    BY <1>2, <1>3, <2>1 DEF InodesInv
  <2> QED BY <1>1, <1>3, <2>1, <2>2, <2>3, <2>4
<1>4. CASE d \notin DOMAIN tmp
  <2>1. i = Fresh
    BY <1>4
  <2>2. Fresh \in Nat /\ Fresh \notin InUse
    BY <1>2, FreshIsUnused DEF InodesInv
  <2>3. /\ \A e \in DOMAIN entry : entry[e] # Fresh
        /\ \A e \in DOMAIN tmp : tmp[e] # Fresh
        /\ \A v \in Worker : job[v].fd # Fresh
    BY <2>2 DEF InUse
  <2> HIDE DEF d, i
  <2> QED BY <1>1, <2>1, <2>2, <2>3 DEF d
<1> QED BY <1>3, <1>4

\* Who changes the files of the cache.
LEMMA FilesFrame ==
    ASSUME [Next]_vars
    PROVE  \/ UNCHANGED <<data, entry, tmp>>
           \/ phase = "off" /\ tmp' = tmp /\ entry' = NoFiles /\ data' = NoFiles
           \/ Damage
           \/ /\ DOMAIN entry' \subseteq DOMAIN entry
              /\ \A d \in DOMAIN entry' : entry'[d] = entry[d]
              /\ tmp' = NoFiles
              /\ data' = [i \in {entry'[d] : d \in DOMAIN entry'} |-> data[i]]
           \/ \E w \in Worker : StoreOpen(w) \/ StoreCopy(w) \/ StoreRename(w)
<1>1. ASSUME NEW t \in Tags, NEW i \in Injects, NEW c \in BOOLEAN, Start(t, i, c)
      PROVE  \/ UNCHANGED <<data, entry, tmp>>
             \/ phase = "off" /\ tmp' = tmp /\ entry' = NoFiles /\ data' = NoFiles
  BY <1>1 DEF Start
<1>2. ReplaceKzip \/ Discard \/ CoalesceFirst \/ Publish => UNCHANGED <<data, entry, tmp>>
  BY DEF ReplaceKzip, Discard, CoalesceFirst, Publish, disk
<1>3. Crash \/ CoalesceFails \/ Finalize
         => /\ DOMAIN entry' \subseteq DOMAIN entry
            /\ \A d \in DOMAIN entry' : entry'[d] = entry[d]
            /\ tmp' = NoFiles
            /\ data' = [i \in {entry'[d] : d \in DOMAIN entry'} |-> data[i]]
  BY DEF Crash, CoalesceFails, Finalize, Pruned, Unbind, Exit
<1>4. ASSUME NEW w \in Worker,
             \/ Take(w) \/ OpenHit(w) \/ CopyHit(w) \/ CopyFails(w)
             \/ IndexFails(w) \/ WriteOwn(w) \/ StoreFails(w)
      PROVE  UNCHANGED <<data, entry, tmp>>
  BY <1>4 DEF Take, OpenHit, CopyHit, CopyFails, IndexFails, WriteOwn, StoreFails, disk
<1>5. UNCHANGED vars => UNCHANGED <<data, entry, tmp>>
  BY DEF vars, disk
<1> QED BY <1>1, <1>2, <1>3, <1>4, <1>5 DEF Next, WorkerStep

\* A damaged file is shorter than a whole one.
LEMMA DamagedFile ==
    ASSUME InodesInv, Damage
    PROVE  /\ UNCHANGED <<entry, tmp>> /\ DOMAIN data' = DOMAIN data
           /\ \A i \in DOMAIN data : data'[i] \in Seq(Row) /\ (data'[i] = data[i] \/ ~ Opens(data'[i]))
<1>1. PICK i \in DOMAIN data, n \in 0 .. NBlocks - 1 :
         n < Len(data[i]) /\ data' = [data EXCEPT ![i] = SubSeq(@, 1, n)]
  BY DEF Damage
<1>2. data[i] \in Seq(Row) /\ NBlocks \in Nat
  BY BoundsAssumption DEF InodesInv
<1>3. SubSeq(data[i], 1, n) \in Seq(Row) /\ Len(SubSeq(data[i], 1, n)) = n
  <2>1. n \in Nat /\ n <= Len(data[i]) /\ Len(data[i]) \in Nat /\ 1 <= n + 1
    BY <1>1, <1>2
  <2>2. SubSeq(data[i], 1, n) = [b \in 1 .. n |-> data[i][b]]
    BY <1>2, <2>1
  <2>3. \A b \in 1 .. n : data[i][b] \in Row
    BY <1>2, <2>1
  <2> QED BY <2>1, <2>2, <2>3
<1>4. ~ Opens(SubSeq(data[i], 1, n))
  BY <1>1, <1>2, <1>3 DEF Opens
<1>5. UNCHANGED <<entry, tmp>>
  BY DEF Damage
<1> QED BY <1>1, <1>2, <1>3, <1>4, <1>5 DEF InodesInv

\* Temporaries and entries stay apart.
LEMMA InodesStep ==
    ASSUME CacheInv, [Next]_vars
    PROVE  InodesInv'
<1>0. /\ InodesInv /\ <<>> \in Seq(Row) /\ DOMAIN NoFiles = {} /\ IsFiniteSet({})
  BY FS_EmptySet DEF CacheInv, NoFiles
<1>1. CASE UNCHANGED <<data, entry, tmp>>
  BY <1>0, <1>1 DEF InodesInv
<1>2. CASE phase = "off" /\ tmp' = tmp /\ entry' = NoFiles /\ data' = NoFiles
  <2>1. tmp = NoFiles
    BY <1>2 DEF CacheInv, PhaseInv
  <2> QED BY <1>0, <1>2, <2>1 DEF InodesInv
<1>3. CASE Damage
  BY <1>0, <1>3, DamagedFile DEF InodesInv
<1>4. CASE /\ DOMAIN entry' \subseteq DOMAIN entry
           /\ \A d \in DOMAIN entry' : entry'[d] = entry[d]
           /\ tmp' = NoFiles
           /\ data' = [i \in {entry'[d] : d \in DOMAIN entry'} |-> data[i]]
  <2>1. IsFiniteSet(DOMAIN entry')
    <3>1. DOMAIN entry' \in SUBSET DOMAIN entry /\ IsFiniteSet(DOMAIN entry)
      BY <1>0, <1>4 DEF InodesInv
    <3> QED BY <3>1, FS_Subset
  <2>2. \A d \in DOMAIN entry' : entry'[d] \in DOMAIN data'
    BY <1>4
  <2>3. \A i \in DOMAIN data' : i \in DOMAIN data /\ data'[i] = data[i]
    BY <1>0, <1>4 DEF InodesInv
  <2> QED BY <1>0, <1>4, <2>1, <2>2, <2>3 DEF InodesInv
<1>5. ASSUME NEW w \in Worker, StoreOpen(w) PROVE InodesInv'
  <2> DEFINE d == Digest(job[w].unit)
  <2>1. PICK i \in Nat :
           /\ tmp' = Bind(tmp, d, i) /\ data' = Bind(data, i, <<>>)
           /\ job' = [job EXCEPT ![w].fd = i]
           /\ \A e \in DOMAIN entry : entry[e] # i
           /\ \A e \in DOMAIN tmp : e # d => tmp[e] # i
           /\ \A v \in Worker : job[v].fd = i => d \in DOMAIN tmp /\ tmp[d] = i
    BY <1>5, Opening
  <2>2. entry' = entry
    BY <1>5 DEF StoreOpen
  <2> HIDE DEF d
  <2>3. /\ DOMAIN tmp' = DOMAIN tmp \cup {d} /\ tmp'[d] = i
        /\ \A e \in DOMAIN tmp : e # d => tmp'[e] = tmp[e]
    BY <2>1 DEF Bind
  <2>4. /\ DOMAIN data' = DOMAIN data \cup {i} /\ data'[i] = <<>>
        /\ \A x \in DOMAIN data : x # i => data'[x] = data[x]
    BY <2>1 DEF Bind
  <2>5. IsFiniteSet(DOMAIN tmp')
    BY <1>0, <2>3, FS_AddElement DEF InodesInv
  <2>6. \A x \in DOMAIN data' : x \in Nat /\ data'[x] \in Seq(Row)
    BY <1>0, <2>4 DEF InodesInv
  <2>7. \A e \in DOMAIN entry : entry[e] \in DOMAIN data'
    BY <1>0, <2>4 DEF InodesInv
  <2>8. \A e \in DOMAIN tmp' :
           /\ tmp'[e] \in DOMAIN data'
           /\ \A f \in DOMAIN entry : entry[f] # tmp'[e]
           /\ \A f \in DOMAIN tmp' : tmp'[f] = tmp'[e] => f = e
    BY <1>0, <2>1, <2>3, <2>4 DEF InodesInv
  <2> QED BY <1>0, <2>2, <2>5, <2>6, <2>7, <2>8 DEF InodesInv
<1>6. ASSUME NEW w \in Worker, StoreCopy(w) PROVE InodesInv'
  <2>0. pc[w] = "fill" /\ job[w].at < Len(work[job[w].idx])
    BY <1>6 DEF StoreCopy
  <2>1. job[w].at < NBlocks
    BY <2>0, Filling, BusyUnit
  <2>2. /\ data' = [data EXCEPT ![job[w].fd] = Written(data[job[w].fd], job[w].at + 1,
                                                 work[job[w].idx][job[w].at + 1])]
        /\ UNCHANGED <<entry, tmp>>
    BY <1>6 DEF StoreCopy
  <2>3. Written(data[job[w].fd], job[w].at + 1, work[job[w].idx][job[w].at + 1]) \in Seq(Row)
    BY <2>0, <2>1, Filling
  <2> QED BY <1>0, <2>2, <2>3 DEF InodesInv
<1>7. ASSUME NEW w \in Worker, StoreRename(w) PROVE InodesInv'
  <2> DEFINE d == Digest(job[w].unit)
  <2>1. d \in DOMAIN tmp
    BY <1>7, Filling DEF StoreRename
  <2>2. entry' = Bind(entry, d, tmp[d]) /\ tmp' = Unbind(tmp, {d}) /\ data' = data
    BY <1>7, <2>1 DEF StoreRename
  <2> HIDE DEF d
  <2>3. /\ DOMAIN entry' = DOMAIN entry \cup {d} /\ entry'[d] = tmp[d]
        /\ \A e \in DOMAIN entry : e # d => entry'[e] = entry[e]
    BY <2>2 DEF Bind
  <2>4. DOMAIN tmp' = DOMAIN tmp \ {d} /\ \A e \in DOMAIN tmp' : tmp'[e] = tmp[e]
    BY <2>2 DEF Unbind
  <2>5. IsFiniteSet(DOMAIN entry') /\ IsFiniteSet(DOMAIN tmp')
    <3>1. IsFiniteSet(DOMAIN entry \cup {d})
      BY <1>0, FS_AddElement DEF InodesInv
    <3>2. IsFiniteSet(DOMAIN tmp \ {d})
      BY <1>0, FS_RemoveElement DEF InodesInv
    <3> QED BY <2>3, <2>4, <3>1, <3>2
  <2>6. \A e \in DOMAIN entry' : entry'[e] \in DOMAIN data
    BY <1>0, <2>1, <2>3 DEF InodesInv
  <2>7. \A e \in DOMAIN tmp' :
           /\ tmp'[e] \in DOMAIN data
           /\ \A f \in DOMAIN entry' : entry'[f] # tmp'[e]
           /\ \A f \in DOMAIN tmp' : tmp'[f] = tmp'[e] => f = e
    BY <1>0, <2>1, <2>3, <2>4 DEF InodesInv
  <2> QED BY <1>0, <2>2, <2>5, <2>6, <2>7 DEF InodesInv
<1> QED BY <1>1, <1>2, <1>3, <1>4, <1>5, <1>6, <1>7, FilesFrame

\* An entry may be served only if it is a whole shard of its digest.
LEMMA EntriesStep ==
    ASSUME CacheInv, [Next]_vars
    PROVE  AdmittedIsWhole'
<1> DEFINE Good(d, f) == \E u \in Units, t \in Tags, i \in Injects :
                            /\ cu_content_digest(u, t) = d
                            /\ f = Shard(RowsOf(u, [tag |-> t, inject |-> i]))
<1>0. InodesInv /\ \A d \in DOMAIN entry : Opens(data[entry[d]]) => Good(d, data[entry[d]])
  BY DEF CacheInv, AdmittedIsWhole
<1>1. SUFFICES \A d \in DOMAIN entry' : Opens(data'[entry'[d]]) => Good(d, data'[entry'[d]])
  BY DEF AdmittedIsWhole, Opens
<1> DEFINE Goal == \A d \in DOMAIN entry' :
                      Opens(data'[entry'[d]]) => Good(d, data'[entry'[d]])
<1> HIDE DEF Good
<1>2. CASE UNCHANGED <<data, entry, tmp>>
  BY <1>0, <1>2
<1>3. CASE entry' = NoFiles
  BY <1>3 DEF NoFiles
<1>4. CASE Damage
  BY <1>0, <1>4, DamagedFile DEF InodesInv
<1>5. CASE /\ DOMAIN entry' \subseteq DOMAIN entry
           /\ \A d \in DOMAIN entry' : entry'[d] = entry[d]
           /\ data' = [i \in {entry'[d] : d \in DOMAIN entry'} |-> data[i]]
  BY <1>0, <1>5
<1>6. ASSUME NEW w \in Worker, StoreOpen(w) PROVE Goal
  <2>1. PICK i \in Nat : /\ data' = Bind(data, i, <<>>)
                         /\ \A e \in DOMAIN entry : entry[e] # i
    BY <1>6, Opening
  <2>2. entry' = entry
    BY <1>6 DEF StoreOpen
  <2>3. \A x \in DOMAIN data : x # i => data'[x] = data[x]
    BY <2>1 DEF Bind
  <2> QED BY <1>0, <2>1, <2>2, <2>3 DEF InodesInv
<1>7. ASSUME NEW w \in Worker, StoreCopy(w) PROVE Goal
  <2>1. \A e \in DOMAIN entry : entry[e] # job[w].fd
    BY <1>0, <1>7, Filling DEF StoreCopy, InodesInv
  <2>2. /\ data' = [data EXCEPT ![job[w].fd] = Written(data[job[w].fd], job[w].at + 1,
                                                 work[job[w].idx][job[w].at + 1])]
        /\ entry' = entry
    BY <1>7 DEF StoreCopy
  <2> QED BY <1>0, <2>1, <2>2 DEF InodesInv
<1>8. ASSUME NEW w \in Worker, StoreRename(w) PROVE Goal
  <2> DEFINE d == Digest(job[w].unit)
  <2>0. pc[w] = "fill" /\ job[w].at = Len(work[job[w].idx])
    BY <1>8 DEF StoreRename
  <2>1. d \in DOMAIN tmp /\ tmp[d] = job[w].fd
    BY <2>0, Filling
  <2>2. job[w].at = NBlocks
    BY <2>0, Filling, BusyUnit
  <2>3. data[tmp[d]] = Whole(job[w].unit)
    BY <2>0, <2>1, <2>2, Filling
  <2>4. Good(d, data[tmp[d]])
    <3>1. /\ job[w].unit \in Units /\ flags.tag \in Tags /\ flags.inject \in Injects
          /\ flags = [tag |-> flags.tag, inject |-> flags.inject]
      BY <2>0, BusyUnit, FlagsParts
    <3>2. cu_content_digest(job[w].unit, flags.tag) = d
      BY DEF Digest
    <3>3. data[tmp[d]] = Shard(RowsOf(job[w].unit, [tag |-> flags.tag, inject |-> flags.inject]))
      BY <2>3, <3>1 DEF Whole
    <3> HIDE DEF d
    <3> QED BY <3>1, <3>2, <3>3 DEF Good
  <2>5. entry' = Bind(entry, d, tmp[d]) /\ data' = data
    BY <1>8, <2>1 DEF StoreRename
  <2> HIDE DEF d
  <2>6. /\ DOMAIN entry' = DOMAIN entry \cup {d} /\ entry'[d] = tmp[d]
        /\ \A e \in DOMAIN entry : e # d => entry'[e] = entry[e]
    BY <2>5 DEF Bind
  <2> QED BY <1>0, <2>4, <2>5, <2>6
<1> QED BY <1>2, <1>3, <1>4, <1>5, <1>6, <1>7, <1>8, FilesFrame

\* Who changes the working shards.
LEMMA WorkFrame ==
    ASSUME [Next]_vars
    PROVE  \/ work' = NoFiles /\ phase' = "off" /\ UNCHANGED nextShard
           \/ CoalesceFirst
           \/ \E t \in Tags, i \in Injects, c \in BOOLEAN : Start(t, i, c)
           \/ \E w \in Worker : Take(w) \/ OpenHit(w) \/ CopyHit(w) \/ WriteOwn(w)
           \/ work' = work /\ phase' = "off" /\ nextShard' = 0
           \/ UNCHANGED <<work, nextShard, phase>>
           \/ Publish
<1>1. Discard => work' = NoFiles /\ phase' = "off" /\ UNCHANGED nextShard
  BY DEF Discard, main, pool
<1>2. ReplaceKzip \/ Damage => UNCHANGED <<work, nextShard, phase>>
  BY DEF ReplaceKzip, Damage, disk, main, pool
<1>3. Crash \/ CoalesceFails \/ Finalize => work' = work /\ phase' = "off" /\ nextShard' = 0
  BY DEF Crash, CoalesceFails, Finalize, Exit
<1>4. ASSUME NEW w \in Worker,
             \/ CopyFails(w) \/ IndexFails(w) \/ StoreOpen(w) \/ StoreCopy(w)
             \/ StoreRename(w) \/ StoreFails(w)
      PROVE  UNCHANGED <<work, nextShard, phase>>
  BY <1>4 DEF CopyFails, IndexFails, StoreOpen, StoreCopy, StoreRename, StoreFails,
              disk, main
<1>5. UNCHANGED vars => UNCHANGED <<work, nextShard, phase>>
  BY DEF vars, disk, main, pool
<1> QED BY <1>1, <1>2, <1>3, <1>4, <1>5 DEF Next, WorkerStep

\* What an action writes into the working shards.
LEMMA BoundShard ==
    ASSUME NEW i, NEW f, work' = Bind(work, i, f)
    PROVE  /\ DOMAIN work' = DOMAIN work \cup {i} /\ work'[i] = f
           /\ \A k \in DOMAIN work : k # i => work'[k] = work[k]
BY DEF Bind

\* What a hit does when it is run on: one more block of the entry, or done.
LEMMA CopyEffect ==
    ASSUME CacheInv, NEW w \in Worker, CopyHit(w)
    PROVE  LET j == job[w]
           IN  /\ UNCHANGED <<data, entry, tmp, todo, nextShard, spoiled>>
               /\ \/ /\ j.at < NBlocks
                     /\ DOMAIN work' = DOMAIN work
                     /\ work'[j.idx] = Copied(data[j.fd], j.at + 1)
                     /\ work'[j.idx] \in Seq(Row)
                     /\ \A k \in DOMAIN work : k # j.idx => work'[k] = work[k]
                     /\ job' = [job EXCEPT ![w].at = j.at + 1]
                     /\ UNCHANGED <<pc, folded>>
                  \/ /\ j.at = NBlocks /\ work[j.idx] = data[j.fd]
                     /\ work' = work
                     /\ folded' = folded \cup {j.unit}
                     /\ job' = [job EXCEPT ![w] = NoJob]
                     /\ pc' = [pc EXCEPT ![w] = "idle"]
<1>0. pc[w] = "copy"
  BY DEF CopyHit
<1>1. job[w].at \in Nat /\ NBlocks \in Nat
  BY <1>0, BusyUnit, BoundsAssumption
<1>2. Len(data[job[w].fd]) = NBlocks /\ job[w].at <= NBlocks /\ job[w].idx \in DOMAIN work
  BY <1>0, Copying
<1>3. UNCHANGED <<data, entry, tmp, todo, nextShard, spoiled>>
  BY DEF CopyHit
<1>4. CASE job[w].at < NBlocks
  <2> DEFINE x == Written(work[job[w].idx], job[w].at + 1, data[job[w].fd][job[w].at + 1])
  <2>1. job[w].at + 1 <= Len(data[job[w].fd])
    BY <1>1, <1>2, <1>4
  <2>2. /\ work' = [work EXCEPT ![job[w].idx] = x]
        /\ job' = [job EXCEPT ![w].at = job[w].at + 1] /\ UNCHANGED <<pc, folded>>
    BY <2>1 DEF CopyHit
  <2>3. x = Copied(data[job[w].fd], job[w].at + 1) /\ x \in Seq(Row)
    BY <1>0, <1>4, Copying
  <2> HIDE DEF x
  <2>4. /\ DOMAIN work' = DOMAIN work /\ work'[job[w].idx] = x
        /\ \A k \in DOMAIN work : k # job[w].idx => work'[k] = work[k]
    BY <1>2, <2>2
  <2> QED BY <1>3, <1>4, <2>2, <2>3, <2>4
<1>5. CASE job[w].at = NBlocks
  <2>1. ~ (job[w].at + 1 <= Len(data[job[w].fd]))
    BY <1>1, <1>2, <1>5
  <2>2. /\ folded' = folded \cup {job[w].unit} /\ job' = [job EXCEPT ![w] = NoJob]
        /\ pc' = [pc EXCEPT ![w] = "idle"] /\ work' = work
    BY <2>1 DEF CopyHit, Goto
  <2>3. work[job[w].idx] = data[job[w].fd]
    BY <1>0, <1>5, Copying
  <2> QED BY <1>3, <1>5, <2>2, <2>3
<1> QED BY <1>1, <1>2, <1>4, <1>5

\* Working shards keep their numbering.
LEMMA WorkStep ==
    ASSUME CacheInv, [Next]_vars
    PROVE  WorkInv'
<1>0. /\ WorkInv /\ PhaseInv /\ DOMAIN NoFiles = {} /\ IsFiniteSet({}) /\ <<>> \in Seq(Row)
      /\ IsFiniteSet(DOMAIN work) /\ nextShard \in Nat
  BY FS_EmptySet DEF CacheInv, NoFiles, WorkInv
<1>1. CASE work' = NoFiles /\ nextShard' \in Nat
  BY <1>0, <1>1 DEF WorkInv
<1>2. ASSUME NEW t \in Tags, NEW i \in Injects, NEW c \in BOOLEAN, Start(t, i, c)
      PROVE  WorkInv'
  <2>1. work' = work /\ nextShard' = next_shard_index /\ phase' = "index"
    BY <1>2 DEF Start
  <2>2. next_shard_index \in Nat /\ \A k \in DOMAIN work : k < next_shard_index
    BY <1>0, NextIndex DEF WorkInv
  <2> QED BY <1>0, <2>1, <2>2 DEF WorkInv
<1>3. ASSUME NEW w \in Worker, Take(w) PROVE WorkInv'
  <2>1. work' = work /\ phase' = phase /\ (nextShard' = nextShard \/ nextShard' = nextShard + 1)
    BY <1>3 DEF Take, disk, main
  <2> QED BY <1>0, <2>1 DEF WorkInv
<1>4. ASSUME NEW w \in Worker, OpenHit(w) PROVE WorkInv'
  <2>1. work' = Bind(work, job[w].idx, <<>>) /\ phase' = phase /\ nextShard' = nextShard
    BY <1>4 DEF OpenHit, main
  <2>2. job[w].idx \in Nat /\ job[w].idx < nextShard /\ phase = "index"
    BY <1>4, BusyUnit DEF OpenHit, CacheInv, ReadersInv, Reading, Reader
  <2>3. IsFiniteSet(DOMAIN work \cup {job[w].idx})
    BY <1>0, FS_AddElement
  <2>4. /\ DOMAIN work' = DOMAIN work \cup {job[w].idx} /\ work'[job[w].idx] = <<>>
        /\ \A k \in DOMAIN work : k # job[w].idx => work'[k] = work[k]
    BY <2>1, BoundShard
  <2>5. /\ \A k \in DOMAIN work' : work'[k] \in Seq(Row) /\ k \in Nat
        /\ IsFiniteSet(DOMAIN work')
    BY <1>0, <2>2, <2>3, <2>4 DEF WorkInv
  <2>6. \A k \in DOMAIN work' : k < nextShard
    BY <1>0, <2>2, <2>4 DEF WorkInv
  <2> QED BY <1>0, <2>1, <2>2, <2>5, <2>6 DEF WorkInv
<1>5. ASSUME NEW w \in Worker, CopyHit(w) PROVE WorkInv'
  <2>1. /\ DOMAIN work' = DOMAIN work /\ nextShard' = nextShard
        /\ \A k \in DOMAIN work : work'[k] = work[k] \/ work'[k] \in Seq(Row)
    BY <1>5, CopyEffect
  <2>2. phase = "index" /\ phase' = "index"
    BY <1>0, <1>5, WorkerFrame DEF WorkerStep
  <2> QED BY <1>0, <2>1, <2>2 DEF WorkInv
<1>6. ASSUME NEW w \in Worker, WriteOwn(w) PROVE WorkInv'
  <2>1. /\ work' = Bind(work, nextShard, Whole(job[w].unit)) /\ phase' = phase
        /\ nextShard' = nextShard + 1
    BY <1>6 DEF WriteOwn, main, Whole
  <2>2. Whole(job[w].unit) \in Seq(Row) /\ phase = "index"
    BY <1>6, BusyUnit DEF WriteOwn
  <2>3. IsFiniteSet(DOMAIN work \cup {nextShard})
    BY <1>0, FS_AddElement
  <2>4. /\ DOMAIN work' = DOMAIN work \cup {nextShard} /\ work'[nextShard] = Whole(job[w].unit)
        /\ \A k \in DOMAIN work : k # nextShard => work'[k] = work[k]
    BY <2>1, BoundShard
  <2>5. /\ \A k \in DOMAIN work' : work'[k] \in Seq(Row) /\ k \in Nat
        /\ IsFiniteSet(DOMAIN work')
    BY <1>0, <2>2, <2>3, <2>4 DEF WorkInv
  <2>6. \A k \in DOMAIN work' : k < nextShard + 1
    BY <1>0, <2>2, <2>4 DEF WorkInv
  <2> QED BY <1>0, <2>1, <2>2, <2>5, <2>6 DEF WorkInv
<1>7. CASE work' = work /\ phase' = "off" /\ nextShard' = 0
  BY <1>0, <1>7 DEF WorkInv
<1>8. CASE UNCHANGED <<work, nextShard, phase>>
  BY <1>0, <1>8 DEF WorkInv
<1>9. CASE Publish
  <2>1. work' = work /\ nextShard' = nextShard /\ phase = "coalesce" /\ phase' = "finalize"
    BY <1>9 DEF Publish, pool
  <2> QED BY <1>0, <2>1 DEF WorkInv
<1>10. CASE CoalesceFirst
  <2>1. work' = NoFiles /\ nextShard' = nextShard
    BY <1>10 DEF CoalesceFirst, pool
  <2> QED BY <1>0, <1>1, <2>1
<1> QED BY <1>0, <1>1, <1>2, <1>3, <1>4, <1>5, <1>6, <1>7, <1>8, <1>9, <1>10, WorkFrame

\* A worker's step is its own: the others stay where they are, and indices
\* are only handed out.
LEMMA OthersStay ==
    ASSUME CacheInv, NEW w \in Worker, WorkerStep(w)
    PROVE  /\ \A v \in Worker : v # w => pc'[v] = pc[v] /\ job'[v] = job[v]
           /\ nextShard' \in Nat /\ nextShard <= nextShard'
           /\ flags' = flags
<1>0. /\ pc \in [Worker -> {"idle", "run", "open", "copy", "store", "fill"}]
      /\ job \in [Worker -> [unit : Units \cup {NoUnit}, idx : Nat, fd : Nat, at : Nat]]
      /\ nextShard \in Nat
  BY DEF CacheInv, JobsInv, WorkInv
<1>1. CASE Take(w)
  <2>1. \A v \in Worker : v # w => pc'[v] = pc[v] /\ job'[v] = job[v]
    BY <1>0, <1>1 DEF Take, Goto
  <2>2. nextShard' = nextShard \/ nextShard' = nextShard + 1
    BY <1>1 DEF Take
  <2> QED BY <1>0, <1>1, <2>1, <2>2 DEF Take, main
<1>2. CASE OpenHit(w) \/ CopyHit(w)
  BY <1>0, <1>2 DEF OpenHit, CopyHit, Goto, main
<1>3. CASE CopyFails(w) \/ IndexFails(w) \/ StoreFails(w)
  BY <1>0, <1>3 DEF CopyFails, IndexFails, StoreFails, Goto, main
<1>4. CASE WriteOwn(w)
  BY <1>0, <1>4 DEF WriteOwn, Goto, main
<1>5. CASE StoreOpen(w)
  BY <1>0, <1>5 DEF StoreOpen, Goto, main
<1>6. CASE StoreCopy(w) \/ StoreRename(w)
  BY <1>0, <1>6 DEF StoreCopy, StoreRename, Goto, main
<1> QED BY <1>1, <1>2, <1>3, <1>4, <1>5, <1>6 DEF WorkerStep

\* A shard stays as it is under the steps of a worker that neither creates
\* nor copies it: a reserved one is not created, a whole one not written to.
LEMMA ShardStays ==
    ASSUME CacheInv, NEW w \in Worker, WorkerStep(w), NEW k \in Nat, k < nextShard,
           Reading(w) => k # job[w].idx \/ (k \in DOMAIN work /\ Len(work[k]) = NBlocks)
    PROVE  /\ k \in DOMAIN work' <=> k \in DOMAIN work
           /\ k \in DOMAIN work => work'[k] = work[k]
<1>1. CASE OpenHit(w)
  <2>1. work' = Bind(work, job[w].idx, <<>>) /\ pc[w] = "open"
    BY <1>1 DEF OpenHit
  <2>2. k # job[w].idx
    BY <2>1 DEF CacheInv, ReadersInv, Reading, Reader
  <2> QED BY <2>1, <2>2, BoundShard
<1>2. CASE CopyHit(w)
  <2>0. pc[w] = "copy"
    BY <1>2 DEF CopyHit
  <2>1. CASE work' = work
    BY <2>1
  <2>2. CASE k # job[w].idx
    BY <1>2, <2>2, CopyEffect
  <2>3. CASE k = job[w].idx /\ work' # work
    <3>1. job[w].at < NBlocks
      BY <1>2, <2>3, CopyEffect
    <3>2. Len(work[k]) = job[w].at /\ Len(work[k]) = NBlocks /\ NBlocks \in Nat
      BY <2>0, <2>3, Copying, BoundsAssumption DEF Reading
    <3> QED BY <3>1, <3>2
  <2> QED BY <2>1, <2>2, <2>3
<1>3. CASE WriteOwn(w)
  <2>1. work' = Bind(work, nextShard, Shard(RowsOf(job[w].unit, flags)))
    BY <1>3 DEF WriteOwn
  <2>2. k # nextShard
    BY DEF CacheInv, WorkInv
  <2> QED BY <2>1, <2>2 DEF Bind
<1>4. CASE work' = work
  BY <1>4
<1>5. \/ OpenHit(w) \/ CopyHit(w) \/ WriteOwn(w) \/ work' = work
  BY DEF WorkerStep, Take, CopyFails, IndexFails, StoreOpen, StoreCopy, StoreRename,
         StoreFails, disk
<1> QED BY <1>1, <1>2, <1>3, <1>4, <1>5

\* An entry stays as it is under the steps of a worker about another digest.
LEMMA EntryStays ==
    ASSUME CacheInv, NEW w \in Worker, WorkerStep(w), NEW d \in DOMAIN entry,
           Storing(w) => d # Digest(job[w].unit)
    PROVE  d \in DOMAIN entry' /\ entry'[d] = entry[d] /\ data'[entry[d]] = data[entry[d]]
<1>0. entry[d] \in DOMAIN data
  BY DEF CacheInv, InodesInv
<1>1. CASE StoreOpen(w)
  <2>1. PICK i \in Nat : /\ data' = Bind(data, i, <<>>)
                         /\ \A e \in DOMAIN entry : entry[e] # i
    BY <1>1, Opening
  <2>2. entry' = entry
    BY <1>1 DEF StoreOpen
  <2> QED BY <1>0, <2>1, <2>2 DEF Bind
<1>2. CASE StoreCopy(w)
  <2>1. entry[d] # job[w].fd
    BY <1>2, Filling DEF StoreCopy, CacheInv, InodesInv
  <2>2. /\ data' = [data EXCEPT ![job[w].fd] = Written(data[job[w].fd], job[w].at + 1,
                                                 work[job[w].idx][job[w].at + 1])]
        /\ entry' = entry
    BY <1>2 DEF StoreCopy
  <2> QED BY <1>0, <2>1, <2>2
<1>3. CASE StoreRename(w)
  BY <1>3 DEF StoreRename, Storing, Bind
<1>4. CASE UNCHANGED <<data, entry>>
  BY <1>4
<1>5. StoreOpen(w) \/ StoreCopy(w) \/ StoreRename(w) \/ UNCHANGED <<data, entry>>
  BY DEF WorkerStep, Take, OpenHit, CopyHit, CopyFails, IndexFails, WriteOwn, StoreFails, disk
<1> QED BY <1>1, <1>2, <1>3, <1>4, <1>5

\* A temporary stays as it is under the steps of a worker about another digest.
LEMMA TemporaryStays ==
    ASSUME CacheInv, NEW w \in Worker, WorkerStep(w), NEW d \in DOMAIN tmp,
           Storing(w) => d # Digest(job[w].unit)
    PROVE  d \in DOMAIN tmp' /\ tmp'[d] = tmp[d] /\ data'[tmp[d]] = data[tmp[d]]
<1>0. tmp[d] \in DOMAIN data
  BY DEF CacheInv, InodesInv
<1>1. CASE StoreOpen(w)
  <2> DEFINE e == Digest(job[w].unit)
  <2>1. PICK i \in Nat : /\ tmp' = Bind(tmp, e, i) /\ data' = Bind(data, i, <<>>)
                         /\ \A f \in DOMAIN tmp : f # e => tmp[f] # i
    BY <1>1, Opening
  <2>2. d # e
    BY <1>1 DEF StoreOpen, Storing
  <2> HIDE DEF e
  <2> QED BY <1>0, <2>1, <2>2 DEF Bind
<1>2. CASE StoreCopy(w)
  <2>0. d # Digest(job[w].unit) /\ pc[w] = "fill"
    BY <1>2 DEF StoreCopy, Storing
  <2>1. tmp[d] # job[w].fd
    BY <2>0, Filling DEF CacheInv, InodesInv
  <2>2. /\ data' = [data EXCEPT ![job[w].fd] = Written(data[job[w].fd], job[w].at + 1,
                                                 work[job[w].idx][job[w].at + 1])]
        /\ tmp' = tmp
    BY <1>2 DEF StoreCopy
  <2> QED BY <1>0, <2>1, <2>2
<1>3. CASE StoreRename(w)
  BY <1>3 DEF StoreRename, Storing, Unbind
<1>4. CASE UNCHANGED <<data, tmp>>
  BY <1>4
<1>5. StoreOpen(w) \/ StoreCopy(w) \/ StoreRename(w) \/ UNCHANGED <<data, tmp>>
  BY DEF WorkerStep, Take, OpenHit, CopyHit, CopyFails, IndexFails, WriteOwn, StoreFails, disk
<1> QED BY <1>1, <1>2, <1>3, <1>4, <1>5

\* What a reader relies on, in the next state.
LEMMA ReaderNext ==
    ASSUME NEW v \in Worker, NEW j, NEW d,
           job'[v] = j, d = cu_content_digest(j.unit, flags'.tag),
           d \in DOMAIN entry', Opens(data'[entry'[d]]), j.idx < nextShard',
           pc'[v] = "open" => j.idx \notin DOMAIN work' /\ j.at = 0,
           pc'[v] = "copy" => /\ j.idx \in DOMAIN work' /\ j.at <= NBlocks
                              /\ j.fd = entry'[d]
                              /\ work'[j.idx] = Copied(data'[j.fd], j.at)
    PROVE  Reader(v)'
BY DEF Reader, contains, Digest, Opens, Copied

\* Readers go on reading what `contains` admitted.
LEMMA ReadersStep ==
    ASSUME CacheInv, NoTwins, [Next]_vars
    PROVE  ReadersInv'
<1> DEFINE P == {"idle", "run", "open", "copy", "store", "fill"}
<1>0. /\ PhaseInv /\ ReadersInv /\ pc \in [Worker -> P] /\ nextShard \in Nat
      /\ job \in [Worker -> [unit : Units \cup {NoUnit}, idx : Nat, fd : Nat, at : Nat]]
  BY DEF CacheInv, JobsInv, WorkInv
<1>1. CASE \A w \in Worker : pc'[w] = "idle"
  BY <1>1 DEF ReadersInv, Reading
<1>2. CASE UNCHANGED vars
  BY <1>0, <1>2 DEF vars, disk, main, pool, ReadersInv, Reading, Reader, contains, Digest
<1>3. ASSUME NEW w \in Worker, WorkerStep(w) PROVE ReadersInv'
  <2>0. /\ \A v \in Worker : v # w => pc'[v] = pc[v] /\ job'[v] = job[v]
        /\ nextShard' \in Nat /\ nextShard <= nextShard' /\ flags' = flags
    BY <1>3, OthersStay
  <2>1. ASSUME NEW v \in Worker, v # w, Reading(v) PROVE Reader(v)'
    <3> DEFINE d == Digest(job[v].unit)
               j == job[v]
    <3>1. Reader(v) /\ j.idx \in Nat /\ pc[v] # "idle"
      BY <1>0, <2>1 DEF ReadersInv, Reading
    <3>2. /\ d \in DOMAIN entry /\ Opens(data[entry[d]]) /\ j.idx < nextShard
          /\ pc[v] = "open" => j.idx \notin DOMAIN work /\ j.at = 0
          /\ pc[v] = "copy" => /\ j.idx \in DOMAIN work /\ j.at <= NBlocks
                               /\ j.fd = entry[d]
                               /\ work[j.idx] = Copied(data[j.fd], j.at)
      BY <3>1 DEF Reader, contains
    <3>3. Storing(w) => d # Digest(job[w].unit)
      BY <2>1, <3>1, DigestsApart DEF Storing
    <3>4. d \in DOMAIN entry' /\ entry'[d] = entry[d] /\ data'[entry[d]] = data[entry[d]]
      BY <1>3, <3>2, <3>3, EntryStays
    <3>5. Reading(w) => j.idx # job[w].idx
      BY <1>0, <2>1 DEF ReadersInv
    <3>6. /\ j.idx \in DOMAIN work' <=> j.idx \in DOMAIN work
          /\ j.idx \in DOMAIN work => work'[j.idx] = work[j.idx]
      BY <1>3, <3>1, <3>2, <3>5, ShardStays
    <3>7. job'[v] = j /\ pc'[v] = pc[v] /\ d = cu_content_digest(j.unit, flags'.tag)
      BY <2>0, <2>1 DEF Digest
    <3>8. j.idx < nextShard'
      BY <1>0, <2>0, <3>1, <3>2
    <3> HIDE DEF d, j
    <3> QED BY <3>2, <3>4, <3>6, <3>7, <3>8, ReaderNext
  <2>2. ASSUME Reading(w)', ~ Reading(w) PROVE Take(w) /\ Reader(w)' /\ job'[w].idx = nextShard
    <3>1. Take(w)
      BY <1>0, <1>3, <2>2 DEF WorkerStep, OpenHit, CopyHit, CopyFails, IndexFails, WriteOwn,
           StoreOpen, StoreCopy, StoreRename, StoreFails, Goto, Reading
    <3>2. PICK u \in todo :
             \/ /\ contains(Digest(u)) /\ nextShard' = nextShard + 1
                /\ job' = [job EXCEPT ![w] = [NoJob EXCEPT !.unit = u, !.idx = nextShard]]
                /\ pc' = [pc EXCEPT ![w] = "open"]
             \/ pc' = [pc EXCEPT ![w] = "run"]
      BY <3>1 DEF Take, Goto
    <3>3. /\ contains(Digest(u)) /\ nextShard' = nextShard + 1 /\ pc'[w] = "open"
          /\ job' = [job EXCEPT ![w] = [NoJob EXCEPT !.unit = u, !.idx = nextShard]]
      BY <1>0, <2>2, <3>2 DEF Reading
    <3> DEFINE j == [NoJob EXCEPT !.unit = u, !.idx = nextShard]
    <3>4. job'[w] = j /\ j.unit = u /\ j.idx = nextShard /\ j.at = 0
      BY <1>0, <3>3 DEF NoJob
    <3>5. UNCHANGED <<data, entry, work, flags>> /\ phase = "index"
      BY <3>1 DEF Take, disk, main
    <3>6. nextShard \notin DOMAIN work
      BY <1>0, <3>5 DEF CacheInv, WorkInv
    <3>7. nextShard < nextShard'
      BY <1>0, <3>3
    <3> HIDE DEF j
    <3>8. Reader(w)'
      BY <3>3, <3>4, <3>5, <3>6, <3>7, ReaderNext DEF contains, Digest
    <3> QED BY <3>1, <3>4, <3>8
  <2>3. ASSUME Reading(w)', Reading(w) PROVE Reader(w)' /\ job'[w].idx = job[w].idx
    <3> DEFINE d == Digest(job[w].unit)
               j == job[w]
    <3>1. Reader(w)
      BY <1>0, <2>3 DEF ReadersInv
    <3>2. CASE OpenHit(w)
      <4>1. /\ work' = Bind(work, j.idx, <<>>) /\ job' = [job EXCEPT ![w].fd = entry[d]]
            /\ pc'[w] = "copy" /\ UNCHANGED <<data, entry, nextShard, flags>> /\ pc[w] = "open"
        BY <1>0, <3>2 DEF OpenHit, Goto, main
      <4>2. d \in DOMAIN entry /\ Opens(data[entry[d]]) /\ j.idx < nextShard /\ j.at = 0
        BY <3>1, <4>1 DEF Reader, contains
      <4>3. /\ job'[w].unit = j.unit /\ job'[w].idx = j.idx /\ job'[w].at = 0
            /\ job'[w].fd = entry[d]
        BY <1>0, <4>1, <4>2
      <4>4. j.idx \in DOMAIN work' /\ work'[j.idx] = <<>>
        BY <4>1, BoundShard
      <4>5. Copied(data[entry[d]], 0) = <<>>
        BY DEF Copied
      <4>6. 0 <= NBlocks
        BY BoundsAssumption
      <4>7. d = cu_content_digest(job'[w].unit, flags'.tag)
        BY <4>1, <4>3 DEF Digest
      <4> HIDE DEF d, j
      <4> DEFINE g == job'[w]
      <4>8. g.idx = j.idx /\ g.at = 0 /\ g.fd = entry'[d] /\ work'[g.idx] = Copied(data'[g.fd], g.at)
        BY <4>1, <4>3, <4>4, <4>5
      <4>9. Reader(w)'
        BY <4>1, <4>2, <4>3, <4>4, <4>6, <4>7, <4>8, ReaderNext
      <4> QED BY <4>3, <4>9 DEF j
    <3>3. CASE CopyHit(w)
      <4>0. pc[w] = "copy"
        BY <3>3 DEF CopyHit
      <4>1. /\ UNCHANGED <<data, entry, nextShard>> /\ j.at < NBlocks /\ DOMAIN work' = DOMAIN work
            /\ work'[j.idx] = Copied(data[j.fd], j.at + 1)
            /\ job' = [job EXCEPT ![w].at = j.at + 1] /\ pc' = pc
        BY <1>0, <2>3, <3>3, CopyEffect DEF Reading
      <4>2. d \in DOMAIN entry /\ Opens(data[entry[d]]) /\ j.idx < nextShard
            /\ j.idx \in DOMAIN work /\ j.fd = entry[d]
        BY <3>1, <4>0 DEF Reader, contains
      <4>3. /\ job'[w].unit = j.unit /\ job'[w].idx = j.idx /\ job'[w].at = j.at + 1
            /\ job'[w].fd = j.fd
        BY <1>0, <4>1
      <4>4. j.at + 1 <= NBlocks
        BY <1>0, <4>1, BoundsAssumption
      <4>5. d = cu_content_digest(job'[w].unit, flags'.tag)
        BY <2>0, <4>3 DEF Digest
      <4> HIDE DEF d, j
      <4> DEFINE g == job'[w]
      <4>6. g.idx = j.idx /\ g.fd = entry'[d] /\ work'[g.idx] = Copied(data'[g.fd], g.at)
        BY <4>1, <4>2, <4>3
      <4>7. Reader(w)'
        BY <4>0, <4>1, <4>2, <4>3, <4>4, <4>5, <4>6, ReaderNext
      <4> QED BY <4>3, <4>7 DEF j
    <3>4. CASE CopyFails(w)
      BY <1>0, <2>3, <3>4 DEF CopyFails, Goto, Reading
    <3> QED BY <1>3, <2>3, <3>2, <3>3, <3>4 DEF WorkerStep, Take, IndexFails, WriteOwn,
               StoreOpen, StoreCopy, StoreRename, StoreFails, Reading
  <2>4. \A v \in Worker : Reading(v)' => Reader(v)'
    BY <2>0, <2>1, <2>2, <2>3 DEF Reading
  <2>5. ASSUME NEW v \in Worker, v # w, Reading(v)', Reading(w)'
        PROVE  job'[v].idx # job'[w].idx
    <3>1. Reading(v) /\ job'[v].idx = job[v].idx /\ job[v].idx < nextShard
      BY <1>0, <2>0, <2>5 DEF Reading, ReadersInv, Reader
    <3>2. CASE Reading(w)
      BY <1>0, <2>3, <2>5, <3>1, <3>2 DEF ReadersInv
    <3>3. CASE ~ Reading(w)
      BY <1>0, <2>2, <2>5, <3>1, <3>3
    <3> QED BY <3>2, <3>3
  <2>6. \A u, v \in Worker : (u # v /\ Reading(u)' /\ Reading(v)') => job'[u].idx # job'[v].idx
    BY <1>0, <2>0, <2>5 DEF ReadersInv, Reading
  <2> QED BY <2>4, <2>6 DEF ReadersInv
<1> QED BY <1>0, <1>1, <1>2, <1>3, MainFrame

\* What a writer relies on, in the next state.
LEMMA WriterNext ==
    ASSUME NEW v \in Worker, NEW j, NEW d,
           job'[v] = j, flags' = flags, d = Digest(j.unit),
           j.idx \in DOMAIN work', work'[j.idx] = Whole(j.unit),
           pc'[v] = "store" => j.at = 0,
           pc'[v] = "fill" => /\ d \in DOMAIN tmp' /\ tmp'[d] = j.fd /\ j.at <= NBlocks
                              /\ data'[j.fd] = Copied(Whole(j.unit), j.at)
    PROVE  Writer(v)'
<1>1. Whole(j.unit) = Shard(RowsOf(j.unit, flags')) /\ d = cu_content_digest(j.unit, flags'.tag)
  BY DEF Whole, Digest
<1> HIDE DEF Shard, RowsOf, cu_content_digest
<1> QED BY <1>1, Zenon DEF Writer, Whole, Digest, Copied

\* Writers go on storing a whole shard, each into a temporary of its own.
LEMMA WritersStep ==
    ASSUME CacheInv, NoTwins, [Next]_vars
    PROVE  WritersInv'
<1> DEFINE P == {"idle", "run", "open", "copy", "store", "fill"}
<1>0. /\ PhaseInv /\ WritersInv /\ pc \in [Worker -> P] /\ nextShard \in Nat
      /\ job \in [Worker -> [unit : Units \cup {NoUnit}, idx : Nat, fd : Nat, at : Nat]]
  BY DEF CacheInv, JobsInv, WorkInv
<1>1. CASE \A w \in Worker : pc'[w] = "idle"
  BY <1>1 DEF WritersInv, Storing
<1>2. CASE UNCHANGED vars
  BY <1>0, <1>2 DEF vars, disk, main, pool, WritersInv, Storing, Writer, Digest, Whole
<1>3. ASSUME NEW w \in Worker, WorkerStep(w) PROVE WritersInv'
  <2>0. /\ \A v \in Worker : v # w => pc'[v] = pc[v] /\ job'[v] = job[v]
        /\ flags' = flags
    BY <1>3, OthersStay
  <2>1. ASSUME NEW v \in Worker, v # w, Storing(v) PROVE Writer(v)'
    <3> DEFINE j == job[v]
               d == Digest(job[v].unit)
    <3>1. Writer(v) /\ pc[v] # "idle"
      BY <1>0, <2>1 DEF WritersInv, Storing
    <3>2. /\ j.idx \in DOMAIN work /\ work[j.idx] = Whole(j.unit)
          /\ pc[v] = "store" => j.at = 0
          /\ pc[v] = "fill" =>
                /\ d \in DOMAIN tmp /\ tmp[d] = j.fd /\ j.at <= NBlocks
                /\ data[j.fd] = Copied(Whole(j.unit), j.at)
      BY <3>1 DEF Writer
    <3>3. j.idx \in Nat /\ j.idx < nextShard
      BY <3>1, <3>2, BusyUnit DEF CacheInv, WorkInv
    <3>4. Len(work[j.idx]) = NBlocks
      BY <3>1, <3>2, BusyUnit
    <3>5. j.idx \in DOMAIN work' /\ work'[j.idx] = Whole(j.unit)
      BY <1>3, <3>2, <3>3, <3>4, ShardStays
    <3>6. Storing(w) => d # Digest(job[w].unit)
      BY <2>1, <3>1, DigestsApart DEF Storing
    <3>7. d \in DOMAIN tmp => d \in DOMAIN tmp' /\ tmp'[d] = tmp[d] /\ data'[tmp[d]] = data[tmp[d]]
      BY <1>3, <3>6, TemporaryStays
    <3>8. job'[v] = j /\ pc'[v] = pc[v]
      BY <2>0, <2>1
    <3>9. d = Digest(j.unit)
      OBVIOUS
    <3> HIDE DEF d, j
    <3> QED BY <2>0, <3>2, <3>5, <3>7, <3>8, <3>9, WriterNext
  <2>2. ASSUME pc'[w] = "run" PROVE job'[w].at = 0
    <3>1. Take(w) \/ CopyFails(w)
      BY <1>0, <1>3, <2>2 DEF WorkerStep, OpenHit, CopyHit, IndexFails, WriteOwn,
           StoreOpen, StoreCopy, StoreRename, StoreFails, Goto
    <3> QED BY <1>0, <3>1 DEF Take, CopyFails, NoJob
  <2>3. ASSUME Storing(w)' PROVE Writer(w)'
    <3> DEFINE j == job[w]
               g == job'[w]
               d == Digest(job[w].unit)
    <3>1. CASE WriteOwn(w)
      <4>1. /\ work' = Bind(work, nextShard, Whole(j.unit)) /\ pc'[w] = "store" /\ pc[w] = "run"
            /\ job' = [job EXCEPT ![w].idx = nextShard]
        BY <1>0, <3>1 DEF WriteOwn, Goto, Whole
      <4>2. g.unit = j.unit /\ g.idx = nextShard /\ g.at = 0
        BY <1>0, <4>1 DEF WritersInv
      <4>3. nextShard \in DOMAIN work' /\ work'[nextShard] = Whole(j.unit)
        BY <4>1, BoundShard
      <4>4. d = Digest(g.unit)
        BY <4>2
      <4> HIDE DEF d, j
      <4> QED BY <2>0, <4>1, <4>2, <4>3, <4>4, WriterNext
    <3>2. CASE StoreOpen(w)
      <4>0. pc[w] = "store" /\ pc'[w] = "fill" /\ work' = work
        BY <1>0, <3>2 DEF StoreOpen, Goto
      <4>1. PICK i \in Nat : /\ tmp' = Bind(tmp, d, i) /\ data' = Bind(data, i, <<>>)
                             /\ job' = [job EXCEPT ![w].fd = i]
        BY <3>2, Opening
      <4>2. g.unit = j.unit /\ g.idx = j.idx /\ g.at = j.at /\ g.fd = i
        BY <1>0, <4>1
      <4>3. j.idx \in DOMAIN work /\ work[j.idx] = Whole(j.unit) /\ j.at = 0
        BY <1>0, <4>0 DEF WritersInv, Storing, Writer
      <4>4. d \in DOMAIN tmp' /\ tmp'[d] = i /\ data'[i] = <<>>
        BY <4>1 DEF Bind
      <4>5. Copied(Whole(j.unit), 0) = <<>> /\ 0 <= NBlocks
        BY BoundsAssumption DEF Copied
      <4>6. d = Digest(g.unit)
        BY <4>2
      <4> HIDE DEF d, j
      <4>7. data'[g.fd] = Copied(Whole(g.unit), g.at)
        BY <4>2, <4>3, <4>4, <4>5
      <4> QED BY <2>0, <4>0, <4>2, <4>3, <4>4, <4>5, <4>6, <4>7, WriterNext
    <3>3. CASE StoreCopy(w)
      <4>0. /\ pc[w] = "fill" /\ pc' = pc /\ job[w].at < Len(work[job[w].idx])
            /\ job' = [job EXCEPT ![w].at = job[w].at + 1]
            /\ data' = [data EXCEPT ![job[w].fd] = Written(data[job[w].fd], job[w].at + 1,
                                                     work[job[w].idx][job[w].at + 1])]
            /\ UNCHANGED <<tmp, work>>
        BY <3>3 DEF StoreCopy
      <4>1. job[w].at < NBlocks /\ job[w].at \in Nat
        BY <4>0, Filling, BusyUnit
      <4>2. /\ d \in DOMAIN tmp /\ tmp[d] = job[w].fd /\ job[w].fd \in DOMAIN data
            /\ job[w].idx \in DOMAIN work /\ work[job[w].idx] = Whole(job[w].unit)
        BY <4>0, Filling
      <4>3. Written(data[job[w].fd], job[w].at + 1, work[job[w].idx][job[w].at + 1])
               = Copied(Whole(job[w].unit), job[w].at + 1)
        BY <4>0, <4>1, Filling
      <4>4. data'[job[w].fd] = Copied(Whole(job[w].unit), job[w].at + 1)
        BY <4>0, <4>2, <4>3
      <4>5. g.unit = j.unit /\ g.idx = j.idx /\ g.at = j.at + 1 /\ g.fd = j.fd
        BY <1>0, <4>0
      <4>6. j.at + 1 <= NBlocks
        BY <4>1, BoundsAssumption
      <4>7. d = Digest(g.unit)
        BY <4>5
      <4>8. data'[g.fd] = Copied(Whole(g.unit), g.at)
        BY <4>4, <4>5
      <4>9. g.idx \in DOMAIN work' /\ work'[g.idx] = Whole(g.unit) /\ d \in DOMAIN tmp'
            /\ tmp'[d] = g.fd /\ g.at <= NBlocks
        BY <4>0, <4>2, <4>5, <4>6
      <4> HIDE DEF d, j
      <4> QED BY <2>0, <4>0, <4>7, <4>8, <4>9, WriterNext
    <3> QED BY <1>0, <1>3, <2>3, <3>1, <3>2, <3>3 DEF WorkerStep, Take, OpenHit, CopyHit,
               CopyFails, IndexFails, StoreRename, StoreFails, Storing, Goto
  <2> QED BY <1>0, <2>0, <2>1, <2>2, <2>3 DEF WritersInv, Storing
<1> QED BY <1>0, <1>1, <1>2, <1>3, MainFrame

\* Steps into a run are starts or steps of it.
LEMMA InRun ==
    ASSUME CacheInv, [Next]_vars, phase' = "index"
    PROVE  \/ \E w \in Worker : WorkerStep(w)
           \/ folded' = {} /\ (~ spoiled' => work' = NoFiles)
           \/ UNCHANGED vars
<1>1. ASSUME NEW t \in Tags, NEW i \in Injects, NEW c \in BOOLEAN, Start(t, i, c)
      PROVE  folded' = {} /\ (~ spoiled' => work' = NoFiles)
  BY <1>1 DEF Start, CacheInv, PhaseInv, Idle
<1>2. ~ ReplaceKzip /\ ~ Damage /\ ~ Discard
  BY DEF ReplaceKzip, Damage, Discard, main
<1>3. ~ Crash /\ ~ CoalesceFails /\ ~ Finalize /\ ~ CoalesceFirst /\ ~ Publish
  BY DEF Crash, CoalesceFails, Finalize, Exit, CoalesceFirst, Publish
<1> QED BY <1>1, <1>2, <1>3 DEF Next

\* What a worker's step leaves of a run's shards: the old ones stay, but for
\* the one w is copying; what is new is w's.
LEMMA ShardsOfStep ==
    ASSUME CacheInv, NEW w \in Worker, WorkerStep(w)
    PROVE  \/ /\ OpenHit(w) /\ DOMAIN work' = DOMAIN work \cup {job[w].idx}
              /\ \A k \in DOMAIN work : work'[k] = work[k]
              /\ pc'[w] = "copy" /\ job'[w].idx = job[w].idx /\ UNCHANGED <<folded, spoiled>>
           \/ /\ pc[w] = "copy" /\ pc'[w] = "copy" /\ job'[w].idx = job[w].idx
              /\ DOMAIN work' = DOMAIN work
              /\ \A k \in DOMAIN work : k # job[w].idx => work'[k] = work[k]
              /\ Len(work[job[w].idx]) # NBlocks /\ UNCHANGED <<folded, spoiled>>
           \/ /\ pc[w] = "copy" /\ work' = work
              /\ work[job[w].idx] = data[job[w].fd] /\ folded' = folded \cup {job[w].unit}
              /\ spoiled' = spoiled
           \/ /\ pc[w] = "copy" /\ spoiled' /\ UNCHANGED <<work, folded>>
           \/ /\ pc[w] = "run" /\ DOMAIN work' = DOMAIN work \cup {nextShard}
              /\ work'[nextShard] = Whole(job[w].unit)
              /\ \A k \in DOMAIN work : work'[k] = work[k]
              /\ folded' = folded \cup {job[w].unit} /\ spoiled' = spoiled
           \/ pc[w] # "copy" /\ UNCHANGED <<work, folded>> /\ (spoiled => spoiled')
<1>0. /\ pc \in [Worker -> {"idle", "run", "open", "copy", "store", "fill"}]
      /\ job \in [Worker -> [unit : Units \cup {NoUnit}, idx : Nat, fd : Nat, at : Nat]]
      /\ nextShard \in Nat /\ WorkInv /\ PhaseInv
  BY DEF CacheInv, JobsInv, WorkInv
<1>1. CASE OpenHit(w)
  <2>1. /\ work' = Bind(work, job[w].idx, <<>>) /\ pc[w] = "open" /\ pc'[w] = "copy"
        /\ job'[w].idx = job[w].idx /\ UNCHANGED <<folded, spoiled>>
    BY <1>0, <1>1 DEF OpenHit, Goto
  <2>2. job[w].idx \notin DOMAIN work
    BY <2>1 DEF CacheInv, ReadersInv, Reading, Reader
  <2>3. DOMAIN work' = DOMAIN work \cup {job[w].idx} /\ \A k \in DOMAIN work : work'[k] = work[k]
    BY <2>1, <2>2, BoundShard
  <2> QED BY <1>1, <2>1, <2>3
<1>2. CASE CopyHit(w)
  <2>0. pc[w] = "copy"
    BY <1>2 DEF CopyHit
  <2>1. CASE job[w].at < NBlocks
    <3>1. /\ DOMAIN work' = DOMAIN work /\ job' = [job EXCEPT ![w].at = job[w].at + 1]
          /\ \A k \in DOMAIN work : k # job[w].idx => work'[k] = work[k]
          /\ UNCHANGED <<pc, folded, spoiled>>
      BY <1>0, <1>2, <2>1, CopyEffect, BoundsAssumption
    <3>2. job'[w].idx = job[w].idx
      BY <1>0, <3>1
    <3>3. Len(work[job[w].idx]) # NBlocks
      BY <1>0, <2>0, <2>1, Copying, BoundsAssumption
    <3> QED BY <2>0, <3>1, <3>2, <3>3
  <2>2. CASE ~ (job[w].at < NBlocks)
    BY <1>2, <2>0, <2>2, CopyEffect
  <2> QED BY <2>1, <2>2
<1>3. CASE CopyFails(w)
  <2>1. spoiled' = (spoiled \/ pc[w] = "copy") /\ UNCHANGED <<work, folded>>
    BY <1>3 DEF CopyFails, disk
  <2> QED BY <2>1
<1>4. CASE WriteOwn(w)
  <2>1. /\ work' = Bind(work, nextShard, Whole(job[w].unit)) /\ pc[w] = "run"
        /\ folded' = folded \cup {job[w].unit} /\ spoiled' = spoiled
    BY <1>4 DEF WriteOwn, Whole
  <2>2. phase = "index"
    BY <2>1, BusyUnit
  <2>3. nextShard \notin DOMAIN work
    BY <1>0, <2>2 DEF WorkInv
  <2>4. /\ DOMAIN work' = DOMAIN work \cup {nextShard} /\ work'[nextShard] = Whole(job[w].unit)
        /\ \A k \in DOMAIN work : work'[k] = work[k]
    BY <2>1, <2>3 DEF Bind
  <2> QED BY <2>1, <2>4
<1>5. CASE Take(w) \/ IndexFails(w) \/ StoreOpen(w) \/ StoreCopy(w) \/ StoreRename(w) \/ StoreFails(w)
  BY <1>5 DEF Take, IndexFails, StoreOpen, StoreCopy, StoreRename, StoreFails, disk
<1> QED BY <1>1, <1>2, <1>3, <1>4, <1>5 DEF WorkerStep

\* Working shards of a clean run open, but for those being copied.
LEMMA OpenShardsStep ==
    ASSUME CacheInv, [Next]_vars, phase' = "index", ~ spoiled'
    PROVE  \A k \in DOMAIN work' :
              \/ Opens(work'[k])
              \/ \E v \in Worker : pc'[v] = "copy" /\ job'[v].idx = k
<1> DEFINE Busy(k) == \E v \in Worker : pc[v] = "copy" /\ job[v].idx = k
           Next1(k) == \E v \in Worker : pc'[v] = "copy" /\ job'[v].idx = k
<1>0. (phase = "index" /\ ~ spoiled) => \A k \in DOMAIN work : Opens(work[k]) \/ Busy(k)
  BY DEF CacheInv
<1>1. CASE UNCHANGED vars
  BY <1>0, <1>1 DEF vars, disk, main, pool
<1>2. CASE work' = NoFiles
  BY <1>2 DEF NoFiles
<1>3. ASSUME NEW w \in Worker, WorkerStep(w)
      PROVE  \A k \in DOMAIN work' : Opens(work'[k]) \/ Next1(k)
  <2>0. phase = "index" /\ \A v \in Worker : v # w => pc'[v] = pc[v] /\ job'[v] = job[v]
    BY <1>3, OthersStay, WorkerFrame DEF CacheInv
  <2>1. \A k : Busy(k) => Next1(k) \/ (pc[w] = "copy" /\ job[w].idx = k)
    BY <2>0
  <2>2. pc'[w] = "copy" => Next1(job'[w].idx)
    OBVIOUS
  <2>3. ~ spoiled => \A k \in DOMAIN work : Opens(work[k]) \/ Busy(k)
    BY <1>0, <2>0
  <2> HIDE DEF Busy, Next1
  <2>4. CASE /\ OpenHit(w) /\ DOMAIN work' = DOMAIN work \cup {job[w].idx}
             /\ \A k \in DOMAIN work : work'[k] = work[k]
             /\ pc'[w] = "copy" /\ job'[w].idx = job[w].idx /\ UNCHANGED <<folded, spoiled>>
    BY <2>1, <2>2, <2>3, <2>4 DEF OpenHit
  <2>5. CASE /\ pc[w] = "copy" /\ pc'[w] = "copy" /\ job'[w].idx = job[w].idx
             /\ DOMAIN work' = DOMAIN work
             /\ \A k \in DOMAIN work : k # job[w].idx => work'[k] = work[k]
             /\ spoiled' = spoiled
    BY <2>1, <2>2, <2>3, <2>5
  <2>6. CASE /\ pc[w] = "copy" /\ work' = work
             /\ work[job[w].idx] = data[job[w].fd] /\ spoiled' = spoiled
    <3>1. Opens(data[job[w].fd])
      BY <2>6, Copying
    <3> QED BY <2>1, <2>3, <2>6, <3>1
  <2>7. CASE /\ pc[w] = "run" /\ DOMAIN work' = DOMAIN work \cup {nextShard}
             /\ work'[nextShard] = Whole(job[w].unit)
             /\ \A k \in DOMAIN work : work'[k] = work[k]
             /\ spoiled' = spoiled
    <3>1. Opens(Whole(job[w].unit))
      BY <2>7, BusyUnit
    <3> QED BY <2>1, <2>3, <2>7, <3>1
  <2>8. CASE pc[w] # "copy" /\ work' = work /\ (spoiled => spoiled')
    BY <2>1, <2>3, <2>8
  <2> QED BY <1>3, <2>4, <2>5, <2>6, <2>7, <2>8, ShardsOfStep
<1> QED BY <1>1, <1>2, <1>3, InRun

\* The initial states are empty.
LEMMA InitCache ==
    ASSUME Init
    PROVE  CacheInv
<1>0. DOMAIN NoFiles = {} /\ IsFiniteSet({})
  BY FS_EmptySet DEF NoFiles
<1>1. PhaseInv
  BY DEF Init, PhaseInv, Idle
<1>2. JobsInv
  <2>1. NoJob \in [unit : Units \cup {NoUnit}, idx : Nat, fd : Nat, at : Nat]
    BY DEF NoJob, None
  <2> QED BY <2>1 DEF Init, Idle, JobsInv
<1>3. InodesInv
  BY <1>0 DEF Init, InodesInv
<1>4. WorkInv
  BY <1>0 DEF Init, Idle, WorkInv
<1>5. ReadersInv /\ WritersInv
  BY DEF Init, Idle, ReadersInv, Reading, WritersInv, Storing
<1>6. AdmittedIsWhole
  BY <1>0 DEF Init, AdmittedIsWhole
<1> QED BY <1>1, <1>2, <1>3, <1>4, <1>5, <1>6 DEF CacheInv, Init, Idle

\* CacheInv is inductive for kzips without twins.
LEMMA StepCache ==
    ASSUME CacheInv, NoTwins, [Next]_vars
    PROVE  CacheInv'
<1>1. PhaseInv' /\ JobsInv' /\ InodesInv' /\ WorkInv'
  BY PhaseStep, JobsStep, InodesStep, WorkStep DEF CacheInv
<1>2. ReadersInv' /\ WritersInv' /\ AdmittedIsWhole'
  BY ReadersStep, WritersStep, EntriesStep
<1>3. (phase' = "index" /\ ~ spoiled') =>
         \A k \in DOMAIN work' : \/ Opens(work'[k])
                                 \/ \E v \in Worker : pc'[v] = "copy" /\ job'[v].idx = k
  BY OpenShardsStep
<1> QED BY <1>1, <1>2, <1>3 DEF CacheInv, Opens

-----------------------------------------------------------------------------

\* cache.rs ShardCache::contains and store: whatever kills, failed copies,
\* damage and restarts happen, an entry that would be served is a whole shard
\* of a unit with its digest.
THEOREM WholeEntries ==
    ASSUME NoTwins
    PROVE  Spec => []AdmittedIsWhole
<1>1. Init => CacheInv
  BY InitCache
<1>2. CacheInv /\ [Next]_vars => CacheInv'
  BY StepCache
<1>3. CacheInv => AdmittedIsWhole
  BY DEF CacheInv
<1> QED BY <1>1, <1>2, <1>3, PTL DEF Spec

\* main.rs: the merge of a run that started clean and lost no copy half way
\* opens every shard, whatever the cache held.
THEOREM BuildSurvives ==
    ASSUME NoTwins
    PROVE  Spec => []CacheNeverAborts
<1>1. Init => CacheInv
  BY InitCache
<1>2. CacheInv /\ [Next]_vars => CacheInv'
  BY StepCache
<1>3. CacheInv => CacheNeverAborts
  BY DEF CacheInv, CacheNeverAborts, WorkersDone
<1> QED BY <1>1, <1>2, <1>3, PTL DEF Spec

-----------------------------------------------------------------------------
(* The merge: no source is lost, whatever their number.                    *)

\* Each of n sources is in one of the chunks.
LEMMA ChunkOf ==
    ASSUME NEW n \in Nat, NEW i \in 1 .. n
    PROVE  /\ (i - 1) \div Group + 1 \in Chunks(n)
           /\ i \in Chunk((i - 1) \div Group + 1, n)
<1>0. Group \in Nat /\ Group > 0
  BY BoundsAssumption
<1> DEFINE a == i - 1
           b == n + Group - 1
           q == a \div Group
           r == b \div Group
<1>1. a \in Nat /\ b \in Nat /\ a + Group <= b
  BY <1>0
<1> HIDE DEF a, b
<1>2. q \in Int /\ 0 <= q /\ Group * q <= a
  BY <1>0, <1>1
<1>3. r \in Int /\ 0 <= r /\ b < Group * r + Group
  BY <1>0, <1>1
<1> HIDE DEF q, r
<1>4. Group * (q + 1) < Group * (r + 1)
  BY <1>0, <1>1, <1>2, <1>3
<1>5. q + 1 < r + 1
  BY <1>0, <1>2, <1>3, <1>4
<1>6. q + 1 \in 1 .. r
  BY <1>2, <1>3, <1>5
<1>7. (i - 1) \div Group + 1 \in Chunks(n)
  BY <1>6 DEF Chunks, q, r, a, b
<1>8. q = (q + 1) - 1
  BY <1>2
<1>9. i \in Chunk((i - 1) \div Group + 1, n)
  BY <1>8 DEF Chunk, q, a
<1> QED BY <1>7, <1>9

\* A coalescing level keeps the rows.
LEMMA CoalescedRows ==
    ASSUME NEW R, NEW ss \in Seq(SUBSET R)
    PROVE  /\ Coalesced(ss) \in Seq(SUBSET R)
           /\ UNION ToSet(Coalesced(ss)) = UNION ToSet(ss)
<1> DEFINE n == Len(ss)
           c == Coalesced(ss)
<1>0. n \in Nat /\ DOMAIN ss = 1 .. n /\ \A i \in 1 .. n : ss[i] \in SUBSET R
  OBVIOUS
<1>1. \A k \in Chunks(n) : Chunk(k, n) \subseteq 1 .. n
  BY DEF Chunk
<1>2. DOMAIN c = Chunks(n) /\ \A k \in Chunks(n) : c[k] = UNION {ss[i] : i \in Chunk(k, n)}
  BY DEF Coalesced
<1>3. (n + Group - 1) \div Group \in Nat
  BY <1>0, BoundsAssumption
<1>4. c = [k \in 1 .. ((n + Group - 1) \div Group) |-> UNION {ss[i] : i \in Chunk(k, n)}]
  BY DEF Coalesced, Chunks
<1> HIDE DEF n, c
<1>5. \A k \in Chunks(n) : c[k] \in SUBSET R
  BY <1>0, <1>1, <1>2
<1>6. c \in Seq(SUBSET R)
  BY <1>2, <1>3, <1>4, <1>5 DEF Chunks
<1>7. \A i \in 1 .. n : \E k \in Chunks(n) : i \in Chunk(k, n)
  BY <1>0, ChunkOf
<1>8. ASSUME NEW x PROVE (\E k \in Chunks(n) : x \in c[k]) <=> (\E i \in 1 .. n : x \in ss[i])
  <2>1. ASSUME NEW k \in Chunks(n), x \in c[k] PROVE \E i \in 1 .. n : x \in ss[i]
    BY <1>1, <1>2, <2>1
  <2>2. ASSUME NEW i \in 1 .. n, x \in ss[i] PROVE \E k \in Chunks(n) : x \in c[k]
    <3>1. PICK k \in Chunks(n) : i \in Chunk(k, n)
      BY <1>7
    <3>2. x \in c[k]
      BY <1>2, <2>2, <3>1
    <3> QED BY <3>2
  <2> QED BY <2>1, <2>2
<1>9. UNION ToSet(c) = UNION ToSet(ss)
  <2>1. \A x : x \in UNION ToSet(c) <=> \E k \in Chunks(n) : x \in c[k]
    BY <1>2 DEF ToSet
  <2>2. \A x : x \in UNION ToSet(ss) <=> \E i \in 1 .. n : x \in ss[i]
    BY <1>0 DEF ToSet
  <2> QED BY <1>8, <2>1, <2>2
<1> QED BY <1>6, <1>9 DEF c

\* So do all levels: the loop is the same step again and again.
LEMMA FinalRows ==
    ASSUME NEW R, NEW ss \in Seq(SUBSET R)
    PROVE  UNION ToSet(FinalSources(ss)) = UNION ToSet(ss)
<1> DEFINE N == Len(ss)
           Step(x) == IF Len(x) > Group THEN Coalesced(x) ELSE x
           Eqn(t, n) == t = [k \in 0 .. n |-> IF k = 0 THEN ss ELSE Step(t[k - 1])]
           S == {n \in Nat : \E t : Eqn(t, n)}
           it == CHOOSE t : Eqn(t, N)
<1>0. N \in Nat
  OBVIOUS
<1>1. 0 \in S
  <2>1. Eqn([k \in 0 .. 0 |-> ss], 0)
    OBVIOUS
  <2> HIDE DEF Eqn
  <2> QED BY <2>1
<1>2. ASSUME NEW n \in Nat, n \in S PROVE n + 1 \in S
  <2>1. PICK t : Eqn(t, n)
    BY <1>2
  <2> HIDE DEF Step
  <2> DEFINE u == [k \in 0 .. n + 1 |-> IF k = 0 THEN ss ELSE Step(t[k - 1])]
  <2>2. \A k \in 0 .. n : u[k] = t[k]
    BY <2>1
  <2>3. \A k \in 0 .. n + 1 : k # 0 => k - 1 \in 0 .. n
    OBVIOUS
  <2>4. \A k \in 0 .. n + 1 : k # 0 => Step(t[k - 1]) = Step(u[k - 1])
    BY <2>2, <2>3
  <2>5. u = [k \in 0 .. n + 1 |-> IF k = 0 THEN ss ELSE Step(u[k - 1])]
    BY <2>4
  <2>6. Eqn(u, n + 1)
    BY <2>5
  <2> HIDE DEF Eqn, u
  <2> QED BY <2>6
<1>3. N \in S
  <2>1. \A n \in Nat : n \in S => n + 1 \in S
    BY <1>2
  <2> HIDE DEF S, N
  <2> QED BY <1>0, <1>1, <2>1, NatSetInduction
<1>4. Eqn(it, N)
  <2> HIDE DEF Eqn
  <2> QED BY <1>3
<1>5. FinalSources(ss) = it[N]
  BY Zenon DEF FinalSources
<1>6. ASSUME NEW x \in Seq(SUBSET R)
      PROVE  Step(x) \in Seq(SUBSET R) /\ UNION ToSet(Step(x)) = UNION ToSet(x)
  BY CoalescedRows
<1> HIDE DEF it, Step, N
<1>7. it[0] = ss /\ \A k \in 0 .. N : k # 0 => it[k] = Step(it[k - 1])
  BY <1>0, <1>4
<1> DEFINE G == {n \in Nat : n <= N => /\ it[n] \in Seq(SUBSET R)
                                       /\ UNION ToSet(it[n]) = UNION ToSet(ss)}
<1>8. 0 \in G
  BY <1>7
<1>9. ASSUME NEW n \in Nat, n \in G PROVE n + 1 \in G
  <2> SUFFICES ASSUME n + 1 <= N
               PROVE  /\ it[n + 1] \in Seq(SUBSET R)
                      /\ UNION ToSet(it[n + 1]) = UNION ToSet(ss)
    OBVIOUS
  <2>1. n <= N /\ n + 1 \in 0 .. N /\ n + 1 # 0 /\ (n + 1) - 1 = n
    BY <1>0
  <2>2. it[n + 1] = Step(it[n])
    BY <1>7, <2>1
  <2>3. it[n] \in Seq(SUBSET R) /\ UNION ToSet(it[n]) = UNION ToSet(ss)
    BY <1>9, <2>1
  <2> QED BY <1>6, <2>2, <2>3
<1>10. N \in G
  <2>1. \A n \in Nat : n \in G => n + 1 \in G
    BY <1>9
  <2> HIDE DEF G
  <2> QED BY <1>0, <1>8, <2>1, NatSetInduction
<1> QED BY <1>0, <1>5, <1>10

\* A finite set of numbers can be listed in order.
LEMMA SortedListing ==
    ASSUME NEW D \in SUBSET Nat, IsFiniteSet(D), NEW b \in Nat, \A i \in D : i < b
    PROVE  \E s \in [1 .. Cardinality(D) -> D] : \A i, j \in DOMAIN s : i < j => s[i] < s[j]
<1> DEFINE Below(n) == {x \in D : x < n}
           List(s, E) == /\ s \in [1 .. Cardinality(E) -> E]
                         /\ \A i, j \in 1 .. Cardinality(E) : i < j => s[i] < s[j]
           S == {n \in Nat : \E s : List(s, Below(n))}
<1>0. \A x \in D : x \in Nat /\ ~ (x < 0) /\ \A n \in Nat : x < n + 1 <=> x < n \/ x = n
  OBVIOUS
<1>1. 0 \in S
  <2>1. Below(0) = {}
    BY <1>0
  <2>2. Cardinality({}) = 0
    BY FS_EmptySet
  <2>3. List([i \in {} |-> 0], {})
    BY <2>2
  <2> HIDE DEF List, Below
  <2> QED BY <2>1, <2>3
<1>2. ASSUME NEW n \in Nat, n \in S PROVE n + 1 \in S
  <2>1. PICK s : List(s, Below(n))
    BY <1>2
  <2>2. CASE n \notin D
    <3>1. Below(n + 1) = Below(n)
      BY <1>0, <2>2
    <3> HIDE DEF List, Below
    <3> QED BY <2>1, <3>1
  <2>3. CASE n \in D
    <3> DEFINE E == Below(n)
               c == Cardinality(E)
               t == [i \in 1 .. c + 1 |-> IF i <= c THEN s[i] ELSE n]
    <3>0. n \notin E /\ \A x \in E : x \in Nat /\ x < n
      BY <1>0
    <3>1. Below(n + 1) = E \cup {n} /\ n \notin E /\ \A x \in E : x \in Nat /\ x < n
      <4>1. ~ (n < n) /\ n < n + 1
        OBVIOUS
      <4>2. \A x : x \in Below(n + 1) <=> x \in E \cup {n}
        BY <1>0, <2>3, <4>1
      <4> HIDE DEF E, Below
      <4> QED BY <3>0, <4>2
    <3>2. IsFiniteSet(E)
      BY FS_Subset
    <3>3. c \in Nat
      BY <3>2, FS_CardinalityType
    <3>4. Cardinality(E \cup {n}) = c + 1
      <4> HIDE DEF E
      <4> QED BY <3>1, <3>2, FS_AddElement
    <3>5. s \in [1 .. c -> E] /\ \A i, j \in 1 .. c : i < j => s[i] < s[j]
      BY <2>1
    <3> HIDE DEF E, c
    <3>6. \A i \in 1 .. c + 1 : /\ i <= c => i \in 1 .. c /\ t[i] = s[i] /\ t[i] \in E
                                /\ ~ (i <= c) => i = c + 1 /\ t[i] = n
      BY <3>3, <3>5
    <3>7. t \in [1 .. c + 1 -> E \cup {n}]
      BY <3>6
    <3>8. \A i, j \in 1 .. c + 1 : i < j => t[i] < t[j]
      BY <3>1, <3>3, <3>5, <3>6
    <3>9. List(t, Below(n + 1))
      <4> HIDE DEF t, Below
      <4> QED BY <3>1, <3>4, <3>7, <3>8
    <3> HIDE DEF List, t
    <3> QED BY <3>9
  <2> QED BY <2>2, <2>3
<1>3. b \in S
  <2>1. \A n \in Nat : n \in S => n + 1 \in S
    BY <1>2
  <2> HIDE DEF S
  <2> QED BY <1>1, <2>1, NatSetInduction
<1>4. Below(b) = D
  OBVIOUS
<1>5. PICK s : List(s, D)
  BY <1>3, <1>4
<1>6. DOMAIN s = 1 .. Cardinality(D)
  BY <1>5
<1> QED BY <1>5, <1>6

\* list_partial_shards names every working shard.
LEMMA ListedAll ==
    ASSUME DOMAIN work \in SUBSET Nat, IsFiniteSet(DOMAIN work)
    PROVE  LET n == Cardinality(DOMAIN work)
           IN  /\ n \in Nat /\ DOMAIN Listed = 1 .. n
               /\ \A k \in 1 .. n : Listed[k] \in DOMAIN work
               /\ \A i \in DOMAIN work : \E k \in 1 .. n : Listed[k] = i
<1> DEFINE D == DOMAIN work
           n == Cardinality(DOMAIN work)
           Up(s) == \A i, j \in DOMAIN s : i < j => s[i] < s[j]
<1>0. n \in Nat
  BY FS_CardinalityType
<1>1. next_shard_index \in Nat /\ \A i \in D : i < next_shard_index
  BY NextIndex
<1>2. \E s \in [1 .. n -> D] : Up(s)
  BY <1>1, SortedListing
<1>3. Listed = CHOOSE s \in [1 .. n -> D] : Up(s)
  BY DEF Listed
<1>4. Listed \in [1 .. n -> D] /\ Up(Listed)
  <2> HIDE DEF Up, n, D
  <2> QED BY <1>2, <1>3
<1>5. Listed \in Injection(1 .. n, D)
  <2>1. \A i, j \in 1 .. n : Listed[i] = Listed[j] => i = j
    <3>1. \A i, j \in 1 .. n : i < j \/ j < i \/ i = j
      BY <1>0
    <3>2. \A i \in 1 .. n : Listed[i] \in Nat
      BY <1>4
    <3> QED BY <1>4, <3>1, <3>2
  <2> QED BY <1>4, <2>1 DEF Injection, IsInjective
<1>6. Cardinality(1 .. n) = n
  <2>1. 1 \in Int /\ n \in Int
    BY <1>0
  <2>2. Cardinality(1 .. n) = IF 1 > n THEN 0 ELSE n - 1 + 1
    <3> HIDE DEF n
    <3> QED BY <2>1, FS_Interval
  <2> QED BY <1>0, <2>2
<1>7. Listed \in Surjection(1 .. n, D)
  <2>1. n = Cardinality(D)
    OBVIOUS
  <2> HIDE DEF n, D
  <2> QED BY <1>5, <1>6, <2>1, FS_Injection DEF D
<1> QED BY <1>0, <1>4, <1>7 DEF Surjection

\* The first level has the rows of all working shards.
LEMMA FirstLevel ==
    ASSUME WorkInv, CoalesceFirst
    PROVE  /\ level' \in Seq(SUBSET Row)
           /\ UNION ToSet(level') = UNION {ToSet(work[i]) : i \in DOMAIN work}
<1> DEFINE n == Cardinality(DOMAIN work)
           ss == [k \in DOMAIN Listed |-> ToSet(work[Listed[k]])]
<1>1. /\ n \in Nat /\ DOMAIN Listed = 1 .. n
      /\ \A k \in 1 .. n : Listed[k] \in DOMAIN work
      /\ \A i \in DOMAIN work : \E k \in 1 .. n : Listed[k] = i
  BY ListedAll DEF WorkInv
<1>2. \A i \in DOMAIN work : ToSet(work[i]) \in SUBSET Row
  BY DEF WorkInv, ToSet
<1>3. ss \in Seq(SUBSET Row)
  <2>1. ss \in [1 .. n -> SUBSET Row]
    BY <1>1, <1>2
  <2> HIDE DEF ss
  <2> QED BY <1>1, <2>1
<1>4. DOMAIN ss = 1 .. n /\ \A k \in 1 .. n : ss[k] = ToSet(work[Listed[k]])
  BY <1>1
<1>5. level' = Coalesced(ss)
  BY DEF CoalesceFirst
<1> HIDE DEF ss, n
<1>6. level' \in Seq(SUBSET Row) /\ UNION ToSet(level') = UNION ToSet(ss)
  BY <1>3, <1>5, CoalescedRows
<1>7. ToSet(ss) = {ToSet(work[i]) : i \in DOMAIN work}
  <2>1. ToSet(ss) = {ss[k] : k \in 1 .. n}
    BY <1>4 DEF ToSet
  <2>2. \A k \in 1 .. n : \E i \in DOMAIN work : ss[k] = ToSet(work[i])
    BY <1>1, <1>4
  <2>3. \A i \in DOMAIN work : \E k \in 1 .. n : ss[k] = ToSet(work[i])
    BY <1>1, <1>4
  <2> QED BY <2>1, <2>2, <2>3
<1> QED BY <1>6, <1>7

\* A hit serves rows that stand for the unit: its entry is a whole shard of a
\* unit with its digest.
LEMMA HitRows ==
    ASSUME CacheInv, NEW w \in Worker, pc[w] = "copy"
    PROVE  ShardFor(data[job[w].fd], job[w].unit)
<1> DEFINE d == Digest(job[w].unit)
<1>1. d \in DOMAIN entry /\ entry[d] = job[w].fd /\ Opens(data[entry[d]])
  BY Copying
<1>2. PICK u \in Units, t \in Tags, i \in Injects :
         /\ cu_content_digest(u, t) = d
         /\ data[entry[d]] = Shard(RowsOf(u, [tag |-> t, inject |-> i]))
  BY <1>1 DEF CacheInv, AdmittedIsWhole
<1>3. cu_content_digest(u, t) = cu_content_digest(job[w].unit, flags.tag)
  BY <1>2 DEF Digest
<1>4. StandsFor(RowsOf(u, [tag |-> t, inject |-> i]), job[w].unit)
  BY <1>3, DigestRows
<1>5. [tag |-> t, inject |-> i] \in Flags
  BY DEF Flags
<1>6. RowsOf(u, [tag |-> t, inject |-> i]) \in Row
  BY <1>5 DEF Row
<1> QED BY <1>1, <1>2, <1>4, <1>6 DEF ShardFor

\* So does the shard a worker writes itself.
LEMMA OwnRows ==
    ASSUME CacheInv, NEW w \in Worker, pc[w] # "idle"
    PROVE  ShardFor(Whole(job[w].unit), job[w].unit)
<1>1. flags \in Flags /\ RowsOf(job[w].unit, flags) \in Row
  BY BusyUnit
<1>2. flags.inject \in Injects /\ flags = [tag |-> flags.tag, inject |-> flags.inject]
  BY <1>1, FlagsParts
<1>3. StandsFor(RowsOf(job[w].unit, flags), job[w].unit)
  BY <1>2, DigestRows
<1> QED BY <1>1, <1>3 DEF ShardFor, Whole

\* What a shard that stands for a unit is made of.
LEMMA FoldedShard ==
    ASSUME NEW f, NEW u, ShardFor(f, u)
    PROVE  Len(f) = NBlocks /\ \E r \in Row : ToSet(f) = {r} /\ StandsFor(r, u)
BY ShardParts DEF ShardFor

\* While the workers run, the folded units have their shards, and the shards
\* of a clean run are of folded units, but for those being copied.
LEMMA RowsInRun ==
    ASSUME CacheInv, RowsInv, [Next]_vars, phase' = "index"
    PROVE  FoldedShards'
<1>1. CASE UNCHANGED vars
  BY <1>1 DEF vars, disk, main, pool, RowsInv, FoldedShards, ShardFor, StandsFor
<1>2. CASE folded' = {} /\ (~ spoiled' => work' = NoFiles)
  BY <1>2 DEF NoFiles, FoldedShards
<1>3. ASSUME NEW w \in Worker, WorkerStep(w) PROVE FoldedShards'
  <2> DEFINE Busy(k) == \E v \in Worker : pc[v] = "copy" /\ job[v].idx = k
             Next1(k) == \E v \in Worker : pc'[v] = "copy" /\ job'[v].idx = k
  <2>0. /\ phase = "index" /\ flags' = flags /\ flags \in Flags
        /\ \A v \in Worker : v # w => pc'[v] = pc[v] /\ job'[v] = job[v]
    BY <1>3, OthersStay, WorkerFrame DEF CacheInv
  <2>b. \A f, u : ShardFor(f, u) => Len(f) = NBlocks
    BY FoldedShard
  <2>c. SUFFICES
          /\ \A u \in folded' : \E k \in DOMAIN work' : ShardFor(work'[k], u)
          /\ ~ spoiled' => \A k \in DOMAIN work' :
                              (\E u \in folded' : ShardFor(work'[k], u)) \/ Next1(k)
    BY <2>0 DEF FoldedShards, ShardFor, StandsFor
  <2>1. \A k : Busy(k) => Next1(k) \/ (pc[w] = "copy" /\ job[w].idx = k)
    BY <2>0
  <2>2. pc'[w] = "copy" => Next1(job'[w].idx)
    OBVIOUS
  <2>3. /\ \A u \in folded : \E k \in DOMAIN work : ShardFor(work[k], u)
        /\ ~ spoiled => \A k \in DOMAIN work :
                           (\E u \in folded : ShardFor(work[k], u)) \/ Busy(k)
    BY <2>0 DEF RowsInv, FoldedShards
  <2> HIDE DEF Busy, Next1
  <2>4. CASE /\ OpenHit(w) /\ DOMAIN work' = DOMAIN work \cup {job[w].idx}
             /\ \A k \in DOMAIN work : work'[k] = work[k]
             /\ pc'[w] = "copy" /\ job'[w].idx = job[w].idx /\ UNCHANGED <<folded, spoiled>>
    BY <2>1, <2>2, <2>3, <2>4 DEF OpenHit
  <2>5. CASE /\ pc[w] = "copy" /\ pc'[w] = "copy" /\ job'[w].idx = job[w].idx
             /\ DOMAIN work' = DOMAIN work
             /\ \A k \in DOMAIN work : k # job[w].idx => work'[k] = work[k]
             /\ Len(work[job[w].idx]) # NBlocks /\ UNCHANGED <<folded, spoiled>>
    <3>1. \A u \in folded, k \in DOMAIN work : ShardFor(work[k], u) => ShardFor(work'[k], u)
      BY <2>b, <2>5
    <3> QED BY <2>1, <2>2, <2>3, <2>5, <3>1
  <2>6. CASE /\ pc[w] = "copy" /\ work' = work
             /\ work[job[w].idx] = data[job[w].fd] /\ folded' = folded \cup {job[w].unit}
             /\ spoiled' = spoiled
    <3>1. ShardFor(work[job[w].idx], job[w].unit) /\ job[w].idx \in DOMAIN work
      BY <2>6, HitRows, Copying
    <3> QED BY <2>1, <2>3, <2>6, <3>1
  <2>7. CASE /\ pc[w] = "copy" /\ spoiled' /\ UNCHANGED <<work, folded>>
    BY <2>3, <2>7
  <2>8. CASE /\ pc[w] = "run" /\ DOMAIN work' = DOMAIN work \cup {nextShard}
             /\ work'[nextShard] = Whole(job[w].unit)
             /\ \A k \in DOMAIN work : work'[k] = work[k]
             /\ folded' = folded \cup {job[w].unit} /\ spoiled' = spoiled
    <3>1. ShardFor(work'[nextShard], job[w].unit)
      BY <2>8, OwnRows
    <3> QED BY <2>1, <2>3, <2>8, <3>1
  <2>9. CASE pc[w] # "copy" /\ UNCHANGED <<work, folded>> /\ (spoiled => spoiled')
    BY <2>1, <2>3, <2>9
  <2> QED BY <1>3, <2>4, <2>5, <2>6, <2>7, <2>8, <2>9, ShardsOfStep
<1> QED BY <1>1, <1>2, <1>3, InRun

\* The first level has the folded rows.
LEMMA RowsOfLevel ==
    ASSUME CacheInv, RowsInv, CoalesceFirst
    PROVE  level' \in Seq(SUBSET Row) /\ AsHashed(UNION ToSet(level'))
<1>0. phase = "index" /\ \A w \in Worker : pc[w] = "idle"
  BY DEF CoalesceFirst, WorkersDone
<1>1. /\ level' \in Seq(SUBSET Row)
      /\ UNION ToSet(level') = UNION {ToSet(work[i]) : i \in DOMAIN work}
  BY FirstLevel DEF CacheInv
<1>2. \A f, u : ShardFor(f, u) => \E r \in Row : ToSet(f) = {r} /\ StandsFor(r, u)
  BY FoldedShard
<1>3. \A u \in folded : \E i \in DOMAIN work : \E r \in ToSet(work[i]) : StandsFor(r, u)
  BY <1>0, <1>2 DEF RowsInv, FoldedShards
<1>4. ~ spoiled => \A i \in DOMAIN work : \A r \in ToSet(work[i]) :
                      \E u \in folded : StandsFor(r, u)
  BY <1>0, <1>2 DEF RowsInv, FoldedShards
<1> DEFINE rows == UNION ToSet(level')
<1>5. \A r : r \in rows <=> \E i \in DOMAIN work : r \in ToSet(work[i])
  BY <1>1
<1> HIDE DEF rows
<1>6. AsHashed(rows)
  BY <1>3, <1>4, <1>5 DEF AsHashed
<1> QED BY <1>1, <1>6 DEF rows

\* Who coalesces and who publishes.
LEMMA MergePhases ==
    ASSUME CacheInv, [Next]_vars
    PROVE  /\ phase' = "coalesce" => CoalesceFirst \/ UNCHANGED vars
           /\ phase' = "finalize" => Publish \/ UNCHANGED vars
<1>1. ASSUME NEW t \in Tags, NEW i \in Injects, NEW c \in BOOLEAN, Start(t, i, c)
      PROVE  phase' = "index"
  BY <1>1 DEF Start
<1>2. ReplaceKzip \/ Damage \/ Discard => phase' = "off"
  BY DEF ReplaceKzip, Damage, Discard, main
<1>3. Crash \/ CoalesceFails \/ Finalize => phase' = "off"
  BY DEF Crash, CoalesceFails, Finalize, Exit
<1>4. ASSUME NEW w \in Worker, WorkerStep(w) PROVE phase' = "index"
  BY <1>4, WorkerFrame DEF CacheInv
<1>5. (CoalesceFirst => phase' = "coalesce") /\ (Publish => phase' = "finalize")
  BY DEF CoalesceFirst, Publish
<1> QED BY <1>1, <1>2, <1>3, <1>4, <1>5 DEF Next

\* RowsInv is inductive next to CacheInv.
LEMMA StepRows ==
    ASSUME CacheInv, RowsInv, [Next]_vars
    PROVE  RowsInv'
<1>1. CASE UNCHANGED vars
  <2>0. UNCHANGED <<phase, flags, folded, spoiled, level, out, work, pc, job>>
    BY <1>1 DEF vars, disk, main, pool
  <2>2. FoldedShards' <=> FoldedShards
    BY <2>0 DEF FoldedShards, ShardFor, StandsFor
  <2>3. AsHashed(out)' <=> AsHashed(out)
    BY <2>0 DEF AsHashed, StandsFor
  <2>4. AsHashed(UNION ToSet(level))' <=> AsHashed(UNION ToSet(level))
    BY <2>0 DEF AsHashed, StandsFor
  <2>5. PublishedAsHashed'
    BY <2>0, <2>3 DEF RowsInv, PublishedAsHashed
  <2>6. CASE phase = "coalesce"
    <3>1. level' \in Seq(SUBSET Row) /\ AsHashed(UNION ToSet(level))'
      BY <2>0, <2>4, <2>6 DEF RowsInv
    <3> QED BY <2>0, <2>5, <2>6, <3>1 DEF RowsInv, Row
  <2>7. CASE phase # "coalesce"
    BY <2>0, <2>2, <2>5, <2>7 DEF RowsInv
  <2> QED BY <2>6, <2>7
<1>2. CASE phase' = "index"
  BY <1>2, RowsInRun DEF RowsInv, PublishedAsHashed
<1>3. CASE CoalesceFirst
  <2>1. UNCHANGED <<flags, folded, spoiled>> /\ phase' = "coalesce"
    BY <1>3 DEF CoalesceFirst
  <2>2. level' \in Seq(SUBSET Row) /\ AsHashed(UNION ToSet(level'))
    BY <1>3, RowsOfLevel
  <2>3. AsHashed(UNION ToSet(level))'
    BY <2>1, <2>2 DEF AsHashed, StandsFor
  <2> QED BY <2>1, <2>2, <2>3 DEF RowsInv, PublishedAsHashed, Row
<1>4. CASE Publish
  <2>1. UNCHANGED <<flags, folded, spoiled>> /\ phase' = "finalize" /\ phase = "coalesce"
        /\ out' = UNION ToSet(FinalSources(level))
    BY <1>4 DEF Publish
  <2>2. level \in Seq(SUBSET Row) /\ AsHashed(UNION ToSet(level))
    BY <2>1 DEF RowsInv
  <2>3. out' = UNION ToSet(level)
    BY <2>1, <2>2, FinalRows
  <2>4. AsHashed(out)'
    BY <2>1, <2>2, <2>3 DEF AsHashed, StandsFor
  <2> QED BY <2>1, <2>4 DEF RowsInv, PublishedAsHashed
<1>5. CASE phase' \notin {"index", "coalesce", "finalize"}
  BY <1>5 DEF RowsInv, PublishedAsHashed
<1> QED BY <1>1, <1>2, <1>3, <1>4, <1>5, MergePhases

\* main.rs from_kzip with --cache-dir: every unit folded is published with rows
\* of its very arguments, input contents and toolchain, and a run that started
\* clean and lost no copy publishes nothing else, however many shards there are
\* to merge and whatever the cache went through.
THEOREM HashedOutput ==
    ASSUME NoTwins
    PROVE  Spec => []PublishedAsHashed
<1>1. Init => CacheInv /\ RowsInv
  <2>1. Init => RowsInv
    BY DEF Init, Idle, RowsInv, PublishedAsHashed
  <2> QED BY <2>1, InitCache
<1>2. CacheInv /\ RowsInv /\ [Next]_vars => CacheInv' /\ RowsInv'
  BY StepCache, StepRows
<1>3. RowsInv => PublishedAsHashed
  BY DEF RowsInv
<1> QED BY <1>1, <1>2, <1>3, PTL DEF Spec
=============================================================================
