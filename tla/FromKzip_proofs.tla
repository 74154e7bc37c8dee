-------------------------- MODULE FromKzip_proofs ---------------------------
(***************************************************************************)
(* Proofs about FromKzip, for every number of workers, CUs and restarts.   *)
(*                                                                         *)
(*   TypeCorrect              Spec => []TypeOK                             *)
(*   ShardsNeverLost          Spec => NoOverwrite                          *)
(*   CheckpointDurable        Spec => []ShasDurable     without a legacy base *)
(*   PublishedComplete        Spec => []OutputComplete  without a legacy base *)
(*   FoldedRowsHeld           Spec => []NothingDropped  without a legacy base *)
(*   Refinement               Spec => RefinesBuild      without a legacy base *)
(*   CheckpointNeverShrinks   Spec => CheckpointGrows   without a legacy base *)
(*   WaitIsExact              Spec => WaitSeesEveryone                      *)
(*   GateIsKept               Spec => GateHolds                             *)
(*   GaugeCounts              Spec => []GaugeExact                         *)
(*   GaugeNeverWraps          Spec => [](deltaRows \in Nat)                *)
(*                                                                         *)
(* First come frame lemmas (which actions may touch a group of variables), *)
(* then ControlInv is preserved part by part, then DataInv, then           *)
(* Conservation, each relative to the ones before it.  The refinement and  *)
(* the snapshot gate follow, each with the invariants it adds.             *)
(***************************************************************************)
EXTENDS FromKzip, Induction

\* The assumptions on the constants, in the form the proofs use them.
LEMMA Constants ==
    /\ NWorkers \in Nat \ {0}
    /\ NoWorker \notin Worker
    /\ Kzips \subseteq SUBSET CUs
    /\ Rows \in [CUs -> Nat]
BY WorkersAssumption, KzipsAssumption, RowsAssumption DEF Worker, NoWorker

\* next_shard_index hands out a natural number above every shard on disk.
LEMMA NextShardIndexAbove ==
    ASSUME TypeOK, ShardsBounded
    PROVE  /\ NextShardIndex \in Nat
           /\ \A s \in shards : s.idx < NextShardIndex
<1> DEFINE C == {0} \cup {s.idx + 1 : s \in shards}
           P(i) == \A s \in shards : s.idx < i
<1>0. \A s \in shards : s.idx \in Nat
  BY DEF TypeOK, DiskType
<1>1. \E i \in C : P(i)
  <2>1. CASE shards = {}
    BY <2>1
  <2>2. CASE \E t \in shards : \A s \in shards : s.idx <= t.idx
    <3>1. PICK t \in shards : \A s \in shards : s.idx <= t.idx
      BY <2>2
    <3>2. t.idx + 1 \in C
      OBVIOUS
    <3>3. \A s \in shards : s.idx < t.idx + 1
      BY <1>0, <3>1
    <3> QED BY <3>2, <3>3
  <2> QED BY <2>1, <2>2 DEF ShardsBounded
<1>2. NextShardIndex \in C /\ P(NextShardIndex)
  BY <1>1 DEF NextShardIndex
<1>3. C \subseteq Nat
  BY <1>0
<1> QED BY <1>2, <1>3

-----------------------------------------------------------------------------
(* Frames.                                                                 *)

\* Only a snapshot, the final promote and sweep, and the operator touch the
\* files.
LEMMA DiskFrame ==
    ASSUME Next
    PROVE  \/ UNCHANGED disk
           \/ \E w \in Worker : WriteShard(w) \/ WriteShas(w)
           \/ Promote \/ SweepBase \/ SweepShas \/ SweepShards \/ Discard
BY ZenonT(60)
   DEF Next, WorkerStep, MainStep, OperatorStep, OpenKzip, Enter, Check,
       BackOut, Unpark, Index, LockSink, FoldSink, Count, Trigger, TryLock,
       Recheck, FlagLands, Quiesce, DrainSink, Settle, WriteShardFails,
       NextCU, JoinOk, JoinErr, ScopeReturns, FinalMerge, Start,
       ResumeRefused, ReplaceKzip, Crash, HeartbeatReturns

\* Only a fold and a drain touch the sinks of a live process.
LEMMA SinksFrame ==
    ASSUME Next
    PROVE  \/ UNCHANGED sinks
           \/ \E w \in Worker : FoldSink(w) \/ DrainSink(w)
           \/ Exit
BY ZenonT(60)
   DEF Next, WorkerStep, MainStep, OperatorStep, OpenKzip, Enter, Check,
       BackOut, Unpark, Index, LockSink, Count, Trigger, TryLock, Recheck,
       FlagLands, Quiesce, Settle, WriteShard, WriteShardFails, WriteShas,
       NextCU, JoinOk, JoinErr, ScopeReturns, FinalMerge, Promote, SweepBase,
       SweepShas, SweepShards, Start, ResumeRefused, Discard, ReplaceKzip,
       Crash, HeartbeatReturns

\* Only the snapshot block touches the snapshotter's locals.
LEMMA SnapFrame ==
    ASSUME Next
    PROVE  \/ UNCHANGED snap
           \/ \E w \in Worker :
                 \/ Quiesce(w) \/ DrainSink(w) \/ Settle(w)
                 \/ WriteShard(w) \/ WriteShardFails(w) \/ WriteShas(w)
           \/ Exit
BY ZenonT(60)
   DEF Next, WorkerStep, MainStep, OperatorStep, OpenKzip, Enter, Check,
       BackOut, Unpark, Index, LockSink, FoldSink, Count, Trigger, TryLock,
       Recheck, FlagLands, NextCU, JoinOk, JoinErr, ScopeReturns, FinalMerge,
       Promote, SweepBase, SweepShas, SweepShards, Start, ResumeRefused,
       Discard, ReplaceKzip, Crash, HeartbeatReturns

\* Who touches the gate and the counters.
LEMMA GateFrame ==
    ASSUME Next
    PROVE  \/ UNCHANGED <<gate, shared>>
           \/ \E w \in Worker :
                 \/ Enter(w) \/ BackOut(w) \/ FoldSink(w) \/ Count(w)
                 \/ TryLock(w) \/ Recheck(w) \/ FlagLands(w) \/ Settle(w)
                 \/ WriteShardFails(w) \/ WriteShas(w) \/ NextCU(w)
           \/ \E resume \in BOOLEAN : Start(resume)
           \/ Exit
BY DEF Next, WorkerStep, MainStep, OperatorStep, OpenKzip, Check, Unpark,
       Index, LockSink, Trigger, Quiesce, DrainSink, WriteShard, JoinOk,
       JoinErr, ScopeReturns, FinalMerge, Promote, SweepBase, SweepShas,
       SweepShards, ResumeRefused, Discard, ReplaceKzip, Crash,
       HeartbeatReturns

-----------------------------------------------------------------------------
(* TypeOK.                                                                 *)

\* The files keep their type: what lands in a shard is the drained builder.
LEMMA DiskTypeStep ==
    ASSUME TypeOK, Next
    PROVE  DiskType'
<1> USE DEF TypeOK, DiskType, disk
<1>1. CASE UNCHANGED disk
  BY <1>1
<1>2. ASSUME NEW w \in Worker, WriteShard(w)
      PROVE  DiskType'
  <2>1. [idx |-> slot, cus |-> accBuilder] \in [idx : Nat, cus : SUBSET CUs]
    BY DEF SnapType
  <2> QED BY <1>2, <2>1 DEF WriteShard
<1>3. ASSUME NEW w \in Worker, WriteShas(w)
      PROVE  DiskType'
  BY <1>3 DEF WriteShas, ShasToWrite, SharedType, SnapType
<1>4. CASE Promote
  BY <1>4 DEF Promote, ProcessType
<1>5. CASE SweepBase
  BY <1>5 DEF SweepBase
<1>6. CASE SweepShas
  BY <1>6 DEF SweepShas
<1>7. CASE SweepShards
  BY <1>7 DEF SweepShards
<1>8. CASE Discard
  BY <1>8 DEF Discard
<1> QED BY DiskFrame, <1>1, <1>2, <1>3, <1>4, <1>5, <1>6, <1>7, <1>8

\* The sinks keep their type: a fold adds the worker's own CU.
LEMMA SinksTypeStep ==
    ASSUME TypeOK, HasCU, Next
    PROVE  SinksType'
<1> USE DEF TypeOK, SinksType, sinks
<1>1. CASE UNCHANGED sinks
  BY <1>1
<1>2. ASSUME NEW w \in Worker, FoldSink(w)
      PROVE  SinksType'
  <2>1. cur[w] \in CUs
    BY <1>2 DEF FoldSink, HasCU, ActivePcs, BusyPcs
  <2>2. Rows[cur[w]] \in Nat
    BY <2>1, Constants
  <2> QED BY <1>2, <2>1, <2>2 DEF FoldSink
<1>3. ASSUME NEW w \in Worker, DrainSink(w)
      PROVE  SinksType'
  <2>1. scan \in Worker
    BY <1>3, Constants DEF DrainSink, SnapType, Worker
  <2>2. CASE UNCHANGED sinks
    BY <2>2
  <2>3. CASE ~UNCHANGED sinks
    BY <1>3, <2>1, <2>3 DEF DrainSink
  <2> QED BY <2>2, <2>3
<1>4. CASE Exit
  BY <1>4 DEF Exit
<1> QED BY SinksFrame, <1>1, <1>2, <1>3, <1>4

\* The snapshotter's locals keep their type.
LEMMA SnapTypeStep ==
    ASSUME TypeOK, Next
    PROVE  SnapType'
<1> USE Constants DEF TypeOK, SnapType, snap
<1>1. CASE UNCHANGED snap
  BY <1>1
<1>2. ASSUME NEW w \in Worker, Quiesce(w)
      PROVE  SnapType'
  BY <1>2 DEF Quiesce
<1>3. ASSUME NEW w \in Worker, DrainSink(w)
      PROVE  SnapType'
  <2>1. scan \in Worker
    BY <1>3 DEF DrainSink, Worker
  <2> QED BY <1>3, <2>1 DEF DrainSink, TakenRows, SinksType
<1>4. ASSUME NEW w \in Worker, Settle(w)
      PROVE  SnapType'
  BY <1>4 DEF Settle, SharedType
<1>5. ASSUME NEW w \in Worker, WriteShard(w)
      PROVE  SnapType'
  BY <1>5 DEF WriteShard
<1>6. ASSUME NEW w \in Worker, WriteShardFails(w)
      PROVE  SnapType'
  BY <1>6 DEF WriteShardFails
<1>7. ASSUME NEW w \in Worker, WriteShas(w)
      PROVE  SnapType'
  BY <1>7 DEF WriteShas
<1>8. CASE Exit
  BY <1>8 DEF Exit
<1> QED BY SnapFrame, <1>1, <1>2, <1>3, <1>4, <1>5, <1>6, <1>7, <1>8

\* The shared counters keep their type; a start takes next_shard_index.
LEMMA SharedTypeStep ==
    ASSUME TypeOK, HasCU, ShardsBounded, Next
    PROVE  SharedType'
<1> USE DEF TypeOK, SharedType, gate, shared
<1>1. CASE UNCHANGED <<gate, shared>>
  BY <1>1
<1>2. ASSUME NEW w \in Worker, FoldSink(w)
      PROVE  SharedType'
  <2>1. cur[w] \in CUs
    BY <1>2 DEF FoldSink, HasCU, ActivePcs, BusyPcs
  <2>2. Rows[cur[w]] \in Nat
    BY <2>1, Constants
  <2> QED BY <1>2, <2>2 DEF FoldSink
<1>3. ASSUME NEW w \in Worker, Settle(w)
      PROVE  SharedType'
  BY <1>3 DEF Settle, SnapType
<1>4. ASSUME NEW w \in Worker,
             \/ Enter(w) \/ BackOut(w) \/ Count(w) \/ TryLock(w) \/ FlagLands(w)
             \/ NextCU(w)
      PROVE  SharedType'
  BY <1>4 DEF Enter, BackOut, Count, TryLock, FlagLands, NextCU
<1>5. ASSUME NEW w \in Worker, Recheck(w)
      PROVE  SharedType'
  <2>1. nth[w] \in Nat
    BY DEF WorkersType
  <2> QED BY <1>5, <2>1 DEF Recheck
<1>6. ASSUME NEW w \in Worker, WriteShardFails(w)
      PROVE  SharedType'
  BY <1>6 DEF WriteShardFails
<1>7. ASSUME NEW w \in Worker, WriteShas(w)
      PROVE  SharedType'
  BY <1>7 DEF WriteShas, SnapType
<1>8. ASSUME NEW resume \in BOOLEAN, Start(resume)
      PROVE  SharedType'
  BY <1>8, NextShardIndexAbove DEF Start, DiskType
<1>9. CASE Exit
  BY <1>9 DEF Exit
<1> QED BY GateFrame, <1>1, <1>2, <1>3, <1>4, <1>5, <1>6, <1>7, <1>8, <1>9

\* Every step leaves the workers' program counters and locals well typed.
LEMMA WorkersTypeStep ==
    ASSUME TypeOK, Next
    PROVE  WorkersType'
<1> USE DEF TypeOK, WorkersType, Goto, PcValues, ActivePcs, BusyPcs,
            SnapshotPcs, NoCU, disk, operator, process, sinks, shared, gate,
            snap, local
<1>1. ASSUME NEW w \in Worker, WorkerStep(w)
      PROVE  WorkersType'
  <2>1. CASE OpenKzip(w)
    BY <2>1 DEF OpenKzip
  <2>2. CASE Enter(w)
    BY <2>2 DEF Enter
  <2>3. CASE Check(w)
    BY <2>3 DEF Check
  <2>4. CASE BackOut(w)
    BY <2>4 DEF BackOut
  <2>5. CASE Unpark(w)
    BY <2>5 DEF Unpark
  <2>6. CASE Index(w)
    BY <2>6 DEF Index
  <2>7. CASE LockSink(w)
    BY <2>7 DEF LockSink
  <2>8. CASE FoldSink(w)
    BY <2>8 DEF FoldSink
  <2>9. CASE Count(w)
    BY <2>9 DEF Count, SharedType
  <2>10. CASE Trigger(w)
    BY <2>10 DEF Trigger
  <2>11. CASE TryLock(w)
    BY <2>11 DEF TryLock
  <2>12. CASE Recheck(w)
    BY <2>12 DEF Recheck
  <2>13. CASE FlagLands(w)
    BY <2>13 DEF FlagLands
  <2>14. CASE Quiesce(w)
    BY <2>14 DEF Quiesce
  <2>15. CASE DrainSink(w)
    BY <2>15 DEF DrainSink
  <2>16. CASE Settle(w)
    BY <2>16 DEF Settle
  <2>17. CASE WriteShard(w)
    BY <2>17 DEF WriteShard
  <2>18. CASE WriteShardFails(w)
    BY <2>18 DEF WriteShardFails
  <2>19. CASE WriteShas(w)
    BY <2>19 DEF WriteShas
  <2>20. CASE NextCU(w)
    BY <2>20 DEF NextCU
  <2> QED BY <1>1, <2>1, <2>2, <2>3, <2>4, <2>5, <2>6, <2>7, <2>8, <2>9,
             <2>10, <2>11, <2>12, <2>13, <2>14, <2>15, <2>16, <2>17, <2>18,
             <2>19, <2>20
            DEF WorkerStep
<1>2. ASSUME MainStep
      PROVE  WorkersType'
  <2>1. CASE JoinOk
    BY <2>1 DEF JoinOk
  <2>2. CASE JoinErr
    BY <2>2 DEF JoinErr
  <2>3. CASE ScopeReturns
    BY <2>3 DEF ScopeReturns, Exit
  <2>4. CASE FinalMerge
    BY <2>4 DEF FinalMerge
  <2>5. CASE Promote
    BY <2>5 DEF Promote
  <2>6. CASE SweepBase
    BY <2>6 DEF SweepBase
  <2>7. CASE SweepShas
    BY <2>7 DEF SweepShas
  <2>8. CASE SweepShards
    BY <2>8 DEF SweepShards, Exit
  <2> QED BY <1>2, <2>1, <2>2, <2>3, <2>4, <2>5, <2>6, <2>7, <2>8
            DEF MainStep
<1>3. ASSUME OperatorStep
      PROVE  WorkersType'
  <2>1. CASE \E resume \in BOOLEAN : Start(resume)
    BY <2>1, Constants DEF Start, Stripe, ProcessType
  <2>2. CASE ResumeRefused
    BY <2>2 DEF ResumeRefused
  <2>3. CASE Discard
    BY <2>3 DEF Discard
  <2>4. CASE ReplaceKzip
    BY <2>4 DEF ReplaceKzip
  <2> QED BY <1>3, <2>1, <2>2, <2>3, <2>4
            DEF OperatorStep
<1>4. CASE Crash
  BY <1>4 DEF Crash, Exit
<1>5. CASE HeartbeatReturns
  BY <1>5 DEF HeartbeatReturns
<1> QED BY <1>1, <1>2, <1>3, <1>4, <1>5 DEF Next

\* ... the main thread's state ...
LEMMA ProcessTypeStep ==
    ASSUME TypeOK, HasCU, Next
    PROVE  ProcessType'
<1> USE DEF TypeOK, ProcessType, MainValues, disk, operator, process, sinks,
            shared, gate, snap, local
<1>1. ASSUME NEW w \in Worker, WorkerStep(w)
      PROVE  ProcessType'
  <2>1. CASE FoldSink(w)
    BY <2>1 DEF FoldSink, HasCU, ActivePcs, BusyPcs
  <2>2. CASE ~(FoldSink(w))
    BY <1>1, <2>2 DEF WorkerStep, OpenKzip, Enter, Check, BackOut, Unpark,
                      Index, LockSink, Count, Trigger, TryLock, Recheck,
                      FlagLands, Quiesce, DrainSink, Settle, WriteShard,
                      WriteShardFails, WriteShas, NextCU
  <2> QED BY <2>1, <2>2
<1>2. CASE MainStep
  BY <1>2 DEF MainStep, JoinOk, JoinErr, ScopeReturns, FinalMerge, Promote,
              SweepBase, SweepShas, SweepShards, Exit, MergeInputs, Durable,
              ShardCUs, DiskType, SinksType, SnapType
<1>3. CASE OperatorStep
  <2>1. ASSUME NEW resume \in BOOLEAN, Start(resume)
        PROVE  ProcessType'
    BY <2>1 DEF Start, DiskType
  <2>2. CASE ResumeRefused \/ Discard \/ ReplaceKzip
    BY <2>2 DEF ResumeRefused, Discard, ReplaceKzip
  <2> QED BY <1>3, <2>1, <2>2 DEF OperatorStep
<1>4. CASE Crash \/ HeartbeatReturns
  BY <1>4 DEF Crash, HeartbeatReturns, Exit
<1> QED BY <1>1, <1>2, <1>3, <1>4 DEF Next

\* ... and the flags.
LEMMA FlagsTypeStep ==
    ASSUME TypeOK, Next
    PROVE  FlagsType'
<1> USE DEF TypeOK, FlagsType, disk, operator, process, sinks, shared, gate,
            snap, local
<1>1. ASSUME NEW w \in Worker, WorkerStep(w)
      PROVE  FlagsType'
  <2>1. CASE Recheck(w)
    BY <2>1 DEF Recheck
  <2>2. CASE Quiesce(w)
    BY <2>2 DEF Quiesce
  <2>3. CASE WriteShard(w)
    BY <2>3 DEF WriteShard
  <2>4. CASE WriteShardFails(w)
    BY <2>4 DEF WriteShardFails
  <2>5. CASE WriteShas(w)
    BY <2>5 DEF WriteShas
  <2>6. CASE FlagLands(w)
    BY <2>6 DEF FlagLands
  <2>7. CASE OpenKzip(w) \/ Enter(w) \/ Check(w) \/ BackOut(w) \/ Unpark(w)
    BY <2>7 DEF OpenKzip, Enter, Check, BackOut, Unpark
  <2>8. CASE Index(w) \/ LockSink(w) \/ FoldSink(w) \/ Count(w)
    BY <2>8 DEF Index, LockSink, FoldSink, Count
  <2>9. CASE Trigger(w) \/ TryLock(w)
    BY <2>9 DEF Trigger, TryLock
  <2>10. CASE DrainSink(w)
    BY <2>10 DEF DrainSink
  <2>11. CASE Settle(w) \/ NextCU(w)
    BY <2>11 DEF Settle, NextCU
  <2> QED BY <1>1, <2>1, <2>2, <2>3, <2>4, <2>5, <2>6, <2>7, <2>8, <2>9,
             <2>10, <2>11 DEF WorkerStep
<1>2. CASE MainStep
  <2>1. CASE JoinOk \/ JoinErr
    BY <2>1 DEF JoinOk, JoinErr
  <2>2. CASE ScopeReturns
    BY <2>2 DEF ScopeReturns, Exit
  <2>3. CASE FinalMerge \/ Promote
    BY <2>3 DEF FinalMerge, Promote
  <2>4. CASE SweepBase \/ SweepShas
    BY <2>4 DEF SweepBase, SweepShas
  <2>5. CASE SweepShards
    BY <2>5 DEF SweepShards, Exit
  <2> QED BY <1>2, <2>1, <2>2, <2>3, <2>4, <2>5 DEF MainStep
<1>3. CASE OperatorStep
  <2>1. ASSUME NEW resume \in BOOLEAN, Start(resume)
        PROVE  FlagsType'
    BY <2>1 DEF Start
  <2>2. CASE ResumeRefused \/ ReplaceKzip
    BY <2>2 DEF ResumeRefused, ReplaceKzip
  <2>3. CASE Discard
    BY <2>3 DEF Discard
  <2> QED BY <1>3, <2>1, <2>2, <2>3 DEF OperatorStep
<1>4. CASE Crash \/ HeartbeatReturns
  BY <1>4 DEF Crash, HeartbeatReturns, Exit
<1> QED BY <1>1, <1>2, <1>3, <1>4 DEF Next

\* The type invariant is preserved.
LEMMA TypeStep ==
    ASSUME ControlInv, [Next]_vars
    PROVE  TypeOK'
<1> USE DEF ControlInv
<1>1. CASE Next
  BY <1>1, DiskTypeStep, ProcessTypeStep, WorkersTypeStep, SinksTypeStep,
     SharedTypeStep, SnapTypeStep, FlagsTypeStep DEF TypeOK
<1>2. CASE UNCHANGED vars
  BY <1>2 DEF TypeOK, DiskType, ProcessType, WorkersType, SinksType, SharedType,
              SnapType, FlagsType, vars, disk, operator, process, sinks, shared,
              gate, snap, local
<1> QED BY <1>1, <1>2

-----------------------------------------------------------------------------
(* The rest of ControlInv.                                                 *)

\* snap_writer_mu stays with the worker in the snapshot block.
LEMMA OneSnapshotterStep ==
    ASSUME ControlInv, Next
    PROVE  OneSnapshotter'
<1> USE DEF ControlInv, TypeOK, WorkersType, ProcessType, Running, Goto,
            ActivePcs, BusyPcs, SnapshotPcs, disk, operator, process, sinks,
            shared, gate, snap, local, OneSnapshotter
<1>1. ASSUME NEW w \in Worker, WorkerStep(w)
      PROVE  OneSnapshotter'
  <2>1. CASE OpenKzip(w)
    BY Constants, <2>1 DEF OpenKzip
  <2>2. CASE Enter(w)
    BY Constants, <2>2 DEF Enter
  <2>3. CASE Check(w)
    BY Constants, <2>3 DEF Check
  <2>4. CASE BackOut(w)
    BY Constants, <2>4 DEF BackOut
  <2>5. CASE Unpark(w)
    BY Constants, <2>5 DEF Unpark
  <2>6. CASE Index(w)
    BY Constants, <2>6 DEF Index
  <2>7. CASE LockSink(w)
    BY Constants, <2>7 DEF LockSink
  <2>8. CASE FoldSink(w)
    BY Constants, <2>8 DEF FoldSink
  <2>9. CASE Count(w)
    BY Constants, <2>9 DEF Count
  <2>10. CASE Trigger(w)
    BY Constants, <2>10 DEF Trigger
  <2>11. CASE TryLock(w)
    BY Constants, <2>11 DEF TryLock
  <2>12. CASE Recheck(w)
    BY Constants, <2>12 DEF Recheck
  <2>13. CASE FlagLands(w)
    BY Constants, <2>13 DEF FlagLands
  <2>14. CASE Quiesce(w)
    BY Constants, <2>14 DEF Quiesce
  <2>15. CASE DrainSink(w)
    BY Constants, <2>15 DEF DrainSink
  <2>16. CASE Settle(w)
    BY Constants, <2>16 DEF Settle
  <2>17. CASE WriteShard(w)
    BY Constants, <2>17 DEF WriteShard
  <2>18. CASE WriteShardFails(w)
    BY Constants, <2>18 DEF WriteShardFails
  <2>19. CASE WriteShas(w)
    BY Constants, <2>19 DEF WriteShas
  <2>20. CASE NextCU(w)
    BY Constants, <2>20 DEF NextCU
  <2> QED BY <1>1, <2>1, <2>2, <2>3, <2>4, <2>5, <2>6, <2>7, <2>8, <2>9,
             <2>10, <2>11, <2>12, <2>13, <2>14, <2>15, <2>16, <2>17, <2>18,
             <2>19, <2>20
            DEF WorkerStep
<1>2. ASSUME MainStep
      PROVE  OneSnapshotter'
  <2>1. CASE JoinOk
    BY Constants, <2>1 DEF JoinOk
  <2>2. CASE JoinErr
    BY Constants, <2>2 DEF JoinErr
  <2>3. CASE ScopeReturns
    BY Constants, <2>3 DEF ScopeReturns, Exit
  <2>4. CASE FinalMerge
    BY Constants, <2>4 DEF FinalMerge
  <2>5. CASE Promote
    BY Constants, <2>5 DEF Promote
  <2>6. CASE SweepBase
    BY Constants, <2>6 DEF SweepBase
  <2>7. CASE SweepShas
    BY Constants, <2>7 DEF SweepShas
  <2>8. CASE SweepShards
    BY Constants, <2>8 DEF SweepShards, Exit
  <2> QED BY <1>2, <2>1, <2>2, <2>3, <2>4, <2>5, <2>6, <2>7, <2>8
            DEF MainStep
<1>3. ASSUME OperatorStep
      PROVE  OneSnapshotter'
  <2>1. CASE \E resume \in BOOLEAN : Start(resume)
    BY Constants, <2>1 DEF Start, WorkersJoined
  <2>2. CASE ResumeRefused
    BY Constants, <2>2 DEF ResumeRefused
  <2>3. CASE Discard
    BY Constants, <2>3 DEF Discard
  <2>4. CASE ReplaceKzip
    BY Constants, <2>4 DEF ReplaceKzip
  <2> QED BY <1>3, <2>1, <2>2, <2>3, <2>4
            DEF OperatorStep
<1>4. CASE Crash
  BY Constants, <1>4 DEF Crash, Exit
<1>5. CASE HeartbeatReturns
  BY Constants, <1>5 DEF HeartbeatReturns
<1> QED BY <1>1, <1>2, <1>3, <1>4, <1>5 DEF Next

\* The main thread leaves the scope only after every worker.
LEMMA WorkersJoinedStep ==
    ASSUME ControlInv, Next
    PROVE  WorkersJoined'
<1> USE DEF ControlInv, TypeOK, WorkersType, ProcessType, Running, Goto,
            ActivePcs, BusyPcs, SnapshotPcs, disk, operator, process, sinks,
            shared, gate, snap, local, WorkersJoined
<1>1. ASSUME NEW w \in Worker, WorkerStep(w)
      PROVE  WorkersJoined'
  <2>1. CASE Enter(w)
    BY <2>1 DEF Enter
  <2>2. CASE ~(Enter(w))
    BY <1>1, <2>2 DEF WorkerStep, OpenKzip, Check, BackOut, Unpark, Index,
                      LockSink, FoldSink, Count, Trigger, TryLock, Recheck,
                      FlagLands, Quiesce, DrainSink, Settle, WriteShard,
                      WriteShardFails, WriteShas, NextCU
  <2> QED BY <2>1, <2>2
<1>2. CASE MainStep
  BY <1>2 DEF MainStep, JoinOk, JoinErr, ScopeReturns, FinalMerge, Promote,
              SweepBase, SweepShas, SweepShards, Exit
<1>3. CASE OperatorStep
  <2>1. ASSUME NEW resume \in BOOLEAN, Start(resume)
        PROVE  WorkersJoined'
    BY <2>1 DEF Start
  <2>2. CASE ResumeRefused \/ Discard \/ ReplaceKzip
    BY <2>2 DEF ResumeRefused, Discard, ReplaceKzip
  <2> QED BY <1>3, <2>1, <2>2 DEF OperatorStep
<1>4. CASE Crash \/ HeartbeatReturns
  BY <1>4 DEF Crash, HeartbeatReturns, Exit
<1> QED BY <1>1, <1>2, <1>3, <1>4 DEF Next

\* A worker past the gate took a CU of its stripe.
LEMMA HasCUStep ==
    ASSUME ControlInv, Next
    PROVE  HasCU'
<1> USE DEF ControlInv, TypeOK, WorkersType, ProcessType, Running, Goto,
            ActivePcs, BusyPcs, SnapshotPcs, disk, operator, process, sinks,
            shared, gate, snap, local, HasCU
<1>1. ASSUME NEW w \in Worker, WorkerStep(w)
      PROVE  HasCU'
  <2>1. CASE Check(w)
    BY <2>1 DEF Check
  <2>2. CASE NextCU(w)
    BY <2>2 DEF NextCU
  <2>3. CASE ~(Check(w) \/ NextCU(w))
    BY <1>1, <2>3 DEF WorkerStep, OpenKzip, Enter, BackOut, Unpark, Index,
                      LockSink, FoldSink, Count, Trigger, TryLock, Recheck,
                      FlagLands, Quiesce, DrainSink, Settle, WriteShard,
                      WriteShardFails, WriteShas
  <2> QED BY <2>1, <2>2, <2>3
<1>2. CASE MainStep
  BY <1>2 DEF MainStep, JoinOk, JoinErr, ScopeReturns, FinalMerge, Promote,
              SweepBase, SweepShas, SweepShards, Exit
<1>3. CASE OperatorStep
  <2>1. ASSUME NEW resume \in BOOLEAN, Start(resume)
        PROVE  HasCU'
    BY <2>1 DEF Start
  <2>2. CASE ResumeRefused \/ Discard \/ ReplaceKzip
    BY <2>2 DEF ResumeRefused, Discard, ReplaceKzip
  <2> QED BY <1>3, <2>1, <2>2 DEF OperatorStep
<1>4. CASE Crash \/ HeartbeatReturns
  BY <1>4 DEF Crash, HeartbeatReturns, Exit
<1> QED BY <1>1, <1>2, <1>3, <1>4 DEF Next

\* Shard numbering stays ahead of the directory.
LEMMA ShardsBoundedStep ==
    ASSUME ControlInv, Next
    PROVE  ShardsBounded'
<1> USE DEF ControlInv, TypeOK, WorkersType, ProcessType, Running, Goto,
            ActivePcs, BusyPcs, SnapshotPcs, disk, operator, process, sinks,
            shared, gate, snap, local, ShardsBounded, DiskType, SharedType,
            OneSnapshotter, WorkersJoined
<1>1. ASSUME NEW w \in Worker, WorkerStep(w)
      PROVE  ShardsBounded'
  <2>1. CASE OpenKzip(w)
    BY <2>1 DEF OpenKzip
  <2>2. CASE Enter(w)
    BY <2>2 DEF Enter
  <2>3. CASE Check(w)
    BY <2>3 DEF Check
  <2>4. CASE BackOut(w)
    BY <2>4 DEF BackOut
  <2>5. CASE Unpark(w)
    BY <2>5 DEF Unpark
  <2>6. CASE Index(w)
    BY <2>6 DEF Index
  <2>7. CASE LockSink(w)
    BY <2>7 DEF LockSink
  <2>8. CASE FoldSink(w)
    BY <2>8 DEF FoldSink
  <2>9. CASE Count(w)
    BY <2>9 DEF Count
  <2>10. CASE Trigger(w)
    BY <2>10 DEF Trigger
  <2>11. CASE TryLock(w)
    BY <2>11 DEF TryLock
  <2>12. CASE Recheck(w)
    BY <2>12 DEF Recheck
  <2>13. CASE FlagLands(w)
    BY <2>13 DEF FlagLands
  <2>14. CASE Quiesce(w)
    BY <2>14 DEF Quiesce
  <2>15. CASE DrainSink(w)
    BY <2>15 DEF DrainSink
  <2>16. CASE Settle(w)
    BY <2>16 DEF Settle
  <2>17. CASE WriteShard(w)
    <3> DEFINE new == [idx |-> slot, cus |-> accBuilder]
    <3>1. slot \in Nat /\ slot < nextShard /\ \A s \in shards : s.idx < slot
      BY <2>17 DEF WriteShard, SnapType
    <3>2. new \in shards' /\ new.idx = slot
      BY <2>17 DEF WriteShard
    <3>3. \A s \in shards' : s.idx <= slot /\ s.idx < nextShard
      BY <2>17, <3>1 DEF WriteShard
    <3>4. \A v \in Worker : pc'[v] # "write"
      BY <2>17 DEF WriteShard
    <3>5. nextShard' = nextShard
      BY <2>17 DEF WriteShard
    <3> QED BY <3>2, <3>3, <3>4, <3>5
  <2>18. CASE WriteShardFails(w)
    BY <2>18 DEF WriteShardFails
  <2>19. CASE WriteShas(w)
    BY <2>19 DEF WriteShas
  <2>20. CASE NextCU(w)
    BY <2>20 DEF NextCU
  <2> QED BY <1>1, <2>1, <2>2, <2>3, <2>4, <2>5, <2>6, <2>7, <2>8, <2>9,
             <2>10, <2>11, <2>12, <2>13, <2>14, <2>15, <2>16, <2>17, <2>18,
             <2>19, <2>20
            DEF WorkerStep
<1>2. ASSUME MainStep
      PROVE  ShardsBounded'
  <2>1. CASE JoinOk
    BY <2>1 DEF JoinOk
  <2>2. CASE JoinErr
    BY <2>2 DEF JoinErr
  <2>3. CASE ScopeReturns
    BY <2>3 DEF ScopeReturns, Exit
  <2>4. CASE FinalMerge
    BY <2>4 DEF FinalMerge
  <2>5. CASE Promote
    BY <2>5 DEF Promote
  <2>6. CASE SweepBase
    BY <2>6 DEF SweepBase
  <2>7. CASE SweepShas
    BY <2>7 DEF SweepShas
  <2>8. CASE SweepShards
    BY <2>8 DEF SweepShards, Exit
  <2> QED BY <1>2, <2>1, <2>2, <2>3, <2>4, <2>5, <2>6, <2>7, <2>8
            DEF MainStep
<1>3. ASSUME OperatorStep
      PROVE  ShardsBounded'
  <2>1. CASE \E resume \in BOOLEAN : Start(resume)
    BY <2>1, NextShardIndexAbove DEF Start
  <2>2. CASE ResumeRefused
    BY <2>2 DEF ResumeRefused
  <2>3. CASE Discard
    BY <2>3 DEF Discard
  <2>4. CASE ReplaceKzip
    BY <2>4 DEF ReplaceKzip
  <2> QED BY <1>3, <2>1, <2>2, <2>3, <2>4
            DEF OperatorStep
<1>4. CASE Crash
  BY <1>4 DEF Crash, Exit
<1>5. CASE HeartbeatReturns
  BY <1>5 DEF HeartbeatReturns
<1> QED BY <1>1, <1>2, <1>3, <1>4, <1>5 DEF Next

\* The first state satisfies the control invariant.
LEMMA ControlInit == Init => ControlInv
<1> SUFFICES ASSUME Init PROVE ControlInv
  OBVIOUS
<1> USE DEF Init, NoProcess
<1>1. base \in SUBSET CUs /\ shas \in SUBSET CUs
  BY Constants
<1>2. FlagsType
  BY DEF FlagsType
<1>3. DiskType /\ ProcessType /\ WorkersType
  BY <1>1 DEF DiskType, ProcessType, WorkersType, MainValues, PcValues, NoCU
<1>4. SinksType /\ SharedType /\ SnapType
  BY Constants DEF SinksType, SharedType, SnapType
<1>5. OneSnapshotter
  BY Constants DEF OneSnapshotter, SnapshotPcs
<1>6. WorkersJoined /\ HasCU /\ ShardsBounded
  BY DEF WorkersJoined, HasCU, ShardsBounded, Running, ActivePcs, BusyPcs,
         SnapshotPcs
<1> QED BY <1>2, <1>3, <1>4, <1>5, <1>6 DEF ControlInv, TypeOK

\* ControlInv is inductive.
LEMMA ControlStep ==
    ASSUME ControlInv, [Next]_vars
    PROVE  ControlInv'
<1>1. CASE Next
  BY <1>1, TypeStep, OneSnapshotterStep, WorkersJoinedStep, HasCUStep,
     ShardsBoundedStep DEF ControlInv
<1>2. CASE UNCHANGED vars
  <2>1. OneSnapshotter' /\ WorkersJoined' /\ HasCU' /\ ShardsBounded'
    BY <1>2 DEF ControlInv, OneSnapshotter, WorkersJoined, HasCU, ShardsBounded,
                Running, vars, disk, process, shared, gate, snap, local
  <2> QED BY <1>2, <2>1, TypeStep DEF ControlInv
<1> QED BY <1>1, <1>2

\* In every reachable state of a from-kzip deployment every variable has its
\* type, whatever kills, faults, store reordering and leftovers occurred; in
\* particular shard indices stay natural numbers and program counters known.
THEOREM TypeCorrect == Spec => []TypeOK
<1>1. Spec => []ControlInv
  BY ControlInit, ControlStep, PTL DEF Spec
<1>2. ControlInv => TypeOK
  BY DEF ControlInv
<1> QED BY <1>1, <1>2, PTL

-----------------------------------------------------------------------------
(* Shards are never lost before the final sweep.                           *)

\* Between a run's start and its final sweep no step removes a shard.
LEMMA ShardsGrow ==
    ASSUME ControlInv, [Next]_vars, main \notin {"off", "sweepShards"}
    PROVE  shards \subseteq shards'
<1>1. CASE UNCHANGED vars
  BY <1>1 DEF vars, disk
<1>2. ASSUME NEW w \in Worker, WriteShard(w)
      PROVE  shards \subseteq shards'
  <2>1. \A s \in shards : s.idx < slot /\ s.idx \in Nat
    BY <1>2 DEF WriteShard, ControlInv, ShardsBounded, TypeOK, DiskType
  <2>2. slot \in Nat
    BY DEF ControlInv, TypeOK, SnapType
  <2>3. \A s \in shards : s.idx # slot
    BY <2>1, <2>2
  <2> QED BY <1>2, <2>3 DEF WriteShard
<1>3. ASSUME NEW w \in Worker, WriteShas(w)
      PROVE  shards \subseteq shards'
  BY <1>3 DEF WriteShas
<1>4. CASE Promote \/ SweepBase \/ SweepShas
  BY <1>4 DEF Promote, SweepBase, SweepShas
<1>5. CASE SweepShards \/ Discard
  BY <1>5 DEF SweepShards, Discard
<1> QED BY DiskFrame, <1>1, <1>2, <1>3, <1>4, <1>5 DEF disk

\* No run overwrites or removes a shard file between its start and its final
\* sweep, however many restarts and failed writes came before: next_shard_index
\* and next_shard.fetch_add never hand out the index of a durable shard.
THEOREM ShardsNeverLost == Spec => NoOverwrite
<1>1. Spec => []ControlInv
  BY ControlInit, ControlStep, PTL DEF Spec
<1>2. ControlInv /\ [Next]_vars => [main = "join" => shards \subseteq shards']_vars
  BY ShardsGrow
<1> QED BY <1>1, <1>2, PTL DEF Spec, NoOverwrite

-----------------------------------------------------------------------------
(* DataInv: a sha never gets ahead of its rows.                            *)

\* No step creates a legacy base.
LEMMA NoBaseStep ==
    ASSUME NoBase, Next
    PROVE  NoBase'
<1> USE DEF NoBase
<1>1. CASE UNCHANGED <<baseExists, base>>
  BY <1>1
<1>2. CASE baseExists' = FALSE /\ base' = {}
  BY <1>2
<1>3. UNCHANGED <<baseExists, base>> \/ (baseExists' = FALSE /\ base' = {})
  BY DiskFrame DEF disk, WriteShard, WriteShas, Promote, SweepBase, SweepShas,
                   SweepShards, Discard
<1> QED BY <1>1, <1>2, <1>3

\* Without a base, Durable is the union of the shards, so it only grows.
LEMMA DurableGrows ==
    ASSUME ControlInv, NoBase, Next, main \notin {"off", "sweepShards"}
    PROVE  Durable \subseteq Durable'
<1>1. shards \subseteq shards'
  BY ShardsGrow
<1>2. Durable = ShardCUs(shards) /\ Durable' = ShardCUs(shards')
  BY NoBaseStep DEF NoBase, Durable
<1> QED BY <1>1, <1>2 DEF ShardCUs

\* Folds and drains move a CU's rows and its sha together.
LEMMA SinkCoupledStep ==
    ASSUME TypeOK, SinkCoupled, Next
    PROVE  SinkCoupled'
<1> USE DEF TypeOK, SinksType, SinkCoupled, sinks
<1>1. CASE UNCHANGED sinks
  BY <1>1
<1>2. ASSUME NEW w \in Worker, FoldSink(w)
      PROVE  SinkCoupled'
  BY <1>2 DEF FoldSink
<1>3. ASSUME NEW w \in Worker, DrainSink(w), ~UNCHANGED sinks
      PROVE  SinkCoupled'
  BY <1>3 DEF DrainSink
<1>4. CASE Exit
  BY <1>4 DEF Exit
<1> QED BY SinksFrame, <1>1, <1>2, <1>3, <1>4

\* The worker in the snapshot block is the only one that moves its locals.
LEMMA SnapshotterFrame ==
    ASSUME ControlInv, Next, NEW v \in Worker,
           pc'[v] \in {"drain", "write", "shas"}
    PROVE  \/ UNCHANGED snap /\ pc'[v] = pc[v]
           \/ Quiesce(v) \/ DrainSink(v) \/ Settle(v) \/ WriteShard(v)
<1> USE DEF ControlInv, TypeOK, WorkersType, OneSnapshotter, WorkersJoined,
            Running, Goto, SnapshotPcs, disk, operator, process, sinks,
            shared, gate, snap, local
<1>1. ASSUME NEW w \in Worker, WorkerStep(w)
      PROVE  \/ UNCHANGED snap /\ pc'[v] = pc[v]
           \/ Quiesce(v) \/ DrainSink(v) \/ Settle(v) \/ WriteShard(v)
  <2>1. CASE OpenKzip(w)
    BY <2>1 DEF OpenKzip
  <2>2. CASE Enter(w)
    BY <2>2 DEF Enter
  <2>3. CASE Check(w)
    BY <2>3 DEF Check
  <2>4. CASE BackOut(w)
    BY <2>4 DEF BackOut
  <2>5. CASE Unpark(w)
    BY <2>5 DEF Unpark
  <2>6. CASE Index(w)
    BY <2>6 DEF Index
  <2>7. CASE LockSink(w)
    BY <2>7 DEF LockSink
  <2>8. CASE FoldSink(w)
    BY <2>8 DEF FoldSink
  <2>9. CASE Count(w)
    BY <2>9 DEF Count
  <2>10. CASE Trigger(w)
    BY <2>10 DEF Trigger
  <2>11. CASE TryLock(w)
    BY <2>11 DEF TryLock
  <2>12. CASE Recheck(w)
    BY <2>12 DEF Recheck
  <2>13. CASE FlagLands(w)
    BY <2>13 DEF FlagLands
  <2>14. CASE Quiesce(w)
    BY <2>14 DEF Quiesce
  <2>15. CASE DrainSink(w)
    BY <2>15 DEF DrainSink
  <2>16. CASE Settle(w)
    BY <2>16 DEF Settle
  <2>17. CASE WriteShard(w)
    BY <2>17 DEF WriteShard
  <2>18. CASE WriteShardFails(w)
    BY <2>18 DEF WriteShardFails
  <2>19. CASE WriteShas(w)
    BY <2>19 DEF WriteShas
  <2>20. CASE NextCU(w)
    BY <2>20 DEF NextCU
  <2> QED BY <1>1, <2>1, <2>2, <2>3, <2>4, <2>5, <2>6, <2>7, <2>8, <2>9,
             <2>10, <2>11, <2>12, <2>13, <2>14, <2>15, <2>16, <2>17, <2>18,
             <2>19, <2>20
            DEF WorkerStep
<1>2. ASSUME MainStep
      PROVE  \/ UNCHANGED snap /\ pc'[v] = pc[v]
           \/ Quiesce(v) \/ DrainSink(v) \/ Settle(v) \/ WriteShard(v)
  <2>1. CASE JoinOk
    BY <2>1 DEF JoinOk
  <2>2. CASE JoinErr
    BY <2>2 DEF JoinErr
  <2>3. CASE ScopeReturns
    BY <2>3 DEF ScopeReturns, Exit
  <2>4. CASE FinalMerge
    BY <2>4 DEF FinalMerge
  <2>5. CASE Promote
    BY <2>5 DEF Promote
  <2>6. CASE SweepBase
    BY <2>6 DEF SweepBase
  <2>7. CASE SweepShas
    BY <2>7 DEF SweepShas
  <2>8. CASE SweepShards
    BY <2>8 DEF SweepShards, Exit
  <2> QED BY <1>2, <2>1, <2>2, <2>3, <2>4, <2>5, <2>6, <2>7, <2>8
            DEF MainStep
<1>3. ASSUME OperatorStep
      PROVE  \/ UNCHANGED snap /\ pc'[v] = pc[v]
           \/ Quiesce(v) \/ DrainSink(v) \/ Settle(v) \/ WriteShard(v)
  <2>1. CASE \E resume \in BOOLEAN : Start(resume)
    BY <2>1 DEF Start
  <2>2. CASE ResumeRefused
    BY <2>2 DEF ResumeRefused
  <2>3. CASE Discard
    BY <2>3 DEF Discard
  <2>4. CASE ReplaceKzip
    BY <2>4 DEF ReplaceKzip
  <2> QED BY <1>3, <2>1, <2>2, <2>3, <2>4
            DEF OperatorStep
<1>4. CASE Crash
  BY <1>4 DEF Crash, Exit
<1>5. CASE HeartbeatReturns
  BY <1>5 DEF HeartbeatReturns
<1> QED BY <1>1, <1>2, <1>3, <1>4, <1>5 DEF Next

\* The drained shas follow the drained rows into the shard.
LEMMA DrainCoupledStep ==
    ASSUME ControlInv, NoBase, SinkCoupled, DrainCoupled, Next
    PROVE  DrainCoupled'
<1> SUFFICES ASSUME NEW v \in Worker, pc'[v] \in {"drain", "write", "shas"}
             PROVE  /\ pc'[v] \in {"drain", "write"} => drainedShas' \subseteq accBuilder'
                    /\ pc'[v] = "shas" => drainedShas' \subseteq Durable'
  BY DEF DrainCoupled
<1> USE DEF ControlInv, TypeOK, WorkersType, Goto, DrainCoupled
<1>1. CASE UNCHANGED snap /\ pc'[v] = pc[v]
  <2>1. main \notin {"off", "sweepShards"}
    BY <1>1 DEF WorkersJoined, Running
  <2>2. Durable \subseteq Durable'
    BY <2>1, DurableGrows
  <2> QED BY <1>1, <2>2 DEF snap
<1>2. CASE Quiesce(v)
  BY <1>2 DEF Quiesce
<1>3. CASE DrainSink(v)
  <2>1. scan \in Worker
    BY <1>3, Constants DEF DrainSink, SnapType, Worker
  <2>2. pc'[v] = "drain" /\ drainedShas \subseteq accBuilder
    BY <1>3 DEF DrainSink, local
  <2>3. drainedShas' \subseteq accBuilder'
    BY <1>3, <2>1, <2>2 DEF DrainSink, SinkCoupled
  <2> QED BY <2>2, <2>3
<1>4. CASE Settle(v)
  BY <1>4 DEF Settle
<1>5. CASE WriteShard(v)
  <2>1. [idx |-> slot, cus |-> accBuilder] \in shards'
    BY <1>5 DEF WriteShard
  <2>2. accBuilder \subseteq ShardCUs(shards')
    BY <2>1 DEF ShardCUs
  <2>3. Durable' = ShardCUs(shards')
    BY NoBaseStep DEF NoBase, Durable
  <2>4. pc'[v] = "shas" /\ drainedShas' = drainedShas /\ drainedShas \subseteq accBuilder
    BY <1>5 DEF WriteShard
  <2> QED BY <2>2, <2>3, <2>4
<1> QED BY <1>1, <1>2, <1>3, <1>4, <1>5, SnapshotterFrame

\* committed_shas changes only when a run starts from the checkpoint or when a
\* shard has just landed.
LEMMA CommittedDurableStep ==
    ASSUME ControlInv, NoBase, DrainCoupled, CommittedDurable, ShasDurable, Next
    PROVE  CommittedDurable'
<1> SUFFICES ASSUME main' \in {"join", "abort"}
             PROVE  committedShas' \subseteq Durable'
  BY DEF CommittedDurable, Running
<1>1. ASSUME NEW resume \in BOOLEAN, Start(resume)
      PROVE  committedShas' \subseteq Durable'
  <2>1. Durable' = Durable
    BY <1>1 DEF Start, Durable, ShardCUs, disk
  <2>2. committedShas' \subseteq Durable
    BY <1>1 DEF Start, ShasDurable
  <2> QED BY <2>1, <2>2
<1>2. ASSUME NEW w \in Worker, WriteShas(w)
      PROVE  committedShas' \subseteq Durable'
  <2>1. main \in {"join", "abort"}
    BY <1>2 DEF WriteShas, ControlInv, WorkersJoined, Running
  <2>2. Durable' = Durable
    BY <1>2 DEF WriteShas, Durable, ShardCUs
  <2>3. committedShas' = committedShas \cup drainedShas /\ drainedShas \subseteq Durable
    BY <1>2 DEF WriteShas, DrainCoupled
  <2> QED BY <2>1, <2>2, <2>3 DEF CommittedDurable, Running
<1>3. CASE UNCHANGED committedShas /\ main \in {"join", "abort"}
  <2>1. Durable \subseteq Durable'
    BY <1>3, DurableGrows
  <2> QED BY <1>3, <2>1 DEF CommittedDurable, Running
<1>4. \/ \E resume \in BOOLEAN : Start(resume)
      \/ \E w \in Worker : WriteShas(w)
      \/ UNCHANGED committedShas /\ main \in {"join", "abort"}
  BY DEF Next, WorkerStep, MainStep, OperatorStep, OpenKzip, Enter, Check,
         BackOut, Unpark, Index, LockSink, FoldSink, Count, Trigger, TryLock,
         Recheck, FlagLands, Quiesce, DrainSink, Settle, WriteShard,
         WriteShardFails, NextCU, JoinOk, JoinErr, ScopeReturns, FinalMerge,
         Promote, SweepBase, SweepShas, SweepShards, ResumeRefused, Discard,
         ReplaceKzip, Crash, HeartbeatReturns, Exit, ControlInv,
         WorkersJoined, Running, shared, process
<1> QED BY <1>1, <1>2, <1>3, <1>4

\* The checkpoint is removed before the first shard is.
LEMMA SweptInOrderStep ==
    ASSUME ControlInv, SweptInOrder, Next
    PROVE  SweptInOrder'
<1> SUFFICES ASSUME main' = "sweepShards"
             PROVE  ~shasExists'
  BY DEF SweptInOrder
<1>1. CASE SweepShas
  BY <1>1 DEF SweepShas
<1>2. CASE main = "sweepShards" /\ UNCHANGED shasExists
  BY <1>2 DEF SweptInOrder
<1>3. SweepShas \/ (main = "sweepShards" /\ UNCHANGED shasExists)
  BY DEF Next, WorkerStep, MainStep, OperatorStep, OpenKzip, Enter, Check,
         BackOut, Unpark, Index, LockSink, FoldSink, Count, Trigger, TryLock,
         Recheck, FlagLands, Quiesce, DrainSink, Settle, WriteShard,
         WriteShardFails, WriteShas, NextCU, JoinOk, JoinErr, ScopeReturns,
         FinalMerge, Promote, SweepBase, SweepShards, Start, ResumeRefused,
         Discard, ReplaceKzip, Crash, HeartbeatReturns, Exit, ControlInv,
         WorkersJoined, Running, process, disk
<1> QED BY <1>1, <1>2, <1>3

\* The checkpoint file changes only after its shard has landed or to vanish.
LEMMA ShasDurableStep ==
    ASSUME ControlInv, NoBase, DrainCoupled, CommittedDurable, SweptInOrder,
           ShasDurable, Next
    PROVE  ShasDurable'
<1>1. CASE UNCHANGED disk
  BY <1>1 DEF ShasDurable, Durable, ShardCUs, disk
<1>2. ASSUME NEW w \in Worker, WriteShard(w)
      PROVE  ShasDurable'
  <2>1. main \in {"join", "abort"}
    BY <1>2 DEF WriteShard, ControlInv, WorkersJoined, Running
  <2>2. Durable \subseteq Durable'
    BY <2>1, DurableGrows
  <2> QED BY <1>2, <2>2 DEF WriteShard, ShasDurable
<1>3. ASSUME NEW w \in Worker, WriteShas(w)
      PROVE  ShasDurable'
  <2>1. main \in {"join", "abort"}
    BY <1>3 DEF WriteShas, ControlInv, WorkersJoined, Running
  <2>2. Durable' = Durable
    BY <1>3 DEF WriteShas, Durable, ShardCUs
  <2>3. committedShas \subseteq Durable /\ drainedShas \subseteq Durable
    BY <1>3, <2>1 DEF WriteShas, DrainCoupled, CommittedDurable, Running
  <2>4. CASE shas' = committedShas \cup drainedShas
    BY <2>2, <2>3, <2>4 DEF ShasDurable
  <2>5. CASE UNCHANGED <<shasExists, shas>>
    BY <2>2, <2>5 DEF ShasDurable
  <2> QED BY <1>3, <2>4, <2>5 DEF WriteShas, ShasToWrite
<1>4. CASE Promote
  BY <1>4 DEF Promote, ShasDurable, Durable, ShardCUs
<1>5. CASE SweepBase
  BY <1>5 DEF SweepBase, ShasDurable, Durable, ShardCUs, NoBase
<1>6. CASE SweepShas
  BY <1>6 DEF SweepShas, ShasDurable
<1>7. CASE SweepShards
  BY <1>7 DEF SweepShards, SweptInOrder, ShasDurable
<1>8. CASE Discard
  BY <1>8 DEF Discard, ShasDurable
<1> QED BY DiskFrame, <1>1, <1>2, <1>3, <1>4, <1>5, <1>6, <1>7, <1>8

\* DataInv is inductive relative to ControlInv.
LEMMA DataStep ==
    ASSUME ControlInv, DataInv, [Next]_vars
    PROVE  DataInv'
<1>1. CASE Next
  BY <1>1, SinkCoupledStep, DrainCoupledStep, CommittedDurableStep, NoBaseStep,
     SweptInOrderStep, ShasDurableStep DEF DataInv, ControlInv
<1>2. CASE UNCHANGED vars
  BY <1>2 DEF DataInv, SinkCoupled, DrainCoupled, CommittedDurable, NoBase,
              SweptInOrder, ShasDurable, Durable, ShardCUs, Running, vars, disk,
              process, sinks, shared, snap, local
<1> QED BY <1>1, <1>2

\* Without a legacy base the first state satisfies DataInv.
LEMMA DataInit ==
    ASSUME ~LegacyBase, Init
    PROVE  DataInv
BY DEF Init, NoProcess, DataInv, SinkCoupled, DrainCoupled, CommittedDurable,
       NoBase, SweptInOrder, ShasDurable, Running

\* The checkpoint of `from-kzip --resume` never names a CU whose rows are not on
\* disk, for any number of workers, kills, restarts, failed writes and skipped
\* sinks, provided no base of the older snapshot format is present.
THEOREM CheckpointDurable ==
    ASSUME ~LegacyBase
    PROVE  Spec => []ShasDurable
<1>1. Init => ControlInv /\ DataInv
  BY ControlInit, DataInit
<1>2. ControlInv /\ DataInv /\ [Next]_vars => ControlInv' /\ DataInv'
  BY ControlStep, DataStep
<1>3. DataInv => ShasDurable
  BY DEF DataInv
<1> QED BY <1>1, <1>2, <1>3, PTL DEF Spec

-----------------------------------------------------------------------------
(* Conservation: a folded CU reaches the output.                           *)

\* Where the rows of a CU are changes only in these steps.
LEMMA HeldFrame ==
    ASSUME Next
    PROVE  \/ UNCHANGED <<folded, builder, accBuilder>>
           \/ \E w \in Worker : \/ FoldSink(w) \/ DrainSink(w)
                                \/ WriteShard(w) \/ WriteShardFails(w)
           \/ \E resume \in BOOLEAN : Start(resume)
           \/ Exit
BY DEF sinks, snap, Next, WorkerStep, MainStep, OperatorStep, OpenKzip, Enter, Check,
       BackOut, Unpark, Index, LockSink, Count, Trigger, TryLock, Recheck,
       FlagLands, Quiesce, Settle, WriteShas, NextCU, JoinOk, JoinErr,
       ScopeReturns, FinalMerge, Promote, SweepBase, SweepShas, SweepShards,
       ResumeRefused, Discard, ReplaceKzip, Crash, HeartbeatReturns

\* Every case of HeldFrame keeps the rows of a folded CU somewhere.
LEMMA NothingDroppedStep ==
    ASSUME ControlInv, DataInv, NothingDropped, Next
    PROVE  NothingDropped'
<1> DEFINE InSinks == UNION {builder[w] : w \in Worker}
           Held == accBuilder \cup InSinks \cup Durable
<1> SUFFICES ASSUME main' \in {"join", "collapse", "merge"},
                    \A w \in Worker : pc'[w] # "failed"
             PROVE  folded' \subseteq Held'
  BY DEF NothingDropped
<1>0. DataInv'
  BY DataStep
<1>1. ASSUME NEW resume \in BOOLEAN, Start(resume)
      PROVE  folded' \subseteq Held'
  <2>1. Durable' = Durable
    BY <1>1 DEF Start, Durable, ShardCUs, disk
  <2>2. folded' \subseteq Durable
    BY <1>1 DEF Start, DataInv, ShasDurable
  <2> QED BY <2>1, <2>2
<1>2. CASE Exit
  BY <1>2 DEF Exit
<1>3. ASSUME main \in {"join", "collapse", "merge"},
             \A w \in Worker : pc[w] # "failed",
             ~Exit
      PROVE  folded' \subseteq Held'
  <2>1. folded \subseteq Held
    BY <1>3 DEF NothingDropped
  <2>2. Durable \subseteq Durable'
    BY <1>3, DurableGrows DEF DataInv
  <2>3. CASE UNCHANGED <<folded, builder, accBuilder>>
    BY <2>1, <2>2, <2>3
  <2>4. ASSUME NEW w \in Worker, FoldSink(w)
        PROVE  folded' \subseteq Held'
    <3>1. InSinks \cup {cur[w]} \subseteq InSinks'
      BY <2>4 DEF FoldSink, ControlInv, TypeOK, SinksType
    <3> QED BY <2>1, <2>2, <2>4, <3>1 DEF FoldSink, snap
  <2>5. ASSUME NEW w \in Worker, DrainSink(w)
        PROVE  folded' \subseteq Held'
    <3>1. scan \in Worker
      BY <2>5, Constants DEF DrainSink, ControlInv, TypeOK, SnapType, Worker
    <3>2. InSinks \cup accBuilder \subseteq InSinks' \cup accBuilder'
      BY <2>5, <3>1 DEF DrainSink, ControlInv, TypeOK, SinksType, sinks
    <3> QED BY <2>1, <2>2, <2>5, <3>2 DEF DrainSink
  <2>6. ASSUME NEW w \in Worker, WriteShard(w)
        PROVE  folded' \subseteq Held'
    <3>1. [idx |-> slot, cus |-> accBuilder] \in shards'
      BY <2>6 DEF WriteShard
    <3>2. accBuilder \subseteq ShardCUs(shards')
      BY <3>1 DEF ShardCUs
    <3>3. Durable' = ShardCUs(shards')
      BY <1>0 DEF DataInv, NoBase, Durable
    <3>4. InSinks' = InSinks /\ folded' = folded
      BY <2>6 DEF WriteShard, sinks
    <3> QED BY <2>1, <2>2, <3>2, <3>3, <3>4
  <2>7. ASSUME NEW w \in Worker, WriteShardFails(w)
        PROVE  folded' \subseteq Held'
    BY <2>7 DEF WriteShardFails, Goto, ControlInv, TypeOK, WorkersType
  <2>8. ASSUME NEW resume \in BOOLEAN, Start(resume)
        PROVE  folded' \subseteq Held'
    BY <1>1, <2>8
  <2> QED BY HeldFrame, <1>3, <2>3, <2>4, <2>5, <2>6, <2>7, <2>8
<1>4. \/ main \in {"join", "collapse", "merge"} /\ \A w \in Worker : pc[w] # "failed"
      \/ \E resume \in BOOLEAN : Start(resume)
      \/ Exit
  BY DEF Next, WorkerStep, MainStep, OperatorStep, OpenKzip, Enter, Check,
         BackOut, Unpark, Index, LockSink, FoldSink, Count, Trigger, TryLock,
         Recheck, FlagLands, Quiesce, DrainSink, Settle, WriteShard,
         WriteShardFails, WriteShas, NextCU, JoinOk, JoinErr, ScopeReturns,
         FinalMerge, Promote, SweepBase, SweepShas, SweepShards,
         ResumeRefused, Discard, ReplaceKzip, Crash, HeartbeatReturns, Goto,
         ControlInv, TypeOK, WorkersType, WorkersJoined, Running, process,
         local
<1> QED BY <1>1, <1>2, <1>3, <1>4

\* The final merge reads everything the run holds ...
LEMMA MergedCompleteStep ==
    ASSUME ControlInv, Conservation, Next
    PROVE  MergedComplete'
<1> SUFFICES ASSUME main' = "promote"
             PROVE  folded' \subseteq merging'
  BY DEF MergedComplete
<1>1. CASE FinalMerge
  <2>1. \A w \in Worker : pc[w] # "failed"
    BY <1>1 DEF FinalMerge, ControlInv, WorkersJoined, Running
  <2> QED BY <1>1, <2>1 DEF FinalMerge, MergeInputs, Conservation, NothingDropped
<1>2. CASE main = "promote" /\ UNCHANGED <<folded, merging>>
  BY <1>2 DEF Conservation, MergedComplete
<1>3. FinalMerge \/ (main = "promote" /\ UNCHANGED <<folded, merging>>)
  BY DEF Next, WorkerStep, MainStep, OperatorStep, OpenKzip, Enter, Check,
         BackOut, Unpark, Index, LockSink, FoldSink, Count, Trigger, TryLock,
         Recheck, FlagLands, Quiesce, DrainSink, Settle, WriteShard,
         WriteShardFails, WriteShas, NextCU, JoinOk, JoinErr, ScopeReturns,
         Promote, SweepBase, SweepShas, SweepShards, Start, ResumeRefused,
         Discard, ReplaceKzip, Crash, HeartbeatReturns, Exit, ControlInv,
         WorkersJoined, Running, process
<1> QED BY <1>1, <1>2, <1>3

\* ... and the promote publishes what the merge wrote.
LEMMA OutputCompleteStep ==
    ASSUME ControlInv, Conservation, Next
    PROVE  OutputComplete'
<1> SUFFICES ASSUME main' \in {"sweepBase", "sweepShas", "sweepShards"}
             PROVE  folded' \subseteq out'
  BY DEF OutputComplete, Swept
<1>1. CASE Promote
  BY <1>1 DEF Promote, Conservation, MergedComplete
<1>2. CASE /\ main \in {"sweepBase", "sweepShas", "sweepShards"}
           /\ UNCHANGED <<folded, out>>
  BY <1>2 DEF Conservation, OutputComplete, Swept
<1>3. Promote \/ UNCHANGED out
  BY DiskFrame DEF disk, WriteShard, WriteShas, SweepBase, SweepShas, SweepShards,
                   Discard
<1>4. \/ Promote
      \/ main \in {"sweepBase", "sweepShas", "sweepShards"} /\ UNCHANGED folded
  <2>1. ASSUME NEW w \in Worker, WorkerStep(w)
        PROVE  FALSE
    <3>1. main' = main
      BY <2>1 DEF WorkerStep, process, OpenKzip, Enter, Check, BackOut,
                  Unpark, Index, LockSink, FoldSink, Count, Trigger, TryLock,
                  Recheck, FlagLands, Quiesce, DrainSink, Settle, WriteShard,
                  WriteShardFails, WriteShas, NextCU
    <3>2. pc[w] # "exit"
      BY <2>1 DEF WorkerStep, OpenKzip, Enter, Check, BackOut, Unpark, Index,
                  LockSink, FoldSink, Count, Trigger, TryLock, Recheck,
                  FlagLands, Quiesce, DrainSink, Settle, WriteShard,
                  WriteShardFails, WriteShas, NextCU
    <3> QED BY <3>1, <3>2 DEF ControlInv, WorkersJoined, Running
  <2>2. CASE MainStep
    BY <2>2 DEF MainStep, JoinOk, JoinErr, ScopeReturns, FinalMerge,
                SweepBase, SweepShas, SweepShards, Exit, process
  <2>3. CASE OperatorStep
    BY <2>3 DEF OperatorStep, Start, ResumeRefused, Discard, ReplaceKzip,
                process
  <2>4. CASE Crash \/ HeartbeatReturns
    BY <2>4 DEF Crash, HeartbeatReturns, Exit
  <2> QED BY <2>1, <2>2, <2>3, <2>4 DEF Next
<1> QED BY <1>1, <1>2, <1>3, <1>4

\* Conservation is inductive relative to ControlInv and DataInv.
LEMMA ConservationStep ==
    ASSUME ControlInv, DataInv, Conservation, [Next]_vars
    PROVE  Conservation'
<1>1. CASE Next
  BY <1>1, NothingDroppedStep, MergedCompleteStep, OutputCompleteStep
     DEF Conservation
<1>2. CASE UNCHANGED vars
  BY <1>2 DEF Conservation, NothingDropped, MergedComplete, OutputComplete, Swept,
              Durable, ShardCUs, vars, disk, process, sinks, snap, local
<1> QED BY <1>1, <1>2

\* The three invariants hold together in every reachable state.
LEMMA AllInvariants ==
    ASSUME ~LegacyBase
    PROVE  Spec => [](ControlInv /\ DataInv /\ Conservation)
<1>1. Init => ControlInv /\ DataInv /\ Conservation
  <2>1. Init => Conservation
    BY DEF Init, NoProcess, Conservation, NothingDropped, MergedComplete,
           OutputComplete, Swept
  <2> QED BY <2>1, ControlInit, DataInit
<1>2. ControlInv /\ DataInv /\ Conservation /\ [Next]_vars
         => ControlInv' /\ DataInv' /\ Conservation'
  BY ControlStep, DataStep, ConservationStep
<1> QED BY <1>1, <1>2, PTL DEF Spec

\* An index that `from-kzip` publishes holds every CU the run folded and every CU
\* its --resume checkpoint let it skip, for any number of workers, kills and
\* restarts, provided no base of the older snapshot format is present.
THEOREM PublishedComplete ==
    ASSUME ~LegacyBase
    PROVE  Spec => []OutputComplete
<1>1. Conservation => OutputComplete
  BY DEF Conservation
<1> QED BY <1>1, AllInvariants, PTL

\* Until a worker fails, no interleaving of folds, drains and shard writes drops
\* the rows of a folded CU.
THEOREM FoldedRowsHeld ==
    ASSUME ~LegacyBase
    PROVE  Spec => []NothingDropped
<1>1. Conservation => NothingDropped
  BY DEF Conservation
<1> QED BY <1>1, AllInvariants, PTL

-----------------------------------------------------------------------------
(* The refinement.  Accounted and CheckpointKept are shown inductive       *)
(* first; then each step is mapped to a step of ResumableBuild or to a     *)
(* stutter, with what is shown above of the merge and the sweep.           *)

\* Only a worker between its start and its end takes steps, so the program
\* is then running, and no such step ends it.
LEMMA WorkerRuns ==
    ASSUME ControlInv, NEW w \in Worker, WorkerStep(w)
    PROVE  main # "off" /\ UNCHANGED <<main, fresh>>
<1>1. UNCHANGED <<main, fresh>>
  BY DEF WorkerStep, process, OpenKzip, Enter, Check, BackOut, Unpark, Index,
         LockSink, FoldSink, Count, Trigger, TryLock, Recheck, FlagLands, Quiesce,
         DrainSink, Settle, WriteShard, WriteShardFails, WriteShas, NextCU
<1>2. pc[w] # "exit"
  BY DEF WorkerStep, OpenKzip, Enter, Check, BackOut, Unpark, Index,
         LockSink, FoldSink, Count, Trigger, TryLock, Recheck, FlagLands, Quiesce,
         DrainSink, Settle, WriteShard, WriteShardFails, WriteShas, NextCU
<1> QED BY <1>1, <1>2 DEF ControlInv, WorkersJoined, Running

\* What a run has accounted for changes in a fold, at its start and its end.
LEMMA FoldedFrame ==
    ASSUME Next
    PROVE  \/ UNCHANGED folded
           \/ \E w \in Worker : FoldSink(w)
           \/ \E resume \in BOOLEAN : Start(resume)
           \/ Exit
BY HeldFrame DEF DrainSink, WriteShard, WriteShardFails

\* The checkpoint and the output change in these steps only.
LEMMA CheckpointFrame ==
    ASSUME Next
    PROVE  \/ UNCHANGED <<shas, shasExists, out>>
           \/ \E w \in Worker : WriteShas(w)
           \/ Promote \/ SweepShas \/ Discard
BY DiskFrame DEF disk, WriteShard, SweepBase, SweepShards

\* Folds, drains and commits pass shas of accounted CUs on.
LEMMA AccountedStep ==
    ASSUME ControlInv, Accounted, Next
    PROVE  Accounted'
<1> USE DEF Accounted
<1>0. TypeOK
  BY DEF ControlInv
<1>1. CASE Exit
  BY <1>1 DEF Exit
<1>2. ASSUME NEW w \in Worker, FoldSink(w)
      PROVE  Accounted'
  <2>1. main' # "off"
    BY <1>2, WorkerRuns DEF WorkerStep
  <2> QED BY <1>0, <1>2, <2>1 DEF FoldSink, snap, TypeOK, SinksType
<1>3. ASSUME NEW w \in Worker, DrainSink(w)
      PROVE  Accounted'
  <2>1. scan \in Worker
    BY <1>0, <1>3, Constants DEF DrainSink, TypeOK, SnapType, Worker
  <2>2. UNCHANGED <<main, committedShas, folded>>
    BY <1>3 DEF DrainSink, shared, process
  <2>3. CASE UNCHANGED <<pendingShas, drainedShas>>
    BY <2>2, <2>3
  <2>4. CASE /\ drainedShas' = drainedShas \cup pendingShas[scan]
             /\ pendingShas' = [pendingShas EXCEPT ![scan] = {}]
    BY <1>0, <2>1, <2>2, <2>4 DEF TypeOK, SinksType
  <2> QED BY <1>3, <2>3, <2>4 DEF DrainSink, sinks
<1>4. ASSUME NEW w \in Worker, WriteShas(w)
      PROVE  Accounted'
  <2>1. /\ committedShas' = committedShas \cup drainedShas
        /\ drainedShas' = {} /\ UNCHANGED <<main, pendingShas, folded>>
    BY <1>4 DEF WriteShas, sinks, process
  <2> QED BY <2>1
<1>5. ASSUME NEW resume \in BOOLEAN, Start(resume)
      PROVE  Accounted'
  BY <1>5 DEF Start, sinks, snap
<1>6. ASSUME NEW w \in Worker, Quiesce(w)
      PROVE  Accounted'
  <2>1. drainedShas' = {} /\ UNCHANGED <<main, pendingShas, committedShas, folded>>
    BY <1>6 DEF Quiesce, sinks, shared, process
  <2> QED BY <2>1
<1>7. \/ UNCHANGED <<pendingShas, drainedShas, committedShas, folded>>
      \/ \E w \in Worker : FoldSink(w) \/ DrainSink(w) \/ WriteShas(w) \/ Quiesce(w)
      \/ \E resume \in BOOLEAN : Start(resume)
      \/ Exit
  BY ZenonT(60)
     DEF sinks, snap, shared, Next, WorkerStep, MainStep, OperatorStep, OpenKzip,
         Enter, Check, BackOut, Unpark, Index, LockSink, Count, Trigger, TryLock,
         Recheck, FlagLands, Settle, WriteShard, WriteShardFails, NextCU, JoinOk,
         JoinErr, ScopeReturns, FinalMerge, Promote, SweepBase, SweepShas,
         SweepShards, ResumeRefused, Discard, ReplaceKzip, Crash, HeartbeatReturns
<1>8. CASE UNCHANGED <<pendingShas, drainedShas, committedShas, folded>>
  <2>1. main' = "off" => main = "off" \/ Exit
    BY WorkerRuns DEF Next, MainStep, OperatorStep, JoinOk, JoinErr, ScopeReturns, FinalMerge,
           Promote, SweepBase, SweepShas, SweepShards, Start, ResumeRefused, Discard,
           ReplaceKzip, Crash, HeartbeatReturns, process
  <2> QED BY <1>1, <1>8, <2>1
<1> QED BY <1>1, <1>2, <1>3, <1>4, <1>5, <1>6, <1>7, <1>8

\* A resumed run starts from all of the checkpoint, commits on top of it, and
\* no one else writes it.
LEMMA CheckpointKeptStep ==
    ASSUME ControlInv, CheckpointKept, Next
    PROVE  CheckpointKept'
<1>1. (~shasExists => shas = {})'
  <2>1. CASE UNCHANGED <<shas, shasExists, out>>
    BY <2>1 DEF CheckpointKept
  <2>2. ASSUME NEW w \in Worker, WriteShas(w)
        PROVE  (~shasExists => shas = {})'
    BY <2>2 DEF WriteShas, CheckpointKept
  <2>3. CASE Promote
    BY <2>3 DEF Promote, CheckpointKept
  <2>4. CASE SweepShas \/ Discard
    BY <2>4 DEF SweepShas, Discard
  <2> QED BY <2>1, <2>2, <2>3, <2>4, CheckpointFrame
<1>2. ASSUME main' # "off", ~fresh'
      PROVE  shas' \subseteq committedShas'
  <2>1. ASSUME NEW w \in Worker, WorkerStep(w)
        PROVE  shas' \subseteq committedShas'
    <3>1. main # "off" /\ ~fresh
      BY <1>2, <2>1, WorkerRuns
    <3>2. CASE WriteShas(w)
      BY <3>1, <3>2 DEF WriteShas, ShasToWrite, CheckpointKept
    <3>3. CASE UNCHANGED <<shas, committedShas>>
      BY <3>1, <3>3 DEF CheckpointKept
    <3>4. WriteShas(w) \/ UNCHANGED <<shas, committedShas>>
      BY <2>1 DEF WorkerStep, disk, shared, OpenKzip, Enter, Check, BackOut,
                  Unpark, Index, LockSink, FoldSink, Count, Trigger, TryLock,
                  Recheck, FlagLands, Quiesce, DrainSink, Settle, WriteShard,
                  WriteShardFails, NextCU
    <3> QED BY <3>2, <3>3, <3>4
  <2>2. ASSUME NEW resume \in BOOLEAN, Start(resume)
        PROVE  shas' \subseteq committedShas'
    BY <1>2, <2>2 DEF Start, disk, CheckpointKept
  <2>3. CASE Exit
    BY <1>2, <2>3 DEF Exit
  <2>4. CASE SweepShas
    BY <2>4 DEF SweepShas
  <2>5. CASE main # "off" /\ UNCHANGED <<fresh, shas, committedShas>>
    BY <1>2, <2>5 DEF CheckpointKept
  <2>6. CASE MainStep
    BY <2>3, <2>4, <2>5, <2>6
       DEF MainStep, JoinOk, JoinErr, ScopeReturns, FinalMerge, Promote, SweepBase,
           SweepShards, disk, shared, process
  <2>7. CASE OperatorStep
    BY <1>2, <2>2, <2>7 DEF OperatorStep, ResumeRefused, Discard, ReplaceKzip, process
  <2>8. CASE Crash
    BY <2>3, <2>8 DEF Crash
  <2>9. CASE HeartbeatReturns
    BY <1>2, <2>5, <2>9 DEF HeartbeatReturns, disk, shared
  <2> QED BY <2>1, <2>6, <2>7, <2>8, <2>9 DEF Next
<1> QED BY <1>1, <1>2 DEF CheckpointKept

-----------------------------------------------------------------------------
(* Steps of FromKzip as steps of ResumableBuild.                           *)

BuildStep == [Build!Next]_(Build!bvars)

\* Everything ResumableBuild sees is unchanged.
LEMMA Stutter ==
    ASSUME UNCHANGED <<main, fresh, folded, shas, out>>
    PROVE  BuildStep
BY DEF BuildStep, Build!bvars

\* Every end of a run, a kill included, is a Stop.
LEMMA EndIsStop ==
    ASSUME main # "off", Exit, UNCHANGED <<shas, out>>
    PROVE  BuildStep
<1>1. main' = "off" /\ folded' = {}
  BY DEF Exit
<1>2. Build!Stop
  BY <1>1 DEF Build!Stop
<1> QED BY <1>2 DEF BuildStep, Build!Next

\* A worker's step is an Account (FoldSink), a Commit (WriteShas) or a stutter.
LEMMA WorkerRefines ==
    ASSUME ControlInv, Accounted, CheckpointKept, NEW w \in Worker, WorkerStep(w)
    PROVE  BuildStep
<1>1. main # "off" /\ UNCHANGED <<main, fresh>>
  BY WorkerRuns
<1>2. CASE FoldSink(w)
  <2>1. cur[w] \in CUs
    BY <1>2 DEF FoldSink, ControlInv, HasCU, ActivePcs, BusyPcs
  <2>2. folded' = folded \cup {cur[w]} /\ UNCHANGED <<shas, out>>
    BY <1>2 DEF FoldSink, disk
  <2>3. Build!Account
    BY <1>1, <2>1, <2>2 DEF Build!Account
  <2> QED BY <2>3 DEF BuildStep, Build!Next
<1>3. CASE WriteShas(w)
  <2>1. UNCHANGED <<folded, out>>
    BY <1>3 DEF WriteShas
  <2>2. CASE UNCHANGED shas
    BY <1>1, <2>1, <2>2, Stutter
  <2>3. CASE shas' = committedShas \cup drainedShas
    <3>1. shas' \subseteq folded
      BY <2>3 DEF Accounted
    <3>2. ~fresh => shas \subseteq shas'
      BY <1>1, <2>3 DEF CheckpointKept
    <3>3. Build!Commit
      BY <1>1, <2>1, <3>1, <3>2 DEF Build!Commit
    <3> QED BY <3>3 DEF BuildStep, Build!Next
  <2> QED BY <1>3, <2>2, <2>3 DEF WriteShas, ShasToWrite
<1>4. FoldSink(w) \/ WriteShas(w) \/ UNCHANGED <<folded, shas, out>>
  BY DEF WorkerStep, disk, OpenKzip, Enter, Check, BackOut, Unpark, Index, LockSink,
         Count, Trigger, TryLock, Recheck, FlagLands, Quiesce, DrainSink, Settle,
         WriteShard, WriteShardFails, NextCU
<1> QED BY <1>1, <1>2, <1>3, <1>4, Stutter

\* The main thread publishes a merge that holds everything accounted for and
\* drops the checkpoint only after that.
LEMMA MainRefines ==
    ASSUME ControlInv, Conservation, MainStep
    PROVE  BuildStep
<1>1. CASE Promote
  <2>1. main # "off" /\ main' # "off" /\ UNCHANGED <<fresh, folded, shas>>
    BY <1>1 DEF Promote
  <2>2. out' \in SUBSET CUs /\ folded \subseteq out'
    BY <1>1 DEF Promote, Conservation, MergedComplete, ControlInv, TypeOK, ProcessType
  <2>3. Build!Publish
    BY <2>1, <2>2 DEF Build!Publish
  <2> QED BY <2>3 DEF BuildStep, Build!Next
<1>2. CASE SweepShas
  <2>1. main # "off" /\ main' # "off" /\ UNCHANGED <<fresh, folded, out>> /\ shas' = {}
    BY <1>2 DEF SweepShas
  <2>2. folded \subseteq out
    BY <1>2 DEF SweepShas, Conservation, OutputComplete, Swept
  <2>3. Build!Clear
    BY <2>1, <2>2 DEF Build!Clear
  <2> QED BY <2>3 DEF BuildStep, Build!Next
<1>3. CASE main # "off" /\ Exit /\ UNCHANGED <<shas, out>>
  BY <1>3, EndIsStop
<1>4. CASE /\ main # "off" /\ main' # "off"
           /\ UNCHANGED <<fresh, folded, shas, out>>
  BY <1>4 DEF BuildStep, Build!bvars
<1>5. CASE ScopeReturns
  BY <1>3, <1>4, <1>5 DEF ScopeReturns, disk
<1>6. CASE SweepShards
  BY <1>3, <1>4, <1>6 DEF SweepShards, process
<1>7. CASE JoinOk \/ JoinErr \/ FinalMerge \/ SweepBase
  BY <1>4, <1>7 DEF JoinOk, JoinErr, FinalMerge, SweepBase, disk
<1> QED BY <1>1, <1>2, <1>5, <1>6, <1>7 DEF MainStep

\* The operator begins runs and may throw the checkpoint away.
LEMMA OperatorRefines ==
    ASSUME CheckpointKept, OperatorStep
    PROVE  BuildStep
<1>1. ASSUME NEW resume \in BOOLEAN, Start(resume)
      PROVE  BuildStep
  <2>1. main = "off" /\ main' = "join" /\ UNCHANGED <<shas, out>>
    BY <1>1 DEF Start, disk
  <2>2. fresh' = ~resume
    BY <1>1 DEF Start
  <2>3. folded' = IF resume THEN shas ELSE {}
    BY <1>1 DEF Start, CheckpointKept
  <2>4. Build!Begin
    BY <2>1, <2>2, <2>3 DEF Build!Begin
  <2> QED BY <2>4 DEF BuildStep, Build!Next
<1>2. CASE ResumeRefused \/ ReplaceKzip
  BY <1>2, Stutter DEF ResumeRefused, ReplaceKzip, disk, process
<1>3. CASE Discard
  <2>1. main = "off" /\ shas' = {} /\ UNCHANGED <<main, fresh, folded, out>>
    BY <1>3 DEF Discard, process
  <2>2. Build!Abandon
    BY <2>1 DEF Build!Abandon
  <2> QED BY <2>2 DEF BuildStep, Build!Next
<1> QED BY <1>1, <1>2, <1>3 DEF OperatorStep

RefineInv == ControlInv /\ DataInv /\ Conservation /\ Accounted /\ CheckpointKept

\* Every step of FromKzip is a step of ResumableBuild or a stutter.
LEMMA StepRefines ==
    ASSUME RefineInv, [Next]_vars
    PROVE  BuildStep
<1> USE DEF RefineInv
<1>1. CASE UNCHANGED vars
  BY <1>1, Stutter DEF vars, disk, process
<1>2. ASSUME NEW w \in Worker, WorkerStep(w)
      PROVE  BuildStep
  BY <1>2, WorkerRefines
<1>3. CASE HeartbeatReturns
  BY <1>3, Stutter DEF HeartbeatReturns, disk
<1>4. CASE Crash
  BY <1>4, EndIsStop DEF Crash, disk
<1> QED BY <1>1, <1>2, <1>3, <1>4, MainRefines, OperatorRefines DEF Next

\* RefineInv holds in every reachable state.
LEMMA RefineInvariant ==
    ASSUME ~LegacyBase
    PROVE  Spec => []RefineInv
<1>1. Init => Accounted /\ CheckpointKept
  BY DEF Init, NoProcess, Accounted, CheckpointKept
<1>2. ControlInv /\ DataInv /\ Conservation /\ Accounted /\ CheckpointKept
         /\ [Next]_vars => Accounted' /\ CheckpointKept'
  <2>1. ASSUME ControlInv, Accounted, CheckpointKept, Next
        PROVE  Accounted' /\ CheckpointKept'
    BY <2>1, AccountedStep, CheckpointKeptStep DEF ControlInv
  <2>2. ASSUME Accounted, CheckpointKept, UNCHANGED vars
        PROVE  Accounted' /\ CheckpointKept'
    BY <2>2 DEF Accounted, CheckpointKept, vars, disk, process, sinks, shared, snap
  <2> QED BY <2>1, <2>2
<1> QED BY <1>1, <1>2, AllInvariants, PTL DEF Spec, RefineInv

\* `from-kzip` keeps the promise of a resumable build: whatever is buffered,
\* drained, killed, resumed or merged, the shas file names accounted CUs only, a
\* resumed run takes none back, the published index holds everything the run
\* accounted for, and the checkpoint is dropped only after that.
THEOREM Refinement ==
    ASSUME ~LegacyBase
    PROVE  Spec => RefinesBuild
<1>1. Init => Build!Init
  BY KzipsAssumption DEF Init, NoProcess, Build!Init
<1>2. RefineInv /\ [Next]_vars => [Build!Next]_(Build!bvars)
  BY StepRefines DEF BuildStep
<1> QED BY <1>1, <1>2, RefineInvariant, PTL DEF Spec, RefinesBuild, Build!Spec

\* A resumed run never removes a CU from the checkpoint it was started from
\* while its workers run.
THEOREM CheckpointNeverShrinks ==
    ASSUME ~LegacyBase
    PROVE  Spec => CheckpointGrows
<1>1. RefineInv /\ [Next]_vars
         => [(main = "join" /\ ~fresh) => shas \subseteq shas']_vars
  <2> SUFFICES ASSUME RefineInv, Next, main = "join", ~fresh
               PROVE  shas \subseteq shas'
    OBVIOUS
  <2>1. ASSUME NEW w \in Worker, WriteShas(w)
        PROVE  shas \subseteq shas'
    BY <2>1 DEF WriteShas, ShasToWrite, RefineInv, CheckpointKept
  <2>2. CASE Promote \/ SweepShas \/ Discard
    BY <2>2 DEF Promote, SweepShas, Discard
  <2> QED BY <2>1, <2>2, CheckpointFrame
<1> QED BY <1>1, RefineInvariant, PTL DEF Spec, CheckpointGrows

-----------------------------------------------------------------------------
(* The snapshot gate and the memory gauge.  active_cus counts exactly the  *)
(* workers past the gate (CountExact): at 1, the snapshotter is the only   *)
(* one.  From its first drained sink on the flag is visible (FlagUp), and  *)
(* nobody gets past the check.  What may happen between the two, when the  *)
(* raised flag lands late, is the counterexample to QuiesceSound.  The     *)
(* gauge is a sum over the sinks, of which a step changes at most one      *)
(* summand.                                                                *)

Active == {w \in Worker : pc[w] \in ActivePcs}

\* active_cus counts the workers between ActiveGuard's increment and its drop.
CountExact == activeCus = Cardinality(Active)

\* While a snapshot drains or writes, its flag is visible to every core.
FlagUp == Draining => snapActive

-----------------------------------------------------------------------------
(* The counter.                                                            *)

\* Counting the active workers makes sense: there are finitely many.
LEMMA ActiveFinite ==
    /\ IsFiniteSet(Worker)
    /\ IsFiniteSet(Active) /\ Cardinality(Active) \in Nat
<1>1. IsFiniteSet(Worker)
  BY Constants, FS_Interval DEF Worker
<1>2. IsFiniteSet(Active)
  BY <1>1, FS_Subset DEF Active
<1> QED BY <1>1, <1>2, FS_CardinalityType

\* A worker that moves within the loop body, or outside it, leaves the count
\* alone.
LEMMA ActiveKept ==
    ASSUME NEW w \in Worker, NEW p, pc \in [Worker -> PcValues],
           pc' = [pc EXCEPT ![w] = p], p \in ActivePcs <=> pc[w] \in ActivePcs
    PROVE  Active' = Active
BY DEF Active

\* A worker that goes past the gate adds one ...
LEMMA ActiveAdded ==
    ASSUME NEW w \in Worker, NEW p \in ActivePcs, pc \in [Worker -> PcValues],
           pc' = [pc EXCEPT ![w] = p], pc[w] \notin ActivePcs
    PROVE  Cardinality(Active') = Cardinality(Active) + 1
<1>1. Active' = Active \cup {w} /\ w \notin Active
  BY DEF Active
<1> QED BY <1>1, ActiveFinite, FS_AddElement

\* ... and one that leaves takes one away.
LEMMA ActiveRemoved ==
    ASSUME NEW w \in Worker, NEW p \in PcValues \ ActivePcs,
           pc \in [Worker -> PcValues],
           pc' = [pc EXCEPT ![w] = p], pc[w] \in ActivePcs
    PROVE  Cardinality(Active') = Cardinality(Active) - 1
<1>1. Active' = Active \ {w} /\ w \in Active
  BY DEF Active
<1> QED BY <1>1, ActiveFinite, FS_RemoveElement

\* Every step keeps active_cus equal to the number of active workers.
LEMMA CountExactStep ==
    ASSUME ControlInv, CountExact, Next
    PROVE  CountExact'
<1> USE DEF CountExact
<1>0. pc \in [Worker -> PcValues]
  BY DEF ControlInv, TypeOK, WorkersType
<1>a. ActivePcs = {"check", "next", "index", "lock", "fold", "count", "trigger",
                   "trylock", "recheck", "quiesce", "drain", "write", "shas"}
  BY DEF ActivePcs, BusyPcs, SnapshotPcs
<1>b. activeCus \in Int
  BY DEF ControlInv, TypeOK, SharedType
<1>1. ASSUME NEW w \in Worker, WorkerStep(w)
      PROVE  CountExact'
  <2> USE <1>0, <1>a DEF Goto, gate
  <2>1. CASE OpenKzip(w)
    BY <2>1, ActiveKept DEF OpenKzip
  <2>2. CASE Enter(w)
    <3>1. CASE todo[w] = {}
      BY <2>2, <3>1, ActiveKept DEF Enter
    <3>2. CASE todo[w] # {}
      BY <2>2, <3>2, ActiveAdded DEF Enter
    <3> QED BY <3>1, <3>2
  <2>3. CASE Check(w)
    BY <2>3, ActiveKept DEF Check
  <2>4. CASE BackOut(w)
    <3>1. "park" \in PcValues \ ActivePcs
      BY DEF PcValues
    <3> QED BY <2>4, <3>1, ActiveRemoved DEF BackOut
  <2>5. CASE Unpark(w)
    BY <2>5, ActiveKept DEF Unpark
  <2>6. CASE Index(w)
    <3>1. PICK p \in {"next", "count", "lock"} : Goto(w, p)
      BY <2>6 DEF Index
    <3> QED BY <2>6, <3>1, ActiveKept DEF Index
  <2>7. CASE LockSink(w)
    BY <2>7, ActiveKept DEF LockSink
  <2>8. CASE FoldSink(w)
    BY <2>8, ActiveKept DEF FoldSink
  <2>9. CASE Count(w)
    BY <2>9, ActiveKept DEF Count
  <2>10. CASE Trigger(w)
    <3>1. PICK p \in {"trylock", "next"} : Goto(w, p)
      BY <2>10 DEF Trigger
    <3> QED BY <2>10, <3>1, ActiveKept DEF Trigger
  <2>11. CASE TryLock(w)
    <3>1. PICK p \in {"recheck", "next"} : Goto(w, p)
      BY <2>11 DEF TryLock
    <3> QED BY <2>11, <3>1, ActiveKept DEF TryLock
  <2>12. CASE Recheck(w)
    <3>1. PICK p \in {"quiesce", "next"} : Goto(w, p)
      BY <2>12 DEF Recheck
    <3> QED BY <2>12, <3>1, ActiveKept DEF Recheck
  <2>13. CASE FlagLands(w)
    BY <2>13 DEF FlagLands, local, Active
  <2>14. CASE Quiesce(w)
    BY <2>14, ActiveKept DEF Quiesce
  <2>15. CASE DrainSink(w)
    BY <2>15 DEF DrainSink, local, Active
  <2>16. CASE Settle(w)
    BY <2>16, ActiveKept DEF Settle
  <2>17. CASE WriteShard(w)
    BY <2>17, ActiveKept DEF WriteShard
  <2>18. CASE WriteShardFails(w)
    <3>1. "failed" \in PcValues \ ActivePcs
      BY DEF PcValues
    <3> QED BY <2>18, <3>1, ActiveRemoved DEF WriteShardFails
  <2>19. CASE WriteShas(w)
    BY <2>19, ActiveKept DEF WriteShas
  <2>20. CASE NextCU(w)
    <3>1. "gate" \in PcValues \ ActivePcs
      BY DEF PcValues
    <3> QED BY <2>20, <3>1, ActiveRemoved DEF NextCU
  <2> QED BY <1>1, <2>1, <2>2, <2>3, <2>4, <2>5, <2>6, <2>7, <2>8, <2>9,
             <2>10, <2>11, <2>12, <2>13, <2>14, <2>15, <2>16, <2>17, <2>18,
             <2>19, <2>20
            DEF WorkerStep
<1>2. CASE Exit
  <2>1. activeCus' = 0 /\ Active' = {}
    BY <1>2, <1>a DEF Exit, Active
  <2> QED BY <2>1, FS_EmptySet
<1>3. ASSUME NEW resume \in BOOLEAN, Start(resume)
      PROVE  CountExact'
  <2>1. Active = {}
    BY <1>3, <1>a DEF Start, ControlInv, WorkersJoined, Running, Active
  <2>2. Active' = {} /\ activeCus' = activeCus
    BY <1>3, <1>a DEF Start, Active, gate
  <2> QED BY <2>1, <2>2
<1>4. CASE ~Exit /\ (MainStep \/ Crash \/ HeartbeatReturns
                       \/ ResumeRefused \/ Discard \/ ReplaceKzip)
  <2>1. UNCHANGED <<pc, activeCus>>
    BY <1>4 DEF MainStep, JoinOk, JoinErr, ScopeReturns, FinalMerge, Promote,
       SweepBase, SweepShas, SweepShards, Crash, HeartbeatReturns,
       ResumeRefused, Discard, ReplaceKzip, local, gate
  <2> QED BY <2>1 DEF Active
<1> QED BY <1>1, <1>2, <1>3, <1>4 DEF Next, OperatorStep

-----------------------------------------------------------------------------
(* The flag and the wait.                                                  *)

\* A drain starts with the flag visible, and only the end of the snapshot
\* lowers it.
LEMMA FlagUpStep ==
    ASSUME ControlInv, FlagUp, Next
    PROVE  FlagUp'
<1> USE DEF FlagUp, Draining, SnapshotPcs, Goto, gate, local, snap, ControlInv,
            TypeOK, WorkersType, OneSnapshotter
<1>1. ASSUME NEW w \in Worker, WorkerStep(w)
      PROVE  FlagUp'
  <2>1. CASE Recheck(w)
    <3>1. ~Draining /\ scan' = scan
      BY <2>1 DEF Recheck
    <3>2. \A v \in Worker : pc'[v] \in {"drain", "write", "shas"}
                             => pc'[v] = pc[v]
      BY <2>1 DEF Recheck
    <3> QED BY <3>1, <3>2
  <2>2. CASE FlagLands(w)
    BY <2>2 DEF FlagLands
  <2>3. CASE WriteShardFails(w)
    BY <2>3 DEF WriteShardFails
  <2>4. CASE WriteShas(w)
    BY <2>4 DEF WriteShas
  <2>5. CASE Quiesce(w)
    BY <2>5 DEF Quiesce
  <2>6. CASE DrainSink(w)
    BY <2>6 DEF DrainSink
  <2>7. CASE Settle(w)
    <3>1. scan > 0
      BY <2>7, Constants DEF Settle
    <3> QED BY <2>7, <3>1 DEF Settle
  <2>8. CASE WriteShard(w)
    BY <2>8 DEF WriteShard
  <2>9. CASE \/ OpenKzip(w) \/ Enter(w) \/ Check(w) \/ BackOut(w) \/ Unpark(w)
             \/ Index(w) \/ LockSink(w) \/ FoldSink(w) \/ Count(w)
             \/ Trigger(w) \/ TryLock(w) \/ NextCU(w)
    BY <2>9 DEF OpenKzip, Enter, Check, BackOut, Unpark, Index, LockSink,
                FoldSink, Count, Trigger, TryLock, NextCU
  <2> QED BY <1>1, <2>1, <2>2, <2>3, <2>4, <2>5, <2>6, <2>7, <2>8, <2>9
          DEF WorkerStep
<1>2. CASE Exit
  BY <1>2 DEF Exit
<1>3. ASSUME NEW resume \in BOOLEAN, Start(resume)
      PROVE  FlagUp'
  BY <1>3 DEF Start
<1>4. CASE ~Exit /\ (MainStep \/ Crash \/ HeartbeatReturns
                       \/ ResumeRefused \/ Discard \/ ReplaceKzip)
  <2>1. UNCHANGED <<pc, snapActive, scan>>
    BY <1>4 DEF MainStep, JoinOk, JoinErr, ScopeReturns, FinalMerge, Promote,
       SweepBase, SweepShas, SweepShards, Crash, HeartbeatReturns,
       ResumeRefused, Discard, ReplaceKzip
  <2> QED BY <2>1
<1> QED BY <1>1, <1>2, <1>3, <1>4 DEF Next, OperatorStep

\* When the count is at most one, the worker that reads it is the only
\* active one.
LEMMA AloneAtOne ==
    ASSUME CountExact, Quiesced, NEW w \in Worker, pc[w] \in ActivePcs
    PROVE  \A v \in Worker : v # w => pc[v] \notin ActivePcs
<1> SUFFICES ASSUME NEW v \in Worker, v # w, pc[v] \in ActivePcs
             PROVE  FALSE
  OBVIOUS
<1>1. w \in Active /\ v \in Active
  BY DEF Active
<1>2. Cardinality(Active \ {w}) = Cardinality(Active) - 1
  BY <1>1, ActiveFinite, FS_RemoveElement
<1>3. IsFiniteSet(Active \ {w}) /\ Cardinality(Active \ {w}) \in Nat
  BY ActiveFinite, FS_RemoveElement, FS_CardinalityType
<1>4. Cardinality(Active \ {w}) = 0
  BY <1>2, <1>3, ActiveFinite DEF CountExact, Quiesced
<1>5. Active \ {w} = {}
  BY <1>3, <1>4, FS_EmptySet
<1> QED BY <1>1, <1>5

\* Only Check takes a worker past the gate, and Check finds the flag down.
LEMMA GateStep ==
    ASSUME ControlInv, FlagUp, Next, Draining
    PROVE  \A v \in Worker : pc[v] \notin BusyPcs => pc'[v] \notin BusyPcs
<1> USE DEF BusyPcs, Goto, local, ControlInv, TypeOK, WorkersType
<1> DEFINE Kept == \A v \in Worker : pc[v] \notin BusyPcs => pc'[v] \notin BusyPcs
<1>1. ASSUME NEW u \in Worker, WorkerStep(u)
      PROVE  Kept
  <2>1. ~Check(u)
    BY DEF Check, FlagUp
  <2>2. CASE \/ Index(u) \/ LockSink(u) \/ FoldSink(u) \/ Count(u) \/ Trigger(u)
             \/ TryLock(u) \/ Recheck(u)
    BY <2>2 DEF Index, LockSink, FoldSink, Count, Trigger, TryLock, Recheck
  <2>3. CASE \/ OpenKzip(u) \/ Enter(u) \/ BackOut(u) \/ Unpark(u) \/ NextCU(u)
    BY <2>3 DEF OpenKzip, Enter, BackOut, Unpark, NextCU
  <2>4. CASE \/ FlagLands(u) \/ Quiesce(u) \/ DrainSink(u) \/ Settle(u)
             \/ WriteShard(u) \/ WriteShardFails(u) \/ WriteShas(u)
    BY <2>4 DEF FlagLands, Quiesce, DrainSink, Settle, WriteShard,
                WriteShardFails, WriteShas
  <2> QED BY <1>1, <2>1, <2>2, <2>3, <2>4 DEF WorkerStep
<1>2. CASE Exit
  BY <1>2 DEF Exit
<1>3. ASSUME NEW resume \in BOOLEAN, Start(resume)
      PROVE  Kept
  BY <1>3 DEF Start
<1>4. CASE ~Exit /\ (MainStep \/ Crash \/ HeartbeatReturns
                       \/ ResumeRefused \/ Discard \/ ReplaceKzip)
  <2>1. UNCHANGED pc
    BY <1>4 DEF MainStep, JoinOk, JoinErr, ScopeReturns, FinalMerge, Promote,
       SweepBase, SweepShas, SweepShards, Crash, HeartbeatReturns,
       ResumeRefused, Discard, ReplaceKzip
  <2> QED BY <2>1
<1> QED BY <1>1, <1>2, <1>3, <1>4 DEF Next, OperatorStep

\* Only the end of the wait leads from it to the drain.
LEMMA WaitStep ==
    ASSUME ControlInv, CountExact, Next, NEW w \in Worker,
           pc[w] = "quiesce", pc'[w] = "drain", ~capped'
    PROVE  \A v \in Worker \ {w} : pc[v] \notin ActivePcs
<1> USE DEF Goto, local, ControlInv, TypeOK, WorkersType
<1>1. Quiesce(w)
  <2>1. ASSUME NEW u \in Worker, WorkerStep(u)
        PROVE  Quiesce(w)
    <3>1. CASE Quiesce(u)
      BY <3>1 DEF Quiesce
    <3>2. CASE \/ OpenKzip(u) \/ Enter(u) \/ Check(u) \/ BackOut(u) \/ Unpark(u)
               \/ Index(u) \/ LockSink(u) \/ FoldSink(u) \/ Count(u) \/ Trigger(u)
      BY <3>2 DEF OpenKzip, Enter, Check, BackOut, Unpark, Index, LockSink,
                  FoldSink, Count, Trigger
    <3>3. CASE \/ TryLock(u) \/ Recheck(u) \/ FlagLands(u) \/ DrainSink(u)
               \/ Settle(u) \/ WriteShard(u) \/ WriteShardFails(u)
               \/ WriteShas(u) \/ NextCU(u)
      BY <3>3 DEF TryLock, Recheck, FlagLands, DrainSink, Settle, WriteShard,
                  WriteShardFails, WriteShas, NextCU
    <3> QED BY <2>1, <3>1, <3>2, <3>3 DEF WorkerStep
  <2>2. CASE Exit
    BY <2>2 DEF Exit
  <2>3. ASSUME NEW resume \in BOOLEAN, Start(resume)
        PROVE  FALSE
    BY <2>3 DEF Start
  <2>4. CASE ~Exit /\ (MainStep \/ Crash \/ HeartbeatReturns
                         \/ ResumeRefused \/ Discard \/ ReplaceKzip)
    <3>1. UNCHANGED pc
      BY <2>4 DEF MainStep, JoinOk, JoinErr, ScopeReturns, FinalMerge, Promote,
         SweepBase, SweepShas, SweepShards, Crash, HeartbeatReturns,
         ResumeRefused, Discard, ReplaceKzip
    <3> QED BY <3>1
  <2> QED BY <2>1, <2>2, <2>3, <2>4 DEF Next, OperatorStep
<1>2. Quiesced
  BY <1>1 DEF Quiesce
<1>3. pc[w] \in ActivePcs
  BY DEF ActivePcs, SnapshotPcs
<1> QED BY <1>2, <1>3, AloneAtOne

\* The invariant both properties of the gate rest on.
LEMMA GateInvariant == Spec => [](ControlInv /\ CountExact /\ FlagUp)
<1> DEFINE Inv == ControlInv /\ CountExact /\ FlagUp
<1>1. Init => Inv
  <2> SUFFICES ASSUME Init PROVE Inv
    OBVIOUS
  <2>1. ControlInv
    BY ControlInit
  <2>2. activeCus = 0 /\ Active = {}
    BY DEF Init, NoProcess, Active, ActivePcs, BusyPcs, SnapshotPcs
  <2>3. CountExact
    BY <2>2, FS_EmptySet DEF CountExact
  <2>4. FlagUp
    BY DEF Init, NoProcess, FlagUp, Draining
  <2> QED BY <2>1, <2>3, <2>4
<1>2. Inv /\ [Next]_vars => Inv'
  <2> SUFFICES ASSUME Inv, [Next]_vars PROVE Inv'
    OBVIOUS
  <2>1. ControlInv'
    BY ControlStep
  <2>2. CASE Next
    BY <2>1, <2>2, CountExactStep, FlagUpStep
  <2>3. CASE UNCHANGED vars
    BY <2>1, <2>3 DEF vars, local, gate, snap, CountExact, Active, FlagUp, Draining
  <2> QED BY <2>2, <2>3
<1> QED BY <1>1, <1>2, PTL DEF Spec

\* When the quiesce wait ends below its cap, the snapshotter is alone between
\* increment and drop: whatever backed out, went on with `continue` or
\* returned an error before, and for any number of workers.
THEOREM WaitIsExact == Spec => WaitSeesEveryone
<1>1. ControlInv /\ CountExact /\ FlagUp /\ [Next]_vars
        => [\A w \in Worker :
              (pc[w] = "quiesce" /\ pc'[w] = "drain" /\ ~capped')
                  => \A v \in Worker \ {w} : pc[v] \notin ActivePcs]_vars
  BY WaitStep
<1> QED BY <1>1, GateInvariant, PTL DEF Spec, WaitSeesEveryone

\* Nobody gets past the gate between the first drained sink and the lowering
\* of the flag, however late the flag became visible and however the wait
\* ended.
THEOREM GateIsKept == Spec => GateHolds
<1>1. ControlInv /\ CountExact /\ FlagUp /\ [Next]_vars
        => [Draining /\ Draining'
              => \A v \in Worker : pc[v] \notin BusyPcs => pc'[v] \notin BusyPcs]_vars
  BY GateStep
<1> QED BY <1>1, GateInvariant, PTL DEF Spec, GateHolds

-----------------------------------------------------------------------------
(* The gauge.                                                              *)

\* What the running drain has taken and not yet subtracted.
InDrain == IF \E w \in Worker : pc[w] = "drain" THEN drainedRows ELSE 0

\* GaugeExact in terms of Total, whose laws Induction states.
GaugeTotal == deltaRows = Total(rows, Worker) + InDrain

\* GaugeExact sums the same rows.
LEMMA GaugeIsTotal == GaugeExact <=> GaugeTotal
BY Zenon DEF GaugeExact, GaugeTotal, Total, InDrain

\* The sum of the sinks is a number.
LEMMA TotalRowsNat ==
    ASSUME ControlInv
    PROVE  Total(rows, Worker) \in Nat /\ InDrain \in Nat /\ deltaRows \in Int
<1>1. Total(rows, Worker) \in Nat
  BY ActiveFinite, TotalNat DEF ControlInv, TypeOK, SinksType
<1> QED BY <1>1 DEF InDrain, ControlInv, TypeOK, SnapType, SharedType

\* Changing one sink's rows changes the sum by the difference.
LEMMA OneSinkChanges ==
    ASSUME ControlInv, NEW v \in Worker, NEW n \in Nat,
           rows' = [rows EXCEPT ![v] = n]
    PROVE  Total(rows', Worker) = Total(rows, Worker) + n - rows[v]
<1> DEFINE g == [rows EXCEPT ![v] = n]
<1>1. rows \in [Worker -> Int] /\ g \in [Worker -> Int] /\ g[v] = n
  BY DEF ControlInv, TypeOK, SinksType
<1>2. \A x \in Worker \ {v} : g[x] = rows[x]
  BY DEF ControlInv, TypeOK, SinksType
<1> HIDE DEF g
<1>3. Total(g, Worker) = Total(rows, Worker) + g[v] - rows[v]
  BY <1>1, <1>2, ActiveFinite, TotalUpdate
<1> QED BY <1>1, <1>3 DEF g

\* Every step keeps the gauge exact.
LEMMA GaugeStep ==
    ASSUME ControlInv, GaugeTotal, Next
    PROVE  GaugeTotal'
<1> SUFFICES deltaRows' = Total(rows', Worker) + InDrain'
  BY DEF GaugeTotal
<1>0. deltaRows = Total(rows, Worker) + InDrain
  BY DEF GaugeTotal
<1>1. ASSUME NEW w \in Worker, FoldSink(w)
      PROVE  deltaRows' = Total(rows', Worker) + InDrain'
  <2>1. cur[w] \in CUs /\ Rows[cur[w]] \in Nat
    BY <1>1, Constants DEF FoldSink, ControlInv, HasCU, ActivePcs, BusyPcs
  <2>2. rows[w] \in Nat /\ rows' = [rows EXCEPT ![w] = rows[w] + Rows[cur[w]]]
    BY <1>1 DEF FoldSink, ControlInv, TypeOK, SinksType
  <2>3. Total(rows', Worker) = Total(rows, Worker) + (rows[w] + Rows[cur[w]]) - rows[w]
    <3>1. rows[w] + Rows[cur[w]] \in Nat
      BY <2>1, <2>2
    <3> QED BY <2>2, <3>1, OneSinkChanges
  <2>4. \A v \in Worker : pc'[v] = "drain" <=> pc[v] = "drain"
    BY <1>1 DEF FoldSink, Goto, ControlInv, TypeOK, WorkersType
  <2>5. InDrain' = InDrain
    BY <1>1, <2>4 DEF InDrain, FoldSink, snap
  <2>6. deltaRows' = deltaRows + Rows[cur[w]]
    BY <1>1 DEF FoldSink
  <2> QED BY <1>0, <2>1, <2>2, <2>3, <2>5, <2>6, TotalRowsNat
<1>2. ASSUME NEW w \in Worker, DrainSink(w)
      PROVE  deltaRows' = Total(rows', Worker) + InDrain'
  <2>1. scan \in Worker
    BY <1>2, Constants DEF DrainSink, ControlInv, TypeOK, SnapType, Worker
  <2>2. deltaRows' = deltaRows /\ InDrain = drainedRows /\ InDrain' = drainedRows'
    BY <1>2 DEF DrainSink, shared, local, InDrain
  <2>3. CASE pc[scan] = "fold"
    BY <1>0, <1>2, <2>2, <2>3 DEF DrainSink, sinks
  <2>4. CASE pc[scan] # "fold"
    <3>1. rows[scan] \in Nat
      BY <2>1 DEF ControlInv, TypeOK, SinksType
    <3>2. drainedRows' = drainedRows + rows[scan]
          /\ rows' = [rows EXCEPT ![scan] = 0]
      BY <1>2, <2>4 DEF DrainSink, TakenRows
    <3>3. Total(rows', Worker) = Total(rows, Worker) + 0 - rows[scan]
      BY <2>1, <3>2, OneSinkChanges
    <3> QED BY <1>0, <2>2, <3>1, <3>2, <3>3, TotalRowsNat
  <2> QED BY <2>3, <2>4
<1>3. ASSUME NEW w \in Worker, Quiesce(w)
      PROVE  deltaRows' = Total(rows', Worker) + InDrain'
  <2>1. rows' = rows /\ deltaRows' = deltaRows /\ drainedRows' = 0
    BY <1>3 DEF Quiesce, sinks, shared
  <2>2. InDrain = 0
    BY <1>3 DEF Quiesce, InDrain, ControlInv, OneSnapshotter, SnapshotPcs
  <2>3. InDrain' = 0
    BY <2>1 DEF InDrain
  <2> QED BY <1>0, <2>1, <2>2, <2>3
<1>4. ASSUME NEW w \in Worker, Settle(w)
      PROVE  deltaRows' = Total(rows', Worker) + InDrain'
  <2>1. rows' = rows /\ deltaRows' = deltaRows - drainedRows
    BY <1>4 DEF Settle, sinks
  <2>2. InDrain = drainedRows
    BY <1>4 DEF Settle, InDrain
  <2>3. InDrain' = 0
    BY <1>4 DEF Settle, Goto, InDrain, ControlInv, TypeOK, WorkersType,
                OneSnapshotter, SnapshotPcs
  <2> QED BY <1>0, <2>1, <2>2, <2>3, TotalRowsNat
<1>5. CASE Exit
  <2> DEFINE z == [w \in Worker |-> 0]
  <2>1. rows' = z /\ deltaRows' = 0 /\ InDrain' = 0
    BY <1>5 DEF Exit, InDrain
  <2>2. Total(z, Worker) = 0
    BY ActiveFinite, TotalZero
  <2> QED BY <2>1, <2>2
<1>6. CASE /\ UNCHANGED <<rows, deltaRows, drainedRows>>
           /\ \A v \in Worker : pc'[v] = "drain" <=> pc[v] = "drain"
  <2>1. InDrain' = InDrain
    BY <1>6 DEF InDrain
  <2> QED BY <1>0, <1>6, <2>1
<1>7. ASSUME NEW w \in Worker, WriteShas(w)
      PROVE  deltaRows' = Total(rows', Worker) + InDrain'
  <2>1. rows' = rows /\ deltaRows' = deltaRows
    BY <1>7 DEF WriteShas, sinks
  <2>2. \A v \in Worker : pc[v] # "drain" /\ pc'[v] # "drain"
    BY <1>7 DEF WriteShas, Goto, ControlInv, TypeOK, WorkersType,
                OneSnapshotter, SnapshotPcs
  <2>3. InDrain = 0 /\ InDrain' = 0
    BY <2>2 DEF InDrain
  <2> QED BY <1>0, <2>1, <2>3
<1>8. ASSUME NEW w \in Worker, WorkerStep(w),
             ~(FoldSink(w) \/ DrainSink(w) \/ Quiesce(w) \/ Settle(w) \/ WriteShas(w))
      PROVE  deltaRows' = Total(rows', Worker) + InDrain'
  <2> USE DEF Goto, sinks, shared, snap, local, ControlInv, TypeOK, WorkersType
  <2>1. CASE OpenKzip(w) \/ Enter(w) \/ Check(w) \/ BackOut(w) \/ Unpark(w)
    BY <1>6, <2>1 DEF OpenKzip, Enter, Check, BackOut, Unpark
  <2>2. CASE Index(w) \/ LockSink(w) \/ Count(w) \/ Trigger(w)
    BY <1>6, <2>2 DEF Index, LockSink, Count, Trigger
  <2>3. CASE TryLock(w) \/ Recheck(w) \/ FlagLands(w) \/ NextCU(w)
    BY <1>6, <2>3 DEF TryLock, Recheck, FlagLands, NextCU
  <2>4. CASE WriteShard(w) \/ WriteShardFails(w)
    BY <1>6, <2>4 DEF WriteShard, WriteShardFails
  <2> QED BY <1>8, <2>1, <2>2, <2>3, <2>4 DEF WorkerStep
<1>9. ASSUME NEW resume \in BOOLEAN, Start(resume)
      PROVE  deltaRows' = Total(rows', Worker) + InDrain'
  <2>1. \A v \in Worker : pc[v] # "drain" /\ pc'[v] # "drain"
    BY <1>9 DEF Start, ControlInv, WorkersJoined, Running
  <2> QED BY <1>6, <1>9, <2>1 DEF Start, sinks, snap
<1>10. CASE ~Exit /\ (MainStep \/ Crash \/ HeartbeatReturns
                       \/ ResumeRefused \/ Discard \/ ReplaceKzip)
  <2>1. UNCHANGED <<pc, rows, deltaRows, drainedRows>>
    BY <1>10 DEF MainStep, JoinOk, JoinErr, ScopeReturns, FinalMerge, Promote,
       SweepBase, SweepShas, SweepShards, Crash, HeartbeatReturns,
       ResumeRefused, Discard, ReplaceKzip, sinks, shared, snap, local
  <2> QED BY <1>6, <2>1
<1> QED BY <1>1, <1>2, <1>3, <1>4, <1>5, <1>7, <1>8, <1>9, <1>10
        DEF Next, OperatorStep

\* delta_rows is exactly the rows buffered in the sinks plus what the running
\* drain has taken and not yet subtracted, whatever is folded while a capped
\* drain runs.
THEOREM GaugeCounts == Spec => []GaugeExact
<1>1. Init => ControlInv /\ GaugeTotal
  <2> SUFFICES ASSUME Init PROVE ControlInv /\ GaugeTotal
    OBVIOUS
  <2> DEFINE z == [w \in Worker |-> 0]
  <2>1. rows = z /\ deltaRows = 0 /\ InDrain = 0
    BY DEF Init, NoProcess, InDrain
  <2>2. Total(z, Worker) = 0
    BY ActiveFinite, TotalZero
  <2>3. Total(rows, Worker) = 0
    BY <2>1, <2>2
  <2> QED BY <2>1, <2>3, ControlInit DEF GaugeTotal
<1>2. ControlInv /\ GaugeTotal /\ [Next]_vars => (ControlInv /\ GaugeTotal)'
  <2> SUFFICES ASSUME ControlInv, GaugeTotal, [Next]_vars
               PROVE  ControlInv' /\ GaugeTotal'
    OBVIOUS
  <2>1. ControlInv'
    BY ControlStep
  <2>2. CASE Next
    BY <2>1, <2>2, GaugeStep
  <2>3. CASE UNCHANGED vars
    <3>1. rows' = rows /\ deltaRows' = deltaRows /\ InDrain' = InDrain
      BY <2>3 DEF vars, local, sinks, shared, snap, InDrain
    <3> QED BY <2>1, <3>1 DEF GaugeTotal
  <2> QED BY <2>2, <2>3
<1> QED BY <1>1, <1>2, GaugeIsTotal, PTL DEF Spec

\* ... so the unsigned counter never wraps below zero when a drain subtracts
\* what it took.
THEOREM GaugeNeverWraps == Spec => [](deltaRows \in Nat)
<1>1. ControlInv /\ GaugeTotal => deltaRows \in Nat
  BY TotalRowsNat DEF GaugeTotal
<1>2. Spec => []ControlInv
  BY ControlInit, ControlStep, PTL DEF Spec
<1> QED BY <1>1, <1>2, GaugeIsTotal, GaugeCounts, PTL
=============================================================================
