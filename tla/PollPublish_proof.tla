------------------------- MODULE PollPublish_proof -------------------------
(***************************************************************************)
(* Proofs about PollPublish for every set of tags, lanes and writers and   *)
(* every bound.                                                            *)
(***************************************************************************)
EXTENDS PollPublish, TLAPS

(* The constructors of gates and snapshots return what they claim.         *)
LEMMA NotGoodType == \A st \in State : NotGood(st) \in Snapshot
  BY DEF NotGood, Snapshot, Stamp, NoStamp

LEMMA RootOfType == \A r \in Rows : RootOf(r) \in Tags
  BY PollPublishAssumption DEF Rows, RootOf

(* transition_poll_cache: type of the gate it leaves behind.               *)
LEMMA TransitionGateType ==
  ASSUME NEW g \in Gate, NEW row, NEW active \in BOOLEAN, NEW restart \in BOOLEAN,
         NEW e \in Nat, NEW n \in Nat
  PROVE  TransitionGate(g, row, active, restart, e, n) \in Gate
  BY DEF TransitionGate, TransitionIsNoOp, Restart, Resume, Suspend, Gate

LEMMA TransitionRowType ==
  ASSUME NEW g \in Gate, NEW row \in Snapshot \cup {NoRow}, NEW active \in BOOLEAN,
         NEW restart \in BOOLEAN
  PROVE  TransitionRow(g, row, active, restart) \in Snapshot
  BY NotGoodType DEF TransitionRow, TransitionIsNoOp, State

(* apply_poll_cache_gate returns a snapshot.                               *)
LEMMA ApplyType ==
  ASSUME NEW g \in Gate, NEW snap \in Snapshot, NEW n \in Nat
  PROVE  ApplyPollCacheGate(g, snap, n) \in Snapshot
  <1>1. [snap EXCEPT !.state = "Active"] \in Snapshot
    BY DEF Snapshot, State
  <1>2. QED
    BY <1>1, NotGoodType DEF ApplyPollCacheGate, State

LEMMA NoUpdateType == NoUpdate \in Update /\ NoOutbox \in Outbox
  BY NotGoodType DEF NoUpdate, Update, NoOutbox, Outbox, State

LEMMA PushAllType ==
  ASSUME NEW q \in Queues, NEW out \in Outbox
  PROVE  PushAll(q, out) \in Queues
  BY DEF PushAll, Queues, Outbox

LEMMA TransitionType ==
  ASSUME TypeOK, NEW rows \in SUBSET Rows, NEW active \in BOOLEAN, NEW restart \in BOOLEAN
  PROVE  /\ TransitionUpdates(rows, active, restart) \in Outbox
         /\ Transition(rows, active, restart) =>
              /\ gates' \in [Rows -> Gate]
              /\ table' \in [Rows -> Snapshot \cup {NoRow}]
  <1>1. \A r \in Rows : /\ gates[r] \in Gate /\ table[r] \in Snapshot \cup {NoRow}
                        /\ epoch \in Nat /\ now \in Nat
    BY DEF TypeOK
  <1>2. \A r \in Rows : TransitionRow(gates[r], table[r], active, restart) \in Snapshot
    BY <1>1, TransitionRowType
  <1>3. \A r \in Rows : TransitionGate(gates[r], table[r], active, restart, epoch, now) \in Gate
    BY <1>1, TransitionGateType
  <1>4. TransitionUpdates(rows, active, restart) \in Outbox
    BY <1>1, <1>2, NoUpdateType DEF TransitionUpdates, Outbox, Update
  <1>5. Transition(rows, active, restart) =>
              /\ gates' \in [Rows -> Gate]
              /\ table' \in [Rows -> Snapshot \cup {NoRow}]
    BY <1>1, <1>2, <1>3 DEF Transition
  <1>6. QED BY <1>4, <1>5

LEMMA LaneStateType ==
  /\ NoSample \in Sample
  /\ \A ph \in LanePhase, e \in Nat : LaneAt(ph, e) \in LaneState
  /\ \A t \in Tags, s \in Sample, e \in Nat : LaneHolding(t, s, e) \in LaneState
  <1>1. NoSample \in Sample
    BY DEF NoSample, Sample, Stamp, NoStamp
  <1>2. QED
    BY <1>1 DEF LaneAt, LaneHolding, LaneState, LanePhase

(* ReadResult and the committed snapshots are well typed.                  *)
LEMMA ReadResultType ==
  ASSUME TypeOK, NEW l \in Lanes, NEW t \in Tags, NEW oks
  PROVE  ReadResult(l, t, t \in oks) \in Sample
  <1>1. lane[l].started \in Nat /\ lane[l].epoch \in Nat /\ now \in Nat /\ plc[t] \in Nat
    BY DEF TypeOK, LaneState
  <1>2. CASE t \in oks
    BY <1>1, <1>2 DEF ReadResult, Sample, Stamp
  <1>3. CASE t \notin oks
    BY <1>1, <1>3 DEF ReadResult, Sample, Stamp
  <1>4. QED BY <1>2, <1>3

LEMMA CommittedType ==
  ASSUME TypeOK, NEW t \in Tags, NEW s \in Sample, NEW r \in Rows, NEW undecoded
  PROVE  CommittedRow(t, s, r, undecoded) \in Snapshot
  <1>1. \A x : RawSnapshot(s, x, undecoded) \in Snapshot
    BY NotGoodType DEF RawSnapshot, GoodSnapshot, Snapshot, Sample, State
  <1>2. t \in Rows
    BY DEF Rows
  <1>3. gates[t] \in Gate /\ gates[r] \in Gate /\ now \in Nat
    BY <1>2 DEF TypeOK
  <1>4. CommittedRoot(t, s, undecoded) \in Snapshot
    BY <1>1, <1>3, ApplyType DEF CommittedRoot
  <1>5. ApplyPollCacheGate(gates[r], RawSnapshot(s, r, undecoded), now) \in Snapshot
    BY <1>1, <1>3, ApplyType
  <1>6. CommittedRoot(t, s, undecoded).state \in State
    BY <1>4 DEF Snapshot
  <1>7. NotGood(CommittedRoot(t, s, undecoded).state) \in Snapshot
    BY <1>6, NotGoodType
  <1>8. ApplyPollCacheGate(gates[r], NotGood(CommittedRoot(t, s, undecoded).state), now) \in Snapshot
    BY <1>3, <1>7, ApplyType
  <1>9. ApplyPollCacheGate(gates[r], CommittedRoot(t, s, undecoded), now) \in Snapshot
    BY <1>3, <1>4, ApplyType
  <1>10. QED
    BY <1>4, <1>5, <1>8, <1>9 DEF CommittedRow

(* A lane that reads or holds a sample does so for one of its tags.        *)
LaneTagOK ==
    \A l \in Lanes : lane[l].phase \in {"reading", "holding"} => lane[l].tag \in Tags

(* Every step of a lane keeps the types.                                   *)
LEMMA LaneType ==
  ASSUME TypeOK, LaneTagOK, NEW l \in Lanes, LaneStep(l)
  PROVE  TypeOK'
  <1> USE DEF plcVars, cacheVars, laneVars, writeVars, mainVars
  <1>0. /\ lane \in [Lanes -> LaneState] /\ prefetch \in [Tags -> Sample]
        /\ demandActive \in [Tags -> BOOLEAN] /\ laneOut \in [Lanes -> Outbox]
        /\ uaQueue \in Queues /\ now \in Nat
    BY DEF TypeOK
  <1>00. lane[l].epoch \in Nat
    BY <1>0 DEF LaneState
  <1>1. ASSUME NEW t \in Tags, NEW active \in BOOLEAN, TransitionDemand(l, t, active)
        PROVE  TypeOK'
    <2> DEFINE rows == IF lane[l].epoch = epoch THEN RowsOf(t) \cap GatedRows ELSE {}
    <2>1. rows \in SUBSET Rows
      BY DEF RowsOf
    <2>2. /\ TransitionUpdates(rows, active, FALSE) \in Outbox
          /\ gates' \in [Rows -> Gate] /\ table' \in [Rows -> Snapshot \cup {NoRow}]
      BY <1>1, <2>1, TransitionType DEF TransitionDemand
    <2>3. laneOut' \in [Lanes -> Outbox]
      BY <1>0, <1>00, LaneStateType, <1>1, <2>2 DEF TransitionDemand
    <2>4. lane' \in [Lanes -> LaneState] /\ prefetch' \in [Tags -> Sample]
          /\ demandActive' \in [Tags -> BOOLEAN]
      BY <1>0, <1>00, LaneStateType, <1>1 DEF TransitionDemand, LanePhase
    <2>5. QED BY <1>1, <2>2, <2>3, <2>4 DEF TransitionDemand, TypeOK
  <1>2. ASSUME NEW t \in Tags, SkipInactive(l, t) PROVE TypeOK'
    BY <1>0, <1>2, LaneStateType DEF SkipInactive, TypeOK
  <1>3. ASSUME NEW t \in Tags, NEW others \in SUBSET Tags, BeginRead(l, t, others) PROVE TypeOK'
    <2>1. [phase |-> "reading", tag |-> t, batch |-> others \cup {t}, started |-> now,
           sample |-> NoSample, epoch |-> lane[l].epoch] \in LaneState
      BY <1>0, <1>00, LaneStateType DEF LaneState, LanePhase
    <2>2. lane' \in [Lanes -> LaneState]
      BY <1>0, <1>3, <2>1 DEF BeginRead
    <2>3. QED BY <1>3, <2>2 DEF BeginRead, TypeOK
  <1>4. ASSUME NEW t \in Tags, UsePrefetched(l, t) PROVE TypeOK'
    <2>1. lane' \in [Lanes -> LaneState] /\ prefetch' \in [Tags -> Sample]
      BY <1>0, <1>00, LaneStateType, <1>4 DEF UsePrefetched, LanePhase
    <2>2. QED BY <1>4, <2>1 DEF UsePrefetched, TypeOK
  <1>5. ASSUME NEW oks \in SUBSET Tags, FinishRead(l, oks) PROVE TypeOK'
    <2>0. lane[l].tag \in Tags
      BY <1>5 DEF FinishRead, LaneTagOK
    <2>1. \A t \in Tags : ReadResult(l, t, t \in oks) \in Sample
      BY ReadResultType
    <2>2. lane' \in [Lanes -> LaneState]
      BY <1>0, <1>00, LaneStateType, <1>5, <2>0, <2>1 DEF FinishRead, LanePhase
    <2>3. prefetch' \in [Tags -> Sample]
      BY <1>0, <1>00, LaneStateType, <1>5, <2>1 DEF FinishRead
    <2>4. QED BY <1>5, <2>2, <2>3 DEF FinishRead, TypeOK
  <1>6. ASSUME NEW undecoded \in SUBSET Rows, Commit(l, undecoded) PROVE TypeOK'
    <2> DEFINE t == lane[l].tag
               s == lane[l].sample
    <2>0. t \in Tags
      BY <1>6 DEF Commit, LaneTagOK
    <2>1. s \in Sample /\ lane[l].epoch \in Nat
      BY DEF TypeOK, LaneState
    <2>2. \A r \in Rows : CommittedRow(t, s, r, undecoded) \in Snapshot
      BY <1>6, <2>0, <2>1, CommittedType
    <2>3. table' \in [Rows -> Snapshot \cup {NoRow}]
      BY <1>6, <2>2 DEF Commit, TypeOK
    <2>4. [r \in Rows |-> IF RootOf(r) = t
                 THEN [snap |-> CommittedRow(t, s, r, undecoded), epoch |-> lane[l].epoch]
                 ELSE NoUpdate] \in Outbox
      BY <2>1, <2>2, NoUpdateType DEF Outbox, Update
    <2>5. laneOut' \in [Lanes -> Outbox]
      BY <1>0, <1>00, LaneStateType, <1>6, <2>4 DEF Commit
    <2>6. lane' \in [Lanes -> LaneState]
      BY <1>0, <1>00, LaneStateType, <1>6 DEF Commit, LanePhase
    <2>7. QED BY <1>6, <2>3, <2>5, <2>6 DEF Commit, TypeOK
  <1>7. CASE DropSample(l)
    <2>1. lane' \in [Lanes -> LaneState]
      BY <1>0, <1>00, LaneStateType, <1>7 DEF DropSample, LanePhase
    <2>2. QED BY <1>7, <2>1 DEF DropSample, TypeOK
  <1>8. CASE LanePush(l)
    <2>1. lane' \in [Lanes -> LaneState]
      BY <1>0, <1>00, LaneStateType, <1>8 DEF LanePush, LanePhase
    <2>2. uaQueue' \in Queues
      BY <1>0, <1>00, LaneStateType, <1>8, PushAllType DEF LanePush
    <2>3. laneOut' \in [Lanes -> Outbox]
      BY <1>0, <1>00, LaneStateType, <1>8, NoUpdateType DEF LanePush
    <2>4. QED BY <1>8, <2>1, <2>2, <2>3 DEF LanePush, TypeOK
  <1>9. CASE LaneExit(l)
    <2>1. lane' \in [Lanes -> LaneState]
      BY <1>0, <1>00, LaneStateType, <1>9 DEF LaneExit, LanePhase
    <2>2. QED BY <1>9, <2>1 DEF LaneExit, TypeOK
  <1>10. QED BY <1>1, <1>2, <1>3, <1>4, <1>5, <1>6, <1>7, <1>8, <1>9 DEF LaneStep

(* A writer in the middle of a call knows which row it writes.             *)
WriterRowOK ==
    \A w \in Writers : writer[w].phase # "idle" => writer[w].row \in GatedRows

LEMMA WriterStateType ==
  ASSUME TypeOK, NEW w \in Writers, NEW ph \in WriterPhase, NEW v \in Nat
  PROVE  WriterAt(w, ph, v) \in WriterState
  BY DEF TypeOK, WriterAt, WriterState

LEMMA InvalidateType ==
  ASSUME TypeOK, NEW w \in Writers, Invalidate(w)
  PROVE  /\ gates' \in [Rows -> Gate]
         /\ table' \in [Rows -> Snapshot \cup {NoRow}]
         /\ writerOut' \in [Writers -> Outbox]
  <1> DEFINE rows == RowsOf(RootOf(writer[w].row)) \cap GatedRows
  <1>1. rows \in SUBSET Rows
    BY DEF RowsOf
  <1>2. CASE writer[w].epoch = epoch
    <2>1. Transition(rows, TRUE, TRUE)
      BY <1>2 DEF Invalidate
    <2>2. /\ gates' \in [Rows -> Gate] /\ table' \in [Rows -> Snapshot \cup {NoRow}]
          /\ TransitionUpdates(rows, TRUE, TRUE) \in Outbox
      BY <1>1, <2>1, TransitionType
    <2>3. writerOut' \in [Writers -> Outbox]
      BY <1>2, <2>2 DEF Invalidate, TypeOK
    <2>4. QED BY <2>2, <2>3
  <1>3. CASE writer[w].epoch # epoch
    BY <1>3 DEF Invalidate, TypeOK
  <1>4. QED BY <1>2, <1>3

(* Every step of a writer keeps the types.                                 *)
LEMMA WriterType ==
  ASSUME TypeOK, WriterRowOK, NEW w \in Writers, WriterStep(w)
  PROVE  TypeOK'
  <1> USE DEF plcVars, cacheVars, laneVars, writeVars, mainVars
  <1>0. /\ writer \in [Writers -> WriterState] /\ writerOut \in [Writers -> Outbox]
        /\ readback \in Queues /\ plc \in [Tags -> Nat] /\ acked \in [Tags -> Nat]
        /\ epoch \in Nat /\ writes \in Nat
    BY DEF TypeOK
  <1>a. \A ph \in WriterPhase, v \in Nat : WriterAt(w, ph, v) \in WriterState
    BY WriterStateType
  <1>b. writer[w].phase # "idle" => writer[w].row \in Rows /\ RootOf(writer[w].row) \in Tags
    BY RootOfType DEF WriterRowOK, GatedRows
  <1>c. \A r \in GatedRows : [phase |-> "entry", row |-> r, epoch |-> epoch, seen |-> 0] \in WriterState
    BY <1>0 DEF WriterState, WriterPhase, GatedRows
  <1>d. IdleWriter \in WriterState
    BY DEF IdleWriter, WriterState, WriterPhase
  <1>1. ASSUME NEW r \in GatedRows, BeginWrite(w, r) PROVE TypeOK'
    <2>1. writer' \in [Writers -> WriterState]
      BY <1>0, <1>c, <1>1 DEF BeginWrite
    <2>2. QED BY <1>1, <2>1 DEF BeginWrite, TypeOK
  <1>2. ASSUME NEW r \in GatedRows, BeginUaWrite(w, r) PROVE TypeOK'
    <2>1. writer' \in [Writers -> WriterState]
      BY <1>0, <1>c, <1>2 DEF BeginUaWrite
    <2>2. node' \in [Rows -> Node]
      BY <1>2 DEF BeginUaWrite, TypeOK, Node, NodeStatus
    <2>3. QED BY <1>2, <2>1, <2>2 DEF BeginUaWrite, TypeOK, MainPhase
  <1>3. CASE WriteEntry(w)
    <2>1. writer' \in [Writers -> WriterState]
      BY <1>0, <1>a, <1>3 DEF WriteEntry, WriterPhase
    <2>2. QED BY <1>3, <2>1, InvalidateType DEF WriteEntry, TypeOK
  <1>4. CASE WriterPush(w)
    <2>1. writer' \in [Writers -> WriterState]
      BY <1>0, <1>a, <1>d, <1>4 DEF WriterPush, WriterPhase
    <2>2. readback' \in Queues
      BY <1>0, <1>4, PushAllType DEF WriterPush
    <2>3. writerOut' \in [Writers -> Outbox]
      BY <1>0, <1>4, NoUpdateType DEF WriterPush
    <2>4. applying' \in [row: Rows \cup {NoTag}, update: Update]
      BY <1>4, <1>b, NoUpdateType DEF WriterPush, ReturnFromWrite, TypeOK
    <2>5. main' \in MainPhase
      BY <1>4 DEF WriterPush, ReturnFromWrite, TypeOK, MainPhase
    <2>6. QED BY <1>4, <2>1, <2>2, <2>3, <2>4, <2>5 DEF WriterPush, TypeOK
  <1>5. CASE AcquireGate(w)
    <2>1. writer' \in [Writers -> WriterState]
      BY <1>0, <1>a, <1>5 DEF AcquireGate, WriterPhase
    <2>2. QED BY <1>5, <2>1 DEF AcquireGate, TypeOK
  <1>6. CASE RejectWrite(w)
    <2>1. writer' \in [Writers -> WriterState]
      BY <1>0, <1>a, <1>6 DEF RejectWrite, WriterPhase
    <2>2. QED BY <1>6, <2>1 DEF RejectWrite, TypeOK
  <1>7. ASSUME NEW effect \in BOOLEAN, PlcWrite(w, effect) PROVE TypeOK'
    <2>1. plc' \in [Tags -> Nat] /\ plc'[RootOf(writer[w].row)] \in Nat
      BY <1>0, <1>b, <1>7 DEF PlcWrite
    <2>2. writer' \in [Writers -> WriterState]
      BY <1>0, <1>a, <1>7, <2>1 DEF PlcWrite, WriterPhase
    <2>3. QED BY <1>7, <2>1, <2>2 DEF PlcWrite, TypeOK
  <1>8. CASE WriteExit(w)
    <2>0. writer[w].seen \in Nat
      BY <1>0 DEF WriterState
    <2>1. writer' \in [Writers -> WriterState]
      BY <1>0, <1>a, <1>8, <2>0 DEF WriteExit, WriterPhase
    <2>2. acked' \in [Tags -> Nat]
      BY <1>0, <1>b, <1>8, <2>0 DEF WriteExit
    <2>3. QED BY <1>8, <2>1, <2>2, InvalidateType DEF WriteExit, TypeOK
  <1>9. CASE RefuseWrite(w)
    <2>1. writer' \in [Writers -> WriterState]
      BY <1>0, <1>d, <1>9 DEF RefuseWrite
    <2>2. applying' \in [row: Rows \cup {NoTag}, update: Update]
      BY <1>9, <1>b, NoUpdateType DEF RefuseWrite, ReturnFromWrite, TypeOK
    <2>3. main' \in MainPhase
      BY <1>9 DEF RefuseWrite, ReturnFromWrite, TypeOK, MainPhase
    <2>4. QED BY <1>9, <2>1, <2>2, <2>3 DEF RefuseWrite, TypeOK
  <1>10. QED BY <1>1, <1>2, <1>3, <1>4, <1>5, <1>6, <1>7, <1>8, <1>9 DEF WriterStep

(* The write callback returns to the node it was called for.               *)
RefreshRowOK == main = "uaRefresh" => applying.row \in Rows

LEMMA StatusType == \A snap : UaSnapshotStatus(snap) \in NodeStatus
  BY DEF UaSnapshotStatus, NodeStatus

LEMMA EmptyQueuesType == EmptyQueues \in Queues
  BY DEF EmptyQueues, Queues

(* Every step of the main loop keeps the types.                            *)
LEMMA MainType ==
  ASSUME TypeOK, RefreshRowOK, MainStep
  PROVE  TypeOK'
  <1> USE DEF plcVars, cacheVars, laneVars, writeVars, mainVars
  <1>0. /\ uaQueue \in Queues /\ readback \in Queues /\ local \in Queues
        /\ epoch \in Nat /\ now \in Nat /\ restarts \in Nat /\ main \in MainPhase
        /\ table \in [Rows -> Snapshot \cup {NoRow}] /\ node \in [Rows -> Node]
        /\ applying \in [row: Rows \cup {NoTag}, update: Update]
    BY DEF TypeOK
  <1>a. NoApply \in [row: Rows \cup {NoTag}, update: Update]
    BY NoUpdateType DEF NoApply
  <1>1. CASE SwapUaQueue
    BY <1>0, <1>1, EmptyQueuesType DEF SwapUaQueue, TypeOK, MainPhase
  <1>2. CASE TakeReadback
    <2>1. local' \in Queues
      BY <1>0, <1>2 DEF TakeReadback, Queues
    <2>2. QED BY <1>2, <2>1, EmptyQueuesType DEF TakeReadback, TypeOK, MainPhase
  <1>3. ASSUME NEW r \in Rows, CheckUpdate(r) PROVE TypeOK'
    <2>1. /\ local[r] \in Seq(Update) /\ local[r] # <<>>
          /\ Head(local[r]) \in Update /\ Tail(local[r]) \in Seq(Update)
      BY <1>0, <1>3 DEF CheckUpdate, Queues
    <2>2. local' \in Queues
      BY <1>0, <1>3, <2>1 DEF CheckUpdate, Queues
    <2>3. [row |-> r, update |-> Head(local[r])] \in [row: Rows \cup {NoTag}, update: Update]
      BY <2>1
    <2>4. applying' \in [row: Rows \cup {NoTag}, update: Update]
      BY <1>a, <1>3, <2>3 DEF CheckUpdate
    <2>5. QED BY <1>3, <2>2, <2>4 DEF CheckUpdate, TypeOK
  <1>4. CASE FetchCached
    <2>1. applying.row \in Rows
      BY <1>4 DEF FetchCached, RefreshRowOK
    <2>2. CASE table[applying.row] = NoRow
      BY <1>4, <1>a, <2>2 DEF FetchCached, TypeOK, MainPhase
    <2>3. CASE table[applying.row] # NoRow
      <3>1. [snap |-> table[applying.row], epoch |-> epoch] \in Update
        BY <1>0, <2>1, <2>3 DEF Update
      <3>2. applying' \in [row: Rows \cup {NoTag}, update: Update]
        BY <1>0, <1>4, <2>3, <3>1 DEF FetchCached
      <3>3. QED BY <1>4, <2>3, <3>2 DEF FetchCached, TypeOK
    <2>4. QED BY <2>2, <2>3
  <1>5. CASE ApplyUpdate
    <2> DEFINE snap == applying.update.snap
               status == UaSnapshotStatus(snap)
               value == [status |-> status,
                         ver |-> IF status = "Good" THEN snap.ver ELSE 0,
                         started |-> IF status = "Good" THEN snap.read.started ELSE 0]
    <2>1. snap.ver \in Nat /\ snap.read.started \in Nat
      BY <1>0 DEF Update, Snapshot, Stamp
    <2>2. value \in Node
      BY <2>1, StatusType DEF Node
    <2>3. node' = [node EXCEPT ![applying.row] = value]
      BY <1>5 DEF ApplyUpdate
    <2>4. node' \in [Rows -> Node]
      BY <1>0, <2>2, <2>3
    <2>5. main' \in MainPhase
      BY <1>0, <1>5 DEF ApplyUpdate, MainPhase
    <2>6. QED BY <1>5, <1>a, <2>4, <2>5 DEF ApplyUpdate, TypeOK
  <1>6. CASE DrainDone
    BY <1>6 DEF DrainDone, TypeOK, MainPhase
  <1>7. CASE StopPollers
    <2>1. restarts' \in Nat /\ main' \in MainPhase /\ stop' \in BOOLEAN
      BY <1>0, <1>7 DEF StopPollers, MainPhase
    <2>2. QED BY <1>7, <2>1 DEF StopPollers, TypeOK
  <1>8. CASE JoinPollers
    <2>1. main' \in MainPhase /\ uaQueue' \in Queues
      BY <1>0, <1>8, EmptyQueuesType DEF JoinPollers, MainPhase
    <2>2. QED BY <1>8, <2>1 DEF JoinPollers, TypeOK
  <1>9. CASE LoadDriver
    <2>1. gates' \in [Rows -> Gate] /\ binding' \in Gate
      BY <1>0, <1>9 DEF LoadDriver, NoGate, Gate, Restart
    <2>2. table' \in [Rows -> Snapshot \cup {NoRow}]
      BY <1>9 DEF LoadDriver
    <2>3. node' \in [Rows -> Node]
      BY <1>9 DEF LoadDriver, WaitingNode, Node, NodeStatus
    <2>4. QED BY <1>9, <2>1, <2>2, <2>3 DEF LoadDriver, TypeOK, MainPhase
  <1>10. CASE LoadFails
    BY <1>10 DEF LoadFails, TypeOK, MainPhase
  <1>11. CASE StartPollers
    <2>1. GatedRows \in SUBSET Rows
      BY DEF GatedRows
    <2>2. /\ TransitionUpdates(GatedRows, TRUE, TRUE) \in Outbox
          /\ gates' \in [Rows -> Gate] /\ table' \in [Rows -> Snapshot \cup {NoRow}]
      BY <1>11, <2>1, TransitionType DEF StartPollers
    <2>3. uaQueue' \in Queues
      BY <1>0, <1>11, <2>2, PushAllType DEF StartPollers
    <2>4. lane' \in [Lanes -> LaneState] /\ prefetch' \in [Tags -> Sample]
          /\ demandActive' \in [Tags -> BOOLEAN]
      BY <1>0, <1>11, LaneStateType DEF StartPollers, LanePhase
    <2>5. QED BY <1>11, <2>2, <2>3, <2>4 DEF StartPollers, TypeOK, MainPhase
  <1>12. QED
    BY <1>1, <1>2, <1>3, <1>4, <1>5, <1>6, <1>7, <1>8, <1>9, <1>10, <1>11 DEF MainStep

-----------------------------------------------------------------------------
(* Structure: which threads can be alive, and what the gates look like.    *)

(* While a reload replaces the driver no lane is alive.                    *)
LanesJoined ==
    main \in {"loading", "starting"} => \A l \in Lanes : lane[l].phase = "dead"

(* While a lane is alive it polls for the current driver, and every gated  *)
(* row has a gate of that driver.                                          *)
GatesCurrent ==
    \A l \in Lanes : lane[l].phase # "dead" =>
        /\ lane[l].epoch = epoch
        /\ \A r \in GatedRows : gates[r].present /\ gates[r].epoch = epoch

Structure == LaneTagOK /\ WriterRowOK /\ RefreshRowOK /\ LanesJoined

LEMMA StructureStep ==
  ASSUME TypeOK, Structure, [Next]_vars
  PROVE  Structure'
  <1> USE DEF plcVars, cacheVars, laneVars, writeVars, mainVars
  <1>0. /\ lane \in [Lanes -> LaneState] /\ writer \in [Writers -> WriterState]
        /\ applying \in [row: Rows \cup {NoTag}, update: Update]
    BY DEF TypeOK
  <1>1. ASSUME NEW l \in Lanes, LaneStep(l) PROVE Structure'
    <2>1. UNCHANGED <<writer, main, applying>>
      BY <1>1 DEF LaneStep, TransitionDemand, SkipInactive, BeginRead, UsePrefetched, FinishRead,
                  Commit, DropSample, LanePush, LaneExit
    <2>3. lane[l].phase # "dead" \/ lane' = lane
      BY <1>1 DEF LaneStep, TransitionDemand, SkipInactive, BeginRead, UsePrefetched, FinishRead,
                  Commit, DropSample, LanePush, LaneExit
    <2>2. LaneTagOK
      BY DEF Structure
    <2>4. LaneTagOK'
      <3>1. ASSUME NEW t \in Tags, NEW active \in BOOLEAN, TransitionDemand(l, t, active) PROVE LaneTagOK'
        BY <1>0, <2>2, <3>1 DEF TransitionDemand, LaneTagOK, LaneAt
      <3>2. ASSUME NEW t \in Tags, SkipInactive(l, t) PROVE LaneTagOK'
        BY <2>2, <3>2 DEF SkipInactive, LaneTagOK
      <3>3. ASSUME NEW t \in Tags, NEW others \in SUBSET Tags, BeginRead(l, t, others) PROVE LaneTagOK'
        BY <1>0, <2>2, <3>3 DEF BeginRead, LaneTagOK
      <3>4. ASSUME NEW t \in Tags, UsePrefetched(l, t) PROVE LaneTagOK'
        BY <1>0, <2>2, <3>4 DEF UsePrefetched, LaneTagOK, LaneHolding
      <3>5. ASSUME NEW oks \in SUBSET Tags, FinishRead(l, oks) PROVE LaneTagOK'
        BY <1>0, <2>2, <3>5 DEF FinishRead, LaneTagOK, LaneHolding
      <3>6. ASSUME NEW undecoded \in SUBSET Rows, Commit(l, undecoded) PROVE LaneTagOK'
        BY <1>0, <2>2, <3>6 DEF Commit, LaneTagOK, LaneAt
      <3>7. CASE DropSample(l) \/ LanePush(l) \/ LaneExit(l)
        BY <1>0, <2>2, <3>7 DEF DropSample, LanePush, LaneExit, LaneTagOK, LaneAt
      <3>8. QED BY <1>1, <3>1, <3>2, <3>3, <3>4, <3>5, <3>6, <3>7 DEF LaneStep
    <2>5. LanesJoined'
      BY <1>0, <2>1, <2>3 DEF Structure, LanesJoined
    <2>6. QED BY <2>1, <2>4, <2>5 DEF Structure, WriterRowOK, RefreshRowOK
  <1>2. ASSUME NEW w \in Writers, WriterStep(w) PROVE Structure'
    <2>1. UNCHANGED lane
      BY <1>2 DEF WriterStep, BeginWrite, BeginUaWrite, RefuseWrite, ReturnFromWrite, WriteEntry, WriterPush, AcquireGate,
                  RejectWrite, PlcWrite, WriteExit
    <2>2. main' = main \/ main' = "uaWrite" \/ main' = "uaRefresh"
      BY <1>2 DEF WriterStep, BeginWrite, BeginUaWrite, RefuseWrite, ReturnFromWrite, WriteEntry, WriterPush, AcquireGate,
                  RejectWrite, PlcWrite, WriteExit
    <2>3. \/ main' = main /\ applying' = applying
          \/ main' = "uaWrite"
          \/ applying' = [row |-> writer[w].row, update |-> NoUpdate] /\ writer[w].phase # "idle"
      BY <1>2 DEF WriterStep, BeginWrite, BeginUaWrite, RefuseWrite, ReturnFromWrite, WriteEntry, WriterPush, AcquireGate,
                  RejectWrite, PlcWrite, WriteExit
    <2>4. \/ writer' = [writer EXCEPT ![w] = IdleWriter]
          \/ /\ writer[w].phase # "idle"
             /\ \E ph, v : writer' = [writer EXCEPT ![w] = WriterAt(w, ph, v)]
          \/ \E r \in GatedRows : writer' = [writer EXCEPT ![w] =
                 [phase |-> "entry", row |-> r, epoch |-> epoch, seen |-> 0]]
      BY <1>2 DEF WriterStep, BeginWrite, BeginUaWrite, RefuseWrite, ReturnFromWrite, WriteEntry, WriterPush, AcquireGate,
                  RejectWrite, PlcWrite, WriteExit
    <2>5. WriterRowOK'
      BY <1>0, <2>4 DEF Structure, WriterRowOK, IdleWriter, WriterAt
    <2>6. RefreshRowOK'
      BY <2>3 DEF Structure, WriterRowOK, RefreshRowOK, GatedRows
    <2>7. LaneTagOK' /\ LanesJoined'
      BY <2>1, <2>2 DEF Structure, LaneTagOK, LanesJoined
    <2>8. QED BY <2>5, <2>6, <2>7 DEF Structure
  <1>3. CASE MainStep
    <2>1. UNCHANGED writer
      BY <1>3 DEF MainStep, SwapUaQueue, TakeReadback, CheckUpdate, FetchCached, ApplyUpdate, DrainDone,
                  StopPollers, JoinPollers, LoadDriver, LoadFails, StartPollers
    <2>2. \/ lane' = lane
          \/ lane' = [l \in Lanes |-> LaneAt("idle", epoch)] /\ main' = "run"
      BY <1>3 DEF MainStep, SwapUaQueue, TakeReadback, CheckUpdate, FetchCached, ApplyUpdate, DrainDone,
                  StopPollers, JoinPollers, LoadDriver, LoadFails, StartPollers
    <2>3. \/ main' \in {"loading", "starting"} /\ main \in {"loading", "starting"} /\ lane' = lane
          \/ main' \in {"loading", "starting"} /\ lane' = lane /\ \A l \in Lanes : lane[l].phase = "dead"
          \/ main' \notin {"loading", "starting"}
      BY <1>3 DEF MainStep, SwapUaQueue, TakeReadback, CheckUpdate, FetchCached, ApplyUpdate, DrainDone,
                  StopPollers, JoinPollers, LoadDriver, LoadFails, StartPollers
    <2>4. main' = "uaRefresh" => main = "uaRefresh" /\ applying'.row = applying.row
      BY <1>0, <1>3 DEF MainStep, SwapUaQueue, TakeReadback, CheckUpdate, FetchCached, ApplyUpdate, DrainDone,
                  StopPollers, JoinPollers, LoadDriver, LoadFails, StartPollers
    <2>5. LaneTagOK'
      BY <2>2 DEF Structure, LaneTagOK, LaneAt
    <2>6. LanesJoined'
      BY <2>3 DEF Structure, LanesJoined
    <2>7. RefreshRowOK'
      BY <2>4 DEF Structure, RefreshRowOK
    <2>8. QED BY <2>1, <2>5, <2>6, <2>7 DEF Structure, WriterRowOK
  <1>4. CASE Tick \/ BumpGeneration \/ UNCHANGED vars
    BY <1>4 DEF Tick, BumpGeneration, vars, Structure, LaneTagOK, WriterRowOK, RefreshRowOK, LanesJoined
  <1>5. QED BY <1>1, <1>2, <1>3, <1>4 DEF Next

-----------------------------------------------------------------------------
(* Type correctness.                                                       *)

LEMMA InitTyped == Init => TypeOK /\ Structure
  <1> SUFFICES ASSUME Init PROVE TypeOK /\ Structure
    OBVIOUS
  <1>1. Structure
    BY DEF Init, Structure, LaneTagOK, WriterRowOK, RefreshRowOK, LanesJoined, LaneAt, IdleWriter
  <1>2. lane \in [Lanes -> LaneState] /\ prefetch \in [Tags -> Sample]
    BY LaneStateType DEF Init, LanePhase
  <1>3. writer \in [Writers -> WriterState]
    BY DEF Init, IdleWriter, WriterState, WriterPhase
  <1>4. laneOut \in [Lanes -> Outbox] /\ writerOut \in [Writers -> Outbox]
    BY NoUpdateType DEF Init
  <1>5. gates \in [Rows -> Gate] /\ binding \in Gate
    BY DEF Init, NoGate, Gate, Restart
  <1>6. node \in [Rows -> Node]
    BY DEF Init, WaitingNode, Node, NodeStatus
  <1>7. applying \in [row: Rows \cup {NoTag}, update: Update]
    BY NoUpdateType DEF Init, NoApply
  <1>8. TypeOK
    BY <1>2, <1>3, <1>4, <1>5, <1>6, <1>7, EmptyQueuesType DEF Init, TypeOK, MainPhase
  <1>9. QED BY <1>1, <1>8

LEMMA TypeStep ==
  ASSUME TypeOK, Structure, [Next]_vars
  PROVE  TypeOK'
  <1> USE DEF plcVars, cacheVars, laneVars, writeVars, mainVars
  <1>1. ASSUME NEW l \in Lanes, LaneStep(l) PROVE TypeOK'
    BY <1>1, LaneType DEF Structure
  <1>2. ASSUME NEW w \in Writers, WriterStep(w) PROVE TypeOK'
    BY <1>2, WriterType DEF Structure
  <1>3. CASE MainStep
    BY <1>3, MainType DEF Structure
  <1>4. CASE Tick
    BY <1>4 DEF Tick, TypeOK
  <1>5. CASE BumpGeneration
    BY <1>5 DEF BumpGeneration, TypeOK
  <1>6. CASE UNCHANGED vars
    BY <1>6 DEF vars, TypeOK
  <1>7. QED BY <1>1, <1>2, <1>3, <1>4, <1>5, <1>6 DEF Next

(* Every state of the runtime data path is well typed: in particular the   *)
(* tag a lane reads or commits and the row a writer invalidates exist.     *)
THEOREM TypeInvariant == Spec => [](TypeOK /\ Structure)
  <1>1. Init => TypeOK /\ Structure
    BY InitTyped
  <1>2. TypeOK /\ Structure /\ [Next]_vars => (TypeOK /\ Structure)'
    BY TypeStep, StructureStep
  <1>3. QED BY <1>1, <1>2, PTL DEF Spec

-----------------------------------------------------------------------------
(* A GOOD row has the evidence its gate asks for.                          *)

(* transition_poll_cache never leaves a GOOD row behind that it changed,   *)
(* and a gate it touches is one of the current driver.                     *)
LEMMA TransitionGood ==
  ASSUME NEW g \in Gate, NEW row \in Snapshot \cup {NoRow}, NEW active \in BOOLEAN,
         NEW restart \in BOOLEAN, NEW e \in Nat, NEW n \in Nat
  PROVE  /\ TransitionGate(g, row, active, restart, e, n).present
         /\ g.epoch = e => TransitionGate(g, row, active, restart, e, n).epoch = e
         /\ restart => TransitionGate(g, row, active, restart, e, n).epoch = e
         /\ TransitionRow(g, row, active, restart).good =>
              /\ TransitionRow(g, row, active, restart) = row
              /\ TransitionGate(g, row, active, restart, e, n).active = g.active
              /\ TransitionGate(g, row, active, restart, e, n).epoch = g.epoch
              /\ TransitionGate(g, row, active, restart, e, n).after = g.after
  <1>1. CASE TransitionIsNoOp(g, row, active, restart)
    BY <1>1 DEF TransitionGate, TransitionRow, TransitionIsNoOp, Gate
  <1>2. CASE ~TransitionIsNoOp(g, row, active, restart)
    BY <1>2 DEF TransitionGate, TransitionRow, Restart, Resume, Suspend, NotGood, Gate
  <1>3. QED BY <1>1, <1>2

(* apply_poll_cache_gate lets a snapshot stay GOOD only with evidence.     *)
LEMMA ApplyGood ==
  ASSUME NEW g \in Gate, g.present, NEW snap \in Snapshot, NEW n \in Nat,
         ApplyPollCacheGate(g, snap, n).good
  PROVE  /\ snap.good /\ g.active
         /\ ApplyPollCacheGate(g, snap, n).read = snap.read
         /\ ApplyPollCacheGate(g, snap, n).ver = snap.ver
         /\ snap.read.epoch = g.epoch
         /\ snap.read.started >= g.after
  <1> DEFINE q == GateQuality(g, snap.read, snap.good, n)
  <1>1. ~(~snap.good /\ snap.state = "Waiting" /\ g.active)
    BY DEF ApplyPollCacheGate
  <1>2. q = "Good"
    BY <1>1 DEF ApplyPollCacheGate, NotGood
  <1>3. g.active /\ snap.good /\ SatisfiesAge(snap.read, g.after, 0, TRUE, n, g.epoch)
    BY <1>2 DEF GateQuality, Gate, Snapshot
  <1>4. ApplyPollCacheGate(g, snap, n) = [snap EXCEPT !.state = "Active"]
    BY <1>1, <1>2 DEF ApplyPollCacheGate
  <1>5. snap.read.epoch = g.epoch /\ snap.read.started >= g.after
    BY <1>3 DEF SatisfiesAge
  <1>6. QED BY <1>3, <1>4, <1>5 DEF Snapshot

(* Whatever a commit stores for a gated row went through the row's gate    *)
(* and comes, if GOOD, from the sample that is committed.                  *)
LEMMA CommittedGood ==
  ASSUME TypeOK, NEW t \in Tags, NEW s \in Sample, NEW r \in GatedRows, RootOf(r) = t,
         NEW undecoded, \A x \in GatedRows : gates[x].present,
         CommittedRow(t, s, r, undecoded).good
  PROVE  /\ s.ok /\ gates[r].active
         /\ CommittedRow(t, s, r, undecoded).read = s.read
         /\ CommittedRow(t, s, r, undecoded).ver = s.ver
         /\ s.read.epoch = gates[r].epoch
         /\ s.read.started >= gates[r].after
  <1>0. now \in Nat /\ gates[t] \in Gate /\ gates[r] \in Gate /\ r \in Rows
    BY DEF TypeOK, Rows, GatedRows
  <1>1. \A x : /\ RawSnapshot(s, x, undecoded) \in Snapshot
               /\ RawSnapshot(s, x, undecoded).good =>
                    /\ s.ok /\ RawSnapshot(s, x, undecoded).read = s.read
                    /\ RawSnapshot(s, x, undecoded).ver = s.ver
    BY NotGoodType DEF RawSnapshot, GoodSnapshot, NotGood, Snapshot, Sample, State
  <1>2. CASE r = t
    <2>1. CommittedRow(t, s, r, undecoded) = ApplyPollCacheGate(gates[r], RawSnapshot(s, r, undecoded), now)
      BY <1>2 DEF CommittedRow, CommittedRoot
    <2>2. QED BY <1>0, <1>1, <2>1, ApplyGood
  <1>3. CASE r # t /\ t \in ArrayRoots
    <2>1. CommittedRow(t, s, r, undecoded) = ApplyPollCacheGate(gates[r], RawSnapshot(s, r, undecoded), now)
      BY <1>3 DEF CommittedRow
    <2>2. QED BY <1>0, <1>1, <2>1, ApplyGood
  <1>4. CASE r # t /\ t \notin ArrayRoots
    <2> DEFINE root == CommittedRoot(t, s, undecoded)
               base == IF root.good /\ r \in undecoded THEN NotGood(root.state) ELSE root
    <2>1. CommittedRow(t, s, r, undecoded) = ApplyPollCacheGate(gates[r], base, now)
      BY <1>4 DEF CommittedRow
    <2>2. root \in Snapshot
      BY <1>0, <1>1, ApplyType DEF CommittedRoot
    <2>3. NotGood(root.state) \in Snapshot
      BY <2>2, NotGoodType DEF Snapshot
    <2>4. base \in Snapshot /\ (base.good => base = root)
      BY <2>2, <2>3 DEF NotGood
    <2>5. gates[t].present
      BY <1>4 DEF GatedRows, Rows
    <2>6. root.good => s.ok /\ root.read = s.read /\ root.ver = s.ver
      BY <1>0, <1>1, <2>5, ApplyGood DEF CommittedRoot
    <2> HIDE DEF base
    <2>7. QED BY <1>0, <2>1, <2>4, <2>6, ApplyGood
  <1>5. QED BY <1>2, <1>3, <1>4

EvidenceInv == TypeOK /\ Structure /\ GatesCurrent /\ GoodRowHasEvidence

(* A transition of some gated rows keeps both invariants.                  *)
LEMMA TransitionEvidence ==
  ASSUME EvidenceInv, NEW rows \in SUBSET Rows, NEW active \in BOOLEAN, NEW restart \in BOOLEAN,
         Transition(rows, active, restart), epoch' = epoch
  PROVE  /\ GoodRowHasEvidence'
         /\ \A r \in GatedRows : gates[r].present /\ gates[r].epoch = epoch =>
                                 gates'[r].present /\ gates'[r].epoch = epoch
         /\ restart => \A r \in rows : gates'[r].present /\ gates'[r].epoch = epoch
  <1>1. \A r \in Rows : /\ gates[r] \in Gate /\ table[r] \in Snapshot \cup {NoRow}
                        /\ epoch \in Nat /\ now \in Nat
    BY DEF EvidenceInv, TypeOK
  <1>2. \A r \in rows : /\ gates'[r] = TransitionGate(gates[r], table[r], active, restart, epoch, now)
                        /\ table'[r] = TransitionRow(gates[r], table[r], active, restart)
    BY DEF Transition
  <1>3. \A r \in Rows \ rows : gates'[r] = gates[r] /\ table'[r] = table[r]
    BY DEF Transition
  <1>4. \A r \in rows : /\ gates'[r].present
                        /\ gates[r].epoch = epoch => gates'[r].epoch = epoch
                        /\ restart => gates'[r].epoch = epoch
                        /\ table'[r].good =>
                             /\ table'[r] = table[r] /\ gates'[r].active = gates[r].active
                             /\ gates'[r].epoch = gates[r].epoch /\ gates'[r].after = gates[r].after
    <2> TAKE r \in rows
    <2>1. r \in Rows /\ gates[r] \in Gate /\ table[r] \in Snapshot \cup {NoRow}
          /\ epoch \in Nat /\ now \in Nat
      BY <1>1
    <2> DEFINE h == gates[r]
               old == table[r]
               g == TransitionGate(h, old, active, restart, epoch, now)
               row == TransitionRow(h, old, active, restart)
    <2>2. /\ g.present
          /\ gates[r].epoch = epoch => g.epoch = epoch
          /\ restart => g.epoch = epoch
          /\ row.good => row = table[r] /\ g.active = gates[r].active
                         /\ g.epoch = gates[r].epoch /\ g.after = gates[r].after
      <3> HIDE DEF h, old
      <3>1. h \in Gate /\ old \in Snapshot \cup {NoRow} /\ epoch \in Nat /\ now \in Nat
        BY <2>1 DEF h, old
      <3>2. QED BY <3>1, TransitionGood DEF h, old
    <2>3. gates'[r] = g /\ table'[r] = row
      BY <1>2
    <2> HIDE DEF g, row
    <2>4. QED BY <2>2, <2>3
  <1>5. GoodRowHasEvidence'
    <2> SUFFICES ASSUME NEW r \in GatedRows, table'[r].good
                 PROVE  /\ gates'[r].active
                        /\ gates'[r].epoch = epoch
                        /\ table'[r].read.epoch = epoch
                        /\ table'[r].read.started >= gates'[r].after
      BY DEF GoodRowHasEvidence
    <2>1. table'[r] = table[r] /\ gates'[r].active = gates[r].active
          /\ gates'[r].epoch = gates[r].epoch /\ gates'[r].after = gates[r].after
      BY <1>3, <1>4 DEF GatedRows
    <2>2. QED BY <2>1 DEF EvidenceInv, GoodRowHasEvidence
  <1>6. QED BY <1>3, <1>4, <1>5 DEF GatedRows

(* Steps that touch neither gates nor rows nor the driver.                 *)
LEMMA FrameEvidence ==
  ASSUME EvidenceInv, UNCHANGED <<epoch, gates, table>>,
         \A l \in Lanes : lane'[l].phase # "dead" =>
            lane[l].phase # "dead" /\ lane'[l].epoch = lane[l].epoch
  PROVE  GatesCurrent' /\ GoodRowHasEvidence'
  BY DEF EvidenceInv, GatesCurrent, GoodRowHasEvidence

LEMMA LaneEvidence ==
  ASSUME EvidenceInv, NEW l \in Lanes, LaneStep(l)
  PROVE  GatesCurrent' /\ GoodRowHasEvidence'
  <1> USE DEF plcVars, cacheVars, laneVars, writeVars, mainVars
  <1>0. lane \in [Lanes -> LaneState]
    BY DEF EvidenceInv, TypeOK
  <1>1. ASSUME NEW t \in Tags, NEW active \in BOOLEAN, TransitionDemand(l, t, active)
        PROVE  GatesCurrent' /\ GoodRowHasEvidence'
    <2> DEFINE rows == IF lane[l].epoch = epoch THEN RowsOf(t) \cap GatedRows ELSE {}
    <2>1. rows \in SUBSET Rows
      BY DEF RowsOf
    <2>2. Transition(rows, active, FALSE) /\ epoch' = epoch
      BY <1>1 DEF TransitionDemand
    <2> HIDE DEF rows
    <2>3. /\ GoodRowHasEvidence'
          /\ \A r \in GatedRows : gates[r].present /\ gates[r].epoch = epoch =>
                                  gates'[r].present /\ gates'[r].epoch = epoch
      BY <2>1, <2>2, TransitionEvidence
    <2>4. lane[l].phase # "dead" /\ lane' = [lane EXCEPT ![l] = LaneAt("pushing", lane[l].epoch)]
      BY <1>1 DEF TransitionDemand
    <2>5. \A k \in Lanes : lane'[k].phase # "dead" =>
             lane[k].phase # "dead" /\ lane'[k].epoch = lane[k].epoch
      BY <1>0, <2>4 DEF LaneAt
    <2>6. GatesCurrent'
      BY <2>2, <2>3, <2>5 DEF EvidenceInv, GatesCurrent
    <2>7. QED BY <2>3, <2>6
  <1>2. ASSUME NEW undecoded \in SUBSET Rows, Commit(l, undecoded)
        PROVE  GatesCurrent' /\ GoodRowHasEvidence'
    <2> DEFINE t == lane[l].tag
               s == lane[l].sample
    <2>1. /\ t \in Tags /\ s \in Sample /\ lane[l].epoch = epoch
          /\ \A r \in GatedRows : gates[r].present /\ gates[r].epoch = epoch
      BY <1>2 DEF Commit, EvidenceInv, Structure, LaneTagOK, GatesCurrent, TypeOK, LaneState
    <2>2. /\ UNCHANGED <<epoch, gates>>
          /\ lane' = [lane EXCEPT ![l] = LaneAt("pushing", lane[l].epoch)]
          /\ lane[l].phase # "dead"
          /\ \A r \in Rows : table'[r] = IF RootOf(r) = t THEN CommittedRow(t, s, r, undecoded)
                                                          ELSE table[r]
      BY <1>2 DEF Commit
    <2> HIDE DEF t, s
    <2>3. GatesCurrent'
      BY <1>0, <2>1, <2>2 DEF EvidenceInv, GatesCurrent, LaneAt
    <2>4. ASSUME NEW r \in GatedRows, table'[r].good
          PROVE  /\ gates[r].active /\ gates[r].epoch = epoch
                 /\ table'[r].read.epoch = epoch
                 /\ table'[r].read.started >= gates[r].after
      <3>1. CASE RootOf(r) = t
        <4>1. table'[r] = CommittedRow(t, s, r, undecoded)
          BY <2>2, <3>1 DEF GatedRows
        <4>2. /\ gates[r].active /\ CommittedRow(t, s, r, undecoded).read = s.read
              /\ s.read.epoch = gates[r].epoch /\ s.read.started >= gates[r].after
          BY <2>1, <2>4, <3>1, <4>1, CommittedGood DEF EvidenceInv
        <4>3. QED BY <2>1, <4>1, <4>2
      <3>2. CASE RootOf(r) # t
        BY <2>2, <2>4, <3>2 DEF EvidenceInv, GoodRowHasEvidence, GatedRows
      <3>3. QED BY <3>1, <3>2
    <2>5. GoodRowHasEvidence'
      BY <2>2, <2>4 DEF GoodRowHasEvidence
    <2>6. QED BY <2>3, <2>5
  <1>3. ASSUME NEW t \in Tags, SkipInactive(l, t) \/ UsePrefetched(l, t)
                               \/ \E others \in SUBSET Tags : BeginRead(l, t, others)
        PROVE  GatesCurrent' /\ GoodRowHasEvidence'
    BY <1>0, <1>3, FrameEvidence DEF SkipInactive, UsePrefetched, BeginRead, LaneHolding
  <1>4. CASE \/ \E oks \in SUBSET Tags : FinishRead(l, oks)
             \/ DropSample(l) \/ LanePush(l) \/ LaneExit(l)
    BY <1>0, <1>4, FrameEvidence DEF FinishRead, DropSample, LanePush, LaneExit, LaneHolding, LaneAt
  <1>5. QED BY <1>1, <1>2, <1>3, <1>4 DEF LaneStep

LEMMA WriterEvidence ==
  ASSUME EvidenceInv, NEW w \in Writers, WriterStep(w)
  PROVE  GatesCurrent' /\ GoodRowHasEvidence'
  <1> USE DEF plcVars, cacheVars, laneVars, writeVars, mainVars
  <1>1. CASE Invalidate(w) /\ UNCHANGED <<epoch, lane>>
    <2> DEFINE rows == RowsOf(RootOf(writer[w].row)) \cap GatedRows
    <2>1. rows \in SUBSET Rows
      BY DEF RowsOf
    <2>2. CASE writer[w].epoch = epoch
      <3>1. Transition(rows, TRUE, TRUE) /\ epoch' = epoch
        BY <1>1, <2>2 DEF Invalidate
      <3> HIDE DEF rows
      <3>2. /\ GoodRowHasEvidence'
            /\ \A r \in GatedRows : gates[r].present /\ gates[r].epoch = epoch =>
                                    gates'[r].present /\ gates'[r].epoch = epoch
        BY <2>1, <3>1, TransitionEvidence
      <3>3. QED BY <1>1, <3>2 DEF EvidenceInv, GatesCurrent
    <2>3. CASE writer[w].epoch # epoch
      BY <1>1, <2>3, FrameEvidence DEF Invalidate
    <2>4. QED BY <2>2, <2>3
  <1>2. CASE UNCHANGED <<epoch, gates, table, lane>>
    BY <1>2, FrameEvidence
  <1>3. QED
    BY <1>1, <1>2 DEF WriterStep, BeginWrite, BeginUaWrite, RefuseWrite, ReturnFromWrite, WriteEntry, WriterPush, AcquireGate,
                      RejectWrite, PlcWrite, WriteExit

LEMMA MainEvidence ==
  ASSUME EvidenceInv, MainStep
  PROVE  GatesCurrent' /\ GoodRowHasEvidence'
  <1> USE DEF plcVars, cacheVars, laneVars, writeVars, mainVars
  <1>1. CASE LoadDriver
    <2>1. \A l \in Lanes : lane'[l].phase = "dead"
      BY <1>1 DEF LoadDriver, EvidenceInv, Structure, LanesJoined
    <2>2. \A r \in GatedRows : ~table'[r].good
      BY <1>1 DEF LoadDriver, NoRow, GatedRows
    <2>3. QED BY <2>1, <2>2 DEF GatesCurrent, GoodRowHasEvidence
  <1>2. CASE StartPollers
    <2>1. GatedRows \in SUBSET Rows
      BY DEF GatedRows
    <2>2. /\ GoodRowHasEvidence'
          /\ \A r \in GatedRows : gates'[r].present /\ gates'[r].epoch = epoch
      BY <1>2, <2>1, TransitionEvidence DEF StartPollers
    <2>3. GatesCurrent'
      BY <1>2, <2>2 DEF StartPollers, GatesCurrent, LaneAt
    <2>4. QED BY <2>2, <2>3
  <1>3. CASE UNCHANGED <<epoch, gates, table, lane>>
    BY <1>3, FrameEvidence
  <1>4. QED
    BY <1>1, <1>2, <1>3 DEF MainStep, SwapUaQueue, TakeReadback, CheckUpdate, FetchCached, ApplyUpdate,
                  DrainDone, StopPollers, JoinPollers, LoadFails

LEMMA EvidenceStep ==
  ASSUME EvidenceInv, [Next]_vars
  PROVE  EvidenceInv'
  <1>1. TypeOK' /\ Structure'
    BY TypeStep, StructureStep DEF EvidenceInv
  <1>2. ASSUME NEW l \in Lanes, LaneStep(l) PROVE GatesCurrent' /\ GoodRowHasEvidence'
    BY <1>2, LaneEvidence
  <1>3. ASSUME NEW w \in Writers, WriterStep(w) PROVE GatesCurrent' /\ GoodRowHasEvidence'
    BY <1>3, WriterEvidence
  <1>4. ASSUME MainStep PROVE GatesCurrent' /\ GoodRowHasEvidence'
    BY <1>4, MainEvidence
  <1>5. CASE Tick \/ BumpGeneration \/ UNCHANGED vars
    <2>1. UNCHANGED <<epoch, gates, table, lane>>
      BY <1>5 DEF Tick, BumpGeneration, vars, cacheVars, laneVars
    <2>2. GatesCurrent' /\ GoodRowHasEvidence'
      BY <2>1, FrameEvidence
    <2>3. QED BY <1>1, <2>2 DEF EvidenceInv
  <1>6. QED BY <1>1, <1>2, <1>3, <1>4, <1>5 DEF Next, EvidenceInv

(* In every state of every instance, a gated row of the tag table is GOOD  *)
(* only on a read by the current driver that started at or after the row's *)
(* last restart, resume or write boundary: a sample of a replaced driver,  *)
(* of a suspended tag or from before a write never makes a row GOOD.       *)
THEOREM EvidenceInvariant == Spec => []GoodRowHasEvidence
  <1>1. Init => EvidenceInv
    <2>1. Init => GatesCurrent /\ GoodRowHasEvidence
      BY DEF Init, GatesCurrent, GoodRowHasEvidence, LaneAt, NoRow, GatedRows
    <2>2. QED BY <2>1, InitTyped DEF EvidenceInv
  <1>2. EvidenceInv /\ [Next]_vars => EvidenceInv'
    BY EvidenceStep
  <1>3. EvidenceInv => GoodRowHasEvidence
    BY DEF EvidenceInv
  <1>4. QED BY <1>1, <1>2, <1>3, PTL DEF Spec
=============================================================================
