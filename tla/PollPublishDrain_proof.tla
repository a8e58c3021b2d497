----------------------- MODULE PollPublishDrain_proof -----------------------
(***************************************************************************)
(* The nodes of the OPC UA server follow the tag table: a node that shows  *)
(* GOOD although its row is no longer GOOD is about to be corrected, and   *)
(* a GOOD row is shown by its node or on its way there; for every set of   *)
(* tags, lanes and writers and every bound.                                *)
(*                                                                         *)
(* The updates of a row travel through the outbox of its lane, uaQueue and *)
(* the drain's local copy, in this order; those of writers come in by      *)
(* another queue and are put in front.  So which update reaches the node   *)
(* last is not the order in which the row changed.  The argument follows   *)
(* the last word: while a row is GOOD, the last update on the lane's way,  *)
(* or what has reached the node, is the row itself, and whatever writers   *)
(* put in front is a Waiting update, which the drain drops.  While a row is*)
(* not GOOD, a GOOD update that the drain would still accept is followed   *)
(* by a correction on the same way, since one that was read before a write *)
(* or a restart is no longer accepted; and if the node still shows GOOD,   *)
(* or is being given a GOOD value, a correction is somewhere under way,    *)
(* which the drain does not drop, whether a reload clears uaQueue or not.  *)
(***************************************************************************)
EXTENDS PollPublishNode_proof, PollPublishWrite_proof

(* The lane that polls a row's tag, and what it has still to push.         *)
Out(r) == laneOut[LaneOf[RootOf(r)]][r]

(* Bookkeeping of the threads: outboxes are empty except between a section *)
(* under driverMutex and the push after it, and so are the drain's copies; *)
(* writers announce nothing but Waiting rows.                              *)
IsWaiting(u) == ~u.snap.good /\ u.snap.state = "Waiting"

LaneOK(l) ==
    /\ lane[l].phase # "pushing" => laneOut[l] = NoOutbox
    /\ lane[l].phase \in {"reading", "holding"} => LaneOf[lane[l].tag] = l
    /\ \A r \in Rows : laneOut[l][r] # NoUpdate => LaneOf[RootOf(r)] = l

LanesOK == \A l \in Lanes : LaneOK(l)

PushesPending(w) == writer[w].phase \in {"entryPush", "exitPush"}

ReadbackOK ==
    /\ \A w \in Writers : ~PushesPending(w) => writerOut[w] = NoOutbox
    /\ \A w \in Writers, r \in Rows : writerOut[w][r] = NoUpdate \/ IsWaiting(writerOut[w][r])
    /\ \A r \in Rows : \A i \in DOMAIN readback[r] : IsWaiting(readback[r][i])

DrainOK ==
    /\ main \notin {"swapped", "draining"} => local = EmptyQueues
    /\ main \notin {"draining", "uaRefresh"} => applying = NoApply

(* Reads take time, and end in the past.                                   *)
PastAt(stamp, n) ==
    1 <= stamp.started /\ stamp.started < stamp.completed /\ stamp.completed <= n

Past(stamp) == PastAt(stamp, now)

ReadsOK ==
    /\ now >= 1
    /\ \A t \in Tags : prefetch[t].ok => Past(prefetch[t].read)
    /\ \A l \in Lanes : /\ lane[l].phase = "reading" => 1 <= lane[l].started
                        /\ lane[l].phase = "holding" /\ lane[l].sample.ok => Past(lane[l].sample.read)

SnapAt(snap, n) == snap.good => snap.state = "Active" /\ PastAt(snap.read, n)

SnapOK(snap) == SnapAt(snap, now)

RowSnapsOK(r) ==
    /\ SnapOK(table[r])
    /\ SnapOK(Out(r).snap)
    /\ \A i \in DOMAIN uaQueue[r] : SnapOK(uaQueue[r][i].snap)
    /\ \A i \in DOMAIN local[r] : SnapOK(local[r][i].snap)

SnapsOK == \A r \in GatedRows : RowSnapsOK(r)

(* The nodes' gate is the current driver's and older than those of its rows.*)
GatesMade ==
    /\ epoch >= 1
    /\ binding.active /\ binding.epoch = epoch /\ binding.after <= now
    /\ \A r \in GatedRows :
          /\ main # "starting" => gates[r].present /\ gates[r].epoch = epoch
          /\ gates[r].epoch = epoch => gates[r].after >= binding.after

(* An update that takes a GOOD value back, and one the drain lets through. *)
CorrectsAt(u, e) == u.epoch = e /\ ~u.snap.good

Corrects(u) == CorrectsAt(u, epoch)

AcceptedAt(u, e, g) ==
    /\ u.epoch = e /\ u.snap.good
    /\ g.active /\ u.snap.read.started >= g.after

Accepted(u, r) == AcceptedAt(u, epoch, gates[r])

(* A GOOD update that the drain would still let through although the row   *)
(* is no longer GOOD is followed by its correction.                        *)
AcceptedIsFollowed(r) ==
    /\ ~Accepted(Out(r), r)
    /\ \A i \in DOMAIN uaQueue[r] : Accepted(uaQueue[r][i], r) =>
          \/ \E j \in DOMAIN uaQueue[r] : j > i /\ Corrects(uaQueue[r][j])
          \/ Corrects(Out(r))
    /\ \A i \in DOMAIN local[r] : Accepted(local[r][i], r) =>
          \/ \E j \in DOMAIN local[r] : j > i /\ Corrects(local[r][j])
          \/ \E j \in DOMAIN uaQueue[r] : Corrects(uaQueue[r][j])
          \/ Corrects(Out(r))

HasCorrection(q, e) == \E i \in DOMAIN q : CorrectsAt(q[i], e)

FollowedIn(q, e, g, after) ==
    \A i \in DOMAIN q : AcceptedAt(q[i], e, g) =>
        \/ \E j \in DOMAIN q : j > i /\ CorrectsAt(q[j], e)
        \/ after

(* A correction that will reach the node, whatever comes before it.        *)
Coming(r) ==
    \/ Corrects(Out(r))
    \/ \E w \in Writers : Corrects(writerOut[w][r])
    \/ \E i \in DOMAIN uaQueue[r] : Corrects(uaQueue[r][i])
    \/ \E i \in DOMAIN readback[r] : Corrects(readback[r][i])
    \/ \E i \in DOMAIN local[r] : Corrects(local[r][i])
    \/ applying.row = r /\ ~applying.update.snap.good

Stale(r) ==
    \/ node[r].status = "Good" /\ node[r].started # 0
    \/ applying.row = r /\ applying.update.snap.good

(* The word a GOOD row has sent, or that its node has received.            *)
CarriesRow(u, r) == u.epoch = epoch /\ u.snap = table[r]

CallbackOn(r) ==
    \/ main = "uaWrite" /\ \E w \in UaWriters : writer[w].phase # "idle" /\ writer[w].row = r
    \/ main = "uaRefresh" /\ applying.row = r /\ applying.update = NoUpdate

Shown(r) == node[r].status = "Good" /\ node[r].started = table[r].read.started

Arrived(r) ==
    /\ \A i \in DOMAIN local[r] : IsWaiting(local[r][i])
    /\ \/ applying.row = r /\ CarriesRow(applying.update, r)
       \/ (applying.row = r => applying.update = NoUpdate) /\ (Shown(r) \/ CallbackOn(r))

Sent(r) ==
    \/ CarriesRow(Out(r), r)
    \/ /\ Out(r) = NoUpdate
       /\ \/ uaQueue[r] # <<>> /\ CarriesRow(uaQueue[r][Len(uaQueue[r])], r)
          \/ /\ uaQueue[r] = <<>>
             /\ \/ local[r] # <<>> /\ CarriesRow(local[r][Len(local[r])], r)
                \/ Arrived(r)

RowOK(r) ==
    IF table[r].good THEN Sent(r)
                     ELSE AcceptedIsFollowed(r) /\ (Stale(r) => Coming(r))

PublicationOK == Reloading \/ \A r \in GatedRows : RowOK(r)

PlumbingInv == EvidenceInv /\ ClientInv /\ LanesOK /\ ReadbackOK /\ DrainOK

DrainInv == PlumbingInv /\ ReadsOK /\ SnapsOK /\ GatesMade /\ PublicationOK

-----------------------------------------------------------------------------
(* Bookkeeping.                                                            *)

LEMMA LanesStep ==
  ASSUME PlumbingInv, [Next]_vars
  PROVE  LanesOK'
  <1> USE DEF plcVars, cacheVars, laneVars, writeVars, mainVars
  <1>0. /\ lane \in [Lanes -> LaneState] /\ laneOut \in [Lanes -> Outbox]
        /\ \A l \in Lanes : LaneOK(l)
    BY DEF PlumbingInv, EvidenceInv, TypeOK, LanesOK
  <1>1. CASE UNCHANGED <<lane, laneOut>>
    BY <1>1 DEF PlumbingInv, LanesOK, LaneOK
  <1>2. ASSUME NEW l \in Lanes, LaneStep(l)
        PROVE  LanesOK'
    <2>1. ASSUME \A k \in Lanes : k # l => lane'[k] = lane[k] /\ laneOut'[k] = laneOut[k],
                 LaneOK(l)'
          PROVE  LanesOK'
      BY <1>0, <2>1 DEF LanesOK, LaneOK
    <2>2. ASSUME NEW t \in Tags, NEW active \in BOOLEAN, TransitionDemand(l, t, active)
          PROVE  LanesOK'
      <3>1. /\ \A k \in Lanes : k # l => lane'[k] = lane[k] /\ laneOut'[k] = laneOut[k]
            /\ lane'[l].phase = "pushing" /\ LaneOf[t] = l
            /\ \A r \in Rows : laneOut'[l][r] # NoUpdate => RootOf(r) = t
        BY <1>0, <2>2 DEF TransitionDemand, LaneAt, TransitionUpdates, RowsOf
      <3>2. QED BY <2>1, <3>1 DEF LaneOK
    <2>3. ASSUME NEW undecoded \in SUBSET Rows, Commit(l, undecoded)
          PROVE  LanesOK'
      <3>1. /\ \A k \in Lanes : k # l => lane'[k] = lane[k] /\ laneOut'[k] = laneOut[k]
            /\ lane'[l].phase = "pushing" /\ LaneOf[lane[l].tag] = l
            /\ \A r \in Rows : laneOut'[l][r] # NoUpdate => RootOf(r) = lane[l].tag
        BY <1>0, <2>3 DEF Commit, LaneAt, LaneOK
      <3>2. QED BY <2>1, <3>1 DEF LaneOK
    <2>4. ASSUME NEW t \in Tags, NEW others \in SUBSET Tags, BeginRead(l, t, others)
          PROVE  LanesOK'
      BY <1>0, <2>1, <2>4 DEF BeginRead, LaneOK
    <2>5. ASSUME NEW t \in Tags, UsePrefetched(l, t)
          PROVE  LanesOK'
      BY <1>0, <2>1, <2>5 DEF UsePrefetched, LaneHolding, LaneOK
    <2>6. ASSUME NEW oks \in SUBSET Tags, FinishRead(l, oks)
          PROVE  LanesOK'
      BY <1>0, <2>1, <2>6 DEF FinishRead, LaneHolding, LaneOK
    <2>7. CASE DropSample(l) \/ LaneExit(l)
      BY <1>0, <2>1, <2>7 DEF DropSample, LaneExit, LaneAt, LaneOK
    <2>8. CASE LanePush(l)
      <3>1. /\ \A k \in Lanes : k # l => lane'[k] = lane[k] /\ laneOut'[k] = laneOut[k]
            /\ lane'[l].phase = "idle" /\ laneOut'[l] = NoOutbox
        BY <1>0, <2>8 DEF LanePush, LaneAt
      <3>2. QED BY <2>1, <3>1 DEF LaneOK, NoOutbox
    <2>9. ASSUME NEW t \in Tags, SkipInactive(l, t)
          PROVE  LanesOK'
      BY <1>1, <2>9 DEF SkipInactive
    <2>10. QED
      BY <1>2, <2>2, <2>3, <2>4, <2>5, <2>6, <2>7, <2>8, <2>9 DEF LaneStep
  <1>3. CASE StartPollers
    <2>1. \A l \in Lanes : lane[l].phase = "dead"
      BY <1>3 DEF StartPollers, PlumbingInv, EvidenceInv, Structure, LanesJoined
    <2>2. /\ UNCHANGED laneOut
          /\ \A l \in Lanes : lane'[l].phase = "idle"
      BY <1>3 DEF StartPollers, LaneAt
    <2>3. QED BY <1>0, <2>1, <2>2 DEF LanesOK, LaneOK
  <1>4. ASSUME NEW w \in Writers, WriterStep(w)
        PROVE  UNCHANGED <<lane, laneOut>>
    BY <1>4 DEF WriterStep, BeginWrite, BeginUaWrite, RefuseWrite, WriteEntry, WriterPush,
       AcquireGate, RejectWrite, PlcWrite, WriteExit
  <1>5. CASE MainStep /\ ~StartPollers
    BY <1>1, <1>5 DEF MainStep, SwapUaQueue, TakeReadback, CheckUpdate, FetchCached, ApplyUpdate,
       DrainDone, StopPollers, JoinPollers, LoadDriver, LoadFails
  <1>6. CASE Tick \/ BumpGeneration \/ UNCHANGED vars
    BY <1>1, <1>6 DEF Tick, BumpGeneration, vars
  <1>7. QED BY <1>1, <1>2, <1>3, <1>4, <1>5, <1>6 DEF Next

(* A readback resets its rows to Waiting and announces that.               *)
LEMMA RestartUpdates ==
  ASSUME NEW rows, NEW r \in Rows
  PROVE  /\ r \in rows => /\ IsWaiting(TransitionUpdates(rows, TRUE, TRUE)[r])
                          /\ TransitionUpdates(rows, TRUE, TRUE)[r].epoch = epoch
         /\ r \notin rows => TransitionUpdates(rows, TRUE, TRUE)[r] = NoUpdate
  BY DEF TransitionUpdates, TransitionRow, TransitionIsNoOp, NotGood, IsWaiting

LEMMA PushedUpdates ==
  ASSUME NEW q \in Queues, NEW out \in Outbox, NEW r \in Rows
  PROVE  /\ out[r] = NoUpdate => PushAll(q, out)[r] = q[r]
         /\ out[r] # NoUpdate => /\ PushAll(q, out)[r] = Append(q[r], out[r])
                                 /\ Len(PushAll(q, out)[r]) = Len(q[r]) + 1
                                 /\ PushAll(q, out)[r][Len(q[r]) + 1] = out[r]
                                 /\ \A i \in 1..Len(q[r]) : PushAll(q, out)[r][i] = q[r][i]
  <1>1. q[r] \in Seq(Update) /\ out[r] \in Update
    BY DEF Queues, Outbox
  <1>2. PushAll(q, out)[r] = IF out[r] = NoUpdate THEN q[r] ELSE Append(q[r], out[r])
    BY DEF PushAll
  <1>3. QED BY <1>1, <1>2

LEMMA ReadbackStep ==
  ASSUME PlumbingInv, [Next]_vars
  PROVE  ReadbackOK'
  <1> USE DEF plcVars, cacheVars, laneVars, writeVars, mainVars
  <1>0. /\ writerOut \in [Writers -> Outbox] /\ readback \in Queues
        /\ writer \in [Writers -> WriterState]
        /\ \A w \in Writers : ~PushesPending(w) => writerOut[w] = NoOutbox
        /\ \A w \in Writers, r \in Rows : writerOut[w][r] = NoUpdate \/ IsWaiting(writerOut[w][r])
        /\ \A r \in Rows : \A i \in DOMAIN readback[r] : IsWaiting(readback[r][i])
    BY DEF PlumbingInv, EvidenceInv, TypeOK, ReadbackOK
  <1>1. ASSUME UNCHANGED <<writerOut, readback>>,
               \A v \in Writers : PushesPending(v) => PushesPending(v)'
        PROVE  ReadbackOK'
    BY <1>0, <1>1 DEF ReadbackOK
  <1>2. ASSUME NEW w \in Writers, WriteEntry(w) \/ WriteExit(w)
        PROVE  ReadbackOK'
    <2> DEFINE rows == RowsOf(RootOf(writer[w].row)) \cap GatedRows
    <2>0. \A v \in Writers : (PushesPending(v) \/ v = w) => PushesPending(v)'
      BY <1>0, <1>2 DEF WriteEntry, WriteExit, WriterAt, PushesPending
    <2>1. CASE writer[w].epoch = epoch
      <3>1. /\ writerOut' = [writerOut EXCEPT ![w] = TransitionUpdates(rows, TRUE, TRUE)]
            /\ UNCHANGED readback
        BY <1>2, <2>1 DEF WriteEntry, WriteExit, Invalidate
      <3> HIDE DEF rows
      <3>2. \A r \in Rows : LET u == TransitionUpdates(rows, TRUE, TRUE)[r]
                            IN  u = NoUpdate \/ IsWaiting(u)
        BY RestartUpdates
      <3>3. QED BY <1>0, <2>0, <3>1, <3>2 DEF ReadbackOK
    <2>2. CASE writer[w].epoch # epoch
      BY <1>1, <1>2, <2>0, <2>2 DEF WriteEntry, WriteExit, Invalidate
    <2>3. QED BY <2>1, <2>2
  <1>3. ASSUME NEW w \in Writers, WriterPush(w)
        PROVE  ReadbackOK'
    <2>1. /\ readback' = PushAll(readback, writerOut[w])
          /\ writerOut' = [writerOut EXCEPT ![w] = NoOutbox]
      BY <1>3 DEF WriterPush
    <2>0. \A v \in Writers : v # w => (PushesPending(v) <=> PushesPending(v)')
      BY <1>0, <1>3 DEF WriterPush, PushesPending
    <2>00. \A v \in Writers : ~PushesPending(v)' => writerOut'[v] = NoOutbox
      BY <1>0, <2>0, <2>1
    <2>2. \A v \in Writers, r \in Rows : writerOut'[v][r] = NoUpdate \/ IsWaiting(writerOut'[v][r])
      BY <1>0, <2>1 DEF NoOutbox
    <2>3. ASSUME NEW r \in Rows, NEW i \in DOMAIN readback'[r]
          PROVE  IsWaiting(readback'[r][i])
      <3>1. writerOut[w] \in Outbox /\ readback[r] \in Seq(Update)
        BY <1>0 DEF Queues
      <3>2. CASE writerOut[w][r] = NoUpdate
        BY <1>0, <2>1, <2>3, <3>1, <3>2, PushedUpdates
      <3>3. CASE writerOut[w][r] # NoUpdate
        <4>1. /\ readback'[r] = Append(readback[r], writerOut[w][r])
              /\ readback'[r][Len(readback[r]) + 1] = writerOut[w][r]
              /\ \A j \in 1..Len(readback[r]) : readback'[r][j] = readback[r][j]
          BY <1>0, <2>1, <3>1, <3>3, PushedUpdates
        <4>2. i \in 1..(Len(readback[r]) + 1)
          BY <2>3, <3>1, <4>1
        <4>3. DOMAIN readback[r] = 1..Len(readback[r]) /\ Len(readback[r]) \in Nat
          BY <3>1
        <4>4. i = Len(readback[r]) + 1 \/ i \in DOMAIN readback[r]
          BY <4>2, <4>3
        <4>5. QED BY <1>0, <3>3, <4>1, <4>3, <4>4
      <3>4. QED BY <3>2, <3>3
    <2>4. QED BY <2>00, <2>2, <2>3 DEF ReadbackOK
  <1>4. CASE TakeReadback
    BY <1>0, <1>4 DEF TakeReadback, ReadbackOK, EmptyQueues, PushesPending
  <1>5. ASSUME NEW l \in Lanes, LaneStep(l)
        PROVE  UNCHANGED <<writerOut, readback, writer>>
    BY <1>5 DEF LaneStep, TransitionDemand, SkipInactive, BeginRead, FinishRead, UsePrefetched,
       Commit, DropSample, LanePush, LaneExit
  <1>6. ASSUME NEW w \in Writers, WriterStep(w), ~WriterPush(w), ~WriteEntry(w), ~WriteExit(w)
        PROVE  ReadbackOK'
    <2>1. /\ UNCHANGED <<writerOut, readback>>
          /\ \A v \in Writers : v # w => writer'[v] = writer[v]
          /\ ~PushesPending(w)
      BY <1>0, <1>6 DEF WriterStep, BeginWrite, BeginUaWrite, RefuseWrite, AcquireGate, RejectWrite,
         PlcWrite, PushesPending
    <2>2. QED BY <1>1, <2>1 DEF PushesPending
  <1>7. ASSUME UNCHANGED <<writerOut, readback, writer>>
        PROVE  ReadbackOK'
    BY <1>1, <1>7 DEF PushesPending
  <1>8. CASE MainStep /\ ~TakeReadback
    BY <1>7, <1>8 DEF MainStep, SwapUaQueue, CheckUpdate, FetchCached, ApplyUpdate,
       DrainDone, StopPollers, JoinPollers, LoadDriver, LoadFails, StartPollers
  <1>9. CASE Tick \/ BumpGeneration \/ UNCHANGED vars
    BY <1>7, <1>9 DEF Tick, BumpGeneration, vars
  <1>10. QED BY <1>2, <1>3, <1>4, <1>5, <1>6, <1>7, <1>8, <1>9 DEF Next

LEMMA DrainStep ==
  ASSUME PlumbingInv, [Next]_vars
  PROVE  DrainOK'
  <1> USE DEF plcVars, cacheVars, laneVars, writeVars, mainVars
  <1>0. DrainOK
    BY DEF PlumbingInv
  <1>1. CASE UNCHANGED <<main, local, applying>>
    BY <1>0, <1>1 DEF DrainOK
  <1>2. ASSUME NEW l \in Lanes, LaneStep(l)
        PROVE  UNCHANGED <<main, local, applying>>
    BY <1>2 DEF LaneStep, TransitionDemand, SkipInactive, BeginRead, FinishRead, UsePrefetched,
       Commit, DropSample, LanePush, LaneExit
  <1>3. ASSUME NEW w \in Writers, WriterStep(w)
        PROVE  DrainOK'
    <2>1. ASSUME NEW r \in GatedRows, BeginUaWrite(w, r)
          PROVE  DrainOK'
      BY <1>0, <2>1 DEF BeginUaWrite, DrainOK
    <2>2. ASSUME writer[w].phase # "idle", ReturnFromWrite(w), UNCHANGED local
          PROVE  DrainOK'
      <3>1. w \in UaWriters => main = "uaWrite"
        BY <2>2 DEF PlumbingInv, ClientInv, OneCallback
      <3>2. QED BY <1>0, <2>2, <3>1 DEF ReturnFromWrite, DrainOK
    <2>3. CASE RefuseWrite(w)
      BY <2>2, <2>3 DEF RefuseWrite
    <2>4. CASE WriterPush(w)
      BY <1>1, <2>2, <2>4 DEF WriterPush
    <2>5. QED
      BY <1>1, <1>3, <2>1, <2>3, <2>4 DEF WriterStep, BeginWrite, WriteEntry, AcquireGate, RejectWrite,
         PlcWrite, WriteExit
  <1>4. CASE MainStep
    BY <1>0, <1>4 DEF MainStep, SwapUaQueue, TakeReadback, CheckUpdate, FetchCached, ApplyUpdate,
       DrainDone, StopPollers, JoinPollers, LoadDriver, LoadFails, StartPollers, DrainOK
  <1>5. CASE Tick \/ BumpGeneration \/ UNCHANGED vars
    BY <1>1, <1>5 DEF Tick, BumpGeneration, vars
  <1>6. QED BY <1>1, <1>2, <1>3, <1>4, <1>5 DEF Next

LEMMA PlumbingStep ==
  ASSUME PlumbingInv, [Next]_vars
  PROVE  PlumbingInv'
  BY LanesStep, ReadbackStep, DrainStep, EvidenceStep, ClientStep DEF PlumbingInv

-----------------------------------------------------------------------------
(* Times and gates.                                                        *)

LEMMA TimeStep ==
  ASSUME TypeOK, [Next]_vars
  PROVE  now' \in Nat /\ now' >= now
  <1> USE DEF plcVars, cacheVars, laneVars, writeVars, mainVars
  <1>0. now \in Nat
    BY DEF TypeOK
  <1>1. CASE Tick
    BY <1>0, <1>1 DEF Tick
  <1>2. CASE UNCHANGED now
    BY <1>0, <1>2
  <1>3. ASSUME NEW l \in Lanes, LaneStep(l)
        PROVE  UNCHANGED now
    BY <1>3 DEF LaneStep, TransitionDemand, SkipInactive, BeginRead, FinishRead, UsePrefetched,
       Commit, DropSample, LanePush, LaneExit
  <1>4. ASSUME NEW w \in Writers, WriterStep(w)
        PROVE  UNCHANGED now
    BY <1>4 DEF WriterStep, BeginWrite, BeginUaWrite, RefuseWrite, WriteEntry, WriterPush,
       AcquireGate, RejectWrite, PlcWrite, WriteExit
  <1>5. CASE MainStep
    BY <1>2, <1>5 DEF MainStep, SwapUaQueue, TakeReadback, CheckUpdate, FetchCached, ApplyUpdate,
       DrainDone, StopPollers, JoinPollers, LoadDriver, LoadFails, StartPollers
  <1>6. QED
    BY <1>1, <1>2, <1>3, <1>4, <1>5 DEF Next, BumpGeneration, vars

(* ReadsOK when only time passes.                                          *)
LEMMA ReadsKept ==
  ASSUME TypeOK, ReadsOK, now' \in Nat, now' >= now, UNCHANGED <<lane, prefetch>>
  PROVE  ReadsOK'
  <1>1. now \in Nat /\ now' >= 1
    BY DEF TypeOK, ReadsOK
  <1>2. ASSUME NEW t \in Tags, prefetch[t].ok PROVE Past(prefetch[t].read)'
    <2>1. prefetch[t].read \in Stamp /\ Past(prefetch[t].read)
      BY <1>2 DEF TypeOK, Sample, ReadsOK
    <2>2. prefetch'[t].read = prefetch[t].read
      OBVIOUS
    <2>3. QED BY <1>1, <2>1, <2>2 DEF Past, PastAt, Stamp
  <1>3. ASSUME NEW l \in Lanes, lane[l].phase = "holding", lane[l].sample.ok
        PROVE  Past(lane[l].sample.read)'
    <2>1. lane[l].sample.read \in Stamp /\ Past(lane[l].sample.read)
      BY <1>3 DEF TypeOK, LaneState, Sample, ReadsOK
    <2>2. lane'[l].sample.read = lane[l].sample.read
      OBVIOUS
    <2>3. QED BY <1>1, <2>1, <2>2 DEF Past, PastAt, Stamp
  <1>4. QED BY <1>1, <1>2, <1>3 DEF ReadsOK

LEMMA ReadsStep ==
  ASSUME DrainInv, [Next]_vars
  PROVE  ReadsOK'
  <1> USE DEF plcVars, cacheVars, laneVars, writeVars, mainVars
  <1>0. /\ TypeOK /\ ReadsOK /\ now \in Nat
        /\ lane \in [Lanes -> LaneState] /\ prefetch \in [Tags -> Sample]
    BY DEF DrainInv, PlumbingInv, EvidenceInv, TypeOK
  <1>1. now' \in Nat /\ now' >= now
    BY <1>0, TimeStep
  <1>2. CASE UNCHANGED <<lane, prefetch>>
    BY <1>0, <1>1, <1>2, ReadsKept
  <1>3. ASSUME NEW l \in Lanes, LaneStep(l)
        PROVE  ReadsOK'
    <2>0. UNCHANGED now
      BY <1>3 DEF LaneStep, TransitionDemand, SkipInactive, BeginRead, FinishRead, UsePrefetched,
       Commit, DropSample, LanePush, LaneExit
    <2>1. ASSUME \A k \in Lanes : k # l => lane'[k] = lane[k],
                 lane'[l].phase \notin {"reading", "holding"},
                 \A t \in Tags : prefetch'[t] = prefetch[t] \/ ~prefetch'[t].ok
          PROVE  ReadsOK'
      BY <1>0, <2>0, <2>1 DEF ReadsOK, Past, PastAt
    <2>2. ASSUME NEW t \in Tags, NEW active \in BOOLEAN, TransitionDemand(l, t, active)
          PROVE  ReadsOK'
      BY <1>0, <2>1, <2>2 DEF TransitionDemand, LaneAt, NoSample
    <2>3. ASSUME NEW t \in Tags, SkipInactive(l, t)
          PROVE  ReadsOK'
      BY <1>0, <2>1, <2>3 DEF SkipInactive, NoSample
    <2>4. ASSUME NEW t \in Tags, NEW others \in SUBSET Tags, BeginRead(l, t, others)
          PROVE  ReadsOK'
      BY <1>0, <2>0, <2>4 DEF BeginRead, ReadsOK, Past, PastAt
    <2>5. ASSUME NEW oks \in SUBSET Tags, FinishRead(l, oks)
          PROVE  ReadsOK'
      <3>1. /\ now > lane[l].started /\ lane[l].started >= 1
            /\ lane' = [lane EXCEPT ![l] = LaneHolding(lane[l].tag,
                    ReadResult(l, lane[l].tag, lane[l].tag \in oks), lane[l].epoch)]
            /\ \A t \in Tags : \/ prefetch'[t] = ReadResult(l, t, t \in oks)
                               \/ prefetch'[t] = prefetch[t]
        BY <1>0, <2>5 DEF FinishRead, ReadsOK
      <3>2. lane[l].started \in Nat
        BY <1>0 DEF LaneState
      <3>3. \A t, ok : Past(ReadResult(l, t, ok).read)
        BY <1>0, <3>1, <3>2 DEF ReadResult, Past, PastAt
      <3>4. \A t \in Tags : prefetch'[t].ok => Past(prefetch'[t].read)
        BY <1>0, <3>1, <3>3 DEF ReadsOK
      <3>5. /\ \A k \in Lanes : k # l => lane'[k] = lane[k]
            /\ lane'[l].phase = "holding" /\ Past(lane'[l].sample.read)
        BY <1>0, <3>1, <3>3 DEF LaneHolding
      <3>6. QED BY <1>0, <2>0, <3>4, <3>5 DEF ReadsOK, Past, PastAt
    <2>6. ASSUME NEW t \in Tags, UsePrefetched(l, t)
          PROVE  ReadsOK'
      <3>1. /\ \A k \in Lanes : k # l => lane'[k] = lane[k]
            /\ lane'[l].phase = "holding" /\ lane'[l].sample = prefetch[t]
            /\ \A q \in Tags : prefetch'[q] = prefetch[q] \/ ~prefetch'[q].ok
        BY <1>0, <2>6 DEF UsePrefetched, LaneHolding, NoSample
      <3>2. QED BY <1>0, <2>0, <3>1 DEF ReadsOK, Past, PastAt
    <2>7. ASSUME NEW undecoded \in SUBSET Rows, Commit(l, undecoded)
          PROVE  ReadsOK'
      BY <1>0, <2>1, <2>7 DEF Commit, LaneAt
    <2>8. CASE DropSample(l) \/ LanePush(l) \/ LaneExit(l)
      BY <1>0, <2>1, <2>8 DEF DropSample, LanePush, LaneExit, LaneAt
    <2>9. QED BY <1>3, <2>2, <2>3, <2>4, <2>5, <2>6, <2>7, <2>8 DEF LaneStep
  <1>4. CASE StartPollers
    BY <1>0, <1>1, <1>4 DEF StartPollers, LaneAt, NoSample, ReadsOK
  <1>5. ASSUME NEW w \in Writers, WriterStep(w)
        PROVE  UNCHANGED <<lane, prefetch>>
    BY <1>5 DEF WriterStep, BeginWrite, BeginUaWrite, RefuseWrite, WriteEntry, WriterPush,
       AcquireGate, RejectWrite, PlcWrite, WriteExit
  <1>6. CASE MainStep /\ ~StartPollers
    BY <1>2, <1>6 DEF MainStep, SwapUaQueue, TakeReadback, CheckUpdate, FetchCached, ApplyUpdate,
       DrainDone, StopPollers, JoinPollers, LoadDriver, LoadFails
  <1>7. CASE Tick \/ BumpGeneration \/ UNCHANGED vars
    BY <1>2, <1>7 DEF Tick, BumpGeneration, vars
  <1>8. QED BY <1>2, <1>3, <1>4, <1>5, <1>6, <1>7 DEF Next

(* A transition moves a gate's time to now and its driver to the current   *)
(* one, or leaves them.                                                    *)
LEMMA TransitionGateParts ==
  ASSUME NEW g \in Gate, NEW row, NEW active \in BOOLEAN, NEW restart \in BOOLEAN,
         NEW e \in Nat, NEW n \in Nat
  PROVE  LET h == TransitionGate(g, row, active, restart, e, n)
         IN  /\ h.present
             /\ h.epoch = IF restart THEN e ELSE g.epoch
             /\ h.after \in {g.after, n}
             /\ restart => h.after = n
  <1>1. CASE TransitionIsNoOp(g, row, active, restart)
    BY <1>1 DEF TransitionGate, TransitionIsNoOp, Gate
  <1>2. CASE ~TransitionIsNoOp(g, row, active, restart)
    BY <1>2 DEF TransitionGate, Restart, Resume, Suspend, Gate
  <1>3. QED BY <1>1, <1>2

(* GatesMade after a transition of some rows.                              *)
LEMMA TransitionGatesMade ==
  ASSUME TypeOK, GatesMade, NEW rows \in SUBSET Rows, NEW active \in BOOLEAN, NEW restart \in BOOLEAN,
         Transition(rows, active, restart), UNCHANGED <<now, epoch, binding>>,
         main' = main \/ (restart /\ rows = GatedRows)
  PROVE  GatesMade'
  <1>1. \A r \in Rows : gates[r] \in Gate /\ epoch \in Nat /\ now \in Nat
    BY DEF TypeOK
  <1>2. \A r \in rows : LET g == gates[r]
                            row == table[r]
                        IN  gates'[r] = TransitionGate(g, row, active, restart, epoch, now)
    BY DEF Transition
  <1>3. \A r \in rows : /\ gates'[r].present
                        /\ gates'[r].epoch = IF restart THEN epoch ELSE gates[r].epoch
                        /\ gates'[r].after \in {gates[r].after, now}
                        /\ restart => gates'[r].after = now
    BY <1>1, <1>2, TransitionGateParts
  <1>4. \A r \in Rows \ rows : gates'[r] = gates[r]
    BY DEF Transition
  <1>5. ASSUME NEW r \in GatedRows
        PROVE  /\ main' # "starting" => gates'[r].present /\ gates'[r].epoch = epoch
               /\ gates'[r].epoch = epoch => gates'[r].after >= binding.after
    BY <1>3, <1>4 DEF GatesMade, GatedRows
  <1>6. QED BY <1>5 DEF GatesMade

LEMMA GatesStep ==
  ASSUME DrainInv, [Next]_vars
  PROVE  GatesMade'
  <1> USE DEF plcVars, cacheVars, laneVars, writeVars, mainVars
  <1>0. TypeOK /\ GatesMade /\ now \in Nat /\ epoch \in Nat /\ binding.after \in Nat
    BY DEF DrainInv, PlumbingInv, EvidenceInv, TypeOK, Gate
  <1>1. now' \in Nat /\ now' >= now
    BY <1>0, TimeStep
  <1>2. CASE UNCHANGED <<epoch, gates, binding>> /\ (main' = "starting" \/ main # "starting")
    BY <1>0, <1>1, <1>2 DEF GatesMade
  <1>3. ASSUME NEW l \in Lanes, LaneStep(l)
        PROVE  GatesMade'
    <2>1. ASSUME NEW t \in Tags, NEW active \in BOOLEAN, TransitionDemand(l, t, active)
          PROVE  GatesMade'
      <3> DEFINE rows == IF lane[l].epoch = epoch THEN RowsOf(t) \cap GatedRows ELSE {}
      <3>1. rows \in SUBSET Rows
        BY DEF RowsOf
      <3>2. Transition(rows, active, FALSE) /\ UNCHANGED <<now, epoch, binding, main>>
        BY <2>1 DEF TransitionDemand
      <3> HIDE DEF rows
      <3>3. QED BY <1>0, <3>1, <3>2, TransitionGatesMade
    <2>2. ASSUME UNCHANGED <<now, epoch, gates, binding, main>>
          PROVE  GatesMade'
      BY <1>0, <2>2 DEF GatesMade
    <2>3. QED BY <1>3, <2>1, <2>2 DEF LaneStep, SkipInactive, BeginRead, FinishRead, UsePrefetched,
       Commit, DropSample, LanePush, LaneExit
  <1>4. ASSUME NEW w \in Writers, WriterStep(w)
        PROVE  GatesMade'
    <2>1. ASSUME WriteEntry(w) \/ WriteExit(w)
          PROVE  GatesMade'
      <3> DEFINE rows == RowsOf(RootOf(writer[w].row)) \cap GatedRows
      <3>1. rows \in SUBSET Rows
        BY DEF RowsOf
      <3>2. /\ Transition(rows, TRUE, TRUE) \/ UNCHANGED gates
            /\ UNCHANGED <<now, epoch, binding, main>>
        BY <2>1 DEF WriteEntry, WriteExit, Invalidate
      <3> HIDE DEF rows
      <3>3. CASE Transition(rows, TRUE, TRUE)
        BY <1>0, <3>1, <3>2, <3>3, TransitionGatesMade
      <3>4. QED BY <1>0, <3>2, <3>3 DEF GatesMade
    <2>2. ASSUME ~WriteEntry(w), ~WriteExit(w)
          PROVE  GatesMade'
      <3>1. UNCHANGED <<epoch, gates, binding>>
        BY <1>4, <2>2 DEF WriterStep, BeginWrite, BeginUaWrite, RefuseWrite, ReturnFromWrite, WriterPush,
           AcquireGate, RejectWrite, PlcWrite
      <3>2. main' = main \/ main = "run" \/ (writer[w].phase # "idle" /\ w \in UaWriters)
        <4>1. CASE RefuseWrite(w)
          BY <4>1 DEF RefuseWrite, ReturnFromWrite
        <4>2. CASE WriterPush(w)
          BY <4>2 DEF WriterPush, ReturnFromWrite
        <4>3. QED
          BY <1>4, <2>2, <4>1, <4>2 DEF WriterStep, BeginWrite, BeginUaWrite, AcquireGate, RejectWrite,
             PlcWrite
      <3>3. main' = main \/ main # "starting"
        BY <3>2 DEF DrainInv, PlumbingInv, ClientInv, OneCallback
      <3>4. QED BY <1>2, <3>1, <3>3
    <2>3. QED BY <2>1, <2>2
  <1>5. CASE LoadDriver
    <2>1. /\ epoch' = epoch + 1 /\ binding' = Restart(epoch + 1, now) /\ UNCHANGED now
          /\ main' = "starting" /\ \A r \in GatedRows : gates'[r] = NoGate
      BY <1>5 DEF LoadDriver, GatedRows
    <2>2. QED BY <1>0, <2>1 DEF GatesMade, Restart, NoGate
  <1>6. CASE StartPollers
    <2>1. /\ Transition(GatedRows, TRUE, TRUE) /\ UNCHANGED <<now, epoch, binding>>
          /\ GatedRows \in SUBSET Rows
      BY <1>6 DEF StartPollers, GatedRows
    <2>2. QED BY <1>0, <2>1, TransitionGatesMade
  <1>7. CASE MainStep /\ ~LoadDriver /\ ~StartPollers
    BY <1>2, <1>7 DEF MainStep, SwapUaQueue, TakeReadback, CheckUpdate, FetchCached, ApplyUpdate,
       DrainDone, StopPollers, JoinPollers, LoadFails
  <1>8. CASE Tick \/ BumpGeneration \/ UNCHANGED vars
    BY <1>2, <1>8 DEF Tick, BumpGeneration, vars
  <1>9. QED BY <1>3, <1>4, <1>5, <1>6, <1>7, <1>8 DEF Next

-----------------------------------------------------------------------------
(* What each step does to one gated row and to the updates of that row.    *)

RowTypes(r) ==
    /\ r \in Rows /\ RootOf(r) \in Tags /\ LaneOf[RootOf(r)] \in Lanes
    /\ table[r] \in Snapshot \cup {NoRow} /\ gates[r] \in Gate
    /\ Out(r) \in Update
    /\ uaQueue[r] \in Seq(Update) /\ readback[r] \in Seq(Update) /\ local[r] \in Seq(Update)
    /\ node[r] \in Node

LEMMA RowTyped ==
  ASSUME TypeOK, NEW r \in GatedRows
  PROVE  RowTypes(r)
  <1>1. r \in Rows /\ RootOf(r) \in Tags /\ LaneOf[RootOf(r)] \in Lanes
    BY GatedRoot, PollPublishAssumption
  <1>2. laneOut[LaneOf[RootOf(r)]] \in Outbox
    BY <1>1 DEF TypeOK
  <1>3. Out(r) \in Update
    BY <1>1, <1>2 DEF Out, Outbox
  <1>4. QED BY <1>1, <1>3 DEF TypeOK, RowTypes, Queues

(* Everything but the row, its gate and the outbox of its lane.            *)
RestSame(r) ==
    UNCHANGED <<now, epoch, main, applying, node, uaQueue, readback, local, writer, writerOut, binding>>

RowSame(r) == UNCHANGED <<table[r], gates[r], Out(r)>>

LEMMA DemandEffect ==
  ASSUME PlumbingInv, NEW r \in GatedRows, NEW l \in Lanes, NEW t \in Tags, NEW active \in BOOLEAN,
         TransitionDemand(l, t, active)
  PROVE  /\ RestSame(r)
         /\ RootOf(r) # t => RowSame(r)
         /\ RootOf(r) = t => /\ Out(r) = NoUpdate
                             /\ table'[r] = TransitionRow(gates[r], table[r], active, FALSE)
                             /\ gates'[r] = TransitionGate(gates[r], table[r], active, FALSE, epoch, now)
                             /\ Out(r)' = [snap |-> table'[r], epoch |-> epoch]
  <1> USE DEF plcVars, cacheVars, laneVars, writeVars, mainVars
  <1>0. /\ RowTypes(r) /\ lane[l].epoch = epoch /\ LaneOf[t] = l /\ laneOut[l] = NoOutbox
        /\ laneOut \in [Lanes -> Outbox]
    BY RowTyped DEF PlumbingInv, EvidenceInv, GatesCurrent, LanesOK, LaneOK, TransitionDemand, TypeOK
  <1> DEFINE rows == RowsOf(t) \cap GatedRows
             us == TransitionUpdates(rows, active, FALSE)
  <1>1. r \in rows <=> RootOf(r) = t
    BY <1>0 DEF RowTypes, RowsOf
  <1>2. Transition(rows, active, FALSE) /\ laneOut' = [laneOut EXCEPT ![l] = us]
    BY <1>0 DEF TransitionDemand
  <1>3. RestSame(r)
    BY DEF TransitionDemand, RestSame
  <1>4. r \in Rows
    BY <1>0 DEF RowTypes
  <1>5. CASE RootOf(r) = t
    <2>1. r \in rows /\ Out(r) = NoUpdate /\ Out(r)' = us[r]
      BY <1>0, <1>1, <1>2, <1>4, <1>5 DEF Out, NoOutbox
    <2> HIDE DEF rows
    <2>2. /\ table'[r] = TransitionRow(gates[r], table[r], active, FALSE)
          /\ gates'[r] = TransitionGate(gates[r], table[r], active, FALSE, epoch, now)
      BY <1>2, <1>4, <2>1 DEF Transition
    <2>3. us[r] = [snap |-> table'[r], epoch |-> epoch]
      BY <1>4, <2>1, <2>2 DEF TransitionUpdates
    <2>4. QED BY <1>3, <1>5, <2>1, <2>2, <2>3
  <1>6. CASE RootOf(r) # t
    <2>1. r \notin rows
      BY <1>1, <1>6
    <2> HIDE DEF rows
    <2>2. table'[r] = table[r] /\ gates'[r] = gates[r]
      BY <1>2, <1>4, <2>1 DEF Transition
    <2>3. us[r] = NoUpdate
      BY <1>4, <2>1 DEF TransitionUpdates
    <2>4. Out(r)' = Out(r)
      BY <1>0, <1>2, <1>4, <2>3 DEF Out, NoOutbox, RowTypes
    <2>5. QED BY <1>3, <1>6, <2>2, <2>4 DEF RowSame
  <1>7. QED BY <1>5, <1>6

LEMMA CommitEffect ==
  ASSUME PlumbingInv, NEW r \in GatedRows, NEW l \in Lanes, NEW undecoded \in SUBSET Rows,
         Commit(l, undecoded)
  PROVE  /\ RestSame(r)
         /\ RootOf(r) # lane[l].tag => RowSame(r)
         /\ RootOf(r) = lane[l].tag =>
              /\ UNCHANGED gates[r]
              /\ table'[r] = CommittedRow(lane[l].tag, lane[l].sample, r, undecoded)
              /\ Out(r)' = [snap |-> table'[r], epoch |-> epoch]
  <1> USE DEF plcVars, cacheVars, laneVars, writeVars, mainVars
  <1>0. /\ RowTypes(r) /\ lane[l].epoch = epoch /\ LaneOf[lane[l].tag] = l /\ laneOut[l] = NoOutbox
        /\ laneOut \in [Lanes -> Outbox]
    BY RowTyped DEF PlumbingInv, EvidenceInv, GatesCurrent, LanesOK, LaneOK, Commit, TypeOK
  <1>1. RestSame(r) /\ UNCHANGED gates
    BY DEF Commit, RestSame
  <1>2. r \in Rows
    BY <1>0 DEF RowTypes
  <1>3. table'[r] = IF RootOf(r) = lane[l].tag
                    THEN CommittedRow(lane[l].tag, lane[l].sample, r, undecoded) ELSE table[r]
    BY <1>2 DEF Commit
  <1>4. laneOut'[l][r] = IF RootOf(r) = lane[l].tag THEN [snap |-> table'[r], epoch |-> epoch]
                                                    ELSE NoUpdate
    BY <1>0, <1>2, <1>3 DEF Commit
  <1>5. \A k \in Lanes : k # l => laneOut'[k] = laneOut[k]
    BY <1>0 DEF Commit
  <1>6. RootOf(r) = lane[l].tag => Out(r)' = [snap |-> table'[r], epoch |-> epoch]
    BY <1>0, <1>4 DEF Out
  <1>7. RootOf(r) # lane[l].tag => Out(r)' = Out(r)
    BY <1>0, <1>2, <1>4, <1>5 DEF Out, NoOutbox, RowTypes
  <1>8. QED BY <1>1, <1>3, <1>6, <1>7 DEF RowSame

LEMMA PushEffect ==
  ASSUME PlumbingInv, NEW r \in GatedRows, NEW l \in Lanes, LanePush(l)
  PROVE  /\ UNCHANGED <<now, epoch, main, applying, node, readback, local, writer, writerOut, binding,
                        table, gates>>
         /\ \/ UNCHANGED <<Out(r), uaQueue[r]>>
            \/ /\ Out(r) # NoUpdate /\ Out(r)' = NoUpdate
               /\ uaQueue'[r] = Append(uaQueue[r], Out(r))
  <1> USE DEF plcVars, cacheVars, laneVars, writeVars, mainVars
  <1>0. /\ RowTypes(r) /\ laneOut \in [Lanes -> Outbox]
        /\ laneOut[l][r] # NoUpdate => LaneOf[RootOf(r)] = l
    BY RowTyped DEF PlumbingInv, EvidenceInv, LanesOK, LaneOK, TypeOK, RowTypes
  <1>1. r \in Rows
    BY <1>0 DEF RowTypes
  <1>2. uaQueue'[r] = IF laneOut[l][r] = NoUpdate THEN uaQueue[r]
                                                  ELSE Append(uaQueue[r], laneOut[l][r])
    BY <1>1 DEF LanePush, PushAll
  <1>3. \A k \in Lanes : laneOut'[k] = IF k = l THEN NoOutbox ELSE laneOut[k]
    BY <1>0 DEF LanePush
  <1>4. CASE LaneOf[RootOf(r)] = l
    BY <1>0, <1>1, <1>2, <1>3, <1>4 DEF LanePush, Out, NoOutbox, RowTypes
  <1>5. CASE LaneOf[RootOf(r)] # l
    BY <1>0, <1>1, <1>2, <1>3, <1>5 DEF LanePush, Out, RowTypes
  <1>6. QED BY <1>4, <1>5

(* request_write_readback for one row: nothing, or the row is Waiting, its *)
(* gate asks for a read from now on, and the writer has that to announce.  *)
LEMMA ReadbackEffect ==
  ASSUME PlumbingInv, NEW r \in GatedRows, NEW w \in Writers, writer[w].phase \in {"entry", "exit"},
         Invalidate(w)
  PROVE  \/ /\ UNCHANGED <<table[r], gates[r]>>
            /\ \A v \in Writers : writerOut'[v][r] = writerOut[v][r]
         \/ /\ table'[r] \in Snapshot /\ ~table'[r].good /\ gates'[r].after = now
            /\ IsWaiting(writerOut'[w][r]) /\ writerOut'[w][r].epoch = epoch
            /\ \A v \in Writers : v # w => writerOut'[v][r] = writerOut[v][r]
  <1>0. /\ r \in Rows /\ writerOut \in [Writers -> Outbox] /\ writerOut[w] = NoOutbox
        /\ table[r] \in Snapshot \cup {NoRow} /\ gates[r] \in Gate /\ epoch \in Nat /\ now \in Nat
    BY DEF GatedRows, PlumbingInv, EvidenceInv, TypeOK, ReadbackOK, PushesPending
  <1>1. CASE writer[w].epoch = epoch
    <2> DEFINE rows == RowsOf(RootOf(writer[w].row)) \cap GatedRows
    <2>1. /\ Transition(rows, TRUE, TRUE)
          /\ writerOut' = [writerOut EXCEPT ![w] = TransitionUpdates(rows, TRUE, TRUE)]
      BY <1>1 DEF Invalidate
    <2>2. \A v \in Writers : v # w => writerOut'[v][r] = writerOut[v][r]
      BY <1>0, <2>1
    <2>3. writerOut'[w][r] = TransitionUpdates(rows, TRUE, TRUE)[r]
      BY <1>0, <2>1
    <2> HIDE DEF rows
    <2>4. CASE r \in rows
      <3>1. /\ table'[r] = TransitionRow(gates[r], table[r], TRUE, TRUE)
            /\ gates'[r] = TransitionGate(gates[r], table[r], TRUE, TRUE, epoch, now)
        BY <1>0, <2>1, <2>4 DEF Transition
      <3>2. table'[r] = NotGood("Waiting") /\ gates'[r].after = now
        <4> DEFINE g == gates[r]
                   row == table[r]
        <4>1. /\ g \in Gate /\ epoch \in Nat /\ now \in Nat
              /\ table'[r] = TransitionRow(g, row, TRUE, TRUE)
              /\ gates'[r] = TransitionGate(g, row, TRUE, TRUE, epoch, now)
          BY <1>0, <3>1
        <4> HIDE DEF g, row
        <4>2. ~TransitionIsNoOp(g, row, TRUE, TRUE)
          BY DEF TransitionIsNoOp
        <4>3. gates'[r] = Resume(Restart(epoch, now), now)
          BY <4>1, <4>2 DEF TransitionGate
        <4>4. table'[r] = NotGood("Waiting")
          BY <4>1, <4>2 DEF TransitionRow
        <4>5. QED BY <4>3, <4>4 DEF Resume, Restart
      <3>3. table'[r] \in Snapshot /\ ~table'[r].good
        BY <3>2, NotGoodType DEF NotGood, State
      <3>4. QED BY <1>0, <2>2, <2>3, <2>4, <3>2, <3>3, RestartUpdates
    <2>5. CASE r \notin rows
      <3>1. table'[r] = table[r] /\ gates'[r] = gates[r]
        BY <1>0, <2>1, <2>5 DEF Transition
      <3>2. writerOut'[w][r] = writerOut[w][r]
        BY <1>0, <2>3, <2>5, RestartUpdates DEF NoOutbox
      <3>3. QED BY <2>2, <3>1, <3>2
    <2>6. QED BY <2>4, <2>5
  <1>2. CASE writer[w].epoch # epoch
    BY <1>2 DEF Invalidate
  <1>3. QED BY <1>1, <1>2

(* startPollers for one row.                                               *)
LEMMA StartEffect ==
  ASSUME PlumbingInv, NEW r \in GatedRows, StartPollers
  PROVE  /\ table'[r] \in Snapshot /\ ~table'[r].good /\ gates'[r].after = now
         /\ Out(r) = NoUpdate /\ Out(r)' = NoUpdate
         /\ \E u \in Update : /\ ~u.snap.good /\ u.epoch = epoch
                              /\ uaQueue'[r] = Append(uaQueue[r], u)
  <1>0. /\ RowTypes(r) /\ epoch \in Nat /\ now \in Nat
        /\ laneOut[LaneOf[RootOf(r)]] = NoOutbox /\ GatedRows \in SUBSET Rows /\ TypeOK
    BY RowTyped DEF StartPollers, PlumbingInv, EvidenceInv, Structure, LanesJoined, LanesOK, LaneOK,
       RowTypes, TypeOK, GatedRows
  <1>1. r \in Rows
    BY DEF GatedRows
  <1>2. /\ table'[r] = TransitionRow(gates[r], table[r], TRUE, TRUE)
        /\ gates'[r] = TransitionGate(gates[r], table[r], TRUE, TRUE, epoch, now)
    BY <1>1 DEF StartPollers, Transition
  <1>3. table'[r] = NotGood("Waiting") /\ gates'[r].after = now
    <2> DEFINE g == gates[r]
               row == table[r]
    <2>1. /\ g \in Gate /\ epoch \in Nat /\ now \in Nat
          /\ table'[r] = TransitionRow(g, row, TRUE, TRUE)
          /\ gates'[r] = TransitionGate(g, row, TRUE, TRUE, epoch, now)
      BY <1>0, <1>2 DEF RowTypes
    <2> HIDE DEF g, row
    <2>2. ~TransitionIsNoOp(g, row, TRUE, TRUE)
      BY DEF TransitionIsNoOp
    <2>3. gates'[r] = Resume(Restart(epoch, now), now)
      BY <2>1, <2>2 DEF TransitionGate
    <2>4. table'[r] = NotGood("Waiting")
      BY <2>1, <2>2 DEF TransitionRow
    <2>5. QED BY <2>3, <2>4 DEF Resume, Restart
  <1>4. table'[r] \in Snapshot /\ ~table'[r].good
    BY <1>3, NotGoodType DEF NotGood, State
  <1>5. Out(r) = NoUpdate /\ Out(r)' = NoUpdate
    BY <1>0, <1>1 DEF Out, NoOutbox, StartPollers
  <1> DEFINE us == TransitionUpdates(GatedRows, TRUE, TRUE)
  <1>6. us \in Outbox
    BY <1>0, TransitionType
  <1>7. us[r] \in Update /\ IsWaiting(us[r]) /\ us[r].epoch = epoch
    BY <1>1, <1>6, RestartUpdates DEF Outbox
  <1>8. uaQueue' = PushAll(uaQueue, us)
    BY DEF StartPollers
  <1> HIDE DEF us
  <1>9. us[r] # NoUpdate
    BY <1>7 DEF IsWaiting, NoUpdate, NotGood
  <1>10. uaQueue'[r] = Append(uaQueue[r], us[r])
    BY <1>1, <1>8, <1>9 DEF PushAll
  <1>11. \E u \in Update : /\ ~u.snap.good /\ u.epoch = epoch
                           /\ uaQueue'[r] = Append(uaQueue[r], u)
    BY <1>7, <1>10 DEF IsWaiting
  <1>12. QED BY <1>3, <1>4, <1>5, <1>11

-----------------------------------------------------------------------------
(* Publication, row by row.                                                *)

(* A row whose lane is about to push it has sent its last word.            *)
LEMMA FreshOut ==
  ASSUME NEW r, Out(r)' = [snap |-> table'[r], epoch |-> epoch']
  PROVE  RowOK(r)'
  <1>1. CASE table'[r].good
    BY <1>1 DEF RowOK, Sent, CarriesRow
  <1>2. CASE ~table'[r].good
    <2>1. Corrects(Out(r))' /\ ~Accepted(Out(r), r)'
      BY <1>2 DEF Corrects, CorrectsAt, Accepted, AcceptedAt
    <2>2. QED BY <1>2, <2>1 DEF RowOK, AcceptedIsFollowed, Coming
  <1>3. QED BY <1>1, <1>2

(* Nothing has happened to the row; what a writer announces has at most    *)
(* moved on, and the callback of an OPC UA write at most begun its refresh.*)
LEMMA RowKept ==
  ASSUME NEW r, RowOK(r),
         UNCHANGED <<epoch, table[r], gates[r], Out(r), uaQueue[r], local[r], node[r]>>,
         \A w \in Writers : Corrects(writerOut[w][r]) =>
             \/ \E v \in Writers : Corrects(writerOut[v][r])'
             \/ \E i \in DOMAIN readback'[r] : Corrects(readback[r][i])',
         \A i \in DOMAIN readback[r] : Corrects(readback[r][i]) =>
             \E j \in DOMAIN readback'[r] : Corrects(readback[r][j])',
         \/ applying' = applying
         \/ applying.row # r /\ (applying'.row = r => applying'.update = NoUpdate),
         CallbackOn(r) => CallbackOn(r)'
  PROVE  RowOK(r)'
  <1>1. ASSUME table[r].good PROVE RowOK(r)'
    <2>1. Sent(r)
      BY <1>1 DEF RowOK
    <2>2. Arrived(r) => Arrived(r)'
      BY DEF Arrived, CarriesRow, Shown
    <2>3. Sent(r)'
      BY <2>1, <2>2 DEF Sent, CarriesRow
    <2>4. QED BY <1>1, <2>3 DEF RowOK
  <1>2. ASSUME ~table[r].good PROVE RowOK(r)'
    <2>1. AcceptedIsFollowed(r) /\ (Stale(r) => Coming(r))
      BY <1>2 DEF RowOK
    <2>2. AcceptedIsFollowed(r)'
      BY <2>1 DEF AcceptedIsFollowed, Accepted, AcceptedAt, Corrects, CorrectsAt
    <2>3. Stale(r)' => Stale(r)
      BY DEF Stale, NoUpdate, NotGood
    <2>4. Coming(r) => Coming(r)'
      BY DEF Coming, Corrects, CorrectsAt
    <2>5. QED BY <1>2, <2>1, <2>2, <2>3, <2>4 DEF RowOK
  <1>3. QED BY <1>1, <1>2

(* A push appends the lane's update to uaQueue.                            *)
LEMMA PushRow ==
  ASSUME PlumbingInv, NEW r \in GatedRows, NEW l \in Lanes, LanePush(l), RowOK(r), epoch >= 1
  PROVE  RowOK(r)'
  <1>1. /\ UNCHANGED <<epoch, main, applying, node, readback, local, writer, writerOut, table, gates>>
        /\ \/ UNCHANGED <<Out(r), uaQueue[r]>>
           \/ /\ Out(r) # NoUpdate /\ Out(r)' = NoUpdate
              /\ uaQueue'[r] = Append(uaQueue[r], Out(r))
    BY PushEffect
  <1>2. CASE UNCHANGED <<Out(r), uaQueue[r]>>
    <2>1. CallbackOn(r) => CallbackOn(r)'
      BY <1>1 DEF CallbackOn
    <2>2. \A w \in Writers : Corrects(writerOut[w][r]) => Corrects(writerOut[w][r])'
      BY <1>1 DEF Corrects, CorrectsAt
    <2>3. \A i \in DOMAIN readback[r] : Corrects(readback[r][i]) => Corrects(readback[r][i])'
      BY <1>1 DEF Corrects, CorrectsAt
    <2>4. QED BY <1>1, <1>2, <2>1, <2>2, <2>3, RowKept
  <1>3. CASE /\ Out(r) # NoUpdate /\ Out(r)' = NoUpdate
             /\ uaQueue'[r] = Append(uaQueue[r], Out(r))
    <2> DEFINE q == uaQueue[r]
               u == Out(r)
    <2>0. q \in Seq(Update) /\ u \in Update
      BY RowTyped DEF RowTypes, PlumbingInv, EvidenceInv
    <2>00. PICK n \in Nat : n = Len(q)
      BY <2>0
    <2>1. /\ DOMAIN q = 1..n
          /\ DOMAIN uaQueue'[r] = 1..(n + 1) /\ Len(uaQueue'[r]) = n + 1
          /\ uaQueue'[r][n + 1] = u
          /\ \A i \in 1..n : uaQueue'[r][i] = q[i]
      BY <1>3, <2>0, <2>00
    <2>2. CASE table[r].good
      <3>1. CarriesRow(u, r)
        BY <1>3, <2>2 DEF RowOK, Sent
      <3>2. CarriesRow(uaQueue[r][Len(uaQueue[r])], r)' /\ uaQueue'[r] # <<>>
        BY <1>1, <2>0, <2>1, <3>1 DEF CarriesRow
      <3>3. QED BY <1>1, <1>3, <2>2, <3>2 DEF RowOK, Sent
    <2>3. CASE ~table[r].good
      <3>0. AcceptedIsFollowed(r) /\ (Stale(r) => Coming(r))
        BY <2>3 DEF RowOK
      <3>1. /\ \A i \in DOMAIN q : /\ Accepted(uaQueue[r][i], r)' <=> Accepted(q[i], r)
                                  /\ Corrects(uaQueue[r][i])' <=> Corrects(q[i])
            /\ Accepted(uaQueue[r][n + 1], r)' <=> Accepted(u, r)
            /\ Corrects(uaQueue[r][n + 1])' <=> Corrects(u)
        BY <1>1, <2>1 DEF Accepted, AcceptedAt, Corrects, CorrectsAt
      <3>2. ~Accepted(Out(r), r)'
        BY <1>3 DEF Accepted, AcceptedAt, NoUpdate, NotGood
      <3>3. ASSUME NEW i \in DOMAIN uaQueue'[r], Accepted(uaQueue[r][i], r)'
            PROVE  \E j \in DOMAIN uaQueue'[r] : j > i /\ Corrects(uaQueue[r][j])'
        <4>1. i \in DOMAIN q /\ Accepted(q[i], r)
          <5>1. i # n + 1
            BY <3>0, <3>1, <3>3 DEF AcceptedIsFollowed
          <5>2. i \in DOMAIN q
            BY <2>1, <5>1
          <5>3. QED BY <1>1, <2>1, <3>3, <5>2 DEF Accepted, AcceptedAt
        <4>2. CASE \E j \in DOMAIN q : j > i /\ Corrects(q[j])
          BY <2>1, <3>1, <4>2
        <4>3. CASE Corrects(u)
          BY <2>1, <3>1, <4>1, <4>3
        <4>4. QED BY <3>0, <4>1, <4>2, <4>3 DEF AcceptedIsFollowed
      <3>4. Corrects(u) => \E j \in DOMAIN uaQueue'[r] : Corrects(uaQueue[r][j])'
        BY <2>1, <3>1
      <3>5. (\E j \in DOMAIN q : Corrects(q[j])) => \E j \in DOMAIN uaQueue'[r] : Corrects(uaQueue[r][j])'
        BY <2>1, <3>1
      <3>6. \A i \in DOMAIN local[r] : /\ Accepted(local[r][i], r)' <=> Accepted(local[r][i], r)
                                      /\ Corrects(local[r][i])' <=> Corrects(local[r][i])
        BY <1>1 DEF Accepted, AcceptedAt, Corrects, CorrectsAt
      <3>7. UNCHANGED local
        BY <1>1
      <3> HIDE DEF u, q
      <3>8. AcceptedIsFollowed(r)'
        <4>1. ASSUME NEW i \in DOMAIN local'[r], Accepted(local[r][i], r)'
              PROVE  \/ \E j \in DOMAIN local'[r] : j > i /\ Corrects(local[r][j])'
                     \/ \E j \in DOMAIN uaQueue'[r] : Corrects(uaQueue[r][j])'
          <5>1. UNCHANGED <<local, epoch, gates>>
            BY <1>1
          <5>2. i \in DOMAIN local[r] /\ Accepted(local[r][i], r)
            BY <4>1, <5>1 DEF Accepted, AcceptedAt
          <5>3. (\E j \in DOMAIN local[r] : j > i /\ Corrects(local[r][j]))
                   => \E j \in DOMAIN local'[r] : j > i /\ Corrects(local[r][j])'
            BY <5>1 DEF Corrects, CorrectsAt
          <5>4. QED BY <3>0, <3>4, <3>5, <5>2, <5>3 DEF AcceptedIsFollowed, u, q
        <4>2. QED BY <3>2, <3>3, <4>1 DEF AcceptedIsFollowed
      <3>9. Coming(r) => Coming(r)'
        <4>1. UNCHANGED <<readback, writerOut, applying, epoch, local>>
          BY <1>1
        <4>2. \A w \in Writers : Corrects(writerOut[w][r]) => Corrects(writerOut[w][r])'
          BY <4>1 DEF Corrects, CorrectsAt
        <4>3. \A i \in DOMAIN readback[r] : Corrects(readback[r][i]) => Corrects(readback[r][i])'
          BY <4>1 DEF Corrects, CorrectsAt
        <4>4. QED BY <3>4, <3>5, <3>6, <4>1, <4>2, <4>3 DEF Coming, u, q
      <3>10. Stale(r)' => Stale(r)
        BY <1>1 DEF Stale
      <3>11. QED BY <1>1, <2>3, <3>0, <3>8, <3>9, <3>10 DEF RowOK
    <2>4. QED BY <2>2, <2>3
  <1>4. QED BY <1>1, <1>2, <1>3

(* Nothing that was read before a boundary is accepted after it.           *)
LEMMA OldUpdatesRefused ==
  ASSUME PlumbingInv, NEW r \in GatedRows, RowSnapsOK(r), gates'[r].after = now
  PROVE  /\ ~(Out(r).snap.good /\ Out(r).snap.read.started >= gates'[r].after)
         /\ \A i \in DOMAIN uaQueue[r] :
              ~(uaQueue[r][i].snap.good /\ uaQueue[r][i].snap.read.started >= gates'[r].after)
         /\ \A i \in DOMAIN local[r] :
              ~(local[r][i].snap.good /\ local[r][i].snap.read.started >= gates'[r].after)
  <1>0. RowTypes(r) /\ now \in Nat
    BY RowTyped DEF PlumbingInv, EvidenceInv, TypeOK
  <1>1. ASSUME NEW u \in Update, SnapOK(u.snap)
        PROVE  ~(u.snap.good /\ u.snap.read.started >= gates'[r].after)
    BY <1>0, <1>1 DEF SnapOK, SnapAt, PastAt, Update, Snapshot, Stamp
  <1>2. ~(Out(r).snap.good /\ Out(r).snap.read.started >= gates'[r].after)
    BY <1>0, <1>1 DEF RowSnapsOK, RowTypes
  <1>3. ASSUME NEW i \in DOMAIN uaQueue[r]
        PROVE  ~(uaQueue[r][i].snap.good /\ uaQueue[r][i].snap.read.started >= gates'[r].after)
    <2>1. uaQueue[r][i] \in Update
      BY <1>0, <1>3 DEF RowTypes
    <2>2. QED BY <1>1, <1>3, <2>1 DEF RowSnapsOK
  <1>4. ASSUME NEW i \in DOMAIN local[r]
        PROVE  ~(local[r][i].snap.good /\ local[r][i].snap.read.started >= gates'[r].after)
    <2>1. local[r][i] \in Update
      BY <1>0, <1>4 DEF RowTypes
    <2>2. QED BY <1>1, <1>4, <2>1 DEF RowSnapsOK
  <1>5. QED BY <1>2, <1>3, <1>4

(* A boundary: the row leaves GOOD and somebody announces it.              *)
LEMMA BoundaryRow ==
  ASSUME PlumbingInv, NEW r \in GatedRows, RowSnapsOK(r), gates'[r].after = now, ~table'[r].good,
         UNCHANGED <<Out(r), local[r]>>,
         \/ UNCHANGED uaQueue[r] /\ \E w \in Writers : Corrects(writerOut[w][r])'
         \/ \E u \in Update : CorrectsAt(u, epoch') /\ uaQueue'[r] = Append(uaQueue[r], u)
  PROVE  RowOK(r)'
  <1>0. RowTypes(r)
    BY RowTyped DEF PlumbingInv, EvidenceInv
  <1>1. ~Accepted(Out(r), r)' /\ \A i \in DOMAIN local'[r] : ~Accepted(local[r][i], r)'
    BY OldUpdatesRefused DEF Accepted, AcceptedAt
  <1>2. CASE UNCHANGED uaQueue[r] /\ \E w \in Writers : Corrects(writerOut[w][r])'
    <2>1. \A i \in DOMAIN uaQueue'[r] : ~Accepted(uaQueue[r][i], r)'
      BY <1>2, OldUpdatesRefused DEF Accepted, AcceptedAt
    <2>2. Coming(r)'
      BY <1>2 DEF Coming
    <2>3. QED BY <1>1, <2>1, <2>2 DEF RowOK, AcceptedIsFollowed
  <1>3. ASSUME NEW u \in Update, CorrectsAt(u, epoch'), uaQueue'[r] = Append(uaQueue[r], u)
        PROVE  RowOK(r)'
    <2>1. PICK n \in Nat : n = Len(uaQueue[r])
      BY <1>0 DEF RowTypes
    <2>2. /\ DOMAIN uaQueue[r] = 1..n /\ DOMAIN uaQueue'[r] = 1..(n + 1)
          /\ uaQueue'[r][n + 1] = u
          /\ \A i \in 1..n : uaQueue'[r][i] = uaQueue[r][i]
      BY <1>0, <1>3, <2>1 DEF RowTypes
    <2>3. Corrects(uaQueue[r][n + 1])' /\ ~Accepted(uaQueue[r][n + 1], r)'
      BY <1>3, <2>2 DEF Corrects, CorrectsAt, Accepted, AcceptedAt
    <2>4. \A i \in DOMAIN uaQueue[r] : ~Accepted(uaQueue[r][i], r)'
      BY <2>2, OldUpdatesRefused DEF Accepted, AcceptedAt
    <2>5. ASSUME NEW i \in DOMAIN uaQueue'[r]
          PROVE  ~Accepted(uaQueue[r][i], r)'
      <3>1. i = n + 1 \/ i \in DOMAIN uaQueue[r]
        BY <2>2
      <3>2. CASE i = n + 1
        BY <2>3, <3>2
      <3>3. CASE i \in DOMAIN uaQueue[r]
        BY <2>4, <3>3
      <3>4. QED BY <3>1, <3>2, <3>3
    <2>6. Coming(r)'
      <3>1. \E i \in DOMAIN uaQueue'[r] : CorrectsAt(uaQueue'[r][i], epoch')
        BY <1>3, <2>2
      <3>2. QED BY <3>1 DEF Coming, Corrects
    <2>7. QED BY <1>1, <2>5, <2>6 DEF RowOK, AcceptedIsFollowed
  <1>4. QED BY <1>2, <1>3

(* The steps of a writer.                                                  *)
LEMMA ReturnRow ==
  ASSUME PlumbingInv, NEW r \in GatedRows, NEW w \in Writers, RowOK(r), ReturnFromWrite(w),
         writer[w].phase # "idle", writer' = [writer EXCEPT ![w] = IdleWriter],
         UNCHANGED <<epoch, table, gates, laneOut, uaQueue, local, node>>,
         \A v \in Writers : Corrects(writerOut[v][r]) =>
             \/ \E x \in Writers : Corrects(writerOut[x][r])'
             \/ \E i \in DOMAIN readback'[r] : Corrects(readback[r][i])',
         \A i \in DOMAIN readback[r] : Corrects(readback[r][i]) =>
             \E j \in DOMAIN readback'[r] : Corrects(readback[r][j])'
  PROVE  RowOK(r)'
  <1>0. /\ writer \in [Writers -> WriterState] /\ r # NoTag
        /\ applying \in [row: Rows \cup {NoTag}, update: Update]
    BY PollPublishAssumption DEF PlumbingInv, EvidenceInv, TypeOK, GatedRows
  <1>1. CASE w \in UaWriters
    <2>1. main = "uaWrite" /\ applying = NoApply
      BY <1>1 DEF PlumbingInv, ClientInv, OneCallback, DrainOK
    <2>2. main' = "uaRefresh" /\ applying' = [row |-> writer[w].row, update |-> NoUpdate]
      BY <1>1 DEF ReturnFromWrite
    <2>3. \A v \in UaWriters : writer[v].phase # "idle" => v = w
      BY <1>1 DEF PlumbingInv, ClientInv, OneCallback
    <2>4. CallbackOn(r) => CallbackOn(r)'
      BY <2>1, <2>2, <2>3 DEF CallbackOn
    <2>5. applying.row # r /\ applying'.update = NoUpdate
      BY <1>0, <2>1, <2>2 DEF NoApply
    <2>6. UNCHANGED <<epoch, table[r], gates[r], Out(r), uaQueue[r], local[r], node[r]>>
      BY DEF Out
    <2>7. QED BY <2>4, <2>5, <2>6, RowKept
  <1>2. CASE w \notin UaWriters
    <2>1. UNCHANGED <<main, applying>>
      BY <1>2 DEF ReturnFromWrite
    <2>2. \A v \in UaWriters : writer'[v] = writer[v]
      BY <1>0, <1>2, PollPublishAssumption
    <2>3. CallbackOn(r) => CallbackOn(r)'
      BY <2>1, <2>2 DEF CallbackOn
    <2>4. UNCHANGED <<epoch, table[r], gates[r], Out(r), uaQueue[r], local[r], node[r]>>
      BY DEF Out
    <2>5. QED BY <2>1, <2>3, <2>4, RowKept
  <1>3. QED BY <1>1, <1>2

LEMMA WriterRow ==
  ASSUME PlumbingInv, NEW r \in GatedRows, RowSnapsOK(r), NEW w \in Writers, WriterStep(w), RowOK(r),
         epoch >= 1
  PROVE  RowOK(r)'
  <1> USE DEF plcVars, cacheVars, laneVars, writeVars, mainVars
  <1>0. /\ writer \in [Writers -> WriterState] /\ writerOut \in [Writers -> Outbox] /\ r # NoTag
        /\ applying \in [row: Rows \cup {NoTag}, update: Update] /\ node \in [Rows -> Node]
        /\ readback \in Queues /\ r \in Rows /\ UaWriters \subseteq Writers
    BY PollPublishAssumption DEF PlumbingInv, EvidenceInv, TypeOK, GatedRows
  <1>1. ASSUME UNCHANGED <<epoch, main, applying, node, table[r], gates[r], laneOut, uaQueue, local,
                           readback>>,
               \A v \in Writers : writerOut'[v][r] = writerOut[v][r],
               \A v \in UaWriters : writer[v].phase # "idle" =>
                   writer'[v].phase # "idle" /\ writer'[v].row = writer[v].row
        PROVE  RowOK(r)'
    <2>1. CallbackOn(r) => CallbackOn(r)'
      BY <1>1 DEF CallbackOn
    <2>2. \A v \in Writers : Corrects(writerOut[v][r]) => Corrects(writerOut[v][r])'
      BY <1>1 DEF Corrects
    <2>3. \A i \in DOMAIN readback[r] : Corrects(readback[r][i]) =>
             \E j \in DOMAIN readback'[r] : Corrects(readback[r][j])'
      BY <1>1 DEF Corrects
    <2>4. UNCHANGED <<epoch, table[r], gates[r], Out(r), uaQueue[r], local[r], node[r]>>
      BY <1>1 DEF Out
    <2>5. QED BY <1>1, <2>1, <2>2, <2>3, <2>4, RowKept
  <1>2. ASSUME NEW q \in GatedRows, BeginWrite(w, q) PROVE RowOK(r)'
    <2>1. \A v \in UaWriters : writer'[v] = writer[v]
      BY <1>0, <1>2 DEF BeginWrite
    <2>2. QED BY <1>1, <1>2, <2>1 DEF BeginWrite
  <1>3. CASE AcquireGate(w) \/ RejectWrite(w) \/ \E effect \in BOOLEAN : PlcWrite(w, effect)
    <2>1. \A v \in Writers : writer[v].phase # "idle" =>
              writer'[v].phase # "idle" /\ writer'[v].row = writer[v].row
      BY <1>0, <1>3 DEF AcquireGate, RejectWrite, PlcWrite, WriterAt
    <2>2. QED BY <1>0, <1>1, <1>3, <2>1 DEF AcquireGate, RejectWrite, PlcWrite
  <1>4. CASE WriteEntry(w) \/ WriteExit(w)
    <2>1. \A v \in Writers : writer[v].phase # "idle" =>
              writer'[v].phase # "idle" /\ writer'[v].row = writer[v].row
      BY <1>0, <1>4 DEF WriteEntry, WriteExit, WriterAt
    <2>2. /\ UNCHANGED <<epoch, main, applying, node, laneOut, uaQueue, local, readback>>
          /\ writer[w].phase \in {"entry", "exit"} /\ Invalidate(w)
      BY <1>4 DEF WriteEntry, WriteExit
    <2>3. CASE /\ UNCHANGED <<table[r], gates[r]>>
               /\ \A v \in Writers : writerOut'[v][r] = writerOut[v][r]
      BY <1>0, <1>1, <2>1, <2>2, <2>3
    <2>4. CASE /\ table'[r] \in Snapshot /\ ~table'[r].good /\ gates'[r].after = now
               /\ IsWaiting(writerOut'[w][r]) /\ writerOut'[w][r].epoch = epoch
      <3>1. \E v \in Writers : Corrects(writerOut[v][r])'
        BY <2>2, <2>4 DEF Corrects, CorrectsAt, IsWaiting
      <3>2. UNCHANGED <<Out(r), local[r], uaQueue[r]>>
        BY <2>2 DEF Out
      <3>3. QED BY <2>4, <3>1, <3>2, BoundaryRow
    <2>5. QED BY <2>2, <2>3, <2>4, ReadbackEffect
  <1>5. CASE RefuseWrite(w)
    <2>1. \A v \in Writers : Corrects(writerOut[v][r]) => Corrects(writerOut[v][r])'
      BY <1>5 DEF RefuseWrite, Corrects
    <2>2. \A i \in DOMAIN readback[r] : Corrects(readback[r][i]) =>
             \E j \in DOMAIN readback'[r] : Corrects(readback[r][j])'
      BY <1>5 DEF RefuseWrite, Corrects
    <2>3. /\ ReturnFromWrite(w) /\ writer[w].phase # "idle" /\ writer' = [writer EXCEPT ![w] = IdleWriter]
          /\ UNCHANGED <<epoch, table, gates, laneOut, uaQueue, local, node>>
      BY <1>5 DEF RefuseWrite
    <2>4. QED BY <2>1, <2>2, <2>3, ReturnRow
  <1>6. CASE WriterPush(w)
    <2> DEFINE u == writerOut[w][r]
               q == readback[r]
    <2>0. u \in Update /\ q \in Seq(Update)
      BY <1>0 DEF Outbox, Queues
    <2>1. /\ readback'[r] = IF u = NoUpdate THEN q ELSE Append(q, u)
          /\ \A v \in Writers : v # w => writerOut'[v] = writerOut[v]
          /\ UNCHANGED epoch
      BY <1>0, <1>6 DEF WriterPush, PushAll
    <2>2. \A i \in DOMAIN q : i \in DOMAIN readback'[r] /\ readback'[r][i] = q[i]
      BY <2>0, <2>1
    <2>3. u # NoUpdate => \E i \in DOMAIN readback'[r] : readback'[r][i] = u
      <3>1. u # NoUpdate => Len(q) + 1 \in DOMAIN readback'[r] /\ readback'[r][Len(q) + 1] = u
        BY <2>0, <2>1
      <3>2. QED BY <3>1
    <2>4. ~CorrectsAt(NoUpdate, epoch)
      BY DEF CorrectsAt, NoUpdate
    <2>5. \A i \in DOMAIN q : CorrectsAt(q[i], epoch) =>
             \E j \in DOMAIN readback'[r] : CorrectsAt(readback'[r][j], epoch')
      BY <2>1, <2>2
    <2>6. CorrectsAt(u, epoch) => \E j \in DOMAIN readback'[r] : CorrectsAt(readback'[r][j], epoch')
      BY <2>1, <2>3, <2>4
    <2> HIDE DEF u, q
    <2>7. \A v \in Writers : Corrects(writerOut[v][r]) =>
             \/ \E x \in Writers : Corrects(writerOut[x][r])'
             \/ \E i \in DOMAIN readback'[r] : Corrects(readback[r][i])'
      BY <2>1, <2>6 DEF Corrects, u
    <2>8. \A i \in DOMAIN readback[r] : Corrects(readback[r][i]) =>
             \E j \in DOMAIN readback'[r] : Corrects(readback[r][j])'
      BY <2>5 DEF Corrects, q
    <2>9. UNCHANGED <<epoch, table, gates, laneOut, uaQueue, local, node>>
      BY <1>6 DEF WriterPush
    <2>10. CASE writer[w].phase = "exitPush"
      <3>1. /\ ReturnFromWrite(w) /\ writer[w].phase # "idle"
            /\ writer' = [writer EXCEPT ![w] = IdleWriter]
        BY <1>6, <2>10 DEF WriterPush
      <3>2. QED BY <2>7, <2>8, <2>9, <3>1, ReturnRow
    <2>11. CASE writer[w].phase = "entryPush"
      <3>1. writer' = [writer EXCEPT ![w] = WriterAt(w, "waiting", 0)] /\ UNCHANGED <<main, applying>>
        BY <1>6, <2>11 DEF WriterPush
      <3>2. CallbackOn(r) => CallbackOn(r)'
        BY <1>0, <3>1 DEF CallbackOn, WriterAt
      <3>3. UNCHANGED <<epoch, table[r], gates[r], Out(r), uaQueue[r], local[r], node[r]>>
        BY <2>9 DEF Out
      <3>4. QED BY <2>7, <2>8, <3>1, <3>2, <3>3, RowKept
    <2>12. QED BY <1>6, <2>10, <2>11 DEF WriterPush

  <1>7. ASSUME NEW q \in GatedRows, BeginUaWrite(w, q) PROVE RowOK(r)'
    <2>1. /\ main = "run" /\ main' = "uaWrite" /\ w \in UaWriters /\ applying = NoApply /\ q \in Rows
          /\ UNCHANGED <<epoch, applying, table, gates, laneOut, uaQueue, local, readback, writerOut>>
      BY <1>7 DEF BeginUaWrite, PlumbingInv, DrainOK, GatedRows
    <2>2. ~CallbackOn(r)
      BY <2>1 DEF CallbackOn
    <2>3. CASE r # q
      <3>1. UNCHANGED <<epoch, table[r], gates[r], Out(r), uaQueue[r], local[r], node[r]>>
        BY <1>0, <1>7, <2>1, <2>3 DEF BeginUaWrite, Out
      <3>2. \A v \in Writers : Corrects(writerOut[v][r]) => Corrects(writerOut[v][r])'
        BY <2>1 DEF Corrects
      <3>3. \A i \in DOMAIN readback[r] : Corrects(readback[r][i]) =>
               \E j \in DOMAIN readback'[r] : Corrects(readback[r][j])'
        BY <2>1 DEF Corrects
      <3>4. QED BY <2>1, <2>2, <3>1, <3>2, <3>3, RowKept
    <2>4. CASE r = q
      <3>1. node'[r].started = 0
        BY <1>0, <1>7, <2>4 DEF BeginUaWrite
      <3>2. writer'[w].phase # "idle" /\ writer'[w].row = r
        BY <1>0, <1>7, <2>4 DEF BeginUaWrite
      <3>3. CallbackOn(r)'
        BY <2>1, <3>2 DEF CallbackOn
      <3>4. UNCHANGED <<table[r], gates[r], Out(r), uaQueue[r], local[r], epoch>>
        BY <2>1 DEF Out
      <3>5. applying'.row # r
        BY <1>0, <2>1 DEF NoApply
      <3>6. CASE table[r].good
        <4>1. Sent(r)
          BY <3>6 DEF RowOK
        <4>2. Arrived(r) => Arrived(r)'
          BY <3>3, <3>4, <3>5 DEF Arrived
        <4>3. Sent(r)'
          BY <3>4, <4>1, <4>2 DEF Sent, CarriesRow
        <4>4. QED BY <3>4, <3>6, <4>3 DEF RowOK
      <3>7. CASE ~table[r].good
        <4>1. AcceptedIsFollowed(r)'
          BY <3>4, <3>7 DEF RowOK, AcceptedIsFollowed, Accepted, AcceptedAt, Corrects
        <4>2. ~Stale(r)'
          BY <3>1, <3>5 DEF Stale
        <4>3. QED BY <3>4, <3>7, <4>1, <4>2 DEF RowOK
      <3>8. QED BY <3>6, <3>7
    <2>5. QED BY <2>3, <2>4
  <1>8. QED BY <1>2, <1>3, <1>4, <1>5, <1>6, <1>7 DEF WriterStep

(* Corrections and their order survive what the main loop does to a queue. *)
LEMMA Concatenated ==
  ASSUME NEW a \in Seq(Update), NEW b \in Seq(Update)
  PROVE  /\ Len(a) \in Nat /\ Len(b) \in Nat /\ Len(a \o b) = Len(a) + Len(b)
         /\ DOMAIN a = 1..Len(a) /\ DOMAIN b = 1..Len(b)
         /\ DOMAIN (a \o b) = 1..(Len(a) + Len(b))
         /\ \A i \in 1..Len(a) : (a \o b)[i] = a[i]
         /\ \A i \in 1..Len(b) : (a \o b)[Len(a) + i] = b[i]
         /\ \A i \in DOMAIN (a \o b) \ DOMAIN a :
              i - Len(a) \in DOMAIN b /\ (a \o b)[i] = b[i - Len(a)]
  <1>1. /\ Len(a) \in Nat /\ Len(b) \in Nat
        /\ DOMAIN a = 1..Len(a) /\ DOMAIN b = 1..Len(b)
        /\ DOMAIN (a \o b) = 1..(Len(a) + Len(b)) /\ Len(a \o b) = Len(a) + Len(b)
    OBVIOUS
  <1>2. \A i \in 1..(Len(a) + Len(b)) :
           (a \o b)[i] = IF i <= Len(a) THEN a[i] ELSE b[i - Len(a)]
    OBVIOUS
  <1>3. \A i \in 1..Len(a) : (a \o b)[i] = a[i]
    BY <1>1, <1>2
  <1>4. ASSUME NEW i \in 1..Len(b) PROVE (a \o b)[Len(a) + i] = b[i]
    <2>1. Len(a) + i \in 1..(Len(a) + Len(b)) /\ ~(Len(a) + i <= Len(a)) /\ (Len(a) + i) - Len(a) = i
      BY <1>1
    <2>2. QED BY <1>2, <2>1
  <1>5. ASSUME NEW i \in DOMAIN (a \o b) \ DOMAIN a
        PROVE  i - Len(a) \in DOMAIN b /\ (a \o b)[i] = b[i - Len(a)]
    <2>1. i \in 1..(Len(a) + Len(b)) /\ i \notin 1..Len(a)
      BY <1>1
    <2>2. i - Len(a) \in 1..Len(b) /\ ~(i <= Len(a))
      BY <1>1, <2>1
    <2>3. QED BY <1>1, <1>2, <2>1, <2>2
  <1>6. QED BY <1>1, <1>3, <1>4, <1>5

LEMMA CorrectionInFront ==
  ASSUME NEW a \in Seq(Update), NEW b \in Seq(Update), NEW e,
         HasCorrection(a, e) \/ HasCorrection(b, e)
  PROVE  HasCorrection(a \o b, e)
  <1>1. CASE HasCorrection(a, e)
    <2>1. PICK i \in DOMAIN a : CorrectsAt(a[i], e)
      BY <1>1 DEF HasCorrection
    <2>2. i \in DOMAIN (a \o b) /\ (a \o b)[i] = a[i]
      BY Concatenated
    <2>3. QED BY <2>1, <2>2 DEF HasCorrection
  <1>2. CASE HasCorrection(b, e)
    <2>1. PICK i \in DOMAIN b : CorrectsAt(b[i], e)
      BY <1>2 DEF HasCorrection
    <2>2. Len(a) + i \in DOMAIN (a \o b) /\ (a \o b)[Len(a) + i] = b[i]
      BY Concatenated
    <2>3. QED BY <2>1, <2>2 DEF HasCorrection
  <1>3. QED BY <1>1, <1>2

LEMMA FollowedInFront ==
  ASSUME NEW a \in Seq(Update), NEW b \in Seq(Update), NEW e, NEW g, NEW after \in BOOLEAN,
         \A i \in DOMAIN a : IsWaiting(a[i]), FollowedIn(b, e, g, after)
  PROVE  FollowedIn(a \o b, e, g, after)
  <1> SUFFICES ASSUME NEW i \in DOMAIN (a \o b), AcceptedAt((a \o b)[i], e, g), ~after
               PROVE  \E j \in DOMAIN (a \o b) : j > i /\ CorrectsAt((a \o b)[j], e)
    BY DEF FollowedIn
  <1>1. i \notin DOMAIN a
    BY Concatenated DEF IsWaiting, AcceptedAt
  <1>2. i - Len(a) \in DOMAIN b /\ (a \o b)[i] = b[i - Len(a)]
    BY <1>1, Concatenated
  <1>3. PICK j \in DOMAIN b : j > i - Len(a) /\ CorrectsAt(b[j], e)
    BY <1>2 DEF FollowedIn
  <1>4. Len(a) + j \in DOMAIN (a \o b) /\ (a \o b)[Len(a) + j] = b[j] /\ Len(a) + j > i
    BY <1>3, Concatenated
  <1>5. QED BY <1>3, <1>4

(* The main loop.  What it takes from uaQueue keeps its order.             *)
LEMMA SwapRow ==
  ASSUME PlumbingInv, NEW r \in GatedRows, SwapUaQueue, RowOK(r), epoch >= 1
  PROVE  RowOK(r)'
  <1> USE DEF plcVars, cacheVars, laneVars, writeVars, mainVars
  <1>0. RowTypes(r)
    BY RowTyped DEF PlumbingInv, EvidenceInv
  <1>1. /\ main = "run" /\ main' = "swapped" /\ local[r] = <<>> /\ applying = NoApply
        /\ local'[r] = uaQueue[r] /\ uaQueue'[r] = <<>>
        /\ UNCHANGED <<epoch, applying, table, gates, laneOut, node, readback, writerOut>>
    BY <1>0 DEF SwapUaQueue, PlumbingInv, DrainOK, EmptyQueues, RowTypes
  <1>2. UNCHANGED <<Out(r), table[r], gates[r], node[r]>> /\ ~CallbackOn(r)
    BY <1>1 DEF Out, CallbackOn
  <1>3. CASE table[r].good
    <2>1. Sent(r)
      BY <1>3 DEF RowOK
    <2>2. CASE CarriesRow(Out(r), r)
      BY <1>1, <1>2, <1>3, <2>2 DEF RowOK, Sent, CarriesRow
    <2>3. CASE Out(r) = NoUpdate /\ uaQueue[r] # <<>> /\ CarriesRow(uaQueue[r][Len(uaQueue[r])], r)
      BY <1>1, <1>2, <1>3, <2>3 DEF RowOK, Sent, CarriesRow
    <2>4. CASE Out(r) = NoUpdate /\ uaQueue[r] = <<>> /\ Arrived(r)
      <3>1. Arrived(r)'
        BY <1>1, <1>2, <2>4 DEF Arrived, CarriesRow, Shown
      <3>2. QED BY <1>1, <1>2, <1>3, <2>4, <3>1 DEF RowOK, Sent
    <2>5. QED BY <1>1, <2>1, <2>2, <2>3, <2>4 DEF Sent
  <1>4. CASE ~table[r].good
    <2>1. AcceptedIsFollowed(r) /\ (Stale(r) => Coming(r))
      BY <1>4 DEF RowOK
    <2>2. AcceptedIsFollowed(r)'
      <3>1. /\ ~AcceptedAt(Out(r), epoch, gates[r])
            /\ FollowedIn(uaQueue[r], epoch, gates[r], CorrectsAt(Out(r), epoch))
        BY <2>1 DEF AcceptedIsFollowed, FollowedIn, Accepted, Corrects
      <3>2. /\ ~AcceptedAt(Out(r)', epoch', gates'[r])
            /\ FollowedIn(local'[r], epoch', gates'[r], CorrectsAt(Out(r)', epoch'))
        BY <1>1, <1>2, <3>1
      <3>3. DOMAIN uaQueue'[r] = {}
        BY <1>1
      <3>4. QED BY <3>2, <3>3 DEF AcceptedIsFollowed, FollowedIn, Accepted, Corrects
    <2>3. Coming(r) => Coming(r)'
      <3>1. HasCorrection(uaQueue[r], epoch) => HasCorrection(local'[r], epoch')
        BY <1>1
      <3>2. ~HasCorrection(local[r], epoch)
        BY <1>1 DEF HasCorrection
      <3>3. HasCorrection(readback[r], epoch) => HasCorrection(readback'[r], epoch')
        BY <1>1
      <3>4. \A w \in Writers : CorrectsAt(writerOut[w][r], epoch) => CorrectsAt(writerOut'[w][r], epoch')
        BY <1>1
      <3>5. QED BY <1>1, <1>2, <3>1, <3>2, <3>3, <3>4 DEF Coming, Corrects, HasCorrection
    <2>4. Stale(r)' => Stale(r)
      BY <1>1, <1>2 DEF Stale
    <2>5. QED BY <1>2, <1>4, <2>1, <2>2, <2>3, <2>4 DEF RowOK
  <1>5. QED BY <1>3, <1>4

(* The announcements of writers are put in front.                          *)
LEMMA TakeRow ==
  ASSUME PlumbingInv, NEW r \in GatedRows, TakeReadback, RowOK(r)
  PROVE  RowOK(r)'
  <1> USE DEF plcVars, cacheVars, laneVars, writeVars, mainVars
  <1>0. RowTypes(r)
    BY RowTyped DEF PlumbingInv, EvidenceInv
  <1> DEFINE a == readback[r]
             b == local[r]
  <1>1. /\ main = "swapped" /\ applying = NoApply /\ local'[r] = a \o b
        /\ main' = "draining"
        /\ UNCHANGED <<epoch, applying, table, gates, laneOut, node, uaQueue, writerOut>>
    BY <1>0 DEF TakeReadback, PlumbingInv, DrainOK, RowTypes
  <1>2. UNCHANGED <<Out(r), table[r], gates[r], node[r], uaQueue[r]>> /\ ~CallbackOn(r)
    BY <1>1 DEF Out, CallbackOn
  <1>3. a \in Seq(Update) /\ b \in Seq(Update)
    BY <1>0 DEF RowTypes
  <1>4. \A i \in DOMAIN a : IsWaiting(a[i])
    BY <1>0 DEF PlumbingInv, ReadbackOK, RowTypes
  <1>5. UNCHANGED epoch
    BY <1>1
  <1>6. CASE table[r].good
    <2>1. Sent(r)
      BY <1>6 DEF RowOK
    <2>2. CASE CarriesRow(Out(r), r)
      BY <1>1, <1>2, <1>6, <2>2 DEF RowOK, Sent, CarriesRow
    <2>3. CASE Out(r) = NoUpdate /\ uaQueue[r] # <<>> /\ CarriesRow(uaQueue[r][Len(uaQueue[r])], r)
      BY <1>1, <1>2, <1>6, <2>3 DEF RowOK, Sent, CarriesRow
    <2>4. CASE Out(r) = NoUpdate /\ uaQueue[r] = <<>> /\ Arrived(r)
      <3>1. \A i \in DOMAIN b : IsWaiting(b[i])
        BY <2>4 DEF Arrived
      <3> HIDE DEF a, b
      <3>2. \A i \in DOMAIN (a \o b) : IsWaiting((a \o b)[i])
        BY <1>3, <1>4, <3>1, Concatenated
      <3>3. \A i \in DOMAIN local'[r] : IsWaiting(local'[r][i])
        BY <1>1, <3>2
      <3>4. \A i \in DOMAIN local'[r] : IsWaiting(local[r][i])'
        BY <3>3 DEF IsWaiting
      <3>5. /\ \/ applying'.row = r /\ CarriesRow(applying.update, r)'
               \/ (applying'.row = r => applying'.update = NoUpdate) /\ (Shown(r)' \/ CallbackOn(r)')
        BY <1>1, <1>2, <2>4 DEF Arrived, CarriesRow, Shown
      <3>6. Arrived(r)'
        BY <3>4, <3>5 DEF Arrived
      <3>7. QED BY <1>1, <1>2, <1>6, <2>4, <3>6 DEF RowOK, Sent
    <2>5. CASE /\ Out(r) = NoUpdate /\ uaQueue[r] = <<>>
               /\ b # <<>> /\ CarriesRow(b[Len(b)], r)
      <3> HIDE DEF a, b
      <3>1. Len(b) \in 1..Len(b)
        BY <1>3, <2>5
      <3>2. (a \o b)[Len(a \o b)] = b[Len(b)] /\ (a \o b) # <<>>
        BY <1>3, <3>1, Concatenated
      <3>3. local'[r] # <<>> /\ CarriesRow(local[r][Len(local[r])], r)'
        BY <1>1, <1>2, <1>5, <2>5, <3>2 DEF CarriesRow
      <3>4. QED BY <1>1, <1>2, <1>6, <2>5, <3>3 DEF RowOK, Sent
    <2>6. QED BY <2>1, <2>2, <2>3, <2>4, <2>5 DEF Sent
  <1>7. CASE ~table[r].good
    <2>1. AcceptedIsFollowed(r) /\ (Stale(r) => Coming(r))
      BY <1>7 DEF RowOK
    <2> DEFINE after == CorrectsAt(Out(r), epoch) \/ HasCorrection(uaQueue[r], epoch)
    <2>2. /\ ~AcceptedAt(Out(r), epoch, gates[r])
          /\ FollowedIn(uaQueue[r], epoch, gates[r], CorrectsAt(Out(r), epoch))
          /\ FollowedIn(b, epoch, gates[r], after)
      BY <2>1 DEF AcceptedIsFollowed, FollowedIn, Accepted, Corrects, HasCorrection
    <2>3. after \in BOOLEAN
      BY DEF HasCorrection, CorrectsAt
    <2> HIDE DEF a, b, after
    <2>4. FollowedIn(a \o b, epoch, gates[r], after)
      BY <1>3, <1>4, <2>2, <2>3, FollowedInFront
    <2>5. AcceptedIsFollowed(r)'
      <3>1. /\ ~AcceptedAt(Out(r)', epoch', gates'[r])
            /\ FollowedIn(uaQueue'[r], epoch', gates'[r], CorrectsAt(Out(r)', epoch'))
            /\ FollowedIn(local'[r], epoch', gates'[r], CorrectsAt(Out(r)', epoch') \/ HasCorrection(uaQueue'[r], epoch'))
        BY <1>1, <1>2, <1>5, <2>2, <2>4 DEF after
      <3>2. QED BY <3>1 DEF AcceptedIsFollowed, FollowedIn, Accepted, Corrects, HasCorrection
    <2>6. Coming(r) => Coming(r)'
      <3>1. HasCorrection(a, epoch) \/ HasCorrection(b, epoch) => HasCorrection(local'[r], epoch')
        BY <1>1, <1>3, CorrectionInFront
      <3>2. HasCorrection(uaQueue[r], epoch) => HasCorrection(uaQueue'[r], epoch')
        BY <1>1
      <3>3. \A w \in Writers : CorrectsAt(writerOut[w][r], epoch) => CorrectsAt(writerOut'[w][r], epoch')
        BY <1>1
      <3>4. QED BY <1>1, <1>2, <3>1, <3>2, <3>3 DEF Coming, Corrects, HasCorrection, a, b
    <2>7. Stale(r)' => Stale(r)
      BY <1>1, <1>2 DEF Stale
    <2>8. QED BY <1>2, <1>7, <2>5, <2>6, <2>7, <2>1 DEF RowOK
  <1>8. QED BY <1>6, <1>7

(* The drain's checks.                                                     *)
LEMMA GateAccepts ==
  ASSUME NEW g \in Gate, NEW s \in Stamp, NEW n \in Nat, PastAt(s, n),
         g.active, s.epoch = g.epoch, s.started >= g.after
  PROVE  GateQuality(g, s, TRUE, n) = "Good"
  <1>1. SatisfiesAge(s, g.after, 0, TRUE, n, g.epoch)
    BY DEF SatisfiesAge, PastAt, Stamp, Gate
  <1>2. QED BY <1>1 DEF GateQuality

LEMMA GateGood ==
  ASSUME NEW g \in Gate, NEW s, NEW n, GateQuality(g, s, TRUE, n) = "Good"
  PROVE  g.active /\ s.started >= g.after
  <1>1. g.active /\ SatisfiesAge(s, g.after, 0, TRUE, n, g.epoch)
    BY DEF GateQuality, Gate
  <1>2. QED BY <1>1 DEF SatisfiesAge

LEMMA WithoutHead ==
  ASSUME NEW q \in Seq(Update), q # <<>>
  PROVE  /\ Head(q) = q[1] /\ Head(q) \in Update /\ Tail(q) \in Seq(Update)
         /\ Len(q) \in Nat /\ Len(q) >= 1 /\ Len(Tail(q)) = Len(q) - 1
         /\ DOMAIN q = 1..Len(q) /\ DOMAIN Tail(q) = 1..(Len(q) - 1)
         /\ \A i \in DOMAIN Tail(q) : i + 1 \in DOMAIN q /\ Tail(q)[i] = q[i + 1]
         /\ \A i \in DOMAIN q : i # 1 => i - 1 \in DOMAIN Tail(q) /\ Tail(q)[i - 1] = q[i]
  <1>1. /\ Head(q) = q[1] /\ Head(q) \in Update /\ Tail(q) \in Seq(Update)
        /\ Len(q) \in Nat /\ Len(q) >= 1 /\ Len(Tail(q)) = Len(q) - 1
        /\ DOMAIN q = 1..Len(q) /\ DOMAIN Tail(q) = 1..(Len(q) - 1)
    OBVIOUS
  <1>2. \A i \in 1..(Len(q) - 1) : Tail(q)[i] = q[i + 1]
    OBVIOUS
  <1>3. ASSUME NEW i \in DOMAIN Tail(q)
        PROVE  i + 1 \in DOMAIN q /\ Tail(q)[i] = q[i + 1]
    <2>1. i \in 1..(Len(q) - 1)
      BY <1>1
    <2>2. i + 1 \in 1..Len(q)
      BY <1>1, <2>1
    <2>3. QED BY <1>1, <1>2, <2>1, <2>2
  <1>4. ASSUME NEW i \in DOMAIN q, i # 1
        PROVE  i - 1 \in DOMAIN Tail(q) /\ Tail(q)[i - 1] = q[i]
    <2>1. i \in 1..Len(q)
      BY <1>1
    <2>2. i - 1 \in 1..(Len(q) - 1) /\ (i - 1) + 1 = i
      BY <1>1, <1>4, <2>1
    <2>3. QED BY <1>1, <1>2, <2>2
  <1>5. QED BY <1>1, <1>3, <1>4

LEMMA CorrectionBehind ==
  ASSUME NEW q \in Seq(Update), q # <<>>, NEW e, HasCorrection(q, e), ~CorrectsAt(Head(q), e)
  PROVE  HasCorrection(Tail(q), e)
  <1>1. PICK i \in DOMAIN q : CorrectsAt(q[i], e)
    BY DEF HasCorrection
  <1>2. i # 1
    BY <1>1, WithoutHead
  <1>3. i - 1 \in DOMAIN Tail(q) /\ Tail(q)[i - 1] = q[i]
    BY <1>2, WithoutHead
  <1>4. QED BY <1>1, <1>3 DEF HasCorrection

LEMMA FollowedBehind ==
  ASSUME NEW q \in Seq(Update), q # <<>>, NEW e, NEW g, NEW after \in BOOLEAN,
         FollowedIn(q, e, g, after)
  PROVE  /\ FollowedIn(Tail(q), e, g, after)
         /\ AcceptedAt(Head(q), e, g) => HasCorrection(Tail(q), e) \/ after
  <1>1. ASSUME NEW i \in DOMAIN Tail(q), AcceptedAt(Tail(q)[i], e, g), ~after
        PROVE  \E j \in DOMAIN Tail(q) : j > i /\ CorrectsAt(Tail(q)[j], e)
    <2>1. i + 1 \in DOMAIN q /\ Tail(q)[i] = q[i + 1]
      BY WithoutHead
    <2>2. PICK j \in DOMAIN q : j > i + 1 /\ CorrectsAt(q[j], e)
      BY <1>1, <2>1 DEF FollowedIn
    <2>3. i \in Nat /\ i >= 1 /\ j \in Nat
      BY WithoutHead
    <2>4. j # 1 /\ j - 1 > i
      BY <2>2, <2>3
    <2>5. j - 1 \in DOMAIN Tail(q) /\ Tail(q)[j - 1] = q[j]
      BY <2>4, WithoutHead
    <2>6. QED BY <2>2, <2>4, <2>5
  <1>2. ASSUME AcceptedAt(Head(q), e, g), ~after
        PROVE  HasCorrection(Tail(q), e)
    <2>1. 1 \in DOMAIN q /\ Head(q) = q[1]
      BY WithoutHead
    <2>2. PICK j \in DOMAIN q : j > 1 /\ CorrectsAt(q[j], e)
      BY <1>2, <2>1 DEF FollowedIn
    <2>3. j - 1 \in DOMAIN Tail(q) /\ Tail(q)[j - 1] = q[j]
      BY <2>2, WithoutHead
    <2>4. QED BY <2>2, <2>3 DEF HasCorrection
  <1>3. QED BY <1>1, <1>2 DEF FollowedIn

(* What passes the checks: a correction always, the row itself, and of     *)
(* other GOOD updates those the gate accepts; no Waiting one over a GOOD   *)
(* row.                                                                    *)
LEMMA Checked ==
  ASSUME PlumbingInv, GatesMade, SnapsOK, NEW r \in GatedRows, main = "draining", NEW u \in Update
  PROVE  LET passes == UaPublicationIsCurrent(u) /\ ~Superseded(r, u)
         IN  /\ passes /\ u.snap.good => Accepted(u, r)
             /\ ~table[r].good /\ Corrects(u) => passes
             /\ table[r].good /\ CarriesRow(u, r) => passes
             /\ table[r].good /\ IsWaiting(u) => ~passes
  <1>0. /\ RowTypes(r) /\ epoch \in Nat /\ epoch >= 1 /\ now \in Nat /\ gates[r].present
        /\ gates[r].epoch = epoch /\ SnapOK(table[r])
    BY RowTyped DEF PlumbingInv, EvidenceInv, TypeOK, GatesMade, SnapsOK, RowSnapsOK
  <1> DEFINE g == gates[r]
             passes == UaPublicationIsCurrent(u) /\ ~Superseded(r, u)
  <1>1. /\ g \in Gate /\ u \in Update
        /\ u.snap.read \in Stamp /\ u.epoch \in Nat /\ u.snap.good \in BOOLEAN
    <2>1. g \in Gate
      BY <1>0 DEF RowTypes
    <2>2. u.snap \in Snapshot /\ u.epoch \in Nat
      BY DEF Update
    <2>3. QED BY <2>1, <2>2 DEF Snapshot
  <1>2. ASSUME passes, u.snap.good PROVE Accepted(u, r)
    <2>1. GateQuality(g, u.snap.read, TRUE, now) = "Good" /\ u.epoch = epoch
      BY <1>0, <1>2 DEF Superseded, UaPublicationIsCurrent
    <2>a. u.snap.good
      BY <1>2
    <2> HIDE DEF g
    <2>2. g.active /\ u.snap.read.started >= g.after
      BY <1>1, <2>1, GateGood
    <2>3. QED BY <2>a, <2>1, <2>2 DEF Accepted, AcceptedAt, g
  <1>3. ASSUME ~table[r].good, Corrects(u) PROVE passes
    <2>1. u.epoch = epoch /\ ~u.snap.good /\ epoch # 0
      BY <1>0, <1>3 DEF Corrects, CorrectsAt
    <2>2. UaPublicationIsCurrent(u)
      BY <2>1 DEF UaPublicationIsCurrent
    <2>3. ~Superseded(r, u)
      BY <1>3, <2>1 DEF Superseded
    <2>4. QED BY <2>2, <2>3
  <1>4. ASSUME table[r].good, CarriesRow(u, r) PROVE passes
    <2>1. /\ g.active /\ u.snap.read.epoch = g.epoch /\ u.snap.read.started >= g.after
          /\ u.snap.good /\ u.snap.state = "Active" /\ PastAt(u.snap.read, now) /\ u.epoch = epoch
      BY <1>0, <1>4 DEF CarriesRow, PlumbingInv, EvidenceInv, GoodRowHasEvidence, SnapOK, SnapAt
    <2> HIDE DEF g
    <2>2. GateQuality(g, u.snap.read, TRUE, now) = "Good"
      BY <1>0, <1>1, <2>1, GateAccepts
    <2>3. UaPublicationIsCurrent(u)
      <3>1. epoch # 0
        BY <1>0
      <3>2. QED BY <2>1, <3>1 DEF UaPublicationIsCurrent
    <2>4. ~Superseded(r, u)
      BY <2>1, <2>2 DEF Superseded, g
    <2>5. QED BY <2>3, <2>4
  <1>5. ASSUME table[r].good, IsWaiting(u) PROVE ~passes
    BY <1>5 DEF IsWaiting, Superseded
  <1> HIDE DEF passes
  <1>6. QED BY <1>2, <1>3, <1>4, <1>5 DEF passes

LEMMA CheckRow ==
  ASSUME PlumbingInv, GatesMade, SnapsOK, NEW r \in GatedRows, NEW h \in Rows, CheckUpdate(h), RowOK(r)
  PROVE  RowOK(r)'
  <1> USE DEF plcVars, cacheVars, laneVars, writeVars, mainVars
  <1>0. RowTypes(r) /\ r # NoTag /\ r \in Rows /\ local \in Queues
    BY RowTyped, PollPublishAssumption DEF PlumbingInv, EvidenceInv, GatedRows, TypeOK
  <1>1. /\ main = "draining" /\ applying = NoApply
        /\ UNCHANGED <<main, epoch, table, gates, laneOut, node, uaQueue, readback, writerOut, writer>>
    BY DEF CheckUpdate
  <1>2. UNCHANGED <<Out(r), table[r], gates[r], node[r], uaQueue[r]>> /\ ~CallbackOn(r)
    BY <1>1 DEF Out, CallbackOn
  <1>3. CASE h # r
    <2>1. local'[r] = local[r] /\ applying.row # r /\ (applying'.row = r => applying'.update = NoUpdate)
      BY <1>0, <1>3 DEF CheckUpdate, NoApply
    <2>2. \A w \in Writers : Corrects(writerOut[w][r]) => Corrects(writerOut[w][r])'
      BY <1>1 DEF Corrects
    <2>3. \A i \in DOMAIN readback[r] : Corrects(readback[r][i]) =>
             \E j \in DOMAIN readback'[r] : Corrects(readback[r][j])'
      BY <1>1 DEF Corrects
    <2>4. UNCHANGED <<epoch, table[r], gates[r], Out(r), uaQueue[r], local[r], node[r]>>
      BY <1>1, <1>2, <2>1
    <2>5. QED BY <1>2, <2>1, <2>2, <2>3, <2>4, RowKept
  <1>4. CASE h = r
    <2> DEFINE q == local[r]
               u == Head(q)
               passes == UaPublicationIsCurrent(u) /\ ~Superseded(r, u)
    <2>1. /\ q \in Seq(Update) /\ q # <<>> /\ local'[r] = Tail(q)
          /\ applying' = IF passes THEN [row |-> r, update |-> u] ELSE NoApply
      BY <1>0, <1>4 DEF CheckUpdate, RowTypes, Queues
    <2>2. u \in Update /\ u = q[1]
      BY <2>1, WithoutHead
    <2>3. /\ passes /\ u.snap.good => Accepted(u, r)
          /\ ~table[r].good /\ Corrects(u) => passes
          /\ table[r].good /\ CarriesRow(u, r) => passes
          /\ table[r].good /\ IsWaiting(u) => ~passes
      BY <1>1, <2>2, Checked
    <2>4. /\ passes => applying'.row = r /\ applying'.update = u
          /\ ~passes => applying'.row # r
      BY <1>0, <2>1 DEF NoApply
    <2>5. applying.row # r
      BY <1>0, <1>1 DEF NoApply
    <2> HIDE DEF q, u, passes
    <2>6. CASE table[r].good
      <3>1. Sent(r)
        BY <2>6 DEF RowOK
      <3>2. CASE CarriesRow(Out(r), r)
        BY <1>1, <1>2, <2>6, <3>2 DEF RowOK, Sent, CarriesRow
      <3>3. CASE Out(r) = NoUpdate /\ uaQueue[r] # <<>> /\ CarriesRow(uaQueue[r][Len(uaQueue[r])], r)
        BY <1>1, <1>2, <2>6, <3>3 DEF RowOK, Sent, CarriesRow
      <3>4. CASE Out(r) = NoUpdate /\ uaQueue[r] = <<>> /\ Arrived(r)
        <4>1. \A i \in DOMAIN q : IsWaiting(q[i])
          BY <3>4 DEF Arrived, q
        <4>2. IsWaiting(u) /\ \A i \in DOMAIN Tail(q) : IsWaiting(Tail(q)[i])
          BY <2>1, <2>2, <4>1, WithoutHead
        <4>3. applying'.row # r
          BY <2>3, <2>4, <2>6, <4>2
        <4>4. Shown(r)'
          BY <1>1, <1>2, <2>5, <3>4 DEF Arrived, Shown
        <4>5. \A i \in DOMAIN local'[r] : IsWaiting(local'[r][i])
          BY <2>1, <4>2
        <4>6. \A i \in DOMAIN local'[r] : IsWaiting(local[r][i])'
          BY <4>5 DEF IsWaiting
        <4>7. Arrived(r)'
          BY <4>3, <4>4, <4>6 DEF Arrived
        <4>8. QED BY <1>2, <2>6, <3>4, <4>7 DEF RowOK, Sent
      <3>5. CASE Out(r) = NoUpdate /\ uaQueue[r] = <<>> /\ CarriesRow(q[Len(q)], r)
        <4>1. CASE Len(q) = 1
          <5>1. \A i \in DOMAIN local'[r] : FALSE
            BY <2>1, <4>1, WithoutHead
          <5>2. CarriesRow(u, r)
            <6>1. q[Len(q)] = u
              BY <2>2, <4>1
            <6>2. QED BY <3>5, <6>1 DEF CarriesRow
          <5>3. applying'.row = r /\ applying'.update = u
            BY <2>3, <2>4, <2>6, <5>2
          <5>4. CarriesRow(applying.update, r)'
            BY <1>1, <1>2, <5>2, <5>3 DEF CarriesRow
          <5>5. Arrived(r)'
            BY <5>1, <5>3, <5>4 DEF Arrived
          <5>6. QED BY <1>2, <2>6, <3>5, <5>5 DEF RowOK, Sent
        <4>2. CASE Len(q) # 1
          <5> DEFINE tl == Tail(q)
          <5>1. /\ Len(q) \in Nat /\ Len(q) >= 1 /\ Len(tl) = Len(q) - 1 /\ DOMAIN q = 1..Len(q)
                /\ tl \in Seq(Update)
                /\ \A i \in DOMAIN q : i # 1 => i - 1 \in DOMAIN tl /\ tl[i - 1] = q[i]
            BY <2>1, WithoutHead
          <5> HIDE DEF tl
          <5>2. Len(q) \in DOMAIN q /\ Len(tl) \in DOMAIN tl /\ tl[Len(tl)] = q[Len(q)]
            BY <4>2, <5>1
          <5>a. tl # <<>>
            BY <5>2
          <5>3. local'[r] # <<>> /\ CarriesRow(local[r][Len(local[r])], r)'
            BY <1>1, <1>2, <2>1, <3>5, <5>a, <5>2 DEF CarriesRow, tl
          <5>4. QED BY <1>2, <2>6, <3>5, <5>3 DEF RowOK, Sent
        <4>3. QED BY <4>1, <4>2
      <3>6. QED BY <3>1, <3>2, <3>3, <3>4, <3>5 DEF Sent, q
    <2>7. CASE ~table[r].good
      <3>1. AcceptedIsFollowed(r) /\ (Stale(r) => Coming(r))
        BY <2>7 DEF RowOK
      <3> DEFINE after == CorrectsAt(Out(r), epoch) \/ HasCorrection(uaQueue[r], epoch)
      <3>2. /\ ~AcceptedAt(Out(r), epoch, gates[r])
            /\ FollowedIn(uaQueue[r], epoch, gates[r], CorrectsAt(Out(r), epoch))
            /\ FollowedIn(q, epoch, gates[r], after)
        BY <3>1 DEF AcceptedIsFollowed, FollowedIn, Accepted, Corrects, HasCorrection, q
      <3>3. after \in BOOLEAN
        BY DEF HasCorrection, CorrectsAt
      <3> HIDE DEF after
      <3>4. /\ FollowedIn(Tail(q), epoch, gates[r], after)
            /\ AcceptedAt(u, epoch, gates[r]) => HasCorrection(Tail(q), epoch) \/ after
        BY <2>1, <3>2, <3>3, FollowedBehind DEF u
      <3>5. AcceptedIsFollowed(r)'
        <4>1. /\ ~AcceptedAt(Out(r)', epoch', gates'[r])
              /\ FollowedIn(uaQueue'[r], epoch', gates'[r], CorrectsAt(Out(r)', epoch'))
              /\ FollowedIn(local'[r], epoch', gates'[r],
                            CorrectsAt(Out(r)', epoch') \/ HasCorrection(uaQueue'[r], epoch'))
          BY <1>1, <1>2, <2>1, <3>2, <3>4 DEF after
        <4>2. QED BY <4>1 DEF AcceptedIsFollowed, FollowedIn, Accepted, Corrects, HasCorrection
      <3>6. after \/ HasCorrection(Tail(q), epoch) => Coming(r)'
        <4>1. after \/ HasCorrection(Tail(q), epoch) =>
                \/ CorrectsAt(Out(r)', epoch')
                \/ HasCorrection(uaQueue'[r], epoch')
                \/ HasCorrection(local'[r], epoch')
          BY <1>1, <1>2, <2>1 DEF after
        <4>2. QED BY <4>1 DEF Coming, Corrects, HasCorrection
      <3>7. Coming(r) => Coming(r)'
        <4>1. CASE Corrects(u)
          <5>1. applying'.row = r /\ ~applying'.update.snap.good
            BY <2>3, <2>4, <2>7, <4>1 DEF Corrects, CorrectsAt
          <5>2. QED BY <5>1 DEF Coming
        <4>2. CASE ~Corrects(u)
          <5>1. HasCorrection(q, epoch) => HasCorrection(Tail(q), epoch)
            BY <2>1, <4>2, CorrectionBehind DEF Corrects, u
          <5>2. HasCorrection(readback[r], epoch) => HasCorrection(readback'[r], epoch')
            BY <1>1
          <5>3. \A w \in Writers : CorrectsAt(writerOut[w][r], epoch) => CorrectsAt(writerOut'[w][r], epoch')
            BY <1>1
          <5>4. Coming(r) => \/ after \/ HasCorrection(q, epoch) \/ HasCorrection(readback[r], epoch)
                             \/ \E w \in Writers : CorrectsAt(writerOut[w][r], epoch)
            BY <2>5 DEF Coming, Corrects, HasCorrection, after, q
          <5>5. HasCorrection(readback'[r], epoch') => Coming(r)'
            BY DEF Coming, Corrects, HasCorrection
          <5>6. (\E w \in Writers : CorrectsAt(writerOut'[w][r], epoch')) => Coming(r)'
            BY DEF Coming, Corrects
          <5>7. QED BY <3>6, <5>1, <5>2, <5>3, <5>4, <5>5, <5>6
        <4>3. QED BY <4>1, <4>2
      <3>8. Stale(r)' => Coming(r)'
        <4>1. CASE node[r].status = "Good" /\ node[r].started # 0
          BY <3>1, <3>7, <4>1 DEF Stale
        <4>2. CASE applying'.row = r /\ applying'.update.snap.good
          <5>1. Accepted(u, r)
            BY <2>3, <2>4, <4>2
          <5>2. QED BY <3>4, <3>6, <5>1 DEF Accepted
        <4>3. QED BY <1>2, <4>1, <4>2 DEF Stale
      <3>9. QED BY <1>2, <2>7, <3>5, <3>8 DEF RowOK
    <2>8. QED BY <2>6, <2>7
  <1>5. QED BY <1>3, <1>4

(* Steps that leave a row and everything under way for it alone.           *)
LEMMA QuietRow ==
  ASSUME NEW r, RowOK(r),
         UNCHANGED <<epoch, table[r], gates[r], Out(r), uaQueue, local, node, readback, writerOut>>,
         \/ applying' = applying
         \/ applying.row # r /\ (applying'.row = r => applying'.update = NoUpdate),
         CallbackOn(r) => CallbackOn(r)'
  PROVE  RowOK(r)'
  <1>1. \A w \in Writers : Corrects(writerOut[w][r]) => Corrects(writerOut[w][r])'
    BY DEF Corrects
  <1>2. \A i \in DOMAIN readback[r] : Corrects(readback[r][i]) =>
           \E j \in DOMAIN readback'[r] : Corrects(readback[r][j])'
    BY DEF Corrects
  <1>3. UNCHANGED <<epoch, table[r], gates[r], Out(r), uaQueue[r], local[r], node[r]>>
    OBVIOUS
  <1>4. QED BY <1>1, <1>2, <1>3, RowKept

(* The refresh at the end of a write callback fetches the row itself.      *)
LEMMA FetchRow ==
  ASSUME PlumbingInv, NEW r \in GatedRows, FetchCached, RowOK(r)
  PROVE  RowOK(r)'
  <1> USE DEF plcVars, cacheVars, laneVars, writeVars, mainVars
  <1>0. RowTypes(r) /\ r # NoTag /\ r \in Rows
    BY RowTyped, PollPublishAssumption DEF PlumbingInv, EvidenceInv, GatedRows
  <1>1. /\ main = "uaRefresh" /\ applying.update = NoUpdate /\ local[r] = <<>>
        /\ UNCHANGED <<epoch, table, gates, laneOut, node, uaQueue, local, readback, writerOut, writer>>
    BY <1>0 DEF FetchCached, PlumbingInv, DrainOK, EmptyQueues
  <1>2. UNCHANGED <<Out(r), table[r], gates[r], node[r], uaQueue[r]>>
    BY <1>1 DEF Out
  <1>3. CASE applying.row # r
    <2>1. ~CallbackOn(r) /\ applying'.row # r
      BY <1>0, <1>1, <1>3 DEF FetchCached, CallbackOn, NoApply, PlumbingInv, EvidenceInv, TypeOK
    <2>2. QED BY <1>1, <1>2, <1>3, <2>1, QuietRow
  <1>4. CASE applying.row = r
    <2>1. table[r] # NoRow
      BY <1>1 DEF PlumbingInv, ClientInv, RowsMade, NoRow, Snapshot, State
    <2>2. applying'.row = r /\ applying'.update = [snap |-> table[r], epoch |-> epoch]
      BY <1>1, <1>4, <2>1 DEF FetchCached, PlumbingInv, EvidenceInv, TypeOK
    <2>3. CASE table[r].good
      <3>1. CarriesRow(applying.update, r)'
        BY <1>1, <2>2 DEF CarriesRow
      <3>2. Arrived(r)'
        BY <1>1, <2>2, <3>1 DEF Arrived
      <3>3. QED BY <1>1, <1>2, <2>3, <3>2 DEF RowOK, Sent, CarriesRow
    <2>4. CASE ~table[r].good
      <3>1. AcceptedIsFollowed(r)
        BY <2>4 DEF RowOK
      <3>2. AcceptedIsFollowed(r)'
        BY <1>1, <1>2, <3>1 DEF AcceptedIsFollowed, Accepted, Corrects
      <3>3. Coming(r)'
        BY <2>2, <2>4 DEF Coming
      <3>4. QED BY <1>2, <2>4, <3>2, <3>3 DEF RowOK
    <2>5. QED BY <2>3, <2>4
  <1>5. QED BY <1>3, <1>4

(* A row that is GOOD by its gate is Good by the nodes' gate, too.         *)
LEMMA StatusOfRow ==
  ASSUME PlumbingInv, GatesMade, NEW r \in GatedRows, table[r].good, SnapOK(table[r])
  PROVE  UaSnapshotStatus(table[r]) = "Good"
  <1> DEFINE snap == table[r]
  <1>0. /\ RowTypes(r) /\ epoch \in Nat /\ now \in Nat /\ binding \in Gate
    BY RowTyped DEF PlumbingInv, EvidenceInv, TypeOK
  <1>1. /\ snap.good /\ snap.state = "Active" /\ PastAt(snap.read, now)
        /\ snap.read.epoch = epoch /\ snap.read.started >= gates[r].after
        /\ gates[r].after >= binding.after /\ binding.active /\ binding.epoch = epoch
    BY DEF PlumbingInv, EvidenceInv, GoodRowHasEvidence, GatesMade, SnapOK, SnapAt
  <1>2. snap \in Snapshot /\ snap.read \in Stamp /\ binding.after \in Nat /\ gates[r].after \in Nat
    BY <1>0, <1>1 DEF RowTypes, Snapshot, NoRow, Gate
  <1> HIDE DEF snap
  <1>3. snap.read.started >= binding.after
    BY <1>1, <1>2 DEF Stamp
  <1>4. GateQuality(binding, snap.read, TRUE, now) = "Good"
    BY <1>0, <1>1, <1>2, <1>3, GateAccepts
  <1>5. UaSnapshotStatus(snap) = "Good"
    BY <1>1, <1>4 DEF UaSnapshotStatus
  <1>6. QED BY <1>5 DEF snap

LEMMA GoodStatusIsGood ==
  ASSUME TypeOK, NEW snap \in Snapshot, UaSnapshotStatus(snap) = "Good"
  PROVE  snap.good
  <1>1. GateQuality(binding, snap.read, snap.good, now) = "Good"
    BY DEF UaSnapshotStatus
  <1>2. QED BY <1>1 DEF GateQuality, TypeOK, Gate, Snapshot

LEMMA ApplyRow ==
  ASSUME PlumbingInv, GatesMade, SnapsOK, NEW r \in GatedRows, ApplyUpdate, RowOK(r)
  PROVE  RowOK(r)'
  <1> USE DEF plcVars, cacheVars, laneVars, writeVars, mainVars
  <1>0. /\ RowTypes(r) /\ r # NoTag /\ r \in Rows /\ node \in [Rows -> Node] /\ TypeOK
        /\ applying.update \in Update
    BY RowTyped, PollPublishAssumption DEF PlumbingInv, EvidenceInv, GatedRows, TypeOK
  <1>1. /\ main \in {"draining", "uaRefresh"} /\ applying.update # NoUpdate /\ applying' = NoApply
        /\ UNCHANGED <<epoch, table, gates, laneOut, uaQueue, local, readback, writerOut, writer>>
    BY DEF ApplyUpdate
  <1>2. UNCHANGED <<Out(r), table[r], gates[r], uaQueue[r], local[r]>> /\ applying'.row # r
    BY <1>0, <1>1 DEF Out, NoApply
  <1>3. CASE applying.row # r
    <2>1. ~CallbackOn(r) /\ node'[r] = node[r]
      BY <1>0, <1>1, <1>3 DEF ApplyUpdate, CallbackOn
    <2>2. \A w \in Writers : Corrects(writerOut[w][r]) => Corrects(writerOut[w][r])'
      BY <1>1 DEF Corrects
    <2>3. \A i \in DOMAIN readback[r] : Corrects(readback[r][i]) =>
             \E j \in DOMAIN readback'[r] : Corrects(readback[r][j])'
      BY <1>1 DEF Corrects
    <2>4. UNCHANGED <<epoch, table[r], gates[r], Out(r), uaQueue[r], local[r], node[r]>>
      BY <1>1, <1>2, <2>1
    <2>5. QED BY <1>2, <1>3, <2>1, <2>2, <2>3, <2>4, RowKept
  <1>4. CASE applying.row = r
    <2> DEFINE snap == applying.update.snap
               status == UaSnapshotStatus(snap)
    <2>1. /\ node'[r].status = status
          /\ node'[r].started = IF status = "Good" THEN snap.read.started ELSE 0
      BY <1>0, <1>4 DEF ApplyUpdate
    <2>2. snap \in Snapshot
      BY <1>0 DEF Update
    <2> HIDE DEF snap, status
    <2>3. CASE table[r].good
      <3>1. Sent(r)
        BY <2>3 DEF RowOK
      <3>2. Arrived(r) => Arrived(r)'
        <4>1. SUFFICES ASSUME Arrived(r) PROVE Arrived(r)'
          OBVIOUS
        <4>2. CarriesRow(applying.update, r) /\ \A i \in DOMAIN local[r] : IsWaiting(local[r][i])
          BY <1>1, <1>4, <4>1 DEF Arrived
        <4>3. snap = table[r] /\ SnapOK(table[r])
          BY <4>2 DEF CarriesRow, SnapsOK, RowSnapsOK, snap
        <4>4. status = "Good"
          BY <2>3, <4>3, StatusOfRow DEF status
        <4>5. Shown(r)'
          BY <1>2, <2>1, <4>3, <4>4 DEF Shown
        <4>6. \A i \in DOMAIN local'[r] : IsWaiting(local[r][i])'
          BY <1>1, <4>2 DEF IsWaiting
        <4>7. QED BY <1>2, <4>5, <4>6 DEF Arrived
      <3>3. Sent(r)'
        BY <1>1, <1>2, <3>1, <3>2 DEF Sent, CarriesRow
      <3>4. QED BY <1>2, <2>3, <3>3 DEF RowOK
    <2>4. CASE ~table[r].good
      <3>1. AcceptedIsFollowed(r) /\ (Stale(r) => Coming(r))
        BY <2>4 DEF RowOK
      <3>2. AcceptedIsFollowed(r)'
        BY <1>1, <1>2, <3>1 DEF AcceptedIsFollowed, Accepted, Corrects
      <3>3. ASSUME Stale(r)' PROVE Coming(r)'
        <4>1. status = "Good"
          BY <1>2, <2>1, <3>3 DEF Stale
        <4>2. applying.update.snap.good
          BY <1>0, <2>2, <4>1, GoodStatusIsGood DEF status, snap
        <4>3. Coming(r)
          BY <1>4, <3>1, <4>2 DEF Stale
        <4>4. QED BY <1>1, <1>2, <4>2, <4>3 DEF Coming, Corrects
      <3>4. QED BY <1>2, <2>4, <3>2, <3>3 DEF RowOK
    <2>5. QED BY <2>3, <2>4
  <1>5. QED BY <1>3, <1>4

LEMMA LaneRow ==
  ASSUME PlumbingInv, epoch >= 1, NEW r \in GatedRows, NEW l \in Lanes, LaneStep(l), RowOK(r)
  PROVE  RowOK(r)'
  <1> USE DEF plcVars, cacheVars, laneVars, writeVars, mainVars
  <1>1. ASSUME UNCHANGED <<epoch, table, gates, laneOut, uaQueue, local, node, readback, writerOut,
                           writer, main, applying>>
        PROVE  RowOK(r)'
    <2>1. (CallbackOn(r) => CallbackOn(r)') /\ UNCHANGED Out(r)
      BY <1>1 DEF CallbackOn, Out
    <2>2. QED BY <1>1, <2>1, QuietRow
  <1>2. ASSUME RestSame(r), RowSame(r)
        PROVE  RowOK(r)'
    <2>1. CallbackOn(r) => CallbackOn(r)'
      BY <1>2 DEF CallbackOn, RestSame
    <2>2. QED BY <1>2, <2>1, QuietRow DEF RestSame, RowSame
  <1>3. ASSUME NEW t \in Tags, NEW active \in BOOLEAN, TransitionDemand(l, t, active)
        PROVE  RowOK(r)'
    <2>1. CASE RootOf(r) # t
      BY <1>2, <1>3, <2>1, DemandEffect
    <2>2. CASE RootOf(r) = t
      BY <1>3, <2>2, DemandEffect, FreshOut DEF RestSame
    <2>3. QED BY <2>1, <2>2
  <1>4. ASSUME NEW undecoded \in SUBSET Rows, Commit(l, undecoded)
        PROVE  RowOK(r)'
    <2>1. CASE RootOf(r) # lane[l].tag
      BY <1>2, <1>4, <2>1, CommitEffect
    <2>2. CASE RootOf(r) = lane[l].tag
      BY <1>4, <2>2, CommitEffect, FreshOut DEF RestSame
    <2>3. QED BY <2>1, <2>2
  <1>5. CASE LanePush(l)
    BY <1>5, PushRow
  <1>6. ASSUME NEW t \in Tags, NEW others \in SUBSET Tags,
               SkipInactive(l, t) \/ BeginRead(l, t, others) \/ UsePrefetched(l, t)
        PROVE  RowOK(r)'
    BY <1>1, <1>6 DEF SkipInactive, BeginRead, UsePrefetched
  <1>7. ASSUME NEW oks \in SUBSET Tags, FinishRead(l, oks)
        PROVE  RowOK(r)'
    BY <1>1, <1>7 DEF FinishRead
  <1>8. CASE DropSample(l) \/ LaneExit(l)
    BY <1>1, <1>8 DEF DropSample, LaneExit
  <1>9. QED BY <1>3, <1>4, <1>5, <1>6, <1>7, <1>8 DEF LaneStep

LEMMA PublicationStep ==
  ASSUME DrainInv, [Next]_vars
  PROVE  PublicationOK'
  <1> USE DEF plcVars, cacheVars, laneVars, writeVars, mainVars
  <1>0. /\ PlumbingInv /\ GatesMade /\ SnapsOK /\ epoch >= 1 /\ epoch \in Nat
        /\ GatedRows \subseteq Rows
    BY DEF DrainInv, GatesMade, PlumbingInv, EvidenceInv, TypeOK, GatedRows
  <1>1. Reloading \/ \A r \in GatedRows : RowOK(r)
    BY DEF DrainInv, PublicationOK
  <1>2. CASE Reloading'
    BY <1>2 DEF PublicationOK
  <1>3. CASE StartPollers
    <2>1. ASSUME NEW r \in GatedRows PROVE RowOK(r)'
      <3>1. /\ ~table'[r].good /\ gates'[r].after = now /\ UNCHANGED <<Out(r), local[r], epoch>>
        BY <1>0, <1>3, StartEffect DEF StartPollers
      <3>2. \E u \in Update : CorrectsAt(u, epoch') /\ uaQueue'[r] = Append(uaQueue[r], u)
        BY <1>0, <1>3, <3>1, StartEffect DEF CorrectsAt
      <3>3. QED BY <1>0, <3>1, <3>2, BoundaryRow DEF SnapsOK
    <2>2. QED BY <2>1 DEF PublicationOK
  <1>4. ASSUME main' = main, \A r \in GatedRows : RowOK(r) => RowOK(r)'
        PROVE  PublicationOK'
    BY <1>1, <1>4 DEF PublicationOK, Reloading
  <1>5. ASSUME NEW l \in Lanes, LaneStep(l)
        PROVE  PublicationOK'
    <2>1. UNCHANGED main
      BY <1>5 DEF LaneStep, TransitionDemand, SkipInactive, BeginRead, FinishRead, UsePrefetched,
         Commit, DropSample, LanePush, LaneExit
    <2>2. QED BY <1>0, <1>4, <1>5, <2>1, LaneRow
  <1>6. ASSUME NEW w \in Writers, WriterStep(w)
        PROVE  PublicationOK'
    <2>1. main' = main \/ main = "run" \/ (writer[w].phase # "idle" /\ w \in UaWriters)
      <3>1. CASE RefuseWrite(w)
        BY <3>1 DEF RefuseWrite, ReturnFromWrite
      <3>2. CASE WriterPush(w)
        BY <3>2 DEF WriterPush, ReturnFromWrite
      <3>3. QED
        BY <1>6, <3>1, <3>2 DEF WriterStep, BeginWrite, BeginUaWrite, WriteEntry, AcquireGate,
           RejectWrite, PlcWrite, WriteExit
    <2>2. main' = main \/ main \in {"run", "uaWrite"}
      BY <1>0, <2>1 DEF PlumbingInv, ClientInv, OneCallback
    <2>3. \A r \in GatedRows : RowOK(r) => RowOK(r)'
      BY <1>0, <1>6, WriterRow DEF SnapsOK
    <2>4. QED BY <1>1, <1>4, <2>2, <2>3 DEF PublicationOK, Reloading
  <1>7. CASE StopPollers \/ JoinPollers \/ LoadDriver \/ LoadFails
    BY <1>2, <1>7 DEF StopPollers, JoinPollers, LoadDriver, LoadFails, Reloading
  <1>8. ASSUME main \in {"run", "swapped", "draining", "uaRefresh"},
               \A r \in GatedRows : RowOK(r) => RowOK(r)'
        PROVE  PublicationOK'
    BY <1>1, <1>8 DEF PublicationOK, Reloading
  <1>9. CASE SwapUaQueue
    <2>1. main = "run"
      BY <1>9 DEF SwapUaQueue
    <2>2. QED BY <1>0, <1>8, <1>9, <2>1, SwapRow
  <1>10. CASE TakeReadback
    <2>1. main = "swapped"
      BY <1>10 DEF TakeReadback
    <2>2. QED BY <1>0, <1>8, <1>10, <2>1, TakeRow
  <1>11. ASSUME NEW h \in Rows, CheckUpdate(h) PROVE PublicationOK'
    <2>1. main = "draining"
      BY <1>11 DEF CheckUpdate
    <2>2. QED BY <1>0, <1>8, <1>11, <2>1, CheckRow
  <1>12. CASE FetchCached
    <2>1. main = "uaRefresh"
      BY <1>12 DEF FetchCached
    <2>2. QED BY <1>0, <1>8, <1>12, <2>1, FetchRow
  <1>13. CASE ApplyUpdate
    <2>1. main \in {"draining", "uaRefresh"}
      BY <1>13 DEF ApplyUpdate
    <2>2. QED BY <1>0, <1>8, <1>13, <2>1, ApplyRow
  <1>14. CASE DrainDone
    <2>1. /\ main = "draining"
          /\ UNCHANGED <<epoch, table, gates, laneOut, uaQueue, local, node, readback, writerOut, applying>>
      BY <1>14 DEF DrainDone
    <2>2. \A r \in GatedRows : ~CallbackOn(r) /\ UNCHANGED Out(r)
      BY <2>1 DEF CallbackOn, Out
    <2>3. QED BY <1>8, <2>1, <2>2, QuietRow
  <1>15. CASE Tick \/ BumpGeneration \/ UNCHANGED vars
    <2>1. UNCHANGED <<epoch, table, gates, laneOut, uaQueue, local, node, readback, writerOut, writer,
                      main, applying>>
      BY <1>15 DEF Tick, BumpGeneration, vars
    <2>2. \A r \in GatedRows : (CallbackOn(r) => CallbackOn(r)') /\ UNCHANGED Out(r)
      BY <2>1 DEF CallbackOn, Out
    <2>3. QED BY <1>4, <2>1, <2>2, QuietRow
  <1>16. QED
    BY <1>3, <1>5, <1>6, <1>7, <1>9, <1>10, <1>11, <1>12, <1>13, <1>14, <1>15 DEF Next, MainStep

-----------------------------------------------------------------------------
(* GOOD snapshots come from reads.                                         *)

SnapsIn(q, n) == \A i \in DOMAIN q : SnapAt(q[i].snap, n)

(* What is not GOOD, and what was of the past, is of the past.             *)
LEMMA SnapsLater ==
  ASSUME PlumbingInv, NEW r \in GatedRows, RowSnapsOK(r), NEW n \in Nat, n >= now
  PROVE  /\ SnapAt(table[r], n) /\ SnapAt(Out(r).snap, n)
         /\ SnapsIn(uaQueue[r], n) /\ SnapsIn(local[r], n)
  <1>0. RowTypes(r) /\ now \in Nat
    BY RowTyped DEF PlumbingInv, EvidenceInv, TypeOK
  <1>1. ASSUME NEW s \in Snapshot \cup {NoRow}, SnapOK(s) PROVE SnapAt(s, n)
    <2>1. CASE s = NoRow
      BY <2>1 DEF SnapAt, NoRow
    <2>2. CASE s \in Snapshot
      <3>1. s.read \in Stamp
        BY <2>2 DEF Snapshot
      <3>2. QED BY <1>0, <1>1, <3>1 DEF SnapOK, SnapAt, PastAt, Stamp
    <2>3. QED BY <2>1, <2>2
  <1>2. SnapAt(table[r], n) /\ SnapAt(Out(r).snap, n)
    BY <1>0, <1>1 DEF RowTypes, RowSnapsOK, Update
  <1>3. ASSUME NEW i \in DOMAIN uaQueue[r] PROVE SnapAt(uaQueue[r][i].snap, n)
    <2>1. uaQueue[r][i] \in Update
      BY <1>0 DEF RowTypes
    <2>2. QED BY <1>1, <2>1 DEF RowSnapsOK, Update
  <1>4. ASSUME NEW i \in DOMAIN local[r] PROVE SnapAt(local[r][i].snap, n)
    <2>1. local[r][i] \in Update
      BY <1>0 DEF RowTypes
    <2>2. QED BY <1>1, <2>1 DEF RowSnapsOK, Update
  <1>5. QED BY <1>2, <1>3, <1>4 DEF SnapsIn

LEMMA SnapsAppended ==
  ASSUME NEW q \in Seq(Update), NEW u \in Update, NEW n, SnapsIn(q, n), SnapAt(u.snap, n)
  PROVE  SnapsIn(Append(q, u), n)
  <1> SUFFICES ASSUME NEW i \in DOMAIN Append(q, u)
               PROVE  SnapAt(Append(q, u)[i].snap, n)
    BY DEF SnapsIn
  <1>1. CASE i \in DOMAIN q
    <2>1. Append(q, u)[i] = q[i]
      BY <1>1
    <2>2. QED BY <1>1, <2>1 DEF SnapsIn
  <1>2. CASE i \notin DOMAIN q
    <2>1. Append(q, u)[i] = u
      BY <1>2
    <2>2. QED BY <2>1
  <1>3. QED BY <1>1, <1>2

(* A commit makes a row GOOD only as Active.                               *)
LEMMA CommittedActive ==
  ASSUME TypeOK, NEW t \in Tags, NEW s \in Sample, NEW r \in GatedRows, NEW undecoded,
         gates[r].present, CommittedRow(t, s, r, undecoded).good
  PROVE  CommittedRow(t, s, r, undecoded).state = "Active"
  <1>1. ASSUME NEW g, g.present, NEW snap \in Snapshot, ApplyPollCacheGate(g, snap, now).good
        PROVE  ApplyPollCacheGate(g, snap, now).state = "Active"
    BY <1>1 DEF ApplyPollCacheGate, NotGood, Snapshot
  <1>2. \A x : RawSnapshot(s, x, undecoded) \in Snapshot
    BY NotGoodType DEF RawSnapshot, GoodSnapshot, NotGood, Snapshot, Sample, State
  <1>3. gates[t] \in Gate /\ now \in Nat
    BY DEF TypeOK, Rows
  <1> DEFINE root == CommittedRoot(t, s, undecoded)
             base == IF root.good /\ r \in undecoded THEN NotGood(root.state) ELSE root
  <1>4. root \in Snapshot
    BY <1>2, <1>3, ApplyType DEF CommittedRoot
  <1>5. base \in Snapshot
    BY <1>4, NotGoodType DEF Snapshot
  <1>6. CommittedRow(t, s, r, undecoded) \in
          {ApplyPollCacheGate(gates[r], RawSnapshot(s, r, undecoded), now),
           ApplyPollCacheGate(gates[r], base, now)}
    BY DEF CommittedRow, CommittedRoot
  <1> HIDE DEF base
  <1>7. QED BY <1>1, <1>2, <1>5, <1>6

LEMMA SnapsStep ==
  ASSUME DrainInv, [Next]_vars
  PROVE  SnapsOK'
  <1> USE DEF plcVars, cacheVars, laneVars, writeVars, mainVars
  <1>0. PlumbingInv /\ SnapsOK /\ ReadsOK /\ TypeOK /\ now \in Nat
    BY DEF DrainInv, PlumbingInv, EvidenceInv, TypeOK
  <1>1. now' \in Nat /\ now' >= now
    BY <1>0, TimeStep
  <1> SUFFICES ASSUME NEW r \in GatedRows PROVE RowSnapsOK(r)'
    BY DEF SnapsOK
  <1>2. RowTypes(r) /\ r \in Rows
    BY <1>0, RowTyped DEF GatedRows
  <1>3. /\ SnapAt(table[r], now') /\ SnapAt(Out(r).snap, now')
        /\ SnapsIn(uaQueue[r], now') /\ SnapsIn(local[r], now')
    BY <1>0, <1>1, SnapsLater DEF SnapsOK
  <1>4. ASSUME SnapAt(table'[r], now'), SnapAt(Out(r)'.snap, now'),
               SnapsIn(uaQueue'[r], now'), SnapsIn(local'[r], now')
        PROVE  RowSnapsOK(r)'
    BY <1>4 DEF RowSnapsOK, SnapOK, SnapsIn
  <1>5. CASE UNCHANGED <<table[r], Out(r), uaQueue[r], local[r]>>
    BY <1>3, <1>4, <1>5
  <1>6. CASE UNCHANGED <<table, laneOut, uaQueue, local>>
    <2>1. UNCHANGED Out(r)
      BY <1>6 DEF Out
    <2>2. QED BY <1>5, <1>6, <2>1
  <1>7. ASSUME NEW l \in Lanes, LaneStep(l)
        PROVE  RowSnapsOK(r)'
    <2>1. ASSUME RestSame(r), SnapAt(table'[r], now'), Out(r)'.snap = table'[r]
          PROVE  RowSnapsOK(r)'
      BY <1>3, <1>4, <2>1 DEF RestSame
    <2>2. ASSUME NEW t \in Tags, NEW active \in BOOLEAN, TransitionDemand(l, t, active)
          PROVE  RowSnapsOK(r)'
      <3>1. CASE RootOf(r) # t
        BY <1>0, <1>5, <2>2, <3>1, DemandEffect DEF RestSame, RowSame
      <3>2. CASE RootOf(r) = t
        <4>1. /\ table'[r] = TransitionRow(gates[r], table[r], active, FALSE)
              /\ RestSame(r) /\ Out(r)' = [snap |-> table'[r], epoch |-> epoch]
          BY <1>0, <2>2, <3>2, DemandEffect
        <4>2. table'[r] = table[r] \/ ~table'[r].good
          <5> DEFINE g == gates[r]
                     row == table[r]
          <5>1. table'[r] = TransitionRow(g, row, active, FALSE)
            BY <4>1
          <5> HIDE DEF g, row
          <5>2. CASE TransitionIsNoOp(g, row, active, FALSE)
            BY <5>1, <5>2 DEF TransitionRow, row
          <5>3. CASE ~TransitionIsNoOp(g, row, active, FALSE)
            BY <5>1, <5>3 DEF TransitionRow, NotGood
          <5>4. QED BY <5>2, <5>3
        <4>3. SnapAt(table'[r], now')
          BY <1>3, <4>2 DEF SnapAt
        <4>4. QED BY <2>1, <4>1, <4>3
      <3>3. QED BY <3>1, <3>2
    <2>3. ASSUME NEW undecoded \in SUBSET Rows, Commit(l, undecoded)
          PROVE  RowSnapsOK(r)'
      <3> DEFINE t == lane[l].tag
                 s == lane[l].sample
      <3>1. CASE RootOf(r) # t
        BY <1>0, <1>5, <2>3, <3>1, CommitEffect DEF RestSame, RowSame
      <3>2. CASE RootOf(r) = t
        <4>1. /\ table'[r] = CommittedRow(t, s, r, undecoded)
              /\ RestSame(r) /\ Out(r)' = [snap |-> table'[r], epoch |-> epoch]
          BY <1>0, <2>3, <3>2, CommitEffect
        <4>2. /\ t \in Tags /\ s \in Sample
              /\ \A x \in GatedRows : gates[x].present
              /\ s.ok => Past(s.read)
          BY <1>0, <2>3 DEF Commit, PlumbingInv, EvidenceInv, Structure, LaneTagOK, GatesCurrent,
             TypeOK, LaneState, ReadsOK
        <4> HIDE DEF t, s
        <4>3. table'[r].good => /\ s.ok /\ table'[r].read = s.read
                                /\ table'[r].state = "Active"
          BY <1>0, <3>2, <4>1, <4>2, CommittedGood, CommittedActive
        <4>4. UNCHANGED now
          BY <4>1 DEF RestSame
        <4>5. SnapAt(table'[r], now')
          BY <4>2, <4>3, <4>4 DEF SnapAt, Past
        <4>6. QED BY <2>1, <4>1, <4>5
      <3>3. QED BY <3>1, <3>2
    <2>4. CASE LanePush(l)
      <3>1. /\ UNCHANGED <<table, local>>
            /\ \/ UNCHANGED <<Out(r), uaQueue[r]>>
               \/ Out(r)' = NoUpdate /\ uaQueue'[r] = Append(uaQueue[r], Out(r))
        BY <1>0, <2>4, PushEffect
      <3>2. CASE UNCHANGED <<Out(r), uaQueue[r]>>
        BY <1>5, <3>1, <3>2
      <3>3. CASE Out(r)' = NoUpdate /\ uaQueue'[r] = Append(uaQueue[r], Out(r))
        <4>1. SnapsIn(uaQueue'[r], now')
          BY <1>2, <1>3, <3>3, SnapsAppended DEF RowTypes
        <4>2. SnapAt(Out(r)'.snap, now')
          BY <3>3 DEF SnapAt, NoUpdate, NotGood
        <4>3. QED BY <1>3, <1>4, <3>1, <4>1, <4>2
      <3>4. QED BY <3>1, <3>2, <3>3
    <2>5. CASE UNCHANGED <<table, laneOut, uaQueue, local>>
      BY <1>6, <2>5
    <2>6. QED
      BY <1>7, <2>2, <2>3, <2>4, <2>5 DEF LaneStep, SkipInactive, BeginRead, UsePrefetched, FinishRead,
         DropSample, LaneExit
  <1>8. ASSUME NEW w \in Writers, WriterStep(w)
        PROVE  RowSnapsOK(r)'
    <2>1. CASE WriteEntry(w) \/ WriteExit(w)
      <3>1. /\ UNCHANGED <<laneOut, uaQueue, local>>
            /\ writer[w].phase \in {"entry", "exit"} /\ Invalidate(w)
        BY <2>1 DEF WriteEntry, WriteExit
      <3>2. UNCHANGED Out(r)
        BY <3>1 DEF Out
      <3>3. UNCHANGED table[r] \/ ~table'[r].good
        BY <1>0, <3>1, ReadbackEffect
      <3>4. SnapAt(table'[r], now')
        BY <1>3, <3>3 DEF SnapAt
      <3>5. QED BY <1>3, <1>4, <3>1, <3>2, <3>4
    <2>2. ASSUME ~WriteEntry(w), ~WriteExit(w)
          PROVE  UNCHANGED <<table, laneOut, uaQueue, local>>
      BY <1>8, <2>2 DEF WriterStep, BeginWrite, BeginUaWrite, RefuseWrite, WriterPush,
         AcquireGate, RejectWrite, PlcWrite
    <2>3. QED BY <1>6, <2>1, <2>2
  <1>9. CASE SwapUaQueue
    <2>1. /\ local'[r] = uaQueue[r] /\ uaQueue'[r] = <<>> /\ UNCHANGED <<table, laneOut>>
      BY <1>2, <1>9 DEF SwapUaQueue, EmptyQueues
    <2>2. SnapsIn(uaQueue'[r], now') /\ UNCHANGED Out(r)
      BY <2>1 DEF SnapsIn, Out
    <2>3. QED BY <1>3, <1>4, <2>1, <2>2
  <1>10. CASE TakeReadback
    <2> DEFINE a == readback[r]
               b == local[r]
    <2>1. /\ local'[r] = a \o b /\ UNCHANGED <<table, laneOut, uaQueue>>
          /\ a \in Seq(Update) /\ b \in Seq(Update)
      BY <1>2, <1>10 DEF TakeReadback, RowTypes
    <2>2. \A i \in DOMAIN a : SnapAt(a[i].snap, now')
      BY <1>0, <1>2 DEF PlumbingInv, ReadbackOK, IsWaiting, SnapAt
    <2>3. \A i \in DOMAIN b : SnapAt(b[i].snap, now')
      BY <1>3 DEF SnapsIn
    <2> HIDE DEF a, b
    <2>4. \A i \in DOMAIN (a \o b) : SnapAt((a \o b)[i].snap, now')
      BY <2>1, <2>2, <2>3, Concatenated
    <2>5. SnapsIn(local'[r], now') /\ UNCHANGED Out(r)
      BY <2>1, <2>4 DEF SnapsIn, Out
    <2>6. QED BY <1>3, <1>4, <2>1, <2>5
  <1>11. ASSUME NEW h \in Rows, CheckUpdate(h) PROVE RowSnapsOK(r)'
    <2>1. /\ UNCHANGED <<table, laneOut, uaQueue>>
          /\ h # r => local'[r] = local[r]
          /\ h = r => local[r] # <<>> /\ local'[r] = Tail(local[r])
      BY <1>0, <1>2, <1>11 DEF CheckUpdate, TypeOK, Queues
    <2>2. SnapsIn(local'[r], now')
      <3>1. CASE h # r
        BY <1>3, <2>1, <3>1
      <3>2. CASE h = r
        <4> DEFINE q == local[r]
        <4>1. q \in Seq(Update) /\ q # <<>> /\ local'[r] = Tail(q) /\ SnapsIn(q, now')
          BY <1>2, <1>3, <2>1, <3>2 DEF RowTypes
        <4> HIDE DEF q
        <4>2. \A i \in DOMAIN Tail(q) : SnapAt(Tail(q)[i].snap, now')
          BY <4>1, WithoutHead DEF SnapsIn
        <4>3. QED BY <4>1, <4>2 DEF SnapsIn
      <3>3. QED BY <3>1, <3>2
    <2>3. UNCHANGED Out(r)
      BY <2>1 DEF Out
    <2>4. QED BY <1>3, <1>4, <2>1, <2>2, <2>3
  <1>12. CASE JoinPollers
    <2>1. /\ UNCHANGED <<table, laneOut, local>>
          /\ uaQueue'[r] = uaQueue[r] \/ uaQueue'[r] = <<>>
      BY <1>2, <1>12 DEF JoinPollers, EmptyQueues
    <2>2. SnapsIn(uaQueue'[r], now') /\ UNCHANGED Out(r)
      BY <1>3, <2>1 DEF SnapsIn, Out
    <2>3. QED BY <1>3, <1>4, <2>1, <2>2
  <1>13. CASE LoadDriver
    <2>1. /\ table'[r] = NoRow /\ UNCHANGED <<laneOut, uaQueue, local>>
      BY <1>2, <1>13 DEF LoadDriver
    <2>2. SnapAt(table'[r], now') /\ UNCHANGED Out(r)
      BY <2>1 DEF SnapAt, NoRow, Out
    <2>3. QED BY <1>3, <1>4, <2>1, <2>2
  <1>14. CASE StartPollers
    <2>1. ~table'[r].good /\ UNCHANGED <<laneOut, local>>
      BY <1>0, <1>14, StartEffect DEF StartPollers
    <2>2. PICK u \in Update : ~u.snap.good /\ uaQueue'[r] = Append(uaQueue[r], u)
      BY <1>0, <1>14, StartEffect
    <2>3. SnapAt(u.snap, now') /\ SnapAt(table'[r], now')
      BY <2>1, <2>2 DEF SnapAt
    <2>4. SnapsIn(uaQueue'[r], now')
      BY <1>2, <1>3, <2>2, <2>3, SnapsAppended DEF RowTypes
    <2>5. UNCHANGED Out(r)
      BY <2>1 DEF Out
    <2>6. QED BY <1>3, <1>4, <2>1, <2>3, <2>4, <2>5
  <1>15. CASE \/ FetchCached \/ ApplyUpdate \/ DrainDone \/ StopPollers \/ LoadFails
              \/ Tick \/ BumpGeneration \/ UNCHANGED vars
    BY <1>6, <1>15 DEF FetchCached, ApplyUpdate, DrainDone, StopPollers, LoadFails, Tick,
       BumpGeneration, vars
  <1>16. QED
    BY <1>7, <1>8, <1>9, <1>10, <1>11, <1>12, <1>13, <1>14, <1>15 DEF Next, MainStep

-----------------------------------------------------------------------------
(* The two properties.                                                     *)

LEMMA DrainInvStep ==
  ASSUME DrainInv, [Next]_vars
  PROVE  DrainInv'
  <1>1. PlumbingInv'
    BY PlumbingStep DEF DrainInv
  <1>2. QED BY <1>1, ReadsStep, SnapsStep, GatesStep, PublicationStep DEF DrainInv

LEMMA InitDrain == Init => DrainInv
  <1> SUFFICES ASSUME Init PROVE DrainInv
    OBVIOUS
  <1>1. TypeOK /\ Structure
    BY InitTyped
  <1>2. GatesCurrent /\ GoodRowHasEvidence
    BY DEF Init, GatesCurrent, GoodRowHasEvidence, LaneAt, GatedRows, NoRow
  <1>3. ClientInv
    <2>1. OneCallback /\ RowsMade
      BY PollPublishAssumption DEF Init, OneCallback, RowsMade, IdleWriter
    <2>2. ClientValueIsOfCallback
      BY DEF Init, ClientValueIsOfCallback, ClientValue, WaitingNode, GatedRows
    <2>3. QED BY <1>1, <2>1, <2>2 DEF ClientInv
  <1>4. LanesOK /\ ReadbackOK /\ DrainOK
    BY DEF Init, LanesOK, LaneOK, LaneAt, ReadbackOK, DrainOK, EmptyQueues, NoOutbox
  <1>5. ReadsOK /\ GatesMade
    BY DEF Init, ReadsOK, GatesMade, NoSample, LaneAt, Restart, NoGate, GatedRows
  <1>6. SnapsOK
    <2> SUFFICES ASSUME NEW r \in GatedRows PROVE RowSnapsOK(r)
      BY DEF SnapsOK
    <2>1. r \in Rows /\ Out(r) = NoUpdate
      BY <1>1, RowTyped DEF Init, Out, NoOutbox, RowTypes
    <2>2. QED BY <2>1 DEF Init, RowSnapsOK, EmptyQueues, SnapOK, SnapAt, NoRow, NoUpdate, NotGood
  <1>7. PublicationOK
    BY DEF Init, PublicationOK, Reloading
  <1>8. QED BY <1>1, <1>2, <1>3, <1>4, <1>5, <1>6, <1>7 DEF DrainInv, PlumbingInv, EvidenceInv

(* What corrects a row is on its way in one of the queues.                 *)
LEMMA DrainCorrects ==
  ASSUME DrainInv
  PROVE  StaleNodeIsCorrected
  <1> SUFFICES ASSUME NEW r \in GatedRows, node[r].status = "Good", ~table[r].good, ~Reloading,
                      main # "uaWrite"
               PROVE  CorrectionPending(r)
    BY DEF StaleNodeIsCorrected, CorrectionPending
  <1>0. /\ RowTypes(r) /\ epoch >= 1 /\ epoch \in Nat /\ RowOK(r) /\ ClientValueIsOfCallback
    BY RowTyped DEF DrainInv, PlumbingInv, EvidenceInv, TypeOK, GatesMade, PublicationOK, ClientInv
  <1>1. CASE node[r].started = 0
    BY <1>0, <1>1 DEF ClientValueIsOfCallback, ClientValue, CorrectionPending
  <1>2. CASE node[r].started # 0
    <2>1. Coming(r)
      BY <1>0, <1>2 DEF RowOK, Stale
    <2>2. ~Corrects(NoUpdate)
      BY <1>0 DEF Corrects, CorrectsAt, NoUpdate
    <2>4. CASE Corrects(Out(r))
      BY <1>0, <2>2, <2>4 DEF Out, RowTypes, CorrectionPending
    <2>5. CASE \E w \in Writers : Corrects(writerOut[w][r])
      BY <2>2, <2>5 DEF CorrectionPending
    <2>6. CASE \/ \E i \in DOMAIN uaQueue[r] : Corrects(uaQueue[r][i])
               \/ \E i \in DOMAIN readback[r] : Corrects(readback[r][i])
               \/ \E i \in DOMAIN local[r] : Corrects(local[r][i])
      BY <2>6 DEF CorrectionPending
    <2>7. CASE applying.row = r
      BY <2>7 DEF CorrectionPending
    <2>8. QED BY <2>1, <2>4, <2>5, <2>6, <2>7 DEF Coming
  <1>3. QED BY <1>1, <1>2

LEMMA DrainShows ==
  ASSUME DrainInv
  PROVE  GoodRowReachesNode
  <1> SUFFICES ASSUME NEW r \in GatedRows, table[r].good, ~Reloading, main # "uaWrite",
                      ~(main = "uaRefresh" /\ applying.row = r), ~Shown(r)
               PROVE  \/ \E l \in Lanes : Carries(laneOut[l][r], r)
                      \/ \E i \in DOMAIN uaQueue[r] : Carries(uaQueue[r][i], r)
                      \/ \E i \in DOMAIN local[r] : Carries(local[r][i], r)
                      \/ applying.row = r /\ Carries(applying.update, r)
    BY DEF GoodRowReachesNode, Shown
  <1>0. RowTypes(r) /\ Sent(r)
    BY RowTyped DEF DrainInv, PlumbingInv, EvidenceInv, PublicationOK, RowOK
  <1>1. \A u : CarriesRow(u, r) => Carries(u, r)
    BY DEF CarriesRow, Carries
  <1>2. ~CallbackOn(r)
    BY DEF CallbackOn
  <1>3. CASE CarriesRow(Out(r), r)
    BY <1>0, <1>1, <1>3 DEF Out, RowTypes
  <1>4. CASE uaQueue[r] # <<>> /\ CarriesRow(uaQueue[r][Len(uaQueue[r])], r)
    <2>1. Len(uaQueue[r]) \in DOMAIN uaQueue[r]
      BY <1>0, <1>4 DEF RowTypes
    <2>2. QED BY <1>1, <1>4, <2>1
  <1>5. CASE local[r] # <<>> /\ CarriesRow(local[r][Len(local[r])], r)
    <2>1. Len(local[r]) \in DOMAIN local[r]
      BY <1>0, <1>5 DEF RowTypes
    <2>2. QED BY <1>1, <1>5, <2>1
  <1>6. CASE Arrived(r)
    BY <1>1, <1>2, <1>6 DEF Arrived
  <1>7. QED BY <1>0, <1>3, <1>4, <1>5, <1>6 DEF Sent

(* A node that shows GOOD although its row is no longer GOOD is about to   *)
(* be corrected: neither the checks of the drain nor the queue a reload    *)
(* clears ever lose the last word (the main loop's drain of uaQueue and of *)
(* g_writeReadbackUpdates).                                                *)
THEOREM StaleNodesAreCorrected == Spec => []StaleNodeIsCorrected
  <1>1. DrainInv /\ [Next]_vars => DrainInv'
    BY DrainInvStep
  <1>2. QED BY <1>1, InitDrain, DrainCorrects, PTL DEF Spec

(* A GOOD row is what its node shows or on its way there: a late Waiting   *)
(* update of a writer never hides it, and the checks let it through (the   *)
(* superseded checks of the drain, ua_snapshot_status).                    *)
THEOREM GoodRowsReachNodes == Spec => []GoodRowReachesNode
  <1>1. DrainInv /\ [Next]_vars => DrainInv'
    BY DrainInvStep
  <1>2. QED BY <1>1, InitDrain, DrainShows, PTL DEF Spec
=============================================================================
