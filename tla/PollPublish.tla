----------------------------- MODULE PollPublish -----------------------------
(***************************************************************************)
(* The runtime data path of opcbridge for one Allen-Bradley connection:    *)
(* poller lanes read PLC tags and commit samples to the tag table, writers *)
(* (HTTP, MQTT, automation) write PLC tags and demand a readback, and the  *)
(* main loop publishes queued snapshots to the OPC UA nodes and reloads    *)
(* the configuration.  (main.cpp: startPollers and its lane threads,       *)
(* write_tag_by_name, request_write_readback, the main loop.)              *)
(*                                                                         *)
(* Rows are the tag table keys of the connection.  A row is a physical tag *)
(* (Tags) or is computed from one read of it (Derived: aliases, bits and   *)
(* array elements; Source names the physical tag).  Every section under    *)
(* driverMutex is one action; reads and writes of the PLC hold the         *)
(* connection gate for as long as they take.  The lane and writer queues   *)
(* of UaUpdates are kept per row: updates of one row stay in order, those  *)
(* of different rows do not influence one another.                         *)
(***************************************************************************)
EXTENDS PollReadGate, Sequences, FiniteSets

CONSTANTS
    Tags,        \* physical tags with a PLC handle
    ArrayRoots,  \* the tags with elem_count > 1: they have a row and no gate
    Derived,     \* aliases, bits and array elements
    Source,      \* the physical tag each derived row is computed from
    Lanes,       \* poller threads of the connection
    LaneOf,      \* the lane that polls a tag
    Writers,     \* callers of write_tag_by_name
    UaWriters,   \* those that run on the main thread: OPC UA client writes
    NoTag,       \* "no tag is being polled or written"
    MaxTime,     \* bound on the clock
    MaxEpoch,    \* bound on driver instances (successful reloads)
    MaxWrites,   \* bound on write_tag_by_name calls
    MaxRestarts, \* bound on poller restarts
    MaxQueue     \* bound on the queue a demand transition may add to

Rows == Tags \cup Derived

ASSUME PollPublishAssumption ==
    /\ ArrayRoots \subseteq Tags
    /\ Tags \cap Derived = {}
    /\ Source \in [Derived -> Tags]
    /\ LaneOf \in [Tags -> Lanes]
    /\ UaWriters \subseteq Writers
    /\ NoTag \notin Rows
    /\ MaxTime \in Nat /\ MaxEpoch \in Nat /\ MaxWrites \in Nat /\ MaxRestarts \in Nat
    /\ MaxQueue \in Nat

RootOf(r) == IF r \in Tags THEN r ELSE Source[r]

RowsOf(t) == {r \in Rows : RootOf(r) = t}

(* Rows with an entry in poll_gates once the pollers have started.         *)
GatedRows == Rows \ ArrayRoots

VARIABLES
    now,         \* steady_clock
    plc,         \* version of each PLC word
    epoch,       \* freshness_epoch of the current DriverContext
    gates,       \* its poll_gates
    table,       \* tagTable
    stop,        \* stop_requested, or the generation has moved on
    lane,        \* per lane: where it is, its tag, its sample, its spec's epoch
    prefetch,    \* logixPrefetch: samples read in a batch, not yet committed
    demandActive,\* PollTagItem.demand_active
    laneOut,     \* snapshots a lane has still to push to uaQueue
    writer,      \* per writer: where it is, its row and captured epoch
    writerOut,   \* snapshots a writer has still to push to the readback queue
    uaQueue,     \* uaQueue, per row
    readback,    \* g_writeReadbackUpdates, per row
    main,        \* where the main loop is
    local,       \* the main loop's local copy of the queues, per row
    applying,    \* the update that passed the checks and is being written
    node,        \* OPC UA data value of each row's node
    binding,     \* UaTagBinding.read_gate (all bindings are made together)
    acked,       \* history: PLC version no later than which every write returned
    writes, restarts \* counters for the bounds

plcVars   == <<now, plc>>
cacheVars == <<epoch, gates, table>>
laneVars  == <<lane, prefetch, demandActive, laneOut>>
writeVars == <<writer, writerOut, readback, acked, writes>>
mainVars  == <<main, local, applying, node, binding, restarts>>
vars == <<plcVars, cacheVars, stop, laneVars, writeVars, uaQueue, mainVars>>

-----------------------------------------------------------------------------
(* Samples, queued updates and the phases of each thread.                  *)

Sample == [ok: BOOLEAN, read: Stamp, ver: Nat]

NoSample == [ok |-> FALSE, read |-> NoStamp, ver |-> 0]

Update == [snap: Snapshot, epoch: Nat]

(* "Nothing to push for this row".                                         *)
NoUpdate == [snap |-> NotGood("Inactive"), epoch |-> 0]

Outbox == [Rows -> Update]

NoOutbox == [r \in Rows |-> NoUpdate]

Queues == [Rows -> Seq(Update)]

EmptyQueues == [r \in Rows |-> <<>>]

LanePhase == {"dead", "idle", "reading", "holding", "pushing"}

LaneState == [phase: LanePhase, tag: Tags \cup {NoTag}, batch: SUBSET Tags,
              started: Nat, sample: Sample, epoch: Nat]

(* A lane between two tags, in a phase of the loop; e is its spec's epoch. *)
LaneAt(phase, e) == [phase |-> phase, tag |-> NoTag, batch |-> {}, started |-> 0,
                     sample |-> NoSample, epoch |-> e]

WriterPhase == {"idle", "entry", "entryPush", "waiting", "writing", "exit", "exitPush"}

WriterState == [phase: WriterPhase, row: Rows \cup {NoTag}, epoch: Nat, seen: Nat]

IdleWriter == [phase |-> "idle", row |-> NoTag, epoch |-> 0, seen |-> 0]

MainPhase == {"run", "swapped", "draining", "uaWrite", "uaRefresh",
              "joinReload", "joinRestart", "loading", "starting"}

NodeStatus == {"Good", "BadNoCommunication", "BadOutOfService", "BadWaitingForInitialData"}

Node == [status: NodeStatus, ver: Nat, started: Nat]

WaitingNode == [status |-> "BadWaitingForInitialData", ver |-> 0, started |-> 0]

TypeOK ==
    /\ now \in Nat /\ epoch \in Nat /\ writes \in Nat /\ restarts \in Nat
    /\ plc \in [Tags -> Nat] /\ acked \in [Tags -> Nat]
    /\ gates \in [Rows -> Gate]
    /\ table \in [Rows -> Snapshot \cup {NoRow}]
    /\ stop \in BOOLEAN
    /\ lane \in [Lanes -> LaneState]
    /\ prefetch \in [Tags -> Sample]
    /\ demandActive \in [Tags -> BOOLEAN]
    /\ laneOut \in [Lanes -> Outbox]
    /\ writer \in [Writers -> WriterState]
    /\ writerOut \in [Writers -> Outbox]
    /\ uaQueue \in Queues /\ readback \in Queues /\ local \in Queues
    /\ main \in MainPhase
    /\ applying \in [row: Rows \cup {NoTag}, update: Update]
    /\ node \in [Rows -> Node]
    /\ binding \in Gate

(* Enqueue an outbox on per-row queues.                                    *)
PushAll(queues, out) ==
    [r \in Rows |-> IF out[r] = NoUpdate THEN queues[r] ELSE Append(queues[r], out[r])]

(* transition_poll_cache for a set of rows; the snapshots it returns are   *)
(* the updates that are published after the lock is released.              *)
Transition(rows, active, restart) ==
    /\ gates' = [r \in Rows |-> IF r \in rows
                    THEN TransitionGate(gates[r], table[r], active, restart, epoch, now)
                    ELSE gates[r]]
    /\ table' = [r \in Rows |-> IF r \in rows
                    THEN TransitionRow(gates[r], table[r], active, restart)
                    ELSE table[r]]

TransitionUpdates(rows, active, restart) ==
    [r \in Rows |-> IF r \in rows
        THEN [snap |-> TransitionRow(gates[r], table[r], active, restart), epoch |-> epoch]
        ELSE NoUpdate]

-----------------------------------------------------------------------------
(* WriterPrioritySharedMutex, the gate of the connection: a read may start *)
(* when no writer holds or awaits it, a write when nobody holds it.        *)
SharedAvailable ==
    \A w \in Writers : writer[w].phase \notin {"waiting", "writing"}

ExclusiveAvailable ==
    /\ \A l \in Lanes : lane[l].phase # "reading"
    /\ \A w \in Writers : writer[w].phase # "writing"

(* A lane pops a due tag that should_poll rejects although it was polled   *)
(* so far, or accepts although it was suspended: transitionDemand.         *)
TransitionDemand(l, t, active) ==
    /\ lane[l].phase = "idle" /\ LaneOf[t] = l /\ ~stop
    /\ demandActive[t] # active
    /\ \A r \in RowsOf(t) : Len(uaQueue[r]) < MaxQueue
    /\ LET rows == IF lane[l].epoch = epoch THEN RowsOf(t) \cap GatedRows ELSE {}
       IN  /\ Transition(rows, active, FALSE)
           /\ laneOut' = [laneOut EXCEPT ![l] = TransitionUpdates(rows, active, FALSE)]
    /\ prefetch' = [prefetch EXCEPT ![t] = NoSample]
    /\ demandActive' = [demandActive EXCEPT ![t] = active]
    /\ lane' = [lane EXCEPT ![l] = LaneAt("pushing", lane[l].epoch)]
    /\ UNCHANGED <<plcVars, epoch, stop, writeVars, uaQueue, mainVars>>

(* A due tag that stays suspended is skipped; a prefetched sample of it    *)
(* is dropped.                                                             *)
SkipInactive(l, t) ==
    /\ lane[l].phase = "idle" /\ LaneOf[t] = l /\ ~stop
    /\ ~demandActive[t]
    /\ prefetch' = [prefetch EXCEPT ![t] = NoSample]
    /\ UNCHANGED <<plcVars, cacheVars, stop, lane, demandActive, laneOut, writeVars, uaQueue, mainVars>>

(* Mutant: the tag is read again although its sample waits to be used.     *)
BeginReadAgain(l, t, others) ==
    /\ lane[l].phase = "idle" /\ LaneOf[t] = l /\ ~stop
    /\ demandActive[t]
    /\ SharedAvailable /\ now < MaxTime
    /\ \A i \in others : i # t /\ LaneOf[i] = l /\ demandActive[i] /\ prefetch[i] = NoSample
    /\ lane' = [lane EXCEPT ![l] = [phase |-> "reading", tag |-> t, batch |-> others \cup {t},
                    started |-> now, sample |-> NoSample, epoch |-> lane[l].epoch]]
    /\ UNCHANGED <<plcVars, cacheVars, stop, prefetch, demandActive, laneOut, writeVars, uaQueue, mainVars>>

(* A due, demanded tag without a prefetched sample: the lane takes the     *)
(* gate and starts reading it, with other demanded tags in the batch.      *)
BeginRead(l, t, others) ==
    /\ lane[l].phase = "idle" /\ LaneOf[t] = l /\ ~stop
    /\ demandActive[t] /\ prefetch[t] = NoSample
    /\ SharedAvailable /\ now < MaxTime
    /\ \A i \in others : i # t /\ LaneOf[i] = l /\ demandActive[i] /\ prefetch[i] = NoSample
    /\ lane' = [lane EXCEPT ![l] = [phase |-> "reading", tag |-> t, batch |-> others \cup {t},
                    started |-> now, sample |-> NoSample, epoch |-> lane[l].epoch]]
    /\ UNCHANGED <<plcVars, cacheVars, stop, prefetch, demandActive, laneOut, writeVars, uaQueue, mainVars>>

ReadResult(l, t, ok) ==
    [ok |-> ok, ver |-> IF ok THEN plc[t] ELSE 0,
     read |-> [started |-> lane[l].started, completed |-> now, epoch |-> lane[l].epoch]]

LaneHolding(t, sample, e) ==
    [phase |-> "holding", tag |-> t, batch |-> {}, started |-> 0, sample |-> sample, epoch |-> e]

(* The batch completes (a PLC round trip takes time); the popped tag's     *)
(* result goes on to the commit, the others wait in logixPrefetch.         *)
FinishRead(l, oks) ==
    /\ lane[l].phase = "reading" /\ now > lane[l].started
    /\ oks \subseteq lane[l].batch
    /\ lane' = [lane EXCEPT ![l] = LaneHolding(lane[l].tag,
                    ReadResult(l, lane[l].tag, lane[l].tag \in oks), lane[l].epoch)]
    /\ prefetch' = [t \in Tags |-> IF t \in lane[l].batch \ {lane[l].tag}
                                   THEN ReadResult(l, t, t \in oks) ELSE prefetch[t]]
    /\ UNCHANGED <<plcVars, cacheVars, stop, demandActive, laneOut, writeVars, uaQueue, mainVars>>

(* Mutant: the sample is stamped when it is used, not when it was read.    *)
UsePrefetchedRestamped(l, t) ==
    /\ lane[l].phase = "idle" /\ LaneOf[t] = l /\ ~stop
    /\ demandActive[t] /\ prefetch[t] # NoSample
    /\ SharedAvailable
    /\ lane' = [lane EXCEPT ![l] = LaneHolding(t,
                    [prefetch[t] EXCEPT !.read.started = now, !.read.completed = now], lane[l].epoch)]
    /\ prefetch' = [prefetch EXCEPT ![t] = NoSample]
    /\ UNCHANGED <<plcVars, cacheVars, stop, demandActive, laneOut, writeVars, uaQueue, mainVars>>

(* A due, demanded tag whose sample was prefetched is served from it.      *)
UsePrefetched(l, t) ==
    /\ lane[l].phase = "idle" /\ LaneOf[t] = l /\ ~stop
    /\ demandActive[t] /\ prefetch[t] # NoSample
    /\ SharedAvailable
    /\ lane' = [lane EXCEPT ![l] = LaneHolding(t, prefetch[t], lane[l].epoch)]
    /\ prefetch' = [prefetch EXCEPT ![t] = NoSample]
    /\ UNCHANGED <<plcVars, cacheVars, stop, demandActive, laneOut, writeVars, uaQueue, mainVars>>

(* What the commit stores for a row.  `undecoded` are the rows whose value *)
(* could not be decoded, scaled or cast.                                   *)
RawSnapshot(s, r, undecoded) ==
    IF s.ok /\ r \notin undecoded THEN GoodSnapshot(s.read, s.ver) ELSE NotGood("Active")

CommittedRoot(t, s, undecoded) ==
    ApplyPollCacheGate(gates[t], RawSnapshot(s, t, undecoded), now)

CommittedRow(t, s, r, undecoded) ==
    IF r = t THEN CommittedRoot(t, s, undecoded)
    ELSE IF t \in ArrayRoots
         THEN ApplyPollCacheGate(gates[r], RawSnapshot(s, r, undecoded), now)
         ELSE LET root == CommittedRoot(t, s, undecoded)
              IN  ApplyPollCacheGate(gates[r],
                      IF root.good /\ r \in undecoded THEN NotGood(root.state) ELSE root, now)

(* The commit under driverMutex; dropped when the poller was stopped.      *)
Commit(l, undecoded) ==
    /\ lane[l].phase = "holding" /\ ~stop
    /\ undecoded \subseteq RowsOf(lane[l].tag)
    /\ LET t == lane[l].tag
           s == lane[l].sample
       IN  /\ table' = [r \in Rows |-> IF RootOf(r) = t THEN CommittedRow(t, s, r, undecoded)
                                                        ELSE table[r]]
           /\ laneOut' = [laneOut EXCEPT ![l] = [r \in Rows |->
                 IF RootOf(r) = t
                 THEN [snap |-> CommittedRow(t, s, r, undecoded), epoch |-> lane[l].epoch]
                 ELSE NoUpdate]]
    /\ lane' = [lane EXCEPT ![l] = LaneAt("pushing", lane[l].epoch)]
    /\ UNCHANGED <<plcVars, epoch, gates, stop, prefetch, demandActive, writeVars, uaQueue, mainVars>>

DropSample(l) ==
    /\ lane[l].phase = "holding" /\ stop
    /\ lane' = [lane EXCEPT ![l] = LaneAt("idle", lane[l].epoch)]
    /\ UNCHANGED <<plcVars, cacheVars, stop, prefetch, demandActive, laneOut, writeVars, uaQueue, mainVars>>

(* Publication after the lock is released.                                 *)
LanePush(l) ==
    /\ lane[l].phase = "pushing"
    /\ uaQueue' = PushAll(uaQueue, laneOut[l])
    /\ laneOut' = [laneOut EXCEPT ![l] = NoOutbox]
    /\ lane' = [lane EXCEPT ![l] = LaneAt("idle", lane[l].epoch)]
    /\ UNCHANGED <<plcVars, cacheVars, stop, prefetch, demandActive, writeVars, mainVars>>

LaneExit(l) ==
    /\ lane[l].phase = "idle" /\ stop
    /\ lane' = [lane EXCEPT ![l] = LaneAt("dead", lane[l].epoch)]
    /\ UNCHANGED <<plcVars, cacheVars, stop, prefetch, demandActive, laneOut, writeVars, uaQueue, mainVars>>

-----------------------------------------------------------------------------
(* write_tag_by_name for a physical tag.                                   *)

(* Writer w goes on to the next part of its call.                          *)
WriterAt(w, phase, seen) ==
    [phase |-> phase, row |-> writer[w].row, epoch |-> writer[w].epoch, seen |-> seen]

(* A caller on its own thread.                                             *)
BeginWrite(w, r) ==
    /\ w \notin UaWriters
    /\ writer[w].phase = "idle" /\ writes < MaxWrites
    /\ writer' = [writer EXCEPT ![w] = [phase |-> "entry", row |-> r, epoch |-> epoch, seen |-> 0]]
    /\ writes' = writes + 1
    /\ UNCHANGED <<plcVars, cacheVars, stop, laneVars, writerOut, readback, acked, uaQueue, mainVars>>

(* The write callback of the OPC UA server, which has already stored the   *)
(* client's value in the node; the main loop is busy until it returns.     *)
BeginUaWrite(w, r) ==
    /\ w \in UaWriters /\ main = "run"
    /\ writer[w].phase = "idle" /\ writes < MaxWrites
    /\ writer' = [writer EXCEPT ![w] = [phase |-> "entry", row |-> r, epoch |-> epoch, seen |-> 0]]
    /\ writes' = writes + 1
    /\ node' = [node EXCEPT ![r] = [status |-> "Good", ver |-> 0, started |-> 0]]
    /\ main' = "uaWrite"
    /\ UNCHANGED <<plcVars, cacheVars, stop, laneVars, writerOut, readback, acked, uaQueue,
                   local, applying, binding, restarts>>

(* request_write_readback, called at entry and again on every exit.  It    *)
(* does nothing when the driver was replaced since the write began.        *)
Invalidate(w) ==
    IF writer[w].epoch = epoch
    THEN /\ Transition(RowsOf(RootOf(writer[w].row)) \cap GatedRows, TRUE, TRUE)
         /\ writerOut' = [writerOut EXCEPT ![w] =
                TransitionUpdates(RowsOf(RootOf(writer[w].row)) \cap GatedRows, TRUE, TRUE)]
    ELSE UNCHANGED <<gates, table, writerOut>>

WriteEntry(w) ==
    /\ writer[w].phase = "entry"
    /\ Invalidate(w)
    /\ writer' = [writer EXCEPT ![w] = WriterAt(w, "entryPush", 0)]
    /\ UNCHANGED <<plcVars, epoch, stop, laneVars, readback, acked, writes, uaQueue, mainVars>>

(* Mutant: the write callback does not restore the cached value.           *)
ReturnWithoutRefresh(w) ==
    /\ main' = IF w \in UaWriters THEN "run" ELSE main
    /\ UNCHANGED applying

(* The call returns; an OPC UA write returns to the callback that runs on  *)
(* the main thread.                                                        *)
ReturnFromWrite(w) ==
    IF w \in UaWriters
    THEN main' = "uaRefresh" /\ applying' = [row |-> writer[w].row, update |-> NoUpdate]
    ELSE UNCHANGED <<main, applying>>

(* Not writable, or not found: refused before anything is touched.         *)
RefuseWrite(w) ==
    /\ writer[w].phase = "entry"
    /\ writer' = [writer EXCEPT ![w] = IdleWriter]
    /\ ReturnFromWrite(w)
    /\ UNCHANGED <<plcVars, cacheVars, stop, laneVars, writerOut, readback, acked, writes, uaQueue,
                   local, node, binding, restarts>>

(* The invalidated snapshots are queued after driverMutex is released.     *)
WriterPush(w) ==
    /\ writer[w].phase \in {"entryPush", "exitPush"}
    /\ readback' = PushAll(readback, writerOut[w])
    /\ writerOut' = [writerOut EXCEPT ![w] = NoOutbox]
    /\ \/ /\ writer[w].phase = "entryPush"
          /\ writer' = [writer EXCEPT ![w] = WriterAt(w, "waiting", 0)]
          /\ UNCHANGED <<main, applying>>
       \/ /\ writer[w].phase = "exitPush"
          /\ writer' = [writer EXCEPT ![w] = IdleWriter]
          /\ ReturnFromWrite(w)
    /\ UNCHANGED <<plcVars, cacheVars, stop, laneVars, acked, writes, uaQueue,
                   local, node, binding, restarts>>

(* Takes the gate; the driver must still be the one the handle came from.  *)
AcquireGate(w) ==
    /\ writer[w].phase = "waiting" /\ ExclusiveAvailable
    /\ writer' = [writer EXCEPT ![w] =
                    WriterAt(w, IF writer[w].epoch = epoch THEN "writing" ELSE "exit", 0)]
    /\ UNCHANGED <<plcVars, cacheVars, stop, laneVars, writerOut, readback, acked, writes, uaQueue, mainVars>>

(* The value cannot be parsed or the tag not be prepared: early return.    *)
RejectWrite(w) ==
    /\ writer[w].phase \in {"waiting", "writing"}
    /\ writer' = [writer EXCEPT ![w] = WriterAt(w, "exit", 0)]
    /\ UNCHANGED <<plcVars, cacheVars, stop, laneVars, writerOut, readback, acked, writes, uaQueue, mainVars>>

(* plc_tag_write; a write reported as failed may still have taken effect.  *)
PlcWrite(w, effect) ==
    /\ writer[w].phase = "writing"
    /\ plc' = IF effect THEN [plc EXCEPT ![RootOf(writer[w].row)] = @ + 1] ELSE plc
    /\ writer' = [writer EXCEPT ![w] = WriterAt(w, "exit", plc'[RootOf(writer[w].row)])]
    /\ UNCHANGED <<now, cacheVars, stop, laneVars, writerOut, readback, acked, writes, uaQueue, mainVars>>

(* Mutant: the cache is invalidated at entry only.                         *)
WriteExitWithoutReadback(w) ==
    /\ writer[w].phase = "exit"
    /\ acked' = [acked EXCEPT ![RootOf(writer[w].row)] = IF writer[w].seen > @ THEN writer[w].seen ELSE @]
    /\ writer' = [writer EXCEPT ![w] = WriterAt(w, "exitPush", writer[w].seen)]
    /\ UNCHANGED <<plcVars, cacheVars, stop, laneVars, writerOut, readback, writes, uaQueue, mainVars>>

(* The ReadbackOnExit destructor, after the gate is released.              *)
WriteExit(w) ==
    /\ writer[w].phase = "exit"
    /\ Invalidate(w)
    /\ acked' = [acked EXCEPT ![RootOf(writer[w].row)] = IF writer[w].seen > @ THEN writer[w].seen ELSE @]
    /\ writer' = [writer EXCEPT ![w] = WriterAt(w, "exitPush", writer[w].seen)]
    /\ UNCHANGED <<plcVars, epoch, stop, laneVars, readback, writes, uaQueue, mainVars>>

-----------------------------------------------------------------------------
(* The main loop.                                                          *)

SwapUaQueue ==
    /\ main = "run"
    /\ local' = uaQueue /\ uaQueue' = EmptyQueues
    /\ main' = "swapped"
    /\ UNCHANGED <<plcVars, cacheVars, stop, laneVars, writeVars, applying, node, binding, restarts>>

(* Readback updates are taken after, and put in front of, the others.      *)
TakeReadback ==
    /\ main = "swapped"
    /\ local' = [r \in Rows |-> readback[r] \o local[r]]
    /\ readback' = EmptyQueues
    /\ main' = "draining"
    /\ UNCHANGED <<plcVars, cacheVars, stop, laneVars, writer, writerOut, acked, writes,
                   uaQueue, applying, node, binding, restarts>>

NoApply == [row |-> NoTag, update |-> NoUpdate]

UaPublicationIsCurrent(u) == u.epoch # 0 /\ u.epoch = epoch

(* Mutant: a readback that is waiting overwrites a confirmed value.        *)
SupersededOnlyGood(r, u) ==
    /\ u.snap.good /\ gates[r].present
    /\ GateQuality(gates[r], u.snap.read, TRUE, now) # "Good"

(* A GOOD update the gate no longer accepts, or a Waiting one although the *)
(* cache holds a confirmed value again.                                    *)
Superseded(r, u) ==
    \/ /\ u.snap.good /\ gates[r].present
       /\ GateQuality(gates[r], u.snap.read, TRUE, now) # "Good"
    \/ u.snap.state = "Waiting" /\ table[r].good

(* Under driverMutex: an update is dropped unless it is current.           *)
CheckUpdate(r) ==
    /\ main = "draining" /\ applying = NoApply /\ local[r] # <<>>
    /\ local' = [local EXCEPT ![r] = Tail(@)]
    /\ LET u == Head(local[r])
       IN  applying' = IF UaPublicationIsCurrent(u) /\ ~Superseded(r, u)
                       THEN [row |-> r, update |-> u] ELSE NoApply
    /\ UNCHANGED <<plcVars, cacheVars, stop, laneVars, writeVars, uaQueue, main, node, binding, restarts>>

(* Mutant: a waiting row has no status of its own.                         *)
UaSnapshotStatusUnmapped(snap) ==
    IF snap.state # "Active" THEN snap.state
    ELSE IF GateQuality(binding, snap.read, snap.good, now) = "Good" THEN "Good"
         ELSE "BadNoCommunication"

(* ua_snapshot_status.                                                     *)
UaSnapshotStatus(snap) ==
    CASE snap.state = "Inactive" -> "BadOutOfService"
      [] snap.state = "Waiting" -> "BadWaitingForInitialData"
      [] OTHER ->
           LET q == GateQuality(binding, snap.read, snap.good, now)
           IN  CASE q = "Good" -> "Good"
                 [] q = "Bad" -> "BadNoCommunication"
                 [] q = "Inactive" -> "BadOutOfService"
                 [] OTHER -> "BadWaitingForInitialData"

(* Back in the write callback: the cached row is fetched under driverMutex *)
(* to replace what the client wrote.                                       *)
FetchCached ==
    /\ main = "uaRefresh" /\ applying.update = NoUpdate
    /\ IF table[applying.row] = NoRow
       THEN applying' = NoApply /\ main' = "run"
       ELSE /\ applying' = [applying EXCEPT !.update = [snap |-> table[applying.row], epoch |-> epoch]]
            /\ main' = main
    /\ UNCHANGED <<plcVars, cacheVars, stop, laneVars, writeVars, uaQueue, local, node, binding, restarts>>

(* Without the lock: ua_write_snapshot.                                    *)
ApplyUpdate ==
    /\ main \in {"draining", "uaRefresh"}
    /\ applying.row # NoTag /\ applying.update # NoUpdate
    /\ main' = IF main = "uaRefresh" THEN "run" ELSE main
    /\ LET snap == applying.update.snap
           status == UaSnapshotStatus(snap)
       IN  node' = [node EXCEPT ![applying.row] =
                      [status |-> status,
                       ver |-> IF status = "Good" THEN snap.ver ELSE 0,
                       started |-> IF status = "Good" THEN snap.read.started ELSE 0]]
    /\ applying' = NoApply
    /\ UNCHANGED <<plcVars, cacheVars, stop, laneVars, writeVars, uaQueue, local, binding, restarts>>

DrainDone ==
    /\ main = "draining" /\ applying = NoApply /\ local = EmptyQueues
    /\ main' = "run"
    /\ UNCHANGED <<plcVars, cacheVars, stop, laneVars, writeVars, uaQueue, local, applying, node, binding, restarts>>

(* POST /reload moves g_configGeneration on: the lanes stop by themselves. *)
BumpGeneration ==
    /\ ~stop /\ main # "starting" /\ restarts < MaxRestarts
    /\ stop' = TRUE
    /\ restarts' = restarts + 1
    /\ UNCHANGED <<plcVars, cacheVars, laneVars, writeVars, uaQueue, main, local, applying, node, binding>>

(* A requested reload (of everything, or of this connection) begins by     *)
(* stopping the pollers; so does a generation that moved on without one.   *)
StopPollers ==
    /\ main = "run"
    /\ \/ restarts < MaxRestarts /\ ~stop /\ restarts' = restarts + 1 /\ main' = "joinReload"
       \/ stop /\ restarts' = restarts /\ main' \in {"joinReload", "joinRestart"}
    /\ stop' = TRUE
    /\ UNCHANGED <<plcVars, cacheVars, laneVars, writeVars, uaQueue, local, applying, node, binding>>

(* Joined.  A reload removes the publications of the stopped pollers.      *)
JoinPollers ==
    /\ \A l \in Lanes : lane[l].phase = "dead"
    /\ \/ main = "joinReload" /\ main' = "loading" /\ uaQueue' = EmptyQueues
       \/ main = "joinRestart" /\ main' = "starting" /\ uaQueue' = uaQueue
    /\ UNCHANGED <<plcVars, cacheVars, stop, laneVars, writeVars, local, applying, node, binding, restarts>>

(* The new driver replaces the old one, its rows are erased and the UA     *)
(* bindings restarted, with the PLC locked exclusively.                    *)
LoadDriver ==
    /\ main = "loading" /\ ExclusiveAvailable /\ epoch < MaxEpoch
    /\ epoch' = epoch + 1
    /\ gates' = [r \in Rows |-> NoGate]
    /\ table' = [r \in Rows |-> NoRow]
    /\ node' = [r \in Rows |-> WaitingNode]
    /\ binding' = Restart(epoch + 1, now)
    /\ main' = "starting"
    /\ UNCHANGED <<plcVars, stop, laneVars, writeVars, uaQueue, local, applying, restarts>>

(* The configuration does not load: the old driver stays.                  *)
LoadFails ==
    /\ main = "loading" /\ ExclusiveAvailable
    /\ main' = "starting"
    /\ UNCHANGED <<plcVars, cacheVars, stop, laneVars, writeVars, uaQueue, local, applying, node, binding, restarts>>

(* Mutant: the rows are reset but nobody is told.                          *)
StartPollersSilently ==
    /\ main = "starting"
    /\ Transition(GatedRows, TRUE, TRUE)
    /\ lane' = [l \in Lanes |-> LaneAt("idle", epoch)]
    /\ prefetch' = [t \in Tags |-> NoSample]
    /\ demandActive' = [t \in Tags |-> TRUE]
    /\ stop' = FALSE
    /\ main' = "run"
    /\ UNCHANGED <<plcVars, epoch, laneOut, writeVars, uaQueue, local, applying, node, binding, restarts>>

(* startPollers: fresh gates, every row Waiting, its update queued, and    *)
(* the lanes' threads.                                                     *)
StartPollers ==
    /\ main = "starting"
    /\ Transition(GatedRows, TRUE, TRUE)
    /\ uaQueue' = PushAll(uaQueue, TransitionUpdates(GatedRows, TRUE, TRUE))
    /\ lane' = [l \in Lanes |-> LaneAt("idle", epoch)]
    /\ prefetch' = [t \in Tags |-> NoSample]
    /\ demandActive' = [t \in Tags |-> TRUE]
    /\ stop' = FALSE
    /\ main' = "run"
    /\ UNCHANGED <<plcVars, epoch, laneOut, writeVars, local, applying, node, binding, restarts>>

Tick ==
    /\ now < MaxTime
    /\ now' = now + 1
    /\ UNCHANGED <<plc, cacheVars, stop, laneVars, writeVars, uaQueue, mainVars>>

-----------------------------------------------------------------------------
(* The drivers are loaded and the UA nodes made; the pollers start next.   *)
Init ==
    /\ now = 1 /\ plc = [t \in Tags |-> 0] /\ acked = [t \in Tags |-> 0]
    /\ epoch = 1
    /\ gates = [r \in Rows |-> NoGate]
    /\ table = [r \in Rows |-> NoRow]
    /\ stop = TRUE
    /\ lane = [l \in Lanes |-> LaneAt("dead", 0)]
    /\ prefetch = [t \in Tags |-> NoSample]
    /\ demandActive = [t \in Tags |-> TRUE]
    /\ laneOut = [l \in Lanes |-> NoOutbox]
    /\ writer = [w \in Writers |-> IdleWriter]
    /\ writerOut = [w \in Writers |-> NoOutbox]
    /\ uaQueue = EmptyQueues /\ readback = EmptyQueues /\ local = EmptyQueues
    /\ main = "starting"
    /\ applying = NoApply
    /\ node = [r \in Rows |-> WaitingNode]
    /\ binding = Restart(1, 1)
    /\ writes = 0 /\ restarts = 0

LaneStep(l) ==
    \/ \E t \in Tags : \/ \E active \in BOOLEAN : TransitionDemand(l, t, active)
                       \/ SkipInactive(l, t)
                       \/ \E others \in SUBSET Tags : BeginRead(l, t, others)
                       \/ UsePrefetched(l, t)
    \/ \E oks \in SUBSET Tags : FinishRead(l, oks)
    \/ \E undecoded \in SUBSET Rows : Commit(l, undecoded)
    \/ DropSample(l)
    \/ LanePush(l)
    \/ LaneExit(l)

WriterStep(w) ==
    \/ \E r \in GatedRows : BeginWrite(w, r) \/ BeginUaWrite(w, r)
    \/ RefuseWrite(w)
    \/ WriteEntry(w)
    \/ WriterPush(w)
    \/ AcquireGate(w)
    \/ RejectWrite(w)
    \/ \E effect \in BOOLEAN : PlcWrite(w, effect)
    \/ WriteExit(w)

MainStep ==
    \/ SwapUaQueue
    \/ TakeReadback
    \/ \E r \in Rows : CheckUpdate(r)
    \/ FetchCached
    \/ ApplyUpdate
    \/ DrainDone
    \/ StopPollers
    \/ JoinPollers
    \/ LoadDriver
    \/ LoadFails
    \/ StartPollers

Next ==
    \/ Tick
    \/ BumpGeneration
    \/ \E l \in Lanes : LaneStep(l)
    \/ \E w \in Writers : WriterStep(w)
    \/ MainStep

Spec == Init /\ [][Next]_vars

-----------------------------------------------------------------------------
(* Properties.                                                             *)

(* A gated row is GOOD only on the evidence of a physical read that its    *)
(* gate accepts: made by the current driver, started at or after the last  *)
(* restart, resume or write boundary, while the tag is not suspended       *)
(* (apply_poll_cache_gate, transition_poll_cache, the reload's erase).     *)
GoodRowHasEvidence ==
    \A r \in GatedRows : table[r].good =>
        /\ gates[r].active
        /\ gates[r].epoch = epoch
        /\ table[r].read.epoch = epoch
        /\ table[r].read.started >= gates[r].after

(* Once write_tag_by_name has passed its exit readback, no gated row of    *)
(* the written tag is GOOD with a value read before the write, whatever    *)
(* reads, batches and reloads were in flight (request_write_readback).     *)
NoPreWriteGood ==
    \A r \in GatedRows : table[r].good => table[r].ver >= acked[RootOf(r)]

(* Seen from outside, the tag table is TagCache: beyond that, a sample     *)
(* never takes a row back from a newer value to an older one, although     *)
(* batches are read for several tags and committed one tag at a time       *)
(* (logixPrefetch is used up before its tag is read again).                *)
Cache == INSTANCE TagCache
           WITH Rows <- GatedRows,
                Root <- [r \in GatedRows |-> RootOf(r)],
                shown <- [r \in GatedRows |-> IF table[r].good THEN {table[r].ver} ELSE {}]

ImplementsTagCache == Cache!Spec

(* The same, for the rows of array roots too.                              *)
NoPreWriteGoodAnyRow ==
    \A r \in Rows : table[r].good => table[r].ver >= acked[RootOf(r)]

Reloading == main \in {"joinReload", "joinRestart", "loading", "starting"}

CorrectionPending(r) ==
    \/ Reloading \/ main = "uaWrite"
    \/ \E l \in Lanes : laneOut[l][r] # NoUpdate
    \/ \E w \in Writers : writerOut[w][r] # NoUpdate
    \/ uaQueue[r] # <<>> \/ readback[r] # <<>> \/ local[r] # <<>>
    \/ applying.row = r

(* An OPC UA node keeps a GOOD value whose cache row is no longer GOOD     *)
(* only while a correction for it is on its way: dropping superseded       *)
(* updates and clearing the queue on reload never lose the last word.      *)
StaleNodeIsCorrected ==
    \A r \in GatedRows :
        node[r].status = "Good" /\ ~table[r].good => CorrectionPending(r)

Carries(u, r) == u.snap.good /\ u.snap.read.started = table[r].read.started

(* A GOOD row is what its node shows, or a publication of that very sample *)
(* is under way: neither a late Waiting update of a writer nor the drain's *)
(* checks hide a confirmed value.                                          *)
GoodRowReachesNode ==
    \A r \in GatedRows : table[r].good /\ ~Reloading =>
        \/ main = "uaWrite"
        \/ main = "uaRefresh" /\ applying.row = r
        \/ node[r].status = "Good" /\ node[r].started = table[r].read.started
        \/ \E l \in Lanes : Carries(laneOut[l][r], r)
        \/ \E i \in DOMAIN uaQueue[r] : Carries(uaQueue[r][i], r)
        \/ \E i \in DOMAIN local[r] : Carries(local[r][i], r)
        \/ applying.row = r /\ Carries(applying.update, r)

(* What an OPC UA client wrote is never left in the node as if it had been *)
(* read from the PLC: once the write callback is over, a GOOD node shows a *)
(* physical read (the callback's refresh from the tag table).              *)
ClientValueReplaced ==
    \A r \in GatedRows :
        node[r].status = "Good" /\ main \notin {"uaWrite", "uaRefresh"} => node[r].started # 0

=============================================================================
