----------------------- MODULE PollPublishNode_proof -----------------------
(***************************************************************************)
(* What an OPC UA client wrote never stays in its node, for every set of   *)
(* tags, lanes and writers and every bound.                                *)
(*                                                                         *)
(* The server stores the client's value before it calls the write callback.*)
(* The value is harmless while the callback runs, since the main thread    *)
(* runs it and publishes nothing else meanwhile; the callback ends with a  *)
(* refresh from the tag table.  The argument has three parts: at most one  *)
(* callback is under way, the only node that holds a client's value is the *)
(* one it was called for, and that tag has a row to be refreshed from.     *)
(***************************************************************************)
EXTENDS PollPublish_proof

(* The main thread runs one write callback at a time.                      *)
OneCallback ==
    /\ \A w \in UaWriters : writer[w].phase # "idle" => main = "uaWrite"
    /\ \A w, v \in UaWriters :
          writer[w].phase # "idle" /\ writer[v].phase # "idle" => w = v

(* A node that shows a value nobody has read.                              *)
ClientValue(r) == node[r].status = "Good" /\ node[r].started = 0

ClientValueIsOfCallback ==
    \A r \in GatedRows : ClientValue(r) =>
        \/ main = "uaWrite" /\ \E w \in UaWriters : writer[w].phase # "idle" /\ writer[w].row = r
        \/ main = "uaRefresh" /\ applying.row = r

(* Once the pollers have been started every gated tag has a row.           *)
RowsMade == main # "starting" => \A r \in GatedRows : table[r] \in Snapshot

ClientInv == TypeOK /\ Structure /\ OneCallback /\ ClientValueIsOfCallback /\ RowsMade

(* A snapshot is published as GOOD only with the stamp of a read.          *)
LEMMA GoodStatusIsRead ==
  ASSUME TypeOK, NEW snap \in Snapshot, UaSnapshotStatus(snap) = "Good"
  PROVE  snap.read.started # 0
  <1>1. GateQuality(binding, snap.read, snap.good, now) = "Good"
    BY DEF UaSnapshotStatus
  <1>2. SatisfiesAge(snap.read, binding.after, 0, TRUE, now, binding.epoch)
    BY <1>1 DEF GateQuality, TypeOK, Gate, Snapshot
  <1>3. QED BY <1>2 DEF SatisfiesAge

(* Steps that leave nodes, callbacks and the main thread alone and make    *)
(* no row disappear.                                                       *)
LEMMA KeepClient ==
  ASSUME ClientInv, UNCHANGED <<main, applying, node>>,
         \A w \in UaWriters : /\ writer'[w].phase # "idle" <=> writer[w].phase # "idle"
                              /\ writer'[w].row = writer[w].row,
         \A r \in GatedRows : table[r] \in Snapshot => table'[r] \in Snapshot
  PROVE  OneCallback' /\ ClientValueIsOfCallback' /\ RowsMade'
  BY DEF ClientInv, OneCallback, ClientValueIsOfCallback, ClientValue, RowsMade

(* transition_poll_cache leaves a row where it was one.                    *)
LEMMA TransitionMakesRows ==
  ASSUME TypeOK, NEW rows \in SUBSET Rows, NEW active \in BOOLEAN, NEW restart \in BOOLEAN,
         Transition(rows, active, restart)
  PROVE  /\ \A r \in rows : table'[r] \in Snapshot
         /\ \A r \in Rows : table[r] \in Snapshot => table'[r] \in Snapshot
  <1>1. \A r \in Rows : gates[r] \in Gate /\ table[r] \in Snapshot \cup {NoRow}
    BY DEF TypeOK
  <1>2. \A r \in rows : table'[r] = TransitionRow(gates[r], table[r], active, restart)
    BY DEF Transition
  <1>3. \A r \in rows : table'[r] \in Snapshot
    BY <1>1, <1>2, TransitionRowType
  <1>4. \A r \in Rows \ rows : table'[r] = table[r]
    BY DEF Transition
  <1>5. QED BY <1>3, <1>4

LEMMA LaneClient ==
  ASSUME ClientInv, NEW l \in Lanes, LaneStep(l)
  PROVE  OneCallback' /\ ClientValueIsOfCallback' /\ RowsMade'
  <1> USE DEF plcVars, cacheVars, laneVars, writeVars, mainVars
  <1>1. ASSUME NEW t \in Tags, NEW active \in BOOLEAN, TransitionDemand(l, t, active)
        PROVE  OneCallback' /\ ClientValueIsOfCallback' /\ RowsMade'
    <2> DEFINE rows == IF lane[l].epoch = epoch THEN RowsOf(t) \cap GatedRows ELSE {}
    <2>1. rows \in SUBSET Rows
      BY DEF RowsOf
    <2>2. Transition(rows, active, FALSE)
      BY <1>1 DEF TransitionDemand
    <2> HIDE DEF rows
    <2>3. \A r \in GatedRows : table[r] \in Snapshot => table'[r] \in Snapshot
      BY <2>1, <2>2, TransitionMakesRows DEF ClientInv, GatedRows
    <2>4. UNCHANGED <<main, applying, node, writer>>
      BY <1>1 DEF TransitionDemand
    <2>5. QED BY <2>3, <2>4, KeepClient
  <1>2. ASSUME NEW undecoded \in SUBSET Rows, Commit(l, undecoded)
        PROVE  OneCallback' /\ ClientValueIsOfCallback' /\ RowsMade'
    <2> DEFINE t == lane[l].tag
               s == lane[l].sample
    <2>1. t \in Tags /\ s \in Sample
      BY <1>2 DEF Commit, ClientInv, Structure, LaneTagOK, TypeOK, LaneState
    <2>2. \A r \in Rows : table'[r] = IF RootOf(r) = t THEN CommittedRow(t, s, r, undecoded)
                                                       ELSE table[r]
      BY <1>2 DEF Commit
    <2> HIDE DEF t, s
    <2>3. \A r \in Rows : CommittedRow(t, s, r, undecoded) \in Snapshot
      BY <2>1, CommittedType DEF ClientInv
    <2>4. \A r \in GatedRows : table[r] \in Snapshot => table'[r] \in Snapshot
      BY <2>2, <2>3 DEF GatedRows
    <2>5. UNCHANGED <<main, applying, node, writer>>
      BY <1>2 DEF Commit
    <2>6. QED BY <2>4, <2>5, KeepClient
  <1>3. CASE UNCHANGED <<main, applying, node, writer, table>>
    BY <1>3, KeepClient
  <1>4. QED
    BY <1>1, <1>2, <1>3 DEF LaneStep, SkipInactive, BeginRead, FinishRead, UsePrefetched,
                            DropSample, LanePush, LaneExit

(* The callback returns to the refresh of the tag it was called for.       *)
LEMMA CallbackReturns ==
  ASSUME ClientInv, NEW w \in Writers, writer[w].phase # "idle",
         writer' = [writer EXCEPT ![w] = IdleWriter], ReturnFromWrite(w),
         UNCHANGED <<node, table>>
  PROVE  OneCallback' /\ ClientValueIsOfCallback' /\ RowsMade'
  <1>0. writer \in [Writers -> WriterState] /\ UaWriters \subseteq Writers
    BY PollPublishAssumption DEF ClientInv, TypeOK
  <1>1. \A v \in Writers : writer'[v] = IF v = w THEN IdleWriter ELSE writer[v]
    BY <1>0
  <1>2. CASE w \in UaWriters
    <2>1. main = "uaWrite" /\ main' = "uaRefresh" /\ applying'.row = writer[w].row
      BY <1>2 DEF ReturnFromWrite, ClientInv, OneCallback
    <2>2. \A v \in UaWriters : v # w => writer[v].phase = "idle"
      BY <1>2 DEF ClientInv, OneCallback
    <2>3. OneCallback'
      BY <1>0, <1>1, <2>2 DEF OneCallback, IdleWriter
    <2>4. ClientValueIsOfCallback'
      BY <2>1, <2>2 DEF ClientInv, ClientValueIsOfCallback, ClientValue
    <2>5. QED BY <2>1, <2>3, <2>4 DEF ClientInv, RowsMade
  <1>3. CASE w \notin UaWriters
    BY <1>0, <1>1, <1>3, KeepClient DEF ReturnFromWrite
  <1>4. QED BY <1>2, <1>3

LEMMA WriterClient ==
  ASSUME ClientInv, NEW w \in Writers, WriterStep(w)
  PROVE  OneCallback' /\ ClientValueIsOfCallback' /\ RowsMade'
  <1> USE DEF plcVars, cacheVars, laneVars, writeVars, mainVars
  <1>0. writer \in [Writers -> WriterState] /\ UaWriters \subseteq Writers
    BY PollPublishAssumption DEF ClientInv, TypeOK
  <1>1. ASSUME NEW r \in GatedRows, BeginWrite(w, r)
        PROVE  OneCallback' /\ ClientValueIsOfCallback' /\ RowsMade'
    <2>1. \A v \in UaWriters : writer'[v] = writer[v]
      BY <1>0, <1>1 DEF BeginWrite
    <2>2. QED BY <1>1, <2>1, KeepClient DEF BeginWrite
  <1>2. ASSUME NEW r \in GatedRows, BeginUaWrite(w, r)
        PROVE  OneCallback' /\ ClientValueIsOfCallback' /\ RowsMade'
    <2>1. /\ w \in UaWriters /\ main = "run" /\ main' = "uaWrite" /\ UNCHANGED table
          /\ \A v \in Writers : v # w => writer'[v] = writer[v]
          /\ writer'[w].phase = "entry" /\ writer'[w].row = r
      BY <1>0, <1>2 DEF BeginUaWrite
    <2>2. \A v \in UaWriters : writer[v].phase = "idle"
      BY <2>1 DEF ClientInv, OneCallback
    <2>3. OneCallback'
      BY <1>0, <2>1, <2>2 DEF OneCallback
    <2>4. \A q \in Rows : q # r => node'[q] = node[q]
      BY <1>2 DEF BeginUaWrite, ClientInv, TypeOK
    <2>5. \A q \in GatedRows : ~ClientValue(q)
      BY <2>1 DEF ClientInv, ClientValueIsOfCallback
    <2>6. \A q \in GatedRows : ClientValue(q)' => q = r
      BY <2>4, <2>5 DEF ClientValue, GatedRows
    <2>7. ClientValueIsOfCallback'
      BY <2>1, <2>6 DEF ClientValueIsOfCallback
    <2>8. QED BY <2>1, <2>3, <2>7 DEF ClientInv, RowsMade
  <1>3. CASE RefuseWrite(w)
    BY <1>3, CallbackReturns DEF RefuseWrite
  <1>4. CASE WriterPush(w)
    <2>1. CASE writer[w].phase = "entryPush"
      <3>1. /\ writer' = [writer EXCEPT ![w] = WriterAt(w, "waiting", 0)]
            /\ UNCHANGED <<main, applying, node, table>>
        BY <1>4, <2>1 DEF WriterPush
      <3>2. \A v \in UaWriters : /\ writer'[v].phase # "idle" <=> writer[v].phase # "idle"
                                 /\ writer'[v].row = writer[v].row
        BY <1>0, <2>1, <3>1 DEF WriterAt
      <3>3. QED BY <3>1, <3>2, KeepClient
    <2>2. CASE writer[w].phase = "exitPush"
      <3>1. /\ writer' = [writer EXCEPT ![w] = IdleWriter] /\ ReturnFromWrite(w)
            /\ UNCHANGED <<node, table>>
        BY <1>4, <2>2 DEF WriterPush
      <3>2. QED BY <2>2, <3>1, CallbackReturns
    <2>3. QED BY <1>4, <2>1, <2>2 DEF WriterPush
  <1>5. ASSUME NEW ph \in WriterPhase \ {"idle"}, NEW n, writer[w].phase # "idle",
               writer' = [writer EXCEPT ![w] = WriterAt(w, ph, n)],
               UNCHANGED <<main, applying, node>>,
               \A r \in GatedRows : table[r] \in Snapshot => table'[r] \in Snapshot
        PROVE  OneCallback' /\ ClientValueIsOfCallback' /\ RowsMade'
    <2>1. \A v \in UaWriters : /\ writer'[v].phase # "idle" <=> writer[v].phase # "idle"
                               /\ writer'[v].row = writer[v].row
      BY <1>0, <1>5 DEF WriterAt
    <2>2. QED BY <1>5, <2>1, KeepClient
  <1>6. Invalidate(w) => \A r \in GatedRows : table[r] \in Snapshot => table'[r] \in Snapshot
    <2> DEFINE rows == RowsOf(RootOf(writer[w].row)) \cap GatedRows
    <2>1. rows \in SUBSET Rows
      BY DEF RowsOf
    <2>2. Invalidate(w) => Transition(rows, TRUE, TRUE) \/ UNCHANGED table
      BY DEF Invalidate
    <2> HIDE DEF rows
    <2>3. QED BY <2>1, <2>2, TransitionMakesRows DEF ClientInv, GatedRows
  <1>7. CASE WriteEntry(w)
    BY <1>5, <1>6, <1>7 DEF WriteEntry, WriterPhase
  <1>8. CASE WriteExit(w)
    BY <1>5, <1>6, <1>8 DEF WriteExit, WriterPhase
  <1>9. CASE AcquireGate(w)
    BY <1>5, <1>9 DEF AcquireGate, WriterPhase
  <1>10. CASE RejectWrite(w)
    BY <1>5, <1>10 DEF RejectWrite, WriterPhase
  <1>11. ASSUME NEW effect \in BOOLEAN, PlcWrite(w, effect)
         PROVE  OneCallback' /\ ClientValueIsOfCallback' /\ RowsMade'
    BY <1>5, <1>11 DEF PlcWrite, WriterPhase
  <1>12. QED
    BY <1>1, <1>2, <1>3, <1>4, <1>7, <1>8, <1>9, <1>10, <1>11 DEF WriterStep

LEMMA MainClient ==
  ASSUME ClientInv, MainStep
  PROVE  OneCallback' /\ ClientValueIsOfCallback' /\ RowsMade'
  <1> USE DEF plcVars, cacheVars, laneVars, writeVars, mainVars
  <1>1. CASE FetchCached
    <2>1. /\ main = "uaRefresh" /\ UNCHANGED <<writer, node, table>>
          /\ \A w \in UaWriters : writer[w].phase = "idle"
      BY <1>1 DEF FetchCached, ClientInv, OneCallback
    <2>2. OneCallback'
      BY <2>1 DEF OneCallback
    <2>3. \A r \in GatedRows : table[r] \in Snapshot
      BY <2>1 DEF ClientInv, RowsMade
    <2>4. NoRow \notin Snapshot
      BY DEF NoRow, Snapshot, State
    <2>5. CASE table[applying.row] = NoRow
      <3>1. \A r \in GatedRows : ~ClientValue(r)
        BY <2>1, <2>3, <2>4, <2>5 DEF ClientInv, ClientValueIsOfCallback
      <3>2. QED BY <2>1, <2>2, <2>3, <3>1 DEF ClientValueIsOfCallback, ClientValue, RowsMade
    <2>6. CASE table[applying.row] # NoRow
      <3>1. main' = main /\ applying'.row = applying.row
        BY <1>1, <2>6 DEF FetchCached, ClientInv, TypeOK
      <3>2. QED BY <2>1, <2>2, <2>3, <3>1 DEF ClientInv, ClientValueIsOfCallback, ClientValue, RowsMade
    <2>7. QED BY <2>5, <2>6
  <1>2. CASE ApplyUpdate
    <2> DEFINE row == applying.row
               snap == applying.update.snap
    <2>1. /\ main \in {"draining", "uaRefresh"} /\ UNCHANGED <<writer, table>>
          /\ main' = IF main = "uaRefresh" THEN "run" ELSE main
          /\ \A w \in UaWriters : writer[w].phase = "idle"
      BY <1>2 DEF ApplyUpdate, ClientInv, OneCallback
    <2>2. snap \in Snapshot /\ row \in Rows
      BY <1>2 DEF ApplyUpdate, ClientInv, TypeOK, Update
    <2>3. /\ \A r \in Rows : r # row => node'[r] = node[r]
          /\ node'[row].status = UaSnapshotStatus(snap)
          /\ node'[row].started = IF UaSnapshotStatus(snap) = "Good" THEN snap.read.started ELSE 0
      BY <1>2, <2>2 DEF ApplyUpdate, ClientInv, TypeOK
    <2>4. ~(node'[row].status = "Good" /\ node'[row].started = 0)
      BY <2>2, <2>3, GoodStatusIsRead DEF ClientInv
    <2> HIDE DEF row, snap
    <2>5. \A r \in GatedRows : r # row => ~ClientValue(r)
      BY <2>1 DEF ClientInv, ClientValueIsOfCallback, row
    <2>6. \A r \in GatedRows : ~ClientValue(r)'
      BY <2>3, <2>4, <2>5 DEF ClientValue, GatedRows
    <2>7. QED BY <2>1, <2>6 DEF OneCallback, ClientValueIsOfCallback, ClientInv, RowsMade
  <1>3. CASE LoadDriver
    <2>1. main = "loading" /\ main' = "starting" /\ UNCHANGED writer
      BY <1>3 DEF LoadDriver
    <2>2. \A r \in GatedRows : ~ClientValue(r)'
      BY <1>3 DEF LoadDriver, ClientValue, WaitingNode, GatedRows
    <2>3. QED BY <2>1, <2>2 DEF ClientInv, OneCallback, ClientValueIsOfCallback, RowsMade
  <1>4. CASE StartPollers
    <2>1. GatedRows \in SUBSET Rows
      BY DEF GatedRows
    <2>2. \A r \in GatedRows : table'[r] \in Snapshot
      BY <1>4, <2>1, TransitionMakesRows DEF StartPollers, ClientInv
    <2>3. main = "starting" /\ main' = "run" /\ UNCHANGED <<writer, node>>
      BY <1>4 DEF StartPollers
    <2>4. QED BY <2>2, <2>3 DEF ClientInv, OneCallback, ClientValueIsOfCallback, ClientValue, RowsMade
  <1>5. CASE /\ main \notin {"uaWrite", "uaRefresh"} /\ UNCHANGED <<writer, node, table>>
             /\ main' = "starting" \/ main # "starting"
    BY <1>5 DEF ClientInv, OneCallback, ClientValueIsOfCallback, ClientValue, RowsMade
  <1>6. QED
    BY <1>1, <1>2, <1>3, <1>4, <1>5 DEF MainStep, SwapUaQueue, TakeReadback, CheckUpdate, DrainDone,
       StopPollers, JoinPollers, LoadFails

LEMMA ClientStep ==
  ASSUME ClientInv, [Next]_vars
  PROVE  ClientInv'
  <1>1. TypeOK' /\ Structure'
    BY TypeStep, StructureStep DEF ClientInv
  <1>2. CASE \E l \in Lanes : LaneStep(l)
    BY <1>1, <1>2, LaneClient DEF ClientInv
  <1>3. CASE \E w \in Writers : WriterStep(w)
    BY <1>1, <1>3, WriterClient DEF ClientInv
  <1>4. CASE MainStep
    BY <1>1, <1>4, MainClient DEF ClientInv
  <1>5. CASE Tick \/ BumpGeneration \/ UNCHANGED vars
    <2>1. UNCHANGED <<main, applying, node, writer, table>>
      BY <1>5 DEF Tick, BumpGeneration, vars, cacheVars, writeVars, mainVars
    <2>2. QED BY <1>1, <2>1, KeepClient DEF ClientInv
  <1>6. QED BY <1>2, <1>3, <1>4, <1>5 DEF Next

(* In every instance: once the write callback of the OPC UA server is over,*)
(* no gated tag's node shows as GOOD what the client wrote; it shows a     *)
(* physical read or is not GOOD, also when the write was refused or failed *)
(* and when the driver is replaced afterwards (main.cpp:5757-5766).        *)
THEOREM ClientValuesAreReplaced == Spec => []ClientValueReplaced
  <1>1. Init => ClientInv
    <2>1. Init => OneCallback /\ ClientValueIsOfCallback /\ RowsMade
      BY PollPublishAssumption DEF Init, OneCallback, ClientValueIsOfCallback, ClientValue, RowsMade,
         IdleWriter, WaitingNode, GatedRows
    <2>2. QED BY <2>1, InitTyped DEF ClientInv
  <1>2. ClientInv /\ [Next]_vars => ClientInv'
    BY ClientStep
  <1>3. ClientInv => ClientValueReplaced
    BY DEF ClientInv, ClientValueIsOfCallback, ClientValue, ClientValueReplaced
  <1>4. QED BY <1>1, <1>2, <1>3, PTL DEF Spec
=============================================================================
