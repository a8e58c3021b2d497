----------------------- MODULE PollPublishWrite_proof -----------------------
(***************************************************************************)
(* The readback of a write: no gated row of PollPublish is GOOD with a     *)
(* value older than a write that has returned, for every set of tags,      *)
(* lanes and writers and every bound; and the table as its readers see it  *)
(* implements TagCache.                                                    *)
(*                                                                         *)
(* The argument: what a lane has read, and holds or has prefetched, either *)
(* reflects every write that has returned, or its read started before the  *)
(* gates of the tag's rows ask for, so that its commit cannot make a row   *)
(* GOOD.  A writer whose driver was replaced before it returned does not   *)
(* restart the new driver's gates; but its write came before that driver,  *)
(* whose reads therefore reflect it: such writers are counted already.     *)
(***************************************************************************)
EXTENDS PollPublish_proof

(* A writer is about to return without restarting the gates, since e is    *)
(* not the driver it wrote through.                                        *)
Left(x, t, e) == x.phase = "exit" /\ RootOf(x.row) = t /\ x.epoch # e

(* A value v of tag t reflects the writes that have returned (ack), and    *)
(* those that will return without restarting the gates.                    *)
Reflects(v, t, ack, wr, e) ==
    /\ v >= ack[t]
    /\ \A w \in Writers : Left(wr[w], t, e) => v >= wr[w].seen

(* A sample of the current driver reflects the writes, or the gates reject *)
(* it.                                                                     *)
SampleOK(s, t, ack, wr, e, n, gs) ==
    s.ok /\ s.read.epoch = e =>
        /\ s.read.started < n
        /\ \/ Reflects(s.ver, t, ack, wr, e)
           \/ \A r \in GatedRows : RootOf(r) = t => s.read.started < gs[r].after

SamplesOK ==
    /\ \A t \in Tags : SampleOK(prefetch[t], t, acked, writer, epoch, now, gates)
    /\ \A l \in Lanes : lane[l].phase = "holding" =>
          SampleOK(lane[l].sample, lane[l].tag, acked, writer, epoch, now, gates)

RowsOK ==
    \A r \in GatedRows : table[r].good =>
        Reflects(table[r].ver, RootOf(r), acked, writer, epoch)

(* No read is by a driver that is still to come.                           *)
EpochsOK ==
    /\ \A l \in Lanes : lane[l].epoch <= epoch /\ lane[l].sample.read.epoch <= epoch
    /\ \A t \in Tags : prefetch[t].read.epoch <= epoch

(* The PLC has what was written; it is written through the current driver. *)
WritersOK ==
    /\ \A t \in Tags : acked[t] <= plc[t]
    /\ \A w \in Writers :
          /\ writer[w].phase = "exit" => writer[w].seen <= plc[RootOf(writer[w].row)]
          /\ writer[w].phase = "writing" => writer[w].epoch = epoch

ReadbackInv == EvidenceInv /\ SamplesOK /\ RowsOK /\ EpochsOK /\ WritersOK

-----------------------------------------------------------------------------
(* Values, samples and gates.                                              *)

LEMMA GatedRoot == \A r \in GatedRows : r \in Rows /\ RootOf(r) \in Tags
  BY RootOfType DEF GatedRows

(* transition_poll_cache moves a gate's time to now or leaves it, and      *)
(* leaves no GOOD row behind that it changed.                              *)
LEMMA TransitionTimes ==
  ASSUME TypeOK, NEW rows \in SUBSET Rows, NEW active \in BOOLEAN, NEW restart \in BOOLEAN,
         Transition(rows, active, restart)
  PROVE  /\ \A r \in Rows : /\ gates'[r].after \in {gates[r].after, now}
                            /\ table'[r].good => table'[r] = table[r]
         /\ restart => \A r \in rows : gates'[r].after = now /\ ~table'[r].good
  <1>1. ASSUME NEW r \in rows
        PROVE  /\ gates'[r].after \in {gates[r].after, now}
               /\ table'[r].good => table'[r] = table[r]
               /\ restart => gates'[r].after = now /\ ~table'[r].good
    <2> DEFINE g == gates[r]
               old == table[r]
    <2>1. /\ gates'[r] = TransitionGate(g, old, active, restart, epoch, now)
          /\ table'[r] = TransitionRow(g, old, active, restart)
      BY DEF Transition
    <2>2. g \in Gate /\ epoch \in Nat /\ now \in Nat
      BY DEF TypeOK
    <2> HIDE DEF g, old
    <2>3. CASE TransitionIsNoOp(g, old, active, restart)
      BY <2>1, <2>2, <2>3 DEF TransitionGate, TransitionRow, TransitionIsNoOp, Gate, g, old
    <2>4. CASE ~TransitionIsNoOp(g, old, active, restart)
      <3>1. ~table'[r].good
        BY <2>1, <2>4 DEF TransitionRow, NotGood
      <3>2. gates'[r].after \in {g.after, now} /\ (restart => gates'[r].after = now)
        BY <2>1, <2>2, <2>4 DEF TransitionGate, Restart, Resume, Suspend, Gate
      <3>3. QED BY <3>1, <3>2 DEF g
    <2>5. QED BY <2>3, <2>4
  <1>2. \A r \in Rows \ rows : gates'[r] = gates[r] /\ table'[r] = table[r]
    BY DEF Transition
  <1>3. QED BY <1>1, <1>2

(* Writers that come to leave without restarting the gates have written    *)
(* nothing.                                                                *)
LEMMA ReflectsKept ==
  ASSUME NEW v \in Nat, NEW t \in Tags, NEW ack, NEW ack2, NEW wr, NEW wr2, NEW e,
         Reflects(v, t, ack, wr, e), ack2[t] = ack[t],
         \A w \in Writers : Left(wr2[w], t, e) =>
             wr2[w].seen = 0 \/ (Left(wr[w], t, e) /\ wr2[w].seen = wr[w].seen)
  PROVE  Reflects(v, t, ack2, wr2, e)
  BY DEF Reflects

LEMMA SampleKept ==
  ASSUME NEW s \in Sample, NEW t \in Tags, NEW ack, NEW ack2, NEW wr, NEW wr2, NEW e,
         NEW n \in Nat, NEW n2 \in Nat, n <= n2, NEW gs \in [Rows -> Gate], NEW gs2,
         SampleOK(s, t, ack, wr, e, n, gs),
         \A r \in GatedRows : gs2[r].after \in {gs[r].after, n},
         \/ \A v \in Nat : Reflects(v, t, ack, wr, e) => Reflects(v, t, ack2, wr2, e)
         \/ \A r \in GatedRows : RootOf(r) = t => gs2[r].after = n
  PROVE  SampleOK(s, t, ack2, wr2, e, n2, gs2)
  <1> SUFFICES ASSUME s.ok, s.read.epoch = e
               PROVE  /\ s.read.started < n2
                      /\ \/ Reflects(s.ver, t, ack2, wr2, e)
                         \/ \A r \in GatedRows : RootOf(r) = t => s.read.started < gs2[r].after
    BY DEF SampleOK
  <1>1. s.ver \in Nat /\ s.read.started \in Nat
    BY DEF Sample, Stamp
  <1>2. /\ s.read.started < n
        /\ \/ Reflects(s.ver, t, ack, wr, e)
           \/ \A r \in GatedRows : RootOf(r) = t => s.read.started < gs[r].after
    BY DEF SampleOK
  <1>3. CASE \A r \in GatedRows : RootOf(r) = t => gs2[r].after = n
    BY <1>1, <1>2, <1>3
  <1>4. CASE \A r \in GatedRows : RootOf(r) = t => s.read.started < gs[r].after
    BY <1>1, <1>2, <1>4
  <1>5. CASE Reflects(s.ver, t, ack2, wr2, e)
    BY <1>1, <1>2, <1>5
  <1>6. QED BY <1>1, <1>2, <1>3, <1>4, <1>5

LEMMA NoSampleOK ==
  \A t, ack, wr, e, n, gs : SampleOK(NoSample, t, ack, wr, e, n, gs)
  BY DEF SampleOK, NoSample

-----------------------------------------------------------------------------
(* Steps by which no sample is read and no row becomes GOOD.               *)

(* For every tag either the writes to reflect are those of before, or the  *)
(* gates of its rows are restarted.                                        *)
Tracked(t) ==
    \/ \A v \in Nat : Reflects(v, t, acked, writer, epoch) =>
                      Reflects(v, t, acked', writer', epoch)
    \/ \A r \in GatedRows : RootOf(r) = t => gates'[r].after = now /\ ~table'[r].good

LEMMA KeepReadback ==
  ASSUME ReadbackInv, epoch' = epoch, now' \in Nat, now <= now',
         \A r \in GatedRows : /\ gates'[r].after \in {gates[r].after, now}
                              /\ table'[r].good => table'[r] = table[r],
         \A t \in Tags : Tracked(t),
         \A t \in Tags : prefetch'[t] \in {prefetch[t], NoSample},
         \A l \in Lanes : lane'[l].phase = "holding" =>
             \/ lane[l].phase = "holding" /\ lane'[l] = lane[l]
             \/ lane'[l].tag \in Tags /\ lane'[l].sample = prefetch[lane'[l].tag]
  PROVE  SamplesOK' /\ RowsOK'
  <1>1. /\ now \in Nat /\ gates \in [Rows -> Gate] /\ lane \in [Lanes -> LaneState]
        /\ prefetch \in [Tags -> Sample] /\ table \in [Rows -> Snapshot \cup {NoRow}]
        /\ LaneTagOK
    BY DEF ReadbackInv, EvidenceInv, TypeOK, Structure
  <1>2. ASSUME NEW s \in Sample, NEW t \in Tags,
               SampleOK(s, t, acked, writer, epoch, now, gates)
        PROVE  SampleOK(s, t, acked', writer', epoch', now', gates')
    <2>1. \/ \A v \in Nat : Reflects(v, t, acked, writer, epoch) =>
                            Reflects(v, t, acked', writer', epoch)
          \/ \A r \in GatedRows : RootOf(r) = t => gates'[r].after = now
      BY DEF Tracked
    <2>2. QED BY <1>1, <1>2, <2>1, SampleKept
  <1>3. ASSUME NEW t \in Tags
        PROVE  SampleOK(prefetch'[t], t, acked', writer', epoch', now', gates')
    <2>1. SampleOK(prefetch[t], t, acked, writer, epoch, now, gates)
      BY DEF ReadbackInv, SamplesOK
    <2>2. QED BY <1>1, <1>2, <2>1, NoSampleOK
  <1>4. ASSUME NEW l \in Lanes, lane'[l].phase = "holding"
        PROVE  SampleOK(lane'[l].sample, lane'[l].tag, acked', writer', epoch', now', gates')
    <2>1. CASE lane[l].phase = "holding" /\ lane'[l] = lane[l]
      <3>1. SampleOK(lane[l].sample, lane[l].tag, acked, writer, epoch, now, gates)
        BY <2>1 DEF ReadbackInv, SamplesOK
      <3>2. lane[l].sample \in Sample /\ lane[l].tag \in Tags
        BY <1>1, <2>1 DEF LaneState, LaneTagOK
      <3>3. QED BY <1>2, <2>1, <3>1, <3>2
    <2>2. CASE lane'[l].tag \in Tags /\ lane'[l].sample = prefetch[lane'[l].tag]
      <3>1. SampleOK(prefetch[lane'[l].tag], lane'[l].tag, acked, writer, epoch, now, gates)
        BY <2>2 DEF ReadbackInv, SamplesOK
      <3>2. prefetch[lane'[l].tag] \in Sample
        BY <1>1, <2>2
      <3>3. QED BY <1>2, <2>2, <3>1, <3>2
    <2>3. QED BY <1>4, <2>1, <2>2
  <1>5. ASSUME NEW r \in GatedRows, table'[r].good
        PROVE  Reflects(table'[r].ver, RootOf(r), acked', writer', epoch')
    <2>1. table'[r] = table[r] /\ table[r].good
      BY <1>5
    <2>2. Reflects(table[r].ver, RootOf(r), acked, writer, epoch)
      BY <2>1 DEF ReadbackInv, RowsOK
    <2>3. table[r].ver \in Nat /\ RootOf(r) \in Tags
      BY <1>1, <2>1, GatedRoot DEF Snapshot, NoRow
    <2>4. \A v \in Nat : Reflects(v, RootOf(r), acked, writer, epoch) =>
                         Reflects(v, RootOf(r), acked', writer', epoch)
      BY <1>5, <2>3 DEF Tracked
    <2>5. QED BY <2>1, <2>2, <2>3, <2>4
  <1>6. QED BY <1>3, <1>4, <1>5 DEF SamplesOK, RowsOK

(* Nothing a write leaves behind changes.                                  *)
LEMMA TrackedFrame ==
  ASSUME epoch' = epoch, acked' = acked,
         \A w \in Writers : Left(writer'[w], RootOf(writer'[w].row), epoch) =>
             writer'[w].seen = 0 \/ writer'[w] = writer[w]
  PROVE  \A t \in Tags : Tracked(t)
  <1>1. ASSUME NEW t \in Tags, NEW v \in Nat, Reflects(v, t, acked, writer, epoch)
        PROVE  Reflects(v, t, acked', writer', epoch)
    <2>1. \A w \in Writers : Left(writer'[w], t, epoch) =>
             writer'[w].seen = 0 \/ (Left(writer[w], t, epoch) /\ writer'[w].seen = writer[w].seen)
      BY DEF Left
    <2>2. QED BY <1>1, <2>1, ReflectsKept
  <1>2. QED BY <1>1 DEF Tracked

-----------------------------------------------------------------------------
(* The lanes.                                                              *)

LEMMA CommitReadback ==
  ASSUME ReadbackInv, NEW l \in Lanes, NEW undecoded, Commit(l, undecoded)
  PROVE  SamplesOK' /\ RowsOK'
  <1> USE DEF plcVars, cacheVars, laneVars, writeVars, mainVars
  <1> DEFINE t == lane[l].tag
             s == lane[l].sample
  <1>1. /\ t \in Tags /\ s \in Sample /\ TypeOK /\ lane \in [Lanes -> LaneState]
        /\ \A r \in GatedRows : gates[r].present /\ gates[r].epoch = epoch
    BY DEF Commit, ReadbackInv, EvidenceInv, Structure, LaneTagOK, GatesCurrent, TypeOK, LaneState
  <1>2. /\ UNCHANGED <<epoch, gates, now, acked, writer, prefetch>>
        /\ lane' = [lane EXCEPT ![l] = LaneAt("pushing", lane[l].epoch)]
        /\ lane[l].phase = "holding"
        /\ \A r \in Rows : table'[r] = IF RootOf(r) = t THEN CommittedRow(t, s, r, undecoded)
                                                        ELSE table[r]
    BY DEF Commit
  <1>3. SampleOK(s, t, acked, writer, epoch, now, gates)
    BY <1>2 DEF ReadbackInv, SamplesOK
  <1> HIDE DEF t, s
  <1>4. ASSUME NEW r \in GatedRows, table'[r].good
        PROVE  Reflects(table'[r].ver, RootOf(r), acked, writer, epoch)
    <2>1. r \in Rows
      BY GatedRoot
    <2>2. CASE RootOf(r) = t
      <3>1. table'[r] = CommittedRow(t, s, r, undecoded)
        BY <1>2, <2>1, <2>2
      <3>2. /\ s.ok /\ CommittedRow(t, s, r, undecoded).ver = s.ver
            /\ s.read.epoch = gates[r].epoch /\ s.read.started >= gates[r].after
        BY <1>1, <1>4, <2>2, <3>1, CommittedGood
      <3>3. s.read.started \in Nat /\ gates[r].after \in Nat
        BY <1>1, <2>1 DEF TypeOK, Gate, Sample, Stamp
      <3>4. Reflects(s.ver, t, acked, writer, epoch)
        BY <1>1, <1>3, <2>2, <3>2, <3>3 DEF SampleOK
      <3>5. QED BY <2>2, <3>1, <3>2, <3>4
    <2>3. CASE RootOf(r) # t
      BY <1>2, <1>4, <2>1, <2>3 DEF ReadbackInv, RowsOK
    <2>4. QED BY <2>2, <2>3
  <1>5. RowsOK'
    BY <1>2, <1>4 DEF RowsOK
  <1>6. \A k \in Lanes : lane'[k].phase = "holding" => lane'[k] = lane[k]
    BY <1>1, <1>2 DEF LaneAt
  <1>7. SamplesOK'
    BY <1>2, <1>6 DEF ReadbackInv, SamplesOK
  <1>8. QED BY <1>5, <1>7

(* What is read now reflects every write the PLC has taken.                *)
LEMMA ReadReflects ==
  ASSUME ReadbackInv, NEW t \in Tags
  PROVE  Reflects(plc[t], t, acked, writer, epoch)
  <1>1. plc[t] \in Nat /\ acked[t] \in Nat /\ acked[t] <= plc[t]
    BY DEF ReadbackInv, EvidenceInv, TypeOK, WritersOK
  <1>2. \A w \in Writers : Left(writer[w], t, epoch) =>
           writer[w].seen \in Nat /\ writer[w].seen <= plc[t]
    BY DEF Left, ReadbackInv, EvidenceInv, TypeOK, WriterState, WritersOK
  <1>3. QED BY <1>1, <1>2 DEF Reflects

LEMMA FinishReadReadback ==
  ASSUME ReadbackInv, NEW l \in Lanes, NEW oks, FinishRead(l, oks)
  PROVE  SamplesOK' /\ RowsOK'
  <1> USE DEF plcVars, cacheVars, laneVars, writeVars, mainVars
  <1> DEFINE t == lane[l].tag
  <1>1. /\ t \in Tags /\ TypeOK /\ lane \in [Lanes -> LaneState]
    BY DEF FinishRead, ReadbackInv, EvidenceInv, Structure, LaneTagOK, TypeOK
  <1>2. /\ UNCHANGED <<epoch, gates, now, acked, writer, table>>
        /\ lane[l].started < now
        /\ lane' = [lane EXCEPT ![l] = LaneHolding(t, ReadResult(l, t, t \in oks), lane[l].epoch)]
        /\ \A x \in Tags : prefetch'[x] \in {prefetch[x], ReadResult(l, x, x \in oks)}
    BY <1>1 DEF FinishRead, TypeOK, LaneState
  <1>3. ASSUME NEW x \in Tags
        PROVE  SampleOK(ReadResult(l, x, x \in oks), x, acked, writer, epoch, now, gates)
    <2>1. ReadResult(l, x, x \in oks).read.started = lane[l].started
      BY DEF ReadResult
    <2>2. ReadResult(l, x, x \in oks).ok => ReadResult(l, x, x \in oks).ver = plc[x]
      BY DEF ReadResult
    <2>3. QED BY <1>2, <2>1, <2>2, ReadReflects DEF SampleOK
  <1>4. \A x \in Tags : SampleOK(prefetch'[x], x, acked, writer, epoch, now, gates)
    BY <1>2, <1>3 DEF ReadbackInv, SamplesOK
  <1>5. ASSUME NEW k \in Lanes, lane'[k].phase = "holding"
        PROVE  SampleOK(lane'[k].sample, lane'[k].tag, acked, writer, epoch, now, gates)
    <2>1. CASE k = l
      <3>1. lane'[k].sample = ReadResult(l, t, t \in oks) /\ lane'[k].tag = t
        BY <1>1, <1>2, <2>1 DEF LaneHolding
      <3>2. QED BY <1>1, <1>3, <3>1
    <2>2. CASE k # l
      BY <1>1, <1>2, <1>5, <2>2 DEF ReadbackInv, SamplesOK
    <2>3. QED BY <2>1, <2>2
  <1>6. QED BY <1>2, <1>4, <1>5 DEF ReadbackInv, SamplesOK, RowsOK

LEMMA LaneReadback ==
  ASSUME ReadbackInv, NEW l \in Lanes, LaneStep(l)
  PROVE  SamplesOK' /\ RowsOK'
  <1> USE DEF plcVars, cacheVars, laneVars, writeVars, mainVars
  <1>1. /\ TypeOK /\ lane \in [Lanes -> LaneState] /\ now \in Nat /\ now <= now
        /\ prefetch \in [Tags -> Sample]
    BY DEF ReadbackInv, EvidenceInv, TypeOK
  <1>2. ASSUME UNCHANGED <<now, epoch, acked, writer>>,
               \A r \in GatedRows : /\ gates'[r].after \in {gates[r].after, now}
                                    /\ table'[r].good => table'[r] = table[r],
               \A t \in Tags : prefetch'[t] \in {prefetch[t], NoSample},
               \A k \in Lanes : lane'[k].phase = "holding" =>
                   \/ lane[k].phase = "holding" /\ lane'[k] = lane[k]
                   \/ lane'[k].tag \in Tags /\ lane'[k].sample = prefetch[lane'[k].tag]
        PROVE  SamplesOK' /\ RowsOK'
    <2>1. \A t \in Tags : Tracked(t)
      BY <1>2, TrackedFrame
    <2>2. QED BY <1>1, <1>2, <2>1, KeepReadback
  <1>3. ASSUME NEW t \in Tags, NEW active \in BOOLEAN, TransitionDemand(l, t, active)
        PROVE  SamplesOK' /\ RowsOK'
    <2> DEFINE rows == IF lane[l].epoch = epoch THEN RowsOf(t) \cap GatedRows ELSE {}
    <2>1. rows \in SUBSET Rows
      BY DEF RowsOf
    <2>2. Transition(rows, active, FALSE)
      BY <1>3 DEF TransitionDemand
    <2> HIDE DEF rows
    <2>3. \A r \in GatedRows : /\ gates'[r].after \in {gates[r].after, now}
                               /\ table'[r].good => table'[r] = table[r]
      BY <1>1, <2>1, <2>2, TransitionTimes, GatedRoot
    <2>4. /\ \A x \in Tags : prefetch'[x] \in {prefetch[x], NoSample}
          /\ \A k \in Lanes : lane'[k].phase = "holding" =>
                lane[k].phase = "holding" /\ lane'[k] = lane[k]
      BY <1>1, <1>3 DEF TransitionDemand, LaneAt
    <2>5. UNCHANGED <<now, epoch, acked, writer>>
      BY <1>3 DEF TransitionDemand
    <2>6. QED BY <1>2, <2>3, <2>4, <2>5
  <1>4. ASSUME NEW t \in Tags, UsePrefetched(l, t)
        PROVE  SamplesOK' /\ RowsOK'
    <2>1. \A k \in Lanes : lane'[k].phase = "holding" =>
             \/ lane[k].phase = "holding" /\ lane'[k] = lane[k]
             \/ lane'[k].tag \in Tags /\ lane'[k].sample = prefetch[lane'[k].tag]
      BY <1>1, <1>4 DEF UsePrefetched, LaneHolding
    <2>2. \A x \in Tags : prefetch'[x] \in {prefetch[x], NoSample}
      BY <1>1, <1>4 DEF UsePrefetched
    <2>3. QED BY <1>2, <1>4, <2>1, <2>2 DEF UsePrefetched
  <1>5. ASSUME NEW t \in Tags,
               SkipInactive(l, t) \/ \E others \in SUBSET Tags : BeginRead(l, t, others)
        PROVE  SamplesOK' /\ RowsOK'
    <2>1. \A k \in Lanes : lane'[k].phase = "holding" =>
             lane[k].phase = "holding" /\ lane'[k] = lane[k]
      BY <1>1, <1>5 DEF SkipInactive, BeginRead
    <2>2. \A x \in Tags : prefetch'[x] \in {prefetch[x], NoSample}
      BY <1>1, <1>5 DEF SkipInactive, BeginRead
    <2>3. QED BY <1>2, <1>5, <2>1, <2>2 DEF SkipInactive, BeginRead
  <1>6. CASE DropSample(l) \/ LanePush(l) \/ LaneExit(l)
    <2>1. \A k \in Lanes : lane'[k].phase = "holding" =>
             lane[k].phase = "holding" /\ lane'[k] = lane[k]
      BY <1>1, <1>6 DEF DropSample, LanePush, LaneExit, LaneAt
    <2>2. QED BY <1>2, <1>6, <2>1 DEF DropSample, LanePush, LaneExit
  <1>7. QED BY <1>3, <1>4, <1>5, <1>6, CommitReadback, FinishReadReadback DEF LaneStep

-----------------------------------------------------------------------------
(* The writers.                                                            *)

LEMMA InvalidateTimes ==
  ASSUME TypeOK, WriterRowOK, NEW w \in Writers, writer[w].phase # "idle", Invalidate(w)
  PROVE  /\ \A r \in GatedRows : /\ gates'[r].after \in {gates[r].after, now}
                                 /\ table'[r].good => table'[r] = table[r]
         /\ writer[w].epoch = epoch =>
              \A r \in GatedRows : RootOf(r) = RootOf(writer[w].row) =>
                  gates'[r].after = now /\ ~table'[r].good
  <1> DEFINE rows == RowsOf(RootOf(writer[w].row)) \cap GatedRows
  <1>1. rows \in SUBSET Rows
    BY DEF RowsOf
  <1>2. \A r \in GatedRows : RootOf(r) = RootOf(writer[w].row) => r \in rows
    BY GatedRoot DEF RowsOf
  <1>3. CASE writer[w].epoch = epoch
    <2>1. Transition(rows, TRUE, TRUE)
      BY <1>3 DEF Invalidate
    <2> HIDE DEF rows
    <2>2. QED BY <1>1, <1>2, <2>1, TransitionTimes, GatedRoot
  <1>4. CASE writer[w].epoch # epoch
    BY <1>4 DEF Invalidate
  <1>5. QED BY <1>3, <1>4

LEMMA WriteExitTracked ==
  ASSUME ReadbackInv, NEW w \in Writers, WriteExit(w)
  PROVE  \A t \in Tags : Tracked(t)
  <1> USE DEF plcVars, cacheVars, laneVars, writeVars, mainVars
  <1> DEFINE root == RootOf(writer[w].row)
             seen == writer[w].seen
  <1>1. /\ TypeOK /\ WriterRowOK /\ writer \in [Writers -> WriterState]
        /\ acked \in [Tags -> Nat]
    BY DEF ReadbackInv, EvidenceInv, Structure, TypeOK
  <1>2. /\ writer[w].phase = "exit" /\ Invalidate(w)
        /\ acked' = [acked EXCEPT ![root] = IF seen > @ THEN seen ELSE @]
        /\ writer' = [writer EXCEPT ![w] = WriterAt(w, "exitPush", seen)]
    BY DEF WriteExit
  <1>3. seen \in Nat /\ root \in Tags
    BY <1>1, <1>2, GatedRoot DEF WriterState, WriterRowOK
  <1> HIDE DEF seen
  <1>4. ASSUME NEW t \in Tags
        PROVE  \A x \in Writers : Left(writer'[x], t, epoch) =>
                   Left(writer[x], t, epoch) /\ writer'[x].seen = writer[x].seen
    BY <1>1, <1>2 DEF Left, WriterAt
  <1>5. CASE writer[w].epoch = epoch
    <2> SUFFICES ASSUME NEW t \in Tags PROVE Tracked(t)
      OBVIOUS
    <2>1. CASE t = root
      BY <1>1, <1>2, <1>5, <2>1, InvalidateTimes DEF Tracked
    <2>2. CASE t # root
      <3>1. acked'[t] = acked[t]
        BY <1>1, <1>2, <2>2
      <3>2. QED BY <1>4, <3>1, ReflectsKept DEF Tracked
    <2>3. QED BY <2>1, <2>2
  <1>6. CASE writer[w].epoch # epoch
    <2> SUFFICES ASSUME NEW t \in Tags, NEW v \in Nat, Reflects(v, t, acked, writer, epoch)
                 PROVE  Reflects(v, t, acked', writer', epoch)
      BY DEF Tracked
    <2>1. v >= acked'[t]
      <3>1. CASE t = root
        <4>1. Left(writer[w], t, epoch)
          BY <1>2, <1>6, <3>1 DEF Left
        <4>2. v >= seen /\ v >= acked[t]
          BY <4>1 DEF Reflects, seen
        <4>3. QED BY <1>1, <1>2, <4>2
      <3>2. CASE t # root
        BY <1>1, <1>2, <3>2 DEF Reflects
      <3>3. QED BY <3>1, <3>2
    <2>2. QED BY <1>4, <2>1 DEF Reflects
  <1>7. QED BY <1>5, <1>6

LEMMA WriterReadback ==
  ASSUME ReadbackInv, NEW w \in Writers, WriterStep(w)
  PROVE  SamplesOK' /\ RowsOK'
  <1> USE DEF plcVars, cacheVars, laneVars, writeVars, mainVars
  <1>1. /\ TypeOK /\ WriterRowOK /\ now \in Nat /\ now <= now
        /\ writer \in [Writers -> WriterState]
    BY DEF ReadbackInv, EvidenceInv, Structure, TypeOK
  <1>2. ASSUME UNCHANGED <<now, epoch, prefetch, lane>>,
               \A r \in GatedRows : /\ gates'[r].after \in {gates[r].after, now}
                                    /\ table'[r].good => table'[r] = table[r],
               \A t \in Tags : Tracked(t)
        PROVE  SamplesOK' /\ RowsOK'
    BY <1>1, <1>2, KeepReadback
  <1>3. CASE WriteExit(w)
    <2>1. \A t \in Tags : Tracked(t)
      BY <1>3, WriteExitTracked
    <2>2. \A r \in GatedRows : /\ gates'[r].after \in {gates[r].after, now}
                               /\ table'[r].good => table'[r] = table[r]
      BY <1>1, <1>3, InvalidateTimes DEF WriteExit
    <2>3. QED BY <1>2, <1>3, <2>1, <2>2 DEF WriteExit
  <1>4. ASSUME NEW x, writer' = [writer EXCEPT ![w] = x], acked' = acked,
               x.phase # "exit" \/ x.seen = 0 \/ x.epoch = epoch,
               UNCHANGED <<now, epoch, prefetch, lane>>,
               \A r \in GatedRows : /\ gates'[r].after \in {gates[r].after, now}
                                    /\ table'[r].good => table'[r] = table[r]
        PROVE  SamplesOK' /\ RowsOK'
    <2>1. \A y \in Writers : Left(writer'[y], RootOf(writer'[y].row), epoch) =>
             writer'[y].seen = 0 \/ writer'[y] = writer[y]
      BY <1>1, <1>4 DEF Left
    <2>2. \A t \in Tags : Tracked(t)
      BY <1>4, <2>1, TrackedFrame
    <2>3. QED BY <1>2, <1>4, <2>2
  <1>5. ASSUME NEW r \in GatedRows, BeginWrite(w, r) \/ BeginUaWrite(w, r)
        PROVE  SamplesOK' /\ RowsOK'
    BY <1>4, <1>5 DEF BeginWrite, BeginUaWrite
  <1>6. CASE RefuseWrite(w)
    BY <1>4, <1>6 DEF RefuseWrite, IdleWriter
  <1>7. CASE WriteEntry(w)
    <2>1. \A r \in GatedRows : /\ gates'[r].after \in {gates[r].after, now}
                               /\ table'[r].good => table'[r] = table[r]
      BY <1>1, <1>7, InvalidateTimes DEF WriteEntry
    <2>2. WriterAt(w, "entryPush", 0).phase # "exit"
      BY DEF WriterAt
    <2>3. QED BY <1>4, <1>7, <2>1, <2>2 DEF WriteEntry
  <1>8. CASE WriterPush(w)
    <2>1. PICK x \in {WriterAt(w, "waiting", 0), IdleWriter} : writer' = [writer EXCEPT ![w] = x]
      BY <1>8 DEF WriterPush
    <2>2. x.phase # "exit"
      BY <2>1 DEF WriterAt, IdleWriter
    <2>3. UNCHANGED <<now, epoch, gates, table, acked, prefetch, lane>>
      BY <1>8 DEF WriterPush
    <2>4. QED BY <1>4, <2>1, <2>2, <2>3
  <1>9. CASE AcquireGate(w) \/ RejectWrite(w)
    <2>1. PICK ph : writer' = [writer EXCEPT ![w] = WriterAt(w, ph, 0)]
      BY <1>9 DEF AcquireGate, RejectWrite
    <2>2. WriterAt(w, ph, 0).seen = 0
      BY DEF WriterAt
    <2>3. UNCHANGED <<now, epoch, gates, table, acked, prefetch, lane>>
      BY <1>9 DEF AcquireGate, RejectWrite
    <2>4. QED BY <1>4, <2>1, <2>2, <2>3
  <1>10. ASSUME NEW effect \in BOOLEAN, PlcWrite(w, effect)
         PROVE  SamplesOK' /\ RowsOK'
    <2> DEFINE x == WriterAt(w, "exit", plc'[RootOf(writer[w].row)])
    <2>1. writer' = [writer EXCEPT ![w] = x] /\ writer[w].phase = "writing"
      BY <1>10 DEF PlcWrite
    <2>2. x.epoch = epoch
      BY <2>1 DEF WriterAt, ReadbackInv, WritersOK
    <2>3. UNCHANGED <<now, epoch, gates, table, acked, prefetch, lane>>
      BY <1>10 DEF PlcWrite
    <2> HIDE DEF x
    <2>4. QED BY <1>4, <2>1, <2>2, <2>3
  <1>11. QED BY <1>3, <1>5, <1>6, <1>7, <1>8, <1>9, <1>10 DEF WriterStep

-----------------------------------------------------------------------------
(* The main loop, time and the generation.                                 *)

LEMMA MainReadback ==
  ASSUME ReadbackInv, MainStep \/ Tick \/ BumpGeneration \/ UNCHANGED vars
  PROVE  SamplesOK' /\ RowsOK'
  <1> USE DEF plcVars, cacheVars, laneVars, writeVars, mainVars
  <1>1. /\ TypeOK /\ now \in Nat
    BY DEF ReadbackInv, EvidenceInv, TypeOK
  <1>2. CASE LoadDriver
    <2>1. \A t \in Tags : SampleOK(prefetch'[t], t, acked', writer', epoch', now', gates')
      <3> TAKE t \in Tags
      <3>1. /\ epoch' = epoch + 1 /\ prefetch' = prefetch /\ epoch \in Nat
            /\ prefetch[t].read.epoch <= epoch /\ prefetch[t].read.epoch \in Nat
        BY <1>1, <1>2 DEF LoadDriver, ReadbackInv, EpochsOK, TypeOK, Sample, Stamp
      <3>2. QED BY <3>1 DEF SampleOK
    <2>2. \A l \in Lanes : lane'[l].phase = "dead"
      BY <1>2 DEF LoadDriver, ReadbackInv, EvidenceInv, Structure, LanesJoined
    <2>3. \A r \in GatedRows : ~table'[r].good
      BY <1>2, GatedRoot DEF LoadDriver, NoRow
    <2>4. QED BY <2>1, <2>2, <2>3 DEF SamplesOK, RowsOK
  <1>3. CASE StartPollers
    <2>1. GatedRows \in SUBSET Rows
      BY GatedRoot
    <2>2. Transition(GatedRows, TRUE, TRUE)
      BY <1>3 DEF StartPollers
    <2>3. \A r \in GatedRows : /\ gates'[r].after \in {gates[r].after, now}
                               /\ table'[r].good => table'[r] = table[r]
      BY <1>1, <2>1, <2>2, TransitionTimes
    <2>4. /\ \A t \in Tags : prefetch'[t] = NoSample
          /\ \A l \in Lanes : lane'[l].phase # "holding"
      BY <1>3 DEF StartPollers, LaneAt
    <2>5. UNCHANGED <<now, epoch, acked, writer>> /\ now <= now
      BY <1>1, <1>3 DEF StartPollers
    <2>6. \A t \in Tags : Tracked(t)
      BY <2>5, TrackedFrame
    <2>7. QED BY <1>1, <2>3, <2>4, <2>5, <2>6, KeepReadback
  <1>4. ASSUME UNCHANGED <<epoch, acked, writer, gates, table, prefetch, lane>>,
               now' \in Nat, now <= now'
        PROVE  SamplesOK' /\ RowsOK'
    <2>1. \A t \in Tags : Tracked(t)
      BY <1>4, TrackedFrame
    <2>2. QED BY <1>4, <2>1, KeepReadback
  <1>5. CASE Tick
    BY <1>1, <1>4, <1>5 DEF Tick
  <1>6. CASE BumpGeneration \/ UNCHANGED vars
    BY <1>1, <1>4, <1>6 DEF BumpGeneration, vars
  <1>7. CASE MainStep /\ ~LoadDriver /\ ~StartPollers
    <2>1. UNCHANGED <<epoch, acked, writer, gates, table, prefetch, lane, now>>
      BY <1>7 DEF MainStep, SwapUaQueue, TakeReadback, CheckUpdate, FetchCached, ApplyUpdate,
                  DrainDone, StopPollers, JoinPollers, LoadFails
    <2>2. QED BY <1>1, <1>4, <2>1
  <1>8. QED BY <1>2, <1>3, <1>5, <1>6, <1>7

-----------------------------------------------------------------------------
(* Drivers and writers.                                                    *)

LEMMA EpochsStep ==
  ASSUME ReadbackInv, [Next]_vars
  PROVE  EpochsOK'
  <1> USE DEF plcVars, cacheVars, laneVars, writeVars, mainVars
  <1>1. /\ TypeOK /\ epoch \in Nat /\ lane \in [Lanes -> LaneState]
        /\ prefetch \in [Tags -> Sample] /\ EpochsOK
    BY DEF ReadbackInv, EvidenceInv, TypeOK
  <1>2. NoSample.read.epoch = 0
    BY DEF NoSample, NoStamp
  <1>3. ASSUME NEW l \in Lanes, NEW x, lane' = [lane EXCEPT ![l] = x], epoch' = epoch,
               x.epoch <= epoch, x.sample.read.epoch <= epoch,
               \A t \in Tags : prefetch'[t].read.epoch <= epoch
        PROVE  EpochsOK'
    BY <1>1, <1>3 DEF EpochsOK
  <1>4. \A ph : \A l \in Lanes : /\ LaneAt(ph, lane[l].epoch).epoch <= epoch
                                 /\ LaneAt(ph, lane[l].epoch).sample.read.epoch <= epoch
    BY <1>1, <1>2 DEF LaneAt, EpochsOK
  <1>5. \A s : \A l \in Lanes, t \in Tags : s.read.epoch <= epoch =>
           /\ LaneHolding(t, s, lane[l].epoch).epoch <= epoch
           /\ LaneHolding(t, s, lane[l].epoch).sample.read.epoch <= epoch
    BY <1>1 DEF LaneHolding, EpochsOK
  <1>6. \A t \in Tags : prefetch[t].read.epoch <= epoch
    BY <1>1 DEF EpochsOK
  <1>7. ASSUME NEW l \in Lanes, LaneStep(l)
        PROVE  EpochsOK'
    <2>1. ASSUME NEW t \in Tags, NEW active \in BOOLEAN, TransitionDemand(l, t, active)
          PROVE  EpochsOK'
      <3>1. \A x \in Tags : prefetch'[x].read.epoch <= epoch
        BY <1>1, <1>2, <1>6, <2>1 DEF TransitionDemand
      <3>2. QED BY <1>3, <1>4, <2>1, <3>1 DEF TransitionDemand
    <2>2. ASSUME NEW t \in Tags, SkipInactive(l, t)
          PROVE  EpochsOK'
      <3>1. \A x \in Tags : prefetch'[x].read.epoch <= epoch
        BY <1>1, <1>2, <1>6, <2>2 DEF SkipInactive
      <3>2. QED BY <1>1, <2>2, <3>1 DEF SkipInactive, EpochsOK
    <2>3. ASSUME NEW t \in Tags, NEW others \in SUBSET Tags, BeginRead(l, t, others)
          PROVE  EpochsOK'
      <3> DEFINE x == [phase |-> "reading", tag |-> t, batch |-> others \cup {t},
                       started |-> now, sample |-> NoSample, epoch |-> lane[l].epoch]
      <3>1. x.epoch <= epoch /\ x.sample.read.epoch <= epoch
        BY <1>1, <1>2 DEF EpochsOK
      <3>2. lane' = [lane EXCEPT ![l] = x] /\ epoch' = epoch /\ prefetch' = prefetch
        BY <2>3 DEF BeginRead
      <3> HIDE DEF x
      <3>3. QED BY <1>3, <1>6, <3>1, <3>2
    <2>4. ASSUME NEW t \in Tags, UsePrefetched(l, t)
          PROVE  EpochsOK'
      <3>1. \A x \in Tags : prefetch'[x].read.epoch <= epoch
        BY <1>1, <1>2, <1>6, <2>4 DEF UsePrefetched
      <3>2. QED BY <1>3, <1>5, <1>6, <2>4, <3>1 DEF UsePrefetched
    <2>5. ASSUME NEW oks \in SUBSET Tags, FinishRead(l, oks)
          PROVE  EpochsOK'
      <3>1. \A x : ReadResult(l, x, x \in oks).read.epoch <= epoch
        BY <1>1 DEF ReadResult, EpochsOK
      <3>2. \A x \in Tags : prefetch'[x].read.epoch <= epoch
        BY <1>6, <2>5, <3>1 DEF FinishRead
      <3>3. lane[l].tag \in Tags
        BY <2>5 DEF FinishRead, ReadbackInv, EvidenceInv, Structure, LaneTagOK
      <3>4. QED BY <1>3, <1>5, <2>5, <3>1, <3>2, <3>3 DEF FinishRead
    <2>6. ASSUME NEW undecoded \in SUBSET Rows, Commit(l, undecoded)
          PROVE  EpochsOK'
      BY <1>3, <1>4, <1>6, <2>6 DEF Commit
    <2>7. CASE DropSample(l) \/ LanePush(l) \/ LaneExit(l)
      BY <1>3, <1>4, <1>6, <2>7 DEF DropSample, LanePush, LaneExit
    <2>8. QED BY <1>7, <2>1, <2>2, <2>3, <2>4, <2>5, <2>6, <2>7 DEF LaneStep
  <1>8. CASE UNCHANGED <<epoch, lane, prefetch>>
    BY <1>1, <1>8 DEF EpochsOK
  <1>9. ASSUME NEW w \in Writers, WriterStep(w)
        PROVE  EpochsOK'
    BY <1>8, <1>9 DEF WriterStep, BeginWrite, BeginUaWrite, RefuseWrite, WriteEntry, WriterPush,
                      AcquireGate, RejectWrite, PlcWrite, WriteExit
  <1>10. CASE LoadDriver
    BY <1>1, <1>10 DEF LoadDriver, EpochsOK, LaneState, Sample, Stamp
  <1>11. CASE StartPollers
    BY <1>1, <1>2, <1>11 DEF StartPollers, EpochsOK, LaneAt
  <1>12. CASE Tick \/ BumpGeneration \/ UNCHANGED vars \/ (MainStep /\ ~LoadDriver /\ ~StartPollers)
    BY <1>8, <1>12 DEF Tick, BumpGeneration, vars, MainStep, SwapUaQueue, TakeReadback, CheckUpdate,
                       FetchCached, ApplyUpdate, DrainDone, StopPollers, JoinPollers, LoadFails
  <1>13. QED BY <1>7, <1>9, <1>10, <1>11, <1>12 DEF Next

LEMMA WritersStep ==
  ASSUME ReadbackInv, [Next]_vars
  PROVE  WritersOK'
  <1> USE DEF plcVars, cacheVars, laneVars, writeVars, mainVars
  <1>1. /\ TypeOK /\ WriterRowOK /\ WritersOK /\ writer \in [Writers -> WriterState]
        /\ acked \in [Tags -> Nat] /\ plc \in [Tags -> Nat]
    BY DEF ReadbackInv, EvidenceInv, Structure, TypeOK
  <1>2. ASSUME NEW w \in Writers, NEW x, writer' = [writer EXCEPT ![w] = x],
               x.phase = "exit" => x.seen <= plc'[RootOf(x.row)],
               x.phase = "writing" => x.epoch = epoch,
               epoch' = epoch, \A t \in Tags : acked'[t] <= plc'[t],
               \A t \in Tags : plc'[t] \in Nat /\ plc[t] <= plc'[t]
        PROVE  WritersOK'
    <2>1. ASSUME NEW y \in Writers, y # w
          PROVE  /\ writer'[y].phase = "exit" => writer'[y].seen <= plc'[RootOf(writer'[y].row)]
                 /\ writer'[y].phase = "writing" => writer'[y].epoch = epoch
      <3>1. writer'[y] = writer[y] /\ writer[y].seen \in Nat
        BY <1>1, <1>2, <2>1 DEF WriterState
      <3>2. writer[y].phase = "exit" => RootOf(writer[y].row) \in Tags
        BY <1>1, GatedRoot DEF WriterRowOK
      <3>3. writer[y].phase = "exit" => writer[y].seen <= plc[RootOf(writer[y].row)]
        BY <1>1 DEF WritersOK
      <3>4. writer[y].phase = "writing" => writer[y].epoch = epoch
        BY <1>1 DEF WritersOK
      <3>5. QED BY <1>1, <1>2, <3>1, <3>2, <3>3, <3>4
    <2>2. writer'[w] = x
      BY <1>1, <1>2
    <2>3. QED BY <1>2, <2>1, <2>2 DEF WritersOK
  <1>3. \A t \in Tags : plc[t] \in Nat /\ plc[t] <= plc[t] /\ acked[t] <= plc[t]
    BY <1>1 DEF WritersOK
  <1>4. ASSUME NEW w \in Writers, WriterStep(w)
        PROVE  WritersOK'
    <2>1. ASSUME NEW r \in GatedRows, BeginWrite(w, r) \/ BeginUaWrite(w, r)
          PROVE  WritersOK'
      BY <1>2, <1>3, <2>1 DEF BeginWrite, BeginUaWrite
    <2>2. CASE RefuseWrite(w)
      BY <1>2, <1>3, <2>2 DEF RefuseWrite, IdleWriter
    <2>3. ASSUME NEW ph, ph \notin {"exit", "writing"}, NEW v,
                 writer' = [writer EXCEPT ![w] = WriterAt(w, ph, v)],
                 epoch' = epoch, plc' = plc, \A t \in Tags : acked'[t] <= plc[t]
          PROVE  WritersOK'
      <3>1. WriterAt(w, ph, v).phase = ph
        BY DEF WriterAt
      <3>2. QED BY <1>2, <1>3, <2>3, <3>1
    <2>4. CASE WriteEntry(w)
      BY <1>3, <2>3, <2>4 DEF WriteEntry
    <2>5. CASE WriterPush(w)
      <3>1. CASE writer' = [writer EXCEPT ![w] = WriterAt(w, "waiting", 0)]
        BY <1>3, <2>3, <2>5, <3>1 DEF WriterPush
      <3>2. CASE writer' = [writer EXCEPT ![w] = IdleWriter]
        BY <1>2, <1>3, <2>5, <3>2 DEF WriterPush, IdleWriter
      <3>3. QED BY <2>5, <3>1, <3>2 DEF WriterPush
    <2>6. CASE AcquireGate(w) \/ RejectWrite(w)
      <3>1. PICK ph : /\ writer' = [writer EXCEPT ![w] = WriterAt(w, ph, 0)]
                      /\ ph = "writing" => writer[w].epoch = epoch
        BY <2>6 DEF AcquireGate, RejectWrite
      <3>2. /\ WriterAt(w, ph, 0).phase = ph /\ WriterAt(w, ph, 0).seen = 0
            /\ WriterAt(w, ph, 0).row = writer[w].row
            /\ WriterAt(w, ph, 0).epoch = writer[w].epoch
        BY DEF WriterAt
      <3>3. UNCHANGED <<epoch, plc, acked>>
        BY <2>6 DEF AcquireGate, RejectWrite
      <3>4. RootOf(writer[w].row) \in Tags
        BY <1>1, <2>6, GatedRoot DEF AcquireGate, RejectWrite, WriterRowOK
      <3> DEFINE x == WriterAt(w, ph, 0)
      <3>5. x.seen <= plc'[RootOf(x.row)]
        BY <1>3, <3>2, <3>3, <3>4
      <3>6. x.phase = "writing" => x.epoch = epoch
        BY <3>1, <3>2
      <3>7. writer' = [writer EXCEPT ![w] = x]
        BY <3>1
      <3> HIDE DEF x
      <3>8. QED BY <1>2, <1>3, <3>3, <3>5, <3>6, <3>7
    <2>7. ASSUME NEW effect \in BOOLEAN, PlcWrite(w, effect)
          PROVE  WritersOK'
      <3> DEFINE root == RootOf(writer[w].row)
                 x == WriterAt(w, "exit", plc'[root])
      <3>1. /\ writer' = [writer EXCEPT ![w] = x] /\ UNCHANGED <<epoch, acked>>
            /\ plc' = IF effect THEN [plc EXCEPT ![root] = @ + 1] ELSE plc
            /\ writer[w].phase = "writing"
        BY <2>7 DEF PlcWrite
      <3>2. root \in Tags
        BY <1>1, <3>1, GatedRoot DEF WriterRowOK
      <3>3. x.phase = "exit" /\ x.seen = plc'[root] /\ RootOf(x.row) = root
        BY DEF WriterAt
      <3> HIDE DEF root, x
      <3>4. \A t \in Tags : plc'[t] \in Nat /\ plc[t] <= plc'[t]
        BY <1>1, <3>1, <3>2
      <3>5. \A t \in Tags : acked'[t] <= plc'[t]
        BY <1>1, <1>3, <3>1, <3>4
      <3>6. x.seen <= plc'[RootOf(x.row)]
        BY <3>2, <3>3, <3>4
      <3>7. x.phase # "writing"
        BY <3>3
      <3>8. QED BY <1>2, <3>1, <3>4, <3>5, <3>6, <3>7
    <2>8. CASE WriteExit(w)
      <3> DEFINE root == RootOf(writer[w].row)
                 seen == writer[w].seen
      <3>1. /\ writer[w].phase = "exit" /\ UNCHANGED <<epoch, plc>>
            /\ acked' = [acked EXCEPT ![root] = IF seen > @ THEN seen ELSE @]
            /\ writer' = [writer EXCEPT ![w] = WriterAt(w, "exitPush", seen)]
        BY <2>8 DEF WriteExit
      <3>2. seen <= plc[root]
        BY <1>1, <3>1 DEF WritersOK
      <3> HIDE DEF root, seen
      <3>3. \A t \in Tags : acked'[t] <= plc[t]
        BY <1>1, <1>3, <3>1, <3>2
      <3>4. QED BY <2>3, <3>1, <3>3
    <2>9. QED BY <1>4, <2>1, <2>2, <2>4, <2>5, <2>6, <2>7, <2>8 DEF WriterStep
  <1>5. CASE UNCHANGED <<epoch, plc, acked, writer>>
    BY <1>1, <1>5 DEF WritersOK
  <1>6. CASE LoadDriver
    <2>1. \A w \in Writers : writer[w].phase # "writing"
      BY <1>6 DEF LoadDriver, ExclusiveAvailable
    <2>2. QED BY <1>1, <1>6, <2>1 DEF LoadDriver, WritersOK
  <1>7. CASE Tick \/ BumpGeneration \/ UNCHANGED vars
    BY <1>5, <1>7 DEF Tick, BumpGeneration, vars
  <1>8. CASE MainStep /\ ~LoadDriver
    BY <1>5, <1>8 DEF MainStep, SwapUaQueue, TakeReadback, CheckUpdate, FetchCached, ApplyUpdate,
                      DrainDone, StopPollers, JoinPollers, LoadFails, StartPollers
  <1>9. ASSUME NEW l \in Lanes, LaneStep(l)
        PROVE  WritersOK'
    BY <1>5, <1>9 DEF LaneStep, TransitionDemand, SkipInactive, BeginRead, UsePrefetched,
                      FinishRead, Commit, DropSample, LanePush, LaneExit
  <1>10. QED BY <1>4, <1>6, <1>7, <1>8, <1>9 DEF Next

-----------------------------------------------------------------------------

LEMMA InitReadback == Init => ReadbackInv
  <1> SUFFICES ASSUME Init PROVE ReadbackInv
    OBVIOUS
  <1>1. EvidenceInv
    <2>1. GatesCurrent /\ GoodRowHasEvidence
      BY DEF Init, GatesCurrent, GoodRowHasEvidence, LaneAt, NoRow, GatedRows
    <2>2. QED BY <2>1, InitTyped DEF EvidenceInv
  <1>2. SamplesOK
    BY NoSampleOK DEF Init, SamplesOK, LaneAt
  <1>3. RowsOK
    BY GatedRoot DEF Init, RowsOK, NoRow
  <1>4. EpochsOK
    BY DEF Init, EpochsOK, LaneAt, NoSample, NoStamp
  <1>5. WritersOK
    BY DEF Init, WritersOK, IdleWriter
  <1>6. QED BY <1>1, <1>2, <1>3, <1>4, <1>5 DEF ReadbackInv

LEMMA ReadbackInvStep ==
  ASSUME ReadbackInv, [Next]_vars
  PROVE  ReadbackInv'
  <1>1. EvidenceInv'
    BY EvidenceStep DEF ReadbackInv
  <1>2. SamplesOK' /\ RowsOK'
    BY LaneReadback, WriterReadback, MainReadback DEF Next
  <1>3. QED BY <1>1, <1>2, EpochsStep, WritersStep DEF ReadbackInv

LEMMA ReadbackShows == ReadbackInv => NoPreWriteGood
  BY DEF ReadbackInv, RowsOK, Reflects, NoPreWriteGood

(* Once a write has returned, no gated row of the tag is GOOD with a value *)
(* from before it, in every instance: whatever reads and batches were in   *)
(* flight, whoever writes the same tag at the same time, and also when a   *)
(* reload replaces the driver between the write and its return             *)
(* (request_write_readback, main.cpp:12535).                               *)
THEOREM WritesAreReadBack == Spec => []NoPreWriteGood
  <1>1. ReadbackInv /\ [Next]_vars => ReadbackInv'
    BY ReadbackInvStep
  <1>2. QED BY <1>1, InitReadback, ReadbackShows, PTL DEF Spec

-----------------------------------------------------------------------------
(* The table implements TagCache.  A sample that waits to be committed is  *)
(* not older than what any row of its tag shows: no other sample of the    *)
(* tag is committed while it waits, for a tag has one lane, and the lane   *)
(* does not read a tag again before it has used the sample it prefetched.  *)

(* A sample of tag t shows what the PLC has had, and nothing older than    *)
(* the rows of t do.                                                       *)
Ahead(s, t) ==
    s.ok => /\ s.ver <= plc[t]
            /\ \A r \in GatedRows : RootOf(r) = t /\ table[r].good => table[r].ver <= s.ver

SamplesAhead ==
    /\ \A t \in Tags : Ahead(prefetch[t], t)
    /\ \A l \in Lanes : lane[l].phase = "holding" => Ahead(lane[l].sample, lane[l].tag)

(* No row shows what the PLC never had.                                    *)
ShownOK == \A r \in GatedRows : table[r].good => table[r].ver <= plc[RootOf(r)]

(* The tags a lane has a read or a sample of outside logixPrefetch.        *)
AtWork(x) ==
    IF x.phase = "reading" THEN x.batch \cup {x.tag}
    ELSE IF x.phase = "holding" THEN {x.tag} ELSE {}

OneSample == \A l \in Lanes : \A t \in AtWork(lane[l]) : LaneOf[t] = l /\ prefetch[t] = NoSample

FreshInv == ReadbackInv /\ SamplesAhead /\ ShownOK /\ OneSample

LEMMA FreshTypes ==
  ASSUME FreshInv
  PROVE  /\ plc \in [Tags -> Nat] /\ acked \in [Tags -> Nat] /\ now \in Nat
         /\ lane \in [Lanes -> LaneState] /\ prefetch \in [Tags -> Sample]
         /\ table \in [Rows -> Snapshot \cup {NoRow}]
         /\ \A l \in Lanes : AtWork(lane[l]) \subseteq Tags
  <1>1. TypeOK /\ LaneTagOK
    BY DEF FreshInv, ReadbackInv, EvidenceInv, Structure
  <1>2. lane \in [Lanes -> LaneState]
    BY <1>1 DEF TypeOK
  <1>3. \A l \in Lanes : AtWork(lane[l]) \subseteq Tags
    BY <1>1, <1>2 DEF AtWork, LaneTagOK, LaneState
  <1>4. QED BY <1>1, <1>3 DEF TypeOK

(* A sample stays ahead while the PLC moves on and rows are withdrawn.     *)
LEMMA AheadKept ==
  ASSUME FreshInv, \A t \in Tags : plc'[t] \in Nat /\ plc[t] <= plc'[t],
         \A r \in GatedRows : table'[r].good => table'[r] = table[r]
  PROVE  /\ ShownOK'
         /\ \A s \in Sample, t \in Tags : Ahead(s, t) => Ahead(s, t)'
  <1>1. ASSUME NEW r \in GatedRows, table'[r].good
        PROVE  table'[r].ver <= plc'[RootOf(r)]
    <2>1. table'[r] = table[r] /\ r \in Rows /\ RootOf(r) \in Tags
      BY <1>1, GatedRoot
    <2>2. table[r].ver \in Nat /\ plc[RootOf(r)] \in Nat /\ table[r].ver <= plc[RootOf(r)]
      BY <1>1, <2>1, FreshTypes DEF FreshInv, ShownOK, Snapshot, NoRow
    <2>3. QED BY <2>1, <2>2
  <1>2. ASSUME NEW s \in Sample, NEW t \in Tags, Ahead(s, t)
        PROVE  Ahead(s, t)'
    <2>1. s.ver \in Nat /\ plc[t] \in Nat
      BY FreshTypes DEF Sample
    <2>2. s.ok => s.ver <= plc'[t]
      BY <1>2, <2>1 DEF Ahead
    <2>3. \A r \in GatedRows : s.ok /\ RootOf(r) = t /\ table'[r].good => table'[r].ver <= s.ver
      BY <1>2 DEF Ahead
    <2>4. QED BY <2>2, <2>3 DEF Ahead
  <1>3. QED BY <1>1, <1>2 DEF ShownOK

(* No step but the end of a read and a commit does more than withdraw      *)
(* rows, drop samples and take prefetched ones.                            *)
LEMMA KeepFresh ==
  ASSUME FreshInv, \A t \in Tags : plc'[t] \in Nat /\ plc[t] <= plc'[t],
         \A r \in GatedRows : table'[r].good => table'[r] = table[r],
         \A t \in Tags : prefetch'[t] \in {prefetch[t], NoSample},
         \A l \in Lanes : lane'[l].phase = "holding" =>
             \/ lane[l].phase = "holding" /\ lane'[l] = lane[l]
             \/ lane'[l].tag \in Tags /\ lane'[l].sample = prefetch[lane'[l].tag],
         \A l \in Lanes : \A t \in AtWork(lane'[l]) :
             \/ t \in AtWork(lane[l])
             \/ LaneOf[t] = l /\ prefetch'[t] = NoSample
  PROVE  SamplesAhead' /\ ShownOK' /\ OneSample'
  <1>1. \A s \in Sample, t \in Tags : Ahead(s, t) => Ahead(s, t)'
    BY AheadKept
  <1>2. ASSUME NEW t \in Tags
        PROVE  Ahead(prefetch[t], t)'
    <2>1. CASE prefetch'[t] = prefetch[t]
      <3>1. Ahead(prefetch[t], t) /\ prefetch[t] \in Sample
        BY FreshTypes DEF FreshInv, SamplesAhead
      <3> DEFINE s == prefetch[t]
      <3>2. s \in Sample /\ Ahead(s, t) /\ prefetch'[t] = s
        BY <2>1, <3>1
      <3>3. QED BY <1>1, <2>1, <3>1 DEF Ahead
    <2>2. CASE prefetch'[t] = NoSample
      BY <2>2 DEF Ahead, NoSample
    <2>3. QED BY <2>1, <2>2
  <1>3. ASSUME NEW l \in Lanes, lane'[l].phase = "holding"
        PROVE  Ahead(lane[l].sample, lane[l].tag)'
    <2>1. CASE lane[l].phase = "holding" /\ lane'[l] = lane[l]
      <3>1. Ahead(lane[l].sample, lane[l].tag)
        BY <2>1 DEF FreshInv, SamplesAhead
      <3>2. lane[l].sample \in Sample /\ lane[l].tag \in Tags
        BY <2>1, FreshTypes DEF LaneState, AtWork
      <3>3. QED BY <1>1, <2>1, <3>1, <3>2 DEF Ahead
    <2>2. CASE lane'[l].tag \in Tags /\ lane'[l].sample = prefetch[lane'[l].tag]
      <3> DEFINE t == lane'[l].tag
      <3>1. t \in Tags /\ Ahead(prefetch[t], t) /\ prefetch[t] \in Sample
        BY <2>2, FreshTypes DEF FreshInv, SamplesAhead
      <3>2. QED BY <1>1, <2>2, <3>1 DEF Ahead
    <2>3. QED BY <1>3, <2>1, <2>2
  <1>4. ASSUME NEW l \in Lanes, NEW t \in AtWork(lane'[l])
        PROVE  LaneOf[t] = l /\ prefetch'[t] = NoSample
    <2>1. CASE t \in AtWork(lane[l])
      <3>1. t \in Tags /\ LaneOf[t] = l /\ prefetch[t] = NoSample
        BY <2>1, FreshTypes DEF FreshInv, OneSample
      <3>2. QED BY <3>1
    <2>2. QED BY <1>4, <2>1
  <1>5. OneSample'
    BY <1>4 DEF OneSample, AtWork
  <1>6. SamplesAhead'
    BY <1>2, <1>3 DEF SamplesAhead
  <1>7. QED BY <1>5, <1>6, AheadKept

(* What is read is what the PLC has; nothing shown is newer.               *)
LEMMA FinishReadFresh ==
  ASSUME FreshInv, NEW l \in Lanes, NEW oks, FinishRead(l, oks)
  PROVE  SamplesAhead' /\ ShownOK' /\ OneSample'
  <1> USE DEF plcVars, cacheVars, laneVars, writeVars, mainVars
  <1> DEFINE t == lane[l].tag
  <1>1. /\ lane[l].phase = "reading" /\ UNCHANGED <<plc, table>>
        /\ lane' = [lane EXCEPT ![l] = LaneHolding(t, ReadResult(l, t, t \in oks), lane[l].epoch)]
        /\ \A x \in Tags : prefetch'[x] = IF x \in lane[l].batch \ {t}
                                          THEN ReadResult(l, x, x \in oks) ELSE prefetch[x]
    BY DEF FinishRead
  <1>2. t \in Tags /\ t \in AtWork(lane[l]) /\ lane[l].batch \subseteq AtWork(lane[l])
    BY <1>1, FreshTypes DEF AtWork
  <1>3. lane'[l] = LaneHolding(t, ReadResult(l, t, t \in oks), lane[l].epoch)
    BY <1>1, FreshTypes
  <1>4. \A k \in Lanes : k # l => lane'[k] = lane[k]
    BY <1>1, FreshTypes
  <1> HIDE DEF t
  <1>5. ASSUME NEW x \in Tags
        PROVE  Ahead(ReadResult(l, x, x \in oks), x)
    <2>1. \A r \in GatedRows : RootOf(r) = x /\ table[r].good => table[r].ver <= plc[x]
      BY DEF FreshInv, ShownOK
    <2>2. plc[x] \in Nat
      BY FreshTypes
    <2>3. ReadResult(l, x, x \in oks).ok => ReadResult(l, x, x \in oks).ver = plc[x]
      BY DEF ReadResult
    <2>4. QED BY <2>1, <2>2, <2>3 DEF Ahead
  <1>6. \A s, x : Ahead(s, x) => Ahead(s, x)'
    BY <1>1 DEF Ahead
  <1>7. \A x \in Tags : Ahead(prefetch[x], x)'
    <2>1. \A x \in Tags : Ahead(prefetch[x], x)
      BY DEF FreshInv, SamplesAhead
    <2>2. QED BY <1>1, <1>5, <2>1 DEF Ahead
  <1>8. ASSUME NEW k \in Lanes, lane'[k].phase = "holding"
        PROVE  Ahead(lane[k].sample, lane[k].tag)'
    <2>1. CASE k = l
      <3>1. lane'[k].sample = ReadResult(l, t, t \in oks) /\ lane'[k].tag = t
        BY <1>3, <2>1 DEF LaneHolding
      <3>2. Ahead(ReadResult(l, t, t \in oks), t)
        BY <1>2, <1>5
      <3>3. QED BY <1>1, <3>1, <3>2 DEF Ahead
    <2>2. CASE k # l
      <3>1. Ahead(lane[k].sample, lane[k].tag) /\ lane'[k] = lane[k]
        BY <1>4, <1>8, <2>2 DEF FreshInv, SamplesAhead
      <3>2. QED BY <1>1, <3>1 DEF Ahead
    <2>3. QED BY <2>1, <2>2
  <1>9. ASSUME NEW k \in Lanes, NEW x \in AtWork(lane'[k])
        PROVE  LaneOf[x] = k /\ prefetch'[x] = NoSample
    <2>1. CASE k = l
      <3>1. x = t
        BY <1>3, <1>9, <2>1 DEF AtWork, LaneHolding
      <3>2. prefetch'[x] = prefetch[x]
        BY <1>1, <1>2, <3>1
      <3>3. QED BY <1>2, <2>1, <3>1, <3>2 DEF FreshInv, OneSample
    <2>2. CASE k # l
      <3>1. x \in AtWork(lane[k]) /\ x \in Tags
        BY <1>4, <1>9, <2>2, FreshTypes
      <3>2. LaneOf[x] = k /\ prefetch[x] = NoSample
        BY <3>1 DEF FreshInv, OneSample
      <3>3. x \notin lane[l].batch
        BY <1>2, <2>2, <3>2 DEF FreshInv, OneSample
      <3>4. QED BY <1>1, <3>1, <3>2, <3>3
    <2>3. QED BY <2>1, <2>2
  <1>10. ShownOK'
    BY <1>1 DEF FreshInv, ShownOK
  <1>11. QED BY <1>7, <1>8, <1>9, <1>10 DEF SamplesAhead, OneSample, AtWork

(* A committed sample is not older than any row it replaces, and no other  *)
(* sample of its tag is waiting.                                           *)
LEMMA CommitFresh ==
  ASSUME FreshInv, NEW l \in Lanes, NEW undecoded, Commit(l, undecoded)
  PROVE  /\ SamplesAhead' /\ ShownOK' /\ OneSample'
         /\ lane[l].tag \in Tags /\ lane[l].sample \in Sample
         /\ \A r \in GatedRows :
               IF RootOf(r) = lane[l].tag
               THEN /\ table[r].good /\ lane[l].sample.ok => table[r].ver <= lane[l].sample.ver
                    /\ table'[r].good => lane[l].sample.ok /\ table'[r].ver = lane[l].sample.ver
               ELSE table'[r] = table[r]
  <1> USE DEF plcVars, cacheVars, laneVars, writeVars, mainVars
  <1> DEFINE t == lane[l].tag
             s == lane[l].sample
  <1>1. /\ lane[l].phase = "holding" /\ UNCHANGED <<plc, prefetch>>
        /\ lane' = [lane EXCEPT ![l] = LaneAt("pushing", lane[l].epoch)]
        /\ \A r \in Rows : table'[r] = IF RootOf(r) = t THEN CommittedRow(t, s, r, undecoded)
                                                        ELSE table[r]
    BY DEF Commit
  <1>2. /\ t \in Tags /\ t \in AtWork(lane[l]) /\ s \in Sample
        /\ TypeOK /\ \A r \in GatedRows : gates[r].present
    BY <1>1, FreshTypes DEF AtWork, LaneState, FreshInv, ReadbackInv, EvidenceInv, GatesCurrent, Structure, LanesJoined
  <1>3. Ahead(s, t)
    BY <1>1 DEF FreshInv, SamplesAhead
  <1>4. /\ lane'[l] = LaneAt("pushing", lane[l].epoch)
        /\ \A k \in Lanes : k # l => lane'[k] = lane[k]
    BY <1>1, FreshTypes
  <1> HIDE DEF t, s
  <1>5. ASSUME NEW r \in GatedRows
        PROVE  IF RootOf(r) = t THEN /\ table[r].good /\ s.ok => table[r].ver <= s.ver
                                     /\ table'[r].good => s.ok /\ table'[r].ver = s.ver
                                ELSE table'[r] = table[r]
    <2>1. r \in Rows
      BY GatedRoot
    <2>2. CASE RootOf(r) = t
      BY <1>1, <1>2, <1>3, <2>1, <2>2, CommittedGood DEF Ahead
    <2>3. CASE RootOf(r) # t
      BY <1>1, <2>1, <2>3
    <2>4. QED BY <2>2, <2>3
  <1>6. ShownOK'
    <2>1. \A r \in GatedRows : table'[r].good => table'[r].ver <= plc[RootOf(r)]
      BY <1>3, <1>5 DEF FreshInv, ShownOK, Ahead
    <2>2. QED BY <1>1, <2>1 DEF ShownOK
  <1>7. ASSUME NEW x \in Tags, NEW u, Ahead(u, x), x # t
        PROVE  Ahead(u, x)'
    <2>1. \A r \in GatedRows : RootOf(r) = x => table'[r] = table[r]
      BY <1>5, <1>7
    <2>2. QED BY <1>1, <1>7, <2>1 DEF Ahead
  <1>8. \A x \in Tags : Ahead(prefetch[x], x)'
    <2>1. prefetch[t] = NoSample
      BY <1>2 DEF FreshInv, OneSample
    <2>2. ASSUME NEW x \in Tags, x = t
          PROVE  Ahead(prefetch[x], x)'
      BY <1>1, <2>1, <2>2 DEF Ahead, NoSample
    <2>3. ASSUME NEW x \in Tags, x # t
          PROVE  Ahead(prefetch[x], x)'
      <3>1. Ahead(prefetch[x], x)
        BY DEF FreshInv, SamplesAhead
      <3>2. \A r \in GatedRows : RootOf(r) = x => table'[r] = table[r]
        BY <1>5, <2>3
      <3>3. QED BY <1>1, <3>1, <3>2 DEF Ahead
    <2>4. QED BY <2>2, <2>3
  <1>9. ASSUME NEW k \in Lanes, lane'[k].phase = "holding"
        PROVE  Ahead(lane[k].sample, lane[k].tag)'
    <2>1. k # l
      BY <1>4, <1>9 DEF LaneAt
    <2>2. lane'[k] = lane[k] /\ Ahead(lane[k].sample, lane[k].tag)
      BY <1>4, <1>9, <2>1 DEF FreshInv, SamplesAhead
    <2>3. lane[k].tag \in AtWork(lane[k])
      BY <1>9, <2>2 DEF AtWork
    <2>4. lane[k].tag # t
      BY <1>2, <2>1, <2>3 DEF FreshInv, OneSample
    <2>5. \A r \in GatedRows : RootOf(r) = lane[k].tag => table'[r] = table[r]
      BY <1>5, <2>4
    <2>6. QED BY <1>1, <2>2, <2>5 DEF Ahead
  <1>10. ASSUME NEW k \in Lanes, NEW x \in AtWork(lane'[k])
         PROVE  LaneOf[x] = k /\ prefetch'[x] = NoSample
    <2>1. lane'[k] = lane[k]
      BY <1>4, <1>10 DEF AtWork, LaneAt
    <2>2. QED BY <1>1, <1>10, <2>1 DEF FreshInv, OneSample
  <1>11. SamplesAhead'
    BY <1>8, <1>9 DEF SamplesAhead
  <1>12. OneSample'
    BY <1>10 DEF OneSample, AtWork
  <1>13. QED BY <1>2, <1>5, <1>6, <1>11, <1>12 DEF t, s

(* What the other steps do to rows, samples and lanes.                     *)
RowsWithdrawn == \A r \in GatedRows : table'[r].good => table'[r] = table[r]

SamplesTaken ==
    /\ \A t \in Tags : prefetch'[t] \in {prefetch[t], NoSample}
    /\ \A l \in Lanes : lane'[l].phase = "holding" =>
          \/ lane[l].phase = "holding" /\ lane'[l] = lane[l]
          \/ lane'[l].tag \in Tags /\ lane'[l].sample = prefetch[lane'[l].tag]
    /\ \A l \in Lanes : \A t \in AtWork(lane'[l]) :
          \/ t \in AtWork(lane[l])
          \/ LaneOf[t] = l /\ prefetch'[t] = NoSample

(* A lane goes on without a sample: nothing is taken.                      *)
LEMMA LaneMoves ==
  ASSUME FreshInv, NEW l \in Lanes, NEW x, lane' = [lane EXCEPT ![l] = x],
         x.phase \notin {"reading", "holding"},
         \A t \in Tags : prefetch'[t] \in {prefetch[t], NoSample}
  PROVE  SamplesTaken
  <1>1. lane'[l] = x /\ \A k \in Lanes : k # l => lane'[k] = lane[k]
    BY FreshTypes
  <1>2. QED BY <1>1 DEF SamplesTaken, AtWork

LEMMA LaneWithdraws ==
  ASSUME FreshInv, NEW l \in Lanes, LaneStep(l),
         ~\E oks \in SUBSET Tags : FinishRead(l, oks),
         ~\E undecoded \in SUBSET Rows : Commit(l, undecoded)
  PROVE  RowsWithdrawn /\ SamplesTaken /\ UNCHANGED <<plc, acked>>
  <1> USE DEF plcVars, cacheVars, laneVars, writeVars, mainVars
  <1>1. /\ TypeOK /\ lane \in [Lanes -> LaneState] /\ prefetch \in [Tags -> Sample]
    BY FreshTypes DEF FreshInv, ReadbackInv, EvidenceInv
  <1>2. ASSUME table' = table
        PROVE  RowsWithdrawn
    BY <1>2 DEF RowsWithdrawn
  <1>3. ASSUME NEW t \in Tags, NEW active \in BOOLEAN, TransitionDemand(l, t, active)
        PROVE  RowsWithdrawn /\ SamplesTaken /\ UNCHANGED <<plc, acked>>
    <2> DEFINE rows == IF lane[l].epoch = epoch THEN RowsOf(t) \cap GatedRows ELSE {}
    <2>1. rows \in SUBSET Rows /\ Transition(rows, active, FALSE)
      BY <1>3 DEF TransitionDemand, RowsOf
    <2> HIDE DEF rows
    <2>2. RowsWithdrawn
      BY <1>1, <2>1, TransitionTimes, GatedRoot DEF RowsWithdrawn
    <2>3. /\ lane' = [lane EXCEPT ![l] = LaneAt("pushing", lane[l].epoch)]
          /\ \A x \in Tags : prefetch'[x] \in {prefetch[x], NoSample}
      BY <1>1, <1>3 DEF TransitionDemand
    <2>4. LaneAt("pushing", lane[l].epoch).phase = "pushing"
      BY DEF LaneAt
    <2>5. QED BY <1>3, <2>2, <2>3, <2>4, LaneMoves DEF TransitionDemand
  <1>4. ASSUME NEW t \in Tags, SkipInactive(l, t)
        PROVE  RowsWithdrawn /\ SamplesTaken /\ UNCHANGED <<plc, acked>>
    <2>1. lane' = lane /\ \A x \in Tags : prefetch'[x] \in {prefetch[x], NoSample}
      BY <1>1, <1>4 DEF SkipInactive
    <2>2. SamplesTaken
      BY <2>1 DEF SamplesTaken
    <2>3. QED BY <1>2, <1>4, <2>2 DEF SkipInactive
  <1>5. ASSUME NEW t \in Tags, NEW others \in SUBSET Tags, BeginRead(l, t, others)
        PROVE  RowsWithdrawn /\ SamplesTaken /\ UNCHANGED <<plc, acked>>
    <2>1. /\ lane'[l].phase = "reading" /\ lane'[l].tag = t /\ lane'[l].batch = others \cup {t}
          /\ \A k \in Lanes : k # l => lane'[k] = lane[k]
          /\ prefetch' = prefetch
      BY <1>1, <1>5 DEF BeginRead
    <2>2. \A x \in others \cup {t} : LaneOf[x] = l /\ prefetch[x] = NoSample
      BY <1>5 DEF BeginRead
    <2>3. SamplesTaken
      BY <2>1, <2>2 DEF SamplesTaken, AtWork
    <2>4. QED BY <1>2, <1>5, <2>3 DEF BeginRead
  <1>6. ASSUME NEW t \in Tags, UsePrefetched(l, t)
        PROVE  RowsWithdrawn /\ SamplesTaken /\ UNCHANGED <<plc, acked>>
    <2>1. /\ lane' = [lane EXCEPT ![l] = LaneHolding(t, prefetch[t], lane[l].epoch)]
          /\ prefetch' = [prefetch EXCEPT ![t] = NoSample] /\ LaneOf[t] = l
      BY <1>6 DEF UsePrefetched
    <2>2. /\ lane'[l].phase = "holding" /\ lane'[l].tag = t /\ lane'[l].sample = prefetch[t]
          /\ \A k \in Lanes : k # l => lane'[k] = lane[k]
      BY <1>1, <2>1 DEF LaneHolding
    <2>3. prefetch'[t] = NoSample /\ \A x \in Tags : prefetch'[x] \in {prefetch[x], NoSample}
      BY <1>1, <2>1
    <2>4. SamplesTaken
      BY <2>1, <2>2, <2>3 DEF SamplesTaken, AtWork
    <2>5. QED BY <1>2, <1>6, <2>4 DEF UsePrefetched
  <1>7. CASE DropSample(l) \/ LanePush(l) \/ LaneExit(l)
    <2>1. PICK ph : /\ lane' = [lane EXCEPT ![l] = LaneAt(ph, lane[l].epoch)]
                    /\ ph \notin {"reading", "holding"}
      BY <1>7 DEF DropSample, LanePush, LaneExit
    <2>2. LaneAt(ph, lane[l].epoch).phase = ph
      BY DEF LaneAt
    <2>3. UNCHANGED <<prefetch, table, plc, acked>>
      BY <1>7 DEF DropSample, LanePush, LaneExit
    <2>4. QED BY <1>2, <2>1, <2>2, <2>3, LaneMoves
  <1>8. QED BY <1>3, <1>4, <1>5, <1>6, <1>7 DEF LaneStep

LEMMA OthersWithdraw ==
  ASSUME FreshInv,
         \/ Tick \/ BumpGeneration \/ UNCHANGED vars \/ MainStep
         \/ \E w \in Writers : WriterStep(w)
  PROVE  RowsWithdrawn /\ SamplesTaken
  <1> USE DEF plcVars, cacheVars, laneVars, writeVars, mainVars
  <1>1. TypeOK /\ WriterRowOK
    BY DEF FreshInv, ReadbackInv, EvidenceInv, Structure
  <1>2. ASSUME UNCHANGED <<lane, prefetch>>
        PROVE  SamplesTaken
    BY <1>2 DEF SamplesTaken
  <1>3. ASSUME NEW w \in Writers, WriteEntry(w) \/ WriteExit(w)
        PROVE  RowsWithdrawn /\ SamplesTaken
    <2>1. UNCHANGED <<lane, prefetch>> /\ writer[w].phase # "idle" /\ Invalidate(w)
      BY <1>3 DEF WriteEntry, WriteExit
    <2>2. QED BY <1>1, <1>2, <2>1, InvalidateTimes DEF RowsWithdrawn
  <1>4. CASE LoadDriver
    <2>1. RowsWithdrawn
      BY <1>4, GatedRoot DEF LoadDriver, RowsWithdrawn, NoRow
    <2>2. QED BY <1>2, <1>4, <2>1 DEF LoadDriver
  <1>5. CASE StartPollers
    <2>1. GatedRows \in SUBSET Rows /\ Transition(GatedRows, TRUE, TRUE)
      BY <1>5, GatedRoot DEF StartPollers
    <2>2. RowsWithdrawn
      BY <1>1, <2>1, TransitionTimes, GatedRoot DEF RowsWithdrawn
    <2>3. /\ \A t \in Tags : prefetch'[t] = NoSample
          /\ \A l \in Lanes : lane'[l].phase = "idle"
      BY <1>5 DEF StartPollers, LaneAt
    <2>4. SamplesTaken
      BY <2>3 DEF SamplesTaken, AtWork
    <2>5. QED BY <2>2, <2>4
  <1>6. CASE UNCHANGED <<table, lane, prefetch>>
    BY <1>2, <1>6 DEF RowsWithdrawn
  <1>7. ASSUME NEW w \in Writers, WriterStep(w), ~WriteEntry(w), ~WriteExit(w)
        PROVE  UNCHANGED <<table, lane, prefetch>>
    BY <1>7 DEF WriterStep, BeginWrite, BeginUaWrite, RefuseWrite, WriterPush, AcquireGate,
                RejectWrite, PlcWrite
  <1>8. CASE Tick \/ BumpGeneration \/ UNCHANGED vars \/ (MainStep /\ ~LoadDriver /\ ~StartPollers)
    BY <1>6, <1>8 DEF Tick, BumpGeneration, vars, MainStep, SwapUaQueue, TakeReadback, CheckUpdate,
                      FetchCached, ApplyUpdate, DrainDone, StopPollers, JoinPollers, LoadFails
  <1>9. QED BY <1>3, <1>4, <1>5, <1>6, <1>7, <1>8

LEMMA PlcGrows ==
  ASSUME FreshInv, [Next]_vars
  PROVE  \A t \in Tags : plc'[t] \in Nat /\ plc[t] <= plc'[t]
  <1> USE DEF plcVars, cacheVars, laneVars, writeVars, mainVars
  <1>1. plc \in [Tags -> Nat] /\ WriterRowOK
    BY FreshTypes DEF FreshInv, ReadbackInv, EvidenceInv, Structure
  <1>2. CASE plc' = plc
    BY <1>1, <1>2
  <1>3. ASSUME NEW w \in Writers, NEW effect \in BOOLEAN, PlcWrite(w, effect)
        PROVE  \A t \in Tags : plc'[t] \in Nat /\ plc[t] <= plc'[t]
    BY <1>1, <1>3 DEF PlcWrite
  <1>4. ASSUME NEW w \in Writers, WriterStep(w)
        PROVE  \A t \in Tags : plc'[t] \in Nat /\ plc[t] <= plc'[t]
    <2>1. CASE \E effect \in BOOLEAN : PlcWrite(w, effect)
      BY <1>3, <2>1
    <2>2. CASE ~\E effect \in BOOLEAN : PlcWrite(w, effect)
      BY <1>2, <1>4, <2>2 DEF WriterStep, BeginWrite, BeginUaWrite, RefuseWrite, WriteEntry,
                              WriterPush, AcquireGate, RejectWrite, WriteExit
    <2>3. QED BY <2>1, <2>2
  <1>5. ASSUME NEW l \in Lanes, LaneStep(l)
        PROVE  plc' = plc
    BY <1>5 DEF LaneStep, TransitionDemand, SkipInactive, BeginRead, UsePrefetched,
                FinishRead, Commit, DropSample, LanePush, LaneExit
  <1>6. CASE Tick \/ BumpGeneration \/ UNCHANGED vars \/ MainStep
    BY <1>2, <1>6 DEF Tick, BumpGeneration, vars, MainStep, SwapUaQueue, TakeReadback, CheckUpdate,
                      FetchCached, ApplyUpdate, DrainDone, StopPollers, JoinPollers, LoadDriver,
                      LoadFails, StartPollers
  <1>7. QED BY <1>2, <1>4, <1>5, <1>6 DEF Next

LEMMA FreshStep ==
  ASSUME FreshInv, [Next]_vars
  PROVE  FreshInv'
  <1>1. ReadbackInv'
    BY ReadbackInvStep DEF FreshInv
  <1>2. ASSUME RowsWithdrawn, SamplesTaken
        PROVE  SamplesAhead' /\ ShownOK' /\ OneSample'
    BY <1>2, PlcGrows, KeepFresh DEF RowsWithdrawn, SamplesTaken
  <1>3. ASSUME NEW l \in Lanes, LaneStep(l)
        PROVE  SamplesAhead' /\ ShownOK' /\ OneSample'
    BY <1>2, <1>3, FinishReadFresh, CommitFresh, LaneWithdraws
  <1>4. ASSUME \/ Tick \/ BumpGeneration \/ UNCHANGED vars \/ MainStep
               \/ \E w \in Writers : WriterStep(w)
        PROVE  SamplesAhead' /\ ShownOK' /\ OneSample'
    <2>1. RowsWithdrawn /\ SamplesTaken
      BY <1>4, OthersWithdraw
    <2>2. QED BY <1>2, <2>1
  <1>5. SamplesAhead' /\ ShownOK' /\ OneSample'
    BY <1>3, <1>4 DEF Next
  <1>6. QED BY <1>1, <1>5 DEF FreshInv

LEMMA InitFresh == Init => FreshInv
  <1> SUFFICES ASSUME Init PROVE FreshInv
    OBVIOUS
  <1>1. SamplesAhead /\ OneSample
    BY DEF Init, SamplesAhead, OneSample, Ahead, NoSample, LaneAt, AtWork
  <1>2. ShownOK
    BY GatedRoot DEF Init, ShownOK, NoRow
  <1>3. QED BY <1>1, <1>2, InitReadback DEF FreshInv

-----------------------------------------------------------------------------
(* The steps as steps of TagCache.                                         *)

Shows(r) == IF table[r].good THEN {table[r].ver} ELSE {}

LEMMA WithdrawnRows ==
  ASSUME RowsWithdrawn
  PROVE  Cache!Withdrawn
  <1>1. \A r \in GatedRows : Shows(r)' \in {Shows(r), {}}
    BY DEF RowsWithdrawn, Shows
  <1>2. QED BY <1>1 DEF Cache!Withdrawn, Shows

LEMMA CommitConfirms ==
  ASSUME FreshInv, FreshInv', NEW l \in Lanes, NEW undecoded, Commit(l, undecoded)
  PROVE  Cache!Next
  <1> DEFINE t == lane[l].tag
             v == lane[l].sample.ver
  <1>1. UNCHANGED <<plc, acked>> /\ t \in Tags /\ v \in Nat
    BY CommitFresh DEF Commit, plcVars, writeVars, Sample
  <1>2. plc[t] \in Nat /\ acked[t] \in Nat
    BY <1>1, FreshTypes
  <1>3. \A r \in GatedRows :
           IF RootOf(r) = t
           THEN /\ table[r].good /\ lane[l].sample.ok => table[r].ver <= v
                /\ table'[r].good => lane[l].sample.ok /\ table'[r].ver = v
           ELSE table'[r] = table[r]
    BY CommitFresh
  <1> HIDE DEF t, v
  <1>4. CASE \E r \in GatedRows : RootOf(r) = t /\ table'[r].good
    <2>1. PICK r \in GatedRows : RootOf(r) = t /\ table'[r].good
      BY <1>4
    <2>2. table'[r].ver = v /\ lane[l].sample.ok
      BY <1>3, <2>1
    <2>3. v <= plc[t]
      BY <1>1, <2>1, <2>2 DEF FreshInv, ShownOK
    <2>4. acked[t] <= v
      <3>1. table'[r].ver >= acked'[RootOf(r)]
        BY <2>1 DEF FreshInv, ReadbackInv, RowsOK, Reflects
      <3>2. QED BY <1>1, <1>2, <2>1, <2>2, <3>1
    <2>5. v \in acked[t] .. plc[t] /\ v \in 0 .. plc[t]
      BY <1>1, <1>2, <2>3, <2>4
    <2>6. \A x \in GatedRows : IF RootOf(x) = t
             THEN Shows(x)' \in {{v}, {}} /\ \A u \in Shows(x) : u <= v
             ELSE Shows(x)' = Shows(x)
      BY <1>3, <2>2 DEF Shows
    <2>7. PICK a \in Tags, b \in Nat : a = t /\ b = v /\ b \in 0 .. plc[a]
      BY <1>1, <2>5
    <2>8. Cache!Confirm(a, b)
      BY <1>1, <2>5, <2>6, <2>7 DEF Cache!Confirm, Shows
    <2>9. QED BY <2>7, <2>8 DEF Cache!Next
  <1>5. CASE \A r \in GatedRows : RootOf(r) = t => ~table'[r].good
    <2>1. RowsWithdrawn
      BY <1>3, <1>5 DEF RowsWithdrawn
    <2>2. QED BY <1>1, <2>1, WithdrawnRows DEF Cache!Next, Cache!Withdraw
  <1>6. QED BY <1>4, <1>5

LEMMA ExitReturns ==
  ASSUME FreshInv, FreshInv', NEW w \in Writers, WriteExit(w)
  PROVE  Cache!Next
  <1> DEFINE t == RootOf(writer[w].row)
             v == writer[w].seen
  <1>1. /\ UNCHANGED plc /\ writer[w].phase = "exit"
        /\ acked' = [acked EXCEPT ![t] = IF v > @ THEN v ELSE @]
    BY DEF WriteExit, plcVars
  <1>2. /\ t \in Tags /\ v \in Nat /\ v <= plc[t] /\ plc[t] \in Nat /\ acked \in [Tags -> Nat]
    BY <1>1, FreshTypes, GatedRoot
       DEF FreshInv, ReadbackInv, WritersOK, EvidenceInv, Structure, WriterRowOK, TypeOK, WriterState
  <1> HIDE DEF t, v
  <1>3. Cache!Withdrawn
    BY OthersWithdraw, WithdrawnRows DEF WriterStep
  <1>4. ASSUME NEW r \in GatedRows, RootOf(r) = t, NEW u \in Shows(r)'
        PROVE  u >= v
    <2>1. table'[r].good /\ u = table'[r].ver
      BY <1>4 DEF Shows
    <2>2. u >= acked'[t]
      BY <1>4, <2>1 DEF FreshInv, ReadbackInv, RowsOK, Reflects
    <2>3. acked'[t] >= v /\ acked'[t] \in Nat
      BY <1>1, <1>2
    <2>4. u \in Nat
      <3>1. TypeOK'
        BY DEF FreshInv, ReadbackInv, EvidenceInv
      <3>2. table'[r] \in Snapshot \cup {NoRow}
        BY <3>1, GatedRoot DEF TypeOK
      <3>3. QED BY <2>1, <3>2 DEF Snapshot, NoRow
    <2>5. QED BY <1>2, <2>2, <2>3, <2>4
  <1>5. PICK a \in Tags, b \in Nat : a = t /\ b = v /\ b \in 0 .. plc[a]
    BY <1>2
  <1>6. Cache!Return(a, b)
    BY <1>1, <1>2, <1>3, <1>4, <1>5 DEF Cache!Return, Shows
  <1>7. QED BY <1>5, <1>6 DEF Cache!Next

LEMMA TableStep ==
  ASSUME FreshInv, FreshInv', [Next]_vars
  PROVE  [Cache!Next]_Cache!vars
  <1> USE DEF plcVars, cacheVars, laneVars, writeVars, mainVars
  <1>1. ASSUME RowsWithdrawn, UNCHANGED <<plc, acked>>
        PROVE  Cache!Next
    BY <1>1, WithdrawnRows DEF Cache!Next, Cache!Withdraw
  <1>2. ASSUME UNCHANGED <<plc, acked, table>>
        PROVE  UNCHANGED Cache!vars
    BY <1>2 DEF Cache!vars
  <1>3. ASSUME NEW l \in Lanes, LaneStep(l)
        PROVE  [Cache!Next]_Cache!vars
    <2>1. ASSUME NEW oks \in SUBSET Tags, FinishRead(l, oks)
          PROVE  UNCHANGED <<plc, acked, table>>
      BY <2>1 DEF FinishRead
    <2>2. QED BY <1>1, <1>2, <1>3, <2>1, CommitConfirms, LaneWithdraws
  <1>4. ASSUME NEW w \in Writers, WriterStep(w)
        PROVE  [Cache!Next]_Cache!vars
    <2>1. ASSUME NEW effect \in BOOLEAN, PlcWrite(w, effect)
          PROVE  [Cache!Next]_Cache!vars
      <3>1. RootOf(writer[w].row) \in Tags
        BY <2>1, GatedRoot DEF PlcWrite, FreshInv, ReadbackInv, EvidenceInv, Structure, WriterRowOK
      <3>2. UNCHANGED <<acked, table>>
        BY <2>1 DEF PlcWrite
      <3>3. CASE effect
        BY <2>1, <3>1, <3>2, <3>3 DEF PlcWrite, Cache!Next, Cache!Write
      <3>4. CASE ~effect
        BY <1>2, <2>1, <3>2, <3>4 DEF PlcWrite
      <3>5. QED BY <3>3, <3>4
    <2>2. CASE /\ ~\E effect \in BOOLEAN : PlcWrite(w, effect)
               /\ ~WriteExit(w)
      <3>1. UNCHANGED <<plc, acked>>
        BY <1>4, <2>2 DEF WriterStep, BeginWrite, BeginUaWrite, RefuseWrite, WriteEntry,
                          WriterPush, AcquireGate, RejectWrite
      <3>2. QED BY <1>1, <1>4, <3>1, OthersWithdraw
    <2>3. QED BY <2>1, <2>2, ExitReturns
  <1>5. CASE Tick \/ BumpGeneration \/ UNCHANGED vars \/ MainStep
    <2>1. UNCHANGED <<plc, acked>>
      BY <1>5 DEF Tick, BumpGeneration, vars, MainStep, SwapUaQueue, TakeReadback, CheckUpdate,
                  FetchCached, ApplyUpdate, DrainDone, StopPollers, JoinPollers, LoadDriver,
                  LoadFails, StartPollers
    <2>2. QED BY <1>1, <1>5, <2>1, OthersWithdraw
  <1>6. QED BY <1>3, <1>4, <1>5 DEF Next

(* What readers see of the tag table is TagCache, in every instance: a row *)
(* shows a value the PLC has had, none from before a write that returned,  *)
(* and never one older than it showed since it was last withdrawn          *)
(* (the commit of poll_one_iter, write_tag_by_name, transition_poll_cache).*)
THEOREM TableImplementsTagCache == Spec => ImplementsTagCache
  <1>1. Init => Cache!Init
    BY GatedRoot DEF Init, Cache!Init, NoRow
  <1>2. FreshInv /\ [Next]_vars => FreshInv'
    BY FreshStep
  <1>3. FreshInv /\ FreshInv' /\ [Next]_vars => [Cache!Next]_Cache!vars
    BY TableStep
  <1>4. QED BY <1>1, <1>2, <1>3, InitFresh, PTL DEF Spec, ImplementsTagCache, Cache!Spec

=============================================================================
