---------------------------- MODULE PollReadGate ----------------------------
(***************************************************************************)
(* The freshness evidence of a physical PLC read and the gate every cached *)
(* value has to pass: read_freshness.h and poll_read_gate.h, and the cache *)
(* transitions of main.cpp that are built from them.                       *)
(*                                                                         *)
(* Time is a natural number; 0 is the unset steady_clock time_point.  A    *)
(* stamp says when a read was started and completed and which driver       *)
(* instance (freshness_epoch) performed it.  The value that was read is    *)
(* represented by the version of the PLC word (how often it was written).  *)
(***************************************************************************)
EXTENDS Naturals

Stamp == [started: Nat, completed: Nat, epoch: Nat]

NoStamp == [started |-> 0, completed |-> 0, epoch |-> 0]

Gate == [present: BOOLEAN, active: BOOLEAN, after: Nat, epoch: Nat]

(* No entry in poll_gates, and what operator[] inserts for one.            *)
NoGate == [present |-> FALSE, active |-> TRUE, after |-> 0, epoch |-> 0]

(* PollReadStamp::satisfies_age for a finite age bound in clock units.     *)
SatisfiesAge(s, requested, maxAge, good, now, expectedEpoch) ==
    /\ s.epoch = expectedEpoch
    /\ good
    /\ s.started # 0
    /\ s.started <= s.completed
    /\ s.completed <= now
    /\ IF maxAge = 0 THEN s.started >= requested ELSE now - s.completed <= maxAge

Restart(epoch, now) ==
    [present |-> TRUE, active |-> TRUE, after |-> now, epoch |-> epoch]

Suspend(g) == [g EXCEPT !.present = TRUE, !.active = FALSE]

Resume(g, now) ==
    IF g.active THEN [g EXCEPT !.present = TRUE]
                ELSE [g EXCEPT !.present = TRUE, !.active = TRUE, !.after = now]

(* PollReadGate::quality.                                                  *)
GateQuality(g, s, good, now) ==
    CASE ~g.active -> "Inactive"
      [] g.active /\ ~good -> "Bad"
      [] g.active /\ good ->
            IF SatisfiesAge(s, g.after, 0, TRUE, now, g.epoch) THEN "Good" ELSE "Waiting"

-----------------------------------------------------------------------------
(* A cached snapshot: its quality, polling_state, read stamp and value.    *)
(* What a non-GOOD snapshot still carries is never published (payloads of  *)
(* such rows are null) and never consulted again, so it is not kept.       *)

State == {"Active", "Waiting", "Inactive"}

Snapshot == [good: BOOLEAN, state: State, read: Stamp, ver: Nat]

NotGood(state) == [good |-> FALSE, state |-> state, read |-> NoStamp, ver |-> 0]

GoodSnapshot(read, ver) ==
    [good |-> TRUE, state |-> "Active", read |-> read, ver |-> ver]

(* A tag that has no row in the tag table yet.                             *)
NoRow == [good |-> FALSE, state |-> "None", read |-> NoStamp, ver |-> 0]

(* Mutant: the cache accepts every sample.                                 *)
ApplyWithoutGate(g, snap, now) == snap

(* apply_poll_cache_gate: only the current driver's gate may restore GOOD. *)
(* Committed samples arrive in state Active; derived rows take the state   *)
(* their source row was given.                                             *)
ApplyPollCacheGate(g, snap, now) ==
    IF ~g.present \/ (~snap.good /\ snap.state = "Waiting" /\ g.active)
    THEN snap
    ELSE CASE GateQuality(g, snap.read, snap.good, now) = "Good" ->
                 [snap EXCEPT !.state = "Active"]
           [] GateQuality(g, snap.read, snap.good, now) = "Bad" -> NotGood("Active")
           [] GateQuality(g, snap.read, snap.good, now) = "Inactive" -> NotGood("Inactive")
           [] OTHER -> NotGood("Waiting")

(* transition_poll_cache: the gate and the row after it.  Without restart, *)
(* a gate already in the wanted mode and an existing row are left alone.   *)
TransitionIsNoOp(g, row, active, restart) ==
    ~restart /\ g.active = active /\ row # NoRow

TransitionGate(g, row, active, restart, epoch, now) ==
    IF TransitionIsNoOp(g, row, active, restart) THEN [g EXCEPT !.present = TRUE]
    ELSE LET g1 == IF restart THEN Restart(epoch, now) ELSE g
         IN  IF active THEN Resume(g1, now) ELSE Suspend(g1)

TransitionRow(g, row, active, restart) ==
    IF TransitionIsNoOp(g, row, active, restart) THEN row
    ELSE NotGood(IF active THEN "Waiting" ELSE "Inactive")

=============================================================================
