----------------------------- MODULE AlarmEngine -----------------------------
(* The alarm engine of opcbridge-alarms (AlarmEngine in main.cpp): the rules, *)
(* the state of every alarm, and the history database from which a restarted  *)
(* service, or a reload of the rules, restores them.                          *)
(*                                                                           *)
(* Every operation below runs under the engine's mutex, with the insertion    *)
(* into the history and the notification inside it, so each is one step.      *)
(* A condition is two sets of levels: those at which an inactive alarm        *)
(* becomes active and those at which an active one stays so; they differ by   *)
(* the hysteresis of "high" and "low".  Delays have no length: a pending      *)
(* activation may be due at any time.                                        *)
EXTENDS Integers, Sequences, FiniteSets

CONSTANTS
    Alarms,      \* alarm ids
    Tags,
    Levels, Bad, \* values a condition tells apart; a value of bad quality
    RuleFiles    \* contents of alarms.json: alarm id -> rule, for some alarms

Rule == [tag : Tags, enabled : BOOLEAN, site : BOOLEAN, delayed : BOOLEAN,
         on : SUBSET Levels, hold : SUBSET Levels]

ASSUME EngineConstants ==
    /\ Bad \notin Levels
    /\ \A f \in RuleFiles : /\ f \in [DOMAIN f -> Rule]
                            /\ DOMAIN f \subseteq Alarms

VARIABLES
    rules,       \* the rules loaded
    states,      \* AlarmState of every alarm that has a rule
    db,          \* what the events of an alarm in alarms.db amount to
    unpaired,    \* history: alarms with a return event and no active one before it
    overwritten  \* history: alarms restored from events that were not the latest

engineVars == <<rules, states, db, unpaired, overwritten>>

State == [active : BOOLEAN, acked : BOOLEAN, initialized : BOOLEAN, armed : BOOLEAN,
          pending : BOOLEAN, pendingRecord : BOOLEAN, shelved : BOOLEAN,
          met : BOOLEAN]  \* met, history: the last good value met the condition

Fresh == [active |-> FALSE, acked |-> FALSE, initialized |-> FALSE, armed |-> FALSE,
          pending |-> FALSE, pendingRecord |-> FALSE, shelved |-> FALSE, met |-> FALSE]

Events == [activity : {"none", "active", "return"}, acked : {"none", "yes", "no"},
           shelve : {"none", "shelved", "over"}]
NoEvents == [activity |-> "none", acked |-> "none", shelve |-> "none"]

EngineTypeOK ==
    /\ DOMAIN rules \subseteq Alarms
    /\ rules \in [DOMAIN rules -> Rule]
    /\ states \in [DOMAIN rules -> State]
    /\ db \in [Alarms -> Events]
    /\ unpaired \subseteq Alarms
    /\ overwritten \subseteq Alarms

(***************************************************************************)
(* The state of an alarm and its events                                    *)
(***************************************************************************)

Unpend(s) == [s EXCEPT !.pending = FALSE, !.pendingRecord = FALSE]

Evaluable(s, r) == r.enabled /\ ~s.shelved

Activated(s, record) == [s EXCEPT !.active = TRUE, !.acked = FALSE, !.armed = record]

Returned(s) == [Unpend(s) EXCEPT !.active = FALSE, !.armed = FALSE]

(* MUTANT of WithValue: a value that does not meet the condition leaves a    *)
(* pending activation alone.                                                 *)
WithValueKeepsPending(s, r, v, record) ==
    LET s0 == IF Evaluable(s, r) THEN s ELSE Unpend(s)
        should == Evaluable(s, r) /\ v \in (IF s.active THEN r.hold ELSE r.on)
        s1 == [s0 EXCEPT !.met = should]
    IN  IF ~r.site
        THEN [Returned(s) EXCEPT !.initialized = FALSE, !.met = FALSE]
        ELSE IF should /\ ~s.active
        THEN IF r.delayed
             THEN [s1 EXCEPT !.pending = TRUE, !.initialized = TRUE,
                      !.pendingRecord = IF s1.pending THEN @ ELSE record]
             ELSE Activated([s1 EXCEPT !.initialized = TRUE], record)
        ELSE IF ~should /\ s.active THEN Returned(s1)
        ELSE [s1 EXCEPT !.initialized = TRUE]

(* A good value of the alarm's tag arrives: apply_tag_update.                *)
WithValue(s, r, v, record) ==
    LET s0 == IF Evaluable(s, r) THEN s ELSE Unpend(s)
        should == Evaluable(s, r) /\ v \in (IF s.active THEN r.hold ELSE r.on)
        s1 == [s0 EXCEPT !.met = should]
    IN  IF ~r.site
        THEN [Returned(s) EXCEPT !.initialized = FALSE, !.met = FALSE]
        ELSE IF should /\ ~s.active
        THEN IF r.delayed
             THEN [s1 EXCEPT !.pending = TRUE, !.initialized = TRUE,
                      !.pendingRecord = IF s1.pending THEN @ ELSE record]
             ELSE Activated([s1 EXCEPT !.initialized = TRUE], record)
        ELSE IF ~should /\ s.active THEN Returned(s1)
        ELSE IF ~s.initialized THEN [s1 EXCEPT !.initialized = TRUE]
        ELSE IF ~should THEN Unpend(s1)
        ELSE s1

(* MUTANT of EventOf: a return is announced whether or not the activation was.*)
EventOfUnarmed(s, r, next, record) ==
    IF ~record \/ ~r.site THEN "none"
    ELSE IF next.active /\ ~s.active THEN "active"
    ELSE IF s.active /\ ~next.active THEN "return"
    ELSE "none"

(* The event a change of state is recorded and announced by.                 *)
EventOf(s, r, next, record) ==
    IF ~record \/ ~r.site THEN "none"
    ELSE IF next.active /\ ~s.active THEN "active"
    ELSE IF s.active /\ ~next.active /\ s.armed THEN "return"
    ELSE "none"

(* log_event for the alarms of the set whose event is not "none".            *)
Logged(event) ==
    /\ db' = [a \in Alarms |->
                CASE a \in DOMAIN event /\ event[a] = "active" ->
                        [db[a] EXCEPT !.activity = "active", !.acked = "no"]
                  [] a \in DOMAIN event /\ event[a] = "return" ->
                        [db[a] EXCEPT !.activity = "return"]
                  [] OTHER -> db[a]]
    /\ unpaired' = unpaired \cup
          {a \in DOMAIN event : event[a] = "return" /\ db[a].activity # "active"}

On(t) == {a \in DOMAIN rules : rules[a].tag = t}

(* apply_tag_update for one tag; a bad value only ends what is pending.      *)
Apply(t, v, record) ==
    /\ UNCHANGED <<rules, overwritten>>
    /\ IF v = Bad
       THEN /\ states' = [a \in DOMAIN rules |-> IF a \in On(t) THEN Unpend(states[a])
                                                                ELSE states[a]]
            /\ UNCHANGED <<db, unpaired>>
       ELSE LET next == [a \in DOMAIN rules |->
                           IF a \in On(t) THEN WithValue(states[a], rules[a], v, record)
                                          ELSE states[a]]
            IN  /\ states' = next
                /\ Logged([a \in On(t) |-> EventOf(states[a], rules[a], next[a], record)])

(* Rows of an HTTP answer, one after the other; rows of different tags do    *)
(* not touch the same alarm.                                                 *)
ApplyRows(row, record) ==
    LET good == {a \in DOMAIN rules : /\ rules[a].tag \in DOMAIN row
                                      /\ row[rules[a].tag] # Bad}
        next == [a \in DOMAIN rules |->
                   IF a \in good
                   THEN WithValue(states[a], rules[a], row[rules[a].tag], record)
                   ELSE IF rules[a].tag \in DOMAIN row THEN Unpend(states[a])
                   ELSE states[a]]
    IN  /\ states' = next
        /\ Logged([a \in good |-> EventOf(states[a], rules[a], next[a], record)])
        /\ UNCHANGED <<rules, overwritten>>

(***************************************************************************)
(* Delayed activations                                                     *)
(***************************************************************************)

(* process_pending_activations, every 100 ms: `ripe` are the pending alarms  *)
(* whose delay has passed.                                                   *)
ProcessPending(ripe) ==
    LET pending == {a \in DOMAIN rules : /\ states[a].pending /\ ~states[a].active
                                         /\ rules[a].delayed}
        dropped == {a \in pending : ~Evaluable(states[a], rules[a]) \/ ~rules[a].site}
        due     == (pending \cap ripe) \ dropped
    IN  /\ dropped \cup due # {}
        /\ states' = [a \in DOMAIN rules |->
                        IF a \in due
                        THEN Unpend(Activated(states[a], states[a].pendingRecord))
                        ELSE IF a \in dropped THEN Unpend(states[a])
                        ELSE states[a]]
        /\ Logged([a \in {b \in due : states[b].pendingRecord} |-> "active"])
        /\ UNCHANGED <<rules, overwritten>>

(***************************************************************************)
(* Operators                                                               *)
(***************************************************************************)

Operated(a, s, ev) ==
    /\ states' = [states EXCEPT ![a] = s]
    /\ db' = [db EXCEPT ![a] = ev]
    /\ UNCHANGED <<rules, unpaired, overwritten>>

Ack(a) ==
    /\ a \in DOMAIN rules
    /\ Operated(a, [states[a] EXCEPT !.acked = TRUE], [db[a] EXCEPT !.acked = "yes"])

Shelve(a) ==
    /\ a \in DOMAIN rules
    /\ Operated(a, [states[a] EXCEPT !.shelved = TRUE], [db[a] EXCEPT !.shelve = "shelved"])

Unshelve(a) ==
    /\ a \in DOMAIN rules
    /\ Operated(a, [states[a] EXCEPT !.shelved = FALSE], [db[a] EXCEPT !.shelve = "over"])

(* The time up to which an alarm is shelved has passed, for the state in     *)
(* memory and for the event in the database alike.  (A state restored from   *)
(* an event read before that moment elapses once more.)                      *)
ShelfElapses(a) ==
    /\ db[a].shelve = "shelved" \/ (a \in DOMAIN rules /\ states[a].shelved)
    /\ db' = [db EXCEPT ![a].shelve = IF @ = "shelved" THEN "over" ELSE @]
    /\ states' = [b \in DOMAIN rules |-> IF b = a THEN [states[b] EXCEPT !.shelved = FALSE]
                                                  ELSE states[b]]
    /\ UNCHANGED <<rules, unpaired, overwritten>>

(***************************************************************************)
(* Rules and restored states                                               *)
(***************************************************************************)

(* MUTANT of Carried: alarms that have no rule any more keep their state.    *)
CarriedAll(new) ==
    [a \in DOMAIN new \cup DOMAIN rules |-> IF a \in DOMAIN rules THEN states[a] ELSE Fresh]

(* fetch_rules_from_opcbridge, at the swap: the live state of an alarm that  *)
(* already had a rule is carried over.                                       *)
Carried(new) == [a \in DOMAIN new |-> IF a \in DOMAIN rules THEN states[a] ELSE Fresh]

SwapRules(new) ==
    /\ rules' = new
    /\ states' = Carried(new)
    /\ UNCHANGED <<db, unpaired, overwritten>>

(* load_rules_from_file: every state starts afresh.                          *)
LoadLocalRules(new) ==
    /\ rules' = new
    /\ states' = [a \in DOMAIN new |-> Fresh]
    /\ UNCHANGED <<db, unpaired, overwritten>>

(* restore_state_from_db for one alarm: the events are replayed in their     *)
(* order, so the last one of each kind decides.                              *)
Restored(s, ev) ==
    LET active == CASE ev.activity = "active" -> TRUE
                    [] ev.activity = "return" -> FALSE
                    [] OTHER -> s.active
    IN  [s EXCEPT !.initialized = @ \/ ev # NoEvents,
                  !.active = active,
                  !.armed = IF ev.activity = "none" THEN @ ELSE active,
                  !.acked = CASE ev.acked = "yes" -> TRUE
                              [] ev.acked = "no" -> FALSE
                              [] OTHER -> @,
                  !.shelved = CASE ev.shelve = "shelved" -> TRUE
                                [] ev.shelve = "over" -> FALSE
                                [] OTHER -> @]

(* The states are overwritten with the events read from the database before. *)
RestoreFrom(events) ==
    /\ states' = [a \in DOMAIN rules |-> Restored(states[a], events[a])]
    /\ overwritten' = overwritten \cup {a \in DOMAIN rules : events[a] # db[a]}
    /\ UNCHANGED <<rules, db, unpaired>>

(* The service starts: the rules are loaded and the states restored before   *)
(* any thread runs.                                                          *)
StartEngine(new) ==
    /\ rules' = new
    /\ states' = [a \in DOMAIN new |-> Restored(Fresh, db[a])]
    /\ UNCHANGED <<db, unpaired, overwritten>>
=============================================================================
