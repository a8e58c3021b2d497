-------------------------- MODULE AlarmClient_proof --------------------------
(* Proofs about the alarm service: types, return events that answer an        *)
(* activation, and delayed activations, for any number of alarms, tags, rules *)
(* and events from outside.                                                  *)
EXTENDS AlarmClient, TLAPS

USE EngineConstants, ClientConstants

(***************************************************************************)
(* One alarm                                                               *)
(***************************************************************************)

(* What holds of the state of an alarm and its last events: it announces its  *)
(* return only when it is active and, unless it was restored from events that *)
(* were not the latest, when its activation is the last event.               *)
AlarmOK(s, ev, exempt) ==
    /\ s.armed => s.active
    /\ exempt \/ (s.armed => ev.activity = "active")
    /\ s.pending => s.met /\ s.initialized

EngineInv ==
    /\ EngineTypeOK
    /\ EventsPair
    /\ \A a \in DOMAIN rules : AlarmOK(states[a], db[a], a \in overwritten)

(* A value leaves an alarm in a state, keeps what a pending activation needs, *)
(* and an alarm is armed after it only if it was before, or its activation    *)
(* has just been recorded.                                                   *)
LEMMA WithValueOK ==
    ASSUME NEW s \in State, NEW r \in Rule, NEW v, NEW record \in BOOLEAN,
           s.armed => s.active, s.pending => s.met /\ s.initialized
    PROVE  LET n == WithValue(s, r, v, record)
               e == EventOf(s, r, n, record)
           IN  /\ n \in State
               /\ n.armed => n.active
               /\ n.pending => n.met /\ n.initialized
               /\ e \in {"none", "active", "return"}
               /\ e = "return" => s.armed /\ ~n.armed
               /\ n.armed => e = "active" \/ (s.armed /\ e = "none")
<1> DEFINE should == Evaluable(s, r) /\ v \in (IF s.active THEN r.hold ELSE r.on)
           s0 == IF Evaluable(s, r) THEN s ELSE Unpend(s)
           s1 == [s0 EXCEPT !.met = should]
<1>1. /\ Unpend(s) \in State
      /\ Unpend(s).active = s.active /\ Unpend(s).armed = s.armed
      /\ Unpend(s).pending = FALSE /\ Unpend(s).initialized = s.initialized
  BY DEF Unpend, State
<1>2. /\ s1 \in State
      /\ s1.active = s.active /\ s1.armed = s.armed /\ s1.met = should
      /\ s1.initialized = s.initialized
      /\ s1.pending => s.pending /\ Evaluable(s, r)
  <2>1. should \in BOOLEAN
    BY DEF Evaluable
  <2>2. /\ s0 \in State /\ s0.active = s.active /\ s0.armed = s.armed
        /\ s0.initialized = s.initialized
        /\ s0.pending => s.pending /\ Evaluable(s, r)
    BY <1>1
  <2>. HIDE DEF should, s0
  <2> QED  BY <2>1, <2>2 DEF State
<1>. DEFINE n == WithValue(s, r, v, record)
            e == EventOf(s, r, n, record)
            Claim == /\ n \in State
                     /\ n.armed => n.active
                     /\ n.pending => n.met /\ n.initialized
                     /\ e \in {"none", "active", "return"}
                     /\ e = "return" => s.armed /\ ~n.armed
                     /\ n.armed => e = "active" \/ (s.armed /\ e = "none")
<1>. SUFFICES Claim
  BY Zenon
<1>3. CASE ~r.site
  <2>1. n = [Returned(s) EXCEPT !.initialized = FALSE, !.met = FALSE]
    BY <1>3 DEF WithValue
  <2>2. n \in State /\ ~n.armed /\ ~n.active /\ ~n.pending
    BY <2>1, <1>1 DEF Returned, State
  <2>3. e = "none"
    BY <1>3 DEF EventOf
  <2>. HIDE DEF n, e
  <2> QED  BY <2>2, <2>3
<1>4. CASE r.site /\ should /\ ~s.active /\ r.delayed
  <2>1. n = [s1 EXCEPT !.pending = TRUE, !.initialized = TRUE,
                       !.pendingRecord = IF s1.pending THEN @ ELSE record]
    BY <1>4 DEF WithValue
  <2>2. /\ n \in State /\ n.armed = s.armed /\ n.active = s.active
        /\ n.met = should /\ n.initialized
    <3>. HIDE DEF n, s1, should
    <3> QED  BY <2>1, <1>2 DEF State
  <2>3. e \in {"none", "active", "return"} /\ (~s.armed => e = "none")
    <3>. HIDE DEF n
    <3> QED  BY <1>4, <2>2 DEF EventOf
  <2>. HIDE DEF n, e, should
  <2> QED  BY <1>4, <2>2, <2>3
<1>5. CASE r.site /\ should /\ ~s.active /\ ~r.delayed
  <2>1. n = Activated([s1 EXCEPT !.initialized = TRUE], record)
    BY <1>5 DEF WithValue
  <2>2. /\ n \in State /\ n.armed = record /\ n.active
        /\ n.met = should /\ n.initialized
    <3>. HIDE DEF n, s1, should
    <3> QED  BY <2>1, <1>2 DEF State, Activated
  <2>3. e \in {"none", "active"} /\ (record => e = "active")
    <3>. HIDE DEF n
    <3> QED  BY <1>5, <2>2 DEF EventOf
  <2>. HIDE DEF n, e, should
  <2> QED  BY <1>5, <2>2, <2>3
<1>6. CASE r.site /\ ~should /\ s.active
  <2>1. n = Returned(s1)
    BY <1>6 DEF WithValue
  <2>2. n \in State /\ ~n.armed /\ ~n.active /\ ~n.pending
    <3>. HIDE DEF n, s1, should
    <3> QED  BY <2>1, <1>2 DEF State, Returned, Unpend
  <2>3. e \in {"none", "return"} /\ (e = "return" => s.armed)
    <3>. HIDE DEF n
    <3> QED  BY <1>6, <2>2 DEF EventOf
  <2>. HIDE DEF n, e, should
  <2> QED  BY <2>2, <2>3
<1>7. CASE r.site /\ should = s.active
  <2>1. \/ n = [s1 EXCEPT !.initialized = TRUE] /\ ~s.initialized
        \/ n = Unpend(s1) /\ ~should
        \/ n = s1 /\ should
    BY <1>7 DEF WithValue
  <2>2. /\ n \in State /\ n.armed = s.armed /\ n.active = s.active
        /\ n.pending => n.met /\ n.initialized
    <3>. HIDE DEF n, s1, should
    <3> QED  BY <2>1, <1>2 DEF State, Unpend
  <2>3. e = "none"
    <3>. HIDE DEF n
    <3> QED  BY <1>7, <2>2 DEF EventOf
  <2>. HIDE DEF n, e
  <2> QED  BY <2>2, <2>3
<1>8. should \in BOOLEAN /\ s.active \in BOOLEAN /\ r.site \in BOOLEAN /\ r.delayed \in BOOLEAN
  BY DEF Evaluable, State, Rule
<1>. HIDE DEF Claim, should
<1> QED  BY <1>3, <1>4, <1>5, <1>6, <1>7, <1>8

LEMMA FreshOK ==
    Fresh \in State /\ ~Fresh.armed /\ ~Fresh.pending /\ ~Fresh.active
BY DEF Fresh, State

LEMMA UnpendOK ==
    ASSUME NEW s \in State
    PROVE  /\ Unpend(s) \in State /\ ~Unpend(s).pending
           /\ Unpend(s).armed = s.armed /\ Unpend(s).active = s.active
BY DEF Unpend, State

LEMMA DueOK ==
    ASSUME NEW s \in State
    PROVE  LET n == Unpend(Activated(s, s.pendingRecord))
           IN  n \in State /\ ~n.pending /\ n.active /\ n.armed = s.pendingRecord
BY DEF Unpend, Activated, State

LEMMA StateUpdated ==
    ASSUME NEW s \in State, NEW i \in BOOLEAN, NEW active \in BOOLEAN,
           NEW armed \in BOOLEAN, NEW acked \in BOOLEAN, NEW shelved \in BOOLEAN
    PROVE  [s EXCEPT !.initialized = i, !.active = active, !.armed = armed,
                     !.acked = acked, !.shelved = shelved] \in State
<1>1. [s EXCEPT !.initialized = i, !.active = active] \in State
  BY DEF State
<1>2. \A x \in State : [x EXCEPT !.armed = armed, !.acked = acked] \in State
  BY DEF State
<1>3. \A x \in State : [x EXCEPT !.shelved = shelved] \in State
  BY DEF State
<1> QED  BY <1>1, <1>2, <1>3, Zenon

(* A state restored from events is armed only if their last activity is an   *)
(* activation, or there was none and it was armed before.                    *)
LEMMA RestoredOK ==
    ASSUME NEW s \in State, NEW ev \in Events, s.armed => s.active,
           s.pending => s.met /\ s.initialized
    PROVE  LET n == Restored(s, ev)
           IN  /\ n \in State
               /\ n.armed => n.active
               /\ n.pending => n.met /\ n.initialized
               /\ n.armed => ev.activity = "active" \/ (ev.activity = "none" /\ s.armed)
<1> DEFINE n == Restored(s, ev)
<1>1. /\ ev.activity \in {"none", "active", "return"}
      /\ ev.acked \in {"none", "yes", "no"}
      /\ ev.shelve \in {"none", "shelved", "over"}
      /\ s.active \in BOOLEAN /\ s.acked \in BOOLEAN /\ s.initialized \in BOOLEAN
      /\ s.armed \in BOOLEAN /\ s.shelved \in BOOLEAN
  BY DEF Events, State
<1> DEFINE active == CASE ev.activity = "active" -> TRUE
                       [] ev.activity = "return" -> FALSE
                       [] OTHER -> s.active
           armed == IF ev.activity = "none" THEN s.armed ELSE active
           acked == CASE ev.acked = "yes" -> TRUE
                      [] ev.acked = "no" -> FALSE
                      [] OTHER -> s.acked
           shelved == CASE ev.shelve = "shelved" -> TRUE
                        [] ev.shelve = "over" -> FALSE
                        [] OTHER -> s.shelved
           initialized == s.initialized \/ ev # NoEvents
<1>2. active \in BOOLEAN /\ armed \in BOOLEAN
  BY <1>1
<1>3. acked \in BOOLEAN
  BY <1>1
<1>4. shelved \in BOOLEAN /\ initialized \in BOOLEAN
  BY <1>1
<1>5. n = [s EXCEPT !.initialized = initialized, !.active = active, !.armed = armed,
                    !.acked = acked, !.shelved = shelved]
  BY DEF Restored
<1>6. /\ n \in State /\ n.active = active /\ n.armed = armed /\ n.pending = s.pending
      /\ n.met = s.met /\ n.initialized = initialized
  <2>. HIDE DEF n, active, armed, acked, shelved, initialized
  <2>1. n \in State
    BY <1>2, <1>3, <1>4, <1>5, StateUpdated, Zenon
  <2>2. n.active = active
    BY <1>2, <1>5 DEF State
  <2>3. n.armed = armed
    BY <1>2, <1>5 DEF State
  <2>4. n.initialized = initialized
    BY <1>4, <1>5 DEF State
  <2>5. n.pending = s.pending /\ n.met = s.met
    BY <1>5 DEF State
  <2> QED  BY <2>1, <2>2, <2>3, <2>4, <2>5, Zenon
<1>7. armed => active
  BY <1>1
<1>8. armed => ev.activity = "active" \/ (ev.activity = "none" /\ s.armed)
  BY <1>1
<1>9. s.initialized => initialized
  BY <1>1
<1> HIDE DEF n, active, armed, initialized
<1> QED  BY <1>6, <1>7, <1>8, <1>9 DEF n

(***************************************************************************)
(* The engine                                                              *)
(***************************************************************************)

(* A step that records events and changes the states accordingly.            *)
LEMMA LoggedOK ==
    ASSUME EngineInv, NEW E \in SUBSET (DOMAIN rules),
           NEW event \in [E -> {"none", "active", "return"}],
           rules' = rules, overwritten' = overwritten,
           states' \in [DOMAIN rules -> State], Logged(event),
           \A a \in DOMAIN rules :
              /\ states'[a].armed => states'[a].active
              /\ states'[a].pending => states'[a].met /\ states'[a].initialized,
           \A a \in (DOMAIN rules) \ E : states'[a].armed => states[a].armed,
           \A a \in E :
              /\ event[a] = "return" => states[a].armed /\ ~states'[a].armed
              /\ states'[a].armed => event[a] = "active" \/ (states[a].armed /\ event[a] = "none")
    PROVE  EngineInv'
<1>1. DOMAIN event = E /\ E \subseteq Alarms /\ DOMAIN rules \subseteq Alarms
  BY DEF EngineInv, EngineTypeOK
<1>2. db \in [Alarms -> Events] /\ unpaired \subseteq Alarms
  BY DEF EngineInv, EngineTypeOK
<1>3. \A a \in Alarms :
         /\ db'[a] \in Events
         /\ a \in E /\ event[a] = "active" => db'[a].activity = "active"
         /\ a \notin E \/ event[a] = "none" => db'[a] = db[a]
  <2> SUFFICES ASSUME NEW a \in Alarms
               PROVE  /\ db'[a] \in Events
                      /\ a \in E /\ event[a] = "active" => db'[a].activity = "active"
                      /\ a \notin E \/ event[a] = "none" => db'[a] = db[a]
    OBVIOUS
  <2>1. db'[a] = CASE a \in E /\ event[a] = "active" ->
                        [db[a] EXCEPT !.activity = "active", !.acked = "no"]
                   [] a \in E /\ event[a] = "return" -> [db[a] EXCEPT !.activity = "return"]
                   [] OTHER -> db[a]
    BY <1>1 DEF Logged
  <2>2. CASE a \in E /\ event[a] = "active"
    BY <2>1, <2>2, <1>2 DEF Events
  <2>3. CASE a \in E /\ event[a] = "return"
    BY <2>1, <2>3, <1>2 DEF Events
  <2>4. CASE a \notin E \/ event[a] = "none"
    BY <2>1, <2>4, <1>2
  <2> QED  BY <2>2, <2>3, <2>4
<1>4. db' \in [Alarms -> Events]
  <2>1. db' = [a \in Alarms |-> db'[a]]
    BY DEF Logged
  <2> QED  BY <2>1, <1>3
<1>5. unpaired' \subseteq unpaired \cup overwritten
  <2>1. unpaired' = unpaired \cup {a \in E : event[a] = "return" /\ db[a].activity # "active"}
    BY <1>1 DEF Logged
  <2>2. \A a \in E : event[a] = "return" => db[a].activity = "active" \/ a \in overwritten
    BY DEF EngineInv, AlarmOK
  <2> QED  BY <2>1, <2>2
<1>6. EngineTypeOK'
  BY <1>2, <1>4, <1>5 DEF EngineInv, EngineTypeOK
<1>7. EventsPair'
  BY <1>5 DEF EngineInv, EventsPair
<1>8. \A a \in DOMAIN rules : AlarmOK(states'[a], db'[a], a \in overwritten)
  <2> SUFFICES ASSUME NEW a \in DOMAIN rules, a \notin overwritten, states'[a].armed
               PROVE  db'[a].activity = "active"
    BY DEF AlarmOK
  <2>1. CASE a \in E /\ event[a] = "active"
    BY <2>1, <1>1, <1>3
  <2>2. CASE (a \notin E \/ event[a] = "none") /\ states[a].armed
    <3>1. db[a].activity = "active"
      BY <2>2 DEF EngineInv, AlarmOK
    <3> QED  BY <3>1, <2>2, <1>1, <1>3
  <2> QED  BY <2>1, <2>2
<1> QED  BY <1>6, <1>7, <1>8 DEF EngineInv

(* The update of the alarms of one tag, or of several tags, by their values. *)
LEMMA ValuesOK ==
    ASSUME EngineInv, NEW A \in SUBSET (DOMAIN rules), NEW record \in BOOLEAN,
           NEW event, event = [a \in A |-> event[a]], Logged(event),
           DOMAIN states' = DOMAIN rules, states' = [a \in DOMAIN states' |-> states'[a]],
           rules' = rules, overwritten' = overwritten,
           \A a \in A :
              /\ \E v : states'[a] = WithValue(states[a], rules[a], v, record)
              /\ event[a] = EventOf(states[a], rules[a], states'[a], record),
           \A a \in (DOMAIN rules) \ A : states'[a] \in {states[a], Unpend(states[a])}
    PROVE  EngineInv'
<1>1. \A a \in DOMAIN rules : states[a] \in State /\ rules[a] \in Rule
  BY DEF EngineInv, EngineTypeOK
<1>2. \A a \in DOMAIN rules : AlarmOK(states[a], db[a], a \in overwritten)
  BY DEF EngineInv
<1>3. ASSUME NEW a \in A
      PROVE  /\ states'[a] \in State
             /\ states'[a].armed => states'[a].active
             /\ states'[a].pending => states'[a].met /\ states'[a].initialized
             /\ event[a] \in {"none", "active", "return"}
             /\ event[a] = "return" => states[a].armed /\ ~states'[a].armed
             /\ states'[a].armed =>
                   event[a] = "active" \/ (states[a].armed /\ event[a] = "none")
  <2>1. PICK v : states'[a] = WithValue(states[a], rules[a], v, record)
    OBVIOUS
  <2>2. event[a] = EventOf(states[a], rules[a], states'[a], record)
    OBVIOUS
  <2>3. /\ states[a] \in State /\ rules[a] \in Rule
        /\ states[a].armed => states[a].active
        /\ states[a].pending => states[a].met /\ states[a].initialized
    BY <1>1, <1>2 DEF AlarmOK
  <2> QED  BY <2>1, <2>2, <2>3, WithValueOK
<1>4. ASSUME NEW a \in (DOMAIN rules) \ A
      PROVE  /\ states'[a] \in State
             /\ states'[a].armed = states[a].armed
             /\ states'[a].pending => states'[a].met /\ states'[a].initialized
             /\ states'[a].armed => states'[a].active
  <2>1. states'[a] = Unpend(states[a]) \/ states'[a] = states[a]
    OBVIOUS
  <2>2. /\ states[a] \in State
        /\ states[a].armed => states[a].active
        /\ states[a].pending => states[a].met /\ states[a].initialized
    BY <1>1, <1>2 DEF AlarmOK
  <2> QED  BY <2>1, <2>2, UnpendOK
<1>5. states' \in [DOMAIN rules -> State]
  BY <1>3, <1>4
<1>6. event \in [A -> {"none", "active", "return"}]
  BY <1>3
<1> QED  BY <1>3, <1>4, <1>5, <1>6, LoggedOK

LEMMA ApplyOK ==
    ASSUME EngineInv, NEW t, NEW v, NEW record \in BOOLEAN, Apply(t, v, record)
    PROVE  EngineInv'
<1>1. CASE v = Bad
  <2>1. /\ states' = [a \in DOMAIN rules |-> IF a \in On(t) THEN Unpend(states[a])
                                                           ELSE states[a]]
        /\ UNCHANGED <<rules, overwritten, db, unpaired>>
    BY <1>1 DEF Apply
  <2>2. \A a \in DOMAIN rules :
           /\ states[a] \in State
           /\ states'[a] = states[a] \/ states'[a] = Unpend(states[a])
    BY <2>1 DEF EngineInv, EngineTypeOK
  <2>3. states' \in [DOMAIN rules -> State]
    BY <2>1, <2>2, UnpendOK
  <2>4. \A a \in DOMAIN rules : AlarmOK(states'[a], db[a], a \in overwritten)
    BY <2>2, UnpendOK DEF EngineInv, AlarmOK
  <2> QED  BY <2>1, <2>3, <2>4 DEF EngineInv, EngineTypeOK, EventsPair
<1>2. CASE v # Bad
  <2> DEFINE next == [a \in DOMAIN rules |->
                        IF a \in On(t) THEN WithValue(states[a], rules[a], v, record)
                                       ELSE states[a]]
             event == [a \in On(t) |-> EventOf(states[a], rules[a], next[a], record)]
  <2>1. states' = next /\ rules' = rules /\ overwritten' = overwritten /\ Logged(event)
    BY <1>2 DEF Apply
  <2>2. On(t) \in SUBSET DOMAIN rules
    BY DEF On
  <2>3. /\ \A a \in On(t) :
              /\ next[a] = WithValue(states[a], rules[a], v, record)
              /\ event[a] = EventOf(states[a], rules[a], next[a], record)
        /\ \A a \in (DOMAIN rules) \ On(t) : next[a] = states[a]
        /\ event = [a \in On(t) |-> event[a]]
        /\ DOMAIN next = DOMAIN rules /\ next = [a \in DOMAIN next |-> next[a]]
    BY <2>2
  <2> HIDE DEF next, event
  <2> QED  BY <2>1, <2>2, <2>3, ValuesOK
<1> QED  BY <1>1, <1>2

LEMMA ApplyRowsOK ==
    ASSUME EngineInv, NEW row, NEW record \in BOOLEAN, ApplyRows(row, record)
    PROVE  EngineInv'
<1> DEFINE good == {a \in DOMAIN rules : /\ rules[a].tag \in DOMAIN row
                                         /\ row[rules[a].tag] # Bad}
           next == [a \in DOMAIN rules |->
                      IF a \in good
                      THEN WithValue(states[a], rules[a], row[rules[a].tag], record)
                      ELSE IF rules[a].tag \in DOMAIN row THEN Unpend(states[a])
                      ELSE states[a]]
           event == [a \in good |-> EventOf(states[a], rules[a], next[a], record)]
<1>1. states' = next /\ rules' = rules /\ overwritten' = overwritten /\ Logged(event)
  BY DEF ApplyRows
<1>2. good \in SUBSET DOMAIN rules
  OBVIOUS
<1>3. \A a \in good : /\ next[a] = WithValue(states[a], rules[a], row[rules[a].tag], record)
                      /\ event[a] = EventOf(states[a], rules[a], next[a], record)
  OBVIOUS
<1>4. /\ \A a \in (DOMAIN rules) \ good : next[a] \in {states[a], Unpend(states[a])}
      /\ event = [a \in good |-> event[a]]
      /\ DOMAIN next = DOMAIN rules /\ next = [a \in DOMAIN next |-> next[a]]
  OBVIOUS
<1>5. \A a \in good : /\ \E v : next[a] = WithValue(states[a], rules[a], v, record)
                      /\ event[a] = EventOf(states[a], rules[a], next[a], record)
  BY <1>3
<1> HIDE DEF good, next, event
<1> QED  BY <1>1, <1>2, <1>4, <1>5, ValuesOK

LEMMA ProcessPendingOK ==
    ASSUME EngineInv, NEW ripe, ProcessPending(ripe)
    PROVE  EngineInv'
<1> DEFINE pending == {a \in DOMAIN rules : /\ states[a].pending /\ ~states[a].active
                                            /\ rules[a].delayed}
           dropped == {a \in pending : ~Evaluable(states[a], rules[a]) \/ ~rules[a].site}
           due == (pending \cap ripe) \ dropped
           E == {b \in due : states[b].pendingRecord}
           event == [a \in E |-> "active"]
           next == [a \in DOMAIN rules |->
                      IF a \in due THEN Unpend(Activated(states[a], states[a].pendingRecord))
                      ELSE IF a \in dropped THEN Unpend(states[a])
                      ELSE states[a]]
<1>1. states' = next /\ rules' = rules /\ overwritten' = overwritten /\ Logged(event)
  BY DEF ProcessPending
<1>2. E \in SUBSET DOMAIN rules /\ due \in SUBSET DOMAIN rules /\ E \subseteq due
  OBVIOUS
<1>3. event \in [E -> {"none", "active", "return"}] /\ \A a \in E : event[a] = "active"
  OBVIOUS
<1>4. ASSUME NEW a \in DOMAIN rules
      PROVE  /\ next[a] \in State
             /\ next[a].armed => next[a].active
             /\ next[a].pending => next[a].met /\ next[a].initialized
             /\ a \notin E => (next[a].armed => states[a].armed)
  <2>1. /\ states[a] \in State
        /\ states[a].armed => states[a].active
        /\ states[a].pending => states[a].met /\ states[a].initialized
    BY DEF EngineInv, EngineTypeOK, AlarmOK
  <2>2. CASE a \in due
    <3>1. next[a] = Unpend(Activated(states[a], states[a].pendingRecord))
      BY <2>2
    <3>2. a \notin E => ~states[a].pendingRecord
      BY <2>2
    <3> HIDE DEF next, E
    <3> QED  BY <2>1, <3>1, <3>2, DueOK
  <2>3. CASE a \notin due
    <3>1. next[a] = Unpend(states[a]) \/ next[a] = states[a]
      BY <2>3
    <3> HIDE DEF next, E
    <3> QED  BY <2>1, <3>1, UnpendOK
  <2> QED  BY <2>2, <2>3
<1>5. next \in [DOMAIN rules -> State]
  BY <1>4
<1> HIDE DEF next, event, E, due
<1> QED  BY <1>1, <1>2, <1>3, <1>4, <1>5, LoggedOK

(* An operator's command: nothing of what is pending or announced changes.   *)
LEMMA OperatedOK ==
    ASSUME EngineInv, NEW a \in DOMAIN rules, NEW s \in State, NEW ev \in Events,
           Operated(a, s, ev),
           s.armed = states[a].armed, s.active = states[a].active,
           s.pending = states[a].pending, s.met = states[a].met,
           s.initialized = states[a].initialized, ev.activity = db[a].activity
    PROVE  EngineInv'
<1>1. /\ states' = [states EXCEPT ![a] = s] /\ db' = [db EXCEPT ![a] = ev]
      /\ UNCHANGED <<rules, unpaired, overwritten>>
  BY DEF Operated
<1>2. /\ DOMAIN rules \subseteq Alarms /\ db \in [Alarms -> Events]
      /\ states \in [DOMAIN rules -> State]
  BY DEF EngineInv, EngineTypeOK
<1>3. /\ states' \in [DOMAIN rules -> State] /\ db' \in [Alarms -> Events]
      /\ states'[a] = s /\ db'[a] = ev
      /\ \A b \in DOMAIN rules : b # a => states'[b] = states[b] /\ db'[b] = db[b]
  BY <1>1, <1>2
<1>4. \A b \in DOMAIN rules : AlarmOK(states'[b], db'[b], b \in overwritten)
  <2> TAKE b \in DOMAIN rules
  <2>1. AlarmOK(states[b], db[b], b \in overwritten)
    BY DEF EngineInv
  <2> QED  BY <2>1, <1>3 DEF AlarmOK
<1> QED  BY <1>1, <1>3, <1>4 DEF EngineInv, EngineTypeOK, EventsPair

LEMMA OperatorOK ==
    ASSUME EngineInv, NEW a \in Alarms, Ack(a) \/ Shelve(a) \/ Unshelve(a)
    PROVE  EngineInv'
<1>1. a \in DOMAIN rules
  BY DEF Ack, Shelve, Unshelve
<1>2. states[a] \in State /\ db[a] \in Events
  BY <1>1 DEF EngineInv, EngineTypeOK
<1>3. CASE Ack(a)
  <2> DEFINE s == [states[a] EXCEPT !.acked = TRUE]
             ev == [db[a] EXCEPT !.acked = "yes"]
  <2>1. Operated(a, s, ev)
    BY <1>3 DEF Ack
  <2>2. /\ s \in State /\ s.armed = states[a].armed /\ s.active = states[a].active
        /\ s.pending = states[a].pending /\ s.met = states[a].met
        /\ s.initialized = states[a].initialized
    BY <1>2 DEF State
  <2>3. ev \in Events /\ ev.activity = db[a].activity
    BY <1>2 DEF Events
  <2> HIDE DEF s, ev
  <2> QED  BY <1>1, <2>1, <2>2, <2>3, OperatedOK
<1>4. ASSUME NEW x \in BOOLEAN, NEW e \in {"shelved", "over"},
             Operated(a, [states[a] EXCEPT !.shelved = x], [db[a] EXCEPT !.shelve = e])
      PROVE  EngineInv'
  <2> DEFINE s == [states[a] EXCEPT !.shelved = x]
             ev == [db[a] EXCEPT !.shelve = e]
  <2>1. Operated(a, s, ev)
    BY <1>4
  <2>2. /\ s \in State /\ s.armed = states[a].armed /\ s.active = states[a].active
        /\ s.pending = states[a].pending /\ s.met = states[a].met
        /\ s.initialized = states[a].initialized
    BY <1>2 DEF State
  <2>3. ev \in Events /\ ev.activity = db[a].activity
    BY <1>2 DEF Events
  <2> HIDE DEF s, ev
  <2> QED  BY <1>1, <2>1, <2>2, <2>3, OperatedOK
<1> QED  BY <1>3, <1>4 DEF Shelve, Unshelve

LEMMA ShelfElapsesOK ==
    ASSUME EngineInv, NEW a \in Alarms, ShelfElapses(a)
    PROVE  EngineInv'
<1> DEFINE ev == [db[a] EXCEPT !.shelve = IF @ = "shelved" THEN "over" ELSE @]
           Taken(s) == [s EXCEPT !.shelved = FALSE]
<1>1. /\ states' = [b \in DOMAIN rules |-> IF b = a THEN Taken(states[b]) ELSE states[b]]
      /\ db' = [db EXCEPT ![a] = ev]
      /\ UNCHANGED <<rules, unpaired, overwritten>>
  BY DEF ShelfElapses
<1>2. /\ DOMAIN rules \subseteq Alarms /\ db \in [Alarms -> Events]
      /\ states \in [DOMAIN rules -> State]
  BY DEF EngineInv, EngineTypeOK
<1>3. ev \in Events /\ ev.activity = db[a].activity
  <2>1. db[a] \in Events
    BY <1>2
  <2> QED  BY <2>1 DEF Events
<1>4. \A s \in State : /\ Taken(s) \in State /\ Taken(s).armed = s.armed
                       /\ Taken(s).active = s.active /\ Taken(s).pending = s.pending
                       /\ Taken(s).met = s.met /\ Taken(s).initialized = s.initialized
  BY DEF State
<1> HIDE DEF ev, Taken
<1>5. /\ states' \in [DOMAIN rules -> State]
      /\ db' \in [Alarms -> Events]
  BY <1>1, <1>2, <1>3, <1>4
<1>6. \A b \in DOMAIN rules : AlarmOK(states'[b], db'[b], b \in overwritten)
  <2> TAKE b \in DOMAIN rules
  <2>1. AlarmOK(states[b], db[b], b \in overwritten) /\ states[b] \in State
    BY <1>2 DEF EngineInv
  <2>2. states'[b] = states[b] \/ states'[b] = Taken(states[b])
    BY <1>1
  <2>3. db'[b].activity = db[b].activity
    BY <1>1, <1>2, <1>3
  <2> QED  BY <2>1, <2>2, <2>3, <1>4 DEF AlarmOK
<1> QED  BY <1>1, <1>5, <1>6 DEF EngineInv, EngineTypeOK, EventsPair

LEMMA RuleFileOK ==
    ASSUME NEW f \in RuleFiles
    PROVE  f \in [DOMAIN f -> Rule] /\ DOMAIN f \subseteq Alarms
OBVIOUS

LEMMA SwapRulesOK ==
    ASSUME EngineInv, NEW new \in RuleFiles, SwapRules(new)
    PROVE  EngineInv'
<1>1. /\ rules' = new
      /\ states' = [a \in DOMAIN new |-> IF a \in DOMAIN rules THEN states[a] ELSE Fresh]
      /\ UNCHANGED <<db, unpaired, overwritten>>
  BY DEF SwapRules, Carried
<1>2. states' \in [DOMAIN new -> State]
  BY <1>1, FreshOK DEF EngineInv, EngineTypeOK
<1>3. \A a \in DOMAIN new : AlarmOK(states'[a], db[a], a \in overwritten)
  BY <1>1, FreshOK DEF EngineInv, AlarmOK
<1> QED  BY <1>1, <1>2, <1>3, RuleFileOK DEF EngineInv, EngineTypeOK, EventsPair

LEMMA LoadLocalRulesOK ==
    ASSUME EngineInv, NEW new \in RuleFiles, LoadLocalRules(new)
    PROVE  EngineInv'
<1>1. /\ rules' = new /\ states' = [a \in DOMAIN new |-> Fresh]
      /\ UNCHANGED <<db, unpaired, overwritten>>
  BY DEF LoadLocalRules
<1>2. states' \in [DOMAIN new -> State]
  BY <1>1, FreshOK
<1>3. \A a \in DOMAIN new : AlarmOK(states'[a], db[a], a \in overwritten)
  BY <1>1, FreshOK DEF AlarmOK
<1> QED  BY <1>1, <1>2, <1>3, RuleFileOK DEF EngineInv, EngineTypeOK, EventsPair

(* States overwritten with events that are still the latest stay armed only   *)
(* for an activation that is the last event.                                 *)
LEMMA RestoreFromOK ==
    ASSUME EngineInv, NEW evs \in [Alarms -> Events], RestoreFrom(evs)
    PROVE  EngineInv'
<1>1. /\ states' = [a \in DOMAIN rules |-> Restored(states[a], evs[a])]
      /\ overwritten' = overwritten \cup {a \in DOMAIN rules : evs[a] # db[a]}
      /\ UNCHANGED <<rules, db, unpaired>>
  BY DEF RestoreFrom
<1>2. ASSUME NEW a \in DOMAIN rules
      PROVE  states'[a] \in State /\ AlarmOK(states'[a], db[a], a \in overwritten')
  <2>1. /\ states[a] \in State /\ evs[a] \in Events
        /\ AlarmOK(states[a], db[a], a \in overwritten)
    BY DEF EngineInv, EngineTypeOK
  <2>2. states'[a] = Restored(states[a], evs[a])
    BY <1>1
  <2>3. /\ states'[a] \in State
        /\ states'[a].armed => states'[a].active
        /\ states'[a].pending => states'[a].met /\ states'[a].initialized
        /\ states'[a].armed =>
              evs[a].activity = "active" \/ (evs[a].activity = "none" /\ states[a].armed)
    BY <2>1, <2>2, RestoredOK DEF AlarmOK
  <2>4. a \in overwritten' \/ (evs[a] = db[a] /\ a \notin overwritten)
    BY <1>1
  <2> QED  BY <2>1, <2>3, <2>4 DEF AlarmOK
<1>3. states' \in [DOMAIN rules -> State]
  BY <1>1, <1>2
<1> QED  BY <1>1, <1>2, <1>3 DEF EngineInv, EngineTypeOK, EventsPair

LEMMA StartEngineOK ==
    ASSUME EngineInv, NEW new \in RuleFiles, StartEngine(new)
    PROVE  EngineInv'
<1>1. /\ rules' = new /\ states' = [a \in DOMAIN new |-> Restored(Fresh, db[a])]
      /\ UNCHANGED <<db, unpaired, overwritten>>
  BY DEF StartEngine
<1>2. ASSUME NEW a \in DOMAIN new
      PROVE  states'[a] \in State /\ AlarmOK(states'[a], db[a], a \in overwritten)
  <2>1. db[a] \in Events
    BY RuleFileOK DEF EngineInv, EngineTypeOK
  <2>2. states'[a] = Restored(Fresh, db[a])
    BY <1>1
  <2> QED  BY <2>1, <2>2, FreshOK, RestoredOK DEF AlarmOK
<1>3. states' \in [DOMAIN new -> State]
  BY <1>1, <1>2
<1> QED  BY <1>1, <1>2, <1>3, RuleFileOK DEF EngineInv, EngineTypeOK, EventsPair

(***************************************************************************)
(* The client                                                              *)
(***************************************************************************)

Requests == [seed : BOOLEAN, record : BOOLEAN, baseline : BOOLEAN]

(* The parts of the invariant beside the engine: opcbridge, whose file is    *)
(* never newer than the number of events; the connection; the callback; the   *)
(* loop with its request; and the reloaders with what they have read.        *)
BridgeOK ==
    /\ value \in [Tags -> Values]
    /\ file \in Files /\ file.mtime <= events
    /\ reloading \in BOOLEAN
    /\ events \in 0 .. MaxEvents

LinkOK ==
    /\ link \in BOOLEAN
    /\ wire \in Seq(Messages) /\ Len(wire) <= MaxWire

CallbackOK ==
    /\ connected \in BOOLEAN /\ baselining \in BOOLEAN
    /\ seedRequested \in BOOLEAN /\ runtimeMaintenance \in BOOLEAN

HttpOK ==
    /\ http = [seed |-> http.seed, record |-> http.record, baseline |-> http.baseline,
               keys |-> http.keys, row |-> http.row]
    /\ http.seed \in BOOLEAN /\ http.record \in BOOLEAN /\ http.baseline \in BOOLEAN

LoopOK ==
    /\ pc \in {"sleep", "awake", "asked", "served"}
    /\ HttpOK
    /\ resubscribe \in BOOLEAN

Places == {Idle}
          \cup [at : {"fetched", "differs"}, body : Files, prev : Mtimes]
          \cup [at : {"loaded"}, prev : Mtimes]
          \cup [at : {"restoring"}, events : [Alarms -> Events]]

ConfigOK ==
    /\ mtime \in Mtimes /\ hash \subseteq RuleFiles /\ fellBack \in BOOLEAN
    /\ reloader \in [Reloaders -> Places]

ClientOK == BridgeOK /\ LinkOK /\ CallbackOK /\ LoopOK /\ ConfigOK

IInv == EngineInv /\ ClientOK

LEMMA EngineUnchanged ==
    ASSUME EngineInv, UNCHANGED engineVars
    PROVE  EngineInv'
BY DEF EngineInv, engineVars, EngineTypeOK, EventsPair, AlarmOK

LEMMA BridgeUnchanged ==
    ASSUME BridgeOK, UNCHANGED bridgeVars, External \/ UNCHANGED events
    PROVE  BridgeOK'
BY DEF BridgeOK, bridgeVars, External, Files, Mtimes

LEMMA LinkUnchanged ==
    ASSUME LinkOK, UNCHANGED <<link, wire>>
    PROVE  LinkOK'
BY DEF LinkOK

LEMMA EmptyWire ==
    ASSUME link' \in BOOLEAN, wire' = <<>>
    PROVE  LinkOK'
<1>1. MaxWire \in Nat
  BY ClientConstants
<1>2. Len(<<>>) = 0 /\ <<>> \in Seq(Messages)
  OBVIOUS
<1> QED  BY <1>1, <1>2 DEF LinkOK

LEMMA CallbackUnchanged ==
    ASSUME CallbackOK, UNCHANGED clientVars
    PROVE  CallbackOK'
BY DEF CallbackOK, clientVars

LEMMA LoopUnchanged ==
    ASSUME LoopOK, UNCHANGED <<loopVars, resubscribe>>
    PROVE  LoopOK'
BY DEF LoopOK, HttpOK, loopVars

LEMMA ConfigUnchanged ==
    ASSUME ConfigOK, UNCHANGED configVars
    PROVE  ConfigOK'
BY DEF ConfigOK, configVars

LEMMA NoRequestOK ==
    ASSUME http' = NoRequest
    PROVE  HttpOK'
BY DEF HttpOK, NoRequest

LEMMA SendOK ==
    ASSUME LinkOK, Room, NEW m \in Messages, Send(m) \/ UNCHANGED wire, link' = link
    PROVE  LinkOK'
BY DEF LinkOK, Room, Send

(***************************************************************************)
(* One lemma per actor                                                     *)
(***************************************************************************)

LEMMA BridgeStep ==
    ASSUME IInv,
           \/ \E t \in Tags, v \in Values, sent \in BOOLEAN : Change(t, v, sent)
           \/ \E r \in RuleFiles : SaveRules(r)
           \/ BeginReload \/ EndReload
           \/ \E restart \in BOOLEAN : LoseLink(restart)
    PROVE  IInv'
<1>1. ASSUME NEW t \in Tags, NEW v \in Values, NEW sent \in BOOLEAN, Change(t, v, sent)
      PROVE  IInv'
  <2>1. BridgeOK'
    BY <1>1 DEF Change, IInv, ClientOK, BridgeOK, External, Files, Mtimes
  <2>2. LinkOK'
    <3>1. [type |-> "value", tag |-> t, value |-> v] \in Messages
      BY DEF Messages
    <3> QED  BY <1>1, <3>1, SendOK DEF Change, IInv, ClientOK
  <2> QED  BY <1>1, <2>1, <2>2, EngineUnchanged, CallbackUnchanged, LoopUnchanged,
              ConfigUnchanged DEF Change, IInv, ClientOK
<1>2. ASSUME NEW r \in RuleFiles, SaveRules(r)
      PROVE  IInv'
  <2>1. BridgeOK'
    BY <1>2 DEF SaveRules, IInv, ClientOK, BridgeOK, External, Files, Mtimes
  <2> QED  BY <1>2, <2>1, EngineUnchanged, LinkUnchanged, CallbackUnchanged, LoopUnchanged,
              ConfigUnchanged DEF SaveRules, IInv, ClientOK
<1>3. ASSUME BeginReload \/ EndReload
      PROVE  IInv'
  <2>1. BridgeOK'
    <3>1. /\ UNCHANGED <<value, file>> /\ reloading' \in BOOLEAN
          /\ External \/ UNCHANGED events
      BY <1>3 DEF BeginReload, EndReload
    <3> QED  BY <3>1 DEF IInv, ClientOK, BridgeOK, External, Files, Mtimes
  <2>2. LinkOK'
    <3>1. [type |-> "begin"] \in Messages /\ [type |-> "end"] \in Messages
      BY DEF Messages
    <3> QED  BY <1>3, <3>1, SendOK DEF BeginReload, EndReload, IInv, ClientOK
  <2> QED  BY <1>3, <2>1, <2>2, EngineUnchanged, CallbackUnchanged, LoopUnchanged,
              ConfigUnchanged DEF BeginReload, EndReload, IInv, ClientOK
<1>4. ASSUME NEW restart \in BOOLEAN, LoseLink(restart)
      PROVE  IInv'
  <2>1. BridgeOK'
    BY <1>4 DEF LoseLink, IInv, ClientOK, BridgeOK, External, Files, Mtimes
  <2>2. LinkOK'
    BY <1>4 DEF LoseLink, IInv, ClientOK, LinkOK
  <2> QED  BY <1>4, <2>1, <2>2, EngineUnchanged, CallbackUnchanged, LoopUnchanged,
              ConfigUnchanged DEF LoseLink, IInv, ClientOK
<1> QED  BY <1>1, <1>2, <1>3, <1>4

LEMMA CallbackStep ==
    ASSUME IInv, Open \/ Close \/ Receive
    PROVE  IInv'
<1>1. CASE Open
  <2>1. LinkOK' /\ CallbackOK' /\ LoopOK'
    BY <1>1 DEF Open, IInv, ClientOK, LinkOK, CallbackOK, LoopOK, HttpOK, loopVars
  <2> QED  BY <1>1, <2>1, EngineUnchanged, BridgeUnchanged, ConfigUnchanged
           DEF Open, IInv, ClientOK
<1>2. CASE Close
  <2>1. LinkOK'
    BY <1>2, EmptyWire DEF Close, IInv, ClientOK, LinkOK
  <2>2. CallbackOK'
    BY <1>2 DEF Close, IInv, ClientOK, CallbackOK
  <2> QED  BY <1>2, <2>1, <2>2, EngineUnchanged, BridgeUnchanged, LoopUnchanged,
              ConfigUnchanged DEF Close, IInv, ClientOK
<1>3. CASE Receive
  <2>1. LinkOK'
    BY <1>3 DEF Receive, IInv, ClientOK, LinkOK
  <2>2. EngineInv' /\ CallbackOK'
    <3>1. CASE ReceiveValue
      <4>1. PICK elapsed \in BOOLEAN :
               Apply(Head(wire).tag, Head(wire).value, RecordNow(elapsed))
        BY <3>1 DEF ReceiveValue
      <4>2. RecordNow(elapsed) \in BOOLEAN
        BY DEF RecordNow
      <4>3. EngineInv'
        BY <4>1, <4>2, ApplyOK DEF IInv
      <4> QED  BY <3>1, <4>3, CallbackUnchanged DEF ReceiveValue, IInv, ClientOK
    <3>2. CASE ReceiveBegin \/ ReceiveEnd
      <4>1. CallbackOK'
        BY <3>2 DEF ReceiveBegin, ReceiveEnd, IInv, ClientOK, CallbackOK
      <4> QED  BY <3>2, <4>1, EngineUnchanged DEF ReceiveBegin, ReceiveEnd, IInv
    <3> QED  BY <1>3, <3>1, <3>2 DEF Receive
  <2> QED  BY <1>3, <2>1, <2>2, BridgeUnchanged, LoopUnchanged, ConfigUnchanged
           DEF Receive, IInv, ClientOK
<1> QED  BY <1>1, <1>2, <1>3

LEMMA LoopStepOK ==
    ASSUME IInv, Loop
    PROVE  IInv'
<1>1. CASE Wake
  <2>1. CallbackOK' /\ LoopOK'
    BY <1>1 DEF Wake, IInv, ClientOK, CallbackOK, LoopOK, HttpOK
  <2> QED  BY <1>1, <2>1, EngineUnchanged, BridgeUnchanged, LinkUnchanged, ConfigUnchanged
           DEF Wake, IInv, ClientOK
<1>2. CASE Ask
  <2>1. LoopOK'
    BY <1>2 DEF Ask, LoopStep, RecordNow, IInv, ClientOK, CallbackOK, LoopOK, HttpOK
  <2>2. CallbackOK'
    BY <1>2 DEF Ask, LoopStep, IInv, ClientOK, CallbackOK
  <2> QED  BY <1>2, <2>1, <2>2, EngineUnchanged, BridgeUnchanged, LinkUnchanged,
              ConfigUnchanged DEF Ask, LoopStep, IInv, ClientOK
<1>3. CASE Serve
  <2>1. LoopOK'
    <3> DEFINE row == [t \in http.keys |-> value[t]]
    <3>1. http' = [http EXCEPT !.row = row] /\ pc' = "served" /\ resubscribe' = resubscribe
      BY <1>3 DEF Serve, LoopStep
    <3> HIDE DEF row
    <3>2. HttpOK'
      BY <3>1 DEF IInv, ClientOK, LoopOK, HttpOK
    <3> QED  BY <3>1, <3>2 DEF IInv, ClientOK, LoopOK
  <2>2. CallbackOK'
    BY <1>3 DEF Serve, LoopStep, IInv, ClientOK, CallbackOK
  <2> QED  BY <1>3, <2>1, <2>2, EngineUnchanged, BridgeUnchanged, LinkUnchanged,
              ConfigUnchanged DEF Serve, LoopStep, IInv, ClientOK
<1>4. ASSUME Answer \/ Fail
      PROVE  IInv'
  <2>1. LoopOK'
    BY <1>4, NoRequestOK DEF Answer, Fail, Done, LoopStep, IInv, ClientOK, LoopOK
  <2>2. CallbackOK'
    BY <1>4 DEF Answer, Fail, LoopStep, IInv, ClientOK, CallbackOK, LoopOK, HttpOK
  <2>3. EngineInv'
    <3>1. http.record \in BOOLEAN
      BY DEF IInv, ClientOK, LoopOK, HttpOK
    <3> QED  BY <1>4, <3>1, ApplyRowsOK, EngineUnchanged DEF Answer, Fail, IInv
  <2> QED  BY <1>4, <2>1, <2>2, <2>3, BridgeUnchanged, LinkUnchanged, ConfigUnchanged
           DEF Answer, Fail, LoopStep, IInv, ClientOK
<1> QED  BY <1>1, <1>2, <1>3, <1>4 DEF Loop

LEMMA ConfigStepOK ==
    ASSUME IInv, ConfigStep, resubscribe' \in BOOLEAN, External \/ UNCHANGED events,
           EngineInv', mtime' \in Mtimes, hash' \subseteq RuleFiles, fellBack' \in BOOLEAN,
           NEW p \in Reloaders, NEW place \in Places,
           reloader' = [reloader EXCEPT ![p] = place]
    PROVE  IInv'
<1>1. ConfigOK'
  BY DEF IInv, ClientOK, ConfigOK
<1>2. LoopOK'
  BY DEF ConfigStep, loopVars, IInv, ClientOK, LoopOK, HttpOK
<1> QED  BY <1>1, <1>2, BridgeUnchanged, LinkUnchanged, CallbackUnchanged
         DEF ConfigStep, IInv, ClientOK

LEMMA PlaceOK ==
    ASSUME IInv, NEW p \in Reloaders
    PROVE  /\ At(p, "fetched") \/ At(p, "differs") =>
                 /\ reloader[p] = [at |-> reloader[p].at, body |-> reloader[p].body,
                                  prev |-> reloader[p].prev]
                 /\ reloader[p].body \in Files /\ reloader[p].prev \in Mtimes
           /\ At(p, "restoring") => reloader[p].events \in [Alarms -> Events]
<1>1. reloader[p] \in Places
  BY DEF IInv, ClientOK, ConfigOK
<1> QED  BY <1>1 DEF At, Places, Idle

(* What a reloader turns to after a body has been compared or installed.      *)
LEMMA CompareTo ==
    ASSUME IInv, NEW p \in Reloaders, CompareRules(p)
    PROVE  \/ \E place \in {[at |-> "loaded", prev |-> reloader[p].prev], Idle} :
                 reloader' = [reloader EXCEPT ![p] = place]
           \/ reloader' = [reloader EXCEPT ![p] =
                 [at |-> "differs", body |-> reloader[p].body, prev |-> reloader[p].prev]]
<1>1. reloader \in [Reloaders -> Places]
  BY DEF IInv, ClientOK, ConfigOK
<1>2. CASE SameBody(reloader[p].body)
  BY <1>1, <1>2 DEF CompareRules
<1>3. CASE ~SameBody(reloader[p].body)
  <2>1. reloader' = [reloader EXCEPT ![p].at = "differs"]
    BY <1>3 DEF CompareRules
  <2>2. reloader[p] = [at |-> reloader[p].at, body |-> reloader[p].body,
                       prev |-> reloader[p].prev]
    BY PlaceOK DEF CompareRules
  <2>3. [reloader[p] EXCEPT !.at = "differs"] =
           [at |-> "differs", body |-> reloader[p].body, prev |-> reloader[p].prev]
    BY <2>2
  <2>4. reloader' = [reloader EXCEPT ![p] = [reloader[p] EXCEPT !.at = "differs"]]
    BY <1>1, <2>1
  <2> QED  BY <2>3, <2>4
<1> QED  BY <1>2, <1>3

LEMMA InstallTo ==
    ASSUME IInv, NEW p \in Reloaders, InstallRules(p)
    PROVE  /\ At(p, "differs") /\ SwapRules(reloader[p].body.rules)
           /\ mtime' = reloader[p].body.mtime /\ hash' = {reloader[p].body.rules}
           /\ fellBack' = FALSE /\ UNCHANGED <<resubscribe, events>> /\ ConfigStep
           /\ reloader' = [reloader EXCEPT ![p] = [at |-> "loaded", prev |-> reloader[p].prev]]
<1>1. reloader \in [Reloaders -> Places]
  BY DEF IInv, ClientOK, ConfigOK
<1> QED  BY <1>1 DEF InstallRules, InstallWithTime

LEMMA FallBackTo ==
    ASSUME IInv, FallBack
    PROVE  reloader' = [reloader EXCEPT !["post"] =
              [at |-> "loaded", prev |-> reloader["post"].prev]]
<1>1. reloader \in [Reloaders -> Places] /\ "post" \in Reloaders
  BY DEF IInv, ClientOK, ConfigOK, Reloaders
<1> QED  BY <1>1 DEF FallBack

LEMMA ReloadStep ==
    ASSUME IInv, \E p \in Reloaders : Reload(p) \/ FallBack
    PROVE  IInv'
<1>0. /\ file \in Files /\ mtime \in Mtimes /\ resubscribe \in BOOLEAN /\ EngineInv
      /\ db \in [Alarms -> Events] /\ hash \subseteq RuleFiles /\ fellBack \in BOOLEAN
  BY DEF IInv, ClientOK, BridgeOK, ConfigOK, LoopOK, EngineInv, EngineTypeOK
<1>1. ASSUME NEW p \in Reloaders, FetchRules(p)
      PROVE  IInv'
  <2>1. [at |-> "fetched", body |-> file, prev |-> mtime] \in Places
    BY <1>0 DEF Places
  <2> QED  BY <1>0, <1>1, <2>1, EngineUnchanged, ConfigStepOK DEF FetchRules
<1>2. ASSUME NEW p \in Reloaders, CompareRules(p)
      PROVE  IInv'
  <2>1. reloader[p].body \in Files /\ reloader[p].prev \in Mtimes
    BY <1>2, PlaceOK DEF CompareRules
  <2>2. /\ Idle \in Places /\ [at |-> "loaded", prev |-> reloader[p].prev] \in Places
        /\ [at |-> "differs", body |-> reloader[p].body, prev |-> reloader[p].prev] \in Places
    BY <2>1 DEF Places
  <2>3. PICK place \in Places : reloader' = [reloader EXCEPT ![p] = place]
    BY <1>2, <2>2, CompareTo
  <2>4. EngineInv' /\ UNCHANGED <<resubscribe, mtime, hash, fellBack, events>> /\ ConfigStep
    BY <1>0, <1>2, EngineUnchanged DEF CompareRules
  <2> QED  BY <1>0, <2>3, <2>4, ConfigStepOK
<1>3. ASSUME NEW p \in Reloaders, InstallRules(p)
      PROVE  IInv'
  <2>1. reloader[p].body \in Files /\ reloader[p].prev \in Mtimes
    BY <1>3, InstallTo, PlaceOK
  <2>2. reloader[p].body.rules \in RuleFiles /\ reloader[p].body.mtime \in Mtimes
    BY <2>1 DEF Files
  <2>3. EngineInv' /\ mtime' \in Mtimes /\ hash' \subseteq RuleFiles /\ fellBack' \in BOOLEAN
    BY <1>0, <1>3, <2>2, SwapRulesOK, InstallTo
  <2>4. [at |-> "loaded", prev |-> reloader[p].prev] \in Places
    BY <2>1 DEF Places
  <2> QED  BY <1>0, <1>3, <2>3, <2>4, InstallTo, ConfigStepOK
<1>4. ASSUME NEW p \in Reloaders, ReadEvents(p)
      PROVE  IInv'
  <2>1. [at |-> "restoring", events |-> db] \in Places /\ Idle \in Places
    BY <1>0 DEF Places
  <2>2. EngineInv' /\ UNCHANGED <<mtime, hash, fellBack, events>> /\ ConfigStep
    BY <1>0, <1>4, EngineUnchanged DEF ReadEvents
  <2>3. resubscribe' \in BOOLEAN
    BY <1>0, <1>4 DEF ReadEvents
  <2>4. PICK place \in Places : reloader' = [reloader EXCEPT ![p] = place]
    BY <1>4, <2>1 DEF ReadEvents
  <2> QED  BY <1>0, <2>2, <2>3, <2>4, ConfigStepOK
<1>5. ASSUME NEW p \in Reloaders, RestoreStates(p)
      PROVE  IInv'
  <2>1. reloader[p].events \in [Alarms -> Events]
    BY <1>5, PlaceOK DEF RestoreStates
  <2>2. EngineInv'
    BY <1>0, <1>5, <2>1, RestoreFromOK DEF RestoreStates
  <2>3. Idle \in Places
    BY DEF Places
  <2> QED  BY <1>0, <1>5, <2>2, <2>3, ConfigStepOK DEF RestoreStates
<1>6. ASSUME FallBack
      PROVE  IInv'
  <2>1. EngineInv'
    BY <1>0, <1>6, LoadLocalRulesOK DEF FallBack
  <2>2. "post" \in Reloaders
    BY DEF Reloaders
  <2>3. [at |-> "loaded", prev |-> reloader["post"].prev] \in Places
    BY <1>6, <2>2, PlaceOK DEF FallBack, Places
  <2> QED  BY <1>0, <1>6, <2>1, <2>2, <2>3, FallBackTo, ConfigStepOK DEF FallBack
<1> QED  BY <1>1, <1>2, <1>3, <1>4, <1>5, <1>6 DEF Reload, Loading

LEMMA EngineStep ==
    ASSUME IInv,
           (\E ripe \in SUBSET DOMAIN rules : PendingDue(ripe)) \/ Operator \/ Unshelved
    PROVE  IInv'
<1>1. EngineInv'
  BY ProcessPendingOK, OperatorOK, ShelfElapsesOK DEF PendingDue, Operator, Unshelved, IInv
<1>2. Others /\ (External \/ UNCHANGED events)
  BY DEF PendingDue, Operator, Unshelved
<1> QED  BY <1>1, <1>2, BridgeUnchanged, LinkUnchanged, CallbackUnchanged, LoopUnchanged,
            ConfigUnchanged DEF Others, IInv, ClientOK

LEMMA RestartStep ==
    ASSUME IInv, Restart
    PROVE  IInv'
<1>1. PICK new \in RuleFiles, m \in Mtimes, h \in SUBSET RuleFiles : Started(new, m, h)
  BY DEF Restart, IInv, ClientOK, BridgeOK, Files, Mtimes
<1>2. EngineInv'
  BY <1>1, StartEngineOK DEF Started, IInv
<1>3. LinkOK' /\ CallbackOK'
  BY <1>1, EmptyWire DEF Started, CallbackOK
<1>4. LoopOK'
  BY <1>1, NoRequestOK DEF Started, LoopOK
<1>5. ConfigOK'
  BY <1>1 DEF Started, ConfigOK, Places
<1>6. BridgeOK'
  BY BridgeUnchanged DEF Restart, IInv, ClientOK
<1> QED  BY <1>2, <1>3, <1>4, <1>5, <1>6 DEF IInv, ClientOK

LEMMA InitOK ==
    Init => IInv
<1> SUFFICES ASSUME Init PROVE IInv
  OBVIOUS
<1>1. file \in Files /\ file.mtime = 0 /\ file.rules \in RuleFiles
  BY DEF Init, Files, Mtimes
<1>2. rules \in RuleFiles /\ mtime \in Mtimes /\ hash \subseteq RuleFiles
  BY <1>1 DEF Init, Mtimes
<1>3. EngineInv
  <2>1. NoEvents \in Events
    BY DEF NoEvents, Events
  <2>2. states \in [DOMAIN rules -> State] /\ db \in [Alarms -> Events]
    BY <2>1, FreshOK DEF Init
  <2>3. \A a \in DOMAIN rules : AlarmOK(states[a], db[a], a \in overwritten)
    BY FreshOK DEF Init, AlarmOK
  <2> QED  BY <1>2, <2>2, <2>3, RuleFileOK DEF Init, EngineInv, EngineTypeOK, EventsPair
<1>4. BridgeOK
  <2>1. StartValues \subseteq Values
    BY ClientConstants DEF Values
  <2>2. value \in [Tags -> Values]
    BY <2>1 DEF Init
  <2>3. MaxEvents \in Nat
    BY ClientConstants
  <2>4. reloading = FALSE /\ events = 0
    BY DEF Init
  <2>5. file.mtime <= events /\ events \in 0 .. MaxEvents
    BY <1>1, <2>3, <2>4
  <2>6. reloading \in BOOLEAN
    BY <2>4
  <2> QED  BY <1>1, <2>2, <2>5, <2>6 DEF BridgeOK
<1>5. LinkOK /\ CallbackOK
  <2>1. MaxWire \in Nat
    BY ClientConstants
  <2>2. Len(<<>>) = 0 /\ <<>> \in Seq(Messages)
    OBVIOUS
  <2>3. link = FALSE /\ wire = <<>>
    BY DEF Init
  <2>4. link \in BOOLEAN
    BY <2>3
  <2>5. LinkOK
    BY <2>1, <2>2, <2>3, <2>4 DEF LinkOK
  <2>6. CallbackOK
    BY DEF Init, CallbackOK
  <2> QED  BY <2>5, <2>6
<1>6. LoopOK
  BY DEF Init, LoopOK, HttpOK, NoRequest
<1>7. ConfigOK
  BY <1>2 DEF Init, ConfigOK, Places
<1> QED  BY <1>3, <1>4, <1>5, <1>6, <1>7 DEF IInv, ClientOK

LEMMA NextOK ==
    IInv /\ [Next]_vars => IInv'
<1> SUFFICES ASSUME IInv, [Next]_vars PROVE IInv'
  OBVIOUS
<1>1. CASE UNCHANGED vars
  BY <1>1, EngineUnchanged, BridgeUnchanged, LinkUnchanged, CallbackUnchanged,
     LoopUnchanged, ConfigUnchanged DEF vars, IInv, ClientOK
<1>2. CASE \/ \E t \in Tags, v \in Values, sent \in BOOLEAN : Change(t, v, sent)
           \/ \E r \in RuleFiles : SaveRules(r)
           \/ BeginReload \/ EndReload
           \/ \E restart \in BOOLEAN : LoseLink(restart)
  BY <1>2, BridgeStep
<1>3. CASE Callback
  BY <1>3, CallbackStep DEF Callback
<1>4. CASE Loop
  BY <1>4, LoopStepOK
<1>5. CASE (\E p \in Reloaders : Reload(p)) \/ FallBack
  <2>1. \E p \in Reloaders : Reload(p) \/ FallBack
    BY <1>5 DEF Reloaders
  <2> QED  BY <2>1, ReloadStep
<1>6. CASE (\E ripe \in SUBSET DOMAIN rules : PendingDue(ripe)) \/ Operator \/ Unshelved
  BY <1>6, EngineStep
<1>7. CASE Restart
  BY <1>7, RestartStep
<1> QED  BY <1>1, <1>2, <1>3, <1>4, <1>5, <1>6, <1>7 DEF Next

LEMMA IInvAlways ==
    Spec => []IInv
BY InitOK, NextOK, PTL DEF Spec

LEMMA InvTypeOK ==
    IInv => TypeOK
<1> SUFFICES ASSUME IInv PROVE TypeOK
  OBVIOUS
<1>1. EngineTypeOK
  BY DEF IInv, EngineInv
<1>2. /\ value \in [Tags -> Values] /\ file \in Files
      /\ wire \in Seq(Messages) /\ Len(wire) <= MaxWire
      /\ pc \in {"sleep", "awake", "asked", "served"}
      /\ mtime \in Mtimes /\ hash \subseteq RuleFiles /\ fellBack \in BOOLEAN
      /\ events \in 0 .. MaxEvents
  BY DEF IInv, ClientOK, BridgeOK, LinkOK, LoopOK, ConfigOK
<1>3. {reloading, link, connected, baselining, seedRequested,
       runtimeMaintenance, resubscribe} \subseteq BOOLEAN
  BY DEF IInv, ClientOK, BridgeOK, LinkOK, CallbackOK, LoopOK
<1> QED  BY <1>1, <1>2, <1>3 DEF TypeOK

(***************************************************************************)
(* The rules and the time they are remembered with                         *)
(***************************************************************************)

(* No time is ahead of the one at opcbridge; a body under way with that time  *)
(* has its rules.                                                            *)
BodiesOK ==
    \A p \in Reloaders : At(p, "fetched") \/ At(p, "differs") =>
        LET body == reloader[p].body
        IN  body.mtime <= file.mtime /\ (body.mtime = file.mtime => body.rules = file.rules)

(* The time and the contents remembered are those of the rules in force, or  *)
(* of the ones before the fallback, which left both alone.                   *)
RememberedOK ==
    \/ fellBack
    \/ /\ hash \subseteq {rules}
       /\ mtime = file.mtime => rules = file.rules

RulesInv == file.mtime >= 0 /\ mtime <= file.mtime /\ BodiesOK /\ RememberedOK

LEMMA RulesInit ==
    Init => RulesInv
<1> SUFFICES ASSUME Init PROVE RulesInv
  OBVIOUS
<1>1. file.mtime = 0 /\ mtime \in {0, -1}
  BY DEF Init
<1>2. BodiesOK
  BY DEF Init, BodiesOK, At, Idle
<1>3. RememberedOK
  BY <1>1 DEF Init, RememberedOK
<1> QED  BY <1>1, <1>2, <1>3 DEF RulesInv

(* What most steps leave alone.                                              *)
RulesKept == UNCHANGED <<rules, mtime, hash, fellBack, file>>

(* Steps that leave the rules, what is remembered of them and the file alone, *)
(* and no reloader with another body.                                        *)
LEMMA RulesUnchanged ==
    ASSUME RulesInv, RulesKept,
           \A p \in Reloaders :
              reloader'[p].at \in {"fetched", "differs"} =>
                 /\ At(p, "fetched") \/ At(p, "differs")
                 /\ reloader'[p].body = reloader[p].body
    PROVE  RulesInv'
BY DEF RulesInv, RulesKept, BodiesOK, RememberedOK, At

LEMMA ApplyKeepsRules ==
    ASSUME NEW t, NEW v, NEW record, Apply(t, v, record)
    PROVE  rules' = rules
BY DEF Apply

LEMMA ApplyRowsKeepsRules ==
    ASSUME NEW row, NEW record, ApplyRows(row, record)
    PROVE  rules' = rules
BY DEF ApplyRows

(* The steps that fetch no body and load no rules.                           *)
LEMMA QuietSteps ==
    ASSUME RulesInv,
           \/ \E t \in Tags, v \in Values, sent \in BOOLEAN : Change(t, v, sent)
           \/ BeginReload \/ EndReload
           \/ \E restart \in BOOLEAN : LoseLink(restart)
           \/ Callback \/ Loop
           \/ \E ripe \in SUBSET DOMAIN rules : PendingDue(ripe)
           \/ Operator \/ Unshelved
    PROVE  RulesInv'
<1> DEFINE Quiet == RulesKept /\ reloader' = reloader
<1>1. CASE \E t \in Tags, v \in Values, sent \in BOOLEAN : Change(t, v, sent)
  <2>1. Quiet
    BY <1>1 DEF Change, RulesKept, engineVars, configVars
  <2> QED  BY <2>1, RulesUnchanged DEF At
<1>2. CASE BeginReload \/ EndReload \/ Open \/ Close \/ \E restart \in BOOLEAN : LoseLink(restart)
  <2>1. Quiet
    BY <1>2 DEF BeginReload, EndReload, Open, Close, LoseLink, RulesKept, engineVars,
                bridgeVars, configVars
  <2> QED  BY <2>1, RulesUnchanged DEF At
<1>3. CASE Receive
  <2>1. rules' = rules
    BY <1>3, ApplyKeepsRules
       DEF Receive, ReceiveValue, ReceiveBegin, ReceiveEnd, engineVars
  <2>2. Quiet
    BY <1>3, <2>1 DEF Receive, RulesKept, bridgeVars, configVars
  <2> QED  BY <2>2, RulesUnchanged DEF At
<1>4. CASE Loop
  <2>1. rules' = rules
    BY <1>4, ApplyRowsKeepsRules DEF Loop, Wake, Ask, Serve, Answer, Fail, engineVars
  <2>2. Quiet
    BY <1>4, <2>1 DEF Loop, Wake, Ask, Serve, Answer, Fail, LoopStep, RulesKept,
                      bridgeVars, configVars
  <2> QED  BY <2>2, RulesUnchanged DEF At
<1>5. CASE \/ \E ripe \in SUBSET DOMAIN rules : PendingDue(ripe)
           \/ Operator \/ Unshelved
  <2>1. rules' = rules
    BY <1>5 DEF PendingDue, ProcessPending, Operator, Ack, Shelve, Unshelve, Operated,
                Unshelved, ShelfElapses
  <2>2. Quiet
    BY <1>5, <2>1 DEF PendingDue, Operator, Unshelved, Others, RulesKept, bridgeVars,
                      configVars
  <2> QED  BY <2>2, RulesUnchanged DEF At
<1> QED  BY <1>1, <1>2, <1>3, <1>4, <1>5 DEF Callback

(* A save moves the time past every body under way and past the one          *)
(* remembered.                                                               *)
LEMMA SaveStep ==
    ASSUME IInv, RulesInv, NEW r \in RuleFiles, SaveRules(r)
    PROVE  RulesInv'
<1>1. file' = [rules |-> r, mtime |-> file.mtime + 1] /\ file.mtime \in Int /\ mtime \in Int
  BY DEF SaveRules, IInv, ClientOK, BridgeOK, ConfigOK, Files, Mtimes
<1>2. UNCHANGED <<rules, mtime, hash, fellBack, reloader>>
  BY DEF SaveRules, engineVars, configVars
<1>3. file'.mtime = file.mtime + 1
  BY <1>1
<1>4. file'.mtime >= 0 /\ mtime' <= file'.mtime /\ mtime' # file'.mtime
  BY <1>1, <1>2, <1>3 DEF RulesInv
<1>5. ASSUME NEW p \in Reloaders, At(p, "fetched") \/ At(p, "differs")
      PROVE  reloader[p].body.mtime <= file'.mtime /\ reloader[p].body.mtime # file'.mtime
  <2>1. reloader[p].body.mtime <= file.mtime
    BY <1>5 DEF RulesInv, BodiesOK
  <2>2. reloader[p].body.mtime \in Int
    <3>1. reloader[p].body \in Files
      BY <1>5, PlaceOK, Zenon
    <3> QED  BY <3>1 DEF Files, Mtimes
  <2> QED  BY <2>1, <2>2, <1>1, <1>3
<1>6. BodiesOK'
  BY <1>2, <1>5 DEF BodiesOK, At
<1>7. RememberedOK'
  BY <1>2, <1>4 DEF RulesInv, RememberedOK
<1> QED  BY <1>4, <1>6, <1>7 DEF RulesInv

LEMMA ReloadRules ==
    ASSUME IInv, RulesInv, \E p \in Reloaders : Reload(p) \/ FallBack
    PROVE  RulesInv'
<1>0. reloader \in [Reloaders -> Places] /\ file.mtime \in Int /\ mtime \in Int
  BY DEF IInv, ClientOK, BridgeOK, ConfigOK, Files, Mtimes
<1>1. ASSUME NEW p \in Reloaders, FetchRules(p)
      PROVE  RulesInv'
  <2>1. RulesKept
    BY <1>1 DEF FetchRules, ConfigStep, RulesKept, bridgeVars, engineVars
  <2>2. reloader' = [reloader EXCEPT ![p] = [at |-> "fetched", body |-> file, prev |-> mtime]]
    BY <1>1 DEF FetchRules
  <2>3. reloader'[p].body = file /\ \A q \in Reloaders \ {p} : reloader'[q] = reloader[q]
    BY <1>0, <2>2
  <2>4. BodiesOK'
    BY <1>0, <2>1, <2>3 DEF BodiesOK, RulesInv, RulesKept, At
  <2> QED  BY <2>1, <2>4 DEF RulesInv, RulesKept, RememberedOK
<1>2. ASSUME NEW p \in Reloaders, CompareRules(p)
      PROVE  RulesInv'
  <2>1. RulesKept /\ At(p, "fetched")
    BY <1>2 DEF CompareRules, ConfigStep, RulesKept, bridgeVars, engineVars
  <2>2. \A q \in Reloaders : reloader'[q].at \in {"fetched", "differs"} =>
           /\ At(q, "fetched") \/ At(q, "differs")
           /\ reloader'[q].body = reloader[q].body
    BY <1>0, <1>2, <2>1, CompareTo DEF At, Idle
  <2> QED  BY <2>1, <2>2, RulesUnchanged
<1>3. ASSUME NEW p \in Reloaders, InstallRules(p)
      PROVE  RulesInv'
  <2>1. file' = file /\ rules' = reloader[p].body.rules
    BY <1>3, InstallTo DEF SwapRules, ConfigStep, bridgeVars
  <2>2. /\ reloader[p].body.mtime <= file.mtime
        /\ reloader[p].body.mtime = file.mtime => reloader[p].body.rules = file.rules
    BY <1>3, InstallTo DEF RulesInv, BodiesOK
  <2>3. reloader'[p].at = "loaded" /\ \A q \in Reloaders \ {p} : reloader'[q] = reloader[q]
    <3>1. reloader' = [reloader EXCEPT ![p] = [at |-> "loaded", prev |-> reloader[p].prev]]
      BY <1>3, InstallTo, Zenon
    <3> QED  BY <1>0, <3>1
  <2>4. BodiesOK'
    BY <2>1, <2>3 DEF BodiesOK, RulesInv, At
  <2>5. RememberedOK'
    BY <1>3, <2>1, <2>2, InstallTo DEF RememberedOK
  <2> QED  BY <1>3, <2>1, <2>2, <2>4, <2>5, InstallTo DEF RulesInv
<1>4. ASSUME NEW p \in Reloaders, ReadEvents(p) \/ RestoreStates(p)
      PROVE  RulesInv'
  <2>1. RulesKept
    BY <1>4 DEF ReadEvents, RestoreStates, RestoreFrom, ConfigStep, RulesKept, bridgeVars,
                engineVars
  <2>2. PICK place \in {[at |-> "restoring", events |-> db], Idle} :
           reloader' = [reloader EXCEPT ![p] = place]
    BY <1>4 DEF ReadEvents, RestoreStates
  <2>3. place.at \notin {"fetched", "differs"}
    BY <2>2 DEF Idle
  <2>4. \A q \in Reloaders : reloader'[q].at \in {"fetched", "differs"} =>
           /\ At(q, "fetched") \/ At(q, "differs")
           /\ reloader'[q].body = reloader[q].body
    BY <1>0, <2>2, <2>3 DEF At
  <2> QED  BY <2>1, <2>4, RulesUnchanged
<1>5. ASSUME FallBack
      PROVE  RulesInv'
  <2>1. rules' = LocalRules /\ mtime' = mtime /\ file' = file /\ fellBack' = TRUE
    BY <1>5 DEF FallBack, LoadLocalRules, ConfigStep, bridgeVars
  <2>2. \A q \in Reloaders : reloader'[q].at \in {"fetched", "differs"} =>
           reloader'[q] = reloader[q]
    BY <1>0, <1>5, FallBackTo
  <2>3. BodiesOK'
    BY <2>1, <2>2 DEF BodiesOK, RulesInv, At
  <2> QED  BY <2>1, <2>3 DEF RulesInv, RememberedOK
<1> QED  BY <1>1, <1>2, <1>3, <1>4, <1>5 DEF Reload, Loading

LEMMA RestartRules ==
    ASSUME IInv, RulesInv, Restart
    PROVE  RulesInv'
<1>1. PICK new, m, h : /\ Started(new, m, h)
                      /\ \/ new = file.rules /\ m = file.mtime /\ h = {file.rules}
                         \/ new = LocalRules /\ m = -1 /\ h = {}
  BY DEF Restart
<1>2. file' = file /\ rules' = new /\ mtime' = m /\ hash' = h
  BY <1>1 DEF Restart, Started, StartEngine, bridgeVars
<1>3. BodiesOK'
  BY <1>1 DEF Started, BodiesOK, At, Idle
<1>4. m <= file.mtime
  <2>1. file.mtime \in Int
    BY DEF IInv, ClientOK, BridgeOK, Files, Mtimes
  <2> QED  BY <1>1, <2>1 DEF RulesInv
<1>5. RememberedOK'
  BY <1>1, <1>2 DEF RulesInv, RememberedOK
<1> QED  BY <1>2, <1>3, <1>4, <1>5 DEF RulesInv

LEMMA RulesNext ==
    IInv /\ RulesInv /\ [Next]_vars => RulesInv'
<1> SUFFICES ASSUME IInv, RulesInv, [Next]_vars PROVE RulesInv'
  OBVIOUS
<1>1. CASE UNCHANGED vars
  BY <1>1, RulesUnchanged DEF vars, RulesKept, At, engineVars, bridgeVars, configVars
<1>2. CASE \E r \in RuleFiles : SaveRules(r)
  BY <1>2, SaveStep
<1>3. CASE (\E p \in Reloaders : Reload(p)) \/ FallBack
  <2>1. \E p \in Reloaders : Reload(p) \/ FallBack
    BY <1>3 DEF Reloaders
  <2> QED  BY <2>1, ReloadRules
<1>4. CASE Restart
  BY <1>4, RestartRules
<1> QED  BY <1>1, <1>2, <1>3, <1>4, QuietSteps DEF Next

(***************************************************************************)
(* Theorems                                                                *)
(***************************************************************************)

(* The state of the alarm service and of the opcbridge it follows keeps its   *)
(* type: above all, every rule loaded has a state and no other alarm has one, *)
(* through every reload, fallback and restart (main.cpp:9336, 7767).         *)
THEOREM TypeCorrect == Spec => []TypeOK
BY IInvAlways, InvTypeOK, PTL

(* For any rules, tags, delays and number of restarts: a return event has an  *)
(* activation event before it, unless the alarm was restored from events that *)
(* were not the latest (main.cpp:8293, 7767).                                *)
THEOREM ReturnsAnswerActivations == Spec => []EventsPair
<1>1. IInv => EventsPair
  BY DEF IInv, EngineInv
<1> QED  BY <1>1, IInvAlways, PTL

(* For any rules, tags and delays: an activation is pending only while every  *)
(* value since has met its condition (main.cpp:8238, 8354).                  *)
THEOREM PendingActivationsHold == Spec => []PendingHolds
<1>1. IInv => PendingHolds
  BY DEF IInv, EngineInv, AlarmOK, PendingHolds
<1> QED  BY <1>1, IInvAlways, PTL

(* For any rules, saves, reloads and restarts: rules that opcbridge has       *)
(* replaced are never remembered with the time or the contents of the ones it *)
(* has, so that the next fetch installs those; only a fallback to the local   *)
(* file leaves other rules under them (main.cpp:9336, 9368, 9566, 9876).      *)
THEOREM StaleRulesNoticed == Spec => []StaleRulesAreNoticed
<1>1. RulesInv => StaleRulesAreNoticed
  BY DEF RulesInv, RememberedOK, StaleRulesAreNoticed, SameBody
<1> QED  BY <1>1, RulesInit, RulesNext, IInvAlways, PTL DEF Spec
=============================================================================
