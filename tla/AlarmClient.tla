----------------------------- MODULE AlarmClient -----------------------------
(* opcbridge-alarms with the opcbridge it follows: the WebSocket callback and *)
(* the loop of ws_client_loop, which seeds the alarms over HTTP, the thread   *)
(* that fetches the rules, POST /alarm/api/reload, and the restarts of both   *)
(* services.                                                                 *)
(*                                                                           *)
(* Events are not recorded while `baselining` is set, nor before the time in   *)
(* suppress_events_until_ms, which every baseline moves on when it begins and *)
(* when it ends.  Times have no length here, so that outside a baseline an    *)
(* event is recorded or not, as that time has come or not.                   *)
(* Left out: the refresh of the tags of "_system", which opcbridge itself     *)
(* computes, and which is always recorded.                                   *)
EXTENDS AlarmEngine

CONSTANTS
    StartValues, \* bound: values of the tags at the beginning
    LocalRules,  \* alarms.json of the alarm service, used without opcbridge
    MaxWire,     \* bound: messages under way
    MaxEvents    \* bound: changes, faults and commands from outside, together

ASSUME ClientConstants == /\ StartValues \subseteq Levels \cup {Bad}
                          /\ LocalRules \in RuleFiles
                          /\ MaxWire \in Nat /\ MaxEvents \in Nat

VARIABLES
    value,        \* opcbridge: tag -> value
    file,         \* opcbridge: [rules, mtime] of its alarms configuration
    reloading,    \* opcbridge: a runtime reload is in progress
    link, wire,   \* the WebSocket connection at opcbridge; messages under way
    connected, baselining, seedRequested, runtimeMaintenance,
    resubscribe,  \* subscriptionGeneration # lastSentGeneration
    pc, http,     \* the client loop and its HTTP request
    mtime, hash,  \* last_config_mtime_ms, last_config_hash: the body installed last, if any
    fellBack,     \* history: the rules are those of a fallback to the local file
    reloader,     \* configThread and the handler of POST /alarm/api/reload
    events        \* number of events from outside so far

bridgeVars == <<value, file, reloading>>
clientVars == <<connected, baselining, seedRequested, runtimeMaintenance>>
loopVars   == <<pc, http>>
configVars == <<mtime, hash, fellBack, reloader>>
vars == <<engineVars, bridgeVars, link, wire, clientVars, resubscribe, loopVars,
          configVars, events>>

Values    == Levels \cup {Bad}
Mtimes    == -1 .. MaxEvents
Files     == [rules : RuleFiles, mtime : Mtimes]
Reloaders == {"config", "post"}
NoRequest == [seed |-> FALSE, record |-> FALSE, baseline |-> FALSE, keys |-> {}, row |-> <<>>]
Idle      == [at |-> "idle"]

Messages == [type : {"value"}, tag : Tags, value : Values] \cup [type : {"begin", "end"}]

TypeOK ==
    /\ EngineTypeOK
    /\ value \in [Tags -> Values]
    /\ file \in Files
    /\ wire \in Seq(Messages) /\ Len(wire) <= MaxWire
    /\ {reloading, link, connected, baselining, seedRequested,
        runtimeMaintenance, resubscribe} \subseteq BOOLEAN
    /\ pc \in {"sleep", "awake", "asked", "served"}
    /\ mtime \in Mtimes /\ hash \subseteq RuleFiles /\ fellBack \in BOOLEAN
    /\ events \in 0 .. MaxEvents

External == events < MaxEvents /\ events' = events + 1

KeysOf(r) == {r[a].tag : a \in DOMAIN r}

(***************************************************************************)
(* opcbridge                                                               *)
(***************************************************************************)

Room == Len(wire) < MaxWire

(* ws_send_json: only to the clients connected at this moment.               *)
Send(m) == wire' = IF link THEN Append(wire, m) ELSE wire

(* A tag changes; the update is sent, or not (the subscription of the client *)
(* has not arrived, or opcbridge does not report this change at once).       *)
Change(t, v, sent) ==
    /\ External /\ Room
    /\ v # value[t]
    /\ value' = [value EXCEPT ![t] = v]
    /\ IF sent THEN Send([type |-> "value", tag |-> t, value |-> v]) ELSE UNCHANGED wire
    /\ UNCHANGED <<engineVars, file, reloading, link, clientVars, resubscribe, loopVars,
                   configVars>>

(* A save, also of what the configuration was before: only the time is new.  *)
SaveRules(r) ==
    /\ External
    /\ file' = [rules |-> r, mtime |-> file.mtime + 1]
    /\ UNCHANGED <<engineVars, value, reloading, link, wire, clientVars, resubscribe,
                   loopVars, configVars>>

BeginReload ==
    /\ External /\ Room
    /\ ~reloading
    /\ reloading' = TRUE
    /\ Send([type |-> "begin"])
    /\ UNCHANGED <<engineVars, value, file, link, clientVars, resubscribe, loopVars,
                   configVars>>

EndReload ==
    /\ Room
    /\ reloading
    /\ reloading' = FALSE
    /\ Send([type |-> "end"])
    /\ UNCHANGED <<engineVars, value, file, link, clientVars, resubscribe, loopVars,
                   configVars, events>>

(* The connection is lost, or opcbridge restarts.                            *)
LoseLink(restart) ==
    /\ External
    /\ link
    /\ link' = FALSE
    /\ reloading' = (reloading /\ ~restart)
    /\ UNCHANGED <<engineVars, value, file, wire, clientVars, resubscribe, loopVars,
                   configVars>>

(***************************************************************************)
(* The WebSocket callback                                                  *)
(***************************************************************************)

(* should_record_events_now, `elapsed`: suppress_events_until_ms has come.    *)
RecordNow(elapsed) == ~baselining /\ elapsed

(* Open: subscribes, and asks the loop for a seed.                           *)
Open ==
    /\ ~link /\ ~connected
    /\ link' = TRUE
    /\ connected' = TRUE
    /\ baselining' = TRUE
    /\ resubscribe' = FALSE
    /\ seedRequested' = TRUE
    /\ UNCHANGED <<engineVars, bridgeVars, wire, runtimeMaintenance, loopVars, configVars,
                   events>>

(* Close or Error; what was under way is lost.                               *)
Close ==
    /\ ~link /\ connected
    /\ connected' = FALSE
    /\ baselining' = TRUE
    /\ wire' = <<>>
    /\ UNCHANGED <<engineVars, bridgeVars, link, seedRequested,
                   runtimeMaintenance, resubscribe, loopVars, configVars, events>>

ReceiveValue ==
    /\ Head(wire).type = "value"
    /\ \E elapsed \in BOOLEAN :
          Apply(Head(wire).tag, Head(wire).value, RecordNow(elapsed))
    /\ UNCHANGED clientVars

ReceiveBegin ==
    /\ Head(wire).type = "begin"
    /\ runtimeMaintenance' = TRUE
    /\ seedRequested' = FALSE
    /\ baselining' = TRUE
    /\ UNCHANGED <<engineVars, connected>>

ReceiveEnd ==
    /\ Head(wire).type = "end"
    /\ runtimeMaintenance' = FALSE
    /\ baselining' = TRUE
    /\ seedRequested' = TRUE
    /\ UNCHANGED <<engineVars, connected>>

Receive ==
    /\ wire # <<>> /\ connected
    /\ wire' = Tail(wire)
    /\ ReceiveValue \/ ReceiveBegin \/ ReceiveEnd
    /\ UNCHANGED <<bridgeVars, link, resubscribe, loopVars, configVars, events>>

(***************************************************************************)
(* The client loop: every 250 ms a seed when one is requested, otherwise a  *)
(* refresh every two seconds                                                *)
(***************************************************************************)

Wake ==
    /\ pc = "sleep"
    /\ connected /\ ~runtimeMaintenance
    /\ pc' = "awake"
    /\ resubscribe' = FALSE
    /\ IF resubscribe
       THEN baselining' = TRUE /\ seedRequested' = TRUE
       ELSE UNCHANGED <<baselining, seedRequested>>
    /\ UNCHANGED <<engineVars, bridgeVars, link, wire, connected, runtimeMaintenance, http,
                   configVars, events>>

LoopStep == UNCHANGED <<bridgeVars, link, wire, connected, runtimeMaintenance, resubscribe,
                        configVars>>

(* MUTANT of Ask: only a requested seed asks for the values.                 *)
AskSeedOnly ==
    /\ pc = "awake" /\ seedRequested
    /\ pc' = "asked"
    /\ http' = [NoRequest EXCEPT !.seed = TRUE, !.keys = KeysOf(rules)]
    /\ seedRequested' = FALSE
    /\ UNCHANGED <<engineVars, baselining, events>> /\ LoopStep

(* seed_subscriptions_from_http is called: a seed never records events; a    *)
(* refresh does, if events are recorded at this moment.                      *)
Ask ==
    /\ pc = "awake"
    /\ pc' = "asked"
    /\ \E elapsed \in BOOLEAN :
          http' = [seed     |-> seedRequested,
                   record   |-> ~seedRequested /\ RecordNow(elapsed),
                   baseline |-> ~seedRequested /\ baselining,
                   keys     |-> KeysOf(rules),
                   row      |-> <<>>]
    /\ seedRequested' = FALSE
    /\ UNCHANGED <<engineVars, baselining, events>> /\ LoopStep

(* opcbridge answers with the values it has now.                             *)
Serve ==
    /\ pc = "asked"
    /\ pc' = "served"
    /\ http' = [http EXCEPT !.row = [t \in http.keys |-> value[t]]]
    /\ UNCHANGED <<engineVars, baselining, seedRequested, events>> /\ LoopStep

Done == pc' = "sleep" /\ http' = NoRequest

(* MUTANT of Answer: only a seed ends a baseline.                            *)
AnswerSeed ==
    /\ pc = "served"
    /\ ApplyRows(http.row, http.record)
    /\ IF http.seed
       THEN baselining' = FALSE
       ELSE UNCHANGED baselining
    /\ UNCHANGED <<seedRequested, events>>
    /\ Done /\ LoopStep

(* The rows are applied; a seed, or a refresh that began in a baseline, ends *)
(* the baseline.                                                             *)
Answer ==
    /\ pc = "served"
    /\ ApplyRows(http.row, http.record)
    /\ IF http.seed \/ http.baseline
       THEN baselining' = FALSE
       ELSE UNCHANGED baselining
    /\ UNCHANGED <<seedRequested, events>>
    /\ Done /\ LoopStep

(* No answer, or not the one expected.  Without a key nothing is asked.      *)
Fail ==
    /\ External
    /\ pc = "served" /\ http.keys # {}
    /\ IF http.seed
       THEN baselining' = TRUE
       ELSE UNCHANGED baselining
    /\ seedRequested' = (seedRequested \/ http.baseline)
    /\ UNCHANGED engineVars
    /\ Done /\ LoopStep

(***************************************************************************)
(* Rules: configThread every five seconds, POST /alarm/api/reload           *)
(***************************************************************************)

ConfigStep == UNCHANGED <<bridgeVars, link, wire, clientVars, loopVars>>
At(p, place) == reloader[p].at = place

(* fetch_rules_from_opcbridge: the body as opcbridge has it now.             *)
FetchRules(p) ==
    /\ At(p, "idle")
    /\ IF p = "post" THEN External ELSE UNCHANGED events
    /\ reloader' = [reloader EXCEPT ![p] = [at |-> "fetched", body |-> file, prev |-> mtime]]
    /\ UNCHANGED <<engineVars, resubscribe, mtime, hash, fellBack>> /\ ConfigStep

(* MUTANT of SameBody: any time remembered is taken for the time of the body. *)
SameBodyAnyTime(body) == mtime # -1 \/ body.rules \in hash

(* A body with the time or the contents of the one installed last is not     *)
(* installed, and its time is not remembered.                                *)
SameBody(body) == (mtime # -1 /\ body.mtime = mtime) \/ body.rules \in hash

(* The handler restores in any case, configThread when another time is       *)
(* remembered than before its request.                                       *)
Restores(p) == p = "post" \/ mtime # reloader[p].prev

CompareRules(p) ==
    /\ At(p, "fetched")
    /\ IF SameBody(reloader[p].body)
       THEN reloader' = [reloader EXCEPT ![p] =
               IF Restores(p) THEN [at |-> "loaded", prev |-> @.prev] ELSE Idle]
       ELSE reloader' = [reloader EXCEPT ![p].at = "differs"]
    /\ UNCHANGED <<engineVars, resubscribe, mtime, hash, fellBack, events>> /\ ConfigStep

(* The rules, their time and their contents are swapped together.            *)
InstallWithTime(p, m) ==
    /\ At(p, "differs")
    /\ SwapRules(reloader[p].body.rules)
    /\ mtime' = m /\ hash' = {reloader[p].body.rules} /\ fellBack' = FALSE
    /\ reloader' = [reloader EXCEPT ![p] = [at |-> "loaded", prev |-> @.prev]]
    /\ UNCHANGED <<resubscribe, events>> /\ ConfigStep

(* MUTANT of InstallRules: the newer of the two times is remembered.         *)
InstallRulesKeepNewer(p) ==
    InstallWithTime(p, IF mtime > reloader[p].body.mtime THEN mtime ELSE reloader[p].body.mtime)

InstallRules(p) == InstallWithTime(p, reloader[p].body.mtime)

(* opcbridge does not answer: the handler loads the local file; the time and *)
(* the contents of opcbridge's last body stay.                               *)
FallBack ==
    /\ At("post", "fetched")
    /\ External
    /\ LoadLocalRules(LocalRules)
    /\ fellBack' = TRUE
    /\ reloader' = [reloader EXCEPT !["post"] = [at |-> "loaded", prev |-> @.prev]]
    /\ UNCHANGED <<resubscribe, mtime, hash>> /\ ConfigStep

(* subscriptionGeneration.fetch_add, and the events read from the database.  *)
ReadEvents(p) ==
    /\ At(p, "loaded")
    /\ IF Restores(p)
       THEN /\ resubscribe' = TRUE
            /\ reloader' = [reloader EXCEPT ![p] = [at |-> "restoring", events |-> db]]
       ELSE /\ UNCHANGED resubscribe
            /\ reloader' = [reloader EXCEPT ![p] = Idle]
    /\ UNCHANGED <<engineVars, mtime, hash, fellBack, events>> /\ ConfigStep

RestoreStates(p) ==
    /\ At(p, "restoring")
    /\ RestoreFrom(reloader[p].events)
    /\ reloader' = [reloader EXCEPT ![p] = Idle]
    /\ UNCHANGED <<resubscribe, mtime, hash, fellBack, events>> /\ ConfigStep

(***************************************************************************)
(* The engine's own operations, and the start of the service                *)
(***************************************************************************)

Others == UNCHANGED <<bridgeVars, link, wire, clientVars, resubscribe, loopVars, configVars>>

PendingDue(ripe) == ProcessPending(ripe) /\ UNCHANGED events /\ Others
Operator == External /\ (\E a \in Alarms : Ack(a) \/ Shelve(a) \/ Unshelve(a)) /\ Others
Unshelved == (\E a \in Alarms : ShelfElapses(a)) /\ UNCHANGED events /\ Others

Started(new, m, h) ==
    /\ connected' = FALSE /\ baselining' = TRUE
    /\ seedRequested' = FALSE /\ runtimeMaintenance' = FALSE
    /\ resubscribe' = TRUE
    /\ pc' = "sleep" /\ http' = NoRequest
    /\ mtime' = m /\ hash' = h /\ fellBack' = FALSE
    /\ reloader' = [p \in Reloaders |-> Idle]
    /\ link' = FALSE /\ wire' = <<>>
    /\ StartEngine(new)

(* The alarm service is restarted, with the rules of opcbridge or its own.   *)
Restart ==
    /\ External
    /\ \/ Started(file.rules, file.mtime, {file.rules})
       \/ Started(LocalRules, -1, {})
    /\ UNCHANGED bridgeVars

Init ==
    /\ value \in [Tags -> StartValues]
    /\ \E r \in RuleFiles : file = [rules |-> r, mtime |-> 0]
    /\ reloading = FALSE /\ link = FALSE /\ wire = <<>>
    /\ \/ rules = file.rules /\ mtime = 0 /\ hash = {file.rules}
       \/ rules = LocalRules /\ mtime = -1 /\ hash = {}
    /\ fellBack = FALSE
    /\ states = [a \in DOMAIN rules |-> Fresh]
    /\ db = [a \in Alarms |-> NoEvents]
    /\ unpaired = {} /\ overwritten = {}
    /\ connected = FALSE /\ baselining = TRUE
    /\ seedRequested = FALSE /\ runtimeMaintenance = FALSE /\ resubscribe = TRUE
    /\ pc = "sleep" /\ http = NoRequest
    /\ reloader = [p \in Reloaders |-> Idle]
    /\ events = 0

Callback == Open \/ Close \/ Receive
Loop == Wake \/ Ask \/ Serve \/ Answer \/ Fail

Loading(p) == CompareRules(p) \/ InstallRules(p) \/ ReadEvents(p) \/ RestoreStates(p)
Reload(p)  == FetchRules(p) \/ Loading(p)

Next ==
    \/ \E t \in Tags, v \in Values, sent \in BOOLEAN : Change(t, v, sent)
    \/ \E r \in RuleFiles : SaveRules(r)
    \/ BeginReload \/ EndReload
    \/ \E restart \in BOOLEAN : LoseLink(restart)
    \/ Callback \/ Loop
    \/ \E p \in Reloaders : Reload(p)
    \/ FallBack
    \/ \E ripe \in SUBSET DOMAIN rules : PendingDue(ripe)
    \/ Operator \/ Unshelved \/ Restart

Spec == Init /\ [][Next]_vars

(* Time passes and nothing is given up: the WebSocket client reconnects, what *)
(* was sent arrives or the connection ends, a reload ends, the loop and       *)
(* configThread go round, a delay ends.                                      *)
Fairness ==
    /\ WF_vars(Callback) /\ WF_vars(EndReload)
    /\ WF_vars(Wake \/ Ask \/ Serve \/ Answer)
    /\ WF_vars(Reload("config"))
    /\ WF_vars(Loading("post"))
    /\ WF_vars(PendingDue(DOMAIN rules))

FairSpec == Spec /\ Fairness

(***************************************************************************)
(* Properties                                                              *)
(***************************************************************************)

(* A return is recorded and announced only for an activation that was: the   *)
(* flag return_notification_armed keeps the pairs together through silent    *)
(* baselines, delays, reloads of the rules and restarts, except where states  *)
(* were restored from events that were no longer the latest                  *)
(* (main.cpp:8293, 7767).                                                    *)
EventsPair == unpaired \subseteq overwritten

(* An alarm waits for its delay only as long as every value since has met    *)
(* its condition, whatever is shelved, disabled or reloaded meanwhile        *)
(* (main.cpp:8238, 8354).                                                    *)
PendingHolds ==
    \A a \in DOMAIN rules : states[a].pending => states[a].met /\ states[a].initialized

Agrees(a) ==
    LET s == states[a]
        r == rules[a]
        v == value[r.tag]
    IN  \/ v = Bad
        \/ /\ Evaluable(s, r) /\ r.site
           /\ v \in r.on => s.active
           /\ s.active => v \in r.hold
        \/ ~(Evaluable(s, r) /\ r.site) /\ ~s.active

(* Once nothing happens outside any more, every alarm comes to agree with    *)
(* the value of its tag, however updates were lost, seeds failed or states   *)
(* were restored; unless the client believes in a reload that never ends     *)
(* (main.cpp:9222-9283).                                                     *)
AlarmsConverge == <>[](runtimeMaintenance \/ \A a \in DOMAIN rules : Agrees(a))

(* Every baseline ends, also when its seed has failed (main.cpp:9243-9272).  *)
BaselineEnds == <>[](runtimeMaintenance \/ ~baselining)

(* The alarm service comes to run the rules opcbridge has, whichever of two  *)
(* reloads installs last and whatever rules it was started with.  The local  *)
(* file that POST /alarm/api/reload has fallen back to (main.cpp:9876) stays *)
(* only as long as opcbridge still has the rules that the service had before,*)
(* whose contents it compares with (9336, 9368).                             *)
RulesConverge == <>[](rules = file.rules \/ (fellBack /\ hash = {file.rules}))

(* What the next fetch would not install is not needed: when the time or the *)
(* contents remembered are those opcbridge has, so are the rules, whichever  *)
(* of two reloads, with bodies fetched before and after a save, installs     *)
(* last (main.cpp:9336, 9368, 9566).  Only POST /alarm/api/reload loads other*)
(* rules under them, the local file (9876).                                  *)
StaleRulesAreNoticed == SameBody(file) => rules = file.rules \/ fellBack

(* opcbridge-scada/docs/alarm-server-api.md:322: the alarm server tolerates  *)
(* restarts and reloads of opcbridge; once it is connected again, events are *)
(* recorded.                                                                 *)
EventsResume == <>[]~baselining
=============================================================================
