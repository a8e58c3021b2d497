--------------------------- MODULE RuntimeReload ---------------------------
(***************************************************************************)
(* How a saved configuration becomes the running one.  Operators save      *)
(* files (POST /config/file, /config/delete), ask for a full or a targeted *)
(* reload (POST /reload, POST /reload/connection) and wait for the answer; *)
(* the main loop owns the reload and restarts the poller lanes; a Modbus   *)
(* connection that stopped answering asks for a targeted reload by itself. *)
(* One mutex-protected slot, g_reloadState, carries the request and its    *)
(* result.  RuntimeConfigState tells whether saved changes are pending.    *)
(* The caller is the SCADA workspace (app.js: opcbridgeReload,             *)
(* opcbridgeReloadConnection, waitForOpcbridgeReloadDone), which polls     *)
(* GET /reload/status once the HTTP answer said "pending".                 *)
(*                                                                         *)
(* The connection file and the tag file of a connection are one document   *)
(* here; its content is a number, equal for equal JSON.                    *)
(***************************************************************************)
EXTENDS Integers, FiniteSets

CONSTANTS
    Conns,       \* connection ids
    NoConn,      \* the empty target_connection_id: a full reload
    Callers,     \* HTTP callers, one reload each
    Recovery,    \* the Modbus recovery as owner of a request
    Nobody,      \* owner of the slot before the first request
    MaxContent,  \* contents are 0..MaxContent
    Broken,      \* contents that are not JSON
    Invalid,     \* JSON from which no driver can be built
    Off,         \* JSON of a connection that is disabled or has no tag file
    Gone,        \* contents that stand for a deleted file
    Saves,       \* bound: the contents each connection is saved with
    Reverts,     \* whether a save may bring an earlier content back
    MaxRecoveries, MaxRestarts \* bounds

Contents == 0..MaxContent

ASSUME RuntimeReloadAssumption ==
    /\ NoConn \notin Conns
    /\ Recovery \notin Callers /\ Nobody \notin Callers /\ Recovery # Nobody
    /\ MaxContent \in Nat
    /\ Broken \subseteq Contents /\ Invalid \subseteq Contents /\ Gone \subseteq Contents
    /\ Off \subseteq Contents \ (Broken \cup Invalid \cup Gone)
    /\ \A v, w \in Gone : v = w
    /\ Saves \in [Conns -> SUBSET Contents]
    /\ Reverts \in BOOLEAN
    /\ MaxRecoveries \in Nat /\ MaxRestarts \in Nat

VARIABLES
    files,       \* saved content of each connection's files
    loaded,      \* content each connection was last built from
    up,          \* connections with a DriverContext
    applied,     \* RuntimeConfigState.applied_
    initialized, \* RuntimeConfigState.initialized_
    rebuild,     \* g_full_rebuild_required
    configGen,   \* g_configGeneration
    requestGen,  \* g_reloadRequestGeneration
    activeGen,   \* generation of the lanes the main loop started last
    lanes,       \* generation of each connection's lanes, 0 when it has none
    slot,        \* g_reloadState and, as history, who asked
    main,        \* the main loop: where it is in a reload, its local variables
    caller,      \* per caller: where it is, what it asked for, what it was told
    outcome,     \* history: how the reload a caller asked for ended
    recoveries, restarts \* counters for the bounds

configVars == <<loaded, up, applied, initialized, rebuild>>
laneVars   == <<activeGen, lanes>>
vars == <<files, configVars, configGen, requestGen, laneVars, slot, main, caller,
          outcome, recoveries, restarts>>

-----------------------------------------------------------------------------
Targets == Conns \cup {NoConn}

Slot == [requested: BOOLEAN, inProgress: BOOLEAN, done: BOOLEAN, ok: BOOLEAN,
         gen: Nat, target: Targets, by: Callers \cup {Recovery, Nobody}]

EmptySlot == [requested |-> FALSE, inProgress |-> FALSE, done |-> FALSE, ok |-> FALSE,
              gen |-> 0, target |-> NoConn, by |-> Nobody]

(* MUTANT of Request: done is left from the previous reload.               *)
RequestKeepsDone(g, t, who) == [requested |-> TRUE, inProgress |-> FALSE, done |-> slot.done,
                                ok |-> FALSE, gen |-> g, target |-> t, by |-> who]

(* What a request leaves in the slot: every field of it is written.        *)
Request(g, t, who) == [requested |-> TRUE, inProgress |-> FALSE, done |-> FALSE,
                       ok |-> FALSE, gen |-> g, target |-> t, by |-> who]

SlotBusy == slot.requested \/ slot.inProgress

MainPhase == {"loop", "taken", "captured", "stopped", "loaded", "started", "applied"}

MainState == [phase: MainPhase, target: Targets, saved: [Conns -> Contents], ok: BOOLEAN]

Looping == [phase |-> "loop", target |-> NoConn, saved |-> [c \in Conns |-> 0], ok |-> FALSE]

CallerPhase == {"idle", "numbered", "waiting", "refused", "polling", "answered"}

Answer == {"none", "ok", "failed", "refused", "unconfirmed", "lost"}

(* "of" is the caller whose reload is awaited: its own, or the full reload *)
(* that it found in progress and follows.                                  *)
CallerState == [phase: CallerPhase, target: Targets, gen: Nat, of: Callers, answer: Answer]

IdleCaller(h) == [phase |-> "idle", target |-> NoConn, gen |-> 0, of |-> h, answer |-> "none"]

Outcome == {"none", "ok", "failed", "restarted"}

(* Connections a reload of target t replaces.                              *)
Affected(t) == IF t = NoConn THEN Conns ELSE {t}

(* build_driver_context_for_connection is called, and succeeds.            *)
Builds(v) == v \notin Broken \cup Invalid \cup Gone \cup Off

-----------------------------------------------------------------------------
(* RuntimeConfigState: pending compares the saved files with those that    *)
(* were captured before the last successful load.  capture reads the files *)
(* and has an error when one of them is not JSON.                          *)

CaptureError(f) == \E c \in Conns : f[c] \in Broken

AppliedFiles(f, t) ==
    IF CaptureError(f) THEN applied
    ELSE [c \in Conns |-> IF c \in Affected(t) THEN f[c] ELSE applied[c]]

AppliedInit(f, t) == initialized \/ (~CaptureError(f) /\ t = NoConn)

ConfigPending == ~initialized \/ CaptureError(files) \/ files # applied

(* saved_changes_pending of GET /reload/status.                            *)
SavedChangesPending == ConfigPending \/ rebuild

-----------------------------------------------------------------------------
LanesAt(g, cs) == [c \in Conns |-> IF c \in cs THEN (IF c \in up THEN g ELSE 0) ELSE lanes[c]]

Init ==
    /\ files \in [Conns -> {0}]
    /\ loaded = files /\ applied = files
    /\ initialized = ~CaptureError(files)
    /\ up = {c \in Conns : Builds(files[c])}
    /\ rebuild = FALSE
    /\ configGen = 1 /\ requestGen = 1 /\ activeGen = 1
    /\ lanes = [c \in Conns |-> IF c \in up THEN 1 ELSE 0]
    /\ slot = EmptySlot /\ main = Looping
    /\ caller = [h \in Callers |-> IdleCaller(h)]
    /\ outcome = [h \in Callers |-> "none"]
    /\ recoveries = 0 /\ restarts = 0

(* POST /config/file, POST /config/delete: the file is replaced by a       *)
(* rename or removed.  Without Reverts every save brings a new content.    *)
Save(c, v) ==
    /\ v # files[c] /\ v \in Saves[c]
    /\ Reverts \/ v > files[c]
    /\ files' = [files EXCEPT ![c] = v]
    /\ UNCHANGED <<configVars, configGen, requestGen, laneVars, slot, main, caller,
                   outcome, recoveries, restarts>>

(* POST /reload and POST /reload/connection take a number before they look *)
(* at the slot, each from a counter of its own; the counter of a full      *)
(* reload is the generation the lanes compare themselves with.             *)
PostReload(h) ==
    /\ caller[h].phase = "idle"
    /\ configGen' = configGen + 1
    /\ caller' = [caller EXCEPT ![h].phase = "numbered", ![h].gen = configGen + 1]
    /\ UNCHANGED <<files, configVars, requestGen, laneVars, slot, main, outcome,
                   recoveries, restarts>>

PostReloadConnection(h, c) ==
    /\ caller[h].phase = "idle"
    /\ requestGen' = requestGen + 1
    /\ caller' = [caller EXCEPT ![h].phase = "numbered", ![h].gen = requestGen + 1,
                                ![h].target = c]
    /\ UNCHANGED <<files, configVars, configGen, laneVars, slot, main, outcome,
                   recoveries, restarts>>

(* Under g_reloadMutex: 409, or the request enters the slot and the        *)
(* handler waits for done.                                                 *)
Submit(h) ==
    /\ caller[h].phase = "numbered"
    /\ IF SlotBusy
       THEN /\ caller' = [caller EXCEPT ![h].phase = "refused"]
            /\ UNCHANGED slot
       ELSE /\ slot' = Request(caller[h].gen, caller[h].target, h)
            /\ caller' = [caller EXCEPT ![h].phase = "waiting"]
    /\ UNCHANGED <<files, configVars, configGen, requestGen, laneVars, main, outcome,
                   recoveries, restarts>>

Told(h, a) == caller' = [caller EXCEPT ![h].phase = "answered", ![h].answer = a]

(* The wait ends when done is seen: 200 or 500.                            *)
AnswerDone(h) ==
    /\ caller[h].phase = "waiting" /\ slot.done
    /\ Told(h, IF slot.ok THEN "ok" ELSE "failed")
    /\ UNCHANGED <<files, configVars, configGen, requestGen, laneVars, slot, main,
                   outcome, recoveries, restarts>>

(* After 30 s without it: 202, and the workspace starts to poll.           *)
AnswerPending(h) ==
    /\ caller[h].phase = "waiting" /\ ~slot.done
    /\ caller' = [caller EXCEPT ![h].phase = "polling"]
    /\ UNCHANGED <<files, configVars, configGen, requestGen, laneVars, slot, main,
                   outcome, recoveries, restarts>>

(* MUTANT of FollowExisting: any reload in the slot is followed.           *)
FollowAnyReload(h) ==
    /\ caller[h].phase = "refused"
    /\ IF SlotBusy
       THEN caller' = [caller EXCEPT ![h].phase = "polling", ![h].gen = slot.gen,
                                     ![h].of = slot.by]
       ELSE Told(h, "refused")
    /\ UNCHANGED <<files, configVars, configGen, requestGen, laneVars, slot, main,
                   outcome, recoveries, restarts>>

(* opcbridgeReload after a 409: follow a full reload, fail otherwise.      *)
FollowExisting(h) ==
    /\ caller[h].phase = "refused"
    /\ IF caller[h].target = NoConn /\ slot.target = NoConn /\ SlotBusy
       THEN caller' = [caller EXCEPT ![h].phase = "polling", ![h].gen = slot.gen,
                                     ![h].of = slot.by]
       ELSE Told(h, "refused")
    /\ UNCHANGED <<files, configVars, configGen, requestGen, laneVars, slot, main,
                   outcome, recoveries, restarts>>

(* waitForOpcbridgeReloadDone: a status with a smaller number is taken for *)
(* an older reload; otherwise done ends the wait.                          *)
PollStatus(h) ==
    /\ caller[h].phase = "polling"
    /\ slot.gen >= caller[h].gen /\ slot.done
    /\ Told(h, IF slot.ok THEN "ok" ELSE "failed")
    /\ UNCHANGED <<files, configVars, configGen, requestGen, laneVars, slot, main,
                   outcome, recoveries, restarts>>

(* A targeted reload is polled for 180 s, a full one for ever.             *)
GiveUp(h) ==
    /\ caller[h].phase = "polling" /\ caller[h].target # NoConn
    /\ Told(h, "unconfirmed")
    /\ UNCHANGED <<files, configVars, configGen, requestGen, laneVars, slot, main,
                   outcome, recoveries, restarts>>

-----------------------------------------------------------------------------
(* The main loop.                                                          *)

(* MUTANT of RequestRecovery: a request in the slot is overwritten.        *)
RecoveryOverwrites(c) ==
    /\ main.phase = "loop" /\ recoveries < MaxRecoveries
    /\ c \in up
    /\ requestGen' = requestGen + 1
    /\ slot' = Request(requestGen + 1, c, Recovery)
    /\ recoveries' = recoveries + 1
    /\ UNCHANGED <<files, configVars, configGen, laneVars, main, caller, outcome, restarts>>

(* A Modbus connection without a good read for 30 s after errors: ask for  *)
(* its reload unless the slot is taken.                                    *)
RequestRecovery(c) ==
    /\ main.phase = "loop" /\ recoveries < MaxRecoveries
    /\ c \in up
    /\ ~SlotBusy
    /\ requestGen' = requestGen + 1
    /\ slot' = Request(requestGen + 1, c, Recovery)
    /\ recoveries' = recoveries + 1
    /\ UNCHANGED <<files, configVars, configGen, laneVars, main, caller, outcome, restarts>>

TakeReload ==
    /\ main.phase = "loop"
    /\ slot.requested /\ ~slot.inProgress
    /\ slot' = [slot EXCEPT !.inProgress = TRUE]
    /\ main' = [main EXCEPT !.phase = "taken", !.target = slot.target]
    /\ UNCHANGED <<files, configVars, configGen, requestGen, laneVars, caller, outcome,
                   recoveries, restarts>>

CaptureSaved ==
    /\ main.phase = "taken"
    /\ main' = [main EXCEPT !.phase = "captured", !.saved = files]
    /\ UNCHANGED <<files, configVars, configGen, requestGen, laneVars, slot, caller,
                   outcome, recoveries, restarts>>

(* stopPollers, stopConnectionPollers: signal and join.                    *)
StopLanes ==
    /\ main.phase = "captured"
    /\ main' = [main EXCEPT !.phase = "stopped"]
    /\ lanes' = [c \in Conns |-> IF c \in Affected(main.target) THEN 0 ELSE lanes[c]]
    /\ UNCHANGED <<files, configVars, configGen, requestGen, activeGen, slot, caller,
                   outcome, recoveries, restarts>>

(* load_all_drivers skips what it cannot build and succeeds; the OPC UA    *)
(* server is rebuilt, which may fail.                                      *)
LoadAll(uaOk) ==
    /\ main.phase = "stopped" /\ main.target = NoConn
    /\ loaded' = files
    /\ up' = {c \in Conns : Builds(files[c])}
    /\ rebuild' = (rebuild /\ ~uaOk)
    /\ main' = [main EXCEPT !.phase = "loaded", !.ok = uaOk]
    /\ UNCHANGED <<files, applied, initialized, configGen, requestGen, laneVars, slot,
                   caller, outcome, recoveries, restarts>>

(* load_single_driver_for_connection: a connection without a driver of its *)
(* own is loaded as well, without one; one that is gone, if it was         *)
(* configured and every connection file could be read.                     *)
TargetLoads(c) ==
    \/ Builds(files[c]) \/ files[c] \in Off
    \/ files[c] \in Gone /\ c \in up /\ ~CaptureError(files)

(* syncOk: the OPC UA nodes of the connection could be brought up to date; *)
(* the folder of one without a driver always needs the full rebuild.       *)
LoadTarget(syncOk) ==
    LET c == main.target IN
    /\ main.phase = "stopped" /\ c # NoConn
    /\ IF TargetLoads(c)
       THEN /\ loaded' = [loaded EXCEPT ![c] = files[c]]
            /\ up' = IF Builds(files[c]) THEN up \cup {c} ELSE up \ {c}
            /\ rebuild' = (rebuild \/ ~syncOk \/ ~Builds(files[c]))
       ELSE UNCHANGED <<loaded, up, rebuild>>
    /\ main' = [main EXCEPT !.phase = "loaded", !.ok = TargetLoads(c)]
    /\ UNCHANGED <<files, applied, initialized, configGen, requestGen, laneVars, slot,
                   caller, outcome, recoveries, restarts>>

(* MUTANT of StartGen: a targeted reload moves to the new generation too.  *)
StartGenAlwaysNew(t) == configGen

(* The generation the lanes of a reload are started with.                  *)
StartGen(t) == IF t = NoConn THEN configGen ELSE activeGen

StartLanes ==
    /\ main.phase = "loaded"
    /\ main' = [main EXCEPT !.phase = "started"]
    /\ activeGen' = StartGen(main.target)
    /\ lanes' = LanesAt(StartGen(main.target), Affected(main.target))
    /\ UNCHANGED <<files, configVars, configGen, requestGen, slot, caller, outcome,
                   recoveries, restarts>>

(* MUTANT of MarkApplied: the files are captured after the load.           *)
MarkAppliedLate ==
    /\ main.phase = "started"
    /\ main' = [main EXCEPT !.phase = "applied"]
    /\ IF main.ok
       THEN /\ applied' = AppliedFiles(files, main.target)
            /\ initialized' = AppliedInit(files, main.target)
       ELSE UNCHANGED <<applied, initialized>>
    /\ UNCHANGED <<files, loaded, up, rebuild, configGen, requestGen, laneVars, slot,
                   caller, outcome, recoveries, restarts>>

(* runtimeConfigState.applied, only after a successful reload.             *)
MarkApplied ==
    /\ main.phase = "started"
    /\ main' = [main EXCEPT !.phase = "applied"]
    /\ IF main.ok
       THEN /\ applied' = AppliedFiles(main.saved, main.target)
            /\ initialized' = AppliedInit(main.saved, main.target)
       ELSE UNCHANGED <<applied, initialized>>
    /\ UNCHANGED <<files, loaded, up, rebuild, configGen, requestGen, laneVars, slot,
                   caller, outcome, recoveries, restarts>>

(* MUTANT of FinishReload: a failed reload leaves the loop early.          *)
FinishGoodReload ==
    /\ main.phase = "applied"
    /\ main' = Looping
    /\ slot' = [slot EXCEPT !.ok = main.ok, !.done = main.ok, !.requested = FALSE,
                            !.inProgress = FALSE]
    /\ outcome' = [h \in Callers |-> IF h = slot.by /\ main.ok THEN "ok" ELSE outcome[h]]
    /\ UNCHANGED <<files, configVars, configGen, requestGen, laneVars, caller,
                   recoveries, restarts>>

(* MUTANT of FinishReload: the result of the load is swallowed.            *)
FinishAlwaysOk ==
    /\ main.phase = "applied"
    /\ main' = Looping
    /\ slot' = [slot EXCEPT !.ok = TRUE, !.done = TRUE, !.requested = FALSE,
                            !.inProgress = FALSE]
    /\ outcome' = [h \in Callers |-> IF h = slot.by THEN "ok" ELSE outcome[h]]
    /\ UNCHANGED <<files, configVars, configGen, requestGen, laneVars, caller,
                   recoveries, restarts>>

(* The result and the flags, under g_reloadMutex, however the reload went.  *)
FinishReload ==
    /\ main.phase = "applied"
    /\ main' = Looping
    /\ slot' = [slot EXCEPT !.ok = main.ok, !.done = TRUE, !.requested = FALSE,
                            !.inProgress = FALSE]
    /\ outcome' = [h \in Callers |-> IF h = slot.by
                                     THEN (IF main.ok THEN "ok" ELSE "failed")
                                     ELSE outcome[h]]
    /\ UNCHANGED <<files, configVars, configGen, requestGen, laneVars, caller,
                   recoveries, restarts>>

(* MUTANT of FollowGeneration: done at any time, as by a thread of its own. *)
FollowGenerationAnytime ==
    /\ configGen # activeGen
    /\ activeGen' = configGen
    /\ lanes' = LanesAt(configGen, Conns)
    /\ UNCHANGED <<files, configVars, configGen, requestGen, slot, main, caller,
                   outcome, recoveries, restarts>>

(* Without a reload to do: restart every lane when the generation moved,   *)
(* which a refused POST /reload causes as well.                            *)
FollowGeneration ==
    /\ main.phase = "loop" /\ ~(slot.requested /\ ~slot.inProgress)
    /\ configGen # activeGen
    /\ activeGen' = configGen
    /\ lanes' = LanesAt(configGen, Conns)
    /\ UNCHANGED <<files, configVars, configGen, requestGen, slot, main, caller,
                   outcome, recoveries, restarts>>

(* A lane of another generation leaves its loop.                           *)
LaneExit(c) ==
    /\ lanes[c] \notin {0, configGen}
    /\ lanes' = [lanes EXCEPT ![c] = 0]
    /\ UNCHANGED <<files, configVars, configGen, requestGen, activeGen, slot, main,
                   caller, outcome, recoveries, restarts>>

(* The service is restarted: the saved files are captured and loaded, the  *)
(* slot and both counters start anew.  An HTTP call in progress fails, a   *)
(* workspace that polls the status goes on polling.                        *)
RestartService ==
    /\ restarts < MaxRestarts
    /\ restarts' = restarts + 1
    /\ loaded' = files
    /\ up' = {c \in Conns : Builds(files[c])}
    /\ initialized' = ~CaptureError(files)
    /\ applied' = IF CaptureError(files) THEN [c \in Conns |-> 0] ELSE files
    /\ rebuild' = FALSE
    /\ configGen' = 1 /\ requestGen' = 1 /\ activeGen' = 1
    /\ lanes' = [c \in Conns |-> IF Builds(files[c]) THEN 1 ELSE 0]
    /\ slot' = EmptySlot /\ main' = Looping
    /\ caller' = [h \in Callers |->
                    IF caller[h].phase \in {"numbered", "waiting"}
                    THEN [caller[h] EXCEPT !.phase = "answered", !.answer = "lost"]
                    ELSE caller[h]]
    /\ outcome' = [h \in Callers |-> IF h = slot.by /\ outcome[h] = "none"
                                     THEN "restarted" ELSE outcome[h]]
    /\ UNCHANGED <<files, recoveries>>

MainStep ==
    \/ TakeReload \/ CaptureSaved \/ StopLanes
    \/ \E ok \in BOOLEAN : LoadAll(ok) \/ LoadTarget(ok)
    \/ StartLanes \/ MarkApplied \/ FinishReload \/ FollowGeneration

CallerStep(h) ==
    \/ Submit(h) \/ AnswerDone(h) \/ AnswerPending(h) \/ FollowExisting(h) \/ PollStatus(h)

Next ==
    \/ \E c \in Conns : RequestRecovery(c) \/ LaneExit(c) \/ \E v \in Contents : Save(c, v)
    \/ \E h \in Callers : \/ PostReload(h) \/ \E c \in Conns : PostReloadConnection(h, c)
                          \/ CallerStep(h) \/ GiveUp(h)
    \/ MainStep
    \/ RestartService

Spec == Init /\ [][Next]_vars

(* The main loop keeps running and an HTTP thread that can go on does.     *)
Fairness ==
    /\ WF_vars(MainStep)
    /\ \A h \in Callers : WF_vars(CallerStep(h))
    /\ \A c \in Conns : WF_vars(LaneExit(c))

FairSpec == Spec /\ Fairness

-----------------------------------------------------------------------------
(* Correctness.                                                            *)

TypeOK ==
    /\ files \in [Conns -> Contents] /\ loaded \in [Conns -> Contents]
    /\ applied \in [Conns -> Contents] /\ initialized \in BOOLEAN
    /\ up \subseteq Conns /\ rebuild \in BOOLEAN
    /\ configGen \in Nat /\ requestGen \in Nat /\ activeGen \in Nat
    /\ lanes \in [Conns -> Nat]
    /\ slot \in Slot /\ main \in MainState
    /\ caller \in [Callers -> CallerState] /\ outcome \in [Callers -> Outcome]
    /\ recoveries \in Nat /\ restarts \in Nat

(* When GET /reload/status finds no difference between the saved files and *)
(* the applied ones, every connection was built from what is saved: a save *)
(* that came during a reload, before or after the load read its file, is   *)
(* still pending when the reload ends (runtime_config_state.h:8-9).        *)
NothingPendingIsLoaded == ~ConfigPending => loaded = files

(* A request that entered the slot stays there until the main loop has     *)
(* carried it out: no other request, and no Modbus recovery, replaces it   *)
(* ("Never overwrite a reload requested by the user", main.cpp:31299).     *)
ReloadNotOverwritten ==
    \A h \in Callers :
        caller[h].phase \in {"waiting", "polling"} /\ outcome[caller[h].of] = "none"
            => slot.by = caller[h].of /\ SlotBusy

(* A caller is told "done", by the handler or by the status it polls, only *)
(* after the reload it waits for has been carried out.                     *)
AnswerFollowsReload ==
    \A h \in Callers :
        caller[h].answer \in {"ok", "failed"} => outcome[caller[h].of] # "none"

(* The connections whose driver a reload is replacing at the moment.       *)
Replacing == IF main.phase \in {"stopped", "loaded"} THEN Affected(main.target) ELSE {}

(* Once the main loop has taken up the current generation, every driver    *)
(* that is not being replaced has lanes and they are of that generation,   *)
(* and nothing else has: no order of refused requests, targeted reloads    *)
(* and exits of lanes leaves a connection without polling unnoticed, since *)
(* a targeted reload does not take up a generation for the lanes it leaves *)
(* alone (main.cpp:31542, 31575).                                          *)
DriversArePolled ==
    configGen = activeGen =>
        \A c \in Conns : lanes[c] = IF c \in up \ Replacing THEN activeGen ELSE 0

(* While the process runs, a driver is built, rebuilt or removed only when *)
(* no lane of its connection runs that could be using it                   *)
(* (stopConnectionPollers, stopPollers; main.cpp:31359).                   *)
ReplacedWhenStopped ==
    [][restarts' = restarts =>
         \A c \in Conns : lanes[c] # 0 =>
             loaded'[c] = loaded[c] /\ (c \in up' <=> c \in up)]_vars

(* The connections that the reload under way has rebuilt with success.     *)
Rebuilt == IF main.phase \in {"loaded", "started", "applied"} /\ main.ok
           THEN Affected(main.target) ELSE {}

(* The request in the slot, as a set of one, or none.                      *)
Job == IF SlotBusy
       THEN {[by |-> slot.by, conns |-> Affected(slot.target), fresh |-> Rebuilt]}
       ELSE {}

Service == INSTANCE ReloadService WITH
    running <- loaded, ended <- outcome, job <- Job, Askers <- Callers \cup {Recovery}

(* With its slot, its counters and its phases opcbridge is a service that  *)
(* reloads one thing at a time: no request is replaced or carried out      *)
(* twice, a connection changes only in a reload that names it, and a       *)
(* reload counts as a success only after all of its connections were built *)
(* anew, or left out as not buildable, from files read after the request   *)
(* (main.cpp:31336-31573).                                                 *)
ImplementsReloadService == Service!Spec

(* Every request that was accepted is carried out.                         *)
RequestCompletes ==
    \A h \in Callers : caller[h].phase = "waiting" ~> outcome[h] # "none"

(* Whatever the order of reloads, refused requests and generation changes, *)
(* in the end every driver is polled by lanes of the current generation.   *)
PollersResume == <>[](\A c \in Conns : lanes[c] = IF c \in up THEN configGen ELSE 0)

(* What the workspace's tests say ("server rebuild failure is reported     *)
(* immediately instead of swallowed"): a caller that is told "ok" asked    *)
(* for a reload that did not fail.                                         *)
FailureIsReported ==
    \A h \in Callers : caller[h].answer = "ok" => outcome[caller[h].of] # "failed"

(* What waitForOpcbridgeReloadDone assumes of a status with a smaller      *)
(* number ("Still reporting an older reload; keep polling."): the awaited  *)
(* reload has not ended.                                                   *)
SmallerNumberIsOlder ==
    \A h \in Callers :
        caller[h].phase = "polling" /\ slot.gen < caller[h].gen
            => outcome[caller[h].of] \in {"none", "restarted"}

=============================================================================
