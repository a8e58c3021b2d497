--------------------------- MODULE DemandPlanning ---------------------------
(***************************************************************************)
(* Whether a tag of an active-only connection is polled.  Background       *)
(* services (flow, logger) run a ConsumerDemandClient that registers and   *)
(* renews its interest over HTTP; opcbridge keeps the registrations as     *)
(* leases (ConsumerDemandLeases), and OPC UA monitored items and recent    *)
(* reads as observations (TagDemandObservations).  The main loop collects  *)
(* them and refreshes the plan (DemandSchedulerPreview); the poller lanes  *)
(* ask it before every read (should_poll).                                 *)
(*                                                                         *)
(* One tag, one opcbridge.  A registration names the tag, or only other    *)
(* tags.  Time is a Tick of all timers; a timer is kept as the time that   *)
(* is left, or that has passed, up to the value beyond which it makes no   *)
(* difference.  The worker of a client passes its loop once per tick (it   *)
(* sleeps for one second between passes) and a post lasts at most PostTime.*)
(***************************************************************************)
EXTENDS Integers

CONSTANTS
    Clients,     \* ConsumerDemandClient instances
    Lease,       \* lifetime of a registration (60 s)
    Renew,       \* a client renews after this time (10 s)
    PostTime,    \* timeout of a post (2 s)
    ReadLease,   \* how long an HTTP or OPC UA read counts as demand (30 s)
    Startup,     \* grace of a new driver (30 s)
    Idle,        \* grace after the last demand (10 s)
    Stale,       \* age beyond which a plan is not trusted (2.5 s)
    Collect,     \* longest time between collecting demand and publishing it
    MaxFailures, \* bound on consecutive failed passes and posts of a client
    MaxEvents    \* bound on the choices of users, operators and readers

(* The time from one arrival of a renewal to the next one when nothing     *)
(* fails: it is due, found by the next pass, and posted.                   *)
RenewalGap == Renew + 1 + PostTime

ASSUME DemandPlanningAssumption ==
    /\ Lease \in Nat /\ Renew \in Nat /\ PostTime \in Nat /\ ReadLease \in Nat
    /\ Startup \in Nat /\ Idle \in Nat /\ Stale \in Nat /\ Collect \in Nat
    /\ MaxFailures \in Nat /\ MaxEvents \in Nat
    /\ Lease > (MaxFailures + 1) * RenewalGap + PostTime

VARIABLES
    wanted,    \* per client: what the provider's scope for opcbridge names
    worker,    \* per client: the worker thread
    late,      \* per client: posts given up, which may still arrive
    lease,     \* per client: time left of a registration of the tag, or 0
    read,      \* time left of the last read observed, 0 if none
    monitored, \* an active OPC UA monitored item exists
    plan,      \* the scheduler's entry for the tag, and when it was made
    planner,   \* the main loop's collection in progress
    observedFor, leasedFor, \* history: how long there has been demand of this
               \* source without a break
    quiet,     \* history: how long there has been no reason to poll it
    driverAge, \* history: age of the driver, up to Startup
    known,     \* history: clients with a registration of the tag that they keep
    events     \* counter for the bound

clientVars == <<wanted, worker, late>>
demandVars == <<lease, read, monitored>>
planVars == <<plan, planner, driverAge>>
held == <<observedFor, leasedFor>>
spans == <<held, quiet>>
vars == <<clientVars, demandVars, planVars, spans, known, events>>

-----------------------------------------------------------------------------
(* A scope names the tag or other tags; "none": there is no scope.  A post *)
(* of "none" is a release.                                                 *)
Scope == {"tag", "other", "none"}

(* The worker is asleep, posting, or gone; ran: it has passed in this      *)
(* second; sent: what it has registered last; due: the time until its      *)
(* renewal; fails: consecutive passes and posts without success.           *)
WorkerState == [phase: {"asleep", "posting", "gone"}, ran: BOOLEAN, sent: Scope,
                due: 0..Renew, arrived: BOOLEAN, elapsed: 0..PostTime,
                fails: 0..MaxFailures]

NewWorker == [phase |-> "asleep", ran |-> FALSE, sent |-> "none", due |-> 0,
              arrived |-> FALSE, elapsed |-> 0, fails |-> 0]

GoneWorker == [NewWorker EXCEPT !.phase = "gone"]

(* age: since the plan was made; started, idle: ages of the entry's        *)
(* started and last_demand; current: the entry is of this driver epoch.    *)
Plan == [made: BOOLEAN, age: 0..(Stale + 1), current: BOOLEAN, started: 0..Startup,
         idle: 0..Idle, wouldPoll: BOOLEAN]

NoPlan == [made |-> FALSE, age |-> 0, current |-> FALSE, started |-> 0, idle |-> 0,
           wouldPoll |-> TRUE]

(* leases: they have been read, too; elapsed: since the observations were. *)
Planner == [collecting: BOOLEAN, leases: BOOLEAN, seen: BOOLEAN, elapsed: 0..Collect]

IdlePlanner == [collecting |-> FALSE, leases |-> FALSE, seen |-> FALSE, elapsed |-> 0]

MostHeld  == Stale + Collect + 1
MostQuiet == Stale + Collect + Idle + 1

Upto(n, m) == IF n < m THEN n ELSE m

(* MUTANT of Left: a timer that has run out goes on.                       *)
LeftBelowZero(n) == n - 1

(* prune, snapshot: what has run out is dropped.                           *)
Left(n) == IF n = 0 THEN 0 ELSE n - 1

(* Demand of each source: the observations, the leases.                    *)
Observed == monitored \/ read > 0
Leased   == \E c \in Clients : lease[c] > 0

(* DemandSchedulerPreview::should_poll.                                    *)
ShouldPoll == ~plan.made \/ plan.age > Stale \/ ~plan.current \/ plan.wouldPoll

Init ==
    /\ wanted \in [Clients -> Scope]
    /\ worker = [c \in Clients |-> NewWorker]
    /\ late = [c \in Clients |-> {}]
    /\ lease = [c \in Clients |-> 0] /\ read = 0 /\ monitored = FALSE
    /\ plan = NoPlan /\ planner = IdlePlanner /\ driverAge = 0
    /\ observedFor = 0 /\ leasedFor = 0 /\ quiet = 0 /\ known = {} /\ events = 0

(* The demand that holds goes on or, when it ends, is forgotten.           *)
HeldOn == /\ observedFor' = IF Observed' THEN observedFor ELSE 0
          /\ leasedFor' = IF Leased' THEN leasedFor ELSE 0

(* What may keep the tag polled: demand, a plan that does not know the     *)
(* driver, or its startup grace.                                           *)
Reason == Observed \/ Leased \/ ~plan.made \/ ~plan.current \/ plan.started < Startup

QuietOn == quiet' = IF Reason' THEN 0 ELSE quiet

-----------------------------------------------------------------------------
(* Choices of users, operators and remote readers.                         *)

Event == events < MaxEvents /\ events' = events + 1

(* A flow is deployed or a logger job enabled, disabled, reconfigured.     *)
ChangeScope(c) ==
    /\ Event
    /\ worker[c].phase # "gone"
    /\ \E s \in Scope \ {wanted[c]} : wanted' = [wanted EXCEPT ![c] = s]
    /\ UNCHANGED <<worker, late, demandVars, planVars, spans, known>>

(* An HTTP or OPC UA read of the tag (http_read, ua_read).                 *)
ObserveRead ==
    /\ Event
    /\ read' = ReadLease
    /\ UNCHANGED <<clientVars, lease, monitored, planVars, known>>
    /\ HeldOn /\ QuietOn

(* A monitored item is created, or its mode changes, or it is removed; the *)
(* bound counts the former.                                                *)
ChangeMonitored ==
    /\ IF monitored THEN UNCHANGED events ELSE Event
    /\ monitored' = ~monitored
    /\ UNCHANGED <<clientVars, lease, read, planVars, known>>
    /\ HeldOn /\ QuietOn

(* A reload replaces the driver, on the main thread: the entry is of an    *)
(* older epoch from now on.                                                *)
ReplaceDriver ==
    /\ Event
    /\ ~planner.collecting
    /\ plan' = [plan EXCEPT !.current = FALSE]
    /\ driverAge' = 0
    /\ UNCHANGED <<clientVars, demandVars, planner, held, known>>
    /\ QuietOn

(* opcbridge is restarted: leases and observations are only in memory.     *)
RestartCore ==
    /\ Event
    /\ lease' = [c \in Clients |-> 0] /\ read' = 0 /\ monitored' = FALSE
    /\ plan' = NoPlan /\ planner' = IdlePlanner /\ driverAge' = 0
    /\ observedFor' = 0 /\ leasedFor' = 0 /\ quiet' = 0 /\ known' = {}
    /\ UNCHANGED clientVars

(* A post that has been sent and not been seen to arrive.                  *)
InFlight(c) == IF worker[c].phase = "posting" /\ ~worker[c].arrived THEN {worker[c].sent} ELSE {}

(* A service dies without releasing anything; its scope dies with it.      *)
Crash(c) ==
    /\ Event
    /\ worker[c].phase # "gone"
    /\ worker' = [worker EXCEPT ![c] = GoneWorker]
    /\ wanted' = [wanted EXCEPT ![c] = "none"]
    /\ late' = [late EXCEPT ![c] = @ \cup InFlight(c)]
    /\ known' = known \ {c}
    /\ UNCHANGED <<demandVars, planVars, spans>>

-----------------------------------------------------------------------------
(* The worker of a client.  What it has posted counts as sent, whether it  *)
(* arrives or not.                                                         *)

Post(c, s) ==
    /\ worker' = [worker EXCEPT ![c] = [@ EXCEPT !.phase = "posting", !.arrived = FALSE,
                                          !.elapsed = 0, !.sent = s, !.due = Renew]]
    /\ known' = IF s = "tag" THEN known ELSE known \ {c}

(* MUTANT of Pass: posted only when the scope has changed.                 *)
PassWithoutRenewal(c) ==
    /\ worker[c].phase = "asleep" /\ ~worker[c].ran
    /\ IF worker[c].sent # wanted[c] THEN Post(c, wanted[c])
       ELSE worker' = [worker EXCEPT ![c].ran = TRUE] /\ UNCHANGED known
    /\ UNCHANGED <<wanted, late, demandVars, planVars, spans, events>>

(* One pass: a scope that is gone is released; one that is new, has        *)
(* changed or is due for renewal is registered.                            *)
Pass(c) ==
    /\ worker[c].phase = "asleep" /\ ~worker[c].ran
    /\ IF worker[c].sent # wanted[c] \/ (wanted[c] # "none" /\ worker[c].due = 0)
       THEN Post(c, wanted[c])
       ELSE worker' = [worker EXCEPT ![c].ran = TRUE] /\ UNCHANGED known
    /\ UNCHANGED <<wanted, late, demandVars, planVars, spans, events>>

(* The provider throws: nothing is posted, the registrations are kept.     *)
ProviderFails(c) ==
    /\ worker[c].phase = "asleep" /\ ~worker[c].ran
    /\ worker[c].fails < MaxFailures
    /\ worker' = [worker EXCEPT ![c].ran = TRUE, ![c].fails = @ + 1]
    /\ UNCHANGED <<wanted, late, demandVars, planVars, spans, known, events>>

(* ConsumerDemandLeases::apply of a registration or a release.             *)
Apply(c, s) ==
    /\ lease' = [lease EXCEPT ![c] = IF s = "tag" THEN Lease ELSE 0]
    /\ UNCHANGED <<read, monitored, planVars>>
    /\ HeldOn /\ QuietOn

PostArrives(c) ==
    /\ worker[c].phase = "posting" /\ ~worker[c].arrived
    /\ worker' = [worker EXCEPT ![c].arrived = TRUE, ![c].fails = 0]
    /\ Apply(c, worker[c].sent)
    /\ known' = IF worker[c].sent = "tag" THEN known \cup {c} ELSE known
    /\ UNCHANGED <<wanted, late, events>>

(* The post returns, or it is given up; nobody posts it again before the   *)
(* next renewal is due.                                                    *)
PostEnds(c) ==
    /\ worker[c].phase = "posting"
    /\ worker[c].arrived \/ worker[c].fails < MaxFailures
    /\ worker' = [worker EXCEPT ![c].phase = "asleep", ![c].ran = TRUE,
                                ![c].arrived = FALSE, ![c].elapsed = 0,
                                ![c].fails = IF worker[c].arrived THEN @ ELSE @ + 1]
    /\ late' = [late EXCEPT ![c] = @ \cup InFlight(c)]
    /\ UNCHANGED <<wanted, demandVars, planVars, spans, known, events>>

(* stop(): the worker leaves its loop and posts a release of what it has   *)
(* sent, which may or may not arrive.                                      *)
Stop(c) ==
    /\ Event
    /\ worker[c].phase = "asleep"
    /\ worker' = [worker EXCEPT ![c] = GoneWorker]
    /\ wanted' = [wanted EXCEPT ![c] = "none"]
    /\ late' = [late EXCEPT ![c] = IF worker[c].sent = "none" THEN @ ELSE @ \cup {"none"}]
    /\ known' = known \ {c}
    /\ UNCHANGED <<demandVars, planVars, spans>>

(* A post that was given up arrives after all, or is lost.  The worker may *)
(* have posted something else in the meantime.                             *)
LateArrives(c) ==
    \E s \in late[c] :
        /\ late' = [late EXCEPT ![c] = @ \ {s}]
        /\ Apply(c, s)
        /\ known' = IF s = "tag" THEN known ELSE known \ {c}
        /\ UNCHANGED <<wanted, worker, events>>

LateLost(c) ==
    \E s \in late[c] :
        /\ late' = [late EXCEPT ![c] = @ \ {s}]
        /\ UNCHANGED <<wanted, worker, demandVars, planVars, spans, known, events>>

-----------------------------------------------------------------------------
(* The main loop: collect_polling_demand copies the observations, then the *)
(* leases, each under a lock of its own, and then waits for driverMutex;   *)
(* refresh stamps the plan when it has it all.                             *)

CollectObservations ==
    /\ ~planner.collecting
    /\ planner' = [collecting |-> TRUE, leases |-> FALSE, seen |-> Observed, elapsed |-> 0]
    /\ UNCHANGED <<clientVars, demandVars, plan, driverAge, spans, known, events>>

(* MUTANT of CollectLeases: what was observed is overwritten.              *)
CollectOnlyLeases ==
    /\ planner.collecting /\ ~planner.leases
    /\ planner' = [planner EXCEPT !.leases = TRUE, !.seen = Leased]
    /\ UNCHANGED <<clientVars, demandVars, plan, driverAge, spans, known, events>>

CollectLeases ==
    /\ planner.collecting /\ ~planner.leases
    /\ planner' = [planner EXCEPT !.leases = TRUE, !.seen = @ \/ Leased]
    /\ UNCHANGED <<clientVars, demandVars, plan, driverAge, spans, known, events>>

EntryWith(fresh, started, idle, seen) ==
    [made |-> TRUE, age |-> 0, current |-> TRUE,
     started |-> IF fresh THEN 0 ELSE started, idle |-> IF fresh \/ seen THEN 0 ELSE idle,
     wouldPoll |-> seen \/ fresh \/ started < Startup \/ idle < Idle]

(* MUTANT of Entry: the entry of a replaced driver is kept.                *)
EntryIgnoresEpoch(seen) == EntryWith(~plan.made, plan.started, plan.idle, seen)

(* MUTANT of Entry: last_demand is renewed by every refresh.               *)
EntryNeverIdle(seen) == EntryWith(~plan.made \/ ~plan.current, plan.started, 0, seen)

(* The entry as refresh leaves it: a new one for a new driver epoch, which *)
(* is in its startup grace.                                                *)
Entry(seen) == EntryWith(~plan.made \/ ~plan.current, plan.started, plan.idle, seen)

RefreshPlan ==
    /\ planner.collecting /\ planner.leases
    /\ planner' = IdlePlanner
    /\ plan' = Entry(planner.seen)
    /\ UNCHANGED <<clientVars, demandVars, driverAge, held, known, events>>
    /\ QuietOn

-----------------------------------------------------------------------------
(* Time passes when no worker has a pass or the end of a post overdue and  *)
(* no collection takes longer than Collect.                                *)
Tick ==
    /\ \A c \in Clients : /\ worker[c].phase = "asleep" => worker[c].ran
                          /\ worker[c].phase = "posting" => worker[c].elapsed < PostTime
    /\ planner.collecting => planner.elapsed < Collect
    /\ worker' = [c \in Clients |->
                    [worker[c] EXCEPT !.ran = FALSE, !.due = Left(@),
                                      !.elapsed = IF worker[c].phase = "posting" THEN @ + 1 ELSE @]]
    /\ lease' = [c \in Clients |-> Left(lease[c])]
    /\ read' = Left(read)
    /\ plan' = [plan EXCEPT !.age = Upto(@ + 1, Stale + 1), !.started = Upto(@ + 1, Startup),
                            !.idle = Upto(@ + 1, Idle)]
    /\ planner' = [planner EXCEPT !.elapsed = IF planner.collecting THEN @ + 1 ELSE @]
    /\ driverAge' = Upto(driverAge + 1, Startup)
    /\ UNCHANGED <<wanted, late, monitored, known, events>>
    /\ observedFor' = IF Observed' THEN Upto(observedFor + 1, MostHeld) ELSE 0
    /\ leasedFor' = IF Leased' THEN Upto(leasedFor + 1, MostHeld) ELSE 0
    /\ quiet' = IF Reason' THEN 0 ELSE Upto(quiet + 1, MostQuiet)

Next ==
    \/ \E c \in Clients : \/ ChangeScope(c) \/ Crash(c) \/ Stop(c)
                          \/ Pass(c) \/ ProviderFails(c) \/ PostArrives(c) \/ PostEnds(c)
                          \/ LateArrives(c) \/ LateLost(c)
    \/ ObserveRead \/ ChangeMonitored \/ ReplaceDriver \/ RestartCore
    \/ CollectObservations \/ CollectLeases \/ RefreshPlan
    \/ Tick

Spec == Init /\ [][Next]_vars

(* A worker passes, and its post ends one way or the other.                *)
WorkerSteps(c) == Pass(c) \/ PostArrives(c) \/ PostEnds(c)

MainLoop == CollectObservations \/ CollectLeases \/ RefreshPlan

(* The workers and the main loop run, late posts do not stay on their way, *)
(* and time does not stop.                                                 *)
Fairness ==
    /\ \A c \in Clients : /\ WF_vars(WorkerSteps(c))
                          /\ WF_vars(LateArrives(c) \/ LateLost(c))
    /\ WF_vars(MainLoop)
    /\ WF_vars(Tick)

FairSpec == Spec /\ Fairness

-----------------------------------------------------------------------------
(* Correctness.                                                            *)

(* Types, and timers within their ranges: nothing lasts longer than its    *)
(* lease, no worker fails more often than MaxFailures in a row.            *)
TypeOK ==
    /\ wanted \in [Clients -> Scope] /\ worker \in [Clients -> WorkerState]
    /\ late \in [Clients -> SUBSET Scope]
    /\ lease \in [Clients -> 0..Lease] /\ read \in 0..ReadLease /\ monitored \in BOOLEAN
    /\ plan \in Plan /\ planner \in Planner /\ driverAge \in 0..Startup
    /\ observedFor \in 0..MostHeld /\ leasedFor \in 0..MostHeld /\ quiet \in 0..MostQuiet
    /\ known \subseteq Clients /\ events \in 0..MaxEvents

(* A tag that one source has demanded for longer than a plan is trusted    *)
(* plus the time a collection may take is polled: also when the main loop  *)
(* has stalled, when the demand has moved from one client to another or    *)
(* from one reader to another, when the other source lost its demand       *)
(* during the collection, and across driver replacements ("Fail open for   *)
(* incomplete/stale plans and replacement drivers",                        *)
(* demand_scheduler_preview.h:48).  The sources are read in turn           *)
(* (main.cpp:14587-14589), so that demand that moves from a lease to an    *)
(* observation in between is found in neither: nothing is said of it.      *)
DemandIsPolled == observedFor > Stale + Collect \/ leasedFor > Stale + Collect => ShouldPoll

(* A driver is polled through its startup grace, however long the tag had  *)
(* been without demand under the driver it replaces.                       *)
NewDriverIsPolled == driverAge < Startup => ShouldPoll

(* A tag for which there has been no reason to poll for longer than a plan *)
(* is trusted, a collection may take and the idle grace lasts is not       *)
(* polled as long as the main loop keeps its plan fresh: what an old       *)
(* collection has seen does not keep it alive                              *)
(* (demand_scheduler_preview.h:30-44).                                     *)
UnwantedIsSuspended ==
    quiet > Stale + Collect + Idle /\ plan.age <= Stale => ~ShouldPoll

(* A registration that its client keeps never runs out: renewing every ten *)
(* seconds keeps a sixty-second lease through MaxFailures consecutive      *)
(* failures of the provider or of posts, which are not repeated before the *)
(* next renewal.                                                           *)
RegistrationIsKept == \A c \in known : lease[c] > 0

(* When nobody wants the tag any more, because every client dropped it,    *)
(* stopped or died and no item monitors it, polling is suspended in the    *)
(* end: what a lost release leaves behind expires.                         *)
AbandonedTagIdles ==
    <>[](/\ ~monitored
         /\ \A c \in Clients : wanted[c] # "tag")
        => []<>~ShouldPoll

(* A client that goes on wanting the tag has a registration in the end and *)
(* keeps it, whatever late release has undone it and when opcbridge was    *)
(* restarted ("a restarted core receives the next renewal",                *)
(* docs/design/active-tag-polling.md:180).                                 *)
RegistrationReturns ==
    \A c \in Clients :
        <>[](wanted[c] = "tag") => <>[](lease[c] > 0)
=============================================================================
